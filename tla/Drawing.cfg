\* How a frame is made, kept by the host and painted, and the cursor's style.
SPECIFICATION DrawingSpec
CONSTANTS
    Sizes <- SmallSizes
    Glyphs <- NarrowAndWide
    BlankAttr <- Normal
    Looks = {"block", "bar"}
    StyleLimit = 4
    Handles = {1, 2}
    GridIds = {1, 2, 3}
    NoGrid = 0
    MaxWork = 2
    RowColumns = 3
    RowCells <- CellKinds
    RowStyles <- StyleTable
    WideCharacters = {"W"}
    DefaultBackground = 0
    CellWidths = {1, 3}
    BytesPerPixel = 1
    MaxRunCells = 2
    MaxEntries = 2
    MaxBytes = 4
    Bytes <- OutputBytes
    ParameterLimit = 2
    LongMax = 60
    UIntModulus = 50
    MaxSequence = 7
INVARIANTS
    GridTypeOK RowsWellFormed GlyphCacheBounded RowShowsCells
PROPERTIES
    HeldFramesFrozen FramesShowScreen SpansSufficeToRepaint CursorStyleFollowsSequences
VIEW DrawingView
ACTION_CONSTRAINT WideScreenBounds
