\* From the core to the window, with frames merged before a paint.
SPECIFICATION Spec
CONSTANTS
    Heights = {1, 2, 3}
    Chars = {"sp", "x"}
    Space = "sp"
    Reversed = FALSE
    Ops <- AllOps
    Scrollback = 1
    MaxWork = 2
    MaxMergedDelta = 0
    PaintsKeepUp = FALSE
INVARIANTS
    TypeOK PackedGridExact BackingBitmapExact WindowCurrentWhereUnmoved
ACTION_CONSTRAINT WindowBounds
VIEW WindowView
