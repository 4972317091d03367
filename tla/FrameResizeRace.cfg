\* A resize while a frame waits to be painted.
SPECIFICATION Spec
CONSTANTS
    Heights = {2, 3}
    Chars = {"sp", "x"}
    Space = "sp"
    Reversed = FALSE
    Ops <- ResizeOps
    Scrollback = 1
    MaxWork = 1
    MaxMergedDelta = 0
    PaintsKeepUp = FALSE
INVARIANTS
    WindowCurrent
VIEW WindowView
