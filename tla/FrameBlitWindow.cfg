\* Line feeds, each painted before the next.
SPECIFICATION Spec
CONSTANTS
    Heights = {3}
    Chars = {"sp", "x"}
    Space = "sp"
    Reversed = FALSE
    Ops <- ScrollOps
    Scrollback = 1
    MaxWork = 1
    MaxMergedDelta = 0
    PaintsKeepUp = TRUE
INVARIANTS
    WindowCurrent
VIEW WindowView
