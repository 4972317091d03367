\* One notch of the wheel while the window is quiet.
SPECIFICATION Spec
CONSTANTS
    Smooth = {TRUE}
    WheelDelta = 2
    WheelEvents <- OneNotch
    MaxPending = 2
    PageLines = 1
    Scrollback = 1
    Steps = 2
    MaxCaptures = 2
INVARIANTS
    AnimationSettles
