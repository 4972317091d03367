\* Every event, over two buttons, wheels of several devices and a view that can
\* be scrolled back one line.
SPECIFICATION Spec
CONSTANTS
    Smooth = {TRUE, FALSE}
    WheelDelta = 2
    WheelEvents <- ManyWheels
    MaxPending = 1
    PageLines = 2
    Scrollback = 1
    Steps = 1
    MaxCaptures = 2
INVARIANTS
    TypeOK ButtonsUpMeansIdle WheelExact
VIEW WhatMatters
