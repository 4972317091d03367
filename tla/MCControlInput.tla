---------------------------- MODULE MCControlInput ----------------------------
(***************************************************************************)
(* The values TLC gives to the constants of ControlInput.                  *)
(***************************************************************************)
EXTENDS ControlInput

\* With two parts to a notch: three quarters of a notch back, of which a half
\* is counted, for no lines; a notch and a half of pages; one notch of a device
\* that names no delta, for two lines; no rotation.
ManyWheels ==
    {[rotation |-> -3, delta |-> 4, lines |-> 0, page |-> FALSE],
     [rotation |-> 3, delta |-> 2, lines |-> 1, page |-> TRUE],
     [rotation |-> 1, delta |-> 0, lines |-> 2, page |-> FALSE],
     [rotation |-> 0, delta |-> 2, lines |-> 1, page |-> FALSE]}
OneNotch == {[rotation |-> 2, delta |-> 2, lines |-> 1, page |-> FALSE]}

\* The run of the buttons and the wheel does not tell apart states that differ
\* only in what the window shows, in the button of a gesture that is over, in the
\* rate of no rotation, or, without smooth scrolling, in the validity of the
\* bitmap: no guard and no other variable depends on these, and of the
\* properties of that run only their types read them.
WhatMatters ==
    <<smooth, display, smooth /\ framebuffer_valid, pointer_down, selection_dragging,
      auto_scroll_direction, mouse_reporting_gesture,
      IF mouse_reporting_gesture THEN mouse_reporting_button ELSE "left",
      selected, captures, wheel_rotation, pending_wheel_lines, owed,
      IF wheel_rotation = 0 THEN 1 ELSE rate, mouse, reporting>>
=============================================================================
