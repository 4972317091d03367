----------------------------- MODULE ControlInput -----------------------------
(***************************************************************************)
(* What the mouse, the wheel and the keyboard do to the wx control         *)
(* (wx/terminal_ctrl.cpp), with the smooth scrolling of its renderer       *)
(* (wx/terminal_renderer.cpp).                                             *)
(*                                                                         *)
(* One event handler is one action.  What the handlers do to the picture   *)
(* is written as functions on the record `display`, applied in the order   *)
(* of the calls.  The window has two zones, the cursor's line and the      *)
(* rest; of a zone only this is kept: is what the window shows the         *)
(* settled picture, or a frame of an animation.  Which cells a frame shows *)
(* is the matter of FramePipeline; here a frame is what it touches and     *)
(* how the user's view moved.                                              *)
(***************************************************************************)
EXTENDS Integers, FiniteSets, FiniteSetsExt

CONSTANTS
    Smooth,         \* TerminalConfig::smooth_scrolling may be any of these
    WheelDelta,     \* normalized rotation of one notch (kWheelDelta)
    WheelEvents,    \* GetWheelRotation, GetWheelDelta, GetLinesPerAction and
                    \* IsPageScroll of the wheel events there may be
    MaxPending,     \* kMaxPendingWheelLines
    PageLines,      \* rows of the window less one
    Scrollback,     \* bound: lines the view can be scrolled back
    Steps,          \* bound: pictures of an animation
    MaxCaptures     \* bound: no button is pressed with more captures left over

ASSUME InputAssumption ==
    /\ Smooth # {} /\ Smooth \subseteq BOOLEAN
    /\ WheelDelta \in Nat \ {0} /\ MaxPending \in Nat \ {0}
    /\ WheelEvents \subseteq [rotation : Int, delta : Int, lines : Int, page : BOOLEAN]
    /\ PageLines \in Nat \ {0} /\ Scrollback \in Nat
    /\ Steps \in Nat \ {0} /\ MaxCaptures \in Nat \ {0}

VARIABLES
    smooth,             \* smooth_scrolling
    display,            \* the picture: see DisplayType
    window,             \* is what each zone of the window shows settled?
    framebuffer_valid,
    pointer_down, selection_dragging, auto_scroll_direction,
    mouse_reporting_gesture, mouse_reporting_button,
    selected,           \* selection_active_ of the core
    reporting,          \* does the child ask for mouse reports?
    captures,           \* how often the window has captured the mouse
    wheel_rotation, pending_wheel_lines,
    \* The world: buttons held down, and those the child was told are down
    held, reported,
    \* History: was a second button pressed while the first was held; the
    \* rotation that has not been scrolled yet, in lines times WheelDelta, where
    \* a part of a notch counts with the lines of the last event, the rate
    overlapped, owed, rate

pointer == <<pointer_down, selection_dragging, auto_scroll_direction,
             mouse_reporting_gesture, mouse_reporting_button, selected, captures>>
wheel   == <<wheel_rotation, pending_wheel_lines, owed, rate>>
mouse   == <<held, reported, overlapped>>
picture == <<display, window, framebuffer_valid>>
vars    == <<smooth, picture, pointer, wheel, mouse, reporting>>

Zones == {"line", "rest"}
Buttons == {"left", "right"}
Magnitude(n) == IF n < 0 THEN -n ELSE n
NoFrame == [kind |-> "none", area |-> {}, delta |-> 0]

-----------------------------------------------------------------------------
(* The core, the frames and the renderer, as functions on the display.      *)

\* The view, of which positive numbers are older lines, and what of the screen
\* was touched: view movement and output that scrolls are noted for the frame.
ScrollLines(d, lines) ==
    LET after == Max({0, Min({Scrollback, d.view + lines})})
    IN [d EXCEPT !.view = after, !.delta = @ + (d.view - after),
                 !.touched = IF after = d.view THEN @ ELSE Zones]

Touch(d, zones) == [d EXCEPT !.touched = @ \cup zones]

\* Output that scrolls is a movement of the content at the bottom only; a view
\* further up keeps its lines and gets further from the bottom.
ScrollOutput(d) ==
    IF d.view = 0
    THEN [d EXCEPT !.touched = @ \cup {"line"}, !.scrolled = TRUE]
    ELSE [d EXCEPT !.touched = Zones, !.view = Min({Scrollback, @ + 1})]

\* TakePackedFrame, and what taking it leaves in the core.
Frame(d) ==
    [kind  |-> IF d.scrolled THEN "other" ELSE IF d.delta # 0 THEN "viewport" ELSE "none",
     area  |-> IF d.scrolled /\ d.delta # 0 THEN Zones ELSE d.touched,
     delta |-> IF d.scrolled THEN 0 ELSE d.delta]
FrameTaken(d) == [d EXCEPT !.touched = {}, !.delta = 0, !.scrolled = FALSE]

MergedKind(new, old) ==
    IF new = "none" THEN old ELSE IF old \in {"none", new} THEN new ELSE "other"

\* A full frame stays full; Refresh or RefreshRect invalidate what it covers.
RequestFrameRefresh(d) ==
    LET new == Frame(d)
        kind == MergedKind(new.kind, d.frame.kind)
        merged == [kind  |-> kind,
                   area  |-> new.area \cup d.frame.area,
                   delta |-> IF kind = "other" THEN 0 ELSE new.delta + d.frame.delta]
    IN IF new.area = {} THEN FrameTaken(d)
       ELSE [FrameTaken(d) EXCEPT !.frame = merged, !.invalid = @ \cup merged.area]

Refresh(d) == [d EXCEPT !.invalid = Zones]

CancelScrollAnimation(d) == [d EXCEPT !.animation = 0]

\* What the window shows once `zones` of it are drawn.
Drawn(d, zones) ==
    [z \in Zones |-> IF z \in zones THEN (IF d.animation > 0 THEN "moving" ELSE "settled")
                     ELSE window[z]]

\* PaintFrame begins an animation for a movement of the view by the user, and
\* ends the one that runs for any other frame.
BeginsAnimation(frame) ==
    smooth /\ framebuffer_valid /\ frame.kind = "viewport" /\ frame.delta # 0

OnPaint ==
    /\ display.invalid # {}
    /\ LET waiting == display.frame # NoFrame
           frame == IF waiting THEN display.frame ELSE Frame(display)
           taken == IF waiting THEN display ELSE FrameTaken(display)
           painted ==
             [taken EXCEPT !.frame = NoFrame, !.invalid = {},
                           !.animation = IF frame.area = {} THEN @
                                         ELSE IF BeginsAnimation(frame) THEN Steps
                                         ELSE 0]
       IN /\ display' = painted
          /\ window' = Drawn(painted, display.invalid)
          /\ framebuffer_valid' = (framebuffer_valid \/ frame.area # {})
    /\ UNCHANGED <<smooth, pointer, wheel, mouse, reporting>>

\* OnSize, which leaves a bitmap of the wrong size.  If rows or columns change,
\* the core returns to the bottom and forgets how the view moved; a frame that
\* waits does not.  Bound: one such frame before the next paint.
CoreResized ==
    [display EXCEPT !.view = 0, !.delta = 0, !.scrolled = FALSE, !.touched = Zones]
OnSize(geometry) ==
    /\ Magnitude(display.frame.delta) <= Scrollback
    /\ display' = Refresh(CancelScrollAnimation(
                      IF geometry THEN CoreResized ELSE display))
    /\ window' = [z \in Zones |-> "lost"]
    /\ framebuffer_valid' = FALSE
    /\ UNCHANGED <<smooth, pointer, wheel, mouse, reporting>>

\* The desktop uncovers a zone of the window.
Expose(zone) ==
    /\ display' = [display EXCEPT !.invalid = @ \cup {zone}]
    /\ window' = [window EXCEPT ![zone] = "lost"]
    /\ UNCHANGED <<smooth, framebuffer_valid, pointer, wheel, mouse, reporting>>

-----------------------------------------------------------------------------
(* The keyboard.                                                            *)

\* OnChar: a key may be handled by the core, or be the shortcut for copy or
\* paste, or be skipped.
OnChar(refresh) ==
    /\ display' = LET d == CancelScrollAnimation(display)
                  IN IF refresh THEN RequestFrameRefresh(d) ELSE d
    /\ UNCHANGED <<smooth, window, framebuffer_valid, pointer, wheel, mouse, reporting>>

\* Ctrl-Shift-R: the selection and the screen are cleared.
RestartKey ==
    /\ display' = RequestFrameRefresh(Touch(CancelScrollAnimation(display), Zones))
    /\ selected' = FALSE
    /\ UNCHANGED <<smooth, window, framebuffer_valid, pointer_down, selection_dragging,
                   auto_scroll_direction, mouse_reporting_gesture, mouse_reporting_button,
                   captures, wheel, mouse, reporting>>

-----------------------------------------------------------------------------
(* The wheel.                                                               *)

Toward(n, size) == IF n < 0 THEN -size ELSE size
Truncated(n) == Toward(n, Magnitude(n) \div WheelDelta)

\* A plausible bug: the lines that wait are not limited.
Unclamped(n) == n
Clamped(n) == Max({-MaxPending, Min({MaxPending, n})})

Remainder(turned) == turned - Truncated(turned) * WheelDelta

EventDelta(event) == Max({1, event.delta})

\* A plausible bug: every device is taken for one of kWheelDelta.
NotNormalized(event) == event.rotation

\* Whatever the device calls a notch becomes WheelDelta; the quotient rounds
\* toward zero, and what it drops is not kept.
Normalized(event) ==
    Toward(event.rotation,
           (Magnitude(event.rotation) * WheelDelta) \div EventDelta(event))

LinesPerAction(event) == IF event.page THEN PageLines ELSE Max({1, event.lines})

\* History: how many whole parts, WheelDelta of which make a notch, there are in
\* what the event turned.
WholeParts(event) ==
    LET size == Magnitude(event.rotation) * WheelDelta
    IN Toward(event.rotation, Max({n \in 0..size : n * EventDelta(event) <= size}))

QueueWheelScroll(event) ==
    \/ event.rotation = 0 /\ UNCHANGED wheel
    \/ /\ event.rotation # 0
       /\ LET turned == wheel_rotation + Normalized(event)
              actions == Truncated(turned)
              lines == LinesPerAction(event)
              wanted == pending_wheel_lines + actions * lines
          IN /\ wheel_rotation' = IF actions = 0 THEN turned ELSE Remainder(turned)
             /\ pending_wheel_lines' = Clamped(wanted)
             /\ rate' = lines
             /\ owed' = owed + wheel_rotation * (lines - rate)
                             + WholeParts(event) * lines
                             - (wanted - Clamped(wanted)) * WheelDelta

\* OnMouseWheel: the child gets the wheel if it asks for the mouse, unless
\* Shift is held.
OnMouseWheel(event, shift) ==
    /\ UNCHANGED <<smooth, window, framebuffer_valid, pointer, mouse, reporting>>
    /\ \/ /\ reporting /\ ~shift
          /\ display' = CancelScrollAnimation(display)
          /\ UNCHANGED wheel
       \/ /\ shift \/ ~reporting
          /\ QueueWheelScroll(event)
          /\ UNCHANGED display

-----------------------------------------------------------------------------
(* The buttons.                                                             *)

\* libtsm takes every press while the child asks for reports.
Forwarded(shift) == reporting /\ ~shift

Pressed(button) ==
    /\ button \notin held
    /\ captures < MaxCaptures
    /\ held' = held \cup {button}
    /\ overlapped' = (overlapped \/ held # {})

\* ForwardMouse and BeginMouseReporting.
BeginMouseReporting(button) ==
    /\ mouse_reporting_gesture' = TRUE
    /\ mouse_reporting_button' = button
    /\ captures' = captures + 1
    /\ reported' = reported \cup {button}

\* OnLeftDown.  A double or triple click selects at once; Shift extends a
\* selection there is.
OnLeftDown(shift, multiple) ==
    /\ Pressed("left")
    /\ UNCHANGED <<smooth, window, framebuffer_valid, wheel, reporting,
                   auto_scroll_direction>>
    /\ \/ /\ Forwarded(shift)
          /\ BeginMouseReporting("left")
          /\ display' = CancelScrollAnimation(display)
          /\ UNCHANGED <<pointer_down, selection_dragging, selected>>
       \/ /\ ~Forwarded(shift)
          /\ pointer_down' = TRUE
          /\ selection_dragging' = (shift /\ selected)
          /\ selected' = ((shift /\ selected) \/ multiple)
          /\ captures' = captures + 1
          /\ display' = RequestFrameRefresh(Touch(CancelScrollAnimation(display),
                            IF selected \/ multiple THEN {"line"} ELSE {}))
          /\ UNCHANGED <<mouse_reporting_gesture, mouse_reporting_button, reported>>

\* OnMouseButtonDown: the right and the middle button.
OnMouseButtonDown(shift) ==
    /\ Pressed("right")
    /\ UNCHANGED <<smooth, picture, wheel, reporting, pointer_down, selection_dragging,
                   auto_scroll_direction, selected>>
    /\ \/ /\ Forwarded(shift)
          /\ BeginMouseReporting("right")
       \/ /\ ~Forwarded(shift)
          /\ UNCHANGED <<mouse_reporting_gesture, mouse_reporting_button, captures,
                         reported>>

Idle == ~pointer_down /\ ~selection_dragging /\ ~mouse_reporting_gesture
            /\ auto_scroll_direction = 0 /\ captures = 0 /\ reported = {}

Released(button) ==
    /\ button \in held
    /\ held' = held \ {button}

\* A new gesture begins once nothing is left of those that overlapped.
OverlapEnds == overlapped' = (overlapped /\ ~(held' = {} /\ Idle'))

\* EndMouseReporting: the child is told the button that began the gesture, if
\* it still listens.
EndMouseReporting ==
    /\ mouse_reporting_gesture' = FALSE
    /\ reported' = reported \ {mouse_reporting_button}
    /\ captures' = Max({0, captures - 1})
    /\ UNCHANGED <<pointer_down, selection_dragging, auto_scroll_direction,
                   mouse_reporting_button, selected, display>>

\* A plausible bug: the release is routed by the mode of now, not of the press.
ReleaseByMode == reporting

EndsReporting == mouse_reporting_gesture

OnLeftUp ==
    /\ Released("left")
    /\ UNCHANGED <<smooth, window, framebuffer_valid, wheel, reporting>>
    /\ \/ /\ EndsReporting
          /\ EndMouseReporting
       \/ /\ ~EndsReporting
          /\ ~pointer_down
          /\ UNCHANGED <<display, pointer, reported>>
       \/ /\ ~EndsReporting
          /\ pointer_down
          /\ pointer_down' = FALSE
          /\ selection_dragging' = FALSE
          /\ auto_scroll_direction' = 0
          /\ captures' = Max({0, captures - 1})
          /\ display' = RequestFrameRefresh(Touch(display,
                            IF selection_dragging THEN {"line"} ELSE {}))
          /\ UNCHANGED <<mouse_reporting_gesture, mouse_reporting_button, selected,
                         reported>>
    /\ OverlapEnds

\* OnMouseButtonUp.
OnMouseButtonUp ==
    /\ Released("right")
    /\ UNCHANGED <<smooth, window, framebuffer_valid, wheel, reporting>>
    /\ \/ /\ mouse_reporting_gesture
          /\ EndMouseReporting
       \/ /\ ~mouse_reporting_gesture
          /\ UNCHANGED <<display, pointer, reported>>
    /\ OverlapEnds

\* OnMotion by four pixels or more with a button held; UpdateSelectionAt
\* scrolls when the pointer is above (-1) or below (1) the window.
Autoscrolled(d, direction) ==
    IF direction = 0 THEN d ELSE ScrollLines(d, IF direction < 0 THEN 1 ELSE -1)

OnMotion(direction) ==
    /\ held # {}
    /\ ~mouse_reporting_gesture
    /\ pointer_down
    /\ selected' = (selected \/ ~selection_dragging)
    /\ selection_dragging' = TRUE
    /\ auto_scroll_direction' = direction
    /\ display' = RequestFrameRefresh(Touch(
           Autoscrolled(CancelScrollAnimation(display), direction), {"line"}))
    /\ UNCHANGED <<smooth, window, framebuffer_valid, pointer_down,
                   mouse_reporting_gesture, mouse_reporting_button, captures, wheel, mouse,
                   reporting>>

-----------------------------------------------------------------------------
(* The timer.                                                               *)

\* FlushWheelScroll, when no animation is active.
FlushedLines ==
    Toward(pending_wheel_lines,
           Min({Magnitude(pending_wheel_lines), IF smooth THEN PageLines ELSE 1}))

\* The wheel waits for the animation; otherwise a step of the animation is
\* drawn.
Animated(d, changed) ==
    IF d.animation = 0 /\ pending_wheel_lines # 0
    THEN RequestFrameRefresh(ScrollLines(d, FlushedLines))
    ELSE IF changed THEN Refresh(d) ELSE d

Dragged(d) ==
    IF selection_dragging /\ auto_scroll_direction # 0
    THEN RequestFrameRefresh(Touch(
             Autoscrolled(CancelScrollAnimation(d), auto_scroll_direction), {"line"}))
    ELSE d

\* Output of the child: of one line, of many, scrolling the screen, or a
\* mode that shows nothing.
Outputs == {"none", "line", "all", "scroll", "mode"}
Fed(d, output) ==
    LET fed == CASE output = "line"   -> Touch(d, {"line"})
                 [] output = "all"    -> Touch(d, Zones)
                 [] output = "scroll" -> ScrollOutput(d)
                 [] OTHER             -> d
    IN IF output = "none" THEN d ELSE RequestFrameRefresh(CancelScrollAnimation(fed))

\* UpdateTransportStatus: a new state may come with a notice on the screen.
News == {"none", "state", "notice"}
Noticed(d, news) ==
    IF news = "none" THEN d
    ELSE RequestFrameRefresh(Touch(d, IF news = "notice" THEN {"line"} ELSE {}))

\* AdvanceScrollAnimation leaves `next` pictures to go.
OnTimer(next, output, news) ==
    /\ next <= display.animation
    /\ display' = Noticed(Fed(Dragged(Animated([display EXCEPT !.animation = next],
                                               next # display.animation)),
                              output),
                          news)
    /\ IF next = 0 /\ pending_wheel_lines # 0
       THEN /\ pending_wheel_lines' = pending_wheel_lines - FlushedLines
            /\ owed' = owed - FlushedLines * WheelDelta
       ELSE UNCHANGED <<pending_wheel_lines, owed>>
    /\ reporting' = IF output = "mode" THEN ~reporting ELSE reporting
    /\ reported' = IF reporting' THEN reported ELSE {}
    /\ UNCHANGED <<smooth, window, framebuffer_valid, pointer, wheel_rotation, rate,
                   held, overlapped>>

-----------------------------------------------------------------------------

Init ==
    /\ smooth \in Smooth
    /\ display = [view |-> 0, delta |-> 0, scrolled |-> FALSE, touched |-> Zones,
                  frame |-> NoFrame, invalid |-> Zones, animation |-> 0]
    /\ window = [z \in Zones |-> "lost"]
    /\ framebuffer_valid = FALSE
    /\ pointer_down = FALSE /\ selection_dragging = FALSE /\ auto_scroll_direction = 0
    /\ mouse_reporting_gesture = FALSE /\ mouse_reporting_button = "left"
    /\ selected = FALSE /\ reporting = FALSE /\ captures = 0
    /\ wheel_rotation = 0 /\ pending_wheel_lines = 0
    /\ held = {} /\ reported = {} /\ overlapped = FALSE
    /\ owed = 0 /\ rate = 1

Mouse ==
    \/ \E event \in WheelEvents, shift \in BOOLEAN : OnMouseWheel(event, shift)
    \/ \E shift \in BOOLEAN, multiple \in BOOLEAN : OnLeftDown(shift, multiple)
    \/ \E shift \in BOOLEAN : OnMouseButtonDown(shift)
    \/ \E direction \in {-1, 0, 1} : OnMotion(direction)
    \/ OnLeftUp
    \/ OnMouseButtonUp

Timer ==
    \E next \in 0..Steps, output \in Outputs, news \in News :
        OnTimer(next, output, news)

Next ==
    \/ OnPaint \/ Timer \/ Mouse
    \/ \E geometry \in BOOLEAN : OnSize(geometry)
    \/ \E refresh \in BOOLEAN : OnChar(refresh)
    \/ RestartKey
    \/ \E zone \in Zones : Expose(zone)

Spec == Init /\ [][Next]_vars

-----------------------------------------------------------------------------
(* Properties                                                               *)

DisplayType ==
    [view : 0..Scrollback, delta : Int, scrolled : BOOLEAN,
     touched : SUBSET Zones, invalid : SUBSET Zones, animation : 0..Steps,
     frame : [kind : {"none", "viewport", "other"}, area : SUBSET Zones, delta : Int]]

\* Types: between two handlers the core has no movement of the view or of the
\* content left that no frame was taken for, and the wheel never holds back a
\* whole notch.  The movement of a frame that waits has no bound: output takes
\* a view that is scrolled back further up without counting for a frame.
TypeOK ==
    /\ smooth \in BOOLEAN
    /\ display \in DisplayType /\ display.delta = 0 /\ ~display.scrolled
    /\ window \in [Zones -> {"lost", "moving", "settled"}]
    /\ framebuffer_valid \in BOOLEAN
    /\ pointer_down \in BOOLEAN /\ selection_dragging \in BOOLEAN
    /\ auto_scroll_direction \in {-1, 0, 1}
    /\ mouse_reporting_gesture \in BOOLEAN /\ mouse_reporting_button \in Buttons
    /\ selected \in BOOLEAN /\ reporting \in BOOLEAN /\ captures \in 0..MaxCaptures
    /\ wheel_rotation \in 1 - WheelDelta .. WheelDelta - 1
    /\ pending_wheel_lines \in -MaxPending..MaxPending
    /\ owed \in Int /\ rate \in Nat \ {0}
    /\ held \subseteq Buttons /\ reported \subseteq Buttons /\ overlapped \in BOOLEAN

\* When no button is down the control has let go of the mouse: nothing is
\* dragged, nothing scrolls by itself, and the child was told of the release of
\* every press it was told of, though the mode, Shift or the selection changed
\* in between; unless a second button was pressed while the first was held.
ButtonsUpMeansIdle == held = {} /\ ~overlapped => Idle

\* The wheel is accounted for: the whole parts of a notch that the events
\* turned, in lines of the last event, are what was scrolled, what waits in
\* lines, what waits in parts of a notch, and lines given up beyond
\* kMaxPendingWheelLines; a turn back takes back lines that wait.  What an event
\* turns beyond whole parts is lost: that much normalized_rotation rounds away.
WheelExact == owed = wheel_rotation * rate + pending_wheel_lines * WheelDelta

\* "Preserve correct invalidation for scrolling, selection, cursor, and resize"
\* (TODO.md): when no animation runs and everything invalidated has been
\* painted, no zone of the window is left with a picture of an animation.
AnimationSettles ==
    display.animation = 0 /\ display.invalid = {} =>
        \A z \in Zones : window[z] = "settled"
=============================================================================
