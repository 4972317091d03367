-------------------------- MODULE ControlInputProofs --------------------------
(***************************************************************************)
(* What TLAPS proves of ControlInput for every value of its constants.     *)
(***************************************************************************)
EXTENDS ControlInput, TLAPS

LEMMA MinMax ==
    ASSUME NEW a \in Int, NEW b \in Int
    PROVE  /\ Max({a, b}) \in {a, b} /\ Max({a, b}) >= a /\ Max({a, b}) >= b
           /\ Min({a, b}) \in {a, b} /\ Min({a, b}) <= a /\ Min({a, b}) <= b
<1>1. \E x \in {a, b} : \A y \in {a, b} : x >= y
  <2>1. CASE a >= b
    BY <2>1
  <2>2. CASE b >= a
    BY <2>2
  <2> QED
    BY <2>1, <2>2
<1>2. \E x \in {a, b} : \A y \in {a, b} : x <= y
  <2>1. CASE a <= b
    BY <2>1
  <2>2. CASE b <= a
    BY <2>2
  <2> QED
    BY <2>1, <2>2
<1> QED
  BY <1>1, <1>2 DEF Max, Min

LEMMA FromZero ==
    ASSUME NEW b \in Int
    PROVE  Max({0, b}) \in {0, b} /\ Max({0, b}) >= 0 /\ Max({0, b}) >= b
<1>1. PICK z \in Int : z = 0
  OBVIOUS
<1>2. Max({z, b}) \in {z, b} /\ Max({z, b}) >= z /\ Max({z, b}) >= b
  BY MinMax
<1> QED
  BY <1>1, <1>2

-----------------------------------------------------------------------------
(* The wheel.                                                               *)

WheelInv ==
    /\ wheel_rotation \in Int /\ pending_wheel_lines \in Int
    /\ owed \in Int /\ rate \in Nat \ {0}
    /\ WheelExact

\* The wheel's own handler, and the timer, write its variables.
Turns == \E event \in WheelEvents : QueueWheelScroll(event)
Flushes ==
    /\ pending_wheel_lines' = pending_wheel_lines - FlushedLines
    /\ owed' = owed - FlushedLines * WheelDelta
    /\ UNCHANGED <<wheel_rotation, rate>>

LEMMA WheelWriters == [Next]_vars => UNCHANGED wheel \/ Turns \/ Flushes
<1> SUFFICES ASSUME [Next]_vars PROVE UNCHANGED wheel \/ Turns \/ Flushes
  OBVIOUS
<1>1. CASE OnPaint \/ (\E geometry \in BOOLEAN : OnSize(geometry)) \/ RestartKey
            \/ (\E refresh \in BOOLEAN : OnChar(refresh))
            \/ (\E zone \in Zones : Expose(zone))
  BY <1>1 DEF OnPaint, OnSize, RestartKey, OnChar, Expose, wheel
<1>2. CASE Timer
  BY <1>2 DEF Timer, OnTimer, Flushes, wheel
<1>3. CASE Mouse
  BY <1>3 DEF Mouse, OnMouseWheel, OnLeftDown, OnMouseButtonDown, OnMotion, OnLeftUp,
     OnMouseButtonUp, Turns, wheel
<1>4. CASE UNCHANGED vars
  BY <1>4 DEF vars, wheel
<1> QED
  BY <1>1, <1>2, <1>3, <1>4 DEF Next

LEMMA TowardType ==
    ASSUME NEW n \in Int, NEW size \in Int PROVE Toward(n, size) \in Int
BY DEF Toward

LEMMA MagnitudeType == ASSUME NEW n \in Int PROVE Magnitude(n) \in Nat
BY DEF Magnitude

LEMMA TruncatedType == ASSUME NEW n \in Int PROVE Truncated(n) \in Int
<1>1. Magnitude(n) \div WheelDelta \in Int
  BY MagnitudeType, InputAssumption
<1> QED
  BY <1>1, TowardType DEF Truncated

LEMMA ClampedType == ASSUME NEW n \in Int PROVE Clamped(n) \in Int
<1> DEFINE most == Min({MaxPending, n})
<1>1. MaxPending \in Int /\ -MaxPending \in Int
  BY InputAssumption
<1>2. most \in Int
  BY <1>1, MinMax
<1> HIDE DEF most
<1>3. Max({-MaxPending, most}) \in Int
  BY <1>1, <1>2, MinMax
<1> QED
  BY <1>3 DEF Clamped, most

LEMMA FlushedType ==
    ASSUME pending_wheel_lines \in Int PROVE FlushedLines \in Int
<1> DEFINE page == IF smooth THEN PageLines ELSE 1
           size == Magnitude(pending_wheel_lines)
<1>1. page \in Int /\ size \in Int
  BY InputAssumption, MagnitudeType
<1> HIDE DEF page, size
<1>2. Min({size, page}) \in Int
  BY <1>1, MinMax
<1> QED
  BY <1>2, TowardType DEF FlushedLines, page, size

LEMMA EventDeltaType ==
    ASSUME NEW event \in WheelEvents
    PROVE  EventDelta(event) \in Nat /\ EventDelta(event) > 0
<1> DEFINE delta == event.delta
<1>1. PICK one \in Int : one = 1
  OBVIOUS
<1>2. delta \in Int
  BY InputAssumption
<1> HIDE DEF delta
<1>3. Max({one, delta}) \in Int /\ Max({one, delta}) >= one
  BY <1>2, MinMax
<1> QED
  BY <1>1, <1>3 DEF EventDelta, delta

LEMMA LinesType ==
    ASSUME NEW event \in WheelEvents PROVE LinesPerAction(event) \in Nat \ {0}
<1> DEFINE lines == event.lines
<1>1. PICK one \in Int : one = 1
  OBVIOUS
<1>2. lines \in Int
  BY InputAssumption
<1> HIDE DEF lines
<1>3. Max({one, lines}) \in Int /\ Max({one, lines}) >= one
  BY <1>2, MinMax
<1> QED
  BY <1>1, <1>3, InputAssumption DEF LinesPerAction, lines

\* The quotient is the largest number of parts that fit.
LEMMA QuotientFits ==
    ASSUME NEW size \in Nat, NEW delta \in Nat, delta > 0
    PROVE  /\ size \div delta \in 0..size
           /\ (size \div delta) * delta <= size
           /\ size < (size \div delta) * delta + delta
           /\ Max({n \in 0..size : n * delta <= size}) = size \div delta
<1> DEFINE q == size \div delta
           fitting == {n \in 0..size : n * delta <= size}
<1>1. q \in Nat /\ q * delta <= size /\ size < q * delta + delta
  OBVIOUS
<1> HIDE DEF q
<1>2. q <= q * delta
  BY <1>1
<1>3. q \in fitting
  BY <1>1, <1>2
<1>4. ASSUME NEW n \in fitting PROVE q >= n
  <2>1. SUFFICES ASSUME q + 1 <= n PROVE FALSE
    BY <1>1
  <2>2. PICK more \in Nat : n = q + 1 + more
    BY <1>1, <2>1
  <2>3. n * delta = q * delta + delta + more * delta /\ more * delta \in Nat
    BY <1>1, <2>2
  <2> QED
    BY <1>1, <2>3
<1>5. Max(fitting) = q
  <2>1. Max(fitting) \in fitting /\ \A n \in fitting : Max(fitting) >= n
    BY <1>3, <1>4 DEF Max
  <2>2. Max(fitting) >= q /\ q >= Max(fitting)
    BY <1>3, <1>4, <2>1
  <2> QED
    BY <1>1, <2>1, <2>2
<1>6. q \in 0..size
  BY <1>3
<1> QED
  BY <1>1, <1>5, <1>6 DEF q

\* Normalization counts exactly the whole parts of a notch.
LEMMA NormalizedIsWhole ==
    ASSUME NEW event \in WheelEvents
    PROVE  Normalized(event) \in Int /\ WholeParts(event) = Normalized(event)
<1> DEFINE rotation == event.rotation
           size == Magnitude(rotation) * WheelDelta
           delta == EventDelta(event)
<1>1. rotation \in Int /\ delta \in Nat /\ delta > 0
  BY InputAssumption, EventDeltaType
<1>2. size \in Nat
  BY <1>1, MagnitudeType, InputAssumption
<1> HIDE DEF rotation, size, delta
<1>3. /\ size \div delta \in 0..size
      /\ Max({n \in 0..size : n * delta <= size}) = size \div delta
  BY <1>1, <1>2, QuotientFits, Zenon
<1>4. Toward(rotation, size \div delta) \in Int
  BY <1>1, <1>2, <1>3, TowardType
<1> QED
  BY <1>3, <1>4 DEF Normalized, WholeParts, rotation, size, delta

\* For every device: normalizing an event keeps its direction, makes nothing up
\* and drops less than one part of a notch, and nothing at all when the
\* device's notch divides what it turned.
THEOREM NormalizationDrops ==
    ASSUME NEW event \in WheelEvents
    PROVE  LET turned == Magnitude(event.rotation) * WheelDelta
               counted == Magnitude(Normalized(event)) * EventDelta(event)
           IN /\ counted <= turned /\ turned < counted + EventDelta(event)
              /\ Normalized(event) > 0 => event.rotation > 0
              /\ Normalized(event) < 0 => event.rotation < 0
              /\ turned % EventDelta(event) = 0 => counted = turned
<1> DEFINE rotation == event.rotation
           size == Magnitude(rotation) * WheelDelta
           delta == EventDelta(event)
           quotient == size \div delta
<1>1. rotation \in Int /\ delta \in Nat /\ delta > 0
  BY InputAssumption, EventDeltaType
<1>2. size \in Nat
  BY <1>1, MagnitudeType, InputAssumption
<1>3. rotation = 0 => size = 0
  BY InputAssumption DEF Magnitude
<1>4. Normalized(event) = IF rotation < 0 THEN -quotient ELSE quotient
  BY DEF Normalized, Toward
<1> HIDE DEF rotation, size, delta
<1>5. /\ quotient \in Nat /\ quotient <= size
      /\ quotient * delta <= size /\ size < quotient * delta + delta
  BY <1>1, <1>2, QuotientFits
<1>6. size % delta = 0 => quotient * delta = size
  BY <1>1, <1>2
<1> HIDE DEF quotient
<1>7. Magnitude(Normalized(event)) = quotient
  BY <1>4, <1>5 DEF Magnitude
<1>8. Normalized(event) > 0 => rotation > 0
  BY <1>1, <1>3, <1>4, <1>5
<1>9. Normalized(event) < 0 => rotation < 0
  BY <1>1, <1>4, <1>5
<1> QED
  BY <1>5, <1>6, <1>7, <1>8, <1>9 DEF rotation, size, delta

\* A turn by r, a notches of which are parted off, W wide and L lines each, of
\* which c wait; the w parts that waited counted R lines a notch before.
LEMMA TurnBalance ==
    ASSUME NEW w \in Int, NEW p \in Int, NEW r \in Int, NEW a \in Int, NEW c \in Int,
           NEW R \in Int, NEW L \in Int, NEW W \in Int
    PROVE  (w * R + p * W) + w * (L - R) + r * L - ((p + a * L) - c) * W
             = ((w + r) - a * W) * L + c * W
<1>0. w * (L - R) = w * L - w * R
  OBVIOUS
<1>1. (w + r) * L = w * L + r * L
  OBVIOUS
<1>2. ((p + a * L) - c) * W = p * W + (a * L) * W - c * W
  OBVIOUS
<1>3. ((w + r) - a * W) * L = (w + r) * L - (a * W) * L
  OBVIOUS
<1>4. (a * L) * W = (a * W) * L
  OBVIOUS
<1> QED
  BY <1>0, <1>1, <1>2, <1>3, <1>4

LEMMA FlushBalance ==
    ASSUME NEW w \in Int, NEW p \in Int, NEW f \in Int, NEW L \in Int, NEW W \in Int
    PROVE  (w * L + p * W) - f * W = w * L + (p - f) * W
<1>1. (p - f) * W = p * W - f * W
  OBVIOUS
<1> QED
  BY <1>1

LEMMA WheelInvStep ==
    ASSUME WheelInv, [Next]_vars PROVE WheelInv'
<1> USE InputAssumption
<1>1. CASE UNCHANGED wheel
  BY <1>1 DEF WheelInv, WheelExact, wheel
<1>2. CASE Turns
  <2>1. PICK event \in WheelEvents : QueueWheelScroll(event)
    BY <1>2 DEF Turns
  <2>2. CASE event.rotation = 0
    BY <2>1, <2>2 DEF QueueWheelScroll, WheelInv, WheelExact, wheel
  <2>3. CASE event.rotation # 0
    <3> DEFINE turned == wheel_rotation + Normalized(event)
               actions == Truncated(turned)
               lines == LinesPerAction(event)
               wanted == pending_wheel_lines + actions * lines
    <3>1. Normalized(event) \in Int /\ WholeParts(event) = Normalized(event)
      BY NormalizedIsWhole
    <3>2. turned \in Int
      BY <3>1 DEF WheelInv
    <3>3. actions \in Int /\ lines \in Nat \ {0}
      BY <3>2, TruncatedType, LinesType
    <3>4. wanted \in Int
      BY <3>3 DEF WheelInv
    <3>5. Clamped(wanted) \in Int
      BY <3>4, ClampedType
    <3>6. wheel_rotation' = turned - actions * WheelDelta
      BY <2>1, <2>3, <3>2, <3>3 DEF QueueWheelScroll, Remainder
    <3>7. /\ pending_wheel_lines' = Clamped(wanted) /\ rate' = lines
          /\ owed' = owed + wheel_rotation * (lines - rate) + Normalized(event) * lines
                          - (wanted - Clamped(wanted)) * WheelDelta
      BY <2>1, <2>3, <3>1 DEF QueueWheelScroll
    <3> HIDE DEF actions, lines
    <3>8. owed' = wheel_rotation' * rate' + pending_wheel_lines' * WheelDelta
      BY <3>1, <3>2, <3>3, <3>5, <3>6, <3>7, TurnBalance DEF WheelInv, WheelExact
    <3>9. wheel_rotation' \in Int /\ owed' \in Int
      BY <3>1, <3>2, <3>3, <3>5, <3>6, <3>7, <3>8
    <3> QED
      BY <3>3, <3>5, <3>7, <3>8, <3>9 DEF WheelInv, WheelExact
  <2> QED
    BY <2>2, <2>3
<1>3. CASE Flushes
  <2>1. FlushedLines \in Int
    BY FlushedType DEF WheelInv
  <2> QED
    BY <1>3, <2>1, FlushBalance DEF WheelInv, WheelExact, Flushes
<1> QED
  BY <1>1, <1>2, <1>3, WheelWriters

\* For every device, size of a notch and configuration, the whole parts that were
\* turned and not yet scrolled wait as lines or as part of a notch.
THEOREM WheelIsExact == Spec => []WheelExact
<1>1. Init => WheelInv
  BY InputAssumption DEF Init, WheelInv, WheelExact
<1>2. WheelInv /\ [Next]_vars => WheelInv'
  BY WheelInvStep
<1>3. WheelInv => WheelExact
  BY DEF WheelInv
<1> QED
  BY <1>1, <1>2, <1>3, PTL DEF Spec

-----------------------------------------------------------------------------
(* The buttons.                                                             *)

NoDrag == ~pointer_down /\ ~selection_dragging /\ auto_scroll_direction = 0

\* A press that was reported to the child, and nothing else.
Reporting(button) ==
    /\ mouse_reporting_gesture /\ mouse_reporting_button = button
    /\ NoDrag /\ captures = 1 /\ reported \subseteq {button}

\* A press of the left button that began a selection, and nothing else.
Selecting ==
    ~mouse_reporting_gesture /\ pointer_down /\ captures = 1 /\ reported = {}

\* While presses do not overlap, the control is in the one gesture that the
\* button that is held began.
GestureInv ==
    /\ captures \in Nat
    /\ ~overlapped =>
        \/ held = {} /\ Idle
        \/ held = {"left"} /\ (Reporting("left") \/ Selecting)
        \/ held = {"right"} /\ (Reporting("right") \/ Idle)

gesture == <<pointer_down, selection_dragging, auto_scroll_direction,
             mouse_reporting_gesture, mouse_reporting_button, captures>>

\* Only the handlers of buttons and of motion write the gesture; the timer may
\* tell that the child no longer listens.
Presses == (\E shift \in BOOLEAN, multiple \in BOOLEAN : OnLeftDown(shift, multiple))
               \/ (\E shift \in BOOLEAN : OnMouseButtonDown(shift))
Moves == \E direction \in {-1, 0, 1} : OnMotion(direction)
Listens == reported' \in {reported, {}} /\ UNCHANGED <<gesture, held, overlapped>>

LEMMA GestureWriters ==
    [Next]_vars => Listens \/ Presses \/ Moves \/ OnLeftUp \/ OnMouseButtonUp
<1> SUFFICES ASSUME [Next]_vars
             PROVE  Listens \/ Presses \/ Moves \/ OnLeftUp \/ OnMouseButtonUp
  OBVIOUS
<1>1. CASE OnPaint \/ (\E geometry \in BOOLEAN : OnSize(geometry)) \/ RestartKey
            \/ (\E refresh \in BOOLEAN : OnChar(refresh))
            \/ (\E zone \in Zones : Expose(zone))
  BY <1>1 DEF OnPaint, OnSize, RestartKey, OnChar, Expose, Listens, gesture, pointer, mouse
<1>2. CASE Timer
  BY <1>2 DEF Timer, OnTimer, Listens, gesture, pointer
<1>3. CASE Mouse
  BY <1>3 DEF Mouse, OnMouseWheel, Presses, Moves, Listens, gesture, pointer, mouse
<1>4. CASE UNCHANGED vars
  BY <1>4 DEF vars, Listens, gesture, pointer, mouse
<1> QED
  BY <1>1, <1>2, <1>3, <1>4 DEF Next

\* Letting go of the mouse once.
LEMMA OneCaptureLess ==
    ASSUME captures \in Nat
    PROVE  /\ Max({0, captures - 1}) \in Nat
           /\ captures = 1 => Max({0, captures - 1}) = 0
BY MinMax

LEMMA GestureInvStep ==
    ASSUME GestureInv, [Next]_vars PROVE GestureInv'
<1>0. captures \in Nat
  BY DEF GestureInv
<1>1. CASE Listens
  BY <1>1 DEF Listens, gesture, GestureInv, Idle, Reporting, Selecting, NoDrag
<1>2. CASE \E shift \in BOOLEAN, multiple \in BOOLEAN : OnLeftDown(shift, multiple)
  <2>1. PICK shift \in BOOLEAN, multiple \in BOOLEAN : OnLeftDown(shift, multiple)
    BY <1>2
  <2>2. captures' = captures + 1
    BY <2>1 DEF OnLeftDown, BeginMouseReporting
  <2>3. ~overlapped' => held = {} /\ held' = {"left"} /\ Idle
    BY <2>1 DEF OnLeftDown, Pressed, GestureInv
  <2>4. ~overlapped' => Reporting("left")' \/ Selecting'
    <3>1. CASE Forwarded(shift)
      BY <2>1, <2>2, <2>3, <3>1 DEF OnLeftDown, BeginMouseReporting, Idle, Reporting, NoDrag
    <3>2. CASE ~Forwarded(shift)
      BY <2>1, <2>2, <2>3, <3>2 DEF OnLeftDown, Idle, Selecting
    <3> QED
      BY <3>1, <3>2
  <2> QED
    BY <1>0, <2>2, <2>3, <2>4 DEF GestureInv
<1>3. CASE \E shift \in BOOLEAN : OnMouseButtonDown(shift)
  <2>1. PICK shift \in BOOLEAN : OnMouseButtonDown(shift)
    BY <1>3
  <2>2. ~overlapped' => held = {} /\ held' = {"right"} /\ Idle
    BY <2>1 DEF OnMouseButtonDown, Pressed, GestureInv
  <2>3. CASE Forwarded(shift)
    <3>1. captures' = captures + 1
      BY <2>1, <2>3 DEF OnMouseButtonDown, BeginMouseReporting
    <3>2. ~overlapped' => Reporting("right")'
      BY <2>1, <2>2, <2>3, <3>1
      DEF OnMouseButtonDown, BeginMouseReporting, Idle, Reporting, NoDrag
    <3> QED
      BY <1>0, <2>2, <3>1, <3>2 DEF GestureInv
  <2>4. CASE ~Forwarded(shift)
    <3>1. captures' = captures
      BY <2>1, <2>4 DEF OnMouseButtonDown
    <3>2. ~overlapped' => Idle'
      BY <2>1, <2>2, <2>4, <3>1 DEF OnMouseButtonDown, Idle
    <3> QED
      BY <1>0, <2>2, <3>1, <3>2 DEF GestureInv
  <2> QED
    BY <2>3, <2>4
<1>4. CASE Moves
  <2>1. UNCHANGED <<captures, held, overlapped, reported, mouse_reporting_gesture,
                    mouse_reporting_button, pointer_down>>
        /\ ~mouse_reporting_gesture /\ pointer_down
    BY <1>4 DEF Moves, OnMotion, mouse
  <2> QED
    BY <2>1 DEF GestureInv, Idle, Reporting, Selecting, NoDrag
<1>5. CASE OnLeftUp
  <2>1. captures' \in Nat
    BY <1>0, <1>5, OneCaptureLess DEF OnLeftUp, EndMouseReporting, pointer
  <2>2. overlapped /\ ~overlapped' => held' = {} /\ Idle'
    BY <1>5 DEF OnLeftUp, OverlapEnds
  <2>3. ~overlapped => held' = {} /\ Idle'
    <3> SUFFICES ASSUME ~overlapped PROVE held' = {} /\ Idle'
      OBVIOUS
    <3>1. held = {"left"} /\ held' = {} /\ (Reporting("left") \/ Selecting)
      BY <1>5 DEF OnLeftUp, Released, GestureInv
    <3>2. CASE Reporting("left")
      <4>1. EndMouseReporting
        BY <1>5, <3>2 DEF OnLeftUp, EndsReporting, Reporting
      <4>2. captures' = 0
        BY <1>0, <3>2, <4>1, OneCaptureLess DEF EndMouseReporting, Reporting
      <4> QED
        BY <3>1, <3>2, <4>1, <4>2 DEF EndMouseReporting, Reporting, NoDrag, Idle
    <3>3. CASE Selecting
      <4>1. /\ ~pointer_down' /\ ~selection_dragging' /\ auto_scroll_direction' = 0
            /\ captures' = Max({0, captures - 1})
            /\ UNCHANGED <<mouse_reporting_gesture, reported>>
        BY <1>5, <3>3 DEF OnLeftUp, EndsReporting, Selecting
      <4>2. captures' = 0
        BY <1>0, <3>3, <4>1, OneCaptureLess DEF Selecting
      <4> QED
        BY <3>1, <3>3, <4>1, <4>2 DEF Selecting, Idle
    <3> QED
      BY <3>1, <3>2, <3>3
  <2> QED
    BY <2>1, <2>2, <2>3 DEF GestureInv
<1>6. CASE OnMouseButtonUp
  <2>1. captures' \in Nat
    BY <1>0, <1>6, OneCaptureLess DEF OnMouseButtonUp, EndMouseReporting, pointer
  <2>2. overlapped /\ ~overlapped' => held' = {} /\ Idle'
    BY <1>6 DEF OnMouseButtonUp, OverlapEnds
  <2>3. ~overlapped => held' = {} /\ Idle'
    <3> SUFFICES ASSUME ~overlapped PROVE held' = {} /\ Idle'
      OBVIOUS
    <3>1. held = {"right"} /\ held' = {} /\ (Reporting("right") \/ Idle)
      BY <1>6 DEF OnMouseButtonUp, Released, GestureInv
    <3>2. CASE Reporting("right")
      <4>1. EndMouseReporting
        BY <1>6, <3>2 DEF OnMouseButtonUp, Reporting
      <4>2. captures' = 0
        BY <1>0, <3>2, <4>1, OneCaptureLess DEF EndMouseReporting, Reporting
      <4> QED
        BY <3>1, <3>2, <4>1, <4>2 DEF EndMouseReporting, Reporting, NoDrag, Idle
    <3>3. CASE Idle
      BY <1>6, <3>1, <3>3 DEF OnMouseButtonUp, Idle, pointer
    <3> QED
      BY <3>1, <3>2, <3>3
  <2> QED
    BY <2>1, <2>2, <2>3 DEF GestureInv
<1> QED
  BY <1>1, <1>2, <1>3, <1>4, <1>5, <1>6, GestureWriters DEF Presses

\* Whatever happens between a press and its release, no gesture outlives the
\* button that began it.
THEOREM GesturesEnd == Spec => []ButtonsUpMeansIdle
<1>1. Init => GestureInv
  BY DEF Init, GestureInv, Idle
<1>2. GestureInv /\ [Next]_vars => GestureInv'
  BY GestureInvStep
<1>3. GestureInv => ButtonsUpMeansIdle
  BY DEF GestureInv, ButtonsUpMeansIdle
<1> QED
  BY <1>1, <1>2, <1>3, PTL DEF Spec

-----------------------------------------------------------------------------
(* Types.  Every handler that moves the view or touches the screen asks for *)
(* a frame at its end: what it does to the display in between has a wider   *)
(* type.                                                                    *)

Frames == [kind : {"none", "viewport", "other"}, area : SUBSET Zones, delta : Int]

\* The display between two handlers.
Settled(d) == d \in DisplayType /\ d.delta = 0 /\ ~d.scrolled

LEMMA ScrollLinesType ==
    ASSUME NEW d \in DisplayType, NEW lines \in Int PROVE ScrollLines(d, lines) \in DisplayType
<1> DEFINE least == Min({Scrollback, d.view + lines})
           after == Max({0, least})
<1>1. Scrollback \in Nat /\ d.view \in 0..Scrollback /\ d.delta \in Int
  BY InputAssumption DEF DisplayType
<1>2. least \in Int /\ least <= Scrollback
  <2>1. Scrollback \in Int /\ d.view + lines \in Int
    BY <1>1
  <2> QED
    BY <2>1, MinMax
<1> HIDE DEF least
<1>3. after \in 0..Scrollback
  BY <1>1, <1>2, FromZero
<1>4. ScrollLines(d, lines) =
          [d EXCEPT !.view = after, !.delta = @ + (d.view - after),
                    !.touched = IF after = d.view THEN @ ELSE Zones]
  BY DEF ScrollLines, least
<1> HIDE DEF after
<1>5. d.delta + (d.view - after) \in Int
  BY <1>1, <1>3
<1> QED
  BY <1>3, <1>4, <1>5 DEF DisplayType

LEMMA ScrollOutputType ==
    ASSUME NEW d \in DisplayType PROVE ScrollOutput(d) \in DisplayType
<1>1. Scrollback \in Nat /\ d.view \in 0..Scrollback
  BY InputAssumption DEF DisplayType
<1>2. Min({Scrollback, d.view + 1}) \in 0..Scrollback
  <2> DEFINE further == d.view + 1
  <2>1. Scrollback \in Int /\ further \in 0..Scrollback + 1
    BY <1>1
  <2>2. further \in Int /\ further >= 0
    BY <1>1
  <2> HIDE DEF further
  <2>3. /\ Min({Scrollback, further}) \in {Scrollback, further}
        /\ Min({Scrollback, further}) <= Scrollback
    BY <2>1, <2>2, MinMax
  <2> QED
    BY <1>1, <2>2, <2>3 DEF further
<1>3. "line" \in Zones
  BY DEF Zones
<1> QED
  BY <1>2, <1>3 DEF ScrollOutput, DisplayType

LEMMA TouchType ==
    ASSUME NEW d \in DisplayType, NEW zones \in SUBSET Zones PROVE Touch(d, zones) \in DisplayType
BY DEF Touch, DisplayType

LEMMA CancelType ==
    /\ \A d \in DisplayType : CancelScrollAnimation(d) \in DisplayType
    /\ \A d : Settled(d) => Settled(CancelScrollAnimation(d))
<1>1. 0 \in 0..Steps
  BY InputAssumption
<1> QED
  BY <1>1 DEF CancelScrollAnimation, DisplayType, Settled

LEMMA RefreshType == ASSUME NEW d, Settled(d) PROVE Settled(Refresh(d))
BY DEF Refresh, DisplayType, Settled

LEMMA FrameType ==
    ASSUME NEW d \in DisplayType
    PROVE  Frame(d) \in Frames /\ Settled(FrameTaken(d))
<1>1. Frame(d) \in Frames
  BY DEF Frame, DisplayType, Frames
<1>2. Settled(FrameTaken(d))
  <2> DEFINE touched == {}
             delta == 0
             scrolled == FALSE
  <2>1. touched \in SUBSET Zones /\ scrolled \in BOOLEAN /\ delta \in Int
        /\ FrameTaken(d) =
               [d EXCEPT !.touched = touched, !.delta = delta, !.scrolled = scrolled]
    BY DEF FrameTaken
  <2> HIDE DEF touched, delta, scrolled
  <2>2. FrameTaken(d) \in DisplayType /\ FrameTaken(d).delta = delta
    BY <2>1 DEF DisplayType
  <2>3. FrameTaken(d).scrolled = FALSE
    BY DEF FrameTaken, DisplayType
  <2> QED
    BY <2>2, <2>3 DEF Settled, delta
<1> QED
  BY <1>1, <1>2

\* Whatever a handler did, what it leaves once it asked for a frame is settled.
LEMMA RequestType ==
    ASSUME NEW d \in DisplayType PROVE Settled(RequestFrameRefresh(d))
<1> DEFINE new == Frame(d)
           taken == FrameTaken(d)
           kind == MergedKind(new.kind, d.frame.kind)
           merged == [kind  |-> kind, area  |-> new.area \cup d.frame.area,
                      delta |-> IF kind = "other" THEN 0 ELSE new.delta + d.frame.delta]
<1>1. new \in Frames /\ Settled(taken) /\ d.frame \in Frames
  BY FrameType DEF DisplayType, Frames
<1>2. RequestFrameRefresh(d) =
          IF new.area = {} THEN taken
          ELSE [taken EXCEPT !.frame = merged, !.invalid = @ \cup merged.area]
  BY DEF RequestFrameRefresh
<1> HIDE DEF new, taken
<1>3. kind \in {"none", "viewport", "other"}
  BY <1>1 DEF MergedKind, Frames
<1> HIDE DEF kind
<1>4. merged \in Frames
  BY <1>1, <1>3 DEF Frames
<1> HIDE DEF merged
<1>5. merged.area \in SUBSET Zones
  BY <1>4 DEF Frames
<1>6. Settled([taken EXCEPT !.frame = merged, !.invalid = @ \cup merged.area])
  BY <1>1, <1>4, <1>5 DEF DisplayType, Frames, Settled
<1> QED
  BY <1>1, <1>2, <1>6

\* The steps of the timer.
LEMMA AutoscrolledType ==
    ASSUME NEW d \in DisplayType, NEW direction \in {-1, 0, 1}
    PROVE  Autoscrolled(d, direction) \in DisplayType
BY ScrollLinesType DEF Autoscrolled

LEMMA TimerTypes ==
    ASSUME NEW d, Settled(d), NEW changed, NEW output \in Outputs, NEW news \in News,
           pending_wheel_lines \in Int, auto_scroll_direction \in {-1, 0, 1}
    PROVE  /\ Settled(Animated(d, changed))
           /\ Settled(Dragged(d))
           /\ Settled(Fed(d, output))
           /\ Settled(Noticed(d, news))
<1>1. d \in DisplayType /\ "line" \in Zones
  BY DEF Settled, Zones
<1>2. Settled(Animated(d, changed))
  BY <1>1, FlushedType, ScrollLinesType, RequestType, RefreshType DEF Animated
<1>3. Settled(Dragged(d))
  <2>1. Autoscrolled(CancelScrollAnimation(d), auto_scroll_direction) \in DisplayType
    BY <1>1, CancelType, AutoscrolledType
  <2> QED
    BY <1>1, <2>1, TouchType, RequestType DEF Dragged
<1>4. Settled(Fed(d, output))
  <2> DEFINE fed == CASE output = "line"   -> Touch(d, {"line"})
                      [] output = "all"    -> Touch(d, Zones)
                      [] output = "scroll" -> ScrollOutput(d)
                      [] OTHER             -> d
  <2>1. fed \in DisplayType
    BY <1>1, TouchType, ScrollOutputType
  <2>2. Fed(d, output) =
            IF output = "none" THEN d ELSE RequestFrameRefresh(CancelScrollAnimation(fed))
    BY DEF Fed
  <2> HIDE DEF fed
  <2> QED
    BY <2>1, <2>2, CancelType, RequestType
<1>5. Settled(Noticed(d, news))
  BY <1>1, TouchType, RequestType DEF Noticed
<1> QED
  BY <1>2, <1>3, <1>4, <1>5

LEMMA DrawnWindow ==
    ASSUME window \in [Zones -> {"lost", "moving", "settled"}], NEW d, NEW zones
    PROVE  Drawn(d, zones) \in [Zones -> {"lost", "moving", "settled"}]
BY DEF Drawn

\* What is left of a turn after its whole notches is less than one.
LEMMA NotchLeft ==
    ASSUME NEW n \in Nat, NEW w \in Nat \ {0}
    PROVE  n - (n \div w) * w \in 0 .. w - 1 /\ n \div w \in Nat
OBVIOUS

LEMMA RemainderType ==
    ASSUME NEW turned \in Int
    PROVE  /\ Remainder(turned) \in 1 - WheelDelta .. WheelDelta - 1
           /\ Truncated(turned) = 0 => turned \in 1 - WheelDelta .. WheelDelta - 1
<1> USE InputAssumption
<1> DEFINE size == Magnitude(turned)
           notches == size \div WheelDelta
<1>1. size \in Nat /\ (turned = size \/ turned = -size) /\ (turned < 0 => turned = -size)
      /\ (turned >= 0 => turned = size)
  BY DEF Magnitude
<1> HIDE DEF size
<1>2. size - notches * WheelDelta \in 0 .. WheelDelta - 1 /\ notches \in Nat
  BY <1>1, NotchLeft
<1>3. Truncated(turned) = IF turned < 0 THEN -notches ELSE notches
  BY DEF Truncated, Toward, size
<1> HIDE DEF notches
<1>4. (-notches) * WheelDelta = -(notches * WheelDelta)
  BY <1>2
<1>5. Remainder(turned) = IF turned < 0 THEN -(size - notches * WheelDelta)
                          ELSE size - notches * WheelDelta
  <2>1. notches * WheelDelta \in Int
    BY <1>2
  <2> QED
    BY <1>1, <1>2, <1>3, <1>4, <2>1 DEF Remainder
<1>6. Truncated(turned) = 0 => notches = 0
  BY <1>2, <1>3
<1>7. notches = 0 => notches * WheelDelta = 0
  OBVIOUS
<1> QED
  BY <1>1, <1>2, <1>5, <1>6, <1>7

WheelType ==
    /\ wheel_rotation \in 1 - WheelDelta .. WheelDelta - 1
    /\ pending_wheel_lines \in -MaxPending..MaxPending
    /\ owed \in Int /\ rate \in Nat \ {0}

LEMMA WheelTypeStep ==
    ASSUME WheelType, [Next]_vars PROVE WheelType'
<1> USE InputAssumption
<1>1. CASE UNCHANGED wheel
  BY <1>1 DEF WheelType, wheel
<1>2. CASE Turns
  <2>1. PICK event \in WheelEvents : QueueWheelScroll(event)
    BY <1>2 DEF Turns
  <2>2. CASE event.rotation = 0
    BY <2>1, <2>2 DEF QueueWheelScroll, WheelType, wheel
  <2>3. CASE event.rotation # 0
    <3> DEFINE turned == wheel_rotation + Normalized(event)
               actions == Truncated(turned)
               lines == LinesPerAction(event)
               wanted == pending_wheel_lines + actions * lines
               most == Min({MaxPending, wanted})
    <3>1. Normalized(event) \in Int /\ WholeParts(event) = Normalized(event)
      BY NormalizedIsWhole
    <3>2. turned \in Int
      BY <3>1 DEF WheelType
    <3>3. wheel_rotation' = IF actions = 0 THEN turned ELSE Remainder(turned)
      BY <2>1, <2>3 DEF QueueWheelScroll
    <3>4. wheel_rotation' \in 1 - WheelDelta .. WheelDelta - 1
      BY <3>2, <3>3, RemainderType
    <3>5. actions \in Int /\ lines \in Nat \ {0}
      BY <3>2, TruncatedType, LinesType
    <3>6. wanted \in Int
      BY <3>5 DEF WheelType
    <3>7. pending_wheel_lines' = Max({-MaxPending, most})
      BY <2>1, <2>3 DEF QueueWheelScroll, Clamped
    <3>8. rate' = lines /\ owed' = owed + wheel_rotation * (lines - rate)
              + Normalized(event) * lines - (wanted - Clamped(wanted)) * WheelDelta
      BY <2>1, <2>3, <3>1 DEF QueueWheelScroll
    <3>9. Clamped(wanted) \in Int
      BY <3>6, ClampedType
    <3> HIDE DEF wanted, actions, lines
    <3>10. owed' \in Int /\ rate' \in Nat \ {0}
      <4> DEFINE revalued == wheel_rotation * (lines - rate)
                 turn == Normalized(event) * lines
                 excess == (wanted - Clamped(wanted)) * WheelDelta
      <4>1. revalued \in Int
        BY <3>5 DEF WheelType
      <4>2. turn \in Int
        BY <3>1, <3>5
      <4>3. excess \in Int
        BY <3>6, <3>9
      <4>4. owed' = owed + revalued + turn - excess
        BY <3>8
      <4> HIDE DEF revalued, turn, excess
      <4>5. owed' \in Int
        BY <4>1, <4>2, <4>3, <4>4 DEF WheelType
      <4> QED
        BY <3>5, <3>8, <4>5
    <3>11. most \in Int /\ most <= MaxPending
      <4>1. MaxPending \in Int
        OBVIOUS
      <4>2. Min({MaxPending, wanted}) \in {MaxPending, wanted}
            /\ Min({MaxPending, wanted}) <= MaxPending
        BY ONLY <3>6, <4>1, MinMax
      <4> QED
        BY <3>6, <4>1, <4>2
    <3> HIDE DEF most
    <3> DEFINE low == -MaxPending
    <3>12. pending_wheel_lines' = Max({low, most}) /\ low \in Int /\ low <= MaxPending
      BY <3>7
    <3> HIDE DEF low
    <3>13. Max({low, most}) \in {low, most} /\ Max({low, most}) >= low
      BY <3>11, <3>12, MinMax
    <3>14. pending_wheel_lines' \in low..MaxPending
      BY <3>11, <3>12, <3>13
    <3> QED
      BY <3>4, <3>10, <3>14 DEF WheelType, low
  <2> QED
    BY <2>2, <2>3
<1>3. CASE Flushes
  <2> DEFINE size == Magnitude(pending_wheel_lines)
             page == IF smooth THEN PageLines ELSE 1
             flushed == Min({size, page})
  <2>1. /\ size \in Nat /\ size <= MaxPending /\ page \in Nat
        /\ size \in Int /\ page \in Int
        /\ pending_wheel_lines = IF pending_wheel_lines < 0 THEN -size ELSE size
    BY DEF WheelType, Magnitude
  <2>2. FlushedLines = IF pending_wheel_lines < 0 THEN -flushed ELSE flushed
    BY DEF FlushedLines, Toward
  <2> HIDE DEF size, page
  <2>3. flushed \in {size, page} /\ flushed <= size
    BY <2>1, MinMax
  <2> HIDE DEF flushed
  <2>4. pending_wheel_lines' \in -MaxPending..MaxPending
    BY <1>3, <2>1, <2>2, <2>3 DEF Flushes
  <2>5. FlushedLines \in Int
    BY FlushedType DEF WheelType
  <2>6. owed' \in Int /\ rate' \in Nat \ {0}
    BY <1>3, <2>5 DEF Flushes, WheelType
  <2> QED
    BY <1>3, <2>4, <2>6 DEF Flushes, WheelType
<1> QED
  BY <1>1, <1>2, <1>3, WheelWriters

LEMMA TypeStep ==
    ASSUME TypeOK, [Next]_vars PROVE TypeOK'
<1> USE InputAssumption
<1>0. /\ Settled(display) /\ display \in DisplayType /\ captures \in Nat
      /\ captures <= MaxCaptures /\ pending_wheel_lines \in Int
      /\ "line" \in Zones /\ {"line"} \in SUBSET Zones /\ Zones \in SUBSET Zones
      /\ {} \in SUBSET Zones
  BY DEF TypeOK, Settled, Zones
<1>1. WheelType'
  BY WheelTypeStep DEF TypeOK, WheelType
<1> DEFINE PictureType == /\ Settled(display)
                          /\ window \in [Zones -> {"lost", "moving", "settled"}]
                          /\ framebuffer_valid \in BOOLEAN
           PointerType == /\ pointer_down \in BOOLEAN /\ selection_dragging \in BOOLEAN
                          /\ auto_scroll_direction \in {-1, 0, 1}
                          /\ mouse_reporting_gesture \in BOOLEAN
                          /\ mouse_reporting_button \in Buttons
                          /\ selected \in BOOLEAN /\ captures \in 0..MaxCaptures
           MouseType == /\ held \subseteq Buttons /\ reported \subseteq Buttons
                        /\ overlapped \in BOOLEAN /\ reporting \in BOOLEAN
<1>2. PictureType /\ PointerType /\ MouseType /\ smooth \in BOOLEAN
  BY <1>0 DEF TypeOK
<1>3. smooth' = smooth
  BY DEF Next, Mouse, Timer, vars, OnPaint, OnTimer, OnMouseWheel, OnLeftDown,
     OnMouseButtonDown, OnMotion, OnLeftUp, OnMouseButtonUp, OnSize, OnChar, RestartKey, Expose
<1>4. PictureType'
  <2>1. CASE OnPaint
    <3> DEFINE waiting == display.frame # NoFrame
               frame == IF waiting THEN display.frame ELSE Frame(display)
               taken == IF waiting THEN display ELSE FrameTaken(display)
               painted == [taken EXCEPT !.frame = NoFrame, !.invalid = {},
                             !.animation = IF frame.area = {} THEN @
                                           ELSE IF BeginsAnimation(frame) THEN Steps ELSE 0]
    <3>1. display' = painted /\ window' = Drawn(painted, display.invalid)
          /\ framebuffer_valid' = (framebuffer_valid \/ frame.area # {})
      BY <2>1 DEF OnPaint
    <3>2. Settled(taken)
      BY <1>0, FrameType
    <3>3. NoFrame \in Frames /\ Steps \in 0..Steps /\ 0 \in 0..Steps
      BY DEF NoFrame, Frames
    <3> HIDE DEF taken, frame
    <3>4. Settled(painted)
      BY <3>2, <3>3 DEF Settled, DisplayType, Frames
    <3> HIDE DEF painted
    <3> QED
      BY <1>2, <3>1, <3>4, DrawnWindow
  <2>2. CASE Timer
    <3>1. PICK next \in 0..Steps, output \in Outputs, news \in News :
              OnTimer(next, output, news)
      BY <2>2 DEF Timer
    <3> DEFINE d == [display EXCEPT !.animation = next]
    <3>2. Settled(d)
      BY <1>0 DEF Settled, DisplayType
    <3> HIDE DEF d
    <3>3. display' = Noticed(Fed(Dragged(Animated(d, next # display.animation)), output), news)
          /\ UNCHANGED <<window, framebuffer_valid>>
      BY <3>1 DEF OnTimer, d
    <3>4. Settled(Animated(d, next # display.animation))
      BY <1>0, <1>2, <3>2, TimerTypes
    <3>5. Settled(Dragged(Animated(d, next # display.animation)))
      BY <1>0, <1>2, <3>4, TimerTypes
    <3>6. Settled(Fed(Dragged(Animated(d, next # display.animation)), output))
      BY <1>0, <1>2, <3>5, TimerTypes
    <3>7. Settled(display')
      BY <1>0, <1>2, <3>3, <3>6, TimerTypes
    <3> QED
      BY <1>2, <3>3, <3>7
  <2>3. CASE Mouse
    <3>1. UNCHANGED <<window, framebuffer_valid>>
      BY <2>3 DEF Mouse, OnMouseWheel, OnLeftDown, OnMouseButtonDown, OnMotion, OnLeftUp,
         OnMouseButtonUp, picture
    <3>2. ASSUME NEW direction \in {-1, 0, 1}, OnMotion(direction) PROVE Settled(display')
      BY <1>0, <3>2, CancelType, AutoscrolledType, TouchType, RequestType DEF OnMotion
    <3>3. ASSUME NEW shift \in BOOLEAN, NEW multiple \in BOOLEAN, OnLeftDown(shift, multiple)
          PROVE  Settled(display')
      BY <1>0, <3>3, CancelType, TouchType, RequestType DEF OnLeftDown
    <3>4. CASE OnLeftUp
      <4> DEFINE zones == IF selection_dragging THEN {"line"} ELSE {}
      <4>1. display' = display \/ display' = RequestFrameRefresh(Touch(display, zones))
        BY <3>4 DEF OnLeftUp, EndMouseReporting
      <4>2. zones \in SUBSET Zones
        BY <1>0
      <4> HIDE DEF zones
      <4> QED
        BY <1>0, <1>2, <3>1, <4>1, <4>2, TouchType, RequestType
    <3>5. ASSUME NEW event \in WheelEvents, NEW shift \in BOOLEAN,
                 OnMouseWheel(event, shift)
          PROVE  Settled(display')
      BY <1>0, <3>5, CancelType DEF OnMouseWheel
    <3>6. CASE OnMouseButtonUp \/ \E shift \in BOOLEAN : OnMouseButtonDown(shift)
      <4>1. display' = display
        BY <3>6 DEF OnMouseButtonUp, OnMouseButtonDown, EndMouseReporting, picture
      <4> QED
        BY <1>2, <3>1, <4>1
    <3> QED
      BY <1>2, <2>3, <3>1, <3>2, <3>3, <3>4, <3>5, <3>6 DEF Mouse
  <2>4. ASSUME NEW geometry \in BOOLEAN, OnSize(geometry) PROVE PictureType'
    <3>1. Settled(CoreResized)
      <4> DEFINE none == 0
                 scrolled == FALSE
      <4>1. scrolled \in BOOLEAN /\ none \in 0..Scrollback /\ none \in Int
            /\ CoreResized = [display EXCEPT !.view = none, !.delta = none,
                                             !.scrolled = scrolled, !.touched = Zones]
        BY DEF CoreResized
      <4> HIDE DEF none, scrolled
      <4>2. CoreResized \in DisplayType /\ CoreResized.delta = none
        BY <1>0, <4>1 DEF DisplayType
      <4>3. CoreResized.scrolled = FALSE
        BY <1>0 DEF CoreResized, DisplayType
      <4> QED
        BY <4>2, <4>3 DEF Settled, none
    <3>2. Settled(display')
      BY <1>0, <2>4, <3>1, CancelType, RefreshType DEF OnSize
    <3> QED
      BY <2>4, <3>2 DEF OnSize
  <2>5. ASSUME NEW refresh \in BOOLEAN, OnChar(refresh) PROVE PictureType'
    BY <1>0, <1>2, <2>5, CancelType, RequestType DEF OnChar
  <2>6. CASE RestartKey
    BY <1>0, <1>2, <2>6, CancelType, TouchType, RequestType DEF RestartKey
  <2>7. ASSUME NEW zone \in Zones, Expose(zone) PROVE PictureType'
    <3>1. Settled(display')
      BY <1>0, <2>7 DEF Expose, Settled, DisplayType
    <3> QED
      BY <1>2, <2>7, <3>1 DEF Expose
  <2>8. CASE UNCHANGED vars
    BY <1>2, <2>8 DEF vars, picture
  <2> QED
    BY <2>1, <2>2, <2>3, <2>4, <2>5, <2>6, <2>7, <2>8 DEF Next
<1>5. PointerType' /\ MouseType'
  <2>0. /\ Max({0, captures - 1}) \in 0..MaxCaptures
        /\ "left" \in Buttons /\ "right" \in Buttons
    BY <1>0, FromZero DEF Buttons
  <2>1. CASE UNCHANGED <<pointer, held, overlapped>> /\ reporting' \in BOOLEAN
             /\ reported' \in {reported, {}}
    BY <1>2, <2>1 DEF pointer
  <2>2. ASSUME NEW shift \in BOOLEAN, NEW multiple \in BOOLEAN, OnLeftDown(shift, multiple)
        PROVE  PointerType' /\ MouseType'
    <3>1. captures' \in 0..MaxCaptures
      BY <1>0, <2>2 DEF OnLeftDown, Pressed, BeginMouseReporting
    <3>2. /\ held' \subseteq Buttons /\ reported' \subseteq Buttons
          /\ mouse_reporting_button' \in Buttons
          /\ auto_scroll_direction' \in {-1, 0, 1}
      BY <1>2, <2>0, <2>2 DEF OnLeftDown, Pressed, BeginMouseReporting
    <3>3. /\ overlapped' \in BOOLEAN /\ reporting' \in BOOLEAN
          /\ mouse_reporting_gesture' \in BOOLEAN
      BY <1>2, <2>2 DEF OnLeftDown, Pressed, BeginMouseReporting
    <3>4. pointer_down' \in BOOLEAN /\ selection_dragging' \in BOOLEAN
          /\ selected' \in BOOLEAN
      BY <1>2, <2>2 DEF OnLeftDown
    <3> QED
      BY <3>1, <3>2, <3>3, <3>4
  <2>3. ASSUME NEW shift \in BOOLEAN, OnMouseButtonDown(shift)
        PROVE  PointerType' /\ MouseType'
    <3>1. captures' \in 0..MaxCaptures
      BY <1>0, <2>3 DEF OnMouseButtonDown, Pressed, BeginMouseReporting
    <3>2. /\ held' \subseteq Buttons /\ reported' \subseteq Buttons
          /\ mouse_reporting_button' \in Buttons
          /\ auto_scroll_direction' \in {-1, 0, 1}
      BY <1>2, <2>0, <2>3 DEF OnMouseButtonDown, Pressed, BeginMouseReporting
    <3>3. /\ overlapped' \in BOOLEAN /\ reporting' \in BOOLEAN
          /\ mouse_reporting_gesture' \in BOOLEAN
      BY <1>2, <2>3 DEF OnMouseButtonDown, Pressed, BeginMouseReporting
    <3>4. pointer_down' \in BOOLEAN /\ selection_dragging' \in BOOLEAN
          /\ selected' \in BOOLEAN
      BY <1>2, <2>3 DEF OnMouseButtonDown
    <3> QED
      BY <3>1, <3>2, <3>3, <3>4
  <2>4. ASSUME NEW direction \in {-1, 0, 1}, OnMotion(direction)
        PROVE  PointerType' /\ MouseType'
    BY <1>2, <2>4 DEF OnMotion, mouse
  <2>5. CASE OnLeftUp
    BY <1>2, <2>0, <2>5 DEF OnLeftUp, Released, EndMouseReporting, OverlapEnds, pointer
  <2>6. CASE OnMouseButtonUp
    BY <1>2, <2>0, <2>6 DEF OnMouseButtonUp, Released, EndMouseReporting, OverlapEnds, pointer
  <2>7. CASE RestartKey
    BY <1>2, <2>7 DEF RestartKey, mouse
  <2>8. CASE Timer
    BY <1>2, <2>1, <2>8 DEF Timer, OnTimer
  <2>9. CASE OnPaint \/ (\E geometry \in BOOLEAN : OnSize(geometry))
               \/ (\E refresh \in BOOLEAN : OnChar(refresh)) \/ (\E zone \in Zones : Expose(zone))
               \/ (\E event \in WheelEvents, shift \in BOOLEAN : OnMouseWheel(event, shift))
               \/ UNCHANGED vars
    BY <1>2, <2>1, <2>9 DEF OnPaint, OnSize, OnChar, Expose, OnMouseWheel, vars, mouse
  <2> QED
    BY <2>2, <2>3, <2>4, <2>5, <2>6, <2>7, <2>8, <2>9 DEF Next, Mouse
<1> QED
  BY <1>1, <1>2, <1>3, <1>4, <1>5 DEF TypeOK, WheelType, Settled

\* For every configuration, every bound of the wheel and any scrollback: every
\* handler that moves the view takes a frame of it before it returns, and what
\* the wheel holds back is less than a notch and within kMaxPendingWheelLines.
THEOREM InputTypes == Spec => []TypeOK
<1>1. Init => TypeOK
  <2> SUFFICES ASSUME Init PROVE TypeOK
    OBVIOUS
  <2> DEFINE d == [view |-> 0, delta |-> 0, scrolled |-> FALSE, touched |-> Zones,
                   frame |-> NoFrame, invalid |-> Zones, animation |-> 0]
  <2>1. d \in DisplayType /\ d.delta = 0 /\ d.scrolled = FALSE
    BY InputAssumption DEF DisplayType, NoFrame, Zones
  <2>2. display = d
    BY DEF Init
  <2> HIDE DEF d
  <2>3. display \in DisplayType /\ display.delta = 0 /\ ~display.scrolled
    BY <2>1, <2>2
  <2>4. /\ smooth \in BOOLEAN
        /\ window \in [Zones -> {"lost", "moving", "settled"}]
        /\ framebuffer_valid \in BOOLEAN
        /\ pointer_down \in BOOLEAN /\ selection_dragging \in BOOLEAN
        /\ auto_scroll_direction \in {-1, 0, 1}
        /\ mouse_reporting_gesture \in BOOLEAN /\ mouse_reporting_button \in Buttons
        /\ selected \in BOOLEAN /\ reporting \in BOOLEAN /\ captures \in 0..MaxCaptures
        /\ wheel_rotation \in 1 - WheelDelta .. WheelDelta - 1
        /\ pending_wheel_lines \in -MaxPending..MaxPending
        /\ owed \in Int /\ rate \in Nat \ {0}
        /\ held \subseteq Buttons /\ reported \subseteq Buttons /\ overlapped \in BOOLEAN
    <3>1. /\ wheel_rotation \in 1 - WheelDelta .. WheelDelta - 1
          /\ pending_wheel_lines \in -MaxPending..MaxPending
          /\ owed \in Int /\ rate \in Nat \ {0}
          /\ captures \in 0..MaxCaptures /\ auto_scroll_direction \in {-1, 0, 1}
      BY InputAssumption DEF Init
    <3>2. /\ window \in [Zones -> {"lost", "moving", "settled"}]
          /\ mouse_reporting_button \in Buttons
          /\ held \subseteq Buttons /\ reported \subseteq Buttons
      BY DEF Init, Buttons
    <3>3. smooth \in BOOLEAN
      BY InputAssumption DEF Init
    <3>4. /\ framebuffer_valid \in BOOLEAN /\ pointer_down \in BOOLEAN
          /\ selection_dragging \in BOOLEAN /\ mouse_reporting_gesture \in BOOLEAN
          /\ selected \in BOOLEAN /\ reporting \in BOOLEAN /\ overlapped \in BOOLEAN
      BY DEF Init
    <3> QED
      BY <3>1, <3>2, <3>3, <3>4
  <2> QED
    BY <2>3, <2>4 DEF TypeOK
<1> QED
  BY <1>1, TypeStep, PTL DEF Spec
=============================================================================
