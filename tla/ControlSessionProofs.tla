------------------------- MODULE ControlSessionProofs -------------------------
(***************************************************************************)
(* What TLAPS proves of ControlSession for every value of its constants.   *)
(***************************************************************************)
EXTENDS ControlSession, SequenceTheorems, FiniteSetTheorems, TLAPS

-----------------------------------------------------------------------------
(* The record of what the host was told.                                    *)

\* A session is under way or has ended by itself: its state is yet to be told.
NewsPossible == state \in {"Running", "Exited"}

\* What the control recorded last is what it told last, or nothing happened yet,
\* or it stands at "Stopped" so that the next tick tells the state again; and
\* the state is then not "Stopped", for only a restart or the destructor stops.
RecordInv ==
    /\ pc = "construct" => told = NotTold /\ last = "Stopped"
    /\ pc \in {"started", "restarted"} => NewsPossible \/ state = "Failed"
    /\ pc \in {"idle", "ticked"} =>
        \/ told # NotTold /\ told.state = last
        \/ told = NotTold /\ last = "Stopped"
        \/ last = "Stopped" /\ NewsPossible

\* What the transport does by itself keeps it.
LEMMA RecordTransportStep ==
    ASSUME RecordInv, Arrives \/ Exits \/ StatusBecomesKnown
    PROVE  RecordInv'
<1>1. UNCHANGED <<pc, told, last>>
  BY DEF Arrives, Exits, StatusBecomesKnown, control
<1>2. state' = state \/ (state = "Running" /\ state' = "Exited")
  BY DEF Arrives, Exits, StatusBecomesKnown, T!Receive, T!ProcessExits, T!StatusKnown
<1> QED
  BY <1>1, <1>2 DEF RecordInv, NewsPossible

\* A start ends in a running or a failed session.
LEMMA StartsState == Starts => state' \in {"Running", "Failed"}
BY DEF Starts, T!Start, T!StartFails

\* So do the steps that record the state of a session just started.
LEMMA RecordedOnStart ==
    ASSUME NewsPossible \/ state = "Failed", UNCHANGED state,
           last' = FirstState, told' = Status, pc' = "idle"
    PROVE  RecordInv'
<1>1. told'.state = state /\ told' # NotTold
  BY DEF Status, NotTold
<1>2. last' = IF state = "Failed" THEN "Failed" ELSE "Stopped"
  BY DEF FirstState
<1> QED
  BY <1>1, <1>2 DEF RecordInv, NewsPossible

LEMMA RecordInvStep ==
    ASSUME RecordInv, [Next]_vars
    PROVE  RecordInv'
<1>1. CASE ConstructOnly
  BY <1>1 DEF ConstructOnly, RecordInv, NewsPossible, transport
<1>2. CASE ConstructStart
  BY <1>2, StartsState DEF ConstructStart, RecordInv, NewsPossible
<1>3. CASE ConstructEnd
  <2>1. NewsPossible \/ state = "Failed"
    BY <1>3 DEF ConstructEnd, RecordInv
  <2> QED
    BY <1>3, <2>1, RecordedOnStart DEF ConstructEnd, transport
<1>4. CASE TimerDrains
  BY <1>4 DEF TimerDrains, RecordInv, NewsPossible, T!TakeOutput
<1>5. CASE TimerStatus
  <2>1. CASE state = last
    BY <1>5, <2>1 DEF TimerStatus, RecordInv, NewsPossible, transport
  <2>2. CASE state # last
    <3>1. last' = state /\ told'.state = state /\ told' # NotTold /\ pc' = "idle"
      BY <1>5, <2>2 DEF TimerStatus, Status, NotTold
    <3> QED
      BY <3>1 DEF RecordInv
  <2> QED
    BY <2>1, <2>2
<1>6. CASE Interrupt
  BY <1>6 DEF Interrupt, RecordInv, NewsPossible, T!TakeOutput, control
<1>7. CASE Restart
  BY <1>7 DEF Restart, RecordInv
<1>8. CASE RestartStarts
  BY <1>8, StartsState DEF RestartStarts, RecordInv, NewsPossible
<1>9. CASE RestartEnd
  <2>1. NewsPossible \/ state = "Failed"
    BY <1>9 DEF RestartEnd, RecordInv
  <2> QED
    BY <1>9, <2>1, RecordedOnStart DEF RestartEnd, RestartedState, transport
<1>10. CASE Destroy
  BY <1>10 DEF Destroy, RecordInv
<1>11. CASE Arrives \/ Exits \/ StatusBecomesKnown
  BY <1>11, RecordTransportStep
<1>12. CASE UNCHANGED vars
  BY <1>12 DEF vars, transport, control, RecordInv, NewsPossible
<1> QED
  BY <1>1, <1>2, <1>3, <1>4, <1>5, <1>6, <1>7, <1>8, <1>9, <1>10, <1>11, <1>12
  DEF Next, Handler

LEMMA RecordInvInductive == Spec => []RecordInv
<1>1. Init => RecordInv
  BY DEF Init, RecordInv
<1>2. RecordInv /\ [Next]_vars => RecordInv'
  BY RecordInvStep
<1> QED
  BY <1>1, <1>2, PTL DEF Spec

\* In every session and whatever the order of exits, restarts and ticks, a tick
\* that tells nobody had nothing to tell.
THEOREM NoNewsIsHidden == Spec => SilentTickHidesNothing
<1> DEFINE Silent ==
      TimerStatus /\ UNCHANGED told =>
          told.state = state \/ (told = NotTold /\ state = "Stopped")
<1>1. RecordInv /\ [Next]_vars => [Silent]_vars
  <2> SUFFICES ASSUME RecordInv, TimerStatus, UNCHANGED told
               PROVE  told.state = state \/ (told = NotTold /\ state = "Stopped")
    OBVIOUS
  <2>1. CASE state = last
    BY <2>1 DEF TimerStatus, RecordInv, NewsPossible
  <2>2. CASE state # last
    BY <2>2 DEF TimerStatus, Status
  <2> QED
    BY <2>1, <2>2
<1> QED
  BY <1>1, RecordInvInductive, PTL DEF Spec, SilentTickHidesNothing

-----------------------------------------------------------------------------
(* Types.                                                                   *)

TransportType ==
    /\ state \in States
    /\ exit = T!Unknown \/ exit \in T!Known
    /\ Len(queue) <= MaxQueued
    /\ given \in Nat
    /\ queue \in Seq(1..MaxBytes)

ControlType ==
    /\ pc \in {"construct", "started", "idle", "ticked", "restart", "restarted",
               "destroyed"}
    /\ timer \in BOOLEAN /\ early \in BOOLEAN
    /\ last \in States
    /\ last_error \in {"none", "no platform", "failed"}
    /\ told = NotTold \/ told \in [state : States, exit : {T!Unknown} \cup T!Known]
    /\ screen \in Seq(Items)
    /\ sessions \in 0..MaxSessions

TypeInv == TransportType /\ ControlType

LEMMA StatusType ==
    ASSUME TypeInv
    PROVE  Status \in [state : States, exit : {T!Unknown} \cup T!Known]
BY DEF TypeInv, TransportType, Status

LEMMA NoticeType == ASSUME TypeInv PROVE Notice(Status) \in Items
BY DEF TypeInv, TransportType, Notice, Status, Items

\* What a tick takes of the queue.
LEMMA TickType ==
    ASSUME TypeInv
    PROVE  /\ TickBytes \in Nat /\ TickBytes <= Len(queue)
           /\ Bytes(TickBytes) \in Seq(Items) /\ Len(Bytes(TickBytes)) = TickBytes
           /\ \A i \in 1..TickBytes : Bytes(TickBytes)[i] = [byte |-> queue[i]]
<1> DEFINE n == Len(queue)
<1>1. PerTick \in Nat /\ n \in Nat /\ queue \in Seq(1..MaxBytes)
  BY ControlAssumption DEF TypeInv, TransportType
<1> HIDE DEF n
<1>2. \E x \in {PerTick, n} : \A y \in {PerTick, n} : x <= y
  <2>1. CASE PerTick <= n
    BY <1>1, <2>1
  <2>2. CASE n <= PerTick
    BY <1>1, <2>2
  <2> QED
    BY <1>1, <2>1, <2>2
<1>3. Min({PerTick, n}) \in {PerTick, n} /\ Min({PerTick, n}) <= n
  BY <1>2 DEF Min
<1>4. TickBytes \in Nat /\ TickBytes <= n
  BY <1>1, <1>3 DEF TickBytes, n
<1> DEFINE k == TickBytes
<1> HIDE DEF k
<1>5. \A i \in 1..k : i \in 1..n
  BY <1>1, <1>4 DEF k
<1>6. \A i \in 1..k : [byte |-> queue[i]] \in Items
  <2> SUFFICES ASSUME NEW i \in 1..k PROVE [byte |-> queue[i]] \in Items
    OBVIOUS
  <2>1. queue[i] \in 1..MaxBytes
    <3>1. i \in 1..Len(queue)
      BY <1>5 DEF n
    <3> QED
      BY <1>1, <3>1, ElementOfSeq
  <2> QED
    BY <2>1 DEF Items
<1>7. [i \in 1..k |-> [byte |-> queue[i]]] \in Seq(Items)
  BY <1>4, <1>6 DEF k
<1> QED
  BY <1>4, <1>7 DEF Bytes, k, n

\* The steps of the transport.
LEMMA ReceiveType ==
    ASSUME TransportType, Arrives PROVE TransportType'
<1>1. PICK k \in 1..T!Room : queue' = queue \o [i \in 1..k |-> given + Len(queue) + i]
  BY DEF Arrives, T!Receive
<1>2. given + Len(queue') <= MaxBytes /\ UNCHANGED <<state, exit, given>>
  BY DEF Arrives, T!Receive
<1> DEFINE new == [i \in 1..k |-> given + Len(queue) + i]
<1>3. /\ queue \in Seq(1..MaxBytes) /\ Len(queue) \in Nat /\ given \in Nat
      /\ MaxQueued \in Nat /\ MaxBytes \in Nat /\ k \in Nat
      /\ k <= MaxQueued - Len(queue)
  BY ControlAssumption DEF TransportType, T!Room
<1>4. new \in Seq(Nat) /\ Len(new) = k
  BY <1>3
<1>5. Len(queue') = Len(queue) + k
  <2>1. queue \in Seq(Nat)
    BY <1>3
  <2> HIDE DEF new
  <2>2. Len(queue \o new) = Len(queue) + Len(new)
    BY <2>1, <1>4, ConcatProperties
  <2> QED
    BY <1>1, <1>4, <2>2 DEF new
<1>6. \A i \in 1..k : given + Len(queue) + i \in 1..MaxBytes
  BY <1>2, <1>3, <1>5
<1>7. new \in Seq(1..MaxBytes)
  BY <1>3, <1>6
<1> HIDE DEF new
<1>8. queue \o new \in Seq(1..MaxBytes)
  BY <1>3, <1>7, ConcatProperties
<1>9. queue' \in Seq(1..MaxBytes) /\ Len(queue') <= MaxQueued
  BY <1>1, <1>3, <1>5, <1>8 DEF new
<1> QED
  BY <1>2, <1>9 DEF TransportType

\* What is left of a sequence.
LEMMA Rest ==
    ASSUME NEW S, NEW a \in Seq(S), NEW m \in 1..Len(a) + 1, NEW n, n = Len(a)
    PROVE  SubSeq(a, m, n) \in Seq(S) /\ Len(SubSeq(a, m, n)) = n + 1 - m
OBVIOUS

LEMMA TakeType ==
    ASSUME TransportType, NEW k \in Nat, k <= Len(queue), T!TakeOutput(k)
    PROVE  TransportType'
<1> DEFINE n == Len(queue)
<1>1. n \in Nat /\ queue \in Seq(1..MaxBytes) /\ n <= MaxQueued /\ MaxQueued \in Nat
  BY ControlAssumption DEF TransportType
<1>2. queue' = SubSeq(queue, k + 1, n) /\ given' = given + k /\ UNCHANGED <<state, exit>>
  BY DEF T!TakeOutput
<1> DEFINE m == k + 1
<1>3. SubSeq(queue, m, n) \in Seq(1..MaxBytes) /\ Len(SubSeq(queue, m, n)) = n + 1 - m
  <2>1. m \in 1..Len(queue) + 1
    BY <1>1
  <2> HIDE DEF m
  <2> QED
    BY <1>1, <2>1, Rest
<1>4. Len(queue') <= MaxQueued
  BY <1>1, <1>2, <1>3
<1> QED
  BY <1>2, <1>3, <1>4 DEF TransportType

LEMMA StartsType ==
    ASSUME TransportType, Starts
    PROVE  TransportType' /\ (sessions \in 0..MaxSessions => sessions' \in 0..MaxSessions)
<1>1. state' \in States
  BY StartsState DEF States
<1>2. exit' = T!Unknown /\ queue' = <<>>
  BY DEF Starts, T!Start, T!StartFails, T!FreshSession
<1>3. given' \in Nat
  BY DEF Starts, TransportType
<1>4. Len(queue') <= MaxQueued /\ queue' \in Seq(1..MaxBytes)
  BY <1>2, ControlAssumption
<1>5. sessions \in 0..MaxSessions => sessions' \in 0..MaxSessions
  BY ControlAssumption DEF Starts
<1> QED
  BY <1>1, <1>2, <1>3, <1>4, <1>5 DEF TransportType

LEMMA OtherTransportType ==
    ASSUME TransportType,
           UNCHANGED transport \/ T!Stop \/ Exits \/ StatusBecomesKnown
    PROVE  TransportType'
BY DEF TransportType, transport, T!Stop, T!ProcessExits, T!StatusKnown, Exits,
       StatusBecomesKnown, States

LEMMA WelcomeType == <<>> \in Seq(Items) /\ <<[notice |-> "welcome"]>> \in Seq(Items)
<1> DEFINE item == [notice |-> "welcome"]
<1>1. item \in Items
  BY DEF Items
<1> HIDE DEF item
<1>2. Append(<<>>, item) \in Seq(Items) /\ <<>> \in Seq(Items)
  BY <1>1, EmptySeq, AppendProperties
<1>3. Append(<<>>, item) = <<item>>
  OBVIOUS
<1> QED
  BY <1>2, <1>3 DEF item

LEMMA TypeInvStep ==
    ASSUME TypeInv, [Next]_vars PROVE TypeInv'
<1>0. /\ Status \in [state : States, exit : {T!Unknown} \cup T!Known]
      /\ Notice(Status) \in Items /\ FirstState \in States
      /\ Append(screen, Notice(Status)) \in Seq(Items)
  <2>1. /\ Status \in [state : States, exit : {T!Unknown} \cup T!Known]
        /\ Notice(Status) \in Items /\ screen \in Seq(Items)
    BY StatusType, NoticeType DEF TypeInv, ControlType
  <2> QED
    BY <2>1, AppendProperties DEF FirstState, States
<1>14. /\ TickBytes \in Nat /\ TickBytes <= Len(queue)
       /\ screen \o Bytes(TickBytes) \in Seq(Items)
  <2>1. screen \in Seq(Items)
    BY DEF TypeInv, ControlType
  <2> QED
    BY <2>1, TickType, ConcatProperties
<1>15. Len(queue) \in Nat /\ TransportType /\ Len(queue) <= Len(queue)
  <2>1. queue \in Seq(1..MaxBytes) /\ TransportType
    BY DEF TypeInv, TransportType
  <2>2. Len(queue) \in Nat
    BY <2>1, LenProperties
  <2>3. \A n \in Nat : n <= n
    OBVIOUS
  <2> QED
    BY <2>1, <2>2, <2>3
<1> USE DEF TypeInv, ControlType
<1>1. CASE ConstructOnly
  BY <1>1, OtherTransportType DEF ConstructOnly, history
<1>2. CASE ConstructStart
  BY <1>2, StartsType, WelcomeType DEF ConstructStart
<1>3. CASE ConstructEnd
  BY <1>0, <1>3, OtherTransportType DEF ConstructEnd
<1>4. CASE TimerDrains
  <2>1. TransportType'
    BY <1>4, <1>14, <1>15, TakeType DEF TimerDrains
  <2>2. screen' \in Seq(Items)
    BY <1>4, <1>14 DEF TimerDrains
  <2> QED
    BY <1>4, <2>1, <2>2 DEF TimerDrains, history
<1>5. CASE TimerStatus
  <2>1. TransportType'
    BY <1>5, OtherTransportType DEF TimerStatus
  <2>2. last' \in States /\ last_error' \in {"none", "no platform", "failed"}
        /\ screen' \in Seq(Items)
    BY <1>0, <1>5 DEF TimerStatus, TransportType
  <2>3. told' = NotTold \/ told' \in [state : States, exit : {T!Unknown} \cup T!Known]
    BY <1>0, <1>5 DEF TimerStatus
  <2> QED
    BY <1>5, <2>1, <2>2, <2>3 DEF TimerStatus, history
<1>6. CASE Interrupt
  <2>1. TransportType'
    <3>1. T!TakeOutput(Len(queue))
      BY <1>6 DEF Interrupt
    <3> QED
      BY <1>15, <3>1, TakeType
  <2> QED
    BY <1>6, <2>1 DEF Interrupt, control, history
<1>7. CASE Restart
  BY <1>7, OtherTransportType DEF Restart, history
<1>8. CASE RestartStarts
  BY <1>8, StartsType, WelcomeType DEF RestartStarts
<1>9. CASE RestartEnd
  BY <1>0, <1>9, OtherTransportType DEF RestartEnd, RestartedState
<1>10. CASE Destroy
  BY <1>10, OtherTransportType DEF Destroy, history
<1>11. CASE Arrives
  BY <1>11, ReceiveType DEF Arrives, control, history
<1>12. CASE Exits \/ StatusBecomesKnown
  BY <1>12, OtherTransportType DEF Exits, StatusBecomesKnown, control, history
<1>13. CASE UNCHANGED vars
  BY <1>13, OtherTransportType DEF vars, control, history
<1> QED
  BY <1>1, <1>2, <1>3, <1>4, <1>5, <1>6, <1>7, <1>8, <1>9, <1>10, <1>11, <1>12, <1>13
  DEF Next, Handler

LEMMA TypeInvInductive == Spec => []TypeInv
<1>1. Init => TypeInv
  <2>1. <<>> \in Seq(1..MaxBytes) /\ <<>> \in Seq(Items) /\ Len(<<>>) = 0
    OBVIOUS
  <2>2. Init => TransportType
    BY <2>1, ControlAssumption DEF Init, T!Init, TransportType, States
  <2>3. Init => ControlType
    <3>1. 0 \in 0..MaxSessions
      BY ControlAssumption
    <3> QED
      BY <2>1, <3>1 DEF Init, ControlType, States
  <2> QED
    BY <2>2, <2>3 DEF TypeInv
<1>2. TypeInv /\ [Next]_vars => TypeInv'
  BY TypeInvStep
<1> QED
  BY <1>1, <1>2, PTL DEF Spec

\* Every item of the screen is a byte or a notice there is, and the queue
\* never exceeds the transport's limit, whatever the control does.
THEOREM SessionTypes == Spec => []TypeOK
<1>1. TypeInv => TypeOK
  <2>1. ControlType => \A i \in DOMAIN screen : screen[i] \in Items
    BY LenProperties, ElementOfSeq DEF ControlType
  <2> QED
    BY <2>1 DEF TypeInv, TransportType, ControlType, TypeOK
<1> QED
  BY <1>1, TypeInvInductive, PTL

-----------------------------------------------------------------------------
(* Notices.                                                                 *)

Limit == IF early THEN 2 ELSE 1

\* The end of the session that runs is still to be shown, or the tick that
\* shows the end of one that is over is still to come.
EndExpected == state = "Running" \/ (state \in {"Exited", "Failed"} /\ last # state)

\* The notices there are and the one to come are within the limit; until a
\* start is over there are none.
NoticeInv ==
    /\ pc \in {"construct", "started", "restarted"} => Ends = {}
    /\ pc \in {"idle", "ticked"} =>
           Cardinality(Ends) + (IF EndExpected THEN 1 ELSE 0) <= Limit
    /\ OneNoticeForAnEnd

LEMMA EndsFinite ==
    ASSUME screen \in Seq(Items)
    PROVE  /\ Ends \subseteq 1..Len(screen) /\ Len(screen) \in Nat
           /\ IsFiniteSet(Ends) /\ Cardinality(Ends) \in Nat
<1>1. Ends \subseteq 1..Len(screen) /\ Len(screen) \in Nat
  BY LenProperties DEF Ends
<1>2. IsFiniteSet(1..Len(screen))
  BY <1>1, FS_Interval
<1>3. IsFiniteSet(Ends)
  BY <1>1, <1>2, FS_Subset
<1> QED
  BY <1>1, <1>3, FS_CardinalityType

\* Output is no notice.
LEMMA EndsWithOutput ==
    ASSUME TypeInv, screen' = screen \o Bytes(TickBytes) PROVE Ends' = Ends
<1> DEFINE bytes == Bytes(TickBytes)
           n == Len(screen)
<1>1. screen \in Seq(Items) /\ n \in Nat
  BY LenProperties DEF TypeInv, ControlType
<1>2. /\ bytes \in Seq(Items)
      /\ \A i \in 1..Len(bytes) : bytes[i] = [byte |-> queue[i]]
  BY TickType
<1>3. \A i \in 1..Len(bytes) : bytes[i] \notin [notice : {"Exited", "Failed"}]
  <2>1. \A x : [byte |-> x] \notin [notice : {"Exited", "Failed"}]
    OBVIOUS
  <2> QED
    BY <1>2, <2>1
<1> HIDE DEF bytes
<1>4. /\ DOMAIN screen = 1..n
      /\ screen' \in Seq(Items) /\ Len(screen') = n + Len(bytes) /\ Len(bytes) \in Nat
      /\ \A i \in 1..n + Len(bytes) : screen'[i] = IF i <= n THEN screen[i] ELSE bytes[i - n]
  BY <1>1, <1>2, LenProperties, ConcatProperties DEF bytes
<1>5. DOMAIN screen' = 1..n + Len(bytes)
  BY <1>4, LenProperties
<1> HIDE DEF n
<1>6. \A i \in 1..n + Len(bytes) : ~(i <= n) => i - n \in 1..Len(bytes)
  BY <1>1, <1>4
<1>7. \A i \in DOMAIN screen : i \in DOMAIN screen' /\ screen'[i] = screen[i]
  BY <1>1, <1>4, <1>5
<1>8. \A i \in DOMAIN screen' :
          screen'[i] \in [notice : {"Exited", "Failed"}] => i \in DOMAIN screen
  BY <1>1, <1>3, <1>4, <1>5, <1>6
<1> QED
  BY <1>7, <1>8 DEF Ends

\* A notice is one of an end if the state is.
LEMMA EndsWithNotice ==
    ASSUME TypeInv, screen' = Append(screen, Notice(Status)), screen' \in Seq(Items)
    PROVE  Cardinality(Ends') = Cardinality(Ends)
                                    + IF state \in {"Exited", "Failed"} THEN 1 ELSE 0
<1> DEFINE n == Len(screen)
           note == Notice(Status)
<1>1. screen \in Seq(Items) /\ n \in Nat /\ DOMAIN screen = 1..n
  BY LenProperties DEF TypeInv, ControlType
<1>2. note \in Items
  BY NoticeType
<1>3. note \in [notice : {"Exited", "Failed"}] <=> state \in {"Exited", "Failed"}
  BY DEF Notice, Status
<1> HIDE DEF note
<1>4. /\ Len(screen') = n + 1 /\ screen'[n + 1] = note
      /\ \A i \in 1..n : screen'[i] = screen[i]
  BY <1>1, <1>2, AppendProperties DEF note
<1>5. DOMAIN screen' = 1..n + 1
  BY <1>4, LenProperties
<1>6. Ends \subseteq 1..n /\ IsFiniteSet(Ends) /\ Cardinality(Ends) \in Nat
  BY <1>1, EndsFinite
<1> HIDE DEF n
<1>7. n + 1 \notin Ends
  BY <1>1, <1>6
<1>8. CASE state \in {"Exited", "Failed"}
  <2>1. Ends' = Ends \cup {n + 1}
    BY <1>1, <1>3, <1>4, <1>5, <1>8 DEF Ends
  <2>2. Cardinality(Ends \cup {n + 1}) = Cardinality(Ends) + 1
    BY <1>6, <1>7, FS_AddElement
  <2> QED
    BY <1>8, <2>1, <2>2
<1>9. CASE state \notin {"Exited", "Failed"}
  <2>1. Ends' = Ends
    BY <1>1, <1>3, <1>4, <1>5, <1>9 DEF Ends
  <2> QED
    BY <1>6, <1>9, <2>1
<1> QED
  BY <1>8, <1>9

\* A screen without an end on it keeps within every limit.
LEMMA NoEnds == ASSUME Ends = {} PROVE Cardinality(Ends) = 0 /\ OneNoticeForAnEnd
<1>1. Cardinality(Ends) = 0
  BY FS_EmptySet
<1> QED
  BY <1>1 DEF OneNoticeForAnEnd

LEMMA NoticeInvStep ==
    ASSUME TypeInv, TypeInv', NoticeInv, [Next]_vars PROVE NoticeInv'
<1> DEFINE ends == Cardinality(Ends)
<1>0. ends \in Nat
  BY EndsFinite DEF TypeInv, ControlType
<1>1. CASE ConstructOnly \/ ConstructEnd
  <2>1. Ends = {} /\ Ends' = {} /\ pc' = "idle"
    BY <1>1 DEF ConstructOnly, ConstructEnd, NoticeInv, Ends
  <2>2. Cardinality(Ends') = 0
    BY <2>1, FS_EmptySet
  <2> QED
    BY <2>1, <2>2 DEF NoticeInv, OneNoticeForAnEnd, Limit
<1>2. CASE ConstructStart \/ RestartStarts
  <2>1. Ends' = {}
    <3>1. CASE screen' = <<>>
      BY <3>1 DEF Ends
    <3>2. CASE screen' = <<[notice |-> "welcome"]>>
      <4>1. DOMAIN screen' = {1} /\ screen'[1] = [notice |-> "welcome"]
        BY <3>2
      <4>2. [notice |-> "welcome"] \notin [notice : {"Exited", "Failed"}]
        OBVIOUS
      <4> QED
        BY <4>1, <4>2 DEF Ends
    <3> QED
      BY <1>2, <3>1, <3>2 DEF ConstructStart, RestartStarts
  <2>2. Cardinality(Ends') = 0 /\ pc' \in {"started", "restarted"}
    BY <1>2, <2>1, FS_EmptySet DEF ConstructStart, RestartStarts
  <2> QED
    BY <2>1, <2>2 DEF NoticeInv, OneNoticeForAnEnd
<1>3. CASE TimerDrains
  <2>1. Ends' = Ends
    BY <1>3, EndsWithOutput DEF TimerDrains
  <2> QED
    BY <1>3, <2>1
    DEF TimerDrains, T!TakeOutput, history, NoticeInv, OneNoticeForAnEnd, Limit, EndExpected
<1>4. CASE TimerStatus
  <2>1. ends + (IF EndExpected THEN 1 ELSE 0) <= Limit /\ pc' = "idle" /\ UNCHANGED <<state, early>>
    BY <1>4 DEF TimerStatus, NoticeInv, transport, history
  <2>2. Limit' = Limit
    BY <2>1 DEF Limit
  <2>3. CASE UNCHANGED <<last, screen>>
    <3>1. Ends' = Ends /\ EndExpected' = EndExpected
      BY <2>1, <2>3 DEF Ends, EndExpected
    <3> QED
      BY <2>1, <2>2, <3>1, <1>0 DEF NoticeInv, OneNoticeForAnEnd, Limit
  <2>4. CASE state # last /\ last' = state /\ state \in {"Exited", "Failed"}
    <3>1. screen' = Append(screen, Notice(Status)) /\ screen' \in Seq(Items)
      BY <1>4, <2>4 DEF TimerStatus, TypeInv, ControlType
    <3>2. Cardinality(Ends') = ends + 1 /\ EndExpected /\ ~EndExpected'
      BY <2>1, <2>4, <3>1, EndsWithNotice DEF EndExpected
    <3> QED
      BY <2>1, <2>2, <3>2, <1>0 DEF NoticeInv, OneNoticeForAnEnd, Limit
  <2>5. CASE state # last /\ last' = state /\ state \notin {"Exited", "Failed"}
    <3>1. screen' = screen
      BY <1>4, <2>5 DEF TimerStatus
    <3>2. Ends' = Ends /\ EndExpected' = EndExpected
      BY <2>1, <2>5, <3>1 DEF Ends, EndExpected
    <3> QED
      BY <2>1, <2>2, <3>2, <1>0 DEF NoticeInv, OneNoticeForAnEnd, Limit
  <2> QED
    BY <1>4, <2>3, <2>4, <2>5 DEF TimerStatus
<1>5. CASE RestartEnd
  <2>1. Ends = {} /\ ends = 0
    BY <1>5, NoEnds DEF RestartEnd, NoticeInv
  <2>2. screen' = Append(screen, Notice(Status)) /\ screen' \in Seq(Items)
    BY <1>5 DEF RestartEnd, TypeInv, ControlType
  <2>3. Cardinality(Ends') = IF state \in {"Exited", "Failed"} THEN 1 ELSE 0
    BY <2>1, <2>2, EndsWithNotice
  <2>4. /\ pc' = "idle" /\ state' = state /\ early' = (state = "Exited")
        /\ last' = IF state = "Failed" THEN "Failed" ELSE "Stopped"
    BY <1>5 DEF RestartEnd, RestartedState, FirstState, transport
  <2>5. Limit' = IF state = "Exited" THEN 2 ELSE 1
    BY <2>4 DEF Limit
  <2>6. EndExpected' => state \in {"Running", "Exited"}
    BY <2>4 DEF EndExpected
  <2>7. Cardinality(Ends') + (IF EndExpected' THEN 1 ELSE 0) <= Limit'
    BY <2>3, <2>5, <2>6
  <2>8. Cardinality(Ends') <= Limit'
    BY <2>3, <2>5
  <2> QED
    BY <2>4, <2>7, <2>8 DEF NoticeInv, OneNoticeForAnEnd, Limit
<1>6. CASE Restart \/ Destroy
  BY <1>6 DEF Restart, Destroy, history, NoticeInv, OneNoticeForAnEnd, Ends
<1>7. CASE Interrupt \/ Arrives \/ Exits \/ StatusBecomesKnown \/ UNCHANGED vars
  <2>1. UNCHANGED <<control, history>>
    BY <1>7 DEF Interrupt, Arrives, Exits, StatusBecomesKnown, vars
  <2>2. state' = state \/ (state = "Running" /\ state' = "Exited")
    BY <1>7 DEF Interrupt, Arrives, Exits, StatusBecomesKnown, T!TakeOutput, T!Receive,
                T!ProcessExits, T!StatusKnown, vars, transport
  <2>3. Ends' = Ends /\ Limit' = Limit /\ pc' = pc /\ (EndExpected' => EndExpected)
        /\ early' = early
    BY <2>1, <2>2 DEF control, history, Ends, Limit, EndExpected
  <2> QED
    BY <2>3, <1>0 DEF NoticeInv, OneNoticeForAnEnd, Limit
<1> QED
  BY <1>1, <1>2, <1>3, <1>4, <1>5, <1>6, <1>7 DEF Next, Handler

\* ShowTransportNotice: in any number of sessions, each end leaves one notice
\* on the screen, or two if the process was dead before its handler was over.
THEOREM NoticesAreFew == Spec => []OneNoticeForAnEnd
<1>1. Init => NoticeInv
  <2>1. Init => Ends = {} /\ pc = "construct"
    BY DEF Init, Ends
  <2> QED
    BY <2>1, NoEnds DEF NoticeInv
<1>2. TypeInv /\ TypeInv' /\ NoticeInv /\ [Next]_vars => NoticeInv'
  BY NoticeInvStep
<1>3. NoticeInv => OneNoticeForAnEnd
  BY DEF NoticeInv
<1> QED
  BY <1>1, <1>2, <1>3, TypeInvInductive, PTL DEF Spec
=============================================================================
