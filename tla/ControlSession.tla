---------------------------- MODULE ControlSession ----------------------------
(***************************************************************************)
(* How the wx control runs a session on its transport, and what it tells   *)
(* the user and the host of it (wx/terminal_ctrl.cpp: the constructor,     *)
(* RestartTransport, UpdateTransportStatus, OnTimer, the interrupt key of  *)
(* OnChar, the destructor).                                                *)
(*                                                                         *)
(* The transport is the contract of TerminalTransport: while the control's *)
(* one thread runs, bytes arrive and the process may exit between any two  *)
(* of its calls.  A handler of the control is a sequence of steps that     *)
(* begins and ends at pc = "idle".                                         *)
(***************************************************************************)
EXTENDS Integers, Sequences, FiniteSets, FiniteSetsExt

CONSTANTS
    MaxQueued,      \* the transport's kMaximumQueuedOutputBytes
    Codes, Signals, \* what a process can exit with
    PerTick,        \* TerminalConfig::output_bytes_per_tick
    MaxBytes,       \* bound: bytes the processes write
    MaxSessions     \* bound: calls of Start

ASSUME ControlAssumption ==
    /\ MaxQueued \in Nat \ {0}
    /\ PerTick \in Nat \ {0}
    /\ MaxBytes \in Nat
    /\ MaxSessions \in Nat \ {0}

VARIABLES
    state, exit, queue, given,   \* the transport
    pc,         \* the step of the control's thread
    timer,      \* is output_timer_ running?
    last,       \* last_transport_state_
    told,       \* the last status on_transport_status_changed was given
    last_error, \* last_error_: the message on_error was given last
    screen,     \* what the core was fed since the screen was last cleared
    \* History: sessions started; did the handler that started the session find
    \* the process dead already
    sessions, early

transport == <<state, exit, queue, given>>
control == <<pc, timer, last, told, last_error, screen>>
history == <<sessions, early>>
vars == <<transport, control, history>>

T == INSTANCE TerminalTransport

States == {"Stopped", "Running", "Exited", "Failed"}
NotTold == [state |-> "nothing"]
Status == [state |-> state, exit |-> exit]

\* What ShowTransportNotice writes on the screen, and the output itself.
Notice(status) == [notice |-> status.state]
Bytes(k) == [i \in 1..k |-> [byte |-> queue[i]]]

-----------------------------------------------------------------------------
(* The transport, behind the control's back.                                *)

Arrives ==
    /\ pc # "destroyed"
    /\ T!Receive
    /\ given + Len(queue') <= MaxBytes
    /\ UNCHANGED <<control, history>>

Exits ==
    /\ pc # "destroyed"
    /\ T!ProcessExits
    /\ UNCHANGED <<control, history>>

StatusBecomesKnown ==
    /\ pc # "destroyed"
    /\ T!StatusKnown
    /\ UNCHANGED <<control, history>>

\* Start.  Bound: at most one byte, `lost`, of the old process was never read.
Starts ==
    /\ sessions < MaxSessions
    /\ sessions' = sessions + 1
    /\ \E lost \in 0..1 : given' = given + Len(queue) + lost
    /\ \/ T!Start
       \/ T!StartFails

-----------------------------------------------------------------------------
(* The constructor.                                                         *)

\* Without start_transport, or without a transport, only the timer starts.
ConstructOnly ==
    /\ pc = "construct"
    /\ pc' = "idle"
    /\ timer' = TRUE
    /\ UNCHANGED <<transport, last, told, last_error, screen, history>>

ConstructStart ==
    /\ pc = "construct"
    /\ Starts
    /\ pc' = "started"
    /\ last_error' = IF state' = "Failed" THEN "no platform" ELSE last_error
    /\ screen' = IF state' = "Failed" THEN <<[notice |-> "welcome"]>> ELSE <<>>
    /\ UNCHANGED <<timer, last, told, early>>

\* A plausible bug: a failed start is recorded like any other.
AlwaysStopped == "Stopped"

\* The last state is set so that the next tick tells the state once more,
\* unless it failed.
FirstState == IF state = "Failed" THEN "Failed" ELSE "Stopped"

ConstructEnd ==
    /\ pc = "started"
    /\ pc' = "idle"
    /\ last' = FirstState
    /\ told' = Status
    /\ timer' = TRUE
    /\ early' = (state = "Exited")
    /\ UNCHANGED <<transport, last_error, screen, sessions>>

-----------------------------------------------------------------------------
(* The timer.                                                               *)

\* A plausible bug: the process has exited, so its output is at an end.
UntilExit == IF last = "Exited" THEN 0 ELSE Min({PerTick, Len(queue)})

\* At most output_bytes_per_tick, whatever waits.
TickBytes == Min({PerTick, Len(queue)})

TimerDrains ==
    /\ pc = "idle" /\ timer
    /\ pc' = "ticked"
    /\ T!TakeOutput(TickBytes)
    /\ screen' = screen \o Bytes(TickBytes)
    /\ UNCHANGED <<timer, last, told, last_error, history>>

\* UpdateTransportStatus.
TimerStatus ==
    /\ pc = "ticked"
    /\ pc' = "idle"
    /\ UNCHANGED <<transport, timer, history>>
    /\ \/ /\ state = last
          /\ UNCHANGED <<last, told, last_error, screen>>
       \/ /\ state # last
          /\ last' = state
          /\ told' = Status
          /\ last_error' = IF state = "Failed" THEN "failed" ELSE last_error
          /\ screen' = IF state \in {"Exited", "Failed"}
                       THEN Append(screen, Notice(Status)) ELSE screen

-----------------------------------------------------------------------------
(* The user.                                                                *)

\* Ctrl-C, once the core has sent it to the process.
Interrupt ==
    /\ pc = "idle" /\ timer
    /\ queue # <<>>
    /\ T!TakeOutput(Len(queue))
    /\ UNCHANGED <<control, history>>

\* RestartTransport stops, starts, clears the screen, and shows and tells the
\* status it finds, in these steps.
Restart ==
    /\ pc = "idle" /\ timer
    /\ sessions < MaxSessions
    /\ pc' = "restart"
    /\ \/ T!Stop
       \/ state # "Running" /\ UNCHANGED transport
    /\ UNCHANGED <<timer, last, told, last_error, screen, history>>

RestartStarts ==
    /\ pc = "restart"
    /\ Starts
    /\ pc' = "restarted"
    /\ screen' = <<>>
    /\ UNCHANGED <<timer, last, told, last_error, early>>

\* A plausible bug: the state of the old session is kept.
RestartForgetsLast == last

RestartedState == FirstState

RestartEnd ==
    /\ pc = "restarted"
    /\ pc' = "idle"
    /\ screen' = Append(screen, Notice(Status))
    /\ last' = RestartedState
    /\ told' = Status
    /\ last_error' = IF state = "Failed" THEN "failed" ELSE last_error
    /\ early' = (state = "Exited")
    /\ UNCHANGED <<transport, timer, sessions>>

\* The destructor stops the timer first, then the transport.
Destroy ==
    /\ pc = "idle"
    /\ pc' = "destroyed"
    /\ timer' = FALSE
    /\ \/ T!Stop
       \/ state # "Running" /\ UNCHANGED transport
    /\ UNCHANGED <<last, told, last_error, screen, history>>

-----------------------------------------------------------------------------

Init ==
    /\ T!Init
    /\ pc = "construct" /\ timer = FALSE
    /\ last = "Stopped" /\ told = NotTold /\ last_error = "none"
    /\ screen = <<>>
    /\ sessions = 0 /\ early = FALSE

Handler == ConstructEnd \/ TimerStatus \/ RestartStarts \/ RestartEnd

Next ==
    \/ ConstructOnly \/ ConstructStart \/ Handler
    \/ TimerDrains \/ Interrupt \/ Restart \/ Destroy
    \/ Arrives \/ Exits \/ StatusBecomesKnown

Spec == Init /\ [][Next]_vars

\* A handler that has begun goes on, and the timer keeps firing.
FairSpec == Spec /\ WF_vars(Handler) /\ WF_vars(TimerDrains)

-----------------------------------------------------------------------------
(* Properties                                                               *)

Items == [byte : 1..MaxBytes] \cup [notice : States \cup {"welcome"}]

TypeOK ==
    /\ state \in States
    /\ exit = T!Unknown \/ exit \in T!Known
    /\ Len(queue) <= MaxQueued
    /\ pc \in {"construct", "started", "idle", "ticked", "restart", "restarted",
               "destroyed"}
    /\ timer \in BOOLEAN /\ early \in BOOLEAN
    /\ last \in States
    /\ last_error \in {"none", "no platform", "failed"}
    /\ told = NotTold \/ told \in [state : States, exit : {T!Unknown} \cup T!Known]
    /\ \A i \in DOMAIN screen : screen[i] \in Items
    /\ sessions \in 0..MaxSessions

\* A tick that finds the state it had recorded tells nobody.  That is right
\* only if the host knows it already: a session that ended must not hide
\* behind the end of the session before.
SilentTickHidesNothing ==
    [][TimerStatus /\ UNCHANGED told =>
          told.state = state \/ (told = NotTold /\ state = "Stopped")]_vars

\* The screen shows one notice for the end of a session, two if the process
\* was dead before the handler that started it was over: then the handler and
\* the next tick both show it.
Ends == {i \in DOMAIN screen : screen[i] \in [notice : {"Exited", "Failed"}]}
OneNoticeForAnEnd == Cardinality(Ends) <= IF early THEN 2 ELSE 1

\* The process may exit with more output in the queue than a tick takes, and
\* the notice then stands in the middle of it; but all of it leaves
\* the queue for the screen, unless the user drops it.
OutputReachesScreen ==
    \A b \in 1..MaxBytes : given + Len(queue) >= b ~> (given >= b \/ pc = "destroyed")

\* The host learns of every end of a session, unless a restart or the end of
\* the control overtakes it.
EndIsTold ==
    \A s \in 1..MaxSessions :
        (sessions = s /\ state = "Exited" /\ pc = "idle") ~>
            (told.state = "Exited" \/ sessions # s \/ pc \in {"restart", "destroyed"})
=============================================================================
