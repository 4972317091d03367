-------------------------- MODULE TerminalTransport --------------------------
(***************************************************************************)
(* What a TerminalTransport promises its owner, whatever threads and       *)
(* system calls are behind it (include/sakura/terminal/transport.h): the   *)
(* bytes of the running process appear in a bounded queue, in order and    *)
(* once; a session runs, then ends by itself or by Stop; its exit status   *)
(* becomes known at most once; a restart starts from an empty queue.       *)
(*                                                                         *)
(* A byte is its position in everything the processes ever wrote, and      *)
(* `given` counts those the owner has taken or dropped.                    *)
(***************************************************************************)
EXTENDS Integers, Sequences

CONSTANTS MaxQueued, Codes, Signals

VARIABLES state, exit, queue, given

transportVars == <<state, exit, queue, given>>

Unknown == [valid |-> FALSE]
Known   == [valid : {TRUE}, code : Codes, signal : Signals]

Init ==
    /\ state = "Stopped" /\ exit = Unknown
    /\ queue = <<>> /\ given = 0

\* The queue is lost, and so are bytes the old process wrote that nobody read.
FreshSession ==
    /\ exit' = Unknown
    /\ queue' = <<>>
    /\ given' >= given + Len(queue)

Start ==
    /\ state # "Running"
    /\ state' = "Running"
    /\ FreshSession

StartFails ==
    /\ state # "Running"
    /\ state' = "Failed"
    /\ FreshSession

\* A plausible bug: the limit is not looked at.
NoLimit == MaxQueued

Room == MaxQueued - Len(queue)

\* The session's next bytes reach the queue.
Receive ==
    /\ state = "Running"
    /\ \E k \in 1..Room :
        queue' = queue \o [i \in 1..k |-> given + Len(queue) + i]
    /\ UNCHANGED <<state, exit, given>>

TakeOutput(k) ==
    /\ k <= Len(queue)
    /\ queue' = SubSeq(queue, k + 1, Len(queue))
    /\ given' = given + k
    /\ UNCHANGED <<state, exit>>

ProcessExits ==
    /\ state = "Running"
    /\ state' = "Exited"
    /\ UNCHANGED <<exit, queue, given>>

Stop ==
    /\ state = "Running"
    /\ state' = "Stopped"
    /\ UNCHANGED <<exit, queue, given>>

\* The status may become known before the state changes, or be found by Stop.
StatusKnown ==
    /\ state \in {"Running", "Exited"}
    /\ exit = Unknown
    /\ exit' \in Known
    /\ UNCHANGED <<state, queue, given>>

Next ==
    \/ Start \/ StartFails \/ Receive \/ ProcessExits \/ Stop \/ StatusKnown
    \/ \E k \in 1..MaxQueued : TakeOutput(k)

Spec == Init /\ [][Next]_transportVars
=============================================================================
