---------------------------- MODULE ConPtySession ----------------------------
(***************************************************************************)
(* The Windows pseudo-console transport, src/src/conpty_session.cpp: the   *)
(* owner thread, the reader thread with its blocking ReadFile, and behind  *)
(* the handles the shell process and the console host that keeps the far   *)
(* end of the output pipe.                                                 *)
(*                                                                         *)
(* A step is one access to state two threads share, as in PtySession.  The *)
(* handles are the members of a set; the bytes of a Write and the event    *)
(* counters of GetMetrics are left out.                                    *)
(***************************************************************************)
EXTENDS Integers, Sequences

CONSTANTS
    MaxQueued,    \* kMaximumQueuedOutputBytes
    ReadBuffer,   \* sizeof(buffer) in ReadLoop
    MaxDimension, \* 32767: the largest SHORT of a COORD
    TakeSizes,    \* the max_bytes arguments of TakeOutput
    Columns,      \* the column arguments of Start and Resize
    ExitCodes,    \* the codes the shell may exit with by itself
    PipeOut,      \* bytes the output pipe holds
    MaxBytes,     \* bound: bytes all shells write together
    MaxSessions   \* bound: successful Start calls

STILL_ACTIVE == 259

ASSUME ConPtyConstants ==
    /\ MaxQueued \in Nat \ {0} /\ ReadBuffer \in Nat \ {0}
    /\ MaxDimension \in Nat \ {0} /\ Columns \subseteq Nat
    /\ TakeSizes \subseteq Nat /\ ExitCodes \subseteq Nat
    /\ PipeOut \in Nat /\ MaxBytes \in Nat /\ MaxSessions \in Nat

VARIABLES
    \* atomics of ConPtySession (exit_signal_ is never anything but 0)
    stop, running, state, exitCode, exitValid, queued,
    \* under output_mutex_
    output,
    \* under io_mutex_: the handle members that are not null
    handles,
    \* the owner thread: where it is, what Stop() was called for, the handles
    \* Stop took over, locals of TakeOutput and GetStatus
    opc, goal, mine, taken, snap,
    \* the reader thread: where it is, read_capacity, the bytes ReadFile
    \* returned, the process handle it loaded, and a cancelled ReadFile
    rpc, cap, chunk, hasProcess, cancelled,
    \* Windows: handles of this process that are open, the shell, its code, a
    \* TerminateProcess on its way, the host's end of the pipe, and its size
    open, shell, code, killed, host, pipe, winsize,
    \* history: sessions, bytes shells wrote, bytes taken or dropped by the
    \* owner, and a wait in Stop that ran out
    session, emitted, consumed, outlived

statusVars  == <<stop, running, state, exitCode, exitValid>>
queueVars   == <<queued, output>>
ownerVars   == <<opc, goal, mine, taken, snap>>
readerVars  == <<rpc, cap, chunk, hasProcess, cancelled>>
shellVars   == <<shell, code, killed>>
hostVars    == <<host, pipe, winsize>>
historyVars == <<session, emitted, consumed, outlived>>
vars == <<statusVars, queueVars, handles, ownerVars, readerVars, open, shellVars,
          hostVars, historyVars>>

States  == {"Stopped", "Starting", "Running", "Exited", "Failed"}
Members == {"input_write", "output_read", "pseudo_console", "process", "job"}
NoSnap  == [state |-> "Stopped", code |-> -1, valid |-> FALSE]

Lesser(a, b) == IF a <= b THEN a ELSE b
Drop(s, k)   == SubSeq(s, k + 1, Len(s))

Owner(from, to)  == opc = from /\ opc' = to
Reader(from, to) == rpc = from /\ rpc' = to

\* WriteFile blocks while the owner holds io_mutex_.
IoMutexFree == opc # "write"

NarrowedOnly(c) == c   \* mutant of Clamped: no bounds
Clamped(c) == IF c < 1 THEN 1 ELSE Lesser(c, MaxDimension)

Init ==
    /\ stop = FALSE /\ running = FALSE /\ state = "Stopped"
    /\ exitCode = -1 /\ exitValid = FALSE
    /\ queued = 0 /\ output = <<>> /\ handles = {}
    /\ opc = "idle" /\ goal = "idle" /\ mine = {} /\ taken = 0 /\ snap = NoSnap
    /\ rpc = "none" /\ cap = 0 /\ chunk = <<>> /\ hasProcess = FALSE /\ cancelled = FALSE
    /\ open = {} /\ shell = "none" /\ code = 0 /\ killed = FALSE
    /\ host = FALSE /\ pipe = <<>> /\ winsize = 1
    /\ session = 0 /\ emitted = 0 /\ consumed = 0 /\ outlived = FALSE

-----------------------------------------------------------------------------
(* Stop(), and Start() up to CreatePipe: Start begins with Stop. *)

StopCall(g) ==
    /\ g = "create" => session < MaxSessions
    /\ Owner("idle", "stop_take")
    /\ goal' = g /\ stop' = TRUE
    /\ UNCHANGED <<running, state, exitCode, exitValid, queueVars, handles, mine, taken,
                   snap, readerVars, open, shellVars, hostVars, historyVars>>

StopTake ==
    /\ Owner("stop_take", "stop_kill")
    /\ mine' = handles /\ handles' = {}
    /\ UNCHANGED <<statusVars, queueVars, goal, taken, snap, readerVars, open, shellVars,
                   hostVars, historyVars>>

StopKill ==
    /\ Owner("stop_kill", "stop_cancel")
    /\ killed' = (killed \/ ("process" \in mine /\ shell = "alive"))
    /\ UNCHANGED <<statusVars, queueVars, handles, goal, mine, taken, snap, readerVars,
                   open, shell, code, hostVars, historyVars>>

\* CancelIoEx reaches a ReadFile that is waiting, not one yet to be called.
CancelNothing == FALSE   \* mutant of CancelPending: no CancelIoEx
CancelPending == "output_read" \in mine /\ rpc = "reading"

StopCancel ==
    /\ Owner("stop_cancel", "stop_join")
    /\ cancelled' = (cancelled \/ CancelPending)
    /\ UNCHANGED <<statusVars, queueVars, handles, goal, mine, taken, snap, rpc, cap,
                   chunk, hasProcess, open, shellVars, hostVars, historyVars>>

JoinForgotten == TRUE   \* mutant of Joined: Stop does not join
Joined == rpc \in {"none", "done"}

StopJoin ==
    /\ Joined
    /\ opc = "stop_join"
    /\ opc' = IF "process" \in mine THEN "stop_release" ELSE "stop_end"
    /\ UNCHANGED <<statusVars, queueVars, handles, goal, mine, taken, snap, readerVars,
                   open, shellVars, hostVars, historyVars>>

\* CloseHandle on both pipe ends, then ClosePseudoConsole: the host goes away.
StopRelease ==
    /\ Owner("stop_release", "stop_wait")
    /\ open' = open \ {"input_write", "output_read", "pseudo_console"}
    /\ host' = FALSE /\ pipe' = <<>>
    /\ UNCHANGED <<statusVars, queueVars, handles, goal, mine, taken, snap, readerVars,
                   shellVars, winsize, historyVars>>

\* WaitForSingleObject(process, 2000) finds it dead, or runs out.
StopWait ==
    /\ Owner("stop_wait", "stop_record")
    /\ shell \in {"alive", "dead"}
    /\ outlived' = (outlived \/ shell = "alive")
    /\ UNCHANGED <<statusVars, queueVars, handles, goal, mine, taken, snap, readerVars,
                   open, shellVars, hostVars, session, emitted, consumed>>

ExitCodeKnown == shell = "dead" /\ code # STILL_ACTIVE

StopRecord ==
    /\ Owner("stop_record", "stop_end")
    /\ IF ~exitValid /\ ExitCodeKnown
       THEN exitCode' = code /\ exitValid' = TRUE
       ELSE UNCHANGED <<exitCode, exitValid>>
    /\ open' = open \ {"process", "job"}
    /\ UNCHANGED <<stop, running, state, queueVars, handles, goal, mine, taken, snap,
                   readerVars, shellVars, hostVars, historyVars>>

AlwaysStopped(s) == "Stopped"   \* mutant of FinalState: an unconditional store
FinalState(s) == IF s \in {"Starting", "Running"} THEN "Stopped" ELSE s

StopEnd ==
    /\ Owner("stop_end", goal)
    /\ running' = FALSE
    /\ state' = FinalState(state)
    /\ goal' = "idle" /\ mine' = {}
    /\ UNCHANGED <<stop, exitCode, exitValid, queueVars, handles, taken, snap, readerVars,
                   open, shellVars, hostVars, historyVars>>

-----------------------------------------------------------------------------
(* The rest of Start(): no reader exists, so its stores are one step. *)

ForgetOutput ==
    /\ output' = <<>> /\ queued' = 0 /\ consumed' = emitted
    /\ exitCode' = -1 /\ exitValid' = FALSE

\* The job object is an extra: any failure on the way to it is ignored.
CreateSucceeds(c, job) ==
    /\ Owner("create", "idle")
    /\ session < MaxSessions
    /\ ForgetOutput
    /\ handles' = IF job THEN Members ELSE Members \ {"job"}
    /\ open' = handles'
    /\ stop' = FALSE /\ running' = TRUE /\ state' = "Running"
    /\ rpc' = "check" /\ cap' = 0 /\ chunk' = <<>> /\ hasProcess' = FALSE
    /\ cancelled' = FALSE
    /\ shell' = "alive" /\ code' = 0 /\ killed' = FALSE
    /\ host' = TRUE /\ pipe' = <<>> /\ winsize' = Clamped(c)
    /\ session' = session + 1 /\ outlived' = FALSE
    /\ UNCHANGED <<goal, mine, taken, snap, emitted>>

\* What Start has opened when the call at `point` fails, and what it then closes.
Pipes == {"input_read", "input_write", "output_read", "output_write"}
Points == {"first_pipe", "second_pipe", "console", "attribute_size",
           "attribute_init", "attribute_update", "process"}
OpenedBy(point) ==
    CASE point = "first_pipe"       -> {}
      [] point = "second_pipe"      -> {"input_read", "input_write"}
      [] point = "console"          -> Pipes
      [] point = "attribute_size"   -> Pipes \cup {"pseudo_console"}
      [] point = "attribute_init"   -> Pipes \cup {"pseudo_console"}
      [] OTHER                      -> Pipes \cup {"pseudo_console", "attributes"}

ClosesPipes(point) == Pipes   \* mutant of ClosedAfter: the console is forgotten
ClosedAfter(point) ==
    CASE point \in {"first_pipe", "second_pipe"} ->
            Pipes \cap OpenedBy(point)
      [] point = "console" -> Pipes
      [] point \in {"attribute_size", "attribute_init"} -> Pipes \cup {"pseudo_console"}
      [] OTHER -> Pipes \cup {"pseudo_console", "attributes"}

CreateFails(point) ==
    /\ Owner("create", "idle")
    /\ ForgetOutput
    /\ state' = "Failed"
    /\ open' = open \cup (OpenedBy(point) \ ClosedAfter(point))
    /\ UNCHANGED <<stop, running, handles, goal, mine, taken, snap, readerVars, shellVars,
                   hostVars, session, emitted, outlived>>

-----------------------------------------------------------------------------
(* The other methods of the owner. *)

TakeOutput(m) ==
    LET k == Lesser(m, Len(output)) IN
    /\ Owner("idle", "take")
    /\ output' = Drop(output, k)
    /\ taken' = k
    /\ consumed' = consumed + k
    /\ UNCHANGED <<statusVars, queued, handles, goal, mine, snap, readerVars, open,
                   shellVars, hostVars, session, emitted, outlived>>

TakeSettle ==
    /\ Owner("take", "idle")
    /\ queued' = queued - taken
    /\ taken' = 0
    /\ UNCHANGED <<statusVars, output, handles, goal, mine, snap, readerVars, open,
                   shellVars, hostVars, historyVars>>

DiscardOutput ==
    /\ opc = "idle"
    /\ output' = <<>> /\ queued' = 0
    /\ consumed' = consumed + Len(output)
    /\ UNCHANGED <<statusVars, handles, ownerVars, readerVars, open, shellVars, hostVars,
                   session, emitted, outlived>>

WriteCall ==
    /\ "input_write" \in handles
    /\ Owner("idle", "write")
    /\ UNCHANGED <<statusVars, queueVars, handles, goal, mine, taken, snap, readerVars,
                   open, shellVars, hostVars, historyVars>>

\* The host took everything, or WriteFile failed.
WriteDone ==
    /\ Owner("write", "idle")
    /\ UNCHANGED <<statusVars, queueVars, handles, goal, mine, taken, snap, readerVars,
                   open, shellVars, hostVars, historyVars>>

Resize(c) ==
    /\ opc = "idle" /\ "pseudo_console" \in handles
    /\ winsize' = Clamped(c)
    /\ UNCHANGED <<statusVars, queueVars, handles, ownerVars, readerVars, open, shellVars,
                   host, pipe, historyVars>>

\* Mutant of GetStatus: the state is loaded last.
GetStatusStateLast ==
    /\ \/ Owner("idle", "snap_code") /\ snap' = [NoSnap EXCEPT !.code = exitCode]
       \/ Owner("snap_code", "snap_valid") /\ snap' = [snap EXCEPT !.valid = exitValid]
       \/ Owner("snap_valid", "snap_done") /\ snap' = [snap EXCEPT !.state = state]
       \/ Owner("snap_done", "idle") /\ snap' = NoSnap
    /\ UNCHANGED <<statusVars, queueVars, handles, goal, mine, taken, readerVars, open,
                   shellVars, hostVars, historyVars>>

\* GetStatus loads the atomics one after the other, the state first.
GetStatus ==
    /\ \/ Owner("idle", "snap_code") /\ snap' = [NoSnap EXCEPT !.state = state]
       \/ Owner("snap_code", "snap_valid") /\ snap' = [snap EXCEPT !.code = exitCode]
       \/ Owner("snap_valid", "snap_done") /\ snap' = [snap EXCEPT !.valid = exitValid]
       \/ Owner("snap_done", "idle") /\ snap' = NoSnap
    /\ UNCHANGED <<statusVars, queueVars, handles, goal, mine, taken, readerVars, open,
                   shellVars, hostVars, historyVars>>

-----------------------------------------------------------------------------
(* ReadLoop. *)

StopSeenUnlessFull == stop /\ queued < MaxQueued   \* mutant of StopSeen
StopSeen == stop

ReaderCheck ==
    /\ \/ StopSeen /\ Reader("check", "post") /\ UNCHANGED cap
       \/ /\ ~StopSeen /\ queued < MaxQueued
          /\ Reader("check", "ready")
          /\ cap' = Lesser(ReadBuffer, MaxQueued - queued)
    /\ UNCHANGED <<statusVars, queueVars, handles, ownerVars, chunk, hasProcess, cancelled,
                   open, shellVars, hostVars, historyVars>>

ReaderIssue ==
    /\ Reader("ready", "reading")
    /\ UNCHANGED <<statusVars, queueVars, handles, ownerVars, cap, chunk, hasProcess,
                   cancelled, open, shellVars, hostVars, historyVars>>

ReaderRead ==
    /\ Reader("reading", "push")
    /\ \E k \in 1..Lesser(cap, Len(pipe)) :
        /\ chunk' = SubSeq(pipe, 1, k)
        /\ pipe' = Drop(pipe, k)
    /\ cancelled' = FALSE
    /\ UNCHANGED <<statusVars, queueVars, handles, ownerVars, cap, hasProcess, open,
                   shellVars, host, winsize, historyVars>>

\* ReadFile fails: the pipe is broken and empty, or the read was cancelled.
ReaderFails ==
    /\ cancelled \/ (pipe = <<>> /\ ~host)
    /\ Reader("reading", "post")
    /\ cancelled' = FALSE
    /\ UNCHANGED <<statusVars, queueVars, handles, ownerVars, cap, chunk, hasProcess, open,
                   shellVars, hostVars, historyVars>>

ReaderPush ==
    /\ Reader("push", "check")
    /\ output' = output \o chunk
    /\ queued' = queued + Len(chunk)
    /\ chunk' = <<>>
    /\ UNCHANGED <<statusVars, handles, ownerVars, cap, hasProcess, cancelled, open,
                   shellVars, hostVars, historyVars>>

ReaderPost ==
    /\ rpc = "post"
    /\ rpc' = IF stop THEN "end" ELSE "lookup"
    /\ UNCHANGED <<statusVars, queueVars, handles, ownerVars, cap, chunk, hasProcess,
                   cancelled, open, shellVars, hostVars, historyVars>>

ReaderLookup ==
    /\ IoMutexFree
    /\ Reader("lookup", "wait")
    /\ hasProcess' = ("process" \in handles)
    /\ UNCHANGED <<statusVars, queueVars, handles, ownerVars, cap, chunk, cancelled, open,
                   shellVars, hostVars, historyVars>>

TerminatedByStop == shell = "dead" /\ killed   \* mutant of Terminated
Terminated       == shell = "dead"

\* The loop's condition: the handle and the flag, then WaitForSingleObject.
ReaderWait ==
    /\ \/ (~hasProcess \/ stop) /\ Reader("wait", "waited")
       \/ hasProcess /\ ~stop /\ Reader("wait", "query")
       \/ Terminated /\ Reader("query", "waited")
       \/ ~Terminated /\ Reader("query", "wait")
    /\ UNCHANGED <<statusVars, queueVars, handles, ownerVars, cap, chunk, hasProcess,
                   cancelled, open, shellVars, hostVars, historyVars>>

ReaderWaited ==
    /\ rpc = "waited"
    /\ rpc' = IF stop \/ ~hasProcess \/ ~ExitCodeKnown THEN "exited" ELSE "code"
    /\ UNCHANGED <<statusVars, queueVars, handles, ownerVars, cap, chunk, hasProcess,
                   cancelled, open, shellVars, hostVars, historyVars>>

ReaderRecord ==
    /\ \/ Reader("code", "valid") /\ exitCode' = code /\ UNCHANGED exitValid
       \/ Reader("valid", "exited") /\ exitValid' = TRUE /\ UNCHANGED exitCode
    /\ UNCHANGED <<stop, running, state, queueVars, handles, ownerVars, cap, chunk,
                   hasProcess, cancelled, open, shellVars, hostVars, historyVars>>

ReaderExited ==
    /\ Reader("exited", "end")
    /\ state' = "Exited"
    /\ UNCHANGED <<stop, running, exitCode, exitValid, queueVars, handles, ownerVars, cap,
                   chunk, hasProcess, cancelled, open, shellVars, hostVars, historyVars>>

ReaderEnd ==
    /\ Reader("end", "done")
    /\ running' = FALSE
    /\ UNCHANGED <<stop, state, exitCode, exitValid, queueVars, handles, ownerVars, cap,
                   chunk, hasProcess, cancelled, open, shellVars, hostVars, historyVars>>

-----------------------------------------------------------------------------
(* The shell and the console host. *)

ShellWrites ==
    /\ shell = "alive" /\ host
    /\ Len(pipe) < PipeOut /\ emitted < MaxBytes
    /\ pipe' = Append(pipe, emitted + 1)
    /\ emitted' = emitted + 1
    /\ UNCHANGED <<statusVars, queueVars, handles, ownerVars, readerVars, open, shellVars,
                   host, winsize, session, consumed, outlived>>

ShellExits ==
    /\ shell = "alive"
    /\ shell' = "dead"
    /\ \/ code' \in ExitCodes
       \/ killed /\ code' = 0
    /\ UNCHANGED <<statusVars, queueVars, handles, ownerVars, readerVars, open, killed,
                   hostVars, historyVars>>

\* A host without clients may let the pipe go, or keep it until it is closed.
HostLeaves ==
    /\ host /\ shell # "alive"
    /\ host' = FALSE
    /\ UNCHANGED <<statusVars, queueVars, handles, ownerVars, readerVars, open, shellVars,
                   pipe, winsize, historyVars>>

-----------------------------------------------------------------------------
OwnerStep ==
    \/ StopTake \/ StopKill \/ StopCancel \/ StopJoin \/ StopRelease \/ StopWait
    \/ StopRecord \/ StopEnd
    \/ \E c \in Columns, job \in BOOLEAN : CreateSucceeds(c, job)
    \/ \E point \in Points : CreateFails(point)
    \/ TakeSettle

OwnerCall ==
    \/ \E g \in {"idle", "create"} : StopCall(g)
    \/ \E m \in TakeSizes : TakeOutput(m)
    \/ DiscardOutput
    \/ WriteCall
    \/ \E c \in Columns : Resize(c)

ReaderStep ==
    \/ ReaderCheck \/ ReaderIssue \/ ReaderRead \/ ReaderFails \/ ReaderPush
    \/ ReaderPost \/ ReaderLookup \/ ReaderWait \/ ReaderWaited \/ ReaderRecord
    \/ ReaderExited \/ ReaderEnd

Environment == ShellWrites \/ ShellExits \/ HostLeaves

Next ==
    \/ OwnerStep \/ OwnerCall \/ WriteDone \/ GetStatus \/ ReaderStep \/ Environment

Spec == Init /\ [][Next]_vars

\* A thread in a call goes on, and so does the reader while it can; a process
\* that was told to terminate dies.
FairSpec ==
    /\ Spec
    /\ WF_vars(OwnerStep) /\ WF_vars(opc # "idle" /\ GetStatus) /\ SF_vars(ReaderStep)
    /\ WF_vars(killed /\ ShellExits)

-----------------------------------------------------------------------------
StopPcs == {"stop_take", "stop_kill", "stop_cancel", "stop_join", "stop_release",
            "stop_wait", "stop_record", "stop_end"}
OwnerPcs == StopPcs \cup {"idle", "create", "take", "write", "snap_code", "snap_valid",
                          "snap_done"}
ReaderPcs == {"none", "check", "ready", "reading", "push", "post", "lookup", "wait",
              "query", "waited", "code", "valid", "exited", "end", "done"}

\* The type of every variable; a dimension is a positive SHORT, and fetch_sub
\* never wraps queued_bytes_.
TypeOK ==
    /\ stop \in BOOLEAN /\ running \in BOOLEAN /\ state \in States
    /\ exitCode \in ExitCodes \cup {-1, 0} /\ exitValid \in BOOLEAN
    /\ queued \in 0..MaxQueued /\ output \in Seq(Nat) /\ handles \subseteq Members
    /\ opc \in OwnerPcs /\ goal \in {"idle", "create"} /\ mine \subseteq Members
    /\ taken \in Nat
    /\ snap \in [state : States, code : ExitCodes \cup {-1, 0}, valid : BOOLEAN]
    /\ rpc \in ReaderPcs /\ cap \in Nat /\ chunk \in Seq(Nat)
    /\ hasProcess \in BOOLEAN /\ cancelled \in BOOLEAN
    /\ open \subseteq Members \cup Pipes \cup {"attributes"}
    /\ shell \in {"none", "alive", "dead"} /\ code \in Nat /\ killed \in BOOLEAN
    /\ host \in BOOLEAN /\ pipe \in Seq(Nat) /\ winsize \in 1..MaxDimension
    /\ session \in Nat /\ emitted \in Nat /\ consumed \in Nat /\ outlived \in BOOLEAN

\* The reader never touches a handle that Stop has closed, although Stop takes
\* all of them away while the reader is still at work, and no method of the
\* owner finds a closed one in a member.
HandlesStayOpen ==
    /\ rpc \in {"ready", "reading"} => "output_read" \in open
    /\ rpc = "query" \/ (rpc = "waited" /\ hasProcess) => "process" \in open
    /\ handles \subseteq open
    /\ opc = "write" => "input_write" \in open

\* No path through Start or Stop leaks a handle: what is open is in a member or
\* on its way to CloseHandle.
NoHandleLeak == open \subseteq handles \cup mine

\* A snapshot never pairs Exited with another code than the shell's own; it has
\* no code only if the wait in Stop ran out or the shell exited with 259, which
\* GetExitCodeProcess cannot tell from a running one.
SnapshotCoherent ==
    opc = "snap_done" /\ snap.state = "Exited" =>
        IF snap.valid
        THEN snap.code = code
        ELSE outlived \/ code = STILL_ACTIVE

\* This transport keeps the contract of the interface as well.
Contract == INSTANCE TerminalTransport WITH
    Codes   <- ExitCodes \cup {0},
    Signals <- {0},
    exit    <- IF exitValid THEN [valid |-> TRUE, code |-> exitCode, signal |-> 0]
               ELSE [valid |-> FALSE],
    queue   <- output,
    given   <- consumed
KeepsContract == Contract!Spec

\* Stop comes back.
StopReturns == opc \in StopPcs ~> opc \in {"idle", "create"}

\* It does on a Windows whose console host leaves when its last client has died.
StopReturnsIfHostLeaves == WF_vars(HostLeaves) => StopReturns

\* A reader that waits in ReadFile when Stop comes to cancel it lets Stop come
\* back even if the host keeps the pipe open.
BlockedReaderReleased ==
    (opc = "stop_cancel" /\ rpc = "reading") ~> opc \in {"idle", "create"}

\* Once the reader has seen the end of the pipe, the exit is reported, unless
\* Stop came first or the shell outlives the pipe, or Write keeps the mutex.
ExitReported ==
    (rpc = "lookup" /\ shell = "dead") ~> (state = "Exited" \/ stop \/ opc = "write")
=============================================================================
