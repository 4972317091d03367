----------------------------- MODULE PtySession -----------------------------
(***************************************************************************)
(* The POSIX pseudo-terminal transport, src/src/pty_session.cpp: the owner *)
(* (UI) thread that calls the TerminalTransport methods, the reader thread *)
(* that Start() spawns, and the kernel's half of the pty with the child    *)
(* process behind it.                                                      *)
(*                                                                         *)
(* A step is one access to state two threads share (an atomic, a locked    *)
(* section, a system call); accesses to thread-local data are folded into  *)
(* the next such step.  One column count stands for both dimensions, a     *)
(* byte is its position in everything the children ever wrote, and a       *)
(* session number stands for the pid.  Chunk boundaries of output_ are     *)
(* flattened, and event counters of GetMetrics that nothing in the program *)
(* reads back are left out.                                                *)
(***************************************************************************)
EXTENDS Integers, Sequences

CONSTANTS
    MaxQueued,    \* kMaximumQueuedOutputBytes
    ReadBuffer,   \* sizeof(buffer) in ReadLoop
    Modulus,      \* 2^16: the width of winsize::ws_col
    TakeSizes,    \* the max_bytes arguments of TakeOutput
    WriteSizes,   \* the length arguments of Write
    Columns,      \* the column arguments of Start and Resize
    ExitCodes,    \* the codes a child may exit with
    Ignorable,    \* the signals a child may ignore
    KernelOut,    \* bytes the pty holds from child to master
    KernelIn,     \* bytes the pty holds from master to child
    Echo,         \* TRUE: the child writes one byte for each byte it reads
    MaxBytes,     \* bound: bytes all children write together
    MaxSessions   \* bound: successful Start calls

SIGHUP  == 1
SIGKILL == 9
SIGTERM == 15

ASSUME PtyConstants ==
    /\ MaxQueued \in Nat \ {0} /\ ReadBuffer \in Nat \ {0}
    /\ Modulus \in Nat \ {0, 1}
    /\ TakeSizes \subseteq Nat /\ WriteSizes \subseteq Nat \ {0}
    /\ Columns \subseteq Nat /\ ExitCodes \subseteq Nat
    /\ Ignorable \subseteq {SIGHUP, SIGTERM}
    /\ KernelOut \in Nat /\ KernelIn \in Nat
    /\ Echo \in BOOLEAN
    /\ MaxBytes \in Nat /\ MaxSessions \in Nat

VARIABLES
    \* atomics of PosixPtySession
    stop, running, state, exit, queued, maxQueued,
    \* under output_mutex_
    output,
    \* under io_mutex_: master_fd_ >= 0, child_pid_ (0 for -1), child_reaped_
    master, childPid, reaped,
    \* the owner thread: where it is, what Stop() was called for, and locals of
    \* Stop, TakeOutput, Write and GetStatus
    opc, goal, oChild, oReaped, taken, left, snap,
    \* the reader thread: where it is, read_capacity, and what read() returned
    rpc, cap, chunk,
    \* the kernel and the child
    child, status, pending, ignored, slave, ptyOut, ptyIn, owed, winsize,
    \* history: sessions started, bytes written by children, bytes taken or
    \* discarded by the owner, a wait that SIGKILL did not end in time, and a
    \* poll that failed
    session, emitted, consumed, outlived, ioError

ownerVars   == <<opc, goal, oChild, oReaped, taken, left, snap>>
readerVars  == <<rpc, cap, chunk>>
childVars   == <<child, status, pending, ignored>>
ptyVars     == <<slave, ptyOut, ptyIn, owed, winsize>>
queueVars   == <<queued, maxQueued, output>>
lockedVars  == <<master, childPid, reaped>>
statusVars  == <<stop, running, state, exit>>
historyVars == <<session, emitted, consumed, outlived, ioError>>
vars == <<ownerVars, readerVars, childVars, ptyVars, queueVars, lockedVars,
          statusVars, historyVars>>

States   == {"Stopped", "Starting", "Running", "Exited", "Failed"}
NoStatus == [code |-> -1, signal |-> 0]
Statuses == {[code |-> c, signal |-> 0] : c \in ExitCodes}
            \cup {[code |-> -1, signal |-> s] : s \in {SIGHUP, SIGTERM, SIGKILL}}
NoExit   == [code |-> -1, signal |-> 0, valid |-> FALSE]
NoSnap   == [state |-> "Stopped", code |-> -1, signal |-> 0, valid |-> FALSE]

Lesser(a, b)  == IF a <= b THEN a ELSE b
Greater(a, b) == IF a <= b THEN b ELSE a
Drop(s, k)    == SubSeq(s, k + 1, Len(s))

\* Start clamps a dimension to what ws_col holds; Resize only narrows it.
Clamped(c)  == Lesser(Greater(c, 1), Modulus - 1)
Narrowed(c) == c % Modulus

Owner(from, to)  == opc = from /\ opc' = to
Reader(from, to) == rpc = from /\ rpc' = to

\* Write() keeps io_mutex_ for as long as it runs; every other section under
\* it is one step.
IoMutexFree == opc # "write"

Init ==
    /\ stop = FALSE /\ running = FALSE /\ state = "Stopped" /\ exit = NoExit
    /\ queued = 0 /\ maxQueued = 0 /\ output = <<>>
    /\ master = FALSE /\ childPid = 0 /\ reaped = FALSE
    /\ opc = "idle" /\ goal = "idle" /\ oChild = 0 /\ oReaped = FALSE
    /\ taken = 0 /\ left = 0 /\ snap = NoSnap
    /\ rpc = "none" /\ cap = 0 /\ chunk = <<>>
    /\ child = "none" /\ status = NoStatus /\ pending = {} /\ ignored = {}
    /\ slave = FALSE /\ ptyOut = <<>> /\ ptyIn = 0 /\ owed = 0 /\ winsize = 1
    /\ session = 0 /\ emitted = 0 /\ consumed = 0
    /\ outlived = FALSE /\ ioError = FALSE

-----------------------------------------------------------------------------
(* Stop(), and Start() up to the fork: Start begins with Stop. *)

StopCall(g) ==
    /\ g = "fork" => session < MaxSessions
    /\ Owner("idle", "stop_lookup")
    /\ goal' = g
    /\ stop' = TRUE
    /\ UNCHANGED <<oChild, oReaped, taken, left, snap, running, state, exit,
                   readerVars, childVars, ptyVars, queueVars, lockedVars, historyVars>>

StopLookup ==
    /\ Owner("stop_lookup", "stop_hangup")
    /\ oChild' = childPid
    /\ oReaped' = reaped
    /\ UNCHANGED <<goal, taken, left, snap, readerVars, childVars, ptyVars,
                   queueVars, lockedVars, statusVars, historyVars>>

\* kill() reaches a living child only; a zombie keeps its pid and ignores it.
Signal(s) == pending' = IF child = "alive" THEN pending \cup {s} ELSE pending

StopHangup ==
    /\ Owner("stop_hangup", "stop_join")
    /\ IF oChild # 0 /\ ~oReaped THEN Signal(SIGHUP) ELSE UNCHANGED pending
    /\ UNCHANGED <<goal, oChild, oReaped, taken, left, snap, readerVars, child,
                   status, ignored, ptyVars, queueVars, lockedVars, statusVars,
                   historyVars>>

JoinForgotten == TRUE   \* mutant of Joined: Stop does not join
Joined == rpc \in {"none", "done"}

StopJoin ==
    /\ Owner("stop_join", "stop_close")
    /\ Joined
    /\ UNCHANGED <<goal, oChild, oReaped, taken, left, snap, readerVars, childVars,
                   ptyVars, queueVars, lockedVars, statusVars, historyVars>>

\* Closing the master hangs the terminal up: the kernel signals the child and
\* drops what the pty still holds.
StopClose ==
    /\ opc = "stop_close"
    /\ opc' = IF oChild # 0 /\ ~reaped THEN "wait_hangup" ELSE "stop_end"
    /\ oReaped' = reaped
    /\ master' = FALSE /\ childPid' = 0
    /\ IF master
       THEN /\ Signal(SIGHUP)
            /\ ptyOut' = <<>> /\ ptyIn' = 0
       ELSE UNCHANGED <<pending, ptyOut, ptyIn>>
    /\ UNCHANGED <<goal, oChild, taken, left, snap, readerVars, child, status,
                   ignored, slave, owed, winsize, queueVars, reaped, statusVars,
                   historyVars>>

Recorded(st) == [code |-> st.code, signal |-> st.signal, valid |-> TRUE]

\* WaitForChild finds the child dead, and Stop records its status, or learns
\* that there is no such child (AlreadyReaped, Failed) and records nothing.
StopReap ==
    /\ opc \in {"wait_hangup", "wait_term", "wait_kill"}
    /\ opc' = "stop_end"
    /\ \/ child = "zombie" /\ child' = "reaped" /\ exit' = Recorded(status)
       \/ child = "lost" /\ UNCHANGED <<child, exit>>
    /\ UNCHANGED <<goal, oChild, oReaped, taken, left, snap, readerVars, status,
                   pending, ignored, ptyVars, queueVars, lockedVars, stop, running,
                   state, historyVars>>

\* WaitForChild times out on a living child: the deadlines are 0 ms, 500 ms, 2 s.
StopTimeout ==
    /\ child = "alive"
    /\ \/ Owner("wait_hangup", "term") /\ UNCHANGED outlived
       \/ Owner("wait_term", "kill") /\ UNCHANGED outlived
       \/ Owner("wait_kill", "stop_end") /\ outlived' = TRUE
    /\ UNCHANGED <<goal, oChild, oReaped, taken, left, snap, readerVars, childVars,
                   ptyVars, queueVars, lockedVars, statusVars, session, emitted,
                   consumed, ioError>>

StopEscalate ==
    /\ \/ Owner("term", "wait_term") /\ Signal(SIGTERM)
       \/ Owner("kill", "wait_kill") /\ Signal(SIGKILL)
    /\ UNCHANGED <<goal, oChild, oReaped, taken, left, snap, readerVars, child,
                   status, ignored, ptyVars, queueVars, lockedVars, statusVars,
                   historyVars>>

AlwaysStopped(s) == "Stopped"   \* mutant of FinalState: an unconditional store
FinalState(s) == IF s \in {"Starting", "Running"} THEN "Stopped" ELSE s

StopEnd ==
    /\ Owner("stop_end", goal)
    /\ running' = FALSE
    /\ state' = FinalState(state)
    /\ goal' = "idle" /\ oChild' = 0 /\ oReaped' = FALSE
    /\ UNCHANGED <<taken, left, snap, readerVars, childVars, ptyVars, queueVars,
                   lockedVars, stop, exit, historyVars>>

-----------------------------------------------------------------------------
(* The rest of Start(): no reader exists, so its stores are one step. *)

\* Mutants of QueueEmptied: one half of the reset is missing.
DequeKept     == UNCHANGED output /\ queued' = 0
CounterKept   == output' = <<>> /\ UNCHANGED queued
QueueEmptied  == output' = <<>> /\ queued' = 0

ForgetOutput ==
    /\ QueueEmptied
    /\ consumed' = emitted
    /\ exit' = NoExit
    /\ UNCHANGED maxQueued

ForkSucceeds(c, ign) ==
    /\ Owner("fork", "idle")
    /\ session < MaxSessions
    /\ ForgetOutput
    /\ session' = session + 1
    /\ master' = TRUE /\ childPid' = session + 1 /\ reaped' = FALSE
    /\ stop' = FALSE /\ running' = TRUE /\ state' = "Running"
    /\ rpc' = "check" /\ cap' = 0 /\ chunk' = <<>>
    /\ child' = "alive" /\ status' = NoStatus /\ pending' = {} /\ ignored' = ign
    /\ slave' = TRUE /\ ptyOut' = <<>> /\ ptyIn' = 0 /\ owed' = 0
    /\ winsize' = Clamped(c)
    /\ outlived' = FALSE /\ ioError' = FALSE
    /\ UNCHANGED <<goal, oChild, oReaped, taken, left, snap, emitted>>

ForkFails ==
    /\ Owner("fork", "idle")
    /\ ForgetOutput
    /\ state' = "Failed"
    /\ UNCHANGED <<goal, oChild, oReaped, taken, left, snap, readerVars, childVars,
                   ptyVars, lockedVars, stop, running, session, emitted, outlived,
                   ioError>>

-----------------------------------------------------------------------------
(* The other methods of the owner. *)

\* TakeOutput moves at most m bytes out under output_mutex_ ...
TakeOutput(m) ==
    LET k == Lesser(m, Len(output)) IN
    /\ Owner("idle", "take")
    /\ output' = Drop(output, k)
    /\ taken' = k
    /\ consumed' = consumed + k
    /\ UNCHANGED <<goal, oChild, oReaped, left, snap, readerVars, childVars, ptyVars,
                   queued, maxQueued, lockedVars, statusVars, session, emitted,
                   outlived, ioError>>

\* ... and lowers queued_bytes_ after it has let the mutex go.
TakeSettle ==
    /\ Owner("take", "idle")
    /\ queued' = queued - taken
    /\ taken' = 0
    /\ UNCHANGED <<goal, oChild, oReaped, left, snap, readerVars, childVars, ptyVars,
                   maxQueued, output, lockedVars, statusVars, historyVars>>

DiscardOutput ==
    /\ opc = "idle"
    /\ QueueEmptied
    /\ consumed' = consumed + Len(output)
    /\ UNCHANGED <<ownerVars, readerVars, childVars, ptyVars, maxQueued, lockedVars,
                   statusVars, session, emitted, outlived, ioError>>

\* Write and Resize return false at once without a master.
WriteCall(n) ==
    /\ master
    /\ Owner("idle", "write")
    /\ left' = n
    /\ UNCHANGED <<goal, oChild, oReaped, taken, snap, readerVars, childVars, ptyVars,
                   queueVars, lockedVars, statusVars, historyVars>>

\* write() accepts part of what is left; on EAGAIN the loop polls and comes back.
WriteSome ==
    /\ opc = "write"
    /\ \E k \in 1..Lesser(left, KernelIn - ptyIn) :
        /\ ptyIn' = ptyIn + k
        /\ left' = left - k
        /\ opc' = IF k = left THEN "idle" ELSE "write"
    /\ UNCHANGED <<goal, oChild, oReaped, taken, snap, readerVars, childVars, slave,
                   ptyOut, owed, winsize, queueVars, lockedVars, statusVars,
                   historyVars>>

\* With no slave left, write() or poll() reports it.
WriteFails ==
    /\ ~slave
    /\ Owner("write", "idle")
    /\ left' = 0
    /\ UNCHANGED <<goal, oChild, oReaped, taken, snap, readerVars, childVars, ptyVars,
                   queueVars, lockedVars, statusVars, historyVars>>

Resize(c) ==
    /\ opc = "idle" /\ master
    /\ winsize' = Narrowed(c)
    /\ UNCHANGED <<ownerVars, readerVars, childVars, slave, ptyOut, ptyIn, owed,
                   queueVars, lockedVars, statusVars, historyVars>>

\* Mutant of GetStatus: the state is loaded last.
GetStatusStateLast ==
    /\ \/ Owner("idle", "snap_code") /\ snap' = [NoSnap EXCEPT !.code = exit.code]
       \/ Owner("snap_code", "snap_signal") /\ snap' = [snap EXCEPT !.signal = exit.signal]
       \/ Owner("snap_signal", "snap_valid") /\ snap' = [snap EXCEPT !.valid = exit.valid]
       \/ Owner("snap_valid", "snap_done") /\ snap' = [snap EXCEPT !.state = state]
       \/ Owner("snap_done", "idle") /\ snap' = NoSnap
    /\ UNCHANGED <<goal, oChild, oReaped, taken, left, readerVars, childVars, ptyVars,
                   queueVars, lockedVars, statusVars, historyVars>>

\* GetStatus loads four atomics one after the other, the state first.
GetStatus ==
    /\ \/ Owner("idle", "snap_code") /\ snap' = [NoSnap EXCEPT !.state = state]
       \/ Owner("snap_code", "snap_signal") /\ snap' = [snap EXCEPT !.code = exit.code]
       \/ Owner("snap_signal", "snap_valid") /\ snap' = [snap EXCEPT !.signal = exit.signal]
       \/ Owner("snap_valid", "snap_done") /\ snap' = [snap EXCEPT !.valid = exit.valid]
       \/ Owner("snap_done", "idle") /\ snap' = NoSnap
    /\ UNCHANGED <<goal, oChild, oReaped, taken, left, readerVars, childVars, ptyVars,
                   queueVars, lockedVars, statusVars, historyVars>>

-----------------------------------------------------------------------------
(* ReadLoop. *)

\* Mutant of StopSeen: a reader paused at the limit does not look at the flag.
StopSeenUnlessFull == stop /\ queued < MaxQueued
StopSeen == stop

ReadWholeBuffer == ReadBuffer   \* mutant of ReadCapacity: no room is reserved
ReadCapacity    == Lesser(ReadBuffer, MaxQueued - queued)

\* The loads of stop_requested_ and queued_bytes_; at the limit the reader
\* sleeps and comes back, which changes nothing.
ReaderCheck ==
    /\ \/ StopSeen /\ Reader("check", "post") /\ UNCHANGED cap
       \/ /\ ~StopSeen /\ queued < MaxQueued
          /\ Reader("check", "poll")
          /\ cap' = ReadCapacity
    /\ UNCHANGED <<ownerVars, chunk, childVars, ptyVars, queueVars, lockedVars,
                   statusVars, historyVars>>

\* poll() reports POLLIN, POLLHUP or POLLERR.
DataOnly == ptyOut # <<>>   \* mutant of Readable: POLLHUP is not a reason to read
Readable == ptyOut # <<>> \/ ~slave

ReaderPollReady ==
    /\ Readable
    /\ Reader("poll", "read")
    /\ UNCHANGED <<ownerVars, cap, chunk, childVars, ptyVars, queueVars, lockedVars,
                   statusVars, historyVars>>

\* A timeout or EINTR in poll(), EINTR or EAGAIN in read().
ReaderAgain ==
    /\ \/ Reader("poll", "check")
       \/ Reader("read", "check")
    /\ UNCHANGED <<ownerVars, cap, chunk, childVars, ptyVars, queueVars, lockedVars,
                   statusVars, historyVars>>

ReaderError ==
    /\ Reader("poll", "post")
    /\ ioError' = TRUE
    /\ UNCHANGED <<ownerVars, cap, chunk, childVars, ptyVars, queueVars, lockedVars,
                   statusVars, session, emitted, consumed, outlived>>

ReaderRead ==
    /\ Reader("read", "push")
    /\ \E k \in 1..Lesser(cap, Len(ptyOut)) :
        /\ chunk' = SubSeq(ptyOut, 1, k)
        /\ ptyOut' = Drop(ptyOut, k)
    /\ UNCHANGED <<ownerVars, cap, childVars, slave, ptyIn, owed, winsize, queueVars,
                   lockedVars, statusVars, historyVars>>

\* EIO or end of file: every slave is closed and everything has been read.
SlaveGone == ~slave   \* mutant of EndOfFile: a hangup ends the loop at once
EndOfFile == ptyOut = <<>> /\ ~slave

ReaderHangup ==
    /\ EndOfFile
    /\ Reader("read", "post")
    /\ UNCHANGED <<ownerVars, cap, chunk, childVars, ptyVars, queueVars, lockedVars,
                   statusVars, historyVars>>

ReceivedEvents == 1   \* mutant of Received: counts reads, not bytes
Received       == Len(chunk)

ReaderPush ==
    /\ Reader("push", "check")
    /\ output' = output \o chunk
    /\ queued' = queued + Received
    /\ maxQueued' = Greater(maxQueued, queued + Received)
    /\ chunk' = <<>>
    /\ UNCHANGED <<ownerVars, cap, childVars, ptyVars, lockedVars, statusVars,
                   historyVars>>

ReaderPost ==
    /\ rpc = "post"
    /\ rpc' = IF stop THEN "end" ELSE "lookup"
    /\ UNCHANGED <<ownerVars, cap, chunk, childVars, ptyVars, queueVars, lockedVars,
                   statusVars, historyVars>>

ReaderLookup ==
    /\ IoMutexFree
    /\ rpc = "lookup"
    /\ rpc' = IF childPid # 0 THEN "wait" ELSE "exited"
    /\ UNCHANGED <<ownerVars, cap, chunk, childVars, ptyVars, queueVars, lockedVars,
                   statusVars, historyVars>>

\* waitpid() reaps the child, finds it alive, or fails, which ends the wait.
ReaderWait ==
    /\ \/ child = "zombie" /\ child' = "reaped" /\ Reader("wait", "code")
       \/ child = "alive" /\ Reader("wait", "waited") /\ UNCHANGED child
       \/ child = "lost" /\ Reader("wait", "exited") /\ UNCHANGED child
    /\ UNCHANGED <<ownerVars, cap, chunk, status, pending, ignored, ptyVars,
                   queueVars, lockedVars, statusVars, historyVars>>

ReaderWaited ==
    /\ rpc = "waited"
    /\ rpc' = IF stop THEN "exited" ELSE "wait"
    /\ UNCHANGED <<ownerVars, cap, chunk, childVars, ptyVars, queueVars, lockedVars,
                   statusVars, historyVars>>

\* RecordExitStatus stores the code, the signal and the valid flag in turn.
ReaderRecord ==
    /\ \/ Reader("code", "signal") /\ exit' = [exit EXCEPT !.code = status.code]
       \/ Reader("signal", "valid") /\ exit' = [exit EXCEPT !.signal = status.signal]
       \/ Reader("valid", "mark") /\ exit' = [exit EXCEPT !.valid = TRUE]
    /\ UNCHANGED <<ownerVars, cap, chunk, childVars, ptyVars, queueVars, lockedVars,
                   stop, running, state, historyVars>>

ReaderMark ==
    /\ IoMutexFree
    /\ Reader("mark", "exited")
    /\ reaped' = TRUE
    /\ UNCHANGED <<ownerVars, cap, chunk, childVars, ptyVars, queueVars, master,
                   childPid, statusVars, historyVars>>

ReaderExited ==
    /\ Reader("exited", "end")
    /\ state' = "Exited"
    /\ UNCHANGED <<ownerVars, cap, chunk, childVars, ptyVars, queueVars, lockedVars,
                   stop, running, exit, historyVars>>

ReaderEnd ==
    /\ Reader("end", "done")
    /\ running' = FALSE
    /\ UNCHANGED <<ownerVars, cap, chunk, childVars, ptyVars, queueVars, lockedVars,
                   stop, state, exit, historyVars>>

-----------------------------------------------------------------------------
(* The child and the kernel. *)

Attached == child = "alive" /\ slave /\ master

ChildWrites ==
    /\ Attached /\ (Echo => owed = 1)
    /\ Len(ptyOut) < KernelOut /\ emitted < MaxBytes
    /\ ptyOut' = Append(ptyOut, emitted + 1)
    /\ emitted' = emitted + 1
    /\ owed' = 0
    /\ UNCHANGED <<ownerVars, readerVars, childVars, slave, ptyIn, winsize, queueVars,
                   lockedVars, statusVars, session, consumed, outlived, ioError>>

ChildReads ==
    /\ Attached /\ (Echo => owed = 0)
    /\ ptyIn > 0
    /\ ptyIn' = ptyIn - 1
    /\ owed' = IF Echo THEN 1 ELSE 0
    /\ UNCHANGED <<ownerVars, readerVars, childVars, slave, ptyOut, winsize, queueVars,
                   lockedVars, statusVars, historyVars>>

ChildDies(st) ==
    /\ child = "alive"
    /\ st.signal # 0 => st.signal \in pending \ ignored
    /\ child' = "zombie"
    /\ status' = st
    /\ pending' = {}
    /\ UNCHANGED <<ownerVars, readerVars, ignored, ptyVars, queueVars, lockedVars,
                   statusVars, historyVars>>

\* The last process that holds the slave lets it go.  The child may do so and
\* live on, or die and leave the slave to a process it started.
SlaveCloses ==
    /\ slave
    /\ slave' = FALSE
    /\ UNCHANGED <<ownerVars, readerVars, childVars, ptyOut, ptyIn, owed, winsize,
                   queueVars, lockedVars, statusVars, historyVars>>

\* The host ignores SIGCHLD, or waits for any child: the kernel or the host
\* takes the status, and waitpid() answers ECHILD from then on.
ReapedElsewhere ==
    /\ child = "zombie"
    /\ child' = "lost"
    /\ UNCHANGED <<ownerVars, readerVars, status, pending, ignored, ptyVars, queueVars,
                   lockedVars, statusVars, historyVars>>

-----------------------------------------------------------------------------
OwnerStep ==
    \/ StopLookup \/ StopHangup \/ StopJoin \/ StopClose
    \/ StopReap \/ StopTimeout \/ StopEscalate \/ StopEnd
    \/ \E c \in Columns, ign \in SUBSET Ignorable : ForkSucceeds(c, ign)
    \/ ForkFails
    \/ TakeSettle
    \/ WriteSome \/ WriteFails

OwnerCall ==
    \/ \E g \in {"idle", "fork"} : StopCall(g)
    \/ \E m \in TakeSizes : TakeOutput(m)
    \/ DiscardOutput
    \/ \E n \in WriteSizes : WriteCall(n)
    \/ \E c \in Columns : Resize(c)

ReaderStep ==
    \/ ReaderCheck \/ ReaderPush \/ ReaderPost \/ ReaderLookup \/ ReaderWait
    \/ ReaderWaited \/ ReaderRecord \/ ReaderMark \/ ReaderExited \/ ReaderEnd

ReaderIO ==
    \/ ReaderPollReady \/ ReaderAgain \/ ReaderError \/ ReaderRead \/ ReaderHangup

Environment ==
    \/ ChildWrites \/ ChildReads \/ SlaveCloses \/ ReapedElsewhere
    \/ \E st \in Statuses : ChildDies(st)

Next == OwnerStep \/ OwnerCall \/ GetStatus \/ ReaderStep \/ ReaderIO \/ Environment

Spec == Init /\ [][Next]_vars

\* A thread that has begun a call goes on with it; the reader gets a mutex that
\* is free again and again, and sees data or a hangup that stays there in spite
\* of timeouts and EINTR; the UI timer calls TakeOutput again and again.
OwnerContinues == OwnerStep \/ (opc # "idle" /\ GetStatus)
ReaderGets     == ReaderRead \/ ReaderHangup
OwnerTakes     == \E m \in TakeSizes \ {0} : TakeOutput(m)
Fairness ==
    /\ WF_vars(OwnerContinues) /\ SF_vars(OwnerTakes)
    /\ SF_vars(ReaderStep) /\ WF_vars(ReaderIO)
    /\ SF_vars(ReaderPollReady) /\ SF_vars(ReaderGets)
FairSpec == Spec /\ Fairness

\* ... and a child that reads its input and answers while it can.
LiveChildSpec == FairSpec /\ WF_vars(ChildReads) /\ WF_vars(ChildWrites)

-----------------------------------------------------------------------------
StopPcs == {"stop_lookup", "stop_hangup", "stop_join", "stop_close", "wait_hangup",
            "term", "wait_term", "kill", "wait_kill", "stop_end"}
OwnerPcs == StopPcs \cup {"idle", "fork", "take", "write", "snap_code", "snap_signal",
                          "snap_valid", "snap_done"}
ReaderPcs == {"none", "check", "poll", "read", "push", "post", "lookup", "wait",
              "waited", "code", "signal", "valid", "mark", "exited", "end", "done"}
Codes == ExitCodes \cup {-1}
Signals == {SIGHUP, SIGTERM, SIGKILL}

StatusType ==
    /\ stop \in BOOLEAN /\ running \in BOOLEAN /\ state \in States
    /\ exit \in [code : Codes, signal : Signals \cup {0}, valid : BOOLEAN]
QueueType == queued \in Nat /\ maxQueued \in Nat /\ output \in Seq(Nat)
LockedType == master \in BOOLEAN /\ childPid \in Nat /\ reaped \in BOOLEAN
OwnerType ==
    /\ opc \in OwnerPcs /\ goal \in {"idle", "fork"}
    /\ oChild \in Nat /\ oReaped \in BOOLEAN /\ taken \in Nat /\ left \in Nat
    /\ snap \in [state : States, code : Codes, signal : Signals \cup {0}, valid : BOOLEAN]
ReaderType == rpc \in ReaderPcs /\ cap \in Nat /\ chunk \in Seq(Nat)
ChildType ==
    /\ child \in {"none", "alive", "zombie", "reaped", "lost"}
    /\ status \in Statuses \cup {NoStatus}
    /\ pending \subseteq Signals /\ ignored \subseteq Ignorable
PtyType ==
    /\ slave \in BOOLEAN /\ ptyOut \in Seq(Nat) /\ ptyIn \in Nat /\ owed \in {0, 1}
    /\ winsize \in Nat
HistoryType ==
    /\ session \in Nat /\ emitted \in Nat /\ consumed \in Nat
    /\ outlived \in BOOLEAN /\ ioError \in BOOLEAN

\* The type of every variable; queued_bytes_ in Nat also says that fetch_sub
\* never wraps the unsigned counter.
TypeOK ==
    /\ StatusType /\ QueueType /\ LockedType /\ OwnerType
    /\ ReaderType /\ ChildType /\ PtyType /\ HistoryType

\* The queue never holds more than the limit, whatever the reader and a drain
\* interleave: the reader sizes its read from a count that only it can raise.
QueueBounded == queued <= MaxQueued /\ maxQueued <= MaxQueued

\* queued_bytes_ counts what output_ holds, and what a TakeOutput that has left
\* the mutex has yet to subtract.
QueueAccounting == queued = Len(output) + taken

\* What the owner will be given is what the current child wrote, in order, with
\* nothing lost, repeated or left over from an earlier session.
Stream == output \o chunk \o ptyOut
StreamIntact ==
    /\ \A i \in DOMAIN Stream : Stream[i] = consumed + i
    /\ master => consumed + Len(Stream) = emitted

\* A snapshot taken while the reader records the exit never pairs Exited with
\* somebody else's code: it has the child's own status.  It has no status only
\* if SIGKILL could not end the wait, or if somebody else reaped the child.
SnapshotCoherent ==
    opc = "snap_done" /\ snap.state = "Exited" =>
        IF snap.valid
        THEN snap.code = status.code /\ snap.signal = status.signal
        ELSE outlived \/ child = "lost"

\* SIGTERM and SIGKILL go to a pid that this transport has not reaped; only a
\* host that reaps children behind its back can have given the pid away.
EscalationOwnsPid == opc \in {"term", "kill"} => child \in {"alive", "zombie", "lost"}

\* Once the transport reports Exited, every byte the child wrote is in the queue.
ExitedMeansDrained ==
    state = "Exited" /\ master /\ ~ioError => ptyOut = <<>> /\ chunk = <<>> /\ ~slave

\* After Stop no reader, no descriptor and no unreaped child is left, unless the
\* child outlived the two seconds after SIGKILL, and the state is a final one.
StopComplete ==
    stop /\ opc \in {"idle", "fork"} =>
        /\ rpc \in {"none", "done"} /\ ~master /\ childPid = 0 /\ ~running
        /\ state \notin {"Starting", "Running"}
        /\ child \in {"none", "reaped", "lost"} \/ outlived

\* What the owner sees is a transport that keeps its contract: the steps of the
\* reader, of Stop and of the pty behind it are its steps or change nothing.
Contract == INSTANCE TerminalTransport WITH
    Signals <- Signals \cup {0},
    exit    <- IF exit.valid THEN exit ELSE [valid |-> FALSE],
    queue   <- output,
    given   <- consumed
KeepsContract == Contract!Spec

\* Stop returns even from a child that ignores SIGHUP and SIGTERM.
StopReturns == opc \in StopPcs ~> opc \in {"idle", "fork"}

\* A shell that died with its slave closed is reported, however full the queue
\* and whoever reaps it.
ExitReported ==
    (child \in {"zombie", "lost"} /\ ~slave /\ rpc \notin {"none", "done"})
        ~> (state = "Exited" \/ opc \in StopPcs)

\* While the owner keeps coming back to its event loop, no byte stays behind: a
\* reader that paused at the limit resumes.
EveryByteConsumed ==
    []<>(opc = "idle") =>
        \A k \in 1..MaxBytes : emitted >= k ~> (consumed >= k \/ stop \/ ioError)

\* A Write to a child that reads and answers comes back, whatever its length.
WriteReturns == opc = "write" ~> (opc # "write" \/ ~Attached \/ ioError)

=============================================================================
