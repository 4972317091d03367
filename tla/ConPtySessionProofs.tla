------------------------- MODULE ConPtySessionProofs -------------------------
(***************************************************************************)
(* What TLAPS proves of ConPtySession, for every value of its constants:    *)
(* the life of its handles, the status it reports, the bound of its queue,  *)
(* and that it implements TerminalTransport.                               *)
(***************************************************************************)
EXTENDS ConPtySession, SequenceTheorems, DataTheorems, TLAPS

-----------------------------------------------------------------------------
(* Handles: members hand them to Stop, and Stop closes them in two goes.   *)

Always == Members \ {"job"}   \* the members that are set and cleared together

Taking    == {"stop_kill", "stop_cancel", "stop_join"}
Releasing == {"stop_wait", "stop_record"}

HandleInv ==
    /\ goal \in {"idle", "create"}
    /\ handles \subseteq Members /\ (handles # {} => Always \subseteq handles)
    /\ mine \subseteq Members /\ (mine # {} => Always \subseteq mine)
    /\ opc \notin StopPcs \cup {"create"} \/ opc = "stop_take" =>
          mine = {} /\ handles = open
    /\ opc \in Taking \cup {"stop_release"} => handles = {} /\ open = mine
    /\ opc \in Releasing =>
          handles = {} /\ open \subseteq {"process", "job"} /\ open \subseteq mine
    /\ opc = "stop_end" => handles = {} /\ open = {}
    /\ opc = "create" => handles = {} /\ mine = {} /\ open = {}

\* A reader has both of its handles in the members or with a Stop that has yet
\* to join it.
ReaderInv ==
    /\ ~Joined => {"output_read", "process"} \subseteq handles \cup mine
    /\ opc \in {"stop_release", "stop_end", "create"} \cup Releasing => Joined

\* Write keeps io_mutex_ from the look at the member to the end of WriteFile.
WriteInv == opc = "write" => "input_write" \in handles

LEMMA FailedStartClosesAll ==
    ASSUME NEW point \in Points PROVE OpenedBy(point) \ ClosedAfter(point) = {}
BY DEF Points, OpenedBy, ClosedAfter, Pipes

LEMMA HandleStep ==
    ASSUME HandleInv, ReaderInv, WriteInv, [Next]_vars
    PROVE  HandleInv' /\ ReaderInv' /\ WriteInv'
<1> USE DEF HandleInv, ReaderInv, WriteInv, Always, Taking, Releasing, StopPcs, Joined,
        Owner, Reader, ownerVars, readerVars
<1>1. CASE OwnerStep
  <2>1. CASE StopTake
    BY <2>1 DEF StopTake
  <2>2. CASE StopKill \/ StopCancel
    BY <2>2 DEF StopKill, StopCancel
  <2>3. CASE StopJoin
    BY <2>3 DEF StopJoin, Members
  <2>4. CASE StopRelease
    BY <2>4 DEF StopRelease, Members
  <2>5. CASE StopWait
    BY <2>5 DEF StopWait
  <2>6. CASE StopRecord
    BY <2>6 DEF StopRecord
  <2>7. CASE StopEnd
    BY <2>7 DEF StopEnd
  <2>8. ASSUME NEW c \in Columns, NEW job \in BOOLEAN, CreateSucceeds(c, job)
        PROVE  HandleInv' /\ ReaderInv' /\ WriteInv'
    BY <2>8 DEF CreateSucceeds, Members
  <2>9. ASSUME NEW point \in Points, CreateFails(point)
        PROVE  HandleInv' /\ ReaderInv' /\ WriteInv'
    BY <2>9, FailedStartClosesAll DEF CreateFails
  <2>10. CASE TakeSettle
    BY <2>10 DEF TakeSettle
  <2> QED
    BY <1>1, <2>1, <2>2, <2>3, <2>4, <2>5, <2>6, <2>7, <2>8, <2>9, <2>10 DEF OwnerStep
<1>2. CASE OwnerCall
  <2>1. ASSUME NEW g \in {"idle", "create"}, StopCall(g)
        PROVE  HandleInv' /\ ReaderInv' /\ WriteInv'
    BY <2>1 DEF StopCall
  <2>2. ASSUME NEW m \in TakeSizes, TakeOutput(m)
        PROVE  HandleInv' /\ ReaderInv' /\ WriteInv'
    BY <2>2 DEF TakeOutput
  <2>3. CASE DiscardOutput \/ WriteCall
    BY <2>3 DEF DiscardOutput, WriteCall
  <2>4. ASSUME NEW c \in Columns, Resize(c)
        PROVE  HandleInv' /\ ReaderInv' /\ WriteInv'
    BY <2>4 DEF Resize
  <2> QED
    BY <1>2, <2>1, <2>2, <2>3, <2>4 DEF OwnerCall
<1>3. CASE WriteDone \/ GetStatus
  BY <1>3 DEF WriteDone, GetStatus
<1>4. CASE ReaderStep
  <2>1. CASE ReaderCheck \/ ReaderIssue \/ ReaderRead \/ ReaderFails
    BY <2>1 DEF ReaderCheck, ReaderIssue, ReaderRead, ReaderFails
  <2>2. CASE ReaderPush \/ ReaderPost \/ ReaderLookup \/ ReaderWait
    BY <2>2 DEF ReaderPush, ReaderPost, ReaderLookup, ReaderWait
  <2>3. CASE ReaderWaited \/ ReaderRecord \/ ReaderExited \/ ReaderEnd
    BY <2>3 DEF ReaderWaited, ReaderRecord, ReaderExited, ReaderEnd
  <2> QED
    BY <1>4, <2>1, <2>2, <2>3 DEF ReaderStep
<1>5. CASE Environment
  BY <1>5 DEF Environment, ShellWrites, ShellExits, HostLeaves
<1>6. CASE UNCHANGED vars
  BY <1>6 DEF vars
<1> QED
  BY <1>1, <1>2, <1>3, <1>4, <1>5, <1>6 DEF Next

HandleIInv == HandleInv /\ ReaderInv /\ WriteInv

LEMMA HandleIInvInductive == Spec => []HandleIInv
<1>1. Init => HandleIInv
  BY DEF Init, HandleIInv, HandleInv, ReaderInv, WriteInv, Joined, StopPcs, Taking, Releasing
<1>2. HandleIInv /\ [Next]_vars => HandleIInv'
  BY HandleStep DEF HandleIInv
<1> QED
  BY <1>1, <1>2, PTL DEF Spec

\* The reader uses no handle that Stop has closed, though Stop has taken all of
\* them out of the members, and no method finds a closed one there.
THEOREM NoHandleIsUsedClosed == Spec => []HandlesStayOpen
<1>1. HandleIInv => HandlesStayOpen
  <2> SUFFICES ASSUME HandleIInv PROVE HandlesStayOpen
    OBVIOUS
  <2> USE DEF HandleIInv, HandleInv, ReaderInv, WriteInv
  <2>1. handles \subseteq open
    BY DEF StopPcs, Taking, Releasing
  <2>2. ~Joined => {"output_read", "process"} \subseteq open
    BY DEF StopPcs, Taking, Releasing, Joined
  <2> QED
    BY <2>1, <2>2 DEF HandlesStayOpen, Joined
<1> QED
  BY <1>1, HandleIInvInductive, PTL

\* Whatever call of Start fails, and whenever Stop comes, every open handle is in
\* a member or with the Stop that will close it.
THEOREM NoHandleIsLeaked == Spec => []NoHandleLeak
<1>1. HandleIInv => NoHandleLeak
  BY DEF HandleIInv, HandleInv, StopPcs, Taking, Releasing, NoHandleLeak
<1> QED
  BY <1>1, HandleIInvInductive, PTL

-----------------------------------------------------------------------------
(* The exit code: who stores it, and what is known once Exited is.         *)

Settled  == exitValid \/ outlived \/ code = STILL_ACTIVE
Snapping == {"snap_code", "snap_valid", "snap_done"}

Codes    == ExitCodes \cup {-1, 0}

RecordType ==
    /\ state \in States /\ exitCode \in Codes /\ exitValid \in BOOLEAN
    /\ code \in ExitCodes \cup {0}
    /\ snap \in [state : States, code : Codes, valid : BOOLEAN]

\* A reader under a Stop sees no end of its own; any other has seen the shell dead
\* before it looks at the code.
RecordInv ==
    /\ shell # "dead" => code = 0
    /\ exitValid => shell = "dead" /\ exitCode = code
    /\ rpc \in {"code", "valid"} => ExitCodeKnown
    /\ rpc = "valid" => exitCode = code
    /\ stop /\ opc \notin StopPcs => Joined
    /\ rpc \in {"wait", "query", "waited"} /\ ~hasProcess => opc \in StopPcs
    /\ rpc = "waited" /\ hasProcess /\ ~stop => shell = "dead"
    /\ rpc = "exited" => Settled \/ opc \in StopPcs
    /\ opc = "stop_record" => outlived \/ shell = "dead"
    /\ state = "Exited" =>
          /\ rpc \in {"none", "end", "done"}
          /\ \/ Settled
             \/ opc \in StopPcs \ {"stop_end"} /\ "process" \in handles \cup mine

\* Once Exited has been loaded nobody stores into the code any more.
SnapInv ==
    opc \in Snapping /\ snap.state = "Exited" =>
        /\ state = "Exited"
        /\ opc # "snap_code" => snap.code = exitCode
        /\ opc = "snap_done" => snap.valid = exitValid

LEMMA RecordStep ==
    ASSUME HandleIInv, RecordType, RecordInv, [Next]_vars
    PROVE  RecordType' /\ RecordInv'
<1> USE DEF RecordInv, RecordType, Settled, ExitCodeKnown, Joined, StopPcs, STILL_ACTIVE,
        Owner, Reader, statusVars, ownerVars, readerVars, shellVars, historyVars
<1>0. goal \in {"idle", "create"}
  BY DEF HandleIInv, HandleInv
<1>1. CASE OwnerStep
  <2>1. CASE StopTake
    BY <2>1 DEF StopTake, HandleIInv, HandleInv
  <2>2. CASE StopKill \/ StopCancel
    BY <2>2 DEF StopKill, StopCancel
  <2>3. CASE StopJoin
    BY <2>3 DEF StopJoin, HandleIInv, HandleInv, Taking
  <2>4. CASE StopRelease
    BY <2>4 DEF StopRelease
  <2>5. CASE StopWait
    BY <2>5 DEF StopWait
  <2>6. CASE StopRecord
    BY <2>6 DEF StopRecord, Codes, HandleIInv, ReaderInv, Releasing
  <2>7. CASE StopEnd
    <3>1. FinalState(state) \in States /\ (FinalState(state) = "Exited" <=> state = "Exited")
      BY DEF FinalState, States
    <3> QED
      BY <1>0, <2>7, <3>1 DEF StopEnd, HandleIInv, ReaderInv
  <2>8. ASSUME NEW c \in Columns, NEW job \in BOOLEAN, CreateSucceeds(c, job)
        PROVE  RecordType' /\ RecordInv'
    BY <2>8 DEF CreateSucceeds, ForgetOutput, States, Codes
  <2>9. ASSUME NEW point \in Points, CreateFails(point)
        PROVE  RecordType' /\ RecordInv'
    BY <2>9 DEF CreateFails, ForgetOutput, States, Codes, HandleIInv, ReaderInv
  <2>10. CASE TakeSettle
    BY <2>10 DEF TakeSettle
  <2> QED
    BY <1>1, <2>1, <2>2, <2>3, <2>4, <2>5, <2>6, <2>7, <2>8, <2>9, <2>10 DEF OwnerStep
<1>2. CASE OwnerCall
  <2>1. ASSUME NEW g \in {"idle", "create"}, StopCall(g) PROVE RecordType' /\ RecordInv'
    BY <2>1 DEF StopCall
  <2>2. ASSUME NEW m \in TakeSizes, TakeOutput(m) PROVE RecordType' /\ RecordInv'
    BY <2>2 DEF TakeOutput
  <2>3. CASE DiscardOutput \/ WriteCall
    BY <2>3 DEF DiscardOutput, WriteCall
  <2>4. ASSUME NEW c \in Columns, Resize(c) PROVE RecordType' /\ RecordInv'
    BY <2>4 DEF Resize
  <2> QED
    BY <1>2, <2>1, <2>2, <2>3, <2>4 DEF OwnerCall
<1>3. CASE WriteDone
  BY <1>3 DEF WriteDone
<1>4. CASE GetStatus
  <2>1. snap' \in [state : States, code : Codes, valid : BOOLEAN]
    <3>1. NoSnap \in [state : States, code : Codes, valid : BOOLEAN]
      BY DEF NoSnap, States, Codes
    <3> QED
      BY <1>4, <3>1 DEF GetStatus
  <2> QED
    BY <1>4, <2>1 DEF GetStatus
<1>5. CASE ReaderStep
  <2>1. CASE ReaderCheck \/ ReaderIssue \/ ReaderRead \/ ReaderFails \/ ReaderPush
    BY <2>1 DEF ReaderCheck, ReaderIssue, ReaderRead, ReaderFails, ReaderPush
  <2>2. CASE ReaderPost
    BY <2>2 DEF ReaderPost
  <2>3. CASE ReaderLookup
    BY <2>3 DEF ReaderLookup, HandleIInv, HandleInv, ReaderInv
  <2>4. CASE ReaderWait
    BY <2>4 DEF ReaderWait, Terminated
  <2>5. CASE ReaderWaited
    BY <2>5 DEF ReaderWaited
  <2>6. CASE ReaderRecord
    <3>1. code \in Codes
      BY DEF Codes
    <3> QED
      BY <2>6, <3>1 DEF ReaderRecord
  <2>7. CASE ReaderExited
    BY <2>7 DEF ReaderExited, States, HandleIInv, ReaderInv
  <2>8. CASE ReaderEnd
    BY <2>8 DEF ReaderEnd
  <2> QED
    BY <1>5, <2>1, <2>2, <2>3, <2>4, <2>5, <2>6, <2>7, <2>8 DEF ReaderStep
<1>6. CASE Environment
  <2>1. CASE ShellWrites \/ HostLeaves
    BY <2>1 DEF ShellWrites, HostLeaves
  <2>2. CASE ShellExits
    <3>1. shell' = "dead" /\ shell = "alive" /\ code = 0 /\ code' \in ExitCodes \cup {0}
      BY <2>2 DEF ShellExits
    <3>2. ~exitValid /\ rpc \notin {"code", "valid"} /\ code # STILL_ACTIVE
      BY <3>1
    <3>3. UNCHANGED <<statusVars, handles, ownerVars, readerVars, outlived>>
      BY <2>2 DEF ShellExits
    <3> QED
      BY <3>1, <3>2, <3>3
  <2> QED
    BY <1>6, <2>1, <2>2 DEF Environment
<1>7. CASE UNCHANGED vars
  BY <1>7 DEF vars
<1> QED
  BY <1>1, <1>2, <1>3, <1>4, <1>5, <1>6, <1>7 DEF Next

LEMMA SnapStep ==
    ASSUME HandleIInv, RecordType, RecordInv, SnapInv, [Next]_vars PROVE SnapInv'
<1> USE DEF SnapInv, Snapping, RecordType, Owner, statusVars, ownerVars
<1>1. CASE GetStatus
  BY <1>1 DEF GetStatus, NoSnap
<1>2. CASE OwnerStep
  BY <1>2 DEF OwnerStep, StopTake, StopKill, StopCancel, StopJoin, StopRelease, StopWait,
     StopRecord, StopEnd, CreateSucceeds, CreateFails, TakeSettle, HandleIInv, HandleInv
<1>3. CASE OwnerCall \/ WriteDone
  BY <1>3 DEF OwnerCall, WriteDone, StopCall, TakeOutput, DiscardOutput, WriteCall, Resize
<1>4. CASE ReaderStep
  <2>1. CASE ReaderCheck \/ ReaderIssue \/ ReaderRead \/ ReaderFails \/ ReaderPush
    BY <2>1 DEF ReaderCheck, ReaderIssue, ReaderRead, ReaderFails, ReaderPush
  <2>2. CASE ReaderPost \/ ReaderLookup \/ ReaderWait \/ ReaderWaited
    BY <2>2 DEF ReaderPost, ReaderLookup, ReaderWait, ReaderWaited
  <2>3. CASE ReaderRecord
    BY <2>3 DEF ReaderRecord, Reader, RecordInv
  <2>4. CASE ReaderExited \/ ReaderEnd
    BY <2>4 DEF ReaderExited, ReaderEnd
  <2> QED
    BY <1>4, <2>1, <2>2, <2>3, <2>4 DEF ReaderStep
<1>5. CASE Environment
  BY <1>5 DEF Environment, ShellWrites, ShellExits, HostLeaves
<1>6. CASE UNCHANGED vars
  BY <1>6 DEF vars
<1> QED
  BY <1>1, <1>2, <1>3, <1>4, <1>5, <1>6 DEF Next

RecordIInv == RecordType /\ RecordInv /\ SnapInv

LEMMA RecordIInvInductive == Spec => []RecordIInv
<1>1. ASSUME Init PROVE RecordIInv
  <2> USE <1>1 DEF Init
  <2>1. NoSnap \in [state : States, code : Codes, valid : BOOLEAN]
    BY DEF NoSnap, States, Codes
  <2>2. RecordType
    <3>1. exitCode \in Codes
      BY DEF Codes
    <3> QED
      BY <2>1, <3>1 DEF RecordType, States
  <2>3. RecordInv
    BY DEF RecordInv, Joined
  <2>4. SnapInv
    BY DEF SnapInv, Snapping
  <2> QED
    BY <2>2, <2>3, <2>4 DEF RecordIInv
<1>2. HandleIInv /\ RecordIInv /\ [Next]_vars => RecordIInv'
  BY RecordStep, SnapStep DEF RecordIInv
<1> QED
  BY <1>1, <1>2, HandleIInvInductive, PTL DEF Spec

\* The code that comes with Exited is the shell's own, whoever of the reader and
\* Stop recorded it while GetStatus was loading; it is missing only after a wait
\* that ran out or for the code that means "still active".
THEOREM SnapshotIsCoherent == Spec => []SnapshotCoherent
<1>1. RecordIInv => SnapshotCoherent
  BY DEF RecordIInv, RecordType, RecordInv, SnapInv, Snapping, Settled, StopPcs,
     SnapshotCoherent
<1> QED
  BY <1>1, RecordIInvInductive, PTL

-----------------------------------------------------------------------------
(* Types and the bound of the queue.                                        *)

\* The counter is what is in the queue, and what TakeOutput took from it and
\* has not yet subtracted.  A read is never longer than the room that was left
\* when it was prepared, and since then the counter can only have gone down.
CounterInv ==
    /\ output \in Seq(Nat) /\ chunk \in Seq(Nat) /\ pipe \in Seq(Nat)
    /\ taken \in Nat /\ cap \in Nat /\ emitted \in Nat /\ consumed \in Nat
    /\ queued = Len(output) + taken
    /\ opc # "take" => taken = 0
    /\ queued <= MaxQueued
    /\ rpc \in {"ready", "reading"} => queued + cap <= MaxQueued
    /\ rpc = "push" => queued + Len(chunk) <= MaxQueued

NameInv ==
    /\ state \in States /\ handles \subseteq Members /\ mine \subseteq Members
    /\ exitCode \in ExitCodes \cup {-1, 0} /\ code \in ExitCodes \cup {0}
    /\ opc \in OwnerPcs /\ goal \in {"idle", "create"}
    /\ rpc \in ReaderPcs
    /\ open \subseteq Members \cup Pipes \cup {"attributes"}
    /\ shell \in {"none", "alive", "dead"}
    /\ winsize \in 1..MaxDimension /\ session \in Nat

FlagInv ==
    /\ stop \in BOOLEAN /\ running \in BOOLEAN /\ exitValid \in BOOLEAN
    /\ hasProcess \in BOOLEAN /\ cancelled \in BOOLEAN
    /\ killed \in BOOLEAN /\ host \in BOOLEAN /\ outlived \in BOOLEAN
    /\ snap.valid \in BOOLEAN

CopyInv ==
    snap = [state |-> snap.state, code |-> snap.code, valid |-> snap.valid]
        /\ snap.state \in States /\ snap.code \in ExitCodes \cup {-1, 0}

LEMMA LesserType ==
    ASSUME NEW a \in Nat, NEW b \in Nat
    PROVE  Lesser(a, b) \in Nat /\ Lesser(a, b) <= a /\ Lesser(a, b) <= b
BY DEF Lesser

\* The two parts of a sequence that is cut.
LEMMA Cut ==
    ASSUME NEW a \in Seq(Nat), NEW k \in 0..Len(a)
    PROVE  /\ SubSeq(a, 1, k) \in Seq(Nat) /\ Len(SubSeq(a, 1, k)) = k
           /\ Drop(a, k) \in Seq(Nat) /\ Len(Drop(a, k)) = Len(a) - k
<1> DEFINE m == k + 1
           n == Len(a)
<1>1. m \in 1..n + 1 /\ n \in Nat
  OBVIOUS
<1>2. SubSeq(a, 1, k) \in Seq(Nat) /\ Len(SubSeq(a, 1, k)) = k
  OBVIOUS
<1> HIDE DEF m
<1>3. SubSeq(a, m, n) \in Seq(Nat) /\ Len(SubSeq(a, m, n)) = n + 1 - m
  BY <1>1
<1> QED
  BY <1>1, <1>2, <1>3 DEF Drop, m

\* The steps that write what the counter is about.
CounterVars == <<queued, output, taken, cap, chunk, pipe, emitted, consumed>>
Writes ==
    \/ \E m \in TakeSizes : TakeOutput(m)
    \/ TakeSettle \/ DiscardOutput \/ StopRelease
    \/ \E c \in Columns, job \in BOOLEAN : CreateSucceeds(c, job)
    \/ \E point \in Points : CreateFails(point)
    \/ ReaderCheck \/ ReaderRead \/ ReaderPush \/ ShellWrites

LEMMA CounterWriters ==
    ASSUME [Next]_vars, goal \in {"idle", "create"}
    PROVE  \/ Writes
           \/ /\ UNCHANGED CounterVars
              /\ opc = "take" => opc' = "take"
              /\ opc' = "take" => opc = "take"
              /\ rpc' \in {"ready", "reading"} => rpc \in {"ready", "reading"}
              /\ rpc' = "push" => rpc = "push"
<1> USE DEF CounterVars, Owner, Reader, ownerVars, readerVars, queueVars, historyVars, hostVars
<1>1. CASE OwnerStep
  <2>1. CASE StopTake \/ StopKill \/ StopCancel \/ StopJoin
    BY <2>1 DEF StopTake, StopKill, StopCancel, StopJoin
  <2>2. CASE StopWait \/ StopRecord
    BY <2>2 DEF StopWait, StopRecord
  <2>3. CASE StopEnd
    BY <2>3 DEF StopEnd
  <2> QED
    BY <1>1, <2>1, <2>2, <2>3 DEF OwnerStep, Writes
<1>2. CASE OwnerCall
  BY <1>2 DEF OwnerCall, Writes, StopCall, WriteCall, Resize
<1>3. CASE WriteDone \/ GetStatus
  BY <1>3 DEF WriteDone, GetStatus
<1>4. CASE ReaderStep
  <2>1. CASE ReaderIssue \/ ReaderFails \/ ReaderPost \/ ReaderLookup
    BY <2>1 DEF ReaderIssue, ReaderFails, ReaderPost, ReaderLookup
  <2>2. CASE ReaderWait \/ ReaderWaited \/ ReaderRecord \/ ReaderExited \/ ReaderEnd
    BY <2>2 DEF ReaderWait, ReaderWaited, ReaderRecord, ReaderExited, ReaderEnd
  <2> QED
    BY <1>4, <2>1, <2>2 DEF ReaderStep, Writes
<1>5. CASE Environment
  BY <1>5 DEF Environment, Writes, ShellExits, HostLeaves
<1>6. CASE UNCHANGED vars
  BY <1>6 DEF vars
<1> QED
  BY <1>1, <1>2, <1>3, <1>4, <1>5, <1>6 DEF Next

LEMMA CounterStep ==
    ASSUME CounterInv, goal \in {"idle", "create"}, [Next]_vars
    PROVE  CounterInv'
<1> DEFINE n == Len(output)
<1>0. /\ n \in Nat /\ Len(chunk) \in Nat /\ Len(pipe) \in Nat
      /\ MaxQueued \in Nat /\ ReadBuffer \in Nat /\ TakeSizes \subseteq Nat
      /\ queued \in Nat /\ taken \in Nat /\ cap \in Nat /\ queued = n + taken
      /\ emitted \in Nat /\ consumed \in Nat /\ queued <= MaxQueued
      /\ output \in Seq(Nat) /\ chunk \in Seq(Nat) /\ pipe \in Seq(Nat)
  BY ConPtyConstants, LenProperties DEF CounterInv
<1>1. ASSUME NEW m \in TakeSizes, TakeOutput(m)
      PROVE  CounterInv'
  <2> DEFINE k == Lesser(m, n)
  <2>1. k \in 0..n
    <3>1. m \in Nat
      BY <1>0
    <3>2. k \in Nat /\ k <= n
      BY <1>0, <3>1, LesserType
    <3> HIDE DEF k
    <3> QED
      BY <1>0, <3>2
  <2>2. /\ output' = Drop(output, k) /\ taken' = k /\ consumed' = consumed + k
        /\ opc = "idle" /\ opc' = "take"
        /\ UNCHANGED <<queued, cap, chunk, pipe, emitted, rpc>>
    BY <1>1 DEF TakeOutput, Owner, readerVars, hostVars
  <2> HIDE DEF k
  <2>3. output' \in Seq(Nat) /\ Len(output') = n - k
    BY <1>0, <2>1, <2>2, Cut
  <2>4. taken = 0
    BY <2>2 DEF CounterInv
  <2> QED
    BY <1>0, <2>1, <2>2, <2>3, <2>4 DEF CounterInv
<1>2. CASE TakeSettle
  <2>1. /\ queued' = queued - taken /\ taken' = 0
        /\ UNCHANGED <<output, cap, chunk, pipe, emitted, consumed, rpc>>
    BY <1>2 DEF TakeSettle, readerVars, hostVars, historyVars
  <2> QED
    BY <1>0, <2>1 DEF CounterInv
<1>3. CASE DiscardOutput
  <2>1. /\ output' = <<>> /\ queued' = 0 /\ consumed' = consumed + n /\ opc = "idle"
        /\ UNCHANGED <<taken, opc, cap, chunk, pipe, emitted, rpc>>
    BY <1>3 DEF DiscardOutput, ownerVars, readerVars, hostVars
  <2>2. output' \in Seq(Nat) /\ Len(output') = 0 /\ taken = 0
    BY <2>1, EmptySeq DEF CounterInv
  <2>3. consumed' \in Nat
    BY <1>0, <2>1
  <2>4. rpc \in {"ready", "reading"} => 0 + cap <= MaxQueued
    BY <1>0 DEF CounterInv
  <2>5. rpc = "push" => 0 + Len(chunk) <= MaxQueued
    BY <1>0 DEF CounterInv
  <2> QED
    BY <1>0, <2>1, <2>2, <2>3, <2>4, <2>5 DEF CounterInv
<1>4. CASE StopRelease
  <2>1. /\ pipe' = <<>> /\ opc = "stop_release" /\ opc' = "stop_wait"
        /\ UNCHANGED <<queued, output, taken, cap, chunk, emitted, consumed, rpc>>
    BY <1>4 DEF StopRelease, Owner, queueVars, readerVars, historyVars
  <2> QED
    BY <2>1, EmptySeq DEF CounterInv
<1>5. ASSUME NEW c \in Columns, NEW job \in BOOLEAN, CreateSucceeds(c, job)
      PROVE  CounterInv'
  <2>1. /\ output' = <<>> /\ queued' = 0 /\ consumed' = emitted /\ opc = "create"
        /\ cap' = 0 /\ chunk' = <<>> /\ pipe' = <<>> /\ rpc' = "check" /\ opc' = "idle"
        /\ UNCHANGED <<taken, emitted>>
    BY <1>5 DEF CreateSucceeds, ForgetOutput, Owner
  <2>2. <<>> \in Seq(Nat) /\ Len(<<>>) = 0 /\ taken = 0
    BY <2>1, EmptySeq DEF CounterInv
  <2> QED
    BY <1>0, <2>1, <2>2 DEF CounterInv
<1>6. ASSUME NEW point \in Points, CreateFails(point)
      PROVE  CounterInv'
  <2>1. /\ output' = <<>> /\ queued' = 0 /\ consumed' = emitted /\ opc = "create"
        /\ opc' = "idle" /\ UNCHANGED <<taken, cap, chunk, pipe, emitted, rpc>>
    BY <1>6 DEF CreateFails, ForgetOutput, Owner, readerVars, hostVars
  <2>2. <<>> \in Seq(Nat) /\ Len(<<>>) = 0 /\ taken = 0
    BY <2>1, EmptySeq DEF CounterInv
  <2>3. rpc \in {"ready", "reading"} => 0 + cap <= MaxQueued
    BY <1>0 DEF CounterInv
  <2>4. rpc = "push" => 0 + Len(chunk) <= MaxQueued
    BY <1>0 DEF CounterInv
  <2> QED
    BY <1>0, <2>1, <2>2, <2>3, <2>4 DEF CounterInv
<1>7. CASE ReaderCheck
  <2>1. UNCHANGED <<queued, output, taken, chunk, pipe, emitted, consumed, opc>>
    BY <1>7 DEF ReaderCheck, queueVars, ownerVars, hostVars, historyVars
  <2>2. CASE rpc' = "post" /\ cap' = cap
    BY <2>1, <2>2 DEF CounterInv
  <2>3. CASE rpc' = "ready" /\ cap' = Lesser(ReadBuffer, MaxQueued - queued)
    <3> DEFINE room == MaxQueued - queued
    <3>1. room \in Nat
      BY <1>0
    <3> HIDE DEF room
    <3>2. Lesser(ReadBuffer, room) \in Nat /\ Lesser(ReadBuffer, room) <= room
      BY <1>0, <3>1, LesserType
    <3>3. cap' \in Nat /\ cap' <= MaxQueued - queued
      BY <2>3, <3>2 DEF room
    <3>4. queued + cap' <= MaxQueued
      BY <1>0, <3>3
    <3> QED
      BY <2>1, <2>3, <3>3, <3>4 DEF CounterInv
  <2> QED
    BY <1>7, <2>2, <2>3 DEF ReaderCheck, Reader
<1>8. CASE ReaderRead
  <2>1. PICK k \in 1..Lesser(cap, Len(pipe)) :
            chunk' = SubSeq(pipe, 1, k) /\ pipe' = Drop(pipe, k)
    BY <1>8 DEF ReaderRead
  <2>2. /\ rpc = "reading" /\ rpc' = "push"
        /\ UNCHANGED <<queued, output, taken, cap, emitted, consumed, opc>>
    BY <1>8 DEF ReaderRead, Reader, queueVars, ownerVars, historyVars
  <2>3. k \in 0..Len(pipe) /\ k <= cap
    <3>1. Lesser(cap, Len(pipe)) \in Nat /\ Lesser(cap, Len(pipe)) <= cap
          /\ Lesser(cap, Len(pipe)) <= Len(pipe)
      BY <1>0, LesserType
    <3> QED
      BY <1>0, <2>1, <3>1
  <2>4. /\ chunk' \in Seq(Nat) /\ Len(chunk') = k /\ pipe' \in Seq(Nat)
    BY <1>0, <2>1, <2>3, Cut
  <2>5. queued + k <= MaxQueued
    BY <1>0, <2>2, <2>3 DEF CounterInv
  <2> QED
    BY <2>2, <2>4, <2>5 DEF CounterInv
<1>9. CASE ReaderPush
  <2>1. /\ output' = output \o chunk /\ queued' = queued + Len(chunk) /\ chunk' = <<>>
        /\ rpc = "push" /\ rpc' = "check"
        /\ UNCHANGED <<taken, cap, pipe, emitted, consumed, opc>>
    BY <1>9 DEF ReaderPush, Reader, ownerVars, hostVars, historyVars
  <2>2. /\ output' \in Seq(Nat) /\ Len(output') = n + Len(chunk)
    BY <1>0, <2>1, ConcatProperties
  <2>3. queued + Len(chunk) <= MaxQueued /\ chunk' \in Seq(Nat)
    BY <2>1, EmptySeq DEF CounterInv
  <2>4. queued' <= MaxQueued /\ queued' = Len(output') + taken
    BY <1>0, <2>1, <2>2, <2>3
  <2> QED
    BY <1>0, <2>1, <2>2, <2>3, <2>4 DEF CounterInv
<1>10. CASE ShellWrites
  <2>1. /\ pipe' = Append(pipe, emitted + 1) /\ emitted' = emitted + 1
        /\ UNCHANGED <<queued, output, taken, cap, chunk, consumed, opc, rpc>>
    BY <1>10 DEF ShellWrites, queueVars, ownerVars, readerVars
  <2>2. emitted + 1 \in Nat
    BY <1>0
  <2>3. pipe' \in Seq(Nat)
    BY <1>0, <2>1, <2>2, AppendProperties
  <2> QED
    BY <2>1, <2>2, <2>3 DEF CounterInv
<1>11. CASE ~Writes
  BY <1>11, CounterWriters DEF CounterInv, CounterVars
<1> QED
  BY <1>1, <1>2, <1>3, <1>4, <1>5, <1>6, <1>7, <1>8, <1>9, <1>10, <1>11 DEF Writes

LEMMA ClampedType == ASSUME NEW c \in Columns PROVE Clamped(c) \in 1..MaxDimension
<1>1. c \in Nat /\ MaxDimension \in Nat \ {0}
  BY ConPtyConstants
<1> QED
  BY <1>1 DEF Clamped, Lesser

LEMMA FailedStartOpens ==
    ASSUME NEW point \in Points PROVE OpenedBy(point) \ ClosedAfter(point) = {}
BY FailedStartClosesAll

LEMMA NameStep ==
    ASSUME NameInv, [Next]_vars PROVE NameInv'
<1> USE DEF NameInv, Owner, Reader, ownerVars, readerVars, statusVars, shellVars, hostVars,
        historyVars, OwnerPcs, StopPcs, ReaderPcs, States
<1>1. CASE OwnerStep
  <2>1. CASE StopTake \/ StopKill \/ StopCancel \/ StopJoin
    BY <2>1 DEF StopTake, StopKill, StopCancel, StopJoin
  <2>2. CASE StopRelease \/ StopWait
    BY <2>2 DEF StopRelease, StopWait
  <2>3. CASE StopRecord
    BY <2>3 DEF StopRecord
  <2>4. CASE StopEnd
    BY <2>4 DEF StopEnd, FinalState
  <2>5. ASSUME NEW c \in Columns, NEW job \in BOOLEAN, CreateSucceeds(c, job)
        PROVE  NameInv'
    BY <2>5, ClampedType DEF CreateSucceeds, ForgetOutput
  <2>6. ASSUME NEW point \in Points, CreateFails(point)
        PROVE  NameInv'
    BY <2>6, FailedStartOpens DEF CreateFails, ForgetOutput
  <2>7. CASE TakeSettle
    BY <2>7 DEF TakeSettle
  <2> QED
    BY <1>1, <2>1, <2>2, <2>3, <2>4, <2>5, <2>6, <2>7 DEF OwnerStep
<1>2. CASE OwnerCall
  <2>1. ASSUME NEW c \in Columns, Resize(c) PROVE NameInv'
    BY <2>1, ClampedType DEF Resize
  <2>2. CASE (\E g \in {"idle", "create"} : StopCall(g)) \/ DiscardOutput \/ WriteCall
                 \/ \E m \in TakeSizes : TakeOutput(m)
    BY <2>2 DEF StopCall, DiscardOutput, WriteCall, TakeOutput
  <2> QED
    BY <1>2, <2>1, <2>2 DEF OwnerCall
<1>3. CASE WriteDone \/ GetStatus
  BY <1>3 DEF WriteDone, GetStatus
<1>4. CASE ReaderStep
  <2>1. CASE ReaderCheck \/ ReaderIssue \/ ReaderRead \/ ReaderFails
    BY <2>1 DEF ReaderCheck, ReaderIssue, ReaderRead, ReaderFails
  <2>2. CASE ReaderPush \/ ReaderPost \/ ReaderLookup \/ ReaderWait
    BY <2>2 DEF ReaderPush, ReaderPost, ReaderLookup, ReaderWait
  <2>3. CASE ReaderWaited \/ ReaderRecord \/ ReaderExited \/ ReaderEnd
    BY <2>3 DEF ReaderWaited, ReaderRecord, ReaderExited, ReaderEnd
  <2> QED
    BY <1>4, <2>1, <2>2, <2>3 DEF ReaderStep
<1>5. CASE Environment
  BY <1>5 DEF Environment, ShellWrites, ShellExits, HostLeaves
<1>6. CASE UNCHANGED vars
  BY <1>6 DEF vars
<1> QED
  BY <1>1, <1>2, <1>3, <1>4, <1>5, <1>6 DEF Next

\* GetStatus copies; all other steps leave the copy alone.
LEMMA CopyStep ==
    ASSUME CopyInv, NameInv, [Next]_vars PROVE CopyInv'
<1>1. CASE GetStatus
  BY <1>1 DEF GetStatus, CopyInv, NameInv, NoSnap, States
<1>2. CASE UNCHANGED snap
  BY <1>2 DEF CopyInv
<1>3. UNCHANGED snap \/ GetStatus
  BY DEF Next, OwnerStep, OwnerCall, ReaderStep, Environment, StopTake, StopKill, StopCancel,
     StopJoin, StopRelease, StopWait, StopRecord, StopEnd, CreateSucceeds, CreateFails,
     TakeSettle, StopCall, TakeOutput, DiscardOutput, WriteCall, Resize, WriteDone,
     ReaderCheck, ReaderIssue, ReaderRead, ReaderFails, ReaderPush, ReaderPost,
     ReaderLookup, ReaderWait, ReaderWaited, ReaderRecord, ReaderExited, ReaderEnd,
     ShellWrites, ShellExits, HostLeaves, vars, ownerVars
<1> QED
  BY <1>1, <1>2, <1>3

\* An answer to "is x in S" is a Boolean.
LEMMA Answer ==
    ASSUME NEW a, NEW x, NEW S, a = (x \in S) PROVE a \in BOOLEAN
<1>1. CASE x \in S
  <2>1. (x \in S) = TRUE
    BY <1>1
  <2> QED
    BY <2>1
<1>2. CASE ~(x \in S)
  <2>1. (x \in S) = FALSE
    BY <1>2
  <2> QED
    BY <2>1
<1> QED
  BY <1>1, <1>2

LEMMA FlagStep ==
    ASSUME FlagInv, CopyInv, [Next]_vars PROVE FlagInv'
<1> USE DEF FlagInv, ownerVars, readerVars, statusVars, shellVars, hostVars, historyVars
<1>1. CASE OwnerStep
  <2>1. CASE StopTake \/ StopKill \/ StopCancel \/ StopJoin
    BY <2>1 DEF StopTake, StopKill, StopCancel, StopJoin
  <2>2. CASE StopRelease \/ StopWait \/ StopRecord \/ StopEnd
    BY <2>2 DEF StopRelease, StopWait, StopRecord, StopEnd
  <2>3. CASE (\E c \in Columns, job \in BOOLEAN : CreateSucceeds(c, job))
                 \/ (\E point \in Points : CreateFails(point)) \/ TakeSettle
    BY <2>3 DEF CreateSucceeds, CreateFails, ForgetOutput, TakeSettle
  <2> QED
    BY <1>1, <2>1, <2>2, <2>3 DEF OwnerStep
<1>2. CASE OwnerCall
  <2>1. CASE \E g \in {"idle", "create"} : StopCall(g)
    BY <2>1, Zenon DEF StopCall
  <2>2. CASE \E m \in TakeSizes : TakeOutput(m)
    BY <2>2, Zenon DEF TakeOutput
  <2>3. CASE DiscardOutput \/ WriteCall
    BY <2>3, Zenon DEF DiscardOutput, WriteCall
  <2>4. CASE \E c \in Columns : Resize(c)
    BY <2>4, Zenon DEF Resize
  <2> QED
    BY <1>2, <2>1, <2>2, <2>3, <2>4 DEF OwnerCall
<1>3. CASE WriteDone
  BY <1>3 DEF WriteDone
<1>4. CASE GetStatus
  <2>1. snap'.valid \in {FALSE, snap.valid, exitValid}
    <3>1. CASE snap' = [NoSnap EXCEPT !.state = state]
      BY <3>1 DEF NoSnap
    <3>4. CASE snap' = NoSnap
      BY <3>4 DEF NoSnap
    <3>2. CASE snap' = [snap EXCEPT !.code = exitCode]
      BY <3>2 DEF CopyInv
    <3>3. CASE snap' = [snap EXCEPT !.valid = exitValid]
      BY <3>3 DEF CopyInv
    <3> QED
      BY <1>4, <3>1, <3>2, <3>3, <3>4 DEF GetStatus
  <2>2. UNCHANGED <<stop, running, exitValid, hasProcess, cancelled, killed, host, outlived>>
    BY <1>4 DEF GetStatus
  <2> QED
    BY <2>1, <2>2
<1>5. CASE ReaderStep
  <2>1. CASE ReaderCheck \/ ReaderIssue \/ ReaderRead \/ ReaderFails
    BY <2>1 DEF ReaderCheck, ReaderIssue, ReaderRead, ReaderFails
  <2>2. CASE ReaderPush \/ ReaderPost \/ ReaderWait
    BY <2>2 DEF ReaderPush, ReaderPost, ReaderWait
  <2>4. CASE ReaderLookup
    <3>1. hasProcess' \in BOOLEAN
      <4>1. hasProcess' = ("process" \in handles)
        BY <2>4 DEF ReaderLookup
      <4> QED
        BY <4>1, Answer
    <3>2. UNCHANGED <<stop, running, exitValid, cancelled, killed, host, outlived, snap>>
      BY <2>4 DEF ReaderLookup
    <3> QED
      BY <3>1, <3>2
  <2>3. CASE ReaderWaited \/ ReaderRecord \/ ReaderExited \/ ReaderEnd
    BY <2>3 DEF ReaderWaited, ReaderRecord, ReaderExited, ReaderEnd
  <2> QED
    BY <1>5, <2>1, <2>2, <2>3, <2>4 DEF ReaderStep
<1>6. CASE Environment
  BY <1>6 DEF Environment, ShellWrites, ShellExits, HostLeaves
<1>7. CASE UNCHANGED vars
  BY <1>7 DEF vars
<1> QED
  BY <1>1, <1>2, <1>3, <1>4, <1>5, <1>6, <1>7 DEF Next

SessionInv == CounterInv /\ NameInv /\ FlagInv /\ CopyInv

LEMMA SessionInvInductive == Spec => []SessionInv
<1>1. Init => SessionInv
  <2>1. Init => CounterInv
    BY ConPtyConstants, EmptySeq DEF Init, CounterInv
  <2>2. Init => NameInv
    BY ConPtyConstants DEF Init, NameInv, States, OwnerPcs, ReaderPcs
  <2>3. Init => FlagInv
    <3>1. NoSnap.valid = FALSE
      BY DEF NoSnap
    <3> QED
      BY <3>1 DEF Init, FlagInv
  <2>4. Init => CopyInv
    BY DEF Init, CopyInv, NoSnap, States
  <2> QED
    BY <2>1, <2>2, <2>3, <2>4 DEF SessionInv
<1>2. SessionInv /\ [Next]_vars => SessionInv'
  <2> SUFFICES ASSUME SessionInv, [Next]_vars PROVE SessionInv'
    OBVIOUS
  <2>1. CounterInv /\ NameInv /\ FlagInv /\ CopyInv /\ goal \in {"idle", "create"}
    BY DEF SessionInv, NameInv
  <2> QED
    BY <2>1, CounterStep, NameStep, FlagStep, CopyStep DEF SessionInv
<1> QED
  BY <1>1, <1>2, PTL DEF Spec

\* Every variable keeps its type: queued_bytes_, which two threads change, never
\* exceeds the limit nor wraps below zero, and no reader asks ReadFile for more
\* than the queue can take.
THEOREM ConPtyTypes == Spec => []TypeOK
<1>1. SessionInv => TypeOK
  <2> SUFFICES ASSUME SessionInv PROVE TypeOK
    OBVIOUS
  <2>1. queued \in 0..MaxQueued
    <3>1. Len(output) \in Nat /\ MaxQueued \in Nat
      BY ConPtyConstants, LenProperties DEF SessionInv, CounterInv
    <3> QED
      BY <3>1 DEF SessionInv, CounterInv
  <2>2. code \in Nat
    BY ConPtyConstants DEF SessionInv, NameInv
  <2>3. snap \in [state : States, code : ExitCodes \cup {-1, 0}, valid : BOOLEAN]
    BY DEF SessionInv, CopyInv, FlagInv
  <2>4. /\ output \in Seq(Nat) /\ taken \in Nat /\ cap \in Nat /\ chunk \in Seq(Nat)
        /\ pipe \in Seq(Nat) /\ emitted \in Nat /\ consumed \in Nat
    BY DEF SessionInv, CounterInv
  <2>5. NameInv /\ FlagInv
    BY DEF SessionInv
  <2> QED
    BY <2>1, <2>2, <2>3, <2>4, <2>5 DEF TypeOK, NameInv, FlagInv
<1> QED
  BY <1>1, SessionInvInductive, PTL

-----------------------------------------------------------------------------
(* ConPtySession implements TerminalTransport.                              *)

\* The console host keeps the pipe, and the pipe its bytes, only while Stop has
\* not closed the handles.
PipeInv ==
    host \/ pipe # <<>> =>
        "process" \in handles \cup mine /\ opc \notin Releasing \cup {"stop_end"}

\* Each of the three stores continues the one before it, and while the host is
\* there they hold everything that the owner has yet to get.
StreamInv ==
    /\ Continues(output, consumed)
    /\ Continues(chunk, consumed + Len(output))
    /\ Continues(pipe, consumed + Len(output) + Len(chunk))
    /\ consumed + Len(output) + Len(chunk) + Len(pipe) <= emitted
    /\ host => consumed + Len(output) + Len(chunk) + Len(pipe) = emitted
    /\ rpc = "push" <=> chunk # <<>>

Active == ReaderPcs \ {"none", "end", "done"}

\* What the steps of the contract ask of the state they start from.
PhaseInv ==
    /\ rpc \in Active => state = "Running"
    /\ "process" \in handles \cup mine => state \in {"Running", "Exited"}
    /\ opc \in Releasing \cup {"stop_release"} => "process" \in mine
    /\ state # "Starting"
    /\ opc = "create" => state # "Running"
    /\ rpc \in Active \ {"exited"} => ~exitValid

\* A ReadFile that succeeds returns at least one byte of the pipe.
LEMMA ReadSome ==
    ASSUME CounterInv, ReaderRead
    PROVE  /\ pipe # <<>>
           /\ \E k \in 1..Len(pipe) : chunk' = SubSeq(pipe, 1, k) /\ pipe' = Drop(pipe, k)
<1>0. Len(pipe) \in Nat /\ cap \in Nat
  BY LenProperties DEF CounterInv
<1>1. PICK k \in 1..Lesser(cap, Len(pipe)) :
          chunk' = SubSeq(pipe, 1, k) /\ pipe' = Drop(pipe, k)
  BY DEF ReaderRead
<1>2. Lesser(cap, Len(pipe)) \in Nat /\ Lesser(cap, Len(pipe)) <= Len(pipe)
  BY <1>0, LesserType
<1>3. k \in 1..Len(pipe)
  BY <1>0, <1>1, <1>2
<1>4. Len(pipe) # 0
  BY <1>0, <1>3
<1> QED
  BY <1>1, <1>3, <1>4, EmptySeq

LEMMA PipeStep ==
    ASSUME HandleIInv, CounterInv, PipeInv, [Next]_vars PROVE PipeInv'
<1> USE DEF PipeInv, Releasing, HandleIInv, HandleInv, Owner, Reader, ownerVars,
        readerVars, hostVars
<1>1. CASE OwnerStep
  <2>1. CASE StopTake
    BY <2>1 DEF StopTake
  <2>2. CASE StopKill \/ StopCancel
    BY <2>2 DEF StopKill, StopCancel
  <2>3. CASE StopJoin
    BY <2>3 DEF StopJoin, Taking
  <2>4. CASE StopRelease \/ StopWait \/ StopRecord
    BY <2>4 DEF StopRelease, StopWait, StopRecord
  <2>5. CASE StopEnd
    BY <2>5 DEF StopEnd
  <2>6. ASSUME NEW c \in Columns, NEW job \in BOOLEAN, CreateSucceeds(c, job)
        PROVE  PipeInv'
    BY <2>6 DEF CreateSucceeds, Members
  <2>7. ASSUME NEW point \in Points, CreateFails(point)
        PROVE  PipeInv'
    BY <2>7 DEF CreateFails
  <2>8. CASE TakeSettle
    BY <2>8 DEF TakeSettle
  <2> QED
    BY <1>1, <2>1, <2>2, <2>3, <2>4, <2>5, <2>6, <2>7, <2>8 DEF OwnerStep
<1>2. CASE OwnerCall
  BY <1>2 DEF OwnerCall, StopCall, TakeOutput, DiscardOutput, WriteCall, Resize
<1>3. CASE WriteDone \/ GetStatus
  BY <1>3 DEF WriteDone, GetStatus
<1>4. CASE ReaderStep
  <2>1. CASE ReaderRead
    <3>1. pipe # <<>>
      BY <2>1, ReadSome
    <3> QED
      BY <2>1, <3>1 DEF ReaderRead
  <2>2. CASE ReaderCheck \/ ReaderIssue \/ ReaderFails \/ ReaderPush \/ ReaderPost
    BY <2>2 DEF ReaderCheck, ReaderIssue, ReaderFails, ReaderPush, ReaderPost
  <2>3. CASE ReaderLookup \/ ReaderWait \/ ReaderWaited
    BY <2>3 DEF ReaderLookup, ReaderWait, ReaderWaited
  <2>4. CASE ReaderRecord \/ ReaderExited \/ ReaderEnd
    BY <2>4 DEF ReaderRecord, ReaderExited, ReaderEnd
  <2> QED
    BY <1>4, <2>1, <2>2, <2>3, <2>4 DEF ReaderStep
<1>5. CASE Environment
  BY <1>5 DEF Environment, ShellWrites, ShellExits, HostLeaves
<1>6. CASE UNCHANGED vars
  BY <1>6 DEF vars
<1> QED
  BY <1>1, <1>2, <1>3, <1>4, <1>5, <1>6 DEF Next

\* The three stores and what fits between them, as numbers.
LEMMA StoreTypes ==
    ASSUME CounterInv
    PROVE  /\ output \in Seq(Nat) /\ chunk \in Seq(Nat) /\ pipe \in Seq(Nat)
           /\ Len(output) \in Nat /\ Len(chunk) \in Nat /\ Len(pipe) \in Nat
           /\ consumed \in Nat /\ emitted \in Nat /\ taken \in Nat
BY LenProperties DEF CounterInv

LEMMA TakenSize ==
    ASSUME CounterInv, NEW m \in TakeSizes
    PROVE  Lesser(m, Len(output)) \in 0..Len(output)
<1>1. m \in Nat /\ Len(output) \in Nat
  BY StoreTypes, ConPtyConstants
<1>2. Lesser(m, Len(output)) \in Nat /\ Lesser(m, Len(output)) <= Len(output)
  BY <1>1, LesserType
<1> QED
  BY <1>1, <1>2

LEMMA StreamStep ==
    ASSUME HandleIInv, NameInv, CounterInv, PipeInv, StreamInv, [Next]_vars
    PROVE  StreamInv'
<1> USE DEF StreamInv
<1>0. /\ output \in Seq(Nat) /\ chunk \in Seq(Nat) /\ pipe \in Seq(Nat)
      /\ Len(output) \in Nat /\ Len(chunk) \in Nat /\ Len(pipe) \in Nat
      /\ consumed \in Nat /\ emitted \in Nat
  BY StoreTypes
<1>1. ASSUME NEW m \in TakeSizes, TakeOutput(m) PROVE StreamInv'
  <2> DEFINE k == Lesser(m, Len(output))
  <2>1. k \in 0..Len(output)
    BY TakenSize
  <2>2. output' = Drop(output, k) /\ consumed' = consumed + k
    BY <1>1 DEF TakeOutput
  <2>3. UNCHANGED <<chunk, pipe, emitted, host, rpc>>
    BY <1>1 DEF TakeOutput, readerVars, hostVars
  <2> HIDE DEF k
  <2>4. Continues(output', consumed') /\ Len(output') = Len(output) - k
    BY <1>0, <2>1, <2>2, ContinuesDrop DEF Drop
  <2>5. consumed' + Len(output') = consumed + Len(output)
    BY <1>0, <2>1, <2>2, <2>4
  <2> QED
    BY <2>3, <2>4, <2>5
<1>2. CASE DiscardOutput
  <2>1. output' = <<>> /\ consumed' = consumed + Len(output)
    BY <1>2 DEF DiscardOutput
  <2>2. UNCHANGED <<chunk, pipe, emitted, host, rpc>>
    BY <1>2 DEF DiscardOutput, readerVars, hostVars
  <2>3. Continues(output', consumed') /\ Len(output') = 0
    BY <2>1, EmptySeq DEF Continues
  <2>4. consumed' + Len(output') = consumed + Len(output)
    BY <1>0, <2>1, <2>3
  <2> QED
    BY <2>2, <2>3, <2>4
<1>3. CASE StopRelease
  <2>1. UNCHANGED <<output, chunk, consumed, emitted, rpc>> /\ host' = FALSE /\ pipe' = <<>>
    BY <1>3 DEF StopRelease, queueVars, readerVars, historyVars
  <2>2. Len(pipe') = 0 /\ Continues(pipe', consumed + Len(output) + Len(chunk))
    BY <2>1, EmptySeq DEF Continues
  <2> QED
    BY <1>0, <2>1, <2>2
<1>4. ASSUME NEW c \in Columns, NEW job \in BOOLEAN, CreateSucceeds(c, job)
      PROVE  StreamInv'
  <2>1. /\ output' = <<>> /\ chunk' = <<>> /\ pipe' = <<>> /\ consumed' = emitted
        /\ emitted' = emitted /\ rpc' = "check"
    BY <1>4 DEF CreateSucceeds, ForgetOutput
  <2>2. /\ Len(<<>>) = 0 /\ \A n \in Nat : Continues(<<>>, n)
    BY EmptySeq DEF Continues
  <2> QED
    BY <1>0, <2>1, <2>2
<1>5. ASSUME NEW point \in Points, CreateFails(point) PROVE StreamInv'
  <2>1. /\ output' = <<>> /\ consumed' = emitted /\ opc = "create"
        /\ UNCHANGED <<emitted, chunk, pipe, rpc, host>>
    BY <1>5 DEF CreateFails, ForgetOutput, Owner, readerVars, hostVars
  <2>2. pipe = <<>>
    BY <2>1 DEF PipeInv, HandleIInv, HandleInv
  <2>3. chunk = <<>>
    BY <2>1 DEF HandleIInv, ReaderInv, Joined
  <2>4. /\ Len(<<>>) = 0 /\ \A n \in Nat : Continues(<<>>, n)
    BY EmptySeq DEF Continues
  <2> QED
    BY <1>0, <2>1, <2>2, <2>3, <2>4
<1>6. CASE ReaderRead
  <2>1. PICK k \in 1..Len(pipe) : chunk' = SubSeq(pipe, 1, k) /\ pipe' = Drop(pipe, k)
    BY <1>6, ReadSome
  <2>2. k \in 0..Len(pipe) /\ k # 0
    BY <1>0, <2>1
  <2>3. chunk = <<>> /\ Len(chunk) = 0
    BY <1>6, EmptySeq DEF ReaderRead, Reader
  <2>4. UNCHANGED <<output, consumed, emitted, host>> /\ rpc' = "push"
    BY <1>6 DEF ReaderRead, Reader, queueVars, historyVars
  <2> DEFINE n == consumed + Len(output)
  <2>5. n \in Nat /\ Continues(pipe, n)
    BY <1>0, <2>3
  <2>6. consumed' + Len(output') = n /\ Continues(output', consumed')
    BY <2>4
  <2>7. n + Len(pipe) <= emitted /\ (host => n + Len(pipe) = emitted)
    BY <1>0, <2>3
  <2> HIDE DEF n
  <2>8. Continues(chunk', n) /\ Len(chunk') = k
    BY <1>0, <2>1, <2>2, <2>5, ContinuesPrefix
  <2>9. Continues(pipe', n + k) /\ Len(pipe') = Len(pipe) - k
    BY <1>0, <2>1, <2>2, <2>5, ContinuesDrop DEF Drop
  <2>10. n + k + Len(pipe') = n + Len(pipe)
    BY <1>0, <2>2, <2>5, <2>9
  <2>11. chunk' # <<>>
    BY <2>2, <2>8, EmptySeq
  <2> QED
    BY <2>4, <2>6, <2>7, <2>8, <2>9, <2>10, <2>11
<1>7. CASE ReaderPush
  <2>1. output' = output \o chunk /\ chunk' = <<>> /\ rpc' = "check"
    BY <1>7 DEF ReaderPush, Reader
  <2>2. UNCHANGED <<pipe, consumed, emitted, host>>
    BY <1>7 DEF ReaderPush, hostVars, historyVars
  <2>3. Continues(output', consumed) /\ Len(output') = Len(output) + Len(chunk)
    BY <1>0, <2>1, ContinuesConcat
  <2>4. Continues(chunk', consumed + Len(output')) /\ Len(chunk') = 0
    BY <2>1, EmptySeq DEF Continues
  <2>5. consumed' + Len(output') + Len(chunk') = consumed + Len(output) + Len(chunk)
    BY <1>0, <2>2, <2>3, <2>4
  <2> QED
    BY <2>1, <2>2, <2>3, <2>4, <2>5
<1>8. CASE ShellWrites
  <2>1. host /\ pipe' = Append(pipe, emitted + 1) /\ emitted' = emitted + 1
    BY <1>8 DEF ShellWrites
  <2>2. UNCHANGED <<output, chunk, consumed, host, rpc>>
    BY <1>8 DEF ShellWrites, queueVars, readerVars
  <2> DEFINE t == <<emitted + 1>>
             n == consumed + Len(output) + Len(chunk)
  <2>3. t \in Seq(Nat) /\ Len(t) = 1 /\ t[1] = emitted + 1
    BY <1>0
  <2>4. n \in Nat /\ emitted = n + Len(pipe) /\ Continues(pipe, n)
    BY <1>0, <2>1
  <2>5. pipe' = pipe \o t
    BY <1>0, <2>1
  <2> HIDE DEF t, n
  <2>6. Continues(t, n + Len(pipe))
    BY <1>0, <2>3, <2>4 DEF Continues
  <2>7. Continues(pipe', n) /\ Len(pipe') = Len(pipe) + 1
    BY <1>0, <2>3, <2>4, <2>5, <2>6, ContinuesConcat
  <2>8. n + Len(pipe') = emitted'
    BY <1>0, <2>1, <2>4, <2>7
  <2>9. consumed' + Len(output') + Len(chunk') = n
    BY <2>2 DEF n
  <2>10. emitted' <= emitted'
    BY <1>0, <2>1
  <2> QED
    BY <2>2, <2>7, <2>8, <2>9, <2>10
<1>9. CASE ReaderCheck
  BY <1>9 DEF ReaderCheck, Reader, queueVars, hostVars, historyVars
<1>10. CASE TakeSettle
  BY <1>10 DEF TakeSettle, readerVars, hostVars, historyVars
<1>11. CASE HostLeaves
  BY <1>11 DEF HostLeaves, queueVars, readerVars, historyVars
<1>12. CASE ~Writes /\ ~HostLeaves
  <2>1. UNCHANGED <<output, chunk, pipe, emitted, consumed>> /\ (rpc' = "push" => rpc = "push")
    BY <1>12, CounterWriters DEF CounterVars, NameInv
  <2>2. host' = host /\ (rpc = "push" => rpc' = "push")
    <3> USE <1>12 DEF Reader, readerVars, hostVars
    <3>1. CASE OwnerStep
      BY <3>1 DEF OwnerStep, Writes, StopTake, StopKill, StopCancel, StopJoin, StopWait,
         StopRecord, StopEnd
    <3>2. CASE OwnerCall
      BY <3>2 DEF OwnerCall, Writes, StopCall, WriteCall, Resize
    <3>3. CASE WriteDone \/ GetStatus
      BY <3>3 DEF WriteDone, GetStatus
    <3>4. CASE ReaderStep
      BY <3>4 DEF ReaderStep, Writes, ReaderIssue, ReaderFails, ReaderPost, ReaderLookup,
         ReaderWait, ReaderWaited, ReaderRecord, ReaderExited, ReaderEnd
    <3>5. CASE Environment
      BY <3>5 DEF Environment, Writes, ShellExits
    <3>6. CASE UNCHANGED vars
      BY <3>6 DEF vars
    <3> QED
      BY <3>1, <3>2, <3>3, <3>4, <3>5, <3>6 DEF Next
  <2> QED
    BY <2>1, <2>2
<1> QED
  BY <1>1, <1>2, <1>3, <1>4, <1>5, <1>6, <1>7, <1>8, <1>9, <1>10, <1>11, <1>12 DEF Writes

LEMMA PhaseStep ==
    ASSUME HandleIInv, PhaseInv, [Next]_vars
    PROVE  PhaseInv'
<1> USE DEF PhaseInv, Active, ReaderPcs, Releasing, HandleIInv, HandleInv, ReaderInv, Joined,
        Owner, Reader, ownerVars, readerVars, statusVars
<1>1. CASE OwnerStep
  <2>1. CASE StopTake
    BY <2>1 DEF StopTake
  <2>2. CASE StopKill \/ StopCancel
    BY <2>2 DEF StopKill, StopCancel
  <2>3. CASE StopJoin
    BY <2>3 DEF StopJoin
  <2>4. CASE StopRelease \/ StopWait
    BY <2>4 DEF StopRelease, StopWait
  <2>5. CASE StopRecord
    BY <2>5 DEF StopRecord
  <2>6. CASE StopEnd
    BY <2>6 DEF StopEnd, FinalState
  <2>7. ASSUME NEW c \in Columns, NEW job \in BOOLEAN, CreateSucceeds(c, job)
        PROVE  PhaseInv'
    BY <2>7 DEF CreateSucceeds, ForgetOutput
  <2>8. ASSUME NEW point \in Points, CreateFails(point)
        PROVE  PhaseInv'
    BY <2>8 DEF CreateFails, ForgetOutput
  <2>9. CASE TakeSettle
    BY <2>9 DEF TakeSettle
  <2> QED
    BY <1>1, <2>1, <2>2, <2>3, <2>4, <2>5, <2>6, <2>7, <2>8, <2>9 DEF OwnerStep
<1>2. CASE OwnerCall
  BY <1>2 DEF OwnerCall, StopCall, TakeOutput, DiscardOutput, WriteCall, Resize
<1>3. CASE WriteDone \/ GetStatus
  BY <1>3 DEF WriteDone, GetStatus
<1>4. CASE ReaderStep
  <2>1. CASE ReaderCheck \/ ReaderIssue \/ ReaderRead \/ ReaderFails \/ ReaderPush
    BY <2>1 DEF ReaderCheck, ReaderIssue, ReaderRead, ReaderFails, ReaderPush
  <2>2. CASE ReaderPost \/ ReaderLookup \/ ReaderWait
    BY <2>2 DEF ReaderPost, ReaderLookup, ReaderWait
  <2>3. CASE ReaderWaited
    BY <2>3 DEF ReaderWaited
  <2>4. CASE ReaderRecord
    BY <2>4 DEF ReaderRecord
  <2>5. CASE ReaderExited
    BY <2>5 DEF ReaderExited
  <2>6. CASE ReaderEnd
    BY <2>6 DEF ReaderEnd
  <2> QED
    BY <1>4, <2>1, <2>2, <2>3, <2>4, <2>5, <2>6 DEF ReaderStep
<1>5. CASE Environment
  BY <1>5 DEF Environment, ShellWrites, ShellExits, HostLeaves
<1>6. CASE UNCHANGED vars
  BY <1>6 DEF vars
<1> QED
  BY <1>1, <1>2, <1>3, <1>4, <1>5, <1>6 DEF Next

ContractIInv ==
    HandleIInv /\ RecordIInv /\ CounterInv /\ NameInv /\ FlagInv /\ PipeInv /\ StreamInv /\ PhaseInv

LEMMA ContractIInvInductive == Spec => []ContractIInv
<1>1. Init => PipeInv /\ StreamInv /\ PhaseInv
  <2> SUFFICES ASSUME Init PROVE PipeInv /\ StreamInv /\ PhaseInv
    OBVIOUS
  <2>1. Len(<<>>) = 0 /\ \A n \in Nat : Continues(<<>>, n)
    BY EmptySeq DEF Continues
  <2>2. PipeInv /\ PhaseInv
    BY DEF Init, PipeInv, PhaseInv, Active, Releasing
  <2>3. StreamInv
    BY <2>1 DEF Init, StreamInv
  <2> QED
    BY <2>2, <2>3
<1>2. /\ HandleIInv /\ RecordIInv /\ SessionInv /\ PipeInv /\ StreamInv /\ PhaseInv
      /\ [Next]_vars
      => PipeInv' /\ StreamInv' /\ PhaseInv'
  BY PipeStep, StreamStep, PhaseStep DEF SessionInv
<1>3. HandleIInv /\ RecordIInv /\ SessionInv /\ PipeInv /\ StreamInv /\ PhaseInv
      => ContractIInv
  BY DEF SessionInv, ContractIInv
<1> QED
  BY <1>1, <1>2, <1>3, HandleIInvInductive, RecordIInvInductive, SessionInvInductive, PTL
     DEF Spec

\* The exit status as the contract has it.
SeenExit ==
    IF exitValid THEN [valid |-> TRUE, code |-> exitCode, signal |-> 0] ELSE [valid |-> FALSE]
seenVars == <<state, SeenExit, output, consumed>>

\* Only these steps change what the owner sees.
Shows ==
    \/ StopRecord \/ StopEnd \/ DiscardOutput \/ ReaderPush \/ ReaderRecord \/ ReaderExited
    \/ \E m \in TakeSizes : TakeOutput(m)
    \/ \E c \in Columns, job \in BOOLEAN : CreateSucceeds(c, job)
    \/ \E point \in Points : CreateFails(point)

LEMMA SeenWriters ==
    ASSUME [Next]_vars PROVE Shows \/ UNCHANGED seenVars
<1> DEFINE quiet == UNCHANGED <<state, exitCode, exitValid, output, consumed>>
<1> USE DEF Shows, queueVars, statusVars, historyVars
<1>1. OwnerStep => Shows \/ quiet
  BY DEF OwnerStep, StopTake, StopKill, StopCancel, StopJoin, StopRelease, StopWait,
     TakeSettle
<1>2. OwnerCall => Shows \/ quiet
  BY DEF OwnerCall, StopCall, WriteCall, Resize
<1>3. (WriteDone \/ GetStatus) => Shows \/ quiet
  BY DEF WriteDone, GetStatus
<1>4. ReaderStep => Shows \/ quiet
  BY DEF ReaderStep, ReaderCheck, ReaderIssue, ReaderRead, ReaderFails, ReaderPost,
     ReaderLookup, ReaderWait, ReaderWaited, ReaderEnd
<1>5. Environment => Shows \/ quiet
  BY DEF Environment, ShellWrites, ShellExits, HostLeaves
<1>6. UNCHANGED vars => Shows \/ quiet
  BY DEF vars
<1>7. quiet => UNCHANGED seenVars
  BY DEF seenVars, SeenExit
<1> QED
  BY <1>1, <1>2, <1>3, <1>4, <1>5, <1>6, <1>7 DEF Next

LEMMA StatusFound ==
    ASSUME state \in {"Running", "Exited"}, ~exitValid, exitValid' = TRUE,
           exitCode' \in ExitCodes \cup {0}, UNCHANGED <<state, output, consumed>>
    PROVE  Contract!Next
<1>1. SeenExit' \in Contract!Known
  BY DEF SeenExit, Contract!Known
<1>2. Contract!StatusKnown
  BY <1>1 DEF SeenExit, Contract!StatusKnown, Contract!Unknown
<1> QED
  BY <1>2 DEF Contract!Next

LEMMA QueueForgotten ==
    ASSUME CounterInv, StreamInv, ForgetOutput, UNCHANGED emitted,
           state # "Running", state' \in {"Running", "Failed"}
    PROVE  Contract!Next
<1>1. output' = <<>> /\ consumed' = emitted /\ exitValid' = FALSE
  BY DEF ForgetOutput
<1>2. consumed' >= consumed + Len(output)
  <2>1. consumed + Len(output) + Len(chunk) + Len(pipe) <= emitted
    BY DEF StreamInv
  <2> QED
    BY <1>1, <2>1, StoreTypes
<1>3. Contract!FreshSession
  BY <1>1, <1>2 DEF Contract!FreshSession, Contract!Unknown
<1> QED
  BY <1>3 DEF Contract!Start, Contract!StartFails, Contract!Next

\* Every step of the transport is one of the contract's, or changes nothing the
\* owner sees.
LEMMA ContractStep ==
    ASSUME ContractIInv, [Next]_vars PROVE [Contract!Next]_seenVars
<1> USE DEF ContractIInv, seenVars
<1>0. /\ output \in Seq(Nat) /\ chunk \in Seq(Nat) /\ Len(output) \in Nat
      /\ Len(chunk) \in Nat /\ consumed \in Nat /\ taken \in Nat
      /\ MaxQueued \in Nat /\ queued \in Nat
      /\ queued = Len(output) + taken /\ queued <= MaxQueued
  BY StoreTypes, ConPtyConstants DEF CounterInv
<1>1. CASE StopRecord
  <2>1. UNCHANGED <<state, output, consumed>>
    BY <1>1 DEF StopRecord, queueVars, historyVars
  <2>2. CASE ~exitValid /\ ExitCodeKnown
    <3>1. state \in {"Running", "Exited"}
      BY <1>1 DEF StopRecord, Owner, PhaseInv, Releasing
    <3>2. exitCode' = code /\ exitValid' = TRUE /\ code \in ExitCodes \cup {0}
      BY <1>1, <2>2 DEF StopRecord, NameInv
    <3> QED
      BY <2>1, <2>2, <3>1, <3>2, StatusFound
  <2>3. CASE ~(~exitValid /\ ExitCodeKnown)
    BY <1>1, <2>1, <2>3 DEF StopRecord, SeenExit
  <2> QED
    BY <2>2, <2>3
<1>2. CASE StopEnd
  <2>1. UNCHANGED <<exitCode, exitValid, output, consumed>> /\ state' = FinalState(state)
    BY <1>2 DEF StopEnd, queueVars, historyVars
  <2>2. CASE state = "Running"
    BY <2>1, <2>2 DEF SeenExit, FinalState, Contract!Stop, Contract!Next
  <2>3. CASE state # "Running"
    BY <2>1, <2>3 DEF SeenExit, FinalState, PhaseInv
  <2> QED
    BY <2>2, <2>3
<1>3. ASSUME NEW c \in Columns, NEW job \in BOOLEAN, CreateSucceeds(c, job)
      PROVE  Contract!Next
  <2>1. ForgetOutput /\ UNCHANGED emitted /\ state # "Running" /\ state' = "Running"
    BY <1>3 DEF CreateSucceeds, Owner, PhaseInv
  <2> QED
    BY <2>1, QueueForgotten
<1>4. ASSUME NEW point \in Points, CreateFails(point) PROVE Contract!Next
  <2>1. ForgetOutput /\ UNCHANGED emitted /\ state # "Running" /\ state' = "Failed"
    BY <1>4 DEF CreateFails, Owner, PhaseInv
  <2> QED
    BY <2>1, QueueForgotten
<1>5. ASSUME NEW k \in 0..Len(output), output' = SubSeq(output, k + 1, Len(output)),
             consumed' = consumed + k, UNCHANGED <<state, exitCode, exitValid>>
      PROVE  [Contract!Next]_seenVars
  <2>1. UNCHANGED SeenExit
    BY <1>5 DEF SeenExit
  <2>2. CASE k = 0
    <3>1. SubSeq(output, 1, Len(output)) = output
      BY <1>0
    <3> QED
      BY <1>0, <1>5, <2>1, <2>2, <3>1
  <2>3. CASE k # 0
    <3>1. k \in 1..MaxQueued /\ k <= Len(output)
      BY <1>0, <2>3
    <3>2. Contract!TakeOutput(k)
      BY <1>5, <2>1, <3>1 DEF Contract!TakeOutput, SeenExit
    <3> QED
      BY <3>1, <3>2 DEF Contract!Next
  <2> QED
    BY <2>2, <2>3
<1>6. ASSUME NEW m \in TakeSizes, TakeOutput(m) PROVE [Contract!Next]_seenVars
  <2> DEFINE k == Lesser(m, Len(output))
  <2>1. k \in 0..Len(output)
    BY TakenSize
  <2>2. output' = SubSeq(output, k + 1, Len(output)) /\ consumed' = consumed + k
    BY <1>6 DEF TakeOutput, Drop
  <2>3. UNCHANGED <<state, exitCode, exitValid>>
    BY <1>6 DEF TakeOutput, statusVars
  <2> HIDE DEF k
  <2> QED
    BY <1>5, <2>1, <2>2, <2>3
<1>7. CASE DiscardOutput
  <2> DEFINE k == Len(output)
  <2>1. output' = <<>> /\ consumed' = consumed + k /\ UNCHANGED <<state, exitCode, exitValid>>
    BY <1>7 DEF DiscardOutput, statusVars
  <2>2. k \in 0..Len(output) /\ SubSeq(output, k + 1, Len(output)) = <<>>
    BY <1>0
  <2> HIDE DEF k
  <2> QED
    BY <1>5, <2>1, <2>2
<1>8. CASE ReaderPush
  <2> DEFINE k == Len(chunk)
             room == MaxQueued - Len(output)
  <2>1. output' = output \o chunk /\ UNCHANGED <<state, exitCode, exitValid, consumed>>
    BY <1>8 DEF ReaderPush, statusVars, historyVars
  <2>2. state = "Running" /\ chunk # <<>> /\ queued + k <= MaxQueued
    BY <1>8 DEF ReaderPush, Reader, PhaseInv, Active, ReaderPcs, StreamInv, CounterInv
  <2>3. k \in 1..room
    <3>1. k # 0
      BY <1>0, <2>2, EmptySeq
    <3> QED
      BY <1>0, <2>2, <3>1
  <2>4. chunk = [i \in 1..k |-> consumed + Len(output) + i]
    <3>1. chunk = [i \in 1..k |-> chunk[i]]
      BY <1>0
    <3>2. \A i \in 1..k : chunk[i] = consumed + Len(output) + i
      BY DEF StreamInv, Continues
    <3> QED
      BY <3>1, <3>2
  <2>5. Contract!Receive
    BY <2>1, <2>2, <2>3, <2>4 DEF Contract!Receive, Contract!Room, SeenExit
  <2> QED
    BY <2>5 DEF Contract!Next
<1>9. CASE ReaderRecord
  <2>1. UNCHANGED <<state, output, consumed>> /\ ~exitValid /\ state = "Running"
    BY <1>9 DEF ReaderRecord, Reader, PhaseInv, Active, ReaderPcs, queueVars, historyVars
  <2>2. CASE UNCHANGED exitValid
    BY <2>1, <2>2 DEF SeenExit
  <2>3. CASE exitValid' = TRUE /\ UNCHANGED exitCode /\ rpc = "valid"
    <3>1. exitCode' \in ExitCodes \cup {0}
      BY <2>3 DEF RecordIInv, RecordInv, NameInv
    <3> QED
      BY <2>1, <2>3, <3>1, StatusFound
  <2> QED
    BY <1>9, <2>2, <2>3 DEF ReaderRecord, Reader
<1>10. CASE ReaderExited
  <2>1. /\ state = "Running" /\ state' = "Exited"
        /\ UNCHANGED <<exitCode, exitValid, output, consumed>>
    BY <1>10 DEF ReaderExited, Reader, PhaseInv, Active, ReaderPcs, queueVars, historyVars
  <2> QED
    BY <2>1 DEF SeenExit, Contract!ProcessExits, Contract!Next
<1> QED
  BY <1>1, <1>2, <1>3, <1>4, <1>6, <1>7, <1>8, <1>9, <1>10, SeenWriters DEF Shows

\* The pseudo-console transport keeps the contract of TerminalTransport too, for
\* every queue, pipe and shell: an owner cannot tell it from the POSIX one, but by
\* how long Stop may take.
THEOREM ConPtyKeepsContract == Spec => KeepsContract
<1>1. Init => Contract!Init
  BY DEF Init, Contract!Init, Contract!Unknown
<1>2. ContractIInv /\ [Next]_vars => [Contract!Next]_(Contract!transportVars)
  BY ContractStep DEF seenVars, SeenExit, Contract!transportVars
<1> QED
  BY <1>1, <1>2, ContractIInvInductive, PTL DEF Spec, KeepsContract, Contract!Spec
=============================================================================
