-------------------------- MODULE PtySessionProofs --------------------------
(***************************************************************************)
(* What TLAPS proves of PtySession for every value of its constants: the    *)
(* bound of its queue and its types, then Stop, the end of the child and    *)
(* the status the owner reads, then the bytes it hands over and that it     *)
(* implements TerminalTransport.                                           *)
(***************************************************************************)
EXTENDS PtySession, DataTheorems, TLAPS

-----------------------------------------------------------------------------
(* Helpers.                                                                *)

LEMMA DropType ==
    ASSUME NEW s \in Seq(Nat), NEW k \in 0..Len(s)
    PROVE  Drop(s, k) \in Seq(Nat) /\ Len(Drop(s, k)) = Len(s) - k
BY DEF Drop

LEMMA LesserType ==
    ASSUME NEW a \in Int, NEW b \in Int
    PROVE  /\ Lesser(a, b) \in {a, b} /\ Lesser(a, b) <= a /\ Lesser(a, b) <= b
           /\ Greater(a, b) \in {a, b} /\ Greater(a, b) >= a /\ Greater(a, b) >= b
BY DEF Lesser, Greater

-----------------------------------------------------------------------------
(* Which actions write which variables. *)

Forks == ForkFails \/ \E c \in Columns, ign \in SUBSET Ignorable : ForkSucceeds(c, ign)
Takes == \E m \in TakeSizes : TakeOutput(m)

\* Stop, Start, and the reader once the child is gone write the status.
LEMMA StatusWriters ==
    [Next]_vars => \/ UNCHANGED statusVars
                   \/ (\E g \in {"idle", "fork"} : StopCall(g)) \/ StopReap
                   \/ StopEnd \/ Forks \/ ReaderRecord \/ ReaderExited
                   \/ ReaderEnd
<1> SUFFICES ASSUME [Next]_vars
             PROVE  \/ UNCHANGED statusVars
                    \/ (\E g \in {"idle", "fork"} : StopCall(g)) \/ StopReap
                    \/ StopEnd \/ Forks \/ ReaderRecord \/ ReaderExited
                    \/ ReaderEnd
  OBVIOUS
<1>1. CASE OwnerStep
  BY <1>1 DEF OwnerStep, StopLookup, StopHangup, StopJoin, StopClose, StopTimeout,
     StopEscalate, Forks, TakeSettle, WriteSome, WriteFails, statusVars
<1>2. CASE OwnerCall
  BY <1>2 DEF OwnerCall, Takes, TakeOutput, DiscardOutput, WriteCall, Resize, statusVars
<1>3. CASE GetStatus
  BY <1>3 DEF GetStatus, statusVars
<1>4. CASE ReaderStep
  BY <1>4 DEF ReaderStep, ReaderCheck, ReaderPush, ReaderPost, ReaderLookup, ReaderWait,
     ReaderWaited, ReaderMark, statusVars
<1>5. CASE ReaderIO
  BY <1>5 DEF ReaderIO, ReaderPollReady, ReaderAgain, ReaderError, ReaderRead, ReaderHangup,
     statusVars
<1>6. CASE Environment
  BY <1>6 DEF Environment, ReapedElsewhere, ChildWrites, ChildReads, SlaveCloses,
     ChildDies, statusVars
<1>7. CASE UNCHANGED vars
  BY <1>7 DEF vars
<1> QED
  BY <1>1, <1>2, <1>3, <1>4, <1>5, <1>6, <1>7 DEF Next

\* Drains, restarts and the push of the reader write the queue.
LEMMA QueueWriters ==
    [Next]_vars => \/ UNCHANGED queueVars
                   \/ Forks \/ Takes \/ TakeSettle \/ DiscardOutput
                   \/ ReaderPush
<1> SUFFICES ASSUME [Next]_vars
             PROVE  \/ UNCHANGED queueVars
                    \/ Forks \/ Takes \/ TakeSettle \/ DiscardOutput
                    \/ ReaderPush
  OBVIOUS
<1>1. CASE OwnerStep
  BY <1>1 DEF OwnerStep, StopLookup, StopHangup, StopJoin, StopClose, StopReap, StopTimeout,
     StopEscalate, StopEnd, Forks, WriteSome, WriteFails, queueVars
<1>2. CASE OwnerCall
  BY <1>2 DEF OwnerCall, StopCall, Takes, WriteCall, Resize, queueVars
<1>3. CASE GetStatus
  BY <1>3 DEF GetStatus, queueVars
<1>4. CASE ReaderStep
  BY <1>4 DEF ReaderStep, ReaderCheck, ReaderPost, ReaderLookup, ReaderWait, ReaderWaited,
     ReaderRecord, ReaderMark, ReaderExited, ReaderEnd, queueVars
<1>5. CASE ReaderIO
  BY <1>5 DEF ReaderIO, ReaderPollReady, ReaderAgain, ReaderError, ReaderRead, ReaderHangup,
     queueVars
<1>6. CASE Environment
  BY <1>6 DEF Environment, ReapedElsewhere, ChildWrites, ChildReads, SlaveCloses,
     ChildDies, queueVars
<1>7. CASE UNCHANGED vars
  BY <1>7 DEF vars
<1> QED
  BY <1>1, <1>2, <1>3, <1>4, <1>5, <1>6, <1>7 DEF Next

\* Three sections write under io_mutex_.
LEMMA LockedWriters ==
    [Next]_vars => \/ UNCHANGED lockedVars
                   \/ StopClose \/ Forks \/ ReaderMark
<1> SUFFICES ASSUME [Next]_vars
             PROVE  \/ UNCHANGED lockedVars
                    \/ StopClose \/ Forks \/ ReaderMark
  OBVIOUS
<1>1. CASE OwnerStep
  BY <1>1 DEF OwnerStep, StopLookup, StopHangup, StopJoin, StopReap, StopTimeout, StopEscalate,
     StopEnd, Forks, TakeSettle, WriteSome, WriteFails, lockedVars
<1>2. CASE OwnerCall
  BY <1>2 DEF OwnerCall, StopCall, Takes, TakeOutput, DiscardOutput, WriteCall, Resize,
     lockedVars
<1>3. CASE GetStatus
  BY <1>3 DEF GetStatus, lockedVars
<1>4. CASE ReaderStep
  BY <1>4 DEF ReaderStep, ReaderCheck, ReaderPush, ReaderPost, ReaderLookup, ReaderWait,
     ReaderWaited, ReaderRecord, ReaderExited, ReaderEnd, lockedVars
<1>5. CASE ReaderIO
  BY <1>5 DEF ReaderIO, ReaderPollReady, ReaderAgain, ReaderError, ReaderRead, ReaderHangup,
     lockedVars
<1>6. CASE Environment
  BY <1>6 DEF Environment, ReapedElsewhere, ChildWrites, ChildReads, SlaveCloses,
     ChildDies, lockedVars
<1>7. CASE UNCHANGED vars
  BY <1>7 DEF vars
<1> QED
  BY <1>1, <1>2, <1>3, <1>4, <1>5, <1>6, <1>7 DEF Next

\* Steps of the owner write its locals.
LEMMA OwnerWriters ==
    [Next]_vars => \/ UNCHANGED ownerVars
                   \/ (\E g \in {"idle", "fork"} : StopCall(g)) \/ StopLookup
                   \/ StopHangup \/ StopJoin \/ StopClose \/ StopReap
                   \/ StopTimeout \/ StopEscalate \/ StopEnd \/ Forks \/ Takes
                   \/ TakeSettle \/ (\E n \in WriteSizes : WriteCall(n))
                   \/ WriteSome \/ WriteFails \/ GetStatus
<1> SUFFICES ASSUME [Next]_vars
             PROVE  \/ UNCHANGED ownerVars
                    \/ (\E g \in {"idle", "fork"} : StopCall(g)) \/ StopLookup
                    \/ StopHangup \/ StopJoin \/ StopClose \/ StopReap
                    \/ StopTimeout \/ StopEscalate \/ StopEnd \/ Forks \/ Takes
                    \/ TakeSettle \/ (\E n \in WriteSizes : WriteCall(n))
                    \/ WriteSome \/ WriteFails \/ GetStatus
  OBVIOUS
<1>1. CASE OwnerStep
  BY <1>1 DEF OwnerStep, Forks, ownerVars
<1>2. CASE OwnerCall
  BY <1>2 DEF OwnerCall, Takes, DiscardOutput, Resize, ownerVars
<1>3. CASE GetStatus
  BY <1>3
<1>4. CASE ReaderStep
  BY <1>4 DEF ReaderStep, ReaderCheck, ReaderPush, ReaderPost, ReaderLookup, ReaderWait,
     ReaderWaited, ReaderRecord, ReaderMark, ReaderExited, ReaderEnd, ownerVars
<1>5. CASE ReaderIO
  BY <1>5 DEF ReaderIO, ReaderPollReady, ReaderAgain, ReaderError, ReaderRead, ReaderHangup,
     ownerVars
<1>6. CASE Environment
  BY <1>6 DEF Environment, ReapedElsewhere, ChildWrites, ChildReads, SlaveCloses,
     ChildDies, ownerVars
<1>7. CASE UNCHANGED vars
  BY <1>7 DEF vars
<1> QED
  BY <1>1, <1>2, <1>3, <1>4, <1>5, <1>6, <1>7 DEF Next

\* Steps of the reader, and the fork that starts it, write its locals.
LEMMA ReaderWriters ==
    [Next]_vars => \/ UNCHANGED readerVars
                   \/ Forks \/ ReaderIO \/ ReaderStep
<1> SUFFICES ASSUME [Next]_vars
             PROVE  \/ UNCHANGED readerVars
                    \/ Forks \/ ReaderIO \/ ReaderStep
  OBVIOUS
<1>1. CASE OwnerStep
  BY <1>1 DEF OwnerStep, StopLookup, StopHangup, StopJoin, StopClose, StopReap, StopTimeout,
     StopEscalate, StopEnd, Forks, TakeSettle, WriteSome, WriteFails, readerVars
<1>2. CASE OwnerCall
  BY <1>2 DEF OwnerCall, StopCall, Takes, TakeOutput, DiscardOutput, WriteCall, Resize,
     readerVars
<1>3. CASE GetStatus
  BY <1>3 DEF GetStatus, readerVars
<1>4. CASE ReaderStep
  BY <1>4
<1>5. CASE ReaderIO
  BY <1>5
<1>6. CASE Environment
  BY <1>6 DEF Environment, ReapedElsewhere, ChildWrites, ChildReads, SlaveCloses,
     ChildDies, readerVars
<1>7. CASE UNCHANGED vars
  BY <1>7 DEF vars
<1> QED
  BY <1>1, <1>2, <1>3, <1>4, <1>5, <1>6, <1>7 DEF Next

\* Signals, waits and the child itself write the child's state.
LEMMA ChildWriters ==
    [Next]_vars => \/ UNCHANGED childVars
                   \/ StopHangup \/ StopClose \/ StopReap \/ StopEscalate
                   \/ Forks \/ ReaderWait
                   \/ (\E st \in Statuses : ChildDies(st)) \/ ReapedElsewhere
<1> SUFFICES ASSUME [Next]_vars
             PROVE  \/ UNCHANGED childVars
                    \/ StopHangup \/ StopClose \/ StopReap \/ StopEscalate
                    \/ Forks \/ ReaderWait
                    \/ (\E st \in Statuses : ChildDies(st)) \/ ReapedElsewhere
  OBVIOUS
<1>1. CASE OwnerStep
  BY <1>1 DEF OwnerStep, StopLookup, StopJoin, StopTimeout, StopEnd, Forks, TakeSettle,
     WriteSome, WriteFails, childVars
<1>2. CASE OwnerCall
  BY <1>2 DEF OwnerCall, StopCall, Takes, TakeOutput, DiscardOutput, WriteCall, Resize,
     childVars
<1>3. CASE GetStatus
  BY <1>3 DEF GetStatus, childVars
<1>4. CASE ReaderStep
  BY <1>4 DEF ReaderStep, ReaderCheck, ReaderPush, ReaderPost, ReaderLookup, ReaderWaited,
     ReaderRecord, ReaderMark, ReaderExited, ReaderEnd, childVars
<1>5. CASE ReaderIO
  BY <1>5 DEF ReaderIO, ReaderPollReady, ReaderAgain, ReaderError, ReaderRead, ReaderHangup,
     childVars
<1>6. CASE Environment
  BY <1>6 DEF Environment, ChildWrites, ChildReads, SlaveCloses, childVars
<1>7. CASE UNCHANGED vars
  BY <1>7 DEF vars
<1> QED
  BY <1>1, <1>2, <1>3, <1>4, <1>5, <1>6, <1>7 DEF Next

\* What the kernel holds changes at both ends.
LEMMA PtyWriters ==
    [Next]_vars => \/ UNCHANGED ptyVars
                   \/ StopClose \/ Forks \/ WriteSome
                   \/ (\E c \in Columns : Resize(c)) \/ ReaderRead
                   \/ ChildWrites \/ ChildReads \/ SlaveCloses
<1> SUFFICES ASSUME [Next]_vars
             PROVE  \/ UNCHANGED ptyVars
                    \/ StopClose \/ Forks \/ WriteSome
                    \/ (\E c \in Columns : Resize(c)) \/ ReaderRead
                    \/ ChildWrites \/ ChildReads \/ SlaveCloses
  OBVIOUS
<1>1. CASE OwnerStep
  BY <1>1 DEF OwnerStep, StopLookup, StopHangup, StopJoin, StopReap, StopTimeout, StopEscalate,
     StopEnd, Forks, TakeSettle, WriteFails, ptyVars
<1>2. CASE OwnerCall
  BY <1>2 DEF OwnerCall, StopCall, Takes, TakeOutput, DiscardOutput, WriteCall, ptyVars
<1>3. CASE GetStatus
  BY <1>3 DEF GetStatus, ptyVars
<1>4. CASE ReaderStep
  BY <1>4 DEF ReaderStep, ReaderCheck, ReaderPush, ReaderPost, ReaderLookup, ReaderWait,
     ReaderWaited, ReaderRecord, ReaderMark, ReaderExited, ReaderEnd, ptyVars
<1>5. CASE ReaderIO
  BY <1>5 DEF ReaderIO, ReaderPollReady, ReaderAgain, ReaderError, ReaderHangup, ptyVars
<1>6. CASE Environment
  BY <1>6 DEF Environment, ReapedElsewhere, ChildDies, ptyVars
<1>7. CASE UNCHANGED vars
  BY <1>7 DEF vars
<1> QED
  BY <1>1, <1>2, <1>3, <1>4, <1>5, <1>6, <1>7 DEF Next

\* The steps that history records.
LEMMA HistoryWriters ==
    [Next]_vars => \/ UNCHANGED historyVars
                   \/ StopTimeout \/ Forks \/ Takes \/ DiscardOutput
                   \/ ReaderError \/ ChildWrites
<1> SUFFICES ASSUME [Next]_vars
             PROVE  \/ UNCHANGED historyVars
                    \/ StopTimeout \/ Forks \/ Takes \/ DiscardOutput
                    \/ ReaderError \/ ChildWrites
  OBVIOUS
<1>1. CASE OwnerStep
  BY <1>1 DEF OwnerStep, StopLookup, StopHangup, StopJoin, StopClose, StopReap, StopEscalate,
     StopEnd, Forks, TakeSettle, WriteSome, WriteFails, historyVars
<1>2. CASE OwnerCall
  BY <1>2 DEF OwnerCall, StopCall, Takes, WriteCall, Resize, historyVars
<1>3. CASE GetStatus
  BY <1>3 DEF GetStatus, historyVars
<1>4. CASE ReaderStep
  BY <1>4 DEF ReaderStep, ReaderCheck, ReaderPush, ReaderPost, ReaderLookup, ReaderWait,
     ReaderWaited, ReaderRecord, ReaderMark, ReaderExited, ReaderEnd, historyVars
<1>5. CASE ReaderIO
  BY <1>5 DEF ReaderIO, ReaderPollReady, ReaderAgain, ReaderRead, ReaderHangup, historyVars
<1>6. CASE Environment
  BY <1>6 DEF Environment, ReapedElsewhere, ChildReads, SlaveCloses, ChildDies, historyVars
<1>7. CASE UNCHANGED vars
  BY <1>7 DEF vars
<1> QED
  BY <1>1, <1>2, <1>3, <1>4, <1>5, <1>6, <1>7 DEF Next

-----------------------------------------------------------------------------
(* The queue and the types: one invariant, since fetch_sub stays in Nat    *)
(* only because the counter is never below what a drain has yet to settle. *)

\* The reader sized its read from a count that has only fallen since, and
\* nothing is owed to the counter outside a drain.
QueueInv ==
    /\ QueueAccounting /\ QueueBounded
    /\ opc # "take" => taken = 0
    /\ rpc \in {"poll", "read"} => queued + cap <= MaxQueued
    /\ rpc = "push" => queued + Len(chunk) <= MaxQueued

LEMMA StatusTypeStep ==
    ASSUME TypeOK, [Next]_vars PROVE StatusType'
<1> USE DEF StatusType, statusVars
<1> USE DEF TypeOK
<1>1. CASE UNCHANGED statusVars
  BY <1>1
<1>2. ASSUME NEW g \in {"idle", "fork"}, StopCall(g) PROVE StatusType'
  BY <1>2 DEF StopCall
<1>3. CASE StopReap
  <2>1. status.code \in Codes /\ status.signal \in Signals \cup {0}
    BY DEF ChildType, Statuses, NoStatus, Codes, Signals, SIGHUP, SIGTERM, SIGKILL
  <2>2. CASE child = "zombie"
    <3>1. exit' = Recorded(status) /\ UNCHANGED <<stop, running, state>>
      BY <1>3, <2>2 DEF StopReap
    <3>2. exit' \in [code : Codes, signal : Signals \cup {0}, valid : BOOLEAN]
      BY <2>1, <3>1 DEF Recorded
    <3> QED
      BY <3>1, <3>2
  <2>3. CASE child = "lost"
    BY <1>3, <2>3 DEF StopReap
  <2> QED
    BY <1>3, <2>2, <2>3 DEF StopReap
<1>4. CASE StopEnd
  BY <1>4 DEF StopEnd, FinalState, States
<1>5. CASE Forks
  <2>1. ASSUME NEW c \in Columns, NEW ign \in SUBSET Ignorable, ForkSucceeds(c, ign)
        PROVE  StatusType'
    BY <2>1 DEF ForkSucceeds, ForgetOutput, States, NoExit, Codes
  <2>2. CASE ForkFails
    BY <2>2 DEF ForkFails, ForgetOutput, States, NoExit, Codes
  <2> QED
    BY <1>5, <2>1, <2>2 DEF Forks
<1>6. CASE ReaderRecord
  <2>1. status.code \in Codes /\ status.signal \in Signals \cup {0}
    BY DEF ChildType, Statuses, NoStatus, Codes, Signals, SIGHUP, SIGTERM, SIGKILL
  <2> QED
    BY <1>6, <2>1 DEF ReaderRecord
<1>7. CASE ReaderExited
  BY <1>7 DEF ReaderExited, States
<1>8. CASE ReaderEnd
  BY <1>8 DEF ReaderEnd
<1> QED
  BY <1>1, <1>2, <1>3, <1>4, <1>5, <1>6, <1>7, <1>8, StatusWriters

LEMMA QueueTypeStep ==
    ASSUME TypeOK, QueueInv, [Next]_vars PROVE QueueType'
<1> USE DEF QueueType, queueVars, TypeOK
<1>1. CASE UNCHANGED queueVars
  BY <1>1
<1>2. CASE Forks
  <2>1. ASSUME NEW c \in Columns, NEW ign \in SUBSET Ignorable, ForkSucceeds(c, ign)
        PROVE  QueueType'
    BY <2>1 DEF ForkSucceeds, ForgetOutput, QueueEmptied
  <2>2. CASE ForkFails
    BY <2>2 DEF ForkFails, ForgetOutput, QueueEmptied
  <2> QED
    BY <1>2, <2>1, <2>2 DEF Forks
<1>3. CASE Takes
  <2>1. PICK m \in TakeSizes : TakeOutput(m)
    BY <1>3 DEF Takes
  <2>2. Lesser(m, Len(output)) \in 0..Len(output)
    BY PtyConstants, LesserType
  <2> QED
    BY <2>1, <2>2, DropType DEF TakeOutput
<1>4. CASE TakeSettle
  BY <1>4 DEF TakeSettle, OwnerType, QueueInv, QueueAccounting
<1>5. CASE DiscardOutput
  BY <1>5 DEF DiscardOutput, QueueEmptied
<1>6. CASE ReaderPush
  BY <1>6, LesserType DEF ReaderPush, ReaderType, Received
<1> QED
  BY <1>1, <1>2, <1>3, <1>4, <1>5, <1>6, QueueWriters

LEMMA LockedTypeStep ==
    ASSUME TypeOK, [Next]_vars PROVE LockedType'
<1> USE DEF LockedType, lockedVars, TypeOK
<1>1. CASE UNCHANGED lockedVars
  BY <1>1
<1>2. CASE StopClose
  BY <1>2 DEF StopClose
<1>3. CASE Forks
  <2>1. ASSUME NEW c \in Columns, NEW ign \in SUBSET Ignorable, ForkSucceeds(c, ign)
        PROVE  LockedType'
    <3>1. session + 1 \in Nat
      BY DEF HistoryType
    <3>2. master' = TRUE /\ childPid' = session + 1 /\ reaped' = FALSE
      BY <2>1 DEF ForkSucceeds
    <3> QED
      BY <3>1, <3>2
  <2>2. CASE ForkFails
    BY <2>2 DEF ForkFails
  <2> QED
    BY <1>3, <2>1, <2>2 DEF Forks
<1>4. CASE ReaderMark
  BY <1>4 DEF ReaderMark
<1> QED
  BY <1>1, <1>2, <1>3, <1>4, LockedWriters

LEMMA OwnerTypeStep ==
    ASSUME TypeOK, QueueInv, [Next]_vars PROVE OwnerType'
<1> USE DEF OwnerType, ownerVars, TypeOK, Owner, OwnerPcs, StopPcs
<1>1. CASE UNCHANGED ownerVars
  BY <1>1
<1>2. ASSUME NEW g \in {"idle", "fork"}, StopCall(g) PROVE OwnerType'
  BY <1>2 DEF StopCall
<1>3. CASE StopLookup
  BY <1>3 DEF StopLookup, LockedType
<1>4. CASE StopHangup
  BY <1>4 DEF StopHangup
<1>5. CASE StopJoin
  BY <1>5 DEF StopJoin
<1>6. CASE StopClose
  BY <1>6 DEF StopClose, LockedType
<1>7. CASE StopReap
  BY <1>7 DEF StopReap
<1>8. CASE StopTimeout
  BY <1>8 DEF StopTimeout
<1>9. CASE StopEscalate
  BY <1>9 DEF StopEscalate
<1>10. CASE StopEnd
  BY <1>10 DEF StopEnd
<1>11. CASE Forks
  BY <1>11 DEF Forks, ForkSucceeds, ForkFails
<1>12. CASE Takes
  <2>1. PICK m \in TakeSizes : TakeOutput(m)
    BY <1>12 DEF Takes
  <2>2. Lesser(m, Len(output)) \in Nat
    BY PtyConstants, LesserType DEF QueueType
  <2> QED
    BY <2>1, <2>2 DEF TakeOutput
<1>13. CASE TakeSettle
  BY <1>13 DEF TakeSettle
<1>14. ASSUME NEW n \in WriteSizes, WriteCall(n) PROVE OwnerType'
  BY <1>14, PtyConstants DEF WriteCall
<1>15. CASE WriteSome
  <2>1. PICK k \in 1..Lesser(left, KernelIn - ptyIn) :
            left' = left - k /\ opc' = IF k = left THEN "idle" ELSE "write"
    BY <1>15 DEF WriteSome
  <2>2. k <= left
    BY <2>1, LesserType, PtyConstants DEF PtyType
  <2> QED
    BY <1>15, <2>1, <2>2, LesserType, PtyConstants DEF WriteSome, PtyType
<1>16. CASE WriteFails
  BY <1>16 DEF WriteFails
<1>17. CASE GetStatus
  <2>1. NoSnap \in [state : States, code : Codes, signal : Signals \cup {0}, valid : BOOLEAN]
    BY DEF NoSnap, States, Codes
  <2> QED
    BY <1>17, <2>1 DEF GetStatus, StatusType
<1> QED
  BY <1>1, <1>2, <1>3, <1>4, <1>5, <1>6, <1>7, <1>8, <1>9, <1>10, <1>11, <1>12, <1>13,
     <1>14, <1>15, <1>16, <1>17, OwnerWriters

LEMMA ReaderTypeStep ==
    ASSUME TypeOK, [Next]_vars PROVE ReaderType'
<1> USE DEF ReaderType, readerVars, TypeOK, Reader, ReaderPcs
<1>1. CASE UNCHANGED readerVars
  BY <1>1
<1>2. CASE Forks
  <2>1. ASSUME NEW c \in Columns, NEW ign \in SUBSET Ignorable, ForkSucceeds(c, ign)
        PROVE  ReaderType'
    BY <2>1 DEF ForkSucceeds
  <2>2. CASE ForkFails
    BY <2>2 DEF ForkFails
  <2> QED
    BY <1>2, <2>1, <2>2 DEF Forks
<1>3. CASE ReaderStep
  <2>1. CASE ReaderCheck
    <3>1. StopSeen \/ ReadCapacity \in Nat
      BY <2>1, PtyConstants, LesserType DEF ReaderCheck, ReadCapacity, QueueType
    <3> QED
      BY <2>1, <3>1 DEF ReaderCheck
  <2>2. CASE ReaderPush
    BY <2>2 DEF ReaderPush
  <2>3. CASE ReaderPost \/ ReaderLookup \/ ReaderWaited
    BY <2>3 DEF ReaderPost, ReaderLookup, ReaderWaited
  <2>4. CASE ReaderWait \/ ReaderRecord
    BY <2>4 DEF ReaderWait, ReaderRecord
  <2>5. CASE ReaderMark \/ ReaderExited \/ ReaderEnd
    BY <2>5 DEF ReaderMark, ReaderExited, ReaderEnd
  <2> QED
    BY <1>3, <2>1, <2>2, <2>3, <2>4, <2>5 DEF ReaderStep
<1>4. CASE ReaderIO
  <2>1. CASE ReaderRead
    <3>1. PICK k \in 1..Lesser(cap, Len(ptyOut)) : chunk' = SubSeq(ptyOut, 1, k)
      BY <2>1 DEF ReaderRead
    <3>2. k <= Len(ptyOut)
      BY <3>1, LesserType DEF PtyType
    <3> QED
      BY <2>1, <3>1, <3>2 DEF ReaderRead, PtyType
  <2>2. CASE ReaderPollReady \/ ReaderAgain \/ ReaderError \/ ReaderHangup
    BY <2>2 DEF ReaderPollReady, ReaderAgain, ReaderError, ReaderHangup
  <2> QED
    BY <1>4, <2>1, <2>2 DEF ReaderIO
<1> QED
  BY <1>1, <1>2, <1>3, <1>4, ReaderWriters

LEMMA ChildTypeStep ==
    ASSUME TypeOK, [Next]_vars PROVE ChildType'
<1> USE DEF ChildType, childVars, TypeOK, Signals
<1>1. CASE UNCHANGED childVars
  BY <1>1
<1>2. ASSUME NEW s \in Signals, Signal(s) PROVE pending' \subseteq Signals
  BY <1>2 DEF Signal
<1>3. CASE StopHangup
  BY <1>2, <1>3 DEF StopHangup
<1>4. CASE StopClose
  BY <1>2, <1>4 DEF StopClose
<1>5. CASE StopReap
  BY <1>5 DEF StopReap
<1>6. CASE StopEscalate
  BY <1>2, <1>6 DEF StopEscalate
<1>7. CASE Forks
  <2>1. ASSUME NEW c \in Columns, NEW ign \in SUBSET Ignorable, ForkSucceeds(c, ign)
        PROVE  ChildType'
    BY <2>1 DEF ForkSucceeds
  <2>2. CASE ForkFails
    BY <2>2 DEF ForkFails
  <2> QED
    BY <1>7, <2>1, <2>2 DEF Forks
<1>8. CASE ReaderWait
  BY <1>8 DEF ReaderWait
<1>9. ASSUME NEW st \in Statuses, ChildDies(st) PROVE ChildType'
  BY <1>9 DEF ChildDies
<1>10. CASE ReapedElsewhere
  BY <1>10 DEF ReapedElsewhere
<1> QED
  BY <1>1, <1>3, <1>4, <1>5, <1>6, <1>7, <1>8, <1>9, <1>10, ChildWriters

LEMMA PtyTypeStep ==
    ASSUME TypeOK, [Next]_vars PROVE PtyType'
<1> USE DEF PtyType, ptyVars, TypeOK
<1>1. CASE UNCHANGED ptyVars
  BY <1>1
<1>2. CASE StopClose
  <2>1. ptyOut' = <<>> \/ ptyOut' = ptyOut
    BY <1>2 DEF StopClose
  <2>2. UNCHANGED <<slave, owed, winsize>> /\ ptyIn' \in {0, ptyIn}
    BY <1>2 DEF StopClose
  <2>3. ptyOut' \in Seq(Nat)
    <3>1. CASE ptyOut' = <<>>
      BY <3>1
    <3>2. CASE ptyOut' = ptyOut
      BY <3>2
    <3> QED
      BY <2>1, <3>1, <3>2
  <2> QED
    BY <2>2, <2>3
<1>3. CASE Forks
  <2>1. ASSUME NEW c \in Columns, NEW ign \in SUBSET Ignorable, ForkSucceeds(c, ign)
        PROVE  PtyType'
    <3>1. c \in Nat /\ Modulus - 1 \in Nat
      BY PtyConstants
    <3>2. Clamped(c) \in Nat
      BY <3>1 DEF Clamped, Lesser, Greater
    <3> QED
      BY <2>1, <3>2 DEF ForkSucceeds
  <2>2. CASE ForkFails
    BY <2>2 DEF ForkFails
  <2> QED
    BY <1>3, <2>1, <2>2 DEF Forks
<1>4. CASE WriteSome
  <2>1. PICK k \in 1..Lesser(left, KernelIn - ptyIn) : ptyIn' = ptyIn + k
    BY <1>4 DEF WriteSome
  <2> QED
    BY <1>4, <2>1 DEF WriteSome
<1>5. ASSUME NEW c \in Columns, Resize(c) PROVE PtyType'
  <2>1. c \in Nat /\ Modulus \in Nat \ {0}
    BY PtyConstants
  <2>2. Narrowed(c) \in Nat
    BY <2>1 DEF Narrowed
  <2> QED
    BY <1>5, <2>2 DEF Resize
<1>6. CASE ReaderRead
  <2>1. PICK k \in 1..Lesser(cap, Len(ptyOut)) : ptyOut' = Drop(ptyOut, k)
    BY <1>6 DEF ReaderRead
  <2>2. k \in 0..Len(ptyOut)
    BY <2>1, LesserType DEF ReaderType
  <2> QED
    BY <1>6, <2>1, <2>2, DropType DEF ReaderRead
<1>7. CASE ChildWrites
  BY <1>7 DEF ChildWrites, HistoryType
<1>8. CASE ChildReads
  BY <1>8 DEF ChildReads
<1>9. CASE SlaveCloses
  BY <1>9 DEF SlaveCloses
<1> QED
  BY <1>1, <1>2, <1>3, <1>4, <1>5, <1>6, <1>7, <1>8, <1>9, PtyWriters

LEMMA HistoryTypeStep ==
    ASSUME TypeOK, [Next]_vars PROVE HistoryType'
<1> USE DEF HistoryType, historyVars, TypeOK
<1>1. CASE UNCHANGED historyVars
  BY <1>1
<1>2. CASE StopTimeout
  BY <1>2 DEF StopTimeout
<1>3. CASE Forks
  <2>1. ASSUME NEW c \in Columns, NEW ign \in SUBSET Ignorable, ForkSucceeds(c, ign)
        PROVE  HistoryType'
    <3>1. /\ session' = session + 1 /\ emitted' = emitted /\ consumed' = emitted
          /\ outlived' = FALSE /\ ioError' = FALSE
      BY <2>1 DEF ForkSucceeds, ForgetOutput
    <3>2. session' \in Nat /\ emitted' \in Nat /\ consumed' \in Nat
      BY <3>1
    <3>3. outlived' \in BOOLEAN /\ ioError' \in BOOLEAN
      BY <3>1
    <3> QED
      BY <3>2, <3>3
  <2>2. CASE ForkFails
    BY <2>2 DEF ForkFails, ForgetOutput
  <2> QED
    BY <1>3, <2>1, <2>2 DEF Forks
<1>4. CASE Takes
  <2>1. PICK m \in TakeSizes : TakeOutput(m)
    BY <1>4 DEF Takes
  <2>2. Lesser(m, Len(output)) \in Nat
    BY PtyConstants, LesserType DEF QueueType
  <2> QED
    BY <2>1, <2>2 DEF TakeOutput
<1>5. CASE DiscardOutput
  BY <1>5 DEF DiscardOutput, QueueType
<1>6. CASE ReaderError
  BY <1>6 DEF ReaderError
<1>7. CASE ChildWrites
  BY <1>7 DEF ChildWrites
<1> QED
  BY <1>1, <1>2, <1>3, <1>4, <1>5, <1>6, <1>7, HistoryWriters

\* Only a drain changes what is owed to the counter.
LEMMA OwedByDrains ==
    ASSUME TypeOK, [Next]_vars
    PROVE  Takes \/ TakeSettle \/ (taken' = taken /\ (opc' = "take" <=> opc = "take"))
<1> USE DEF Owner
<1>1. CASE UNCHANGED ownerVars
  BY <1>1 DEF ownerVars
<1>2. CASE \E g \in {"idle", "fork"} : StopCall(g)
  BY <1>2 DEF StopCall
<1>3. CASE StopLookup \/ StopHangup \/ StopJoin \/ StopClose
  BY <1>3 DEF StopLookup, StopHangup, StopJoin, StopClose
<1>4. CASE StopReap \/ StopTimeout \/ StopEscalate
  BY <1>4 DEF StopReap, StopTimeout, StopEscalate
<1>5. CASE StopEnd
  BY <1>5 DEF StopEnd, TypeOK, OwnerType
<1>6. CASE Forks
  BY <1>6 DEF Forks, ForkSucceeds, ForkFails
<1>7. CASE (\E n \in WriteSizes : WriteCall(n)) \/ WriteSome \/ WriteFails
  BY <1>7 DEF WriteCall, WriteSome, WriteFails
<1>8. CASE GetStatus
  BY <1>8 DEF GetStatus
<1> QED
  BY <1>1, <1>2, <1>3, <1>4, <1>5, <1>6, <1>7, <1>8, OwnerWriters

\* What the reader means to push fits into the queue as it stands.
LEMMA ReadFits ==
    ASSUME TypeOK, QueueInv, [Next]_vars
    PROVE  \/ Forks \/ ReaderPush
           \/ /\ rpc' \in {"poll", "read"} => queued + cap' <= MaxQueued
              /\ rpc' = "push" => queued + Len(chunk') <= MaxQueued
<1> USE DEF QueueInv, Reader
<1>1. CASE UNCHANGED readerVars
  BY <1>1 DEF readerVars
<1>2. CASE ReaderStep
  <2>1. CASE ReaderCheck
    BY <2>1, PtyConstants DEF ReaderCheck, ReadCapacity, Lesser, TypeOK, QueueType
  <2>2. CASE ReaderPost \/ ReaderLookup \/ ReaderWait \/ ReaderWaited
    BY <2>2 DEF ReaderPost, ReaderLookup, ReaderWait, ReaderWaited
  <2>3. CASE ReaderRecord \/ ReaderMark \/ ReaderExited \/ ReaderEnd
    BY <2>3 DEF ReaderRecord, ReaderMark, ReaderExited, ReaderEnd
  <2> QED
    BY <1>2, <2>1, <2>2, <2>3 DEF ReaderStep
<1>3. CASE ReaderIO
  <2>1. CASE ReaderRead
    <3>1. PICK k \in 1..Lesser(cap, Len(ptyOut)) : chunk' = SubSeq(ptyOut, 1, k)
      BY <2>1 DEF ReaderRead
    <3>2. cap \in Nat /\ ptyOut \in Seq(Nat) /\ Len(ptyOut) \in Nat /\ queued \in Nat
      BY DEF TypeOK, ReaderType, PtyType, QueueType
    <3>3. k <= cap /\ k <= Len(ptyOut)
      BY <3>1, <3>2, LesserType
    <3>4. Len(chunk') = k
      BY <3>1, <3>2, <3>3
    <3> QED
      BY <2>1, <3>2, <3>3, <3>4, PtyConstants DEF ReaderRead
  <2>2. CASE ReaderPollReady \/ ReaderAgain \/ ReaderError \/ ReaderHangup
    BY <2>2 DEF ReaderPollReady, ReaderAgain, ReaderError, ReaderHangup
  <2> QED
    BY <1>3, <2>1, <2>2 DEF ReaderIO
<1> QED
  BY <1>1, <1>2, <1>3, ReaderWriters

LEMMA QueueInvStep ==
    ASSUME TypeOK, QueueInv, [Next]_vars PROVE QueueInv'
<1> USE PtyConstants DEF QueueInv, QueueAccounting, QueueBounded, Owner, Reader
<1>0. /\ queued \in Nat /\ maxQueued \in Nat /\ output \in Seq(Nat)
      /\ Len(output) \in Nat /\ taken \in Nat /\ cap \in Nat
      /\ chunk \in Seq(Nat) /\ Len(chunk) \in Nat
  BY DEF TypeOK, QueueType, OwnerType, ReaderType
<1>1. CASE UNCHANGED queueVars /\ ~Forks /\ ~Takes /\ ~TakeSettle /\ ~ReaderPush
  BY <1>1, OwedByDrains, ReadFits DEF queueVars
<1>2. CASE Forks
  <2>1. ASSUME NEW c \in Columns, NEW ign \in SUBSET Ignorable, ForkSucceeds(c, ign)
        PROVE  QueueInv'
    BY <1>0, <2>1 DEF ForkSucceeds, ForgetOutput, QueueEmptied
  <2>2. CASE ForkFails
    BY <1>0, <2>2 DEF ForkFails, ForgetOutput, QueueEmptied, readerVars
  <2> QED
    BY <1>2, <2>1, <2>2 DEF Forks
<1>3. CASE Takes
  <2>1. PICK m \in TakeSizes : TakeOutput(m)
    BY <1>3 DEF Takes
  <2> DEFINE k == Lesser(m, Len(output))
  <2>2. k \in 0..Len(output)
    BY <1>0 DEF Lesser
  <2>3. Len(output') = Len(output) - k /\ taken' = k /\ taken = 0
    BY <1>0, <2>1, <2>2, DropType DEF TakeOutput
  <2>4. UNCHANGED <<queued, maxQueued, rpc, cap, chunk>> /\ opc' = "take"
    BY <2>1 DEF TakeOutput, readerVars
  <2> HIDE DEF k
  <2> QED
    BY <1>0, <2>2, <2>3, <2>4
<1>4. CASE TakeSettle
  BY <1>0, <1>4 DEF TakeSettle, readerVars
<1>5. CASE DiscardOutput
  BY <1>0, <1>5 DEF DiscardOutput, QueueEmptied, readerVars, ownerVars
<1>6. CASE ReaderPush
  <2>1. Len(output') = Len(output) + Len(chunk)
    BY <1>0, <1>6 DEF ReaderPush
  <2>2. queued' = queued + Len(chunk) /\ rpc = "push" /\ rpc' = "check"
    BY <1>6 DEF ReaderPush, Received
  <2>3. maxQueued' \in {maxQueued, queued + Len(chunk)}
    BY <1>0, <1>6 DEF ReaderPush, Received, Greater
  <2>4. UNCHANGED <<taken, opc>>
    BY <1>6 DEF ReaderPush, ownerVars
  <2> QED
    BY <1>0, <2>1, <2>2, <2>3, <2>4
<1> QED
  BY <1>1, <1>2, <1>3, <1>4, <1>5, <1>6, QueueWriters

QueueIInv == TypeOK /\ QueueInv

LEMMA QueueIInvInductive == Spec => []QueueIInv
<1>1. ASSUME Init PROVE QueueIInv
  <2> USE <1>1 DEF Init
  <2>1. StatusType
    BY DEF StatusType, States, NoExit, Codes
  <2>2. QueueType
    BY DEF QueueType
  <2>3. LockedType
    BY DEF LockedType
  <2>4. OwnerType
    BY DEF OwnerType, OwnerPcs, NoSnap, Codes, States
  <2>5. ReaderType
    BY DEF ReaderType, ReaderPcs
  <2>6. ChildType
    BY DEF ChildType
  <2>7. PtyType
    <3>1. ptyOut \in Seq(Nat)
      OBVIOUS
    <3>2. slave \in BOOLEAN /\ ptyIn \in Nat /\ owed \in {0, 1} /\ winsize \in Nat
      OBVIOUS
    <3> QED
      BY <3>1, <3>2 DEF PtyType
  <2>8. HistoryType
    BY DEF HistoryType
  <2>9. QueueInv
    BY PtyConstants DEF QueueInv, QueueAccounting, QueueBounded
  <2> QED
    BY <2>1, <2>2, <2>3, <2>4, <2>5, <2>6, <2>7, <2>8, <2>9
    DEF QueueIInv, TypeOK
<1>2. QueueIInv /\ [Next]_vars => QueueIInv'
  BY StatusTypeStep, QueueTypeStep, LockedTypeStep, OwnerTypeStep, ReaderTypeStep,
     ChildTypeStep, PtyTypeStep, HistoryTypeStep, QueueInvStep DEF QueueIInv, TypeOK
<1> QED
  BY <1>1, <1>2, PTL DEF Spec

\* Every variable of the transport keeps its type in every interleaving of the
\* owner, the reader and the child; queued_bytes_ never wraps.
THEOREM TypeCorrect == Spec => []TypeOK
BY QueueIInvInductive, PTL DEF QueueIInv

\* For any limit and any read size the queue stays within the limit: a reader
\* that sized its read before a drain still fits after it.
THEOREM QueueStaysBounded == Spec => []QueueBounded
BY QueueIInvInductive, PTL DEF QueueIInv, QueueInv

\* queued_bytes_ agrees with output_, up to the drain that has yet to settle,
\* although TakeOutput lowers it outside output_mutex_.
THEOREM QueueCounterExact == Spec => []QueueAccounting
BY QueueIInvInductive, PTL DEF QueueIInv, QueueInv

-----------------------------------------------------------------------------
(* Who owns the child: one invariant over the places of the two threads.   *)

Waits     == {"wait_hangup", "term", "wait_term", "kill", "wait_kill"}
Recording == {"code", "signal", "valid", "mark"}
Gone      == child \in {"none", "reaped", "lost"} \/ outlived

\* Between the join and the next fork there is no reader, and a reader has a child.
ReaderGone ==
    /\ opc \in Waits \cup {"stop_close", "stop_end", "fork"} => Joined
    /\ ~Joined => childPid # 0

\* Until it closes the master Stop works on the child that child_pid_ names.
SameChild == opc \in {"stop_hangup", "stop_join", "stop_close"} => oChild = childPid

\* A pid that may still be signalled is one this transport has not reaped.
Unreaped == child \in {"alive", "zombie", "lost"}
PidOwned ==
    /\ opc \in Waits => Unreaped
    /\ childPid # 0 /\ ~reaped /\ rpc \notin Recording => Unreaped

\* child_reaped_ is never set for a child that still has a pid.
ReapKnown == rpc \in Recording \/ reaped => child = "reaped"

Closed == opc \in Waits \cup {"stop_end", "fork"} => ~master /\ childPid = 0

NoneLeft == childPid = 0 /\ opc \notin Waits => Gone

StopFlag == opc \in StopPcs \cup {"fork"} => stop

Quiet ==
    /\ Joined /\ ~master /\ childPid = 0 /\ ~running
    /\ state \notin {"Starting", "Running"} /\ Gone

StoppedQuiet == stop /\ opc \notin StopPcs => Quiet

StopInv ==
    /\ ReaderGone /\ SameChild /\ PidOwned /\ ReapKnown
    /\ Closed /\ NoneLeft /\ StopFlag /\ StoppedQuiet

LEMMA StopInvStep ==
    ASSUME TypeOK, StopInv, [Next]_vars PROVE StopInv'
<1> USE DEF StopInv, ReaderGone, SameChild, PidOwned, Unreaped, ReapKnown, Closed,
        NoneLeft, StopFlag, StoppedQuiet, Quiet, Gone, Joined, Waits, Recording, StopPcs,
        Owner, Reader, statusVars, lockedVars, ownerVars, readerVars, childVars,
        historyVars
<1>1. CASE OwnerStep
  <2>1. CASE StopLookup
    BY <2>1 DEF StopLookup
  <2>2. CASE StopHangup
    BY <2>2 DEF StopHangup
  <2>3. CASE StopJoin
    BY <2>3 DEF StopJoin
  <2>4. CASE StopClose
    BY <2>4 DEF StopClose
  <2>5. CASE StopReap
    BY <2>5 DEF StopReap
  <2>6. CASE StopTimeout
    BY <2>6 DEF StopTimeout
  <2>7. CASE StopEscalate
    BY <2>7 DEF StopEscalate
  <2>8. CASE StopEnd
    <3>1. goal \in {"idle", "fork"}
      BY DEF TypeOK, OwnerType
    <3>2. FinalState(state) \notin {"Starting", "Running"}
      BY DEF FinalState
    <3> QED
      BY <2>8, <3>1, <3>2 DEF StopEnd
  <2>9. ASSUME NEW c \in Columns, NEW ign \in SUBSET Ignorable, ForkSucceeds(c, ign)
        PROVE  StopInv'
    <3>1. session + 1 # 0
      BY DEF TypeOK, HistoryType
    <3> QED
      BY <2>9, <3>1 DEF ForkSucceeds
  <2>10. CASE ForkFails
    BY <2>10 DEF ForkFails
  <2>11. CASE TakeSettle
    BY <2>11 DEF TakeSettle
  <2>12. CASE WriteSome
    BY <2>12 DEF WriteSome
  <2>13. CASE WriteFails
    BY <2>13 DEF WriteFails
  <2> QED
    BY <1>1, <2>1, <2>2, <2>3, <2>4, <2>5, <2>6, <2>7, <2>8, <2>9, <2>10, <2>11,
       <2>12, <2>13 DEF OwnerStep
<1>2. CASE OwnerCall
  <2>1. ASSUME NEW g \in {"idle", "fork"}, StopCall(g) PROVE StopInv'
    BY <2>1 DEF StopCall
  <2>2. ASSUME NEW m \in TakeSizes, TakeOutput(m) PROVE StopInv'
    BY <2>2 DEF TakeOutput
  <2>3. CASE DiscardOutput
    BY <2>3 DEF DiscardOutput
  <2>4. ASSUME NEW n \in WriteSizes, WriteCall(n) PROVE StopInv'
    BY <2>4 DEF WriteCall
  <2>5. ASSUME NEW c \in Columns, Resize(c) PROVE StopInv'
    BY <2>5 DEF Resize
  <2> QED
    BY <1>2, <2>1, <2>2, <2>3, <2>4, <2>5 DEF OwnerCall
<1>3. CASE GetStatus
  BY <1>3 DEF GetStatus
<1>4. CASE ReaderStep
  <2>1. CASE ReaderCheck
    BY <2>1 DEF ReaderCheck
  <2>2. CASE ReaderPush
    BY <2>2 DEF ReaderPush
  <2>3. CASE ReaderPost
    BY <2>3 DEF ReaderPost
  <2>4. CASE ReaderLookup
    BY <2>4 DEF ReaderLookup
  <2>5. CASE ReaderWait
    BY <2>5 DEF ReaderWait
  <2>6. CASE ReaderWaited
    BY <2>6 DEF ReaderWaited
  <2>7. CASE ReaderRecord
    BY <2>7 DEF ReaderRecord
  <2>8. CASE ReaderMark
    BY <2>8 DEF ReaderMark
  <2>9. CASE ReaderExited
    BY <2>9 DEF ReaderExited
  <2>10. CASE ReaderEnd
    BY <2>10 DEF ReaderEnd
  <2> QED
    BY <1>4, <2>1, <2>2, <2>3, <2>4, <2>5, <2>6, <2>7, <2>8, <2>9, <2>10 DEF ReaderStep
<1>5. CASE ReaderIO
  <2>1. CASE ReaderPollReady \/ ReaderAgain
    BY <2>1 DEF ReaderPollReady, ReaderAgain
  <2>2. CASE ReaderError
    BY <2>2 DEF ReaderError
  <2>3. CASE ReaderRead
    BY <2>3 DEF ReaderRead
  <2>4. CASE ReaderHangup
    BY <2>4 DEF ReaderHangup
  <2> QED
    BY <1>5, <2>1, <2>2, <2>3, <2>4 DEF ReaderIO
<1>6. CASE Environment
  <2>1. CASE ChildWrites
    BY <2>1 DEF ChildWrites
  <2>2. CASE ChildReads \/ SlaveCloses
    BY <2>2 DEF ChildReads, SlaveCloses
  <2>3. ASSUME NEW st \in Statuses, ChildDies(st) PROVE StopInv'
    BY <2>3 DEF ChildDies
  <2>4. CASE ReapedElsewhere
    BY <2>4 DEF ReapedElsewhere
  <2> QED
    BY <1>6, <2>1, <2>2, <2>3, <2>4 DEF Environment
<1>7. CASE UNCHANGED vars
  BY <1>7 DEF vars
<1> QED
  BY <1>1, <1>2, <1>3, <1>4, <1>5, <1>6, <1>7 DEF Next

-----------------------------------------------------------------------------
(* What the pty still holds once the reader is past its loop.              *)

Drained == ptyOut = <<>> /\ ~slave

\* The loop is left for a stop, for a poll that failed or at the end of the
\* stream, and only the last one leads to Exited without either.
DrainInv ==
    /\ rpc # "push" => chunk = <<>>
    /\ state = "Exited" => rpc \in {"none", "end", "done"}
    /\ ~ioError =>
        /\ rpc = "post" /\ ~stop => Drained
        /\ rpc \in Recording \cup {"lookup", "wait", "waited", "exited"} => Drained
        /\ state = "Exited" => Drained

LEMMA DrainInvStep ==
    ASSUME TypeOK, StopInv, DrainInv, [Next]_vars PROVE DrainInv'
<1> USE DEF DrainInv, Drained, Recording, Owner, Reader, statusVars, readerVars,
        ptyVars, historyVars
<1>1. CASE OwnerStep
  <2>1. CASE StopLookup \/ StopHangup \/ StopJoin
    BY <2>1 DEF StopLookup, StopHangup, StopJoin
  <2>2. CASE StopClose
    BY <2>2 DEF StopClose
  <2>3. CASE StopReap \/ StopTimeout \/ StopEscalate
    BY <2>3 DEF StopReap, StopTimeout, StopEscalate
  <2>4. CASE StopEnd
    BY <2>4 DEF StopEnd, FinalState
  <2>5. ASSUME NEW c \in Columns, NEW ign \in SUBSET Ignorable, ForkSucceeds(c, ign)
        PROVE  DrainInv'
    BY <2>5 DEF ForkSucceeds
  <2>6. CASE ForkFails
    BY <2>6 DEF ForkFails
  <2>7. CASE TakeSettle \/ WriteSome \/ WriteFails
    BY <2>7 DEF TakeSettle, WriteSome, WriteFails
  <2> QED
    BY <1>1, <2>1, <2>2, <2>3, <2>4, <2>5, <2>6, <2>7 DEF OwnerStep
<1>2. CASE OwnerCall
  <2>1. ASSUME NEW g \in {"idle", "fork"}, StopCall(g) PROVE DrainInv'
    BY <2>1 DEF StopCall
  <2>2. ASSUME NEW m \in TakeSizes, TakeOutput(m) PROVE DrainInv'
    BY <2>2 DEF TakeOutput
  <2>3. CASE DiscardOutput
    BY <2>3 DEF DiscardOutput
  <2>4. ASSUME NEW n \in WriteSizes, WriteCall(n) PROVE DrainInv'
    BY <2>4 DEF WriteCall
  <2>5. ASSUME NEW c \in Columns, Resize(c) PROVE DrainInv'
    BY <2>5 DEF Resize
  <2> QED
    BY <1>2, <2>1, <2>2, <2>3, <2>4, <2>5 DEF OwnerCall
<1>3. CASE GetStatus
  BY <1>3 DEF GetStatus
<1>4. CASE ReaderStep
  <2>1. CASE ReaderCheck
    BY <2>1 DEF ReaderCheck, StopSeen
  <2>2. CASE ReaderPush
    BY <2>2 DEF ReaderPush
  <2>3. CASE ReaderPost
    BY <2>3 DEF ReaderPost
  <2>4. CASE ReaderLookup \/ ReaderWait \/ ReaderWaited
    BY <2>4 DEF ReaderLookup, ReaderWait, ReaderWaited
  <2>5. CASE ReaderRecord
    BY <2>5 DEF ReaderRecord
  <2>6. CASE ReaderMark
    BY <2>6 DEF ReaderMark
  <2>7. CASE ReaderExited
    BY <2>7 DEF ReaderExited
  <2>8. CASE ReaderEnd
    BY <2>8 DEF ReaderEnd
  <2> QED
    BY <1>4, <2>1, <2>2, <2>3, <2>4, <2>5, <2>6, <2>7, <2>8 DEF ReaderStep
<1>5. CASE ReaderIO
  <2>1. CASE ReaderPollReady \/ ReaderAgain
    BY <2>1 DEF ReaderPollReady, ReaderAgain
  <2>2. CASE ReaderError
    BY <2>2 DEF ReaderError
  <2>3. CASE ReaderRead
    BY <2>3 DEF ReaderRead
  <2>4. CASE ReaderHangup
    BY <2>4 DEF ReaderHangup, EndOfFile
  <2> QED
    BY <1>5, <2>1, <2>2, <2>3, <2>4 DEF ReaderIO
<1>6. CASE Environment
  <2>1. CASE ChildWrites
    BY <2>1 DEF ChildWrites, Attached
  <2>2. CASE ChildReads \/ SlaveCloses
    BY <2>2 DEF ChildReads, SlaveCloses
  <2>3. ASSUME NEW st \in Statuses, ChildDies(st) PROVE DrainInv'
    BY <2>3 DEF ChildDies
  <2>4. CASE ReapedElsewhere
    BY <2>4 DEF ReapedElsewhere
  <2> QED
    BY <1>6, <2>1, <2>2, <2>3, <2>4 DEF Environment
<1>7. CASE UNCHANGED vars
  BY <1>7 DEF vars
<1> QED
  BY <1>1, <1>2, <1>3, <1>4, <1>5, <1>6, <1>7 DEF Next

-----------------------------------------------------------------------------
(* What is recorded of the exit, by whom and when.                         *)

OwnStatus == exit.code = status.code /\ exit.signal = status.signal

\* The reader stores the status field by field; a known status is the child's
\* own; a child that was reaped is recorded, being recorded, or forgotten by a
\* Start that failed; and only a child that somebody else reaped, or that
\* outlived SIGKILL, is reported without a status.
RecordInv ==
    /\ rpc \in {"signal", "valid", "mark"} => exit.code = status.code
    /\ rpc \in {"valid", "mark"} => exit.signal = status.signal
    /\ rpc = "mark" => exit.valid
    /\ exit.valid => child = "reaped" /\ OwnStatus
    /\ child = "reaped" =>
          exit.valid \/ rpc \in {"code", "signal", "valid"} \/ state = "Failed"
    /\ state = "Failed" => Joined
    /\ rpc # "none" \/ state = "Exited" => child # "none"
    /\ rpc = "exited" => exit.valid \/ child = "lost" \/ opc \in StopPcs
    /\ state = "Exited" /\ opc \notin StopPcs => exit.valid \/ child = "lost" \/ outlived

LEMMA RecordInvStep ==
    ASSUME TypeOK, StopInv, RecordInv, [Next]_vars PROVE RecordInv'
<1> USE DEF RecordInv, OwnStatus, Joined, StopPcs, Owner, Reader, ownerVars, readerVars,
        childVars, statusVars, lockedVars, historyVars
<1>0. exit \in [code : Codes, signal : Signals \cup {0}, valid : BOOLEAN]
  BY DEF TypeOK, StatusType
<1>1. CASE OwnerStep
  <2>1. CASE StopLookup \/ StopJoin
    BY <2>1 DEF StopLookup, StopJoin
  <2>2. CASE StopHangup
    BY <2>2 DEF StopHangup
  <2>3. CASE StopClose
    BY <2>3 DEF StopClose
  <2>4. CASE StopReap
    BY <2>4 DEF StopReap, Recorded, StopInv, ReaderGone, Waits
  <2>5. CASE StopTimeout
    BY <2>5 DEF StopTimeout
  <2>6. CASE StopEscalate
    BY <2>6 DEF StopEscalate
  <2>7. CASE StopEnd
    <3>1. Joined /\ Gone
      BY <2>7 DEF StopEnd, StopInv, ReaderGone, Closed, NoneLeft, Waits
    <3>2. goal \in {"idle", "fork"}
      BY DEF TypeOK, OwnerType
    <3> QED
      BY <2>7, <3>1, <3>2 DEF StopEnd, FinalState, Gone
  <2>8. ASSUME NEW c \in Columns, NEW ign \in SUBSET Ignorable, ForkSucceeds(c, ign)
        PROVE  RecordInv'
    BY <2>8 DEF ForkSucceeds, ForgetOutput, NoExit
  <2>9. CASE ForkFails
    BY <2>9 DEF ForkFails, ForgetOutput, NoExit, StopInv, ReaderGone
  <2>10. CASE TakeSettle \/ WriteSome \/ WriteFails
    BY <2>10 DEF TakeSettle, WriteSome, WriteFails
  <2> QED
    BY <1>1, <2>1, <2>2, <2>3, <2>4, <2>5, <2>6, <2>7, <2>8, <2>9, <2>10 DEF OwnerStep
<1>2. CASE OwnerCall
  <2>1. ASSUME NEW g \in {"idle", "fork"}, StopCall(g) PROVE RecordInv'
    BY <2>1 DEF StopCall
  <2>2. ASSUME NEW m \in TakeSizes, TakeOutput(m) PROVE RecordInv'
    BY <2>2 DEF TakeOutput
  <2>3. CASE DiscardOutput
    BY <2>3 DEF DiscardOutput
  <2>4. ASSUME NEW n \in WriteSizes, WriteCall(n) PROVE RecordInv'
    BY <2>4 DEF WriteCall
  <2>5. ASSUME NEW c \in Columns, Resize(c) PROVE RecordInv'
    BY <2>5 DEF Resize
  <2> QED
    BY <1>2, <2>1, <2>2, <2>3, <2>4, <2>5 DEF OwnerCall
<1>3. CASE GetStatus
  BY <1>3 DEF GetStatus
<1>4. CASE ReaderStep
  <2>1. CASE ReaderCheck
    BY <2>1 DEF ReaderCheck
  <2>2. CASE ReaderPush
    BY <2>2 DEF ReaderPush
  <2>3. CASE ReaderPost
    BY <2>3 DEF ReaderPost
  <2>4. CASE ReaderLookup
    BY <2>4 DEF ReaderLookup, StopInv, ReaderGone
  <2>5. CASE ReaderWait
    BY <2>5 DEF ReaderWait
  <2>6. CASE ReaderWaited
    BY <2>6 DEF ReaderWaited, StopInv, StoppedQuiet, Quiet
  <2>7. CASE ReaderRecord
    <3>1. child = "reaped"
      BY <2>7 DEF ReaderRecord, StopInv, ReapKnown, Recording
    <3>2. CASE Reader("code", "signal") /\ exit' = [exit EXCEPT !.code = status.code]
      BY <1>0, <2>7, <3>1, <3>2 DEF ReaderRecord
    <3>3. CASE Reader("signal", "valid") /\ exit' = [exit EXCEPT !.signal = status.signal]
      BY <1>0, <2>7, <3>1, <3>3 DEF ReaderRecord
    <3>4. CASE Reader("valid", "mark") /\ exit' = [exit EXCEPT !.valid = TRUE]
      BY <1>0, <2>7, <3>1, <3>4 DEF ReaderRecord
    <3> QED
      BY <2>7, <3>2, <3>3, <3>4 DEF ReaderRecord
  <2>8. CASE ReaderMark
    BY <2>8 DEF ReaderMark
  <2>9. CASE ReaderExited
    BY <2>9 DEF ReaderExited
  <2>10. CASE ReaderEnd
    BY <2>10 DEF ReaderEnd
  <2> QED
    BY <1>4, <2>1, <2>2, <2>3, <2>4, <2>5, <2>6, <2>7, <2>8, <2>9, <2>10 DEF ReaderStep
<1>5. CASE ReaderIO
  <2>1. CASE ReaderPollReady \/ ReaderAgain \/ ReaderHangup
    BY <2>1 DEF ReaderPollReady, ReaderAgain, ReaderHangup
  <2>2. CASE ReaderError
    BY <2>2 DEF ReaderError
  <2>3. CASE ReaderRead
    BY <2>3 DEF ReaderRead
  <2> QED
    BY <1>5, <2>1, <2>2, <2>3 DEF ReaderIO
<1>6. CASE Environment
  <2>1. CASE ChildWrites
    BY <2>1 DEF ChildWrites
  <2>2. CASE ChildReads \/ SlaveCloses
    BY <2>2 DEF ChildReads, SlaveCloses
  <2>3. ASSUME NEW st \in Statuses, ChildDies(st) PROVE RecordInv'
    BY <2>3 DEF ChildDies, StopInv, ReapKnown, Recording
  <2>4. CASE ReapedElsewhere
    BY <2>4 DEF ReapedElsewhere
  <2> QED
    BY <1>6, <2>1, <2>2, <2>3, <2>4 DEF Environment
<1>7. CASE UNCHANGED vars
  BY <1>7 DEF vars
<1> QED
  BY <1>1, <1>2, <1>3, <1>4, <1>5, <1>6, <1>7 DEF Next

-----------------------------------------------------------------------------
(* What the owner has loaded so far of the status.                         *)

Snapping == {"snap_code", "snap_signal", "snap_valid", "snap_done"}

\* Once Exited has been loaded nobody stores into the status any more, because
\* only the reader could and it stores the state last.
SnapInv ==
    opc \in Snapping /\ snap.state = "Exited" =>
        /\ state = "Exited"
        /\ opc # "snap_code" => snap.code = exit.code
        /\ opc \in {"snap_valid", "snap_done"} => snap.signal = exit.signal
        /\ opc = "snap_done" => snap.valid = exit.valid

LEMMA SnapInvStep ==
    ASSUME TypeOK, DrainInv, SnapInv, [Next]_vars PROVE SnapInv'
<1> USE DEF SnapInv, Snapping, Owner, ownerVars, statusVars
<1>0. snap \in [state : States, code : Codes, signal : Signals \cup {0}, valid : BOOLEAN]
  BY DEF TypeOK, OwnerType
<1>1. CASE GetStatus
  <2>1. CASE Owner("idle", "snap_code") /\ snap' = [NoSnap EXCEPT !.state = state]
    BY <1>1, <2>1 DEF GetStatus, NoSnap
  <2>2. CASE Owner("snap_code", "snap_signal") /\ snap' = [snap EXCEPT !.code = exit.code]
    BY <1>0, <1>1, <2>2 DEF GetStatus
  <2>3. CASE Owner("snap_signal", "snap_valid") /\ snap' = [snap EXCEPT !.signal = exit.signal]
    BY <1>0, <1>1, <2>3 DEF GetStatus
  <2>4. CASE Owner("snap_valid", "snap_done") /\ snap' = [snap EXCEPT !.valid = exit.valid]
    BY <1>0, <1>1, <2>4 DEF GetStatus
  <2>5. CASE Owner("snap_done", "idle")
    BY <2>5
  <2> QED
    BY <1>1, <2>1, <2>2, <2>3, <2>4, <2>5 DEF GetStatus
<1>2. CASE OwnerStep
  <2>1. opc' \notin Snapping
    <3>1. goal \in {"idle", "fork"}
      BY DEF TypeOK, OwnerType
    <3> QED
      BY <1>2, <3>1 DEF OwnerStep, StopLookup, StopHangup, StopJoin, StopClose, StopReap,
         StopTimeout, StopEscalate, StopEnd, ForkSucceeds, ForkFails, TakeSettle,
         WriteSome, WriteFails
  <2> QED
    BY <2>1
<1>3. CASE OwnerCall
  BY <1>3 DEF OwnerCall, StopCall, TakeOutput, DiscardOutput, WriteCall, Resize
<1>4. CASE ReaderStep
  <2>1. CASE ReaderRecord
    BY <2>1 DEF ReaderRecord, Reader, DrainInv
  <2>2. CASE ReaderExited
    BY <2>2 DEF ReaderExited
  <2>3. CASE ReaderEnd
    BY <2>3 DEF ReaderEnd
  <2>4. CASE ReaderCheck \/ ReaderPush \/ ReaderPost \/ ReaderLookup
    BY <2>4 DEF ReaderCheck, ReaderPush, ReaderPost, ReaderLookup
  <2>5. CASE ReaderWait \/ ReaderWaited \/ ReaderMark
    BY <2>5 DEF ReaderWait, ReaderWaited, ReaderMark
  <2> QED
    BY <1>4, <2>1, <2>2, <2>3, <2>4, <2>5 DEF ReaderStep
<1>5. CASE ReaderIO
  BY <1>5 DEF ReaderIO, ReaderPollReady, ReaderAgain, ReaderError, ReaderRead, ReaderHangup
<1>6. CASE Environment
  BY <1>6 DEF Environment, ReapedElsewhere, ChildWrites, ChildReads, SlaveCloses, ChildDies
<1>7. CASE UNCHANGED vars
  BY <1>7 DEF vars
<1> QED
  BY <1>1, <1>2, <1>3, <1>4, <1>5, <1>6, <1>7 DEF Next

-----------------------------------------------------------------------------
(* The invariants hold, and what follows from them.                        *)

StopIInv == StopInv /\ DrainInv /\ RecordInv /\ SnapInv

LEMMA StopIInvInductive == Spec => []StopIInv
<1>1. ASSUME Init PROVE StopIInv
  <2> USE <1>1 DEF Init, StopPcs, Joined, Recording
  <2>1. StopInv
    BY DEF StopInv, ReaderGone, SameChild, PidOwned, Unreaped, ReapKnown, Closed,
       NoneLeft, StopFlag, StoppedQuiet, Waits, Gone
  <2>2. DrainInv
    BY DEF DrainInv
  <2>3. RecordInv
    BY DEF RecordInv, NoExit
  <2>4. SnapInv
    BY DEF SnapInv, Snapping
  <2> QED
    BY <2>1, <2>2, <2>3, <2>4 DEF StopIInv
<1>2. TypeOK /\ StopIInv /\ [Next]_vars => StopIInv'
  BY StopInvStep, DrainInvStep, RecordInvStep, SnapInvStep DEF StopIInv
<1> QED
  BY <1>1, <1>2, TypeCorrect, PTL DEF Spec

\* Stop sends SIGTERM and SIGKILL only to a pid that it has not reaped, although
\* the reader may reap the child while Stop has yet to join it.
THEOREM EscalationIsSafe == Spec => []EscalationOwnsPid
<1>1. StopIInv => EscalationOwnsPid
  BY DEF StopIInv, StopInv, PidOwned, Unreaped, Waits, EscalationOwnsPid
<1> QED
  BY <1>1, StopIInvInductive, PTL

\* After Stop no reader, descriptor, unreaped child or pending state is left,
\* unless the child outlived SIGKILL.
THEOREM StopIsComplete == Spec => []StopComplete
<1>1. StopIInv => StopComplete
  BY DEF StopIInv, StopInv, StoppedQuiet, Quiet, Gone, Joined, StopPcs, StopComplete
<1> QED
  BY <1>1, StopIInvInductive, PTL

\* The reader reports Exited only when it has queued every byte of the child.
THEOREM ExitedIsDrained == Spec => []ExitedMeansDrained
<1>1. StopIInv => ExitedMeansDrained
  BY DEF StopIInv, DrainInv, Drained, ExitedMeansDrained
<1> QED
  BY <1>1, StopIInvInductive, PTL

\* A status that GetStatus loads field by field while the reader stores it field
\* by field is the child's own whenever it says Exited; a status is missing only
\* from a child that outlived SIGKILL or that somebody else reaped.
THEOREM SnapshotIsCoherent == Spec => []SnapshotCoherent
<1>1. StopIInv => SnapshotCoherent
  <2> SUFFICES ASSUME StopIInv, opc = "snap_done", snap.state = "Exited"
               PROVE  IF snap.valid
                      THEN snap.code = status.code /\ snap.signal = status.signal
                      ELSE outlived \/ child = "lost"
    BY DEF SnapshotCoherent
  <2>1. state = "Exited" /\ snap.code = exit.code /\ snap.signal = exit.signal
        /\ snap.valid = exit.valid
    BY DEF StopIInv, SnapInv, Snapping
  <2>2. exit.valid \/ outlived \/ child = "lost"
    BY <2>1 DEF StopIInv, RecordInv, StopPcs
  <2>3. exit.valid => OwnStatus
    BY DEF StopIInv, RecordInv
  <2> QED
    BY <2>1, <2>2, <2>3 DEF OwnStatus
<1> QED
  BY <1>1, StopIInvInductive, PTL

-----------------------------------------------------------------------------
(* The bytes between the child and the owner.                              *)

\* Each of the three stores continues the one before it, and while the master
\* is open they hold everything that the owner has yet to get.
StreamInv ==
    /\ Continues(output, consumed)
    /\ Continues(chunk, consumed + Len(output))
    /\ Continues(ptyOut, consumed + Len(output) + Len(chunk))
    /\ consumed + Len(output) + Len(chunk) + Len(ptyOut) <= emitted
    /\ master => consumed + Len(output) + Len(chunk) + Len(ptyOut) = emitted
    /\ ~master => ptyOut = <<>>

streamVars == <<output, chunk, ptyOut, consumed, emitted, master>>

\* Five steps move bytes, and three forget them.
LEMMA StreamWriters ==
    [Next]_vars => \/ UNCHANGED streamVars
                   \/ StopClose \/ Forks \/ Takes \/ DiscardOutput
                   \/ ReaderRead \/ ReaderPush \/ ChildWrites
<1> SUFFICES ASSUME [Next]_vars
             PROVE  \/ UNCHANGED streamVars
                    \/ StopClose \/ Forks \/ Takes \/ DiscardOutput
                    \/ ReaderRead \/ ReaderPush \/ ChildWrites
  OBVIOUS
<1> USE DEF streamVars, queueVars, readerVars, ptyVars, historyVars, lockedVars
<1>1. CASE OwnerStep
  BY <1>1 DEF OwnerStep, StopLookup, StopHangup, StopJoin, StopReap, StopTimeout,
     StopEscalate, StopEnd, Forks, TakeSettle, WriteSome, WriteFails
<1>2. CASE OwnerCall
  BY <1>2 DEF OwnerCall, StopCall, Takes, WriteCall, Resize
<1>3. CASE GetStatus
  BY <1>3 DEF GetStatus
<1>4. CASE ReaderStep
  BY <1>4 DEF ReaderStep, ReaderCheck, ReaderPost, ReaderLookup, ReaderWait,
     ReaderWaited, ReaderRecord, ReaderMark, ReaderExited, ReaderEnd
<1>5. CASE ReaderIO
  BY <1>5 DEF ReaderIO, ReaderPollReady, ReaderAgain, ReaderError, ReaderHangup
<1>6. CASE Environment
  BY <1>6 DEF Environment, ReapedElsewhere, ChildReads, SlaveCloses, ChildDies
<1>7. CASE UNCHANGED vars
  BY <1>7 DEF vars
<1> QED
  BY <1>1, <1>2, <1>3, <1>4, <1>5, <1>6, <1>7 DEF Next

LEMMA StreamInvStep ==
    ASSUME TypeOK, StopInv, DrainInv, StreamInv, [Next]_vars PROVE StreamInv'
<1> USE DEF StreamInv
<1>0. /\ output \in Seq(Nat) /\ chunk \in Seq(Nat) /\ ptyOut \in Seq(Nat)
      /\ consumed \in Nat /\ emitted \in Nat
      /\ Len(output) \in Nat /\ Len(chunk) \in Nat /\ Len(ptyOut) \in Nat
  BY DEF TypeOK, QueueType, ReaderType, PtyType, HistoryType
<1>1. CASE UNCHANGED streamVars
  BY <1>1 DEF streamVars, Continues
<1>2. CASE StopClose
  <2>1. UNCHANGED <<output, chunk, consumed, emitted>> /\ ~master'
    BY <1>2 DEF StopClose, queueVars, readerVars, historyVars
  <2>2. ptyOut' = <<>>
    BY <1>2 DEF StopClose
  <2> QED
    BY <1>0, <2>1, <2>2 DEF Continues
<1>3. CASE Forks
  <2>1. ~master /\ ptyOut = <<>>
    BY <1>3 DEF Forks, ForkSucceeds, ForkFails, Owner, StopInv, Closed
  <2>2. chunk = <<>>
    BY <1>3 DEF Forks, ForkSucceeds, ForkFails, Owner, StopInv, ReaderGone, Joined, DrainInv
  <2>3. output' = <<>> /\ consumed' = emitted /\ UNCHANGED emitted
    BY <1>3 DEF Forks, ForkSucceeds, ForkFails, ForgetOutput, QueueEmptied
  <2>4. chunk' = <<>> /\ ptyOut' = <<>>
    BY <1>3, <2>1, <2>2 DEF Forks, ForkSucceeds, ForkFails, readerVars, ptyVars
  <2> QED
    BY <1>0, <2>3, <2>4 DEF Continues
<1>4. CASE Takes
  <2>1. PICK m \in TakeSizes : TakeOutput(m)
    BY <1>4 DEF Takes
  <2> DEFINE k == Lesser(m, Len(output))
  <2>2. k \in 0..Len(output)
    BY <1>0, PtyConstants DEF Lesser
  <2>3. output' = Drop(output, k) /\ consumed' = consumed + k
    BY <2>1 DEF TakeOutput
  <2>4. UNCHANGED <<chunk, ptyOut, emitted, master>>
    BY <2>1 DEF TakeOutput, readerVars, ptyVars, lockedVars
  <2> HIDE DEF k
  <2>5. Continues(output', consumed') /\ Len(output') = Len(output) - k
    BY <1>0, <2>2, <2>3, ContinuesDrop DEF Drop
  <2>6. consumed' + Len(output') = consumed + Len(output)
    BY <1>0, <2>2, <2>3, <2>5
  <2> QED
    BY <2>4, <2>5, <2>6
<1>5. CASE DiscardOutput
  <2>1. output' = <<>> /\ consumed' = consumed + Len(output)
    BY <1>5 DEF DiscardOutput, QueueEmptied
  <2>2. UNCHANGED <<chunk, ptyOut, emitted, master>>
    BY <1>5 DEF DiscardOutput, readerVars, ptyVars, lockedVars
  <2>3. Continues(output', consumed')
    BY <2>1 DEF Continues
  <2>4. consumed' + Len(output') = consumed + Len(output)
    BY <1>0, <2>1
  <2> QED
    BY <2>2, <2>3, <2>4
<1>6. CASE ReaderRead
  <2>1. PICK k \in 1..Lesser(cap, Len(ptyOut)) :
            chunk' = SubSeq(ptyOut, 1, k) /\ ptyOut' = Drop(ptyOut, k)
    BY <1>6 DEF ReaderRead
  <2>2. k \in 0..Len(ptyOut)
    <3>1. cap \in Nat
      BY DEF TypeOK, ReaderType
    <3> QED
      BY <1>0, <2>1, <3>1 DEF Lesser
  <2>3. chunk = <<>>
    BY <1>6 DEF ReaderRead, Reader, DrainInv
  <2>4. UNCHANGED <<output, consumed, emitted, master>>
    BY <1>6 DEF ReaderRead, queueVars, historyVars, lockedVars
  <2> DEFINE n == consumed + Len(output)
  <2>5. n \in Nat /\ Continues(ptyOut, n)
    BY <1>0, <2>3
  <2>6. consumed' + Len(output') = n /\ Continues(output', consumed')
    BY <2>4
  <2>7. n + Len(ptyOut) <= emitted /\ (master => n + Len(ptyOut) = emitted)
    BY <1>0, <2>3
  <2> HIDE DEF n
  <2>8. Continues(chunk', n) /\ Len(chunk') = k
    BY <1>0, <2>1, <2>2, <2>5, ContinuesPrefix
  <2>9. Continues(ptyOut', n + k) /\ Len(ptyOut') = Len(ptyOut) - k
    BY <1>0, <2>1, <2>2, <2>5, ContinuesDrop DEF Drop
  <2>10. master
    BY <1>0, <2>1, <2>2
  <2>11. n + k + Len(ptyOut') = n + Len(ptyOut)
    BY <1>0, <2>2, <2>5, <2>9
  <2> QED
    BY <1>0, <2>4, <2>6, <2>7, <2>8, <2>9, <2>10, <2>11
<1>7. CASE ReaderPush
  <2>1. output' = output \o chunk /\ chunk' = <<>>
    BY <1>7 DEF ReaderPush
  <2>2. UNCHANGED <<ptyOut, consumed, emitted, master>>
    BY <1>7 DEF ReaderPush, ptyVars, historyVars, lockedVars
  <2>3. Continues(output', consumed) /\ Len(output') = Len(output) + Len(chunk)
    BY <1>0, <2>1, ContinuesConcat
  <2>4. Continues(chunk', consumed + Len(output')) /\ Len(chunk') = 0
    BY <2>1 DEF Continues
  <2>5. consumed + Len(output') + Len(chunk') = consumed + Len(output) + Len(chunk)
    BY <1>0, <2>3, <2>4
  <2> QED
    BY <2>2, <2>3, <2>4, <2>5
<1>8. CASE ChildWrites
  <2>1. master /\ ptyOut' = ptyOut \o <<emitted + 1>> /\ emitted' = emitted + 1
    BY <1>0, <1>8 DEF ChildWrites, Attached
  <2>2. UNCHANGED <<output, chunk, consumed, master>>
    BY <1>8 DEF ChildWrites, queueVars, readerVars, lockedVars
  <2> DEFINE t == <<emitted + 1>>
             n == consumed + Len(output) + Len(chunk)
  <2>3. t \in Seq(Nat) /\ Len(t) = 1 /\ t[1] = emitted + 1
    BY <1>0
  <2>4. n \in Nat /\ emitted = n + Len(ptyOut) /\ Continues(ptyOut, n)
    BY <1>0, <2>1
  <2>5. ptyOut' = ptyOut \o t
    BY <2>1
  <2> HIDE DEF t, n
  <2>6. Continues(t, n + Len(ptyOut))
    BY <1>0, <2>3, <2>4 DEF Continues
  <2>7. Continues(ptyOut \o t, n) /\ Len(ptyOut \o t) = Len(ptyOut) + Len(t)
    BY <1>0, <2>3, <2>4, <2>6, ContinuesConcat
  <2>8. Continues(ptyOut', n) /\ Len(ptyOut') = Len(ptyOut) + 1
    BY <2>3, <2>5, <2>7
  <2>9. n + Len(ptyOut') = emitted'
    BY <1>0, <2>1, <2>4, <2>8
  <2>10. consumed' + Len(output') + Len(chunk') = n
    BY <2>2 DEF n
  <2>11. Continues(output', consumed') /\ Continues(chunk', consumed' + Len(output'))
    BY <2>2
  <2> QED
    BY <1>0, <2>1, <2>2, <2>4, <2>8, <2>9, <2>10, <2>11
<1> QED
  BY <1>1, <1>2, <1>3, <1>4, <1>5, <1>6, <1>7, <1>8, StreamWriters

LEMMA StreamInvInductive == Spec => []StreamInv
<1>1. Init => StreamInv
  BY DEF Init, StreamInv, Continues
<1>2. TypeOK /\ StopIInv /\ StreamInv /\ [Next]_vars => StreamInv'
  BY StreamInvStep DEF StopIInv
<1> QED
  BY <1>1, <1>2, TypeCorrect, StopIInvInductive, PTL DEF Spec

\* The owner gets the bytes of the running child in order, once each and with
\* no byte of an earlier session, however reads, drains and stops interleave.
THEOREM StreamIsIntact == Spec => []StreamIntact
<1>1. TypeOK /\ StreamInv => StreamIntact
  <2> SUFFICES ASSUME TypeOK, StreamInv PROVE StreamIntact
    OBVIOUS
  <2>0. /\ output \in Seq(Nat) /\ chunk \in Seq(Nat) /\ ptyOut \in Seq(Nat)
        /\ consumed \in Nat
    BY DEF TypeOK, QueueType, ReaderType, PtyType, HistoryType
  <2>1. /\ Continues(output \o chunk, consumed) /\ output \o chunk \in Seq(Nat)
        /\ Len(output \o chunk) = Len(output) + Len(chunk)
    BY <2>0, ContinuesConcat DEF StreamInv
  <2>2. Continues(ptyOut, consumed + Len(output \o chunk))
    BY <2>0, <2>1 DEF StreamInv
  <2>3. /\ Continues(Stream, consumed) /\ Stream \in Seq(Nat)
        /\ Len(Stream) = Len(output \o chunk) + Len(ptyOut)
    BY <2>0, <2>1, <2>2, ContinuesConcat DEF Stream
  <2>4. DOMAIN Stream = 1..Len(Stream)
    BY <2>3
  <2>5. \A i \in DOMAIN Stream : Stream[i] = consumed + i
    BY <2>3, <2>4 DEF Continues
  <2>6. master => consumed + Len(Stream) = emitted
    BY <2>0, <2>1, <2>3 DEF StreamInv
  <2> QED
    BY <2>5, <2>6 DEF StreamIntact
<1> QED
  BY <1>1, StreamInvInductive, TypeCorrect, PTL

-----------------------------------------------------------------------------
(* PtySession implements TerminalTransport.                                *)

Active == ReaderPcs \ {"none", "end", "done"}

\* What the steps of the contract ask of the state they start from.
PhaseInv ==
    /\ rpc \in Active => state = "Running"
    /\ childPid # 0 \/ opc \in Waits => state \in {"Running", "Exited"}
    /\ state # "Starting"
    /\ rpc = "push" => chunk # <<>>
    /\ rpc \in {"code", "signal", "valid"} => ~exit.valid

LEMMA PhaseInvStep ==
    ASSUME TypeOK, StopInv, RecordInv, PhaseInv, [Next]_vars PROVE PhaseInv'
<1> USE DEF PhaseInv, Active, ReaderPcs, Waits, Owner, Reader, ownerVars, readerVars,
        childVars, statusVars, lockedVars
<1>0. exit \in [code : Codes, signal : Signals \cup {0}, valid : BOOLEAN]
  BY DEF TypeOK, StatusType
<1>1. CASE OwnerStep
  <2>1. CASE StopLookup \/ StopHangup \/ StopJoin
    BY <2>1 DEF StopLookup, StopHangup, StopJoin
  <2>2. CASE StopClose
    BY <2>2 DEF StopClose, StopInv, SameChild
  <2>3. CASE StopReap
    BY <2>3 DEF StopReap, StopInv, ReaderGone, Joined
  <2>4. CASE StopTimeout \/ StopEscalate
    BY <2>4 DEF StopTimeout, StopEscalate
  <2>5. CASE StopEnd
    <3>1. Joined /\ childPid = 0
      BY <2>5 DEF StopEnd, StopInv, ReaderGone, Closed
    <3>2. goal \in {"idle", "fork"}
      BY DEF TypeOK, OwnerType
    <3> QED
      BY <2>5, <3>1, <3>2 DEF StopEnd, FinalState, Joined
  <2>6. ASSUME NEW c \in Columns, NEW ign \in SUBSET Ignorable, ForkSucceeds(c, ign)
        PROVE  PhaseInv'
    BY <2>6 DEF ForkSucceeds
  <2>7. CASE ForkFails
    BY <2>7 DEF ForkFails, StopInv, ReaderGone, Closed, Joined
  <2>8. CASE TakeSettle \/ WriteSome \/ WriteFails
    BY <2>8 DEF TakeSettle, WriteSome, WriteFails
  <2> QED
    BY <1>1, <2>1, <2>2, <2>3, <2>4, <2>5, <2>6, <2>7, <2>8 DEF OwnerStep
<1>2. CASE OwnerCall
  <2>1. ASSUME NEW g \in {"idle", "fork"}, StopCall(g) PROVE PhaseInv'
    BY <2>1 DEF StopCall
  <2>2. ASSUME NEW m \in TakeSizes, TakeOutput(m) PROVE PhaseInv'
    BY <2>2 DEF TakeOutput
  <2>3. CASE DiscardOutput
    BY <2>3 DEF DiscardOutput
  <2>4. ASSUME NEW n \in WriteSizes, WriteCall(n) PROVE PhaseInv'
    BY <2>4 DEF WriteCall
  <2>5. ASSUME NEW c \in Columns, Resize(c) PROVE PhaseInv'
    BY <2>5 DEF Resize
  <2> QED
    BY <1>2, <2>1, <2>2, <2>3, <2>4, <2>5 DEF OwnerCall
<1>3. CASE GetStatus
  BY <1>3 DEF GetStatus
<1>4. CASE ReaderStep
  <2>1. CASE ReaderCheck \/ ReaderPush \/ ReaderPost \/ ReaderLookup
    BY <2>1 DEF ReaderCheck, ReaderPush, ReaderPost, ReaderLookup
  <2>2. CASE ReaderWait
    BY <2>2 DEF ReaderWait, RecordInv
  <2>3. CASE ReaderWaited
    BY <2>3 DEF ReaderWaited
  <2>4. CASE ReaderRecord
    BY <1>0, <2>4 DEF ReaderRecord
  <2>5. CASE ReaderMark
    BY <2>5 DEF ReaderMark
  <2>6. CASE ReaderExited
    BY <2>6 DEF ReaderExited
  <2>7. CASE ReaderEnd
    BY <2>7 DEF ReaderEnd
  <2> QED
    BY <1>4, <2>1, <2>2, <2>3, <2>4, <2>5, <2>6, <2>7 DEF ReaderStep
<1>5. CASE ReaderIO
  <2>1. CASE ReaderRead
    <3>1. PICK k \in 1..Lesser(cap, Len(ptyOut)) : chunk' = SubSeq(ptyOut, 1, k)
      BY <2>1 DEF ReaderRead
    <3>2. cap \in Nat /\ ptyOut \in Seq(Nat) /\ Len(ptyOut) \in Nat
      BY DEF TypeOK, ReaderType, PtyType
    <3>3. k \in 1..Len(ptyOut)
      BY <3>1, <3>2 DEF Lesser
    <3>4. Len(chunk') = k
      BY <3>1, <3>2, <3>3
    <3>5. chunk' # <<>>
      BY <3>3, <3>4
    <3> QED
      BY <2>1, <3>5 DEF ReaderRead
  <2>2. CASE ReaderPollReady \/ ReaderAgain \/ ReaderError \/ ReaderHangup
    BY <2>2 DEF ReaderPollReady, ReaderAgain, ReaderError, ReaderHangup
  <2> QED
    BY <1>5, <2>1, <2>2 DEF ReaderIO
<1>6. CASE Environment
  BY <1>6 DEF Environment, ReapedElsewhere, ChildWrites, ChildReads, SlaveCloses, ChildDies
<1>7. CASE UNCHANGED vars
  BY <1>7 DEF vars
<1> QED
  BY <1>1, <1>2, <1>3, <1>4, <1>5, <1>6, <1>7 DEF Next

LEMMA PhaseInvInductive == Spec => []PhaseInv
<1>1. Init => PhaseInv
  BY DEF Init, PhaseInv, Active, Waits
<1>2. TypeOK /\ StopIInv /\ PhaseInv /\ [Next]_vars => PhaseInv'
  BY PhaseInvStep DEF StopIInv
<1> QED
  BY <1>1, <1>2, TypeCorrect, StopIInvInductive, PTL DEF Spec

ContractIInv == TypeOK /\ QueueInv /\ StopIInv /\ StreamInv /\ PhaseInv

\* The exit status as the contract has it.
SeenExit == IF exit.valid THEN exit ELSE [valid |-> FALSE]
seenVars == <<state, SeenExit, output, consumed>>

\* Only these steps change what the owner sees.
LEMMA SeenWriters ==
    ASSUME TypeOK, [Next]_vars
    PROVE  \/ UNCHANGED seenVars
           \/ StopReap \/ StopEnd \/ Forks \/ Takes \/ DiscardOutput
           \/ ReaderPush \/ ReaderRecord \/ ReaderExited
<1> USE DEF seenVars, SeenExit, queueVars, statusVars, historyVars
<1>1. CASE OwnerStep
  BY <1>1 DEF OwnerStep, StopLookup, StopHangup, StopJoin, StopClose, StopTimeout,
     StopEscalate, Forks, TakeSettle, WriteSome, WriteFails
<1>2. CASE OwnerCall
  BY <1>2 DEF OwnerCall, StopCall, Takes, WriteCall, Resize
<1>3. CASE GetStatus
  BY <1>3 DEF GetStatus
<1>4. CASE ReaderStep
  BY <1>4 DEF ReaderStep, ReaderCheck, ReaderPost, ReaderLookup, ReaderWait,
     ReaderWaited, ReaderMark, ReaderEnd
<1>5. CASE ReaderIO
  BY <1>5 DEF ReaderIO, ReaderPollReady, ReaderAgain, ReaderError, ReaderRead, ReaderHangup
<1>6. CASE Environment
  BY <1>6 DEF Environment, ReapedElsewhere, ChildWrites, ChildReads, SlaveCloses, ChildDies
<1>7. CASE UNCHANGED vars
  BY <1>7 DEF vars
<1> QED
  BY <1>1, <1>2, <1>3, <1>4, <1>5, <1>6, <1>7 DEF Next

\* Every step of the transport is one of the contract's, or changes nothing the
\* owner sees.
LEMMA ContractStep ==
    ASSUME ContractIInv, [Next]_vars
    PROVE  [Contract!Next]_seenVars
<1> USE DEF ContractIInv, SeenExit, seenVars
<1>0. /\ output \in Seq(Nat) /\ chunk \in Seq(Nat) /\ Len(output) \in Nat
      /\ Len(chunk) \in Nat /\ consumed \in Nat /\ emitted \in Nat
      /\ taken \in Nat /\ queued \in Nat
      /\ exit \in [code : Codes, signal : Signals \cup {0}, valid : BOOLEAN]
  BY DEF TypeOK, QueueType, ReaderType, HistoryType, OwnerType, StatusType
<1>1. CASE UNCHANGED seenVars
  BY <1>1
<1>2. CASE StopReap
  <2>0. UNCHANGED <<state, output, consumed>>
    BY <1>2 DEF StopReap, queueVars, historyVars
  <2>1. CASE child = "lost"
    BY <1>2, <2>0, <2>1 DEF StopReap
  <2>2. CASE child = "zombie"
    <3>1. ~exit.valid /\ exit' = Recorded(status)
      BY <1>2, <2>2 DEF StopReap, StopIInv, RecordInv
    <3>2. state \in {"Running", "Exited"}
      BY <1>2 DEF StopReap, PhaseInv, Waits
    <3>3. status.code \in Codes /\ status.signal \in Signals \cup {0}
      BY DEF TypeOK, ChildType, Statuses, NoStatus, Codes, Signals, SIGHUP, SIGTERM, SIGKILL
    <3>4. Contract!StatusKnown
      BY <2>0, <3>1, <3>2, <3>3
      DEF Recorded, Contract!StatusKnown, Contract!Known, Contract!Unknown
    <3> QED
      BY <3>4 DEF Contract!Next
  <2> QED
    BY <1>2, <2>1, <2>2 DEF StopReap
<1>3. CASE StopEnd
  <2>1. UNCHANGED <<exit, output, consumed>> /\ state' = FinalState(state)
    BY <1>3 DEF StopEnd, queueVars, historyVars
  <2>2. CASE state = "Running"
    BY <2>1, <2>2 DEF FinalState, Contract!Stop, Contract!Next
  <2>3. CASE state # "Running"
    BY <2>1, <2>3 DEF FinalState, PhaseInv
  <2> QED
    BY <2>2, <2>3
<1>4. CASE Forks
  <2>1. state # "Running"
    BY <1>4 DEF Forks, ForkSucceeds, ForkFails, Owner, StopIInv, StopInv, StopFlag,
       StoppedQuiet, Quiet, StopPcs
  <2>2. Contract!FreshSession
    <3>1. output' = <<>> /\ consumed' = emitted /\ exit' = NoExit
      BY <1>4 DEF Forks, ForkSucceeds, ForkFails, ForgetOutput, QueueEmptied
    <3>2. consumed' >= consumed + Len(output)
      <4>1. Len(ptyOut) \in Nat
        BY DEF TypeOK, PtyType
      <4> QED
        BY <1>0, <3>1, <4>1 DEF StreamInv
    <3> QED
      BY <3>1, <3>2 DEF NoExit, Contract!FreshSession, Contract!Unknown
  <2>3. state' \in {"Running", "Failed"}
    BY <1>4 DEF Forks, ForkSucceeds, ForkFails
  <2> QED
    BY <2>1, <2>2, <2>3 DEF Contract!Start, Contract!StartFails, Contract!Next
<1>5. CASE Takes
  <2>1. PICK m \in TakeSizes : TakeOutput(m)
    BY <1>5 DEF Takes
  <2> DEFINE k == Lesser(m, Len(output))
  <2>2. k \in 0..Len(output)
    BY <1>0, PtyConstants DEF Lesser
  <2>3. output' = SubSeq(output, k + 1, Len(output)) /\ consumed' = consumed + k
    BY <2>1 DEF TakeOutput, Drop
  <2>4. UNCHANGED <<state, exit>>
    BY <2>1 DEF TakeOutput, statusVars
  <2>5. Len(output) <= MaxQueued
    BY <1>0, PtyConstants DEF QueueInv, QueueAccounting, QueueBounded
  <2> HIDE DEF k
  <2>6. CASE k = 0
    <3>1. SubSeq(output, 1, Len(output)) = output
      BY <1>0
    <3> QED
      BY <1>0, <2>3, <2>4, <2>6, <3>1
  <2>7. CASE k # 0
    <3>1. k \in 1..MaxQueued
      BY <1>0, <2>2, <2>5, <2>7, PtyConstants
    <3>2. Contract!TakeOutput(k)
      BY <2>2, <2>3, <2>4 DEF Contract!TakeOutput
    <3> QED
      BY <3>1, <3>2 DEF Contract!Next
  <2> QED
    BY <2>6, <2>7
<1>6. CASE DiscardOutput
  <2>1. output' = <<>> /\ consumed' = consumed + Len(output) /\ UNCHANGED <<state, exit>>
    BY <1>6 DEF DiscardOutput, QueueEmptied, statusVars
  <2>2. Len(output) <= MaxQueued
    BY <1>0, PtyConstants DEF QueueInv, QueueAccounting, QueueBounded
  <2>3. CASE output = <<>>
    BY <1>0, <2>1, <2>3
  <2>4. CASE output # <<>>
    <3>1. Len(output) \in 1..MaxQueued
      BY <1>0, <2>2, <2>4, PtyConstants
    <3>2. SubSeq(output, Len(output) + 1, Len(output)) = <<>>
      BY <1>0
    <3>3. Contract!TakeOutput(Len(output))
      BY <1>0, <2>1, <3>2 DEF Contract!TakeOutput
    <3> QED
      BY <3>1, <3>3 DEF Contract!Next
  <2> QED
    BY <2>3, <2>4
<1>7. CASE ReaderPush
  <2> DEFINE k == Len(chunk)
             room == MaxQueued - Len(output)
  <2>1. output' = output \o chunk /\ UNCHANGED <<state, exit, consumed>>
    BY <1>7 DEF ReaderPush, statusVars, historyVars
  <2>2. state = "Running" /\ chunk # <<>>
    BY <1>7 DEF ReaderPush, Reader, PhaseInv, Active, ReaderPcs
  <2>3. k \in 1..room
    <3>1. queued + k <= MaxQueued /\ queued = Len(output) + taken
      BY <1>7 DEF ReaderPush, Reader, QueueInv, QueueAccounting
    <3>2. k # 0
      BY <1>0, <2>2
    <3> QED
      BY <1>0, <3>1, <3>2, PtyConstants
  <2>4. chunk = [i \in 1..k |-> consumed + Len(output) + i]
    <3>1. chunk = [i \in 1..k |-> chunk[i]]
      BY <1>0
    <3>2. \A i \in 1..k : chunk[i] = consumed + Len(output) + i
      BY DEF StreamInv, Continues
    <3> QED
      BY <3>1, <3>2
  <2>5. Contract!Receive
    BY <2>1, <2>2, <2>3, <2>4 DEF Contract!Receive, Contract!Room
  <2> QED
    BY <2>5 DEF Contract!Next
<1>8. CASE ReaderRecord
  <2>1. UNCHANGED <<state, output, consumed>>
    BY <1>8 DEF ReaderRecord, queueVars, historyVars
  <2>2. ~exit.valid /\ state = "Running"
    BY <1>8 DEF ReaderRecord, Reader, PhaseInv, Active, ReaderPcs
  <2>3. CASE ~exit'.valid
    BY <2>1, <2>2, <2>3
  <2>4. CASE exit'.valid
    <3>1. exit' = [exit EXCEPT !.valid = TRUE]
      BY <1>0, <1>8, <2>2, <2>4 DEF ReaderRecord
    <3>2. exit' \in Contract!Known
      BY <1>0, <3>1 DEF Contract!Known
    <3>3. Contract!StatusKnown
      BY <2>1, <2>2, <2>4, <3>2 DEF Contract!StatusKnown, Contract!Unknown
    <3> QED
      BY <3>3 DEF Contract!Next
  <2> QED
    BY <2>3, <2>4
<1>9. CASE ReaderExited
  <2>1. state = "Running" /\ state' = "Exited" /\ UNCHANGED <<exit, output, consumed>>
    BY <1>9 DEF ReaderExited, Reader, PhaseInv, Active, ReaderPcs, queueVars, historyVars
  <2> QED
    BY <2>1 DEF Contract!ProcessExits, Contract!Next
<1> QED
  BY <1>1, <1>2, <1>3, <1>4, <1>5, <1>6, <1>7, <1>8, <1>9, SeenWriters

\* For every queue, buffer and child the POSIX transport keeps the contract of
\* TerminalTransport: what its threads do between two calls, the owner cannot tell
\* from a process whose bytes arrive in order, that ends, and whose status becomes
\* known once.
THEOREM ContractIsKept == Spec => KeepsContract
<1>1. Init => Contract!Init
  BY DEF Init, NoExit, Contract!Init, Contract!Unknown
<1>2. ContractIInv /\ [Next]_vars => [Contract!Next]_(Contract!transportVars)
  BY ContractStep DEF seenVars, SeenExit, Contract!transportVars
<1>3. Spec => []QueueIInv
  BY QueueIInvInductive
<1>4. TypeOK /\ QueueIInv /\ StopIInv /\ StreamInv /\ PhaseInv => ContractIInv
  BY DEF QueueIInv, ContractIInv
<1> QED
  BY <1>1, <1>2, <1>3, <1>4, TypeCorrect, StopIInvInductive, StreamInvInductive,
     PhaseInvInductive, PTL DEF Spec, KeepsContract, Contract!Spec
=============================================================================
