---------------------------- MODULE DrawingProofs ----------------------------
(***************************************************************************)
(* Proofs about PackedGrid and CursorStyle, for every screen size, number   *)
(* of frames held and output: what the host reads of a frame it holds never *)
(* changes; a frame's rows are well formed and show the screen; its spans   *)
(* are all there is to repaint; and the cursor's style follows the DECSCUSR *)
(* sequences of the output.                                                 *)
(***************************************************************************)
EXTENDS PackedGrid, CursorStyle, RowProofs, TLAPS

-----------------------------------------------------------------------------
(* Frames are snapshots                                                     *)

\* Every pointer to a grid is null or points to one.
PointersValid ==
    /\ DOMAIN heap = GridIds
    /\ cache \in GridIds \cup {NoGrid}
    /\ \A h \in DOMAIN held : held[h].grid \in GridIds

\* A new frame's grid exists, and no frame refers to it yet.
LEMMA FreshGrid ==
    ASSUME PointersValid, NEW id \in GridsToFill
    PROVE  id \in GridIds /\ \A h \in DOMAIN held : held[h].grid # id
<1>1. CASE cache = NoGrid \/ \E h \in DOMAIN held : held[h].grid = cache
    <2>1. id \in GridIds \ InUse
        BY <1>1 DEF GridsToFill
    <2> QED  BY <2>1 DEF InUse
<1>2. CASE cache # NoGrid /\ \A h \in DOMAIN held : held[h].grid # cache
    <2>1. id = cache
        BY <1>2 DEF GridsToFill
    <2> QED  BY <1>2, <2>1 DEF PointersValid
<1> QED  BY <1>1, <1>2

\* What a taken frame leaves of the others.
LEMMA TakeFrameKeeps ==
    ASSUME PointersValid, NEW h0 \in Handles, TakeFrame(h0)
    PROVE  /\ PointersValid'
           /\ \A h \in DOMAIN held : /\ h \in DOMAIN held' /\ held'[h] = held[h]
                                     /\ heap'[held[h].grid] = heap[held[h].grid]
<1> DEFINE made == PackedFrame(IF cache = NoGrid THEN EmptyGrid ELSE heap[cache])
<1>1. PICK id \in GridsToFill :
          /\ heap' = [heap EXCEPT ![id] = made.grid]
          /\ cache' = id
          /\ held' = [k \in DOMAIN held \cup {h0} |->
                         IF k = h0 THEN [grid |-> id, info |-> made.frame] ELSE held[k]]
    BY DEF TakeFrame
<1>2. h0 \notin DOMAIN held
    BY DEF TakeFrame
<1> HIDE DEF made
<1>3. id \in GridIds /\ \A h \in DOMAIN held : held[h].grid # id
    BY FreshGrid
<1>4. DOMAIN heap' = GridIds
    BY <1>1 DEF PointersValid
<1>5. ASSUME NEW h \in DOMAIN held'
      PROVE  held'[h].grid \in GridIds
    BY <1>1, <1>3 DEF PointersValid
<1>6. ASSUME NEW h \in DOMAIN held
      PROVE  /\ h \in DOMAIN held' /\ held'[h] = held[h]
             /\ heap'[held[h].grid] = heap[held[h].grid]
    <2>1. h # h0 /\ held[h].grid # id /\ held[h].grid \in DOMAIN heap
        BY <1>2, <1>3 DEF PointersValid
    <2> QED  BY <1>1, <2>1
<1> QED  BY <1>1, <1>3, <1>4, <1>5, <1>6 DEF PointersValid

\* The steps that leave the grids alone, and at most forget a frame.
LEMMA OthersKeep ==
    ASSUME PointersValid, [GridNext]_gridVars, ~\E h \in Handles : TakeFrame(h)
    PROVE  /\ UNCHANGED <<heap, cache>>
           /\ \A h \in DOMAIN held' : h \in DOMAIN held /\ held'[h] = held[h]
<1>1. CASE UNCHANGED gridVars
    BY <1>1 DEF gridVars, coreVars
<1>2. CASE Working
    BY <1>2 DEF Working
<1>3. ASSUME NEW h \in Handles, FreeFrame(h)
      PROVE  UNCHANGED <<heap, cache>>
             /\ \A k \in DOMAIN held' : k \in DOMAIN held /\ held'[k] = held[k]
    BY <1>3 DEF FreeFrame, coreVars
<1>4. GridNext => Working \/ \E h \in Handles : TakeFrame(h) \/ FreeFrame(h)
    BY DEF GridNext, Write, SetLook, Scroll, AgeWraps, Resize
<1> QED  BY <1>1, <1>2, <1>3, <1>4

LEMMA PointersStep ==
    ASSUME PointersValid, [GridNext]_gridVars
    PROVE  PointersValid'
<1>1. CASE \E h \in Handles : TakeFrame(h)
    BY <1>1, TakeFrameKeeps
<1>2. CASE ~\E h \in Handles : TakeFrame(h)
    BY <1>2, OthersKeep DEF PointersValid
<1> QED  BY <1>1, <1>2

LEMMA PointersInit == ASSUME GridInit PROVE PointersValid
    BY DEF GridInit, PointersValid

\* sakura_terminal_take_frame and sakura_terminal_frame_cell: whatever the
\* core and the host do, the cells of a frame that is held stay what they are,
\* although no frame has cells of its own.
THEOREM FramesAreFrozen == GridSpec => HeldFramesFrozen
<1>1. ASSUME PointersValid, GridNext,
             NEW h \in DOMAIN held \cap DOMAIN held'
      PROVE  FrameCells(held'[h], heap') = FrameCells(held[h], heap)
    <2>1. held'[h] = held[h] /\ heap'[held[h].grid] = heap[held[h].grid]
        <3>1. CASE \E k \in Handles : TakeFrame(k)
            BY <1>1, <3>1, TakeFrameKeeps
        <3>2. CASE ~\E k \in Handles : TakeFrame(k)
            BY <1>1, <3>2, OthersKeep
        <3> QED  BY <3>1, <3>2
    <2> DEFINE frame == held[h]
    <2>2. \A p : FrameCell(frame, heap', p) = FrameCell(frame, heap, p)
        BY <2>1 DEF FrameCell
    <2>3. FrameCells(frame, heap') = FrameCells(frame, heap)
        BY <2>2 DEF FrameCells
    <2> QED  BY <2>1, <2>3
<1>2. PointersValid /\ [GridNext]_gridVars =>
          [\A h \in DOMAIN held \cap DOMAIN held' :
               FrameCells(held'[h], heap') = FrameCells(held[h], heap)]_<<heap, held>>
    BY <1>1 DEF gridVars, coreVars
<1>3. PointersValid /\ [GridNext]_gridVars => PointersValid'
    BY PointersStep
<1>4. GridInit => PointersValid
    BY PointersInit
<1> QED  BY <1>2, <1>3, <1>4, PTL DEF GridSpec, HeldFramesFrozen

-----------------------------------------------------------------------------
(* The cursor's style                                                       *)

\* What a DECSCUSR begins with: ESC [ and parameter bytes, and then SP.
Opened(s) ==
    /\ Len(s) >= 2
    /\ s[1] = ESC /\ s[2] = LeftBracket
CsiPrefix(s) ==
    Opened(s) /\ \A i \in 3 .. Len(s) : s[i] \in ParameterBytes
IntermediatePrefix(s) ==
    /\ Opened(s) /\ Len(s) >= 3 /\ s[Len(s)] = SP
    /\ \A i \in 3 .. Len(s) - 1 : s[i] \in ParameterBytes

\* The parameters collected are the bytes from the third to the one at <<last>>
\* unless these are too many.
Collected(last) ==
    last - 2 <= ParameterLimit =>
        /\ Len(cursor_sequence_parameters) = last - 2
        /\ \A i \in 1 .. last - 2 : cursor_sequence_parameters[i] = sequence[i + 2]

\* The automaton's state tells which beginning of a DECSCUSR the bytes are.
Tracked ==
    /\ sequence \in Seq(Bytes)
    /\ cursor_sequence_parameters \in Seq(ParameterBytes)
    /\ Len(cursor_sequence_parameters) <= ParameterLimit
    /\ cursor_sequence_state \in SequenceStates
    /\ cursor_sequence_state = "Escape" <=> sequence = <<ESC>>
    /\ cursor_sequence_state = "Csi" <=> CsiPrefix(sequence)
    /\ cursor_sequence_state = "CsiIntermediate" <=> IntermediatePrefix(sequence)
    /\ cursor_sequence_state = "Csi" => Collected(Len(sequence))
    /\ cursor_sequence_state = "CsiIntermediate" => Collected(Len(sequence) - 1)

USE DEF ESC, SP, LowercaseQ, LeftBracket

LEMMA Parameters == \A b \in ParameterBytes : b \in Nat /\ b >= 48 /\ b <= 59
    BY DEF ParameterBytes, Digits, Semicolon

\* A byte after others.
LEMMA OneMore ==
    ASSUME NEW s \in Seq(Bytes), NEW b \in Bytes
    PROVE  /\ Append(s, b) \in Seq(Bytes)
           /\ Len(Append(s, b)) = Len(s) + 1
           /\ \A i \in 1 .. Len(s) : Append(s, b)[i] = s[i]
           /\ Append(s, b)[Len(s) + 1] = b
    BY AppendProperties

\* What a byte other than ESC does to a beginning of a DECSCUSR.
LEMMA PrefixGrows ==
    ASSUME NEW s \in Seq(Bytes), NEW b \in Bytes, s # <<>>, b # ESC
    PROVE  LET t == Append(s, b)
           IN /\ t # <<ESC>>
              /\ CsiPrefix(t) <=> \/ s = <<ESC>> /\ b = LeftBracket
                                  \/ CsiPrefix(s) /\ b \in ParameterBytes
              /\ IntermediatePrefix(t) <=> CsiPrefix(s) /\ b = SP
              /\ IsDecscusr(t) <=> IntermediatePrefix(s) /\ b = LowercaseQ
<1> DEFINE t == Append(s, b)
<1>0. Len(s) \in Nat /\ Len(s) # 0
    BY EmptySeq, LenProperties
<1>1. /\ Len(t) = Len(s) + 1 /\ t[Len(s) + 1] = b /\ Len(s) \in Nat \ {0}
      /\ \A i \in 1 .. Len(s) : t[i] = s[i]
    BY <1>0, OneMore
<1> HIDE DEF t
<1>2. s = <<ESC>> <=> Len(s) = 1 /\ s[1] = ESC
    <2>1. ASSUME Len(s) = 1, s[1] = ESC
          PROVE  s = <<ESC>>
        <3> DEFINE one == <<ESC>>
        <3>1. one \in Seq(Bytes \cup {ESC}) /\ Len(one) = 1 /\ one[1] = ESC
            OBVIOUS
        <3>2. s \in Seq(Bytes \cup {ESC})
            BY SeqMonotonic
        <3>3. \A i \in 1 .. 1 : i = 1
            OBVIOUS
        <3>4. Len(s) = Len(one) /\ \A i \in 1 .. Len(s) : s[i] = one[i]
            BY <2>1, <3>1, <3>3
        <3> HIDE DEF one
        <3>5. s = one
            BY <3>1, <3>2, <3>4, SeqEqual
        <3> QED  BY <3>5 DEF one
    <2> QED  BY <2>1
<1>3. t # <<ESC>>
    BY <1>1
<1>4. CsiPrefix(t) <=> \/ s = <<ESC>> /\ b = LeftBracket
                       \/ CsiPrefix(s) /\ b \in ParameterBytes
    <2>1. CASE Len(s) = 1
        BY <1>1, <1>2, <2>1 DEF CsiPrefix, Opened
    <2>2. CASE Len(s) >= 2
        BY <1>1, <1>2, <2>2 DEF CsiPrefix, Opened
    <2>3. \A n \in Nat : n # 0 => n = 1 \/ n >= 2
        OBVIOUS
    <2>4. Len(s) = 1 \/ Len(s) >= 2
        BY <1>0, <2>3
    <2> QED  BY <2>1, <2>2, <2>4
<1>5. IntermediatePrefix(t) <=> CsiPrefix(s) /\ b = SP
    <2> HIDE DEF ESC, SP, LowercaseQ, LeftBracket
    <2>1. Len(t) - 1 = Len(s) /\ t[Len(t)] = b
        BY <1>1
    <2>2. IntermediatePrefix(t) <=> Len(t) >= 3 /\ Opened(t) /\ b = SP
                                    /\ \A i \in 3 .. Len(s) : t[i] \in ParameterBytes
        BY <2>1 DEF IntermediatePrefix
    <2>3. \A i \in 3 .. Len(s) : t[i] = s[i]
        BY <1>1
    <2>4. Len(t) >= 3 <=> Len(s) >= 2
        BY <1>1
    <2>5. Len(s) >= 2 => (Opened(t) <=> Opened(s))
        BY <1>1 DEF Opened
    <2>6. Opened(s) => Len(s) >= 2
        BY DEF Opened
    <2>7. (\A i \in 3 .. Len(s) : t[i] \in ParameterBytes)
            <=> (\A i \in 3 .. Len(s) : s[i] \in ParameterBytes)
        BY <2>3, Zenon
    <2>8. IntermediatePrefix(t) <=> Len(s) >= 2 /\ Opened(s) /\ b = SP
                                    /\ \A i \in 3 .. Len(s) : s[i] \in ParameterBytes
        BY <2>2, <2>4, <2>5, <2>7, Zenon
    <2> QED  BY <2>6, <2>8, Zenon DEF CsiPrefix
<1>6. IsDecscusr(t) <=> IntermediatePrefix(s) /\ b = LowercaseQ
    <2> HIDE DEF ESC, SP, LowercaseQ, LeftBracket
    <2>1. Len(t) - 1 = Len(s) /\ Len(t) - 2 = Len(s) - 1 /\ t[Len(t)] = b
        BY <1>1
    <2>2. Len(t) >= 4 <=> Len(s) >= 3
        BY <1>1
    <2>3. Len(s) >= 3 => t[1] = s[1] /\ t[2] = s[2] /\ t[Len(s)] = s[Len(s)]
        BY <1>1
    <2>4. \A i \in 3 .. Len(s) - 1 : t[i] = s[i]
        BY <1>1
    <2>5. (\A i \in 3 .. Len(s) - 1 : t[i] \in ParameterBytes)
            <=> (\A i \in 3 .. Len(s) - 1 : s[i] \in ParameterBytes)
        BY <2>4, Zenon
    <2>6. IsDecscusr(t) <=> /\ Len(s) >= 3 /\ t[1] = ESC /\ t[2] = LeftBracket
                            /\ \A i \in 3 .. Len(s) - 1 : t[i] \in ParameterBytes
                            /\ t[Len(s)] = SP /\ b = LowercaseQ
        BY <2>1, <2>2, Zenon DEF IsDecscusr
    <2>7. IsDecscusr(t) <=> /\ Len(s) >= 3 /\ s[1] = ESC /\ s[2] = LeftBracket
                            /\ \A i \in 3 .. Len(s) - 1 : s[i] \in ParameterBytes
                            /\ s[Len(s)] = SP /\ b = LowercaseQ
        BY <2>3, <2>5, <2>6, Zenon
    <2>8. Opened(s) /\ Len(s) >= 3 <=> Len(s) >= 3 /\ s[1] = ESC /\ s[2] = LeftBracket
        BY DEF Opened
    <2> QED  BY <2>7, <2>8, Zenon DEF IntermediatePrefix
<1> QED  BY <1>3, <1>4, <1>5, <1>6 DEF t

\* The beginnings exclude each other.
LEMMA OneBeginning ==
    ASSUME NEW s \in Seq(Bytes)
    PROVE  /\ ~(CsiPrefix(s) /\ IntermediatePrefix(s))
           /\ s = <<ESC>> => ~CsiPrefix(s) /\ ~IntermediatePrefix(s) /\ ~IsDecscusr(s)
           /\ s = <<>> => ~CsiPrefix(s) /\ ~IntermediatePrefix(s) /\ ~IsDecscusr(s)
    BY Parameters DEF CsiPrefix, IntermediatePrefix, Opened, IsDecscusr

\* Where the automaton goes.  An ESC starts a sequence anew.
LEMMA TransitionAtEscape ==
    ASSUME Tracked, TrackCursorStyle(ESC)
    PROVE  /\ cursor_sequence_state' = "Escape"
           /\ UNCHANGED <<cursor_sequence_parameters, cursor_style>>
<1>1. ESC \notin ParameterBytes
    BY Parameters
<1> QED  BY <1>1 DEF TrackCursorStyle, InGround, InEscape, InCsi, InCsiIntermediate, Restart

\* Outside a sequence nothing but an ESC counts.
LEMMA TransitionInGround ==
    ASSUME NEW b \in Bytes, b # ESC, TrackCursorStyle(b), cursor_sequence_state = "Ground"
    PROVE  /\ cursor_sequence_state' = "Ground"
           /\ UNCHANGED <<cursor_sequence_parameters, cursor_style>>
    BY DEF TrackCursorStyle, InGround, InEscape, InCsi, InCsiIntermediate, Restart

\* The history is one byte longer, unless it is empty and stays so.
LEMMA HistoryGrows ==
    ASSUME NEW b \in Bytes, b # ESC, TrackCursorStyle(b)
    PROVE  sequence' = IF sequence = <<>> THEN <<>> ELSE Append(sequence, b)
    BY DEF TrackCursorStyle, Observe

LEMMA TrackedInit == ASSUME CursorInit PROVE Tracked
<1>1. sequence = <<>> /\ sequence \in Seq(Bytes) /\ sequence # <<ESC>>
    BY DEF CursorInit
<1>2. cursor_sequence_parameters \in Seq(ParameterBytes)
      /\ Len(cursor_sequence_parameters) <= ParameterLimit
    BY LimitAssumption DEF CursorInit
<1> QED  BY <1>1, <1>2, OneBeginning DEF CursorInit, Tracked, SequenceStates

LEMMA TrackedAtEscape ==
    ASSUME Tracked, ESC \in Bytes, TrackCursorStyle(ESC)
    PROVE  Tracked' /\ ~IsDecscusr(sequence') /\ cursor_style' = cursor_style
<1>1. sequence' = <<ESC>> /\ sequence' \in Seq(Bytes)
    BY DEF TrackCursorStyle, Observe
<1>2. ~CsiPrefix(sequence') /\ ~IntermediatePrefix(sequence') /\ ~IsDecscusr(sequence')
    BY <1>1, OneBeginning
<1> QED  BY <1>1, <1>2, TransitionAtEscape DEF Tracked, SequenceStates

\* A piece of a sequence whose elements are parameter bytes.
LEMMA Middle ==
    ASSUME NEW t \in Seq(Bytes), NEW m \in 1 .. Len(t), NEW n \in m - 1 .. Len(t),
           \A i \in m .. n : t[i] \in ParameterBytes
    PROVE  /\ SubSeq(t, m, n) \in Seq(ParameterBytes) /\ Len(SubSeq(t, m, n)) = n + 1 - m
           /\ \A i \in 1 .. n + 1 - m : SubSeq(t, m, n)[i] = t[i + m - 1]
    OBVIOUS

\* The parameters collected of a DECSCUSR that is complete are its own.
LEMMA OwnParameters ==
    ASSUME Tracked, cursor_sequence_state = "CsiIntermediate",
           NEW t \in Seq(Bytes), t = Append(sequence, LowercaseQ),
           Len(ParametersOf(t)) <= ParameterLimit, LowercaseQ \in Bytes
    PROVE  cursor_sequence_parameters = ParametersOf(t)
<1> DEFINE last == Len(sequence) - 1
           own == ParametersOf(t)
<1>1. /\ sequence \in Seq(Bytes) /\ Len(sequence) \in Nat /\ Len(sequence) >= 3
      /\ \A i \in 3 .. last : sequence[i] \in ParameterBytes
      /\ Collected(last)
    BY DEF Tracked, IntermediatePrefix
<1>2. Len(t) = Len(sequence) + 1 /\ \A i \in 1 .. Len(sequence) : t[i] = sequence[i]
    BY <1>1, OneMore
<1>3. last \in Nat /\ last >= 2 /\ own = SubSeq(t, 3, last)
    BY <1>1, <1>2 DEF ParametersOf
<1>4. \A i \in 3 .. last : t[i] \in ParameterBytes
    BY <1>1, <1>2
<1>5. /\ own \in Seq(ParameterBytes) /\ Len(own) = last - 2
      /\ \A i \in 1 .. last - 2 : own[i] = t[i + 2]
    <2>1. last <= Len(t) /\ 3 <= Len(t)
        BY <1>1, <1>2
    <2> DEFINE first == 3
    <2> HIDE DEF first
    <2>2. first \in 1 .. Len(t) /\ last \in first - 1 .. Len(t)
          /\ \A i \in first .. last : t[i] \in ParameterBytes
        BY <1>3, <1>4, <2>1 DEF first
    <2> HIDE DEF last
    <2>3. /\ SubSeq(t, first, last) \in Seq(ParameterBytes)
          /\ Len(SubSeq(t, first, last)) = last + 1 - first
          /\ \A i \in 1 .. last + 1 - first : SubSeq(t, first, last)[i] = t[i + first - 1]
        BY <2>2, Middle
    <2>4. own = SubSeq(t, first, last)
        BY <1>3 DEF first
    <2>5. last + 1 - first = last - 2 /\ \A i \in 1 .. last - 2 : i + first - 1 = i + 2
        BY <1>3 DEF first
    <2> QED  BY <2>3, <2>4, <2>5, ZenonT(30)
<1>6. last - 2 <= ParameterLimit
    BY <1>5
<1> HIDE DEF last, own
<1>7. /\ Len(cursor_sequence_parameters) = last - 2
      /\ \A i \in 1 .. last - 2 : cursor_sequence_parameters[i] = sequence[i + 2]
    BY <1>1, <1>6 DEF Collected
<1>8. \A i \in 1 .. last - 2 : i + 2 \in 1 .. Len(sequence)
    BY <1>1, <1>3 DEF last
<1>9. \A i \in 1 .. last - 2 : cursor_sequence_parameters[i] = own[i]
    BY <1>2, <1>5, <1>7, <1>8
<1>10. cursor_sequence_parameters \in Seq(ParameterBytes)
    BY DEF Tracked
<1> QED  BY <1>5, <1>7, <1>9, <1>10, SeqEqual DEF own

\* A byte that goes on with a sequence.
LEMMA TrackedStep ==
    ASSUME Tracked, NEW b \in Bytes, b # ESC, TrackCursorStyle(b)
    PROVE  Tracked'
<1>1. CASE sequence = <<>>
    <2>1. cursor_sequence_state = "Ground"
        BY <1>1, OneBeginning DEF Tracked, SequenceStates
    <2>2. sequence' = <<>>
        BY <1>1, HistoryGrows
    <2> QED
        BY <1>1, <2>1, <2>2, TransitionInGround, OneBeginning DEF Tracked, SequenceStates
<1>2. CASE sequence # <<>>
    <2>1. /\ sequence \in Seq(Bytes) /\ sequence' = Append(sequence, b)
          /\ sequence' \in Seq(Bytes) /\ Len(sequence) \in Nat
          /\ Len(sequence') = Len(sequence) + 1 /\ sequence'[Len(sequence) + 1] = b
          /\ \A i \in 1 .. Len(sequence) : sequence'[i] = sequence[i]
        BY <1>2, HistoryGrows, OneMore, SMTT(20) DEF Tracked
    <2>2. /\ sequence' # <<ESC>>
          /\ CsiPrefix(sequence') <=> \/ sequence = <<ESC>> /\ b = LeftBracket
                                      \/ CsiPrefix(sequence) /\ b \in ParameterBytes
          /\ IntermediatePrefix(sequence') <=> CsiPrefix(sequence) /\ b = SP
        BY <1>2, <2>1, PrefixGrows
    <2>3. SP \notin ParameterBytes /\ LeftBracket \notin ParameterBytes
        BY Parameters
    <2>4. CASE cursor_sequence_state = "Ground"
        BY <2>1, <2>2, <2>4, TransitionInGround DEF Tracked, SequenceStates
    <2>5. CASE cursor_sequence_state = "Escape"
        <3>1. sequence = <<ESC>> /\ Len(sequence) = 1
            BY <2>5 DEF Tracked
        <3>2. ~CsiPrefix(sequence) /\ ~IntermediatePrefix(sequence)
            BY <2>1, <3>1, OneBeginning
        <3>3. CASE b = LeftBracket
            <4>1. cursor_sequence_state' = "Csi" /\ cursor_sequence_parameters' = <<>>
                BY <2>5, <3>3 DEF TrackCursorStyle, InGround, InEscape, InCsi, InCsiIntermediate
            <4>2. Len(sequence') = 2
                BY <2>1, <3>1
            <4>3. Collected(Len(sequence))'
                BY <4>1, <4>2 DEF Collected
            <4>4. cursor_sequence_parameters' \in Seq(ParameterBytes)
                  /\ Len(cursor_sequence_parameters') <= ParameterLimit
                BY <4>1, LimitAssumption
            <4> QED
                BY <2>1, <2>2, <3>1, <3>2, <3>3, <4>1, <4>3, <4>4 DEF Tracked, SequenceStates
        <3>4. CASE b # LeftBracket
            <4>1. /\ cursor_sequence_state' = "Ground"
                  /\ UNCHANGED cursor_sequence_parameters
                BY <2>5, <3>4 DEF TrackCursorStyle, InGround, InEscape, InCsi,
                                  InCsiIntermediate, Restart
            <4> QED  BY <2>1, <2>2, <3>2, <3>4, <4>1 DEF Tracked, SequenceStates
        <3> QED  BY <3>3, <3>4
    <2>6. CASE cursor_sequence_state = "Csi"
        <3>1. CsiPrefix(sequence) /\ Collected(Len(sequence)) /\ Len(sequence) >= 2
            BY <2>6 DEF Tracked, CsiPrefix, Opened
        <3>2. ~IntermediatePrefix(sequence) /\ sequence # <<ESC>>
            BY <2>1, <3>1, OneBeginning
        <3>3. CASE b \in ParameterBytes
            <4>1. /\ cursor_sequence_state' = "Csi"
                  /\ cursor_sequence_parameters' =
                         IF Len(cursor_sequence_parameters) < ParameterLimit
                         THEN Append(cursor_sequence_parameters, b)
                         ELSE cursor_sequence_parameters
                BY <2>6, <3>3 DEF TrackCursorStyle, InGround, InEscape, InCsi, InCsiIntermediate
            <4> DEFINE old == cursor_sequence_parameters
                       new == cursor_sequence_parameters'
                       n   == Len(old)
            <4>2. old \in Seq(ParameterBytes) /\ n \in Nat /\ n <= ParameterLimit
                BY DEF Tracked
            <4>3. ParameterLimit \in Nat
                BY LimitAssumption
            <4>4. Append(old, b) \in Seq(ParameterBytes) /\ Len(Append(old, b)) = n + 1
                  /\ \A i \in 1 .. n + 1 : Append(old, b)[i] = IF i <= n THEN old[i] ELSE b
                BY <3>3, <4>2, AppendProperties
            <4>5. new \in Seq(ParameterBytes) /\ Len(new) <= ParameterLimit
                BY <4>1, <4>2, <4>3, <4>4
            <4>6. Collected(Len(sequence))'
                <5>1. SUFFICES ASSUME Len(sequence) - 1 <= ParameterLimit
                               PROVE  /\ Len(new) = Len(sequence) - 1
                                      /\ \A i \in 1 .. Len(sequence) - 1 : new[i] = sequence'[i + 2]
                    <6>1. Len(sequence') - 2 = Len(sequence) - 1
                        BY <2>1
                    <6> QED  BY <6>1 DEF Collected
                <5>2. n = Len(sequence) - 2 /\ \A i \in 1 .. n : old[i] = sequence[i + 2]
                    BY <2>1, <3>1, <5>1, <4>3 DEF Collected
                <5>3. new = Append(old, b) /\ n + 1 = Len(sequence) - 1
                    BY <2>1, <4>1, <4>3, <5>1, <5>2
                <5>4. ASSUME NEW i \in 1 .. n + 1
                      PROVE  Append(old, b)[i] = sequence'[i + 2]
                    <6>1. CASE i <= n
                        <7>1. i + 2 \in 1 .. Len(sequence) /\ i \in 1 .. n
                            BY <2>1, <4>2, <5>2, <6>1
                        <7> QED  BY <2>1, <4>4, <5>2, <6>1, <7>1
                    <6>2. CASE i = n + 1
                        <7>1. i + 2 = Len(sequence) + 1 /\ ~(i <= n)
                            BY <2>1, <4>2, <5>2, <6>2
                        <7> QED  BY <2>1, <4>4, <7>1
                    <6> QED  BY <4>2, <6>1, <6>2
                <5> QED  BY <4>4, <5>3, <5>4
            <4>7. b # SP
                BY <2>3, <3>3
            <4> QED
                BY <2>1, <2>2, <3>1, <3>2, <3>3, <4>1, <4>5, <4>6, <4>7
                   DEF Tracked, SequenceStates
        <3>4. CASE b = SP
            <4>1. /\ cursor_sequence_state' = "CsiIntermediate"
                  /\ UNCHANGED cursor_sequence_parameters
                BY <2>3, <2>6, <3>4
                   DEF TrackCursorStyle, InGround, InEscape, InCsi, InCsiIntermediate
            <4>2. Collected(Len(sequence) - 1)'
                <5>1. Len(sequence') - 1 = Len(sequence)
                    BY <2>1
                <5>2. \A i \in 1 .. Len(sequence) - 2 : sequence'[i + 2] = sequence[i + 2]
                    <6>1. \A i \in 1 .. Len(sequence) - 2 : i + 2 \in 1 .. Len(sequence)
                        BY <2>1
                    <6> QED  BY <2>1, <6>1
                <5> QED  BY <3>1, <4>1, <5>1, <5>2 DEF Collected
            <4> QED
                BY <2>1, <2>2, <2>3, <3>1, <3>2, <3>4, <4>1, <4>2 DEF Tracked, SequenceStates
        <3>5. CASE b \notin ParameterBytes /\ b # SP
            <4>1. /\ cursor_sequence_state' = "Ground"
                  /\ UNCHANGED cursor_sequence_parameters
                BY <2>6, <3>5 DEF TrackCursorStyle, InGround, InEscape, InCsi,
                                  InCsiIntermediate, Restart
            <4> QED  BY <2>1, <2>2, <3>2, <3>5, <4>1 DEF Tracked, SequenceStates
        <3> QED  BY <3>3, <3>4, <3>5
    <2>7. CASE cursor_sequence_state = "CsiIntermediate"
        <3>1. ~CsiPrefix(sequence) /\ sequence # <<ESC>>
            BY <2>1, <2>7, OneBeginning DEF Tracked
        <3>2. /\ cursor_sequence_state' = "Ground"
              /\ UNCHANGED cursor_sequence_parameters
            BY <2>7 DEF TrackCursorStyle, InGround, InEscape, InCsi,
                        InCsiIntermediate, Restart
        <3> QED  BY <2>1, <2>2, <3>1, <3>2 DEF Tracked, SequenceStates
    <2> QED  BY <2>4, <2>5, <2>6, <2>7 DEF Tracked, SequenceStates
<1> QED  BY <1>1, <1>2

\* The style after a step, and the history that says why.
LEMMA StyleStep ==
    ASSUME Tracked, NEW b \in Bytes, b # ESC, TrackCursorStyle(b)
    PROVE  IF IsDecscusr(sequence')
           THEN Kept(ParametersOf(sequence')) =>
                    cursor_style' = StyleNamed(Number(ParametersOf(sequence')), cursor_style)
           ELSE cursor_style' = cursor_style
<1>1. IsDecscusr(sequence') <=> IntermediatePrefix(sequence) /\ b = LowercaseQ
    <2>1. sequence \in Seq(Bytes)
        BY DEF Tracked
    <2>2. CASE sequence = <<>>
        <3>1. sequence' = <<>>
            BY <2>2, HistoryGrows
        <3> QED  BY <2>1, <2>2, <3>1, OneBeginning, ZenonT(30)
    <2>3. CASE sequence # <<>>
        <3>1. sequence' = Append(sequence, b)
            BY <2>3, HistoryGrows
        <3> QED  BY <2>1, <2>3, <3>1, PrefixGrows
    <2> QED  BY <2>2, <2>3
<1>2. CASE cursor_sequence_state = "CsiIntermediate" /\ b = LowercaseQ
    <2>1. cursor_style' = StyleNamed(Value(cursor_sequence_parameters), cursor_style)
        BY <1>2 DEF TrackCursorStyle, InGround, InEscape, InCsi, InCsiIntermediate
    <2>2. sequence \in Seq(Bytes) /\ sequence # <<>>
        BY <1>2, OneBeginning DEF Tracked
    <2>3. sequence' = Append(sequence, LowercaseQ) /\ sequence' \in Seq(Bytes)
        BY <1>2, <2>2, HistoryGrows, OneMore
    <2>4. ASSUME Kept(ParametersOf(sequence'))
          PROVE  cursor_style' = StyleNamed(Number(ParametersOf(sequence')), cursor_style)
        <3>1. Len(ParametersOf(sequence')) <= ParameterLimit
            BY <2>4 DEF Kept
        <3>2. cursor_sequence_parameters = ParametersOf(sequence')
            BY <1>2, <2>3, <3>1, OwnParameters
        <3> QED  BY <2>1, <2>4, <3>2 DEF Kept
    <2> QED  BY <1>1, <1>2, <2>4 DEF Tracked
<1>3. CASE ~(cursor_sequence_state = "CsiIntermediate" /\ b = LowercaseQ)
    <2>1. cursor_style' = cursor_style
        BY <1>3 DEF TrackCursorStyle, InGround, InEscape, InCsi, InCsiIntermediate
    <2> QED  BY <1>1, <1>3, <2>1 DEF Tracked
<1> QED  BY <1>2, <1>3

\* TrackCursorStyle: the cursor's style changes with the last byte of a
\* DECSCUSR, to the style its number names, and with no other output, whatever
\* came before it and wherever the output was cut into chunks.
THEOREM StyleFollowsSequences == CursorSpec => CursorStyleFollowsSequences
<1> DEFINE Follows ==
        IF IsDecscusr(sequence')
        THEN Kept(ParametersOf(sequence')) =>
                 cursor_style' = StyleNamed(Number(ParametersOf(sequence')), cursor_style)
        ELSE cursor_style' = cursor_style
<1>1. ASSUME Tracked, NEW b \in Bytes, TrackCursorStyle(b)
      PROVE  Tracked' /\ Follows
    <2>1. CASE b = ESC
        BY <1>1, <2>1, TrackedAtEscape
    <2>2. CASE b # ESC
        BY <1>1, <2>2, TrackedStep, StyleStep
    <2> QED  BY <2>1, <2>2
<1>2. ASSUME Tracked, UNCHANGED cursorVars
      PROVE  Tracked'
    BY <1>2 DEF cursorVars, Tracked, Collected
<1> HIDE DEF Follows
<1>3. Tracked /\ [CursorNext]_cursorVars => Tracked' /\ [Follows]_cursorVars
    BY <1>1, <1>2 DEF CursorNext
<1>4. CursorInit => Tracked
    BY TrackedInit
<1>5. CursorSpec => [][Follows]_cursorVars
    BY <1>3, <1>4, PTL DEF CursorSpec
<1> QED  BY <1>5 DEF CursorStyleFollowsSequences, Follows

-----------------------------------------------------------------------------
(* The styles of a grid                                                     *)

Styles == [foreground : Nat, background : Nat]

StylesOK(styles) ==
    /\ styles \in Seq(Styles)
    /\ Len(styles) > 0 /\ Len(styles) <= StyleLimit
    /\ styles[1] = DefaultStyle

\* A table that has grown has the old styles where they were, and if it was full
\* it has not.
StylesGrow(old, new) ==
    /\ Len(old) <= Len(new)
    /\ \A i \in 1 .. Len(old) : new[i] = old[i]
    /\ Len(old) = StyleLimit => new = old

\* An index that stands for a style, or for the default one in a full table.
StyleShown(styles, index, style) ==
    /\ index \in 0 .. Len(styles) - 1
    /\ IF style \in Range(styles) THEN styles[index + 1] = style
       ELSE index = 0 /\ Len(styles) = StyleLimit

LEMMA InTable ==
    ASSUME NEW styles \in Seq(Styles), NEW style
    PROVE  /\ style \in Range(styles) <=> \E i \in 1 .. Len(styles) : styles[i] = style
           /\ Len(styles) \in Nat
<1>1. DOMAIN styles = 1 .. Len(styles)
  OBVIOUS
<1> QED
  BY <1>1 DEF Range

LEMMA StaysShown ==
    ASSUME NEW old, StylesOK(old), NEW new, StylesOK(new), StylesGrow(old, new),
           NEW index, NEW style, StyleShown(old, index, style)
    PROVE  StyleShown(new, index, style)
<1>1. /\ old \in Seq(Styles) /\ new \in Seq(Styles) /\ Len(old) \in Nat /\ Len(new) \in Nat
      /\ Len(old) <= Len(new)
  BY InTable DEF StylesOK, StylesGrow
<1>2. /\ index \in 0 .. Len(old) - 1 /\ index \in 0 .. Len(new) - 1
      /\ index + 1 \in 1 .. Len(old) /\ index + 1 \in 1 .. Len(new)
  BY <1>1 DEF StyleShown
<1>3. CASE style \in Range(old)
  <2>1. old[index + 1] = style
    BY <1>3 DEF StyleShown
  <2>2. new[index + 1] = style
    BY <1>2, <2>1 DEF StylesGrow
  <2>3. style \in Range(new)
    BY <1>1, <1>2, <2>2, InTable
  <2> QED
    BY <1>2, <2>2, <2>3 DEF StyleShown
<1>4. CASE style \notin Range(old)
  <2>1. index = 0 /\ Len(old) = StyleLimit
    BY <1>4 DEF StyleShown
  <2>2. new = old
    BY <2>1 DEF StylesGrow
  <2> QED
    BY <2>2
<1> QED
  BY <1>3, <1>4

LEMMA GrowsOn ==
    ASSUME NEW a, StylesOK(a), NEW b, StylesOK(b), NEW c, StylesOK(c),
           StylesGrow(a, b), StylesGrow(b, c)
    PROVE  StylesGrow(a, c)
<1>1. Len(a) \in Nat /\ Len(b) \in Nat /\ Len(c) \in Nat
  BY InTable DEF StylesOK
<1>2. Len(a) <= Len(b) /\ Len(b) <= Len(c) /\ Len(a) <= Len(c)
  BY <1>1 DEF StylesGrow
<1>3. \A i \in 1 .. Len(a) : i \in 1 .. Len(b) /\ b[i] = a[i] /\ c[i] = b[i]
  BY <1>1, <1>2 DEF StylesGrow
<1>4. Len(a) = StyleLimit => c = a
  BY DEF StylesGrow
<1> QED
  BY <1>2, <1>3, <1>4 DEF StylesGrow

LEMMA GrowsFromItself == ASSUME NEW a, StylesOK(a) PROVE StylesGrow(a, a)
<1>1. Len(a) \in Nat
  BY InTable DEF StylesOK
<1> QED
  BY <1>1 DEF StylesGrow

\* A style is looked for, and added if it is new and there is room.
LEMMA StyleAdded ==
    ASSUME NEW styles, StylesOK(styles), NEW style \in Styles
    PROVE  LET new == StylesWith(styles, style)
           IN /\ StylesOK(new) /\ StylesGrow(styles, new)
              /\ StyleShown(new, StyleIndex(new, style), style)
<1> DEFINE n == Len(styles)
           new == StylesWith(styles, style)
           index == StyleIndex(new, style)
<1>1. styles \in Seq(Styles) /\ n \in Nat /\ n > 0 /\ n <= StyleLimit /\ styles[1] = DefaultStyle
  BY InTable DEF StylesOK
<1>2. StyleLimit \in Nat
  BY LimitsAssumption
<1>3. CASE style \in Range(styles) \/ n >= StyleLimit
  <2>1. new = styles
    BY <1>3 DEF StylesWith
  <2>2. StylesOK(new) /\ StylesGrow(styles, new)
    BY <2>1, GrowsFromItself
  <2>3. style \in Range(new) \/ Len(new) = StyleLimit
    BY <1>1, <1>2, <1>3, <2>1
  <2> QED
    <3> HIDE DEF new
    <3>1. CASE style \in Range(new)
      <4>1. DOMAIN new = 1 .. Len(new) /\ Len(new) \in Nat
        BY <1>1, <2>1
      <4>2. \E i \in DOMAIN new : new[i] = style
        BY <3>1 DEF Range
      <4> DEFINE i == CHOOSE i \in DOMAIN new : new[i] = style
      <4>3. i \in DOMAIN new /\ new[i] = style
        BY <4>2
      <4>4. index = i - 1
        BY <3>1 DEF StyleIndex
      <4> HIDE DEF i, index
      <4>5. index \in 0 .. Len(new) - 1 /\ index + 1 = i
        BY <4>1, <4>3, <4>4
      <4>6. StyleShown(new, index, style)
        BY <3>1, <4>3, <4>5 DEF StyleShown
      <4> QED
        BY <2>2, <4>6 DEF index, new
    <3>2. CASE style \notin Range(new)
      <4>1. index = 0 /\ Len(new) = StyleLimit /\ 0 \in 0 .. Len(new) - 1
        BY <1>1, <2>1, <2>3, <3>2 DEF StyleIndex
      <4>2. StyleShown(new, index, style)
        BY <3>2, <4>1 DEF StyleShown
      <4> QED
        BY <2>2, <4>2 DEF new
    <3> QED
      BY <3>1, <3>2
<1>4. CASE style \notin Range(styles) /\ ~(n >= StyleLimit)
  <2>1. new = Append(styles, style)
    BY <1>4 DEF StylesWith
  <2>2. /\ new \in Seq(Styles) /\ Len(new) = n + 1 /\ new[n + 1] = style
        /\ \A j \in 1 .. n : new[j] = styles[j]
    BY <1>1, <2>1
  <2>3. StylesOK(new)
    BY <1>1, <1>2, <1>4, <2>2 DEF StylesOK
  <2>4. StylesGrow(styles, new)
    BY <1>1, <1>2, <1>4, <2>2 DEF StylesGrow
  <2>5. \A j \in 1 .. n : styles[j] # style
    BY <1>1, <1>4, InTable
  <2>6. style \in Range(new)
    <3>1. n + 1 \in 1 .. Len(new)
      BY <1>1, <2>2
    <3> HIDE DEF new
    <3> QED
      BY <2>2, <3>1, InTable
  <2> HIDE DEF new
  <2>7. DOMAIN new = 1 .. n + 1
    BY <1>1, <2>2
  <2>8. \E j \in DOMAIN new : new[j] = style
    BY <2>6 DEF Range
  <2> DEFINE i == CHOOSE j \in DOMAIN new : new[j] = style
  <2>9. i \in DOMAIN new /\ new[i] = style
    BY <2>8
  <2>10. index = i - 1
    BY <2>6 DEF StyleIndex
  <2> HIDE DEF i, index
  <2>11. index \in 0 .. Len(new) - 1 /\ index + 1 = i
    BY <1>1, <2>2, <2>7, <2>9, <2>10
  <2>12. StyleShown(new, index, style)
    BY <2>6, <2>9, <2>11 DEF StyleShown
  <2> QED
    BY <2>3, <2>4, <2>12 DEF index, new
<1> QED
  BY <1>3, <1>4

-----------------------------------------------------------------------------
(* The screen                                                               *)

ScreenCells == [text : Texts, width : 0 .. 2, attr : Attrs]

\* No wide character is cut: the column right of its left half has no text.
LineOK(line, n) == line \in [0 .. n - 1 -> ScreenCells] /\ Paired(line, n)

ScreenShape(s, columns, rows) ==
    /\ s = [r \in 0 .. rows - 1 |-> s[r]]
    /\ \A r \in 0 .. rows - 1 : LineOK(s[r], columns)

ScreenOK == <<Columns, Rows>> \in Sizes /\ ScreenShape(screen, Columns, Rows)

LEMMA SizeFacts ==
    ASSUME NEW size \in Sizes
    PROVE  /\ size = <<size[1], size[2]>>
           /\ size[1] \in Nat /\ size[1] > 0 /\ size[2] \in Nat /\ size[2] > 0
BY SizesAssumption

LEMMA CountUpTo ==
    ASSUME NEW n \in Nat, n > 0
    PROVE  Cardinality(0 .. n - 1) = n
<1> DEFINE a == 0
           b == n - 1
<1>1. a \in Int /\ b \in Int /\ ~(a > b) /\ b - a + 1 = n
  OBVIOUS
<1> HIDE DEF a, b
<1>2. Cardinality(a .. b) = n
  BY <1>1, FS_Interval
<1> QED
  BY <1>2 DEF a, b

LEMMA SizeIs ==
    ASSUME NEW c, NEW r, <<c, r>> \in Sizes, NEW s, ScreenShape(s, c, r)
    PROVE  SizeOf(s) = <<c, r>>
<1>1. c \in Nat /\ c > 0 /\ r \in Nat /\ r > 0
  BY SizesAssumption
<1>2. DOMAIN s = 0 .. r - 1 /\ 0 \in 0 .. r - 1 /\ LineOK(s[0], c)
  BY <1>1 DEF ScreenShape
<1>3. DOMAIN s[0] = 0 .. c - 1
  BY <1>2 DEF LineOK
<1> QED
  BY <1>1, <1>2, <1>3, CountUpTo DEF SizeOf

LEMMA ScreenIs ==
    ASSUME NEW c, NEW r, <<c, r>> \in Sizes, ScreenShape(screen', c, r)
    PROVE  Columns' = c /\ Rows' = r /\ ScreenOK'
<1>1. SizeOf(screen') = <<c, r>>
  BY SizeIs
<1>2. Columns' = SizeOf(screen')[1] /\ Rows' = SizeOf(screen')[2]
  BY DEF Columns, Rows, SizeOf
<1>3. Columns' = c /\ Rows' = r
  BY <1>1, <1>2
<1> QED
  BY <1>3 DEF ScreenOK

LEMMA ScreenFacts ==
    ASSUME ScreenOK
    PROVE  /\ Columns \in Nat /\ Columns > 0 /\ Rows \in Nat /\ Rows > 0
           /\ \A r \in 0 .. Rows - 1 : LineOK(screen[r], Columns)
           /\ DOMAIN screen = 0 .. Rows - 1
           /\ \A p \in Positions : /\ p = <<p[1], p[2]>> /\ p[1] \in 0 .. Rows - 1
                                   /\ p[2] \in 0 .. Columns - 1 /\ At(p) \in ScreenCells
<1>1. Columns \in Nat /\ Columns > 0 /\ Rows \in Nat /\ Rows > 0
  BY SizesAssumption DEF ScreenOK
<1>2. \A r \in 0 .. Rows - 1 : LineOK(screen[r], Columns)
  BY DEF ScreenOK, ScreenShape
<1>3. DOMAIN screen = 0 .. Rows - 1
  BY DEF ScreenOK, ScreenShape
<1>4. \A p \in Positions : /\ p = <<p[1], p[2]>> /\ p[1] \in 0 .. Rows - 1
                           /\ p[2] \in 0 .. Columns - 1
  BY DEF Positions
<1> QED
  BY <1>1, <1>2, <1>3, <1>4 DEF LineOK, At

LEMMA AttrFacts ==
    ASSUME NEW attr \in Attrs
    PROVE  /\ attr.fg \in Nat /\ attr.bg \in Nat /\ attr.inverse \in BOOLEAN
           /\ PackedStyleFor(attr) \in Styles
<1>1. attr.fg \in Nat /\ attr.bg \in Nat /\ attr.inverse \in BOOLEAN
  BY DEF Attrs
<1>2. PackedStyleFor(attr) \in Styles
  BY <1>1 DEF PackedStyleFor, Styles
<1> QED
  BY <1>1, <1>2

LEMMA DrawnCell ==
    ASSUME ScreenOK, NEW p \in Positions
    PROVE  /\ Drawn(p).text \in Texts /\ Drawn(p).width \in Nat
           /\ Drawn(p).width = At(p).width
           /\ PackedStyleFor(Drawn(p).attr) \in Styles
<1> DEFINE cell == At(p)
<1>1. cell \in ScreenCells
  BY ScreenFacts
<1> HIDE DEF cell
<1>2. cell.text \in Texts /\ cell.width \in 0 .. 2 /\ cell.attr \in Attrs
  BY <1>1 DEF ScreenCells
<1>3. CASE p # cursor.at
  BY <1>2, <1>3, AttrFacts DEF Drawn, cell
<1>4. CASE p = cursor.at
  <2> DEFINE turned == [cell EXCEPT !.attr.inverse = ~@]
             attr == cell.attr
             other == [attr EXCEPT !.inverse = ~@]
  <2>1. turned.text = cell.text /\ turned.width = cell.width
    BY <1>1 DEF ScreenCells
  <2>2. turned.attr = other
    BY <1>1 DEF ScreenCells
  <2> HIDE DEF turned, attr
  <2>3. other.fg \in Nat /\ other.bg \in Nat
    BY <1>2 DEF attr, Attrs
  <2>4. PackedStyleFor(other) \in Styles
    <3> HIDE DEF other
    <3> QED
      BY <2>3 DEF PackedStyleFor, Styles
  <2>5. Drawn(p) = turned
    BY <1>4 DEF Drawn, turned, cell
  <2> QED
    BY <1>2, <2>1, <2>2, <2>4, <2>5 DEF cell
<1> QED
  BY <1>3, <1>4

LEMMA BlankCells ==
    ASSUME NEW n \in Nat
    PROVE  BlankCell \in ScreenCells /\ BlankCell.width = 1 /\ LineOK(BlankLine(n), n)
<1>1. <<SPACE>> \in Texts
  BY SpaceText DEF Texts
<1>2. BlankCell \in ScreenCells /\ BlankCell.width = 1
  BY <1>1, GlyphsAssumption DEF BlankCell, ScreenCells
<1>3. BlankLine(n) \in [0 .. n - 1 -> ScreenCells] /\ Paired(BlankLine(n), n)
  BY <1>2 DEF BlankLine, Paired
<1> QED
  BY <1>2, <1>3 DEF LineOK

LEMMA WiderText ==
    ASSUME NEW text \in Seq(STRING)
    PROVE  text \in Texts
<1> DEFINE n == Len(text)
<1>1. n \in Nat /\ text = [i \in 1 .. n |-> text[i]]
  BY LenProperties
<1>2. \A i \in 1 .. n : text[i] \in STRING
  BY ElementOfSeq
<1> HIDE DEF n
<1>3. text \in [1 .. n -> Characters]
  BY <1>1, <1>2 DEF Characters
<1> QED
  BY <1>1, <1>3, FunctionSeq DEF Texts

LEMMA GlyphCells ==
    ASSUME NEW glyph \in Glyphs
    PROVE  /\ glyph \in ScreenCells /\ glyph.width \in {1, 2}
           /\ RightHalf(glyph.attr) \in ScreenCells /\ RightHalf(glyph.attr).width = 0
<1>1. glyph \in [text : Seq(STRING), width : {1, 2}, attr : Attrs]
  BY GlyphsAssumption
<1> DEFINE t == glyph.text
           w == glyph.width
           a == glyph.attr
<1>2. t \in Seq(STRING) /\ w \in {1, 2} /\ a \in Attrs
      /\ glyph = [text |-> t, width |-> w, attr |-> a]
  BY <1>1
<1> HIDE DEF t, w, a
<1>3. t \in Texts
  BY <1>2, WiderText
<1>4. w \in 0 .. 2
  BY <1>2
<1>5. glyph \in ScreenCells
  BY <1>2, <1>3, <1>4, Zenon DEF ScreenCells
<1>6. <<>> \in Texts
  BY DEF Texts
<1>7. RightHalf(a) \in ScreenCells /\ RightHalf(a).width = 0
  BY <1>2, <1>6 DEF RightHalf, ScreenCells
<1> QED
  BY <1>2, <1>5, <1>7 DEF w, a

\* A write leaves no half of a wide character.
LEMMA WrittenLine ==
    ASSUME NEW n \in Nat, NEW line, LineOK(line, n), NEW column \in 0 .. n - 1,
           NEW glyph \in Glyphs
    PROVE  LineOK(Written(line, column, glyph), n)
<1> DEFINE new == Written(line, column, glyph)
           w == glyph.width
           half == RightHalf(glyph.attr)
<1>1. line \in [0 .. n - 1 -> ScreenCells] /\ DOMAIN line = 0 .. n - 1
      /\ \A c \in 0 .. n - 1 : line[c].width = 0 => c > 0 /\ line[c - 1].width = 2
  BY DEF LineOK, Paired
<1>2. glyph \in ScreenCells /\ w \in {1, 2} /\ half \in ScreenCells /\ half.width = 0
  BY GlyphCells
<1>3. BlankCell \in ScreenCells /\ BlankCell.width = 1
  BY BlankCells
<1>4. new = [c \in 0 .. n - 1 |->
               IF c = column THEN glyph
               ELSE IF c = column + 1 /\ w = 2 THEN half
               ELSE IF c = column - 1 /\ line[c].width = 2 THEN BlankCell
               ELSE IF c = column + w /\ line[c].width = 0 THEN BlankCell
               ELSE line[c]]
  BY <1>1 DEF Written
<1> DEFINE W(c) == line[c].width
<1>5. \A c \in 0 .. n - 1 : new[c].width = IF c = column THEN w
               ELSE IF c = column + 1 /\ w = 2 THEN 0
               ELSE IF c = column - 1 /\ W(c) = 2 THEN 1
               ELSE IF c = column + w /\ W(c) = 0 THEN 1
               ELSE W(c)
  BY <1>2, <1>3, <1>4
<1>6. new \in [0 .. n - 1 -> ScreenCells]
  BY <1>1, <1>2, <1>3, <1>4, Zenon
<1> HIDE DEF new, half, w
<1>7. ASSUME NEW c \in 0 .. n - 1, new[c].width = 0
      PROVE  c > 0 /\ new[c - 1].width = 2
  <2>1. CASE c = column + 1 /\ w = 2
    <3>1. c > 0 /\ c - 1 = column
      BY <2>1
    <3> QED
      BY <1>5, <2>1, <3>1
  <2>2. CASE ~(c = column + 1 /\ w = 2)
    <3>1. /\ c # column /\ W(c) = 0 /\ c # column + w
      BY <1>2, <1>5, <1>7, <2>2
    <3>2. c > 0 /\ W(c - 1) = 2 /\ c - 1 \in 0 .. n - 1
      BY <1>1, <3>1
    <3>3. c - 1 # column /\ c - 1 # column - 1
      BY <1>2, <2>2, <3>1
    <3>4. ~(c - 1 = column + 1 /\ w = 2)
      BY <1>2, <3>1
    <3>5. new[c - 1].width = W(c - 1)
      <4> DEFINE b == c - 1
      <4>1. b \in 0 .. n - 1 /\ b # column /\ ~(b = column + 1 /\ w = 2) /\ b # column - 1
            /\ W(b) = 2
        BY <3>2, <3>3, <3>4
      <4> HIDE DEF b
      <4>2. new[b].width = W(b)
        BY <1>5, <4>1
      <4> QED
        BY <4>2 DEF b
    <3> QED
      BY <3>2, <3>5
  <2> QED
    BY <2>1, <2>2
<1> QED
  BY <1>6, <1>7 DEF LineOK, Paired, new

-----------------------------------------------------------------------------
(* Drawing the screen into a grid                                           *)

\* What a row, or a decoded cell, shows of a cell of the screen.
ShownAs(text, width, index, cell, styles) ==
    /\ text = cell.text
    /\ width = cell.width
    /\ StyleShown(styles, index, PackedStyleFor(cell.attr))
RowShows(row, c, cell, styles) ==
    ShownAs(CellText(row, c), row.cells[c].width, row.cells[c].style, cell, styles)
ChangeShows(change, cell, styles) ==
    ShownAs(change.text, change.width, change.style, cell, styles)

\* While the cells are visited: those decoded show the screen, and so do the rows
\* where a cell was visited and not decoded.
Painting(context, first, data, visited, done) ==
    /\ context = [styles |-> context.styles, changes |-> context.changes,
                  dirty |-> context.dirty, spans |-> context.spans]
    /\ StylesOK(context.styles) /\ StylesGrow(first, context.styles)
    /\ DOMAIN context.changes \subseteq visited
    /\ \A q \in DOMAIN context.changes :
           /\ context.changes[q] \in Decoded
           /\ ChangeShows(context.changes[q], Drawn(q), context.styles)
    /\ \A q \in done \cap visited :
           q \notin DOMAIN context.changes =>
               RowShows(data[q[1]], q[2], Drawn(q), context.styles)

LEMMA ShownOn ==
    ASSUME NEW old, StylesOK(old), NEW new, StylesOK(new), StylesGrow(old, new),
           NEW text, NEW width, NEW index, NEW cell, ShownAs(text, width, index, cell, old)
    PROVE  ShownAs(text, width, index, cell, new)
BY StaysShown DEF ShownAs

\* One more cell is visited.
LEMMA PaintCell ==
    ASSUME ScreenOK, NEW visited, visited \subseteq Positions, NEW p \in visited,
           NEW first, StylesOK(first), NEW data, NEW done, NEW context,
           Painting(context, first, data, visited, done), NEW reuse \in BOOLEAN
    PROVE  Painting(DrawPackedCell(context, p, data, reuse), first, data, visited, done \cup {p})
<1> DEFINE cell == Drawn(p)
           style == PackedStyleFor(cell.attr)
           styles == StylesWith(context.styles, style)
           index == StyleIndex(styles, style)
           change == [text |-> cell.text, style |-> index, width |-> cell.width]
           shown == AlreadyShown(data[p[1]], p[2], index, cell)
           new == DrawPackedCell(context, p, data, reuse)
<1>1. cell.text \in Texts /\ cell.width \in Nat /\ style \in Styles
  BY DrawnCell
<1>2. StylesOK(context.styles) /\ StylesGrow(first, context.styles)
  BY DEF Painting
<1>3. /\ StylesOK(styles) /\ StylesGrow(context.styles, styles)
      /\ StyleShown(styles, index, style)
  <2> HIDE DEF style
  <2> QED
    BY <1>1, <1>2, StyleAdded
<1>4. StylesGrow(first, styles)
  <2> HIDE DEF styles
  <2> QED
    BY <1>2, <1>3, GrowsOn
<1>5. index \in Nat /\ change \in Decoded
  <2>1. Len(styles) \in Nat
    BY <1>3, InTable DEF StylesOK
  <2>2. index \in Nat
    BY <1>3, <2>1 DEF StyleShown
  <2> DEFINE t == cell.text
             w == cell.width
  <2>3. t \in Texts /\ w \in Nat
    BY <1>1
  <2> HIDE DEF index, t, w
  <2>4. [text |-> t, style |-> index, width |-> w] \in Decoded
    BY <2>2, <2>3, DecodedRecord
  <2> QED
    BY <2>2, <2>4 DEF t, w
<1>6. ChangeShows(change, cell, styles)
  BY <1>3 DEF ChangeShows, ShownAs
<1> DEFINE changes == [q \in DOMAIN context.changes \cup {p} |->
                          IF q = p THEN change ELSE context.changes[q]]
<1>7. new = IF reuse /\ shown THEN [context EXCEPT !.styles = styles]
            ELSE [styles  |-> styles, changes |-> changes,
                  dirty   |-> IncludeDirty(context.dirty, p[2], p[1], cell.width, Columns, Rows),
                  spans   |-> IncludeCellSpan(context.spans, p[2], p[1], cell.width,
                                              Columns, Rows)]
  BY DEF DrawPackedCell
<1> HIDE DEF index, styles, change, new, style
<1>8. /\ DOMAIN context.changes \subseteq visited
      /\ \A q \in DOMAIN context.changes :
             /\ context.changes[q] \in Decoded
             /\ ChangeShows(context.changes[q], Drawn(q), styles)
      /\ \A q \in done \cap visited :
             q \notin DOMAIN context.changes => RowShows(data[q[1]], q[2], Drawn(q), styles)
  <2>1. \A q \in DOMAIN context.changes :
             /\ context.changes[q] \in Decoded
             /\ ChangeShows(context.changes[q], Drawn(q), context.styles)
    BY DEF Painting
  <2>2. \A q \in done \cap visited :
             q \notin DOMAIN context.changes =>
                 RowShows(data[q[1]], q[2], Drawn(q), context.styles)
    BY DEF Painting
  <2> QED
    BY <1>2, <1>3, <2>1, <2>2, ShownOn DEF Painting, ChangeShows, RowShows
<1>9. CASE reuse /\ shown
  <2>1. /\ context = [styles |-> context.styles, changes |-> context.changes,
                      dirty |-> context.dirty, spans |-> context.spans]
        /\ new = [context EXCEPT !.styles = styles]
    BY <1>7, <1>9 DEF Painting
  <2>2. new = [styles |-> styles, changes |-> context.changes,
               dirty |-> context.dirty, spans |-> context.spans]
    BY <2>1
  <2>3. /\ new.styles = styles /\ new.changes = context.changes
        /\ new = [styles |-> new.styles, changes |-> new.changes,
                  dirty |-> new.dirty, spans |-> new.spans]
    BY <2>2
  <2>4. RowShows(data[p[1]], p[2], cell, styles)
    BY <1>3, <1>9 DEF AlreadyShown, RowShows, ShownAs, style
  <2>5. \A q \in (done \cup {p}) \cap visited :
            q \notin DOMAIN context.changes => RowShows(data[q[1]], q[2], Drawn(q), styles)
    BY <1>8, <2>4
  <2>6. /\ StylesOK(new.styles) /\ StylesGrow(first, new.styles)
        /\ DOMAIN new.changes \subseteq visited
        /\ \A q \in DOMAIN new.changes :
               /\ new.changes[q] \in Decoded
               /\ ChangeShows(new.changes[q], Drawn(q), new.styles)
        /\ \A q \in (done \cup {p}) \cap visited :
               q \notin DOMAIN new.changes => RowShows(data[q[1]], q[2], Drawn(q), new.styles)
    BY <1>3, <1>4, <1>8, <2>3, <2>5
  <2> QED
    BY <2>3, <2>6, Zenon DEF Painting, new
<1>10. CASE ~(reuse /\ shown)
  <2>1. /\ new.styles = styles /\ new.changes = changes
        /\ new = [styles |-> new.styles, changes |-> new.changes,
                  dirty |-> new.dirty, spans |-> new.spans]
    BY <1>7, <1>10
  <2>2. DOMAIN changes = DOMAIN context.changes \cup {p}
    OBVIOUS
  <2>3. ASSUME NEW q \in DOMAIN changes
        PROVE  changes[q] \in Decoded /\ ChangeShows(changes[q], Drawn(q), styles)
    <3>1. CASE q = p
      BY <1>5, <1>6, <3>1
    <3>2. CASE q # p
      BY <1>8, <2>2, <3>2
    <3> QED
      BY <3>1, <3>2
  <2>4. \A q \in (done \cup {p}) \cap visited :
            q \notin DOMAIN changes => RowShows(data[q[1]], q[2], Drawn(q), styles)
    BY <1>8, <2>2
  <2>5. DOMAIN changes \subseteq visited
    BY <1>8, <2>2
  <2> HIDE DEF changes
  <2>6. /\ StylesOK(new.styles) /\ StylesGrow(first, new.styles)
        /\ DOMAIN new.changes \subseteq visited
        /\ \A q \in DOMAIN new.changes :
               /\ new.changes[q] \in Decoded
               /\ ChangeShows(new.changes[q], Drawn(q), new.styles)
        /\ \A q \in (done \cup {p}) \cap visited :
               q \notin DOMAIN new.changes => RowShows(data[q[1]], q[2], Drawn(q), new.styles)
    BY <1>3, <1>4, <2>1, <2>3, <2>4, <2>5
  <2> QED
    BY <2>1, <2>6, Zenon DEF Painting, new
<1> QED
  BY <1>9, <1>10 DEF new

\* Every position is visited in its turn.
LEMMA TurnOf ==
    ASSUME NEW columns \in Nat, columns > 0, NEW rows \in Nat,
           NEW r \in 0 .. rows - 1, NEW c \in 0 .. columns - 1
    PROVE  \E i \in 1 .. rows * columns : (i - 1) \div columns = r /\ (i - 1) % columns = c
<1>1. r * columns + c + 1 \in 1 .. rows * columns
  OBVIOUS
<1>2. (r * columns + c) \div columns = r /\ (r * columns + c) % columns = c
  OBVIOUS
<1> DEFINE k == r * columns + c
<1>3. k \in Nat /\ (k + 1) - 1 = k
  OBVIOUS
<1> QED
  BY <1>1, <1>2, <1>3

\* tsm_screen_draw visits the positions one after the other.
Visits(drawn, n, at, grid, visited, reuse) ==
    /\ DrawScreen(grid, visited, reuse) = drawn[n]
    /\ drawn[0] = [styles |-> grid.styles, changes |-> <<>>, dirty |-> NoRegion, spans |-> <<>>]
    /\ \A i \in 1 .. n :
           drawn[i] = IF at[i] \in visited
                      THEN DrawPackedCell(drawn[i - 1], at[i], grid.data, reuse)
                      ELSE drawn[i - 1]
    /\ visited \subseteq {at[i] : i \in 1 .. n}

LEMMA ScreenVisits ==
    ASSUME ScreenOK, NEW visited, visited \subseteq Positions, NEW grid, NEW reuse \in BOOLEAN
    PROVE  \E n \in Nat : \E at, drawn : Visits(drawn, n, at, grid, visited, reuse)
<1> DEFINE n == Rows * Columns
           at(i) == <<(i - 1) \div Columns, (i - 1) % Columns>>
           none == [styles |-> grid.styles, changes |-> <<>>, dirty |-> NoRegion, spans |-> <<>>]
           next(i, x) == IF at(i) \in visited
                         THEN DrawPackedCell(x, at(i), grid.data, reuse) ELSE x
           drawn[i \in 0 .. n] == IF i = 0 THEN none ELSE next(i, drawn[i - 1])
           upto(m) == [i \in 0 .. m |-> at(i)]
<1>1. n \in Nat /\ Rows \in Nat /\ Columns \in Nat /\ Columns > 0
  BY ScreenFacts
<1>2. DrawScreen(grid, visited, reuse) = drawn[n]
  BY DEF DrawScreen
<1> HIDE DEF n, none, next
<1> DEFINE E == {m \in Nat : \E f : /\ f = [i \in 0 .. m |-> f[i]] /\ f[0] = none
                                    /\ \A i \in 1 .. m : f[i] = next(i, f[i - 1])}
<1>3. 0 \in E
  <2> DEFINE f == [i \in {0} |-> none]
  <2>1. f = [i \in 0 .. 0 |-> f[i]] /\ f[0] = none /\ \A i \in 1 .. 0 : f[i] = next(i, f[i - 1])
    OBVIOUS
  <2> HIDE DEF f
  <2> QED
    BY <2>1
<1>4. ASSUME NEW m \in Nat, m \in E PROVE m + 1 \in E
  <2>1. PICK f : /\ f = [i \in 0 .. m |-> f[i]] /\ f[0] = none
                 /\ \A i \in 1 .. m : f[i] = next(i, f[i - 1])
    BY <1>4
  <2> DEFINE g == [i \in 0 .. m + 1 |-> IF i <= m THEN f[i] ELSE next(i, f[m])]
  <2>2. g = [i \in 0 .. m + 1 |-> g[i]] /\ g[0] = none
    BY <2>1
  <2>3. ASSUME NEW i \in 1 .. m + 1 PROVE g[i] = next(i, g[i - 1])
    <3>1. i - 1 \in 0 .. m + 1 /\ i - 1 <= m /\ g[i - 1] = f[i - 1]
      OBVIOUS
    <3>2. CASE i <= m
      <4>1. i \in 1 .. m /\ g[i] = f[i]
        BY <3>2
      <4> QED
        BY <2>1, <3>1, <4>1
    <3>3. CASE ~(i <= m)
      <4>1. i - 1 = m /\ g[i] = next(i, f[m])
        BY <3>3
      <4> QED
        BY <3>1, <4>1
    <3> QED
      BY <3>2, <3>3
  <2> HIDE DEF g
  <2> DEFINE k == m + 1
  <2>4. k \in Nat
    OBVIOUS
  <2> HIDE DEF k
  <2>5. /\ g = [i \in 0 .. k |-> g[i]] /\ g[0] = none
        /\ \A i \in 1 .. k : g[i] = next(i, g[i - 1])
    BY <2>2, <2>3 DEF k
  <2>6. k \in E
    BY <2>4, <2>5, Zenon
  <2> QED
    BY <2>6 DEF k
<1>5. n \in E
  <2> HIDE DEF E
  <2> QED
    BY <1>1, <1>3, <1>4, Induction
<1>6. PICK f : f = [i \in 0 .. n |-> f[i]] /\ f[0] = none /\ \A i \in 1 .. n : f[i] = next(i, f[i - 1])
  BY <1>5
<1>7. drawn = [i \in 0 .. n |-> IF i = 0 THEN none ELSE next(i, drawn[i - 1])]
  <2>1. \A i \in 0 .. n : f[i] = IF i = 0 THEN none ELSE next(i, f[i - 1])
    <3> TAKE i \in 0 .. n
    <3>1. CASE i = 0
      BY <1>6, <3>1
    <3>2. CASE i # 0
      <4>1. i \in 1 .. n
        BY <1>1, <3>2
      <4> QED
        BY <1>6, <3>2, <4>1
    <3> QED
      BY <3>1, <3>2
  <2>2. f = [i \in 0 .. n |-> f[i]]
    BY <1>6
  <2>3. f = [i \in 0 .. n |-> IF i = 0 THEN none ELSE next(i, f[i - 1])]
    BY <2>1, <2>2
  <2> QED
    BY <2>3
<1> HIDE DEF drawn, E
<1>8. drawn[0] = none /\ \A i \in 1 .. n : drawn[i] = next(i, drawn[i - 1])
  <2>1. 0 \in 0 .. n /\ \A i \in 1 .. n : i \in 0 .. n /\ i # 0
    BY <1>1
  <2> QED
    BY <1>7, <2>1, Zenon
<1> DEFINE places == [i \in 1 .. n |-> at(i)]
<1>9. \A i \in 1 .. n : places[i] = at(i)
  OBVIOUS
<1>10. visited \subseteq {places[i] : i \in 1 .. n}
  <2> SUFFICES ASSUME NEW p \in visited PROVE \E i \in 1 .. n : at(i) = p
    BY <1>9
  <2>1. p = <<p[1], p[2]>> /\ p[1] \in 0 .. Rows - 1 /\ p[2] \in 0 .. Columns - 1
    BY ScreenFacts
  <2> DEFINE r == p[1]
             c == p[2]
  <2> HIDE DEF r, c
  <2>2. PICK i \in 1 .. Rows * Columns : (i - 1) \div Columns = r /\ (i - 1) % Columns = c
    BY <1>1, <2>1, TurnOf DEF r, c
  <2>3. at(i) = p /\ i \in 1 .. n
    BY <2>1, <2>2 DEF r, c, n
  <2> QED
    BY <2>3
<1> HIDE DEF at
<1>11. \A i \in 1 .. n :
           drawn[i] = IF places[i] \in visited
                      THEN DrawPackedCell(drawn[i - 1], places[i], grid.data, reuse)
                      ELSE drawn[i - 1]
  BY <1>8, <1>9 DEF next
<1> HIDE DEF places
<1>12. Visits(drawn, n, places, grid, visited, reuse)
  BY <1>2, <1>8, <1>10, <1>11 DEF none, Visits
<1> QED
  BY <1>1, <1>12

LEMMA ScreenDrawn ==
    ASSUME ScreenOK, NEW visited, visited \subseteq Positions, NEW grid, StylesOK(grid.styles),
           NEW reuse \in BOOLEAN
    PROVE  Painting(DrawScreen(grid, visited, reuse), grid.styles, grid.data, visited, visited)
<1>a. PICK n \in Nat : \E at, drawn : Visits(drawn, n, at, grid, visited, reuse)
  BY ScreenVisits
<1>0. PICK at, drawn : Visits(drawn, n, at, grid, visited, reuse)
  BY <1>a
<1>1. /\ DrawScreen(grid, visited, reuse) = drawn[n]
      /\ drawn[0] = [styles |-> grid.styles, changes |-> <<>>, dirty |-> NoRegion, spans |-> <<>>]
      /\ \A i \in 1 .. n :
             drawn[i] = IF at[i] \in visited
                        THEN DrawPackedCell(drawn[i - 1], at[i], grid.data, reuse)
                        ELSE drawn[i - 1]
      /\ visited \subseteq {at[i] : i \in 1 .. n}
  BY <1>0 DEF Visits
<1> DEFINE done(m) == {at[i] : i \in 1 .. m}
           S == {m \in 0 .. n : Painting(drawn[m], grid.styles, grid.data, visited, done(m))}
<1>2. 0 \in S
  <2> DEFINE none == drawn[0]
  <2>1. /\ none.styles = grid.styles /\ none.changes = <<>>
        /\ none = [styles |-> none.styles, changes |-> none.changes,
                   dirty |-> none.dirty, spans |-> none.spans]
    BY <1>1
  <2>2. DOMAIN none.changes = {}
    BY <2>1
  <2>3. done(0) = {}
    OBVIOUS
  <2>4. StylesGrow(grid.styles, grid.styles)
    BY GrowsFromItself
  <2> HIDE DEF done, none
  <2>5. Painting(none, grid.styles, grid.data, visited, done(0))
    BY <2>1, <2>2, <2>3, <2>4 DEF Painting
  <2> QED
    BY <2>5 DEF none
<1>3. ASSUME NEW m \in 1 .. n, m - 1 \in S PROVE m \in S
  <2> HIDE DEF done
  <2> DEFINE p == at[m]
             x == drawn[m - 1]
             before == done(m - 1)
             after == done(m)
             first == grid.styles
             data == grid.data
  <2>1. Painting(x, first, data, visited, before)
    BY <1>3
  <2>2. after = before \cup {p}
    <3>1. 1 .. m = (1 .. m - 1) \cup {m}
      OBVIOUS
    <3> QED
      BY <3>1 DEF done
  <2>3. drawn[m] = IF p \in visited THEN DrawPackedCell(x, p, data, reuse) ELSE x
    BY <1>1
  <2> HIDE DEF p, x, before, after, first, data
  <2>4. CASE p \in visited
    <3>1. Painting(DrawPackedCell(x, p, data, reuse), first, data, visited, before \cup {p})
      BY <2>1, <2>4, PaintCell DEF first
    <3> QED
      BY <2>2, <2>3, <2>4, <3>1 DEF after, first, data
  <2>5. CASE p \notin visited
    <3>1. (before \cup {p}) \cap visited = before \cap visited
      BY <2>5
    <3>2. Painting(x, first, data, visited, after)
      BY <2>1, <2>2, <3>1 DEF Painting
    <3> QED
      BY <2>3, <2>5, <3>2 DEF after, first, data
  <2> QED
    BY <2>4, <2>5
<1>4. Painting(drawn[n], grid.styles, grid.data, visited, done(n))
  <2> HIDE DEF S
  <2>1. 0 .. n \subseteq S
    BY <1>2, <1>3, InductionUpTo
  <2> USE DEF S
  <2> HIDE DEF done
  <2> QED
    BY <2>1
<1>5. done(n) \cap visited = visited \cap visited
  BY <1>1
<1> HIDE DEF done
<1> QED
  BY <1>1, <1>4, <1>5 DEF Painting

-----------------------------------------------------------------------------
(* What must be repainted of the cells that are visited                     *)

\* Every cell that is decoded again is in a span, and all are unless a scrolled row
\* is used again.
CellsMarked(context, visited, done, reuse) ==
    /\ context = [styles |-> context.styles, changes |-> context.changes,
                  dirty |-> context.dirty, spans |-> context.spans]
    /\ Marked(context.dirty, context.spans, Columns, Rows)
    /\ \A q \in DOMAIN context.changes : InSpans(context.spans, q[1], q[2])
    /\ DOMAIN context.changes \subseteq visited
    /\ ~reuse => done \cap visited \subseteq DOMAIN context.changes

LEMMA CellIsMarked ==
    ASSUME ScreenOK, NEW visited, visited \subseteq Positions, NEW p \in visited,
           NEW data, NEW done, NEW reuse \in BOOLEAN,
           NEW context, CellsMarked(context, visited, done, reuse)
    PROVE  CellsMarked(DrawPackedCell(context, p, data, reuse), visited, done \cup {p}, reuse)
<1> DEFINE cell == Drawn(p)
           style == PackedStyleFor(cell.attr)
           styles == StylesWith(context.styles, style)
           index == StyleIndex(styles, style)
           shown == AlreadyShown(data[p[1]], p[2], index, cell)
           change == [text |-> cell.text, style |-> index, width |-> cell.width]
           changes == [q \in DOMAIN context.changes \cup {p} |->
                          IF q = p THEN change ELSE context.changes[q]]
           r == p[1]
           c == p[2]
           w == cell.width
           dirty == IncludeDirty(context.dirty, c, r, w, Columns, Rows)
           spans == IncludeCellSpan(context.spans, c, r, w, Columns, Rows)
           new == DrawPackedCell(context, p, data, reuse)
<1>1. new = IF reuse /\ shown THEN [context EXCEPT !.styles = styles]
            ELSE [styles |-> styles, changes |-> changes, dirty |-> dirty, spans |-> spans]
  BY DEF DrawPackedCell
<1>2. /\ context = [styles |-> context.styles, changes |-> context.changes,
                    dirty |-> context.dirty, spans |-> context.spans]
      /\ Marked(context.dirty, context.spans, Columns, Rows)
      /\ \A q \in DOMAIN context.changes : InSpans(context.spans, q[1], q[2])
      /\ DOMAIN context.changes \subseteq visited
      /\ ~reuse => done \cap visited \subseteq DOMAIN context.changes
  BY DEF CellsMarked
<1>3. /\ r \in Nat /\ c \in Nat /\ r < Rows /\ c < Columns /\ w \in Nat
      /\ Columns \in Nat /\ Rows \in Nat
      /\ \A q \in visited : q[1] \in Int /\ q[2] \in Int
  <2>1. /\ Columns \in Nat /\ Rows \in Nat
        /\ \A q \in Positions : q[1] \in 0 .. Rows - 1 /\ q[2] \in 0 .. Columns - 1
    BY ScreenFacts
  <2>2. w \in Nat
    BY DrawnCell
  <2> HIDE DEF w
  <2> QED
    BY <2>1, <2>2
<1>4. DOMAIN changes = DOMAIN context.changes \cup {p}
  OBVIOUS
<1> HIDE DEF shown, styles, changes, new, r, c, w, dirty, spans
<1>5. CASE reuse /\ shown
  <2>1. new = [context EXCEPT !.styles = styles]
    BY <1>1, <1>5
  <2>2. new = [styles |-> styles, changes |-> context.changes,
               dirty |-> context.dirty, spans |-> context.spans]
    BY <1>2, <2>1
  <2>3. /\ new.changes = context.changes /\ new.dirty = context.dirty
        /\ new.spans = context.spans
        /\ new = [styles |-> new.styles, changes |-> new.changes,
                  dirty |-> new.dirty, spans |-> new.spans]
    BY <2>2
  <2> QED
    BY <1>2, <1>5, <2>3 DEF CellsMarked, new
<1>6. CASE ~(reuse /\ shown)
  <2>1. /\ new.changes = changes /\ new.dirty = dirty /\ new.spans = spans
        /\ new = [styles |-> new.styles, changes |-> new.changes,
                  dirty |-> new.dirty, spans |-> new.spans]
    BY <1>1, <1>6
  <2>2. /\ Marked(dirty, spans, Columns, Rows) /\ Widened(context.spans, spans)
        /\ InSpans(spans, r, c)
    BY <1>2, <1>3, CellMarked DEF dirty, spans
  <2>3. ASSUME NEW q \in DOMAIN changes PROVE InSpans(spans, q[1], q[2])
    <3>1. CASE q = p
      BY <2>2, <3>1 DEF r, c
    <3>2. CASE q # p
      <4>1. q \in DOMAIN context.changes /\ q \in visited
        BY <1>2, <1>4, <3>2
      <4>2. InSpans(context.spans, q[1], q[2]) /\ q[1] \in Int /\ q[2] \in Int
        BY <1>2, <1>3, <4>1
      <4> QED
        BY <2>2, <4>2 DEF Widened
    <3> QED
      BY <3>1, <3>2
  <2>4. DOMAIN changes \subseteq visited
    BY <1>2, <1>4
  <2>5. ~reuse => (done \cup {p}) \cap visited \subseteq DOMAIN changes
    BY <1>2, <1>4
  <2> QED
    BY <2>1, <2>2, <2>3, <2>4, <2>5 DEF CellsMarked, new
<1> QED
  BY <1>5, <1>6

LEMMA ScreenMarked ==
    ASSUME ScreenOK, NEW visited, visited \subseteq Positions, NEW grid,
           NEW reuse \in BOOLEAN
    PROVE  CellsMarked(DrawScreen(grid, visited, reuse), visited, visited, reuse)
<1>a. PICK n \in Nat : \E at, drawn : Visits(drawn, n, at, grid, visited, reuse)
  BY ScreenVisits
<1>0. PICK at, drawn : Visits(drawn, n, at, grid, visited, reuse)
  BY <1>a
<1>1. /\ DrawScreen(grid, visited, reuse) = drawn[n]
      /\ drawn[0] = [styles |-> grid.styles, changes |-> <<>>, dirty |-> NoRegion, spans |-> <<>>]
      /\ \A i \in 1 .. n :
             drawn[i] = IF at[i] \in visited
                        THEN DrawPackedCell(drawn[i - 1], at[i], grid.data, reuse)
                        ELSE drawn[i - 1]
      /\ visited \subseteq {at[i] : i \in 1 .. n}
  BY <1>0 DEF Visits
<1> DEFINE done(m) == {at[i] : i \in 1 .. m}
           S == {m \in 0 .. n : CellsMarked(drawn[m], visited, done(m), reuse)}
<1>2. 0 \in S
  <2> DEFINE none == drawn[0]
  <2>1. /\ none.changes = <<>> /\ none.dirty = NoRegion /\ none.spans = <<>>
        /\ none = [styles |-> none.styles, changes |-> none.changes,
                   dirty |-> none.dirty, spans |-> none.spans]
    BY <1>1
  <2>2. DOMAIN none.changes = {}
    BY <2>1
  <2>3. done(0) = {}
    OBVIOUS
  <2>4. Marked(NoRegion, <<>>, Columns, Rows)
    BY NothingMarked, ScreenFacts
  <2> HIDE DEF done, none
  <2>5. CellsMarked(none, visited, done(0), reuse)
    BY <2>1, <2>2, <2>3, <2>4 DEF CellsMarked
  <2> QED
    BY <2>5 DEF none
<1>3. ASSUME NEW m \in 1 .. n, m - 1 \in S PROVE m \in S
  <2> HIDE DEF done
  <2> DEFINE p == at[m]
             x == drawn[m - 1]
             before == done(m - 1)
             after == done(m)
             data == grid.data
  <2>1. CellsMarked(x, visited, before, reuse)
    BY <1>3
  <2>2. after = before \cup {p}
    <3>1. 1 .. m = (1 .. m - 1) \cup {m}
      OBVIOUS
    <3> QED
      BY <3>1 DEF done
  <2>3. drawn[m] = IF p \in visited THEN DrawPackedCell(x, p, data, reuse) ELSE x
    BY <1>1
  <2> HIDE DEF p, x, before, after, data
  <2>4. CASE p \in visited
    <3>1. CellsMarked(DrawPackedCell(x, p, data, reuse), visited, before \cup {p}, reuse)
      BY <2>1, <2>4, CellIsMarked
    <3> QED
      BY <2>2, <2>3, <2>4, <3>1 DEF after
  <2>5. CASE p \notin visited
    <3>1. (before \cup {p}) \cap visited = before \cap visited
      BY <2>5
    <3>2. CellsMarked(x, visited, after, reuse)
      BY <2>1, <2>2, <3>1 DEF CellsMarked
    <3> QED
      BY <2>3, <2>5, <3>2 DEF after
  <2> QED
    BY <2>4, <2>5
<1>4. CellsMarked(drawn[n], visited, done(n), reuse)
  <2> HIDE DEF S
  <2>1. 0 .. n \subseteq S
    BY <1>2, <1>3, InductionUpTo
  <2> USE DEF S
  <2> HIDE DEF done
  <2> QED
    BY <2>1
<1>5. done(n) \cap visited = visited \cap visited
  BY <1>1
<1> HIDE DEF done
<1> QED
  BY <1>1, <1>4, <1>5 DEF CellsMarked

-----------------------------------------------------------------------------
(* Grids                                                                    *)

\* A row of n columns, of one run for each of its parts of one style, with styles
\* below k.
GridRow(row, n, k) ==
    /\ RowOf(row, n) /\ Split(row.cells, row.runs, 0, n) /\ Alternate(row.runs)
    /\ \A c \in 0 .. n - 1 : row.cells[c].style < k

GridData(data, columns, rows, k) ==
    /\ data = [r \in 0 .. rows - 1 |-> data[r]]
    /\ \A r \in 0 .. rows - 1 : GridRow(data[r], columns, k)

GoodGrid(grid) ==
    /\ grid = [styles |-> grid.styles, columns |-> grid.columns, rows |-> grid.rows,
               data |-> grid.data]
    /\ <<grid.columns, grid.rows>> \in Sizes
    /\ StylesOK(grid.styles)
    /\ GridData(grid.data, grid.columns, grid.rows, Len(grid.styles))

LEMMA BlankGridRow ==
    ASSUME NEW n \in Nat, n > 0, NEW k \in Nat, k > 0
    PROVE  GridRow(BlankRow(n), n, k)
<1> DEFINE row == BlankRow(n)
<1>1. /\ RowOf(row, n) /\ Split(row.cells, row.runs, 0, n) /\ Alternate(row.runs)
      /\ \A c \in 0 .. n - 1 : row.cells[c].style = 0
  BY Blank
<1> HIDE DEF row
<1> QED
  BY <1>1 DEF GridRow, row

LEMMA FirstStyles == StylesOK(<<DefaultStyle>>)
<1>1. DefaultStyle \in Styles
  BY DEF DefaultStyle, Styles
<1>2. 1 <= StyleLimit
  BY LimitsAssumption
<1> DEFINE d == DefaultStyle
           s == <<d>>
<1> HIDE DEF d
<1>3. s \in Seq(Styles) /\ Len(s) = 1 /\ s[1] = d
  BY <1>1 DEF d
<1> HIDE DEF s
<1>4. StylesOK(s)
  BY <1>2, <1>3 DEF StylesOK, d
<1> QED
  BY <1>4 DEF s, d

\* A grid of the screen's size: the old one, if it has that size.
LEMMA Ensured ==
    ASSUME NEW columns, NEW rows, <<columns, rows>> \in Sizes,
           NEW old, old = EmptyGrid \/ GoodGrid(old)
    PROVE  LET grid == EnsurePackedGrid(old, columns, rows)
           IN /\ GoodGrid(grid) /\ grid.columns = columns /\ grid.rows = rows
              /\ GoodGrid(old) /\ old.columns = columns /\ old.rows = rows => grid = old
<1> DEFINE grid == EnsurePackedGrid(old, columns, rows)
           styles == IF old.styles = <<>> THEN <<DefaultStyle>> ELSE old.styles
           blank == [styles |-> styles, columns |-> columns, rows |-> rows,
                     data |-> [r \in 0 .. rows - 1 |-> BlankRow(columns)]]
<1>1. columns \in Nat /\ columns > 0 /\ rows \in Nat /\ rows > 0
  BY SizesAssumption
<1>2. /\ StylesOK(styles)
      /\ GoodGrid(old) => styles = old.styles
  <2>1. CASE old = EmptyGrid
    <3>1. old.styles = <<>> /\ old.columns = 0
      BY <2>1 DEF EmptyGrid
    <3>2. ~GoodGrid(old)
      BY <3>1, SizesAssumption DEF GoodGrid
    <3> QED
      BY <3>1, <3>2, FirstStyles
  <2>2. CASE GoodGrid(old)
    <3>1. StylesOK(old.styles)
      BY <2>2 DEF GoodGrid
    <3>2. old.styles # <<>>
      BY <3>1 DEF StylesOK
    <3> QED
      BY <3>1, <3>2
  <2> QED
    BY <2>1, <2>2
<1>3. Len(styles) \in Nat /\ Len(styles) > 0
  <2> HIDE DEF styles
  <2> QED
    BY <1>2, InTable DEF StylesOK
<1>4. CASE GoodGrid(old) /\ old.columns = columns /\ old.rows = rows
  <2>1. grid = [old EXCEPT !.styles = styles]
    BY <1>4 DEF EnsurePackedGrid
  <2>2. styles = old.styles
    BY <1>2, <1>4
  <2>3. old = [styles |-> old.styles, columns |-> old.columns, rows |-> old.rows,
               data |-> old.data]
    BY <1>4 DEF GoodGrid
  <2> HIDE DEF styles
  <2>4. grid = old
    BY <2>1, <2>2, <2>3
  <2> HIDE DEF grid
  <2> QED
    BY <1>4, <2>4 DEF grid
<1>5. CASE ~(GoodGrid(old) /\ old.columns = columns /\ old.rows = rows)
  <2>1. ~(old.columns = columns /\ old.rows = rows)
    BY <1>1, <1>5 DEF EmptyGrid
  <2>2. grid = blank
    BY <2>1 DEF EnsurePackedGrid
  <2>3. /\ blank = [styles |-> blank.styles, columns |-> blank.columns, rows |-> blank.rows,
                    data |-> blank.data]
        /\ blank.styles = styles /\ blank.columns = columns /\ blank.rows = rows
        /\ blank.data = [r \in 0 .. rows - 1 |-> BlankRow(columns)]
    <3> HIDE DEF styles
    <3> QED
      OBVIOUS
  <2> HIDE DEF blank, styles, grid
  <2>4. \A r \in 0 .. rows - 1 : GridRow(blank.data[r], columns, Len(styles))
    BY <1>1, <1>3, <2>3, BlankGridRow
  <2>5. blank.data = [r \in 0 .. rows - 1 |-> blank.data[r]]
    BY <2>3
  <2>6. GoodGrid(blank)
    BY <1>2, <2>3, <2>4, <2>5 DEF GoodGrid, GridData
  <2> QED
    BY <1>5, <2>2, <2>3, <2>6 DEF grid
<1> QED
  BY <1>4, <1>5

LEMMA Rotated ==
    ASSUME NEW grid, GoodGrid(grid), NEW delta \in Int
    PROVE  LET new == RotatePackedRows(grid, delta)
           IN /\ GoodGrid(new) /\ new.columns = grid.columns /\ new.rows = grid.rows
              /\ new.styles = grid.styles
<1> DEFINE n == grid.columns
           k == Len(grid.styles)
           old == grid.data
           data == [r \in DOMAIN old |-> IF r + delta \in DOMAIN old THEN old[r + delta]
                                         ELSE BlankRow(n)]
           new == RotatePackedRows(grid, delta)
<1>1. n \in Nat /\ n > 0 /\ grid.rows \in Nat
  BY SizesAssumption DEF GoodGrid
<1>2. StylesOK(grid.styles) /\ k \in Nat /\ k > 0
  BY InTable DEF GoodGrid, StylesOK
<1>3. /\ grid = [styles |-> grid.styles, columns |-> grid.columns, rows |-> grid.rows,
                 data |-> grid.data]
      /\ <<grid.columns, grid.rows>> \in Sizes
      /\ old = [r \in 0 .. grid.rows - 1 |-> old[r]]
      /\ \A r \in 0 .. grid.rows - 1 : GridRow(old[r], n, k)
  BY DEF GoodGrid, GridData
<1>4. new = [grid EXCEPT !.data = data]
  BY DEF RotatePackedRows
<1>5. DOMAIN old = 0 .. grid.rows - 1
  BY <1>3
<1>6. \A r \in 0 .. grid.rows - 1 : GridRow(data[r], n, k)
  BY <1>1, <1>2, <1>3, <1>5, BlankGridRow
<1>7. data = [r \in 0 .. grid.rows - 1 |-> data[r]]
  BY <1>5
<1> HIDE DEF data
<1>8. /\ new = [styles |-> new.styles, columns |-> new.columns, rows |-> new.rows,
                data |-> new.data]
      /\ new.styles = grid.styles /\ new.columns = grid.columns /\ new.rows = grid.rows
      /\ new.data = data
  BY <1>3, <1>4
<1> HIDE DEF new
<1>9. GoodGrid(new)
  BY <1>2, <1>3, <1>6, <1>7, <1>8 DEF GoodGrid, GridData
<1> QED
  BY <1>8, <1>9 DEF new

\* A row in which the visited cells show the screen and the others what they did.
RowDrawn(new, old, r, visited, changes, styles) ==
    /\ GridRow(new, Columns, Len(styles))
    /\ \A c \in 0 .. Columns - 1 :
           /\ <<r, c>> \in visited => RowShows(new, c, Drawn(<<r, c>>), styles)
           /\ <<r, c>> \notin DOMAIN changes =>
                  /\ CellText(new, c) = CellText(old, c)
                  /\ new.cells[c].style = old.cells[c].style
                  /\ new.cells[c].width = old.cells[c].width

LEMMA RowRebuilt ==
    ASSUME ScreenOK, NEW visited, visited \subseteq Positions, NEW grid, GoodGrid(grid),
           grid.columns = Columns, grid.rows = Rows,
           NEW drawn, Painting(drawn, grid.styles, grid.data, visited, visited),
           NEW r \in 0 .. Rows - 1
    PROVE  RowDrawn(RebuildPackedRows(grid.data, drawn.changes)[r], grid.data[r], r, visited,
                    drawn.changes, drawn.styles)
<1> DEFINE n == Columns
           old == grid.data[r]
           k == Len(drawn.styles)
           at == {c \in 0 .. Columns - 1 : <<r, c>> \in DOMAIN drawn.changes}
           cells == [c \in at |-> drawn.changes[<<r, c>>]]
           new == RebuildPackedRows(grid.data, drawn.changes)[r]
<1>1. n \in Nat /\ n > 0
  BY ScreenFacts
<1>2. /\ StylesOK(drawn.styles) /\ StylesGrow(grid.styles, drawn.styles)
      /\ DOMAIN drawn.changes \subseteq visited
      /\ \A q \in DOMAIN drawn.changes :
             drawn.changes[q] \in Decoded /\ ChangeShows(drawn.changes[q], Drawn(q), drawn.styles)
      /\ \A q \in visited : q \notin DOMAIN drawn.changes =>
             RowShows(grid.data[q[1]], q[2], Drawn(q), drawn.styles)
  BY Zenon DEF Painting
<1>3. StylesOK(grid.styles) /\ GridRow(old, n, Len(grid.styles)) /\ r \in DOMAIN grid.data
  BY DEF GoodGrid, GridData
<1>4. k \in Nat /\ Len(grid.styles) \in Nat /\ Len(grid.styles) <= k
  BY <1>2, <1>3, InTable DEF StylesOK, StylesGrow
<1>5. new = IF at = {} THEN old ELSE RebuiltRow(old, cells)
  BY <1>3 DEF RebuildPackedRows
<1>6. /\ DOMAIN cells = at /\ at \subseteq 0 .. n - 1
      /\ \A c \in at : cells[c] = drawn.changes[<<r, c>>] /\ <<r, c>> \in DOMAIN drawn.changes
  OBVIOUS
<1>7. \A c \in 0 .. n - 1 : c \notin at => <<r, c>> \notin DOMAIN drawn.changes
  OBVIOUS
<1> HIDE DEF new, cells, at, n, k
<1>8. \A c \in DOMAIN cells : /\ cells[c] \in Decoded
                              /\ ChangeShows(cells[c], Drawn(<<r, c>>), drawn.styles)
  BY <1>2, <1>6
<1>9. RowOf(old, n) /\ \A c \in 0 .. n - 1 : old.cells[c].style < Len(grid.styles)
      /\ old.cells[c].style \in Nat
  BY <1>3, CellTypes DEF GridRow, RowOf, Contiguous
<1>10. /\ RowOf(new, n) /\ Split(new.cells, new.runs, 0, n) /\ Alternate(new.runs)
       /\ \A c \in 0 .. n - 1 :
              IF c \in at
              THEN /\ CellText(new, c) = cells[c].text
                   /\ new.cells[c].style = cells[c].style
                   /\ new.cells[c].width = cells[c].width
              ELSE /\ CellText(new, c) = CellText(old, c)
                   /\ new.cells[c].style = old.cells[c].style
                   /\ new.cells[c].width = old.cells[c].width
  <2>1. CASE at = {}
    <3>1. new = old
      BY <1>5, <2>1
    <3> HIDE DEF old
    <3> QED
      BY <1>3, <2>1, <3>1 DEF GridRow
  <2>2. CASE at # {}
    <3>1. new = RebuiltRow(old, cells)
      BY <1>5, <2>2
    <3> DEFINE made == RebuiltRow(old, cells)
    <3>2. /\ n \in Nat /\ RowOf(old, n) /\ DOMAIN cells \subseteq 0 .. n - 1
          /\ \A c \in DOMAIN cells : cells[c] \in Decoded
      BY <1>1, <1>6, <1>8, <1>9
    <3> HIDE DEF old
    <3>3. /\ RowOf(made, n) /\ Split(made.cells, made.runs, 0, n) /\ Alternate(made.runs)
          /\ \A c \in 0 .. n - 1 :
                 IF c \in DOMAIN cells
                 THEN /\ CellText(made, c) = cells[c].text
                      /\ made.cells[c].style = cells[c].style
                      /\ made.cells[c].width = cells[c].width
                 ELSE /\ CellText(made, c) = CellText(old, c)
                      /\ made.cells[c].style = old.cells[c].style
                      /\ made.cells[c].width = old.cells[c].width
      BY <3>2, Rebuilt
    <3> HIDE DEF made
    <3>4. made = new /\ DOMAIN cells = at
      BY <1>6, <3>1 DEF made
    <3> QED
      BY <3>3, <3>4
  <2> QED
    BY <2>1, <2>2
<1>11. ASSUME NEW c \in 0 .. n - 1 PROVE new.cells[c].style < k
  <2>1. CASE c \in at
    <3>1. new.cells[c].style = cells[c].style /\ cells[c].style \in 0 .. k - 1
      BY <1>6, <1>8, <1>10, <2>1 DEF ChangeShows, ShownAs, StyleShown, k
    <3> QED
      BY <1>4, <3>1
  <2>2. CASE c \notin at
    <3>1. new.cells[c].style = old.cells[c].style
      BY <1>10, <2>2
    <3> QED
      BY <1>4, <1>9, <3>1
  <2> QED
    BY <2>1, <2>2
<1>12. ASSUME NEW c \in 0 .. n - 1, <<r, c>> \in visited
       PROVE  RowShows(new, c, Drawn(<<r, c>>), drawn.styles)
  <2> DEFINE q == <<r, c>>
  <2>1. q[1] = r /\ q[2] = c /\ q \in visited
    BY <1>12
  <2>2. CASE c \in at
    <3>1. ChangeShows(cells[c], Drawn(q), drawn.styles)
      BY <1>6, <1>8, <2>2
    <3> QED
      BY <1>10, <2>2, <3>1 DEF ChangeShows, RowShows
  <2>3. CASE c \notin at
    <3>1. RowShows(old, c, Drawn(q), drawn.styles)
      <4>1. q \notin DOMAIN drawn.changes
        BY <1>7, <2>3
      <4> HIDE DEF q
      <4>2. RowShows(grid.data[q[1]], q[2], Drawn(q), drawn.styles)
        BY <1>2, <2>1, <4>1
      <4> QED
        BY <2>1, <4>2
    <3> QED
      BY <1>10, <2>3, <3>1 DEF RowShows
  <2> QED
    BY <2>2, <2>3
<1>13. ASSUME NEW c \in 0 .. n - 1, <<r, c>> \notin DOMAIN drawn.changes
       PROVE  c \notin at
  BY <1>6, <1>13
<1> QED
  BY <1>10, <1>11, <1>12, <1>13 DEF RowDrawn, GridRow, new, n, k

-----------------------------------------------------------------------------
(* A frame shows the screen                                                 *)

\* The core's grid shows what was last drawn, and so the cells that have not been
\* touched since, if the screen still has that size.
CacheShows ==
    cache # NoGrid =>
        /\ last_size = <<heap[cache].columns, heap[cache].rows>>
        /\ \A r \in 0 .. heap[cache].rows - 1 :
               Paired(heap[cache].data[r].cells, heap[cache].columns)
        /\ last_size = <<Columns, Rows>> =>
               \A p \in Positions \ aged :
                   RowShows(heap[cache].data[p[1]], p[2], Drawn(p), heap[cache].styles)

GridsGood == \A id \in InUse \ {NoGrid} : GoodGrid(heap[id])

TouchedOK ==
    /\ cursor \in [at : Positions, look : Looks]
    /\ aged \subseteq Positions /\ age_reset \in BOOLEAN
    /\ pending_content \in Int
    /\ pending_content # 0 => aged = Positions
    /\ frame_valid \in BOOLEAN
    /\ frame_valid => cache # NoGrid

\* A grid that shows the whole screen.
ShowsScreen(grid) ==
    /\ GoodGrid(grid) /\ grid.columns = Columns /\ grid.rows = Rows
    /\ \A p \in Positions : RowShows(grid.data[p[1]], p[2], Drawn(p), grid.styles)

OldGrid == IF cache = NoGrid THEN EmptyGrid ELSE heap[cache]

LEMMA OldGridOK ==
    ASSUME GridsGood
    PROVE  OldGrid = EmptyGrid \/ GoodGrid(OldGrid)
BY DEF GridsGood, OldGrid, InUse

LEMMA FrameGrid ==
    ASSUME ScreenOK, TouchedOK, GridsGood, CacheShows
    PROVE  LET taken == PackedFrame(OldGrid)
           IN /\ ShowsScreen(taken.grid)
              /\ taken.frame.columns = Columns /\ taken.frame.rows = Rows
<1> DEFINE old == OldGrid
           ensured == EnsurePackedGrid(old, Columns, Rows)
           resized == ~frame_valid \/ last_size # <<Columns, Rows>>
           delta == pending_content
           reuse == ~resized /\ delta # 0 /\ delta < Rows /\ -delta < Rows
           redraw == resized \/ (delta # 0 /\ ~reuse)
           grid == IF reuse THEN RotatePackedRows(ensured, delta) ELSE ensured
           moved == frame_valid /\ cursor # last_cursor
           visited == IF redraw \/ age_reset THEN Positions
                      ELSE aged \cup (IF moved THEN {cursor.at, last_cursor.at} \cap Positions
                                      ELSE {})
           drawn == DrawScreen(grid, visited, reuse)
           data == RebuildPackedRows(grid.data, drawn.changes)
           made == [grid EXCEPT !.styles = drawn.styles, !.data = data]
           taken == PackedFrame(OldGrid)
<1>1. /\ taken.grid = [grid EXCEPT !.styles = drawn.styles,
                                   !.data = RebuildPackedRows(@, drawn.changes)]
      /\ taken.frame.columns = Columns /\ taken.frame.rows = Rows
  BY DEF PackedFrame
<1> HIDE DEF taken, reuse, resized, redraw, moved, old
<1>2. /\ GoodGrid(ensured) /\ ensured.columns = Columns /\ ensured.rows = Rows
      /\ GoodGrid(old) /\ old.columns = Columns /\ old.rows = Rows => ensured = old
  <2>1. <<Columns, Rows>> \in Sizes /\ (old = EmptyGrid \/ GoodGrid(old))
    BY OldGridOK DEF ScreenOK, old
  <2> DEFINE c == Columns
             r == Rows
  <2>2. <<c, r>> \in Sizes
    BY <2>1
  <2> HIDE DEF c, r
  <2>3. /\ GoodGrid(EnsurePackedGrid(old, c, r)) /\ EnsurePackedGrid(old, c, r).columns = c
        /\ EnsurePackedGrid(old, c, r).rows = r
        /\ GoodGrid(old) /\ old.columns = c /\ old.rows = r
               => EnsurePackedGrid(old, c, r) = old
    BY <2>1, <2>2, Ensured
  <2> QED
    BY <2>3 DEF c, r
<1> HIDE DEF ensured
<1>3. GoodGrid(grid) /\ grid.columns = Columns /\ grid.rows = Rows
  <2>1. delta \in Int
    BY DEF TouchedOK
  <2> HIDE DEF delta
  <2>2. LET new == RotatePackedRows(ensured, delta)
        IN GoodGrid(new) /\ new.columns = Columns /\ new.rows = Rows
    BY <1>2, <2>1, Rotated
  <2> QED
    BY <1>2, <2>2
<1>4. reuse \in BOOLEAN
  BY DEF reuse
<1>5. visited \subseteq Positions
  BY DEF TouchedOK
<1>6. ASSUME NEW p \in Positions, p \notin visited
      PROVE  RowShows(grid.data[p[1]], p[2], Drawn(p), grid.styles)
  <2>1. ~redraw /\ ~age_reset /\ p \notin aged
    BY <1>6
  <2>2. frame_valid /\ last_size = <<Columns, Rows>> /\ delta = 0
    BY <2>1 DEF redraw, resized, TouchedOK
  <2>3. cache # NoGrid /\ old = heap[cache]
    BY <2>2 DEF TouchedOK, old, OldGrid
  <2>4. GoodGrid(old) /\ old.columns = Columns /\ old.rows = Rows
    BY <2>2, <2>3 DEF CacheShows, GridsGood, InUse
  <2>5. ~reuse
    BY <2>2 DEF reuse
  <2>6. grid = old
    BY <1>2, <2>4, <2>5
  <2>7. RowShows(old.data[p[1]], p[2], Drawn(p), old.styles)
    BY <2>1, <2>2, <2>3 DEF CacheShows
  <2> HIDE DEF grid
  <2> QED
    BY <2>6, <2>7
<1> HIDE DEF grid, visited
<1>7. Painting(drawn, grid.styles, grid.data, visited, visited)
  BY <1>3, <1>4, <1>5, ScreenDrawn DEF GoodGrid
<1> HIDE DEF drawn
<1>8. \A r \in 0 .. Rows - 1 :
          /\ GridRow(data[r], Columns, Len(drawn.styles))
          /\ \A c \in 0 .. Columns - 1 :
                 IF <<r, c>> \in visited
                 THEN RowShows(data[r], c, Drawn(<<r, c>>), drawn.styles)
                 ELSE /\ CellText(data[r], c) = CellText(grid.data[r], c)
                      /\ data[r].cells[c].style = grid.data[r].cells[c].style
                      /\ data[r].cells[c].width = grid.data[r].cells[c].width
  <2>1. \A r \in 0 .. Rows - 1 : RowDrawn(data[r], grid.data[r], r, visited, drawn.changes,
                                             drawn.styles)
    BY <1>3, <1>5, <1>7, RowRebuilt
  <2>2. DOMAIN drawn.changes \subseteq visited
    BY <1>7 DEF Painting
  <2> HIDE DEF data
  <2> QED
    BY <2>1, <2>2 DEF RowDrawn
<1>9. StylesOK(drawn.styles) /\ StylesGrow(grid.styles, drawn.styles) /\ StylesOK(grid.styles)
  BY <1>3, <1>7 DEF Painting, GoodGrid
<1>10. data = [r \in 0 .. Rows - 1 |-> data[r]]
  <2>1. DOMAIN grid.data = 0 .. Rows - 1
    BY <1>3 DEF GoodGrid, GridData
  <2> QED
    BY <2>1 DEF RebuildPackedRows
<1> HIDE DEF data
<1>11. /\ made = [styles |-> made.styles, columns |-> made.columns, rows |-> made.rows,
                  data |-> made.data]
       /\ made.styles = drawn.styles /\ made.columns = Columns /\ made.rows = Rows
       /\ made.data = data
  <2>1. /\ grid = [styles |-> grid.styles, columns |-> grid.columns, rows |-> grid.rows,
                   data |-> grid.data]
        /\ grid.columns = Columns /\ grid.rows = Rows
    BY <1>3 DEF GoodGrid
  <2> DEFINE s == drawn.styles
             x == grid.columns
             y == grid.rows
  <2> HIDE DEF s
  <2>2. made = [styles |-> s, columns |-> x, rows |-> y, data |-> data]
    <3> DEFINE t == [grid EXCEPT !.styles = s]
               d == grid.data
    <3>1. t = [styles |-> s, columns |-> x, rows |-> y, data |-> d]
      BY <2>1
    <3>2. made = [t EXCEPT !.data = data]
      BY <2>1 DEF s
    <3> HIDE DEF t, x, y, d, made
    <3> QED
      BY <3>1, <3>2
  <2> HIDE DEF made, x, y
  <2> QED
    BY <2>1, <2>2 DEF s, x, y
<1>12. taken.grid = made
  <2>1. "data" \in DOMAIN grid
    BY <1>3 DEF GoodGrid
  <2> QED
    BY <1>1, <2>1 DEF data
<1> HIDE DEF made
<1>13. GoodGrid(made)
  <2>1. \A r \in 0 .. Rows - 1 : GridRow(data[r], Columns, Len(drawn.styles))
    BY <1>8
  <2>2. <<Columns, Rows>> \in Sizes
    BY DEF ScreenOK
  <2> QED
    BY <1>9, <1>10, <1>11, <2>1, <2>2 DEF GoodGrid, GridData
<1>14. ASSUME NEW p \in Positions
       PROVE  RowShows(data[p[1]], p[2], Drawn(p), drawn.styles)
  <2> DEFINE r == p[1]
             c == p[2]
  <2>1. p = <<r, c>> /\ r \in 0 .. Rows - 1 /\ c \in 0 .. Columns - 1
    BY ScreenFacts
  <2> HIDE DEF r, c
  <2>2. CASE p \in visited
    BY <1>8, <2>1, <2>2 DEF r, c
  <2>3. CASE p \notin visited
    <3>1. RowShows(grid.data[r], c, Drawn(p), grid.styles)
      BY <1>6, <2>3 DEF r, c
    <3>2. RowShows(grid.data[r], c, Drawn(p), drawn.styles)
      BY <1>9, <3>1, ShownOn DEF RowShows
    <3>3. /\ CellText(data[r], c) = CellText(grid.data[r], c)
          /\ data[r].cells[c].style = grid.data[r].cells[c].style
          /\ data[r].cells[c].width = grid.data[r].cells[c].width
      BY <1>8, <2>1, <2>3
    <3> QED
      BY <3>2, <3>3 DEF RowShows, r, c
  <2> QED
    BY <2>2, <2>3
<1> QED
  BY <1>1, <1>11, <1>12, <1>13, <1>14 DEF ShowsScreen, taken

-----------------------------------------------------------------------------
(* What must be repainted of a frame                                        *)

IsContext(context) ==
    /\ context = [styles |-> context.styles, changes |-> context.changes,
                  dirty |-> context.dirty, spans |-> context.spans]
    /\ Marked(context.dirty, context.spans, Columns, Rows)

LEMMA CursorMarked ==
    ASSUME ScreenOK, NEW context, IsContext(context), NEW p \in Nat \X Nat
    PROVE  LET new == IncludeCursor(context, p)
           IN /\ IsContext(new) /\ Widened(context.spans, new.spans)
              /\ p[1] < Rows /\ p[2] < Columns => InSpans(new.spans, p[1], p[2])
<1> DEFINE r == p[1]
           c == p[2]
           one == 1
           d == IncludeDirty(context.dirty, c, r, one, Columns, Rows)
           s == IncludeCellSpan(context.spans, c, r, one, Columns, Rows)
           new == IncludeCursor(context, p)
<1>1. /\ context = [styles |-> context.styles, changes |-> context.changes,
                    dirty |-> context.dirty, spans |-> context.spans]
      /\ Marked(context.dirty, context.spans, Columns, Rows)
  BY DEF IsContext
<1>2. r \in Nat /\ c \in Nat /\ one \in Nat /\ Columns \in Nat /\ Rows \in Nat
  BY ScreenFacts
<1>3. new = [styles |-> context.styles, changes |-> context.changes, dirty |-> d, spans |-> s]
  <2> DEFINE a == [context EXCEPT
                       !.dirty = IncludeDirty(@, p[2], p[1], 1, Columns, Rows)]
  <2>1. a = [context EXCEPT !.dirty = d]
    BY <1>1
  <2> HIDE DEF a, d
  <2>2. a = [styles |-> context.styles, changes |-> context.changes, dirty |-> d,
             spans |-> context.spans]
    BY <1>1, <2>1
  <2>3. new = [a EXCEPT !.spans = IncludeCellSpan(@, p[2], p[1], 1, Columns, Rows)]
    BY DEF IncludeCursor, a
  <2>4. a.spans = context.spans
    BY <2>2
  <2> HIDE DEF new
  <2>5. new = [a EXCEPT !.spans = s]
    BY <2>2, <2>3, <2>4
  <2> HIDE DEF s
  <2> QED
    BY <2>2, <2>5
<1> HIDE DEF r, c, one, d, s, new
<1>4. /\ Marked(d, s, Columns, Rows) /\ Widened(context.spans, s)
      /\ r < Rows /\ c < Columns => InSpans(s, r, c)
  BY <1>1, <1>2, CellMarked DEF d, s
<1>5. new.dirty = d /\ new.spans = s /\ IsContext(new)
  <2>1. /\ new.dirty = d /\ new.spans = s
        /\ new = [styles |-> new.styles, changes |-> new.changes,
                  dirty |-> new.dirty, spans |-> new.spans]
    BY <1>3
  <2> QED
    BY <1>4, <2>1 DEF IsContext
<1> QED
  BY <1>4, <1>5 DEF r, c, new

LEMMA ExposedMarked ==
    ASSUME ScreenOK, NEW context, IsContext(context),
           NEW delta \in Int, delta # 0, delta < Rows, -delta < Rows
    PROVE  LET new == IncludeExposed(context, delta)
           IN /\ IsContext(new) /\ Widened(context.spans, new.spans)
              /\ \A r \in 0 .. Rows - 1, c \in 0 .. Columns - 1 :
                     ~InSpans(new.spans, r, c) => r + delta \in 0 .. Rows - 1
<1> DEFINE top == IF delta > 0 THEN Rows - delta ELSE 0
           bottom == IF delta > 0 THEN Rows ELSE -delta
           z == 0
           d == IncludeRegion(context.dirty, 0, top, Columns, bottom)
           s == IncludeRowSpans(context.spans, top, bottom, Columns)
           new == IncludeExposed(context, delta)
<1>1. /\ context = [styles |-> context.styles, changes |-> context.changes,
                    dirty |-> context.dirty, spans |-> context.spans]
      /\ Marked(context.dirty, context.spans, Columns, Rows)
  BY DEF IsContext
<1>2. Columns \in Nat /\ Rows \in Nat /\ Columns > 0
  BY ScreenFacts
<1>3. top \in Nat /\ bottom \in Nat /\ top < bottom /\ bottom <= Rows
  <2> DEFINE n == Rows
  <2>1. n \in Nat /\ delta < n /\ -delta < n
    BY <1>2
  <2> HIDE DEF n
  <2>2. /\ (IF delta > 0 THEN n - delta ELSE 0) \in Nat
        /\ (IF delta > 0 THEN n ELSE -delta) \in Nat
        /\ (IF delta > 0 THEN n - delta ELSE 0) < (IF delta > 0 THEN n ELSE -delta)
        /\ (IF delta > 0 THEN n ELSE -delta) <= n
    BY <2>1
  <2> QED
    BY <2>2 DEF n
<1>4. new = [styles |-> context.styles, changes |-> context.changes, dirty |-> d, spans |-> s]
  <2> DEFINE a == [context EXCEPT !.dirty = IncludeRegion(@, 0, top, Columns, bottom)]
  <2>1. a = [context EXCEPT !.dirty = d]
    BY <1>1
  <2> HIDE DEF d
  <2>2. a = [styles |-> context.styles, changes |-> context.changes, dirty |-> d,
             spans |-> context.spans]
    BY <1>1, <2>1
  <2>3. new = [a EXCEPT !.spans = IncludeRowSpans(@, top, bottom, Columns)]
    BY DEF IncludeExposed
  <2> HIDE DEF a, new, top, bottom
  <2>4. a.spans = context.spans
    BY <2>2
  <2>5. new = [a EXCEPT !.spans = s]
    BY <2>2, <2>3, <2>4
  <2> HIDE DEF s
  <2> QED
    BY <2>2, <2>5
<1> HIDE DEF new
<1>5. /\ Marked(d, s, Columns, Rows) /\ Widened(context.spans, s)
      /\ \A r \in top .. bottom - 1, c \in 0 .. Columns - 1 : InSpans(s, r, c)
  <2> HIDE DEF top, bottom
  <2> QED
    BY <1>1, <1>2, <1>3, RowsMarked
<1>6. new.dirty = d /\ new.spans = s /\ IsContext(new)
  <2> HIDE DEF d, s
  <2>1. /\ new.dirty = d /\ new.spans = s
        /\ new = [styles |-> new.styles, changes |-> new.changes,
                  dirty |-> new.dirty, spans |-> new.spans]
    BY <1>4
  <2> QED
    BY <1>5, <2>1 DEF IsContext
<1> HIDE DEF d, s
<1>7. ASSUME NEW r \in 0 .. Rows - 1, r \notin top .. bottom - 1
      PROVE  r + delta \in 0 .. Rows - 1
  <2> DEFINE n == Rows
  <2>1. n \in Nat /\ delta < n /\ -delta < n /\ r \in 0 .. n - 1
        /\ r \notin (IF delta > 0 THEN n - delta ELSE 0) .. (IF delta > 0 THEN n ELSE -delta) - 1
    BY <1>2, <1>7
  <2> HIDE DEF n, top, bottom
  <2>2. CASE delta > 0
    <3>1. r \notin n - delta .. n - 1
      BY <2>1, <2>2
    <3>2. r + delta \in 0 .. n - 1
      BY <2>1, <2>2, <3>1
    <3> QED
      BY <3>2 DEF n
  <2>3. CASE ~(delta > 0)
    <3>1. r \notin 0 .. -delta - 1
      BY <2>1, <2>3
    <3>2. r + delta \in 0 .. n - 1
      BY <2>1, <2>3, <3>1
    <3> QED
      BY <3>2 DEF n
  <2> QED
    BY <2>2, <2>3
<1> QED
  BY <1>5, <1>6, <1>7 DEF new

\* A cell that the frame left out of its spans is the one of the frame before, moved.
Stays(grid, p, delta) ==
    /\ cache # NoGrid /\ last_size = <<Columns, Rows>>
    /\ cursor # last_cursor => p \notin {cursor.at, last_cursor.at}
    /\ p[1] + delta \in 0 .. Rows - 1
    /\ StylesGrow(heap[cache].styles, grid.styles)
    /\ LET old == heap[cache].data[p[1] + delta]
           new == grid.data[p[1]]
       IN /\ CellText(new, p[2]) = CellText(old, p[2])
          /\ new.cells[p[2]].style = old.cells[p[2]].style
          /\ new.cells[p[2]].width = old.cells[p[2]].width

LEMMA FrameMarked ==
    ASSUME ScreenOK, TouchedOK, GridsGood, CacheShows,
           last_cursor \in [at : Nat \X Nat, look : Looks]
    PROVE  LET taken == PackedFrame(OldGrid)
               f == taken.frame
           IN /\ f.changed = (f.spans # <<>>)
              /\ f.changed => Marked(f.dirty, f.spans, Columns, Rows)
              /\ \A p \in Positions :
                     ~InSpans(f.spans, p[1], p[2]) => Stays(taken.grid, p, f.delta)
<1> DEFINE old == OldGrid
           ensured == EnsurePackedGrid(old, Columns, Rows)
           resized == ~frame_valid \/ last_size # <<Columns, Rows>>
           delta == pending_content
           reuse == ~resized /\ delta # 0 /\ delta < Rows /\ -delta < Rows
           redraw == resized \/ (delta # 0 /\ ~reuse)
           grid == IF reuse THEN RotatePackedRows(ensured, delta) ELSE ensured
           moved == frame_valid /\ cursor # last_cursor
           visited == IF redraw \/ age_reset THEN Positions
                      ELSE aged \cup (IF moved THEN {cursor.at, last_cursor.at} \cap Positions
                                      ELSE {})
           drawn == DrawScreen(grid, visited, reuse)
           pointed == IF moved
                      THEN IncludeCursor(IncludeCursor(drawn, last_cursor.at), cursor.at)
                      ELSE drawn
           final == IF reuse THEN IncludeExposed(pointed, delta) ELSE pointed
           whole == WholeRegion(Columns, Rows)
           full == redraw \/ age_reset \/ final.dirty = whole
           data == RebuildPackedRows(grid.data, drawn.changes)
           taken == PackedFrame(OldGrid)
           f == taken.frame
<1>1. /\ taken.grid = [grid EXCEPT !.styles = drawn.styles,
                                   !.data = RebuildPackedRows(@, drawn.changes)]
      /\ f.delta = delta
      /\ f.dirty = IF age_reset \/ (full /\ DirtyEmpty(final.dirty)) THEN whole ELSE final.dirty
      /\ f.spans = IF full THEN FullSpans(Columns, Rows) ELSE final.spans
      /\ f.changed = (full \/ ~DirtyEmpty(final.dirty))
  <2> DEFINE made == [grid EXCEPT !.styles = drawn.styles,
                                  !.data = RebuildPackedRows(@, drawn.changes)]
             dirty == IF age_reset \/ (full /\ DirtyEmpty(final.dirty)) THEN whole
                      ELSE final.dirty
             spans == IF full THEN FullSpans(Columns, Rows) ELSE final.spans
             changed == full \/ ~DirtyEmpty(final.dirty)
             frame == [columns |-> Columns, rows |-> Rows, cursor |-> cursor, delta |-> delta,
                       full |-> full, dirty |-> dirty, spans |-> spans, changed |-> changed]
  <2>1. taken = [grid |-> made, frame |-> frame]
    BY DEF PackedFrame
  <2>2. made = [grid EXCEPT !.styles = drawn.styles,
                            !.data = RebuildPackedRows(@, drawn.changes)]
    OBVIOUS
  <2> HIDE DEF taken, made, delta, full, dirty, spans, changed
  <2>3. taken.grid = made /\ f = frame
    BY <2>1
  <2> HIDE DEF f
  <2>4. f.delta = delta /\ f.dirty = dirty /\ f.spans = spans
    BY <2>3
  <2>5. f.changed = changed
    BY <2>3
  <2>6. /\ dirty = IF age_reset \/ (full /\ DirtyEmpty(final.dirty)) THEN whole
                  ELSE final.dirty
        /\ spans = IF full THEN FullSpans(Columns, Rows) ELSE final.spans
        /\ changed = (full \/ ~DirtyEmpty(final.dirty))
    BY DEF dirty, spans, changed
  <2> HIDE DEF final, grid, drawn, whole
  <2> QED
    BY <2>2, <2>3, <2>4, <2>5, <2>6
<1> HIDE DEF taken, f
<1>2. /\ Columns \in Nat /\ Columns > 0 /\ Rows \in Nat /\ Rows > 0
      /\ \A p \in Positions : /\ p = <<p[1], p[2]>> /\ p[1] \in 0 .. Rows - 1
                              /\ p[2] \in 0 .. Columns - 1
  BY ScreenFacts
<1>3. /\ cursor.at \in Positions /\ cursor.at \in Nat \X Nat /\ last_cursor.at \in Nat \X Nat
      /\ delta \in Int
  <2>1. cursor.at \in Positions /\ delta \in Int
    BY DEF TouchedOK
  <2>2. cursor.at \in Nat \X Nat
    BY <2>1 DEF Positions
  <2> QED
    BY <2>1, <2>2
<1>4. CellsMarked(drawn, visited, visited, reuse)
  <2>1. visited \subseteq Positions /\ reuse \in BOOLEAN
    BY DEF TouchedOK
  <2> HIDE DEF visited, grid, reuse
  <2> QED
    BY <2>1, ScreenMarked
<1> HIDE DEF delta
<1>5. /\ IsContext(drawn) /\ DOMAIN drawn.changes \subseteq visited
      /\ \A q \in DOMAIN drawn.changes : InSpans(drawn.spans, q[1], q[2])
      /\ ~reuse => visited \subseteq DOMAIN drawn.changes
  BY <1>4 DEF CellsMarked, IsContext
<1> HIDE DEF drawn, visited
<1>6. /\ IsContext(pointed) /\ Widened(drawn.spans, pointed.spans)
      /\ moved => \A p \in {cursor.at, last_cursor.at} :
             p[1] < Rows /\ p[2] < Columns => InSpans(pointed.spans, p[1], p[2])
  <2> HIDE DEF moved
  <2>1. CASE moved
    <3> DEFINE x == IncludeCursor(drawn, last_cursor.at)
               y == IncludeCursor(x, cursor.at)
               a == last_cursor.at
               b == cursor.at
    <3>1. /\ IsContext(x) /\ Widened(drawn.spans, x.spans)
          /\ a[1] < Rows /\ a[2] < Columns => InSpans(x.spans, a[1], a[2])
      BY <1>3, <1>5, CursorMarked
    <3> HIDE DEF x
    <3>2. /\ IsContext(y) /\ Widened(x.spans, y.spans)
          /\ b[1] < Rows /\ b[2] < Columns => InSpans(y.spans, b[1], b[2])
      BY <1>3, <3>1, CursorMarked
    <3>3. pointed = y
      BY <2>1 DEF x
    <3> HIDE DEF y
    <3>4. Widened(drawn.spans, y.spans)
      BY <3>1, <3>2, WidenedOn
    <3>5. a[1] \in Int /\ a[2] \in Int
      BY <1>3
    <3>6. a[1] < Rows /\ a[2] < Columns => InSpans(y.spans, a[1], a[2])
      BY <3>1, <3>2, <3>5 DEF Widened
    <3> HIDE DEF pointed
    <3> QED
      BY <3>2, <3>3, <3>4, <3>6
  <2>2. CASE ~moved
    BY <1>5, <2>2 DEF Widened
  <2> QED
    BY <2>1, <2>2
<1> HIDE DEF pointed
<1>7. /\ IsContext(final) /\ Widened(pointed.spans, final.spans)
      /\ reuse => \A r \in 0 .. Rows - 1, c \in 0 .. Columns - 1 :
             ~InSpans(final.spans, r, c) => r + delta \in 0 .. Rows - 1
  <2>1. CASE reuse
    <3> DEFINE y == IncludeExposed(pointed, delta)
    <3>1. delta # 0 /\ delta < Rows /\ -delta < Rows
      BY <2>1
    <3> HIDE DEF reuse
    <3>2. /\ IsContext(y) /\ Widened(pointed.spans, y.spans)
          /\ \A r \in 0 .. Rows - 1, c \in 0 .. Columns - 1 :
                 ~InSpans(y.spans, r, c) => r + delta \in 0 .. Rows - 1
      BY <1>3, <1>6, <3>1, ExposedMarked
    <3>3. final = y
      BY <2>1
    <3> HIDE DEF y, final
    <3> QED
      BY <3>2, <3>3
  <2>2. CASE ~reuse
    BY <1>6, <2>2 DEF Widened
  <2> QED
    BY <2>1, <2>2
<1> HIDE DEF final
<1>8. Marked(final.dirty, final.spans, Columns, Rows) /\ Widened(drawn.spans, final.spans)
  BY <1>6, <1>7, WidenedOn DEF IsContext
<1>9. DirtyEmpty(final.dirty) <=> final.spans = <<>>
  BY <1>2, <1>8, MarkedNotEmpty
<1>10. /\ Marked(whole, FullSpans(Columns, Rows), Columns, Rows)
       /\ FullSpans(Columns, Rows) # <<>>
       /\ \A r \in 0 .. Rows - 1, c \in 0 .. Columns - 1 :
              InSpans(FullSpans(Columns, Rows), r, c)
  BY <1>2, WholeMarked
<1>11. redraw => final.dirty = whole
  <2> SUFFICES ASSUME redraw PROVE final.dirty = whole
    OBVIOUS
  <2>1. ~reuse /\ visited = Positions
    BY DEF visited
  <2>2. \A p \in Positions : InSpans(drawn.spans, p[1], p[2])
    BY <1>5, <2>1
  <2> DEFINE n == Columns
             m == Rows
  <2>3. n \in Nat /\ n > 0 /\ m \in Nat /\ m > 0
        /\ Marked(final.dirty, final.spans, n, m)
    BY <1>2, <1>8
  <2>4. <<0, 0>> \in Positions /\ <<Rows - 1, Columns - 1>> \in Positions
    BY <1>2 DEF Positions
  <2>5. InSpans(drawn.spans, 0, 0) /\ InSpans(drawn.spans, m - 1, n - 1)
    BY <2>2, <2>4
  <2> HIDE DEF n, m
  <2>6. m - 1 \in Int /\ n - 1 \in Int /\ 0 \in Int
    BY <2>3
  <2>7. InSpans(final.spans, 0, 0) /\ InSpans(final.spans, m - 1, n - 1)
    BY <1>8, <2>5, <2>6 DEF Widened
  <2>8. final.dirty = WholeRegion(n, m)
    BY <2>3, <2>7, CornersMarked
  <2> QED
    BY <2>8 DEF n, m
<1>12. f.changed = (f.spans # <<>>)
  <2> HIDE DEF full
  <2>1. CASE full
    BY <1>1, <1>10, <2>1
  <2>2. CASE ~full
    BY <1>1, <1>9, <2>2
  <2> QED
    BY <2>1, <2>2
<1>13. Marked(f.dirty, f.spans, Columns, Rows)
  <2>1. CASE full
    <3>1. f.spans = FullSpans(Columns, Rows)
      BY <1>1, <2>1
    <3>2. f.dirty = whole
      <4> HIDE DEF whole
      <4>1. CASE age_reset
        BY <1>1, <4>1
      <4>2. CASE ~age_reset
        <5>1. final.dirty = whole
          BY <1>11, <2>1, <4>2
        <5> QED
          BY <1>1, <5>1
      <4> QED
        BY <4>1, <4>2
    <3> QED
      BY <1>10, <3>1, <3>2
  <2>2. CASE ~full
    <3>1. f.spans = final.spans /\ f.dirty = final.dirty
      BY <1>1, <2>2
    <3> QED
      BY <1>8, <3>1
  <2> QED
    BY <2>1, <2>2
<1>14. ASSUME NEW p \in Positions, ~InSpans(f.spans, p[1], p[2])
       PROVE  Stays(taken.grid, p, f.delta)
  <2> DEFINE r == p[1]
             c == p[2]
  <2>1. p = <<r, c>> /\ r \in 0 .. Rows - 1 /\ c \in 0 .. Columns - 1
    BY <1>2
  <2>2. ~full /\ f.spans = final.spans
    BY <1>1, <1>10, <1>14, <2>1
  <2>3. ~redraw /\ ~age_reset
    BY <2>2
  <2>4. frame_valid /\ last_size = <<Columns, Rows>> /\ (reuse \/ delta = 0)
    BY <2>3 DEF TouchedOK
  <2>5. cache # NoGrid /\ old = heap[cache]
    BY <2>4 DEF TouchedOK, OldGrid
  <2>6. /\ GoodGrid(old) /\ old.columns = Columns /\ old.rows = Rows
    BY <2>4, <2>5 DEF CacheShows, GridsGood, InUse
  <2>7. ensured = old
    <3> DEFINE x == Columns
               y == Rows
    <3>1. <<x, y>> \in Sizes
      BY DEF ScreenOK
    <3> HIDE DEF old, x, y
    <3>2. GoodGrid(old) /\ old.columns = x /\ old.rows = y => EnsurePackedGrid(old, x, y) = old
      BY <2>6, <3>1, Ensured
    <3> QED
      BY <2>6, <3>2 DEF x, y
  <2>8. r + delta \in 0 .. Rows - 1
    <3> HIDE DEF r, c, reuse
    <3>1. CASE reuse
      BY <1>7, <1>14, <2>1, <2>2, <3>1 DEF r, c
    <3>2. CASE delta = 0
      BY <2>1, <3>2
    <3> QED
      BY <2>4, <3>1, <3>2
  <2>9. /\ GoodGrid(grid) /\ grid.columns = Columns /\ grid.rows = Rows
        /\ grid.styles = old.styles /\ grid.data[r] = old.data[r + delta]
    <3> HIDE DEF old, ensured, reuse, r
    <3>1. CASE reuse
      <4> DEFINE new == RotatePackedRows(old, delta)
      <4>1. /\ GoodGrid(new) /\ new.columns = old.columns /\ new.rows = old.rows
            /\ new.styles = old.styles
        BY <1>3, <2>6, Rotated
      <4>2. new.data[r] = old.data[r + delta]
        <5>1. DOMAIN old.data = 0 .. Rows - 1 /\ r \in DOMAIN old.data
          BY <2>1, <2>6 DEF GoodGrid, GridData
        <5>2. new.data = [k \in DOMAIN old.data |->
                             IF k + delta \in DOMAIN old.data THEN old.data[k + delta]
                             ELSE BlankRow(old.columns)]
          <6>1. old = [styles |-> old.styles, columns |-> old.columns, rows |-> old.rows,
                       data |-> old.data]
            BY <2>6 DEF GoodGrid
          <6> DEFINE d == [k \in DOMAIN old.data |->
                             IF k + delta \in DOMAIN old.data THEN old.data[k + delta]
                             ELSE BlankRow(old.columns)]
          <6>2. new = [old EXCEPT !.data = d]
            BY <6>1 DEF RotatePackedRows
          <6> HIDE DEF d, new
          <6>3. new.data = d
            BY <6>1, <6>2
          <6> QED
            BY <6>3 DEF d
        <5> HIDE DEF new
        <5> QED
          BY <2>8, <5>1, <5>2
      <4>3. grid = new
        BY <2>7, <3>1
      <4> HIDE DEF new, grid
      <4> QED
        BY <2>6, <4>1, <4>2, <4>3
    <3>2. CASE ~reuse
      <4>1. grid = old /\ r + delta = r
        BY <2>1, <2>4, <2>7, <3>2
      <4> HIDE DEF grid
      <4> QED
        BY <2>6, <4>1
    <3> QED
      BY <3>1, <3>2
  <2>10. p \notin DOMAIN drawn.changes
    <3>1. r \in Int /\ c \in Int
      BY <2>1
    <3>2. ~InSpans(drawn.spans, r, c)
      BY <1>8, <1>14, <2>2, <3>1 DEF Widened
    <3> QED
      BY <1>5, <3>2
  <2>11. cursor # last_cursor => p \notin {cursor.at, last_cursor.at}
    <3> SUFFICES ASSUME cursor # last_cursor, p \in {cursor.at, last_cursor.at} PROVE FALSE
      OBVIOUS
    <3>1. moved
      BY <2>4
    <3>2. p[1] < Rows /\ p[2] < Columns /\ p[1] \in Int /\ p[2] \in Int
      BY <1>2, <2>1
    <3> HIDE DEF moved
    <3>3. InSpans(pointed.spans, p[1], p[2])
      BY <1>6, <3>1, <3>2
    <3>4. InSpans(final.spans, p[1], p[2])
      BY <1>7, <3>2, <3>3 DEF Widened
    <3> QED
      BY <1>14, <2>2, <3>4
  <2>12. Painting(drawn, grid.styles, grid.data, visited, visited)
    <3>1. visited \subseteq Positions /\ reuse \in BOOLEAN
      BY DEF TouchedOK, visited
    <3> HIDE DEF grid, reuse
    <3>2. StylesOK(grid.styles)
      BY <2>9 DEF GoodGrid
    <3> QED
      BY <3>1, <3>2, ScreenDrawn DEF drawn
  <2>13. StylesGrow(old.styles, drawn.styles)
    BY <2>9, <2>12 DEF Painting
  <2>14. /\ CellText(data[r], c) = CellText(grid.data[r], c)
         /\ data[r].cells[c].style = grid.data[r].cells[c].style
         /\ data[r].cells[c].width = grid.data[r].cells[c].width
    <3>1. visited \subseteq Positions
      BY DEF TouchedOK, visited
    <3> HIDE DEF grid, r, c
    <3>2. RowDrawn(data[r], grid.data[r], r, visited, drawn.changes, drawn.styles)
      BY <2>1, <2>9, <2>12, <3>1, RowRebuilt
    <3>3. <<r, c>> \notin DOMAIN drawn.changes
      BY <2>1, <2>10
    <3> HIDE DEF data
    <3> QED
      BY <2>1, <3>2, <3>3 DEF RowDrawn
  <2>15. taken.grid.data = data /\ taken.grid.styles = drawn.styles
    <3> HIDE DEF grid
    <3>1. grid = [styles |-> grid.styles, columns |-> grid.columns, rows |-> grid.rows,
                  data |-> grid.data]
      BY <2>9 DEF GoodGrid
    <3> DEFINE s == drawn.styles
               g == taken.grid
               t == [grid EXCEPT !.styles = s]
    <3>2. g = [t EXCEPT !.data = RebuildPackedRows(@, drawn.changes)]
      BY <1>1
    <3> HIDE DEF g, s
    <3>3. t = [styles |-> s, columns |-> grid.columns, rows |-> grid.rows, data |-> grid.data]
      BY <3>1
    <3>4. t.data = grid.data
      BY <3>3
    <3> HIDE DEF t, data
    <3>5. g = [t EXCEPT !.data = data]
      BY <3>2, <3>3, <3>4 DEF data
    <3>6. g.data = data /\ g.styles = s
      BY <3>3, <3>5
    <3> QED
      BY <3>6 DEF g, s
  <2> HIDE DEF data, grid, reuse, redraw, full, r, c
  <2>16. /\ CellText(taken.grid.data[r], c) = CellText(heap[cache].data[r + delta], c)
         /\ taken.grid.data[r].cells[c].style = heap[cache].data[r + delta].cells[c].style
         /\ taken.grid.data[r].cells[c].width = heap[cache].data[r + delta].cells[c].width
         /\ StylesGrow(heap[cache].styles, taken.grid.styles)
    BY <2>5, <2>9, <2>13, <2>14, <2>15
  <2> QED
    BY <1>1, <2>4, <2>5, <2>8, <2>11, <2>16 DEF Stays, r, c
<1> QED
  BY <1>12, <1>13, <1>14 DEF taken, f

-----------------------------------------------------------------------------
(* What the steps keep                                                      *)

HeldOK ==
    /\ DOMAIN held \subseteq Handles
    /\ \A h \in DOMAIN held : /\ heap[held[h].grid].columns = held[h].info.columns
                              /\ heap[held[h].grid].rows = held[h].info.rows

GridIInv ==
    /\ PointersValid /\ ScreenOK /\ TouchedOK /\ GridsGood /\ CacheShows /\ HeldOK
    /\ work \in 0 .. MaxWork

LEMMA SameSize ==
    ASSUME Columns' = Columns, Rows' = Rows
    PROVE  Positions' = Positions
BY DEF Positions

\* A change of the screen leaves the grids alone.
LEMMA WorkingKeeps ==
    ASSUME GridIInv, Working
    PROVE  PointersValid' /\ GridsGood' /\ HeldOK' /\ work' \in 0 .. MaxWork
<1>1. UNCHANGED <<heap, cache, held>> /\ work' = work + 1 /\ work < MaxWork
  BY DEF Working
<1>2. work' \in 0 .. MaxWork
  BY <1>1, LimitsAssumption DEF GridIInv
<1> QED
  BY <1>1, <1>2 DEF GridIInv, PointersValid, GridsGood, InUse, HeldOK

\* What is not touched looks as it did.
LEMMA ShowsStill ==
    ASSUME CacheShows, UNCHANGED <<heap, cache, last_size>>,
           \A p \in Positions' \ aged' : /\ <<Columns', Rows'>> = <<Columns, Rows>>
                                         /\ p \in Positions \ aged /\ Drawn(p)' = Drawn(p)
    PROVE  CacheShows'
<1> SUFFICES ASSUME cache' # NoGrid
             PROVE  /\ last_size' = <<heap'[cache'].columns, heap'[cache'].rows>>
                    /\ \A r \in 0 .. heap'[cache'].rows - 1 :
                           Paired(heap'[cache'].data[r].cells, heap'[cache'].columns)
                    /\ last_size' = <<Columns', Rows'>> =>
                           \A p \in Positions' \ aged' :
                               RowShows(heap'[cache'].data[p[1]], p[2], Drawn(p)',
                                        heap'[cache'].styles)
  BY DEF CacheShows, RowShows, ShownAs, StyleShown, CellText, Piece
<1>1. cache' = cache /\ heap' = heap /\ last_size' = last_size
  OBVIOUS
<1>2. /\ last_size = <<heap[cache].columns, heap[cache].rows>>
      /\ \A r \in 0 .. heap[cache].rows - 1 :
             Paired(heap[cache].data[r].cells, heap[cache].columns)
      /\ last_size = <<Columns, Rows>> =>
             \A p \in Positions \ aged :
                 RowShows(heap[cache].data[p[1]], p[2], Drawn(p), heap[cache].styles)
  BY <1>1 DEF CacheShows
<1>3. ASSUME last_size' = <<Columns', Rows'>>, NEW p \in Positions' \ aged'
      PROVE  RowShows(heap'[cache'].data[p[1]], p[2], Drawn(p)', heap'[cache'].styles)
  <2>1. last_size = <<Columns, Rows>> /\ p \in Positions \ aged /\ Drawn(p)' = Drawn(p)
    BY <1>1, <1>3
  <2> QED
    BY <1>1, <1>2, <2>1
<1> QED
  BY <1>1, <1>2, <1>3

LEMMA WriteKeeps ==
    ASSUME GridIInv, NEW p \in Positions, NEW glyph \in Glyphs, Write(p, glyph)
    PROVE  GridIInv'
<1> DEFINE r == p[1]
           c == p[2]
           w == glyph.width
           line == Written(screen[r], c, glyph)
           after == <<r, Smaller(Columns - 1, c + w)>>
           touched == {<<r, d>> : d \in {e \in DOMAIN line : e = c \/ line[e] # screen[r][e]}}
<1>1. ScreenOK /\ TouchedOK /\ CacheShows
  BY DEF GridIInv
<1>2. /\ Columns \in Nat /\ Columns > 0 /\ Rows \in Nat /\ Rows > 0
      /\ \A i \in 0 .. Rows - 1 : LineOK(screen[i], Columns)
      /\ screen = [i \in 0 .. Rows - 1 |-> screen[i]] /\ <<Columns, Rows>> \in Sizes
      /\ p = <<r, c>> /\ r \in 0 .. Rows - 1 /\ c \in 0 .. Columns - 1
  BY <1>1, ScreenFacts DEF ScreenOK, ScreenShape
<1>3. /\ Working /\ screen' = [screen EXCEPT ![r] = line] /\ cursor' = [cursor EXCEPT !.at = after]
      /\ aged' = aged \cup {cursor.at, after} \cup touched
      /\ UNCHANGED <<age_reset, pending_content>>
  BY DEF Write
<1>4. LineOK(line, Columns)
  <2> HIDE DEF r, c
  <2> QED
    BY <1>2, WrittenLine
<1>5. w \in {1, 2}
  BY GlyphCells
<1> HIDE DEF line, r, c, w
<1>6. ScreenShape(screen', Columns, Rows)
  BY <1>2, <1>3, <1>4 DEF ScreenShape
<1>7. Columns' = Columns /\ Rows' = Rows /\ ScreenOK'
  BY <1>2, <1>6, ScreenIs
<1>8. Positions' = Positions
  BY <1>7, SameSize
<1>9. after \in Positions
  <2>1. Smaller(Columns - 1, c + w) \in 0 .. Columns - 1
    BY <1>2, <1>5 DEF Smaller
  <2> QED
    BY <1>2, <2>1 DEF Positions
<1>10. touched \subseteq Positions
  <2>1. DOMAIN line = 0 .. Columns - 1
    BY <1>4 DEF LineOK
  <2> QED
    BY <1>2, <2>1 DEF Positions
<1>11. DOMAIN line = 0 .. Columns - 1
  BY <1>4 DEF LineOK
<1> HIDE DEF after
<1>12. cursor \in [at : Positions, look : Looks] /\ cursor.at \in Positions
       /\ cursor' \in [at : Positions, look : Looks] /\ cursor'.at = after
  BY <1>1, <1>3, <1>9 DEF TouchedOK
<1>13. TouchedOK'
  <2>1. aged' \subseteq Positions /\ (pending_content' # 0 => aged' = Positions)
    BY <1>1, <1>3, <1>9, <1>10, <1>12 DEF TouchedOK
  <2>2. frame_valid' = frame_valid /\ cache' = cache
    BY <1>3 DEF Working
  <2> HIDE DEF touched
  <2> QED
    BY <1>1, <1>3, <1>8, <1>12, <2>1, <2>2 DEF TouchedOK
<1>14. ASSUME NEW q \in Positions \ aged'
       PROVE  q \in Positions \ aged /\ Drawn(q)' = Drawn(q)
  <2>1. q \notin aged /\ q # cursor.at /\ q # after /\ q \notin touched
    BY <1>3, <1>14
  <2> DEFINE i == q[1]
             d == q[2]
  <2>2. q = <<i, d>> /\ i \in 0 .. Rows - 1 /\ d \in 0 .. Columns - 1
    BY <1>1, ScreenFacts
  <2>3. screen'[i][d] = screen[i][d]
    <3>1. CASE i = r
      <4>1. screen'[i] = line
        BY <1>2, <1>3, <3>1
      <4>2. q = <<r, d>> /\ d \in DOMAIN line
        BY <1>11, <2>2, <3>1
      <4>3. line[d] = screen[r][d]
        BY <2>1, <4>2
      <4> QED
        BY <3>1, <4>1, <4>3
    <3>2. CASE i # r
      BY <1>2, <1>3, <2>2, <3>2
    <3> QED
      BY <3>1, <3>2
  <2>4. Drawn(q) = screen[i][d]
    BY <2>1 DEF Drawn, At
  <2>5. Drawn(q)' = screen'[i][d]
    BY <1>12, <2>1 DEF Drawn, At
  <2> QED
    BY <2>1, <2>3, <2>4, <2>5
<1>15. CacheShows'
  <2>1. UNCHANGED <<heap, cache, last_size>>
    BY <1>3 DEF Working
  <2> QED
    BY <1>1, <1>7, <1>8, <1>14, <2>1, ShowsStill
<1> QED
  BY <1>3, <1>7, <1>13, <1>15, WorkingKeeps DEF GridIInv

LEMMA LookKeeps ==
    ASSUME GridIInv, NEW look \in Looks, SetLook(look)
    PROVE  GridIInv'
<1>1. ScreenOK /\ TouchedOK /\ CacheShows /\ cursor \in [at : Positions, look : Looks]
  BY DEF GridIInv, TouchedOK
<1>2. /\ Working /\ cursor' = [cursor EXCEPT !.look = look]
      /\ UNCHANGED <<screen, aged, age_reset, pending_content>>
      /\ UNCHANGED <<heap, cache, frame_valid, last_size>>
  BY DEF SetLook, Working
<1>3. Columns' = Columns /\ Rows' = Rows /\ ScreenOK'
  BY <1>1, <1>2, ScreenIs DEF ScreenOK
<1>4. Positions' = Positions
  BY <1>3, SameSize
<1>5. cursor' \in [at : Positions, look : Looks] /\ cursor'.at = cursor.at
  BY <1>1, <1>2
<1>6. TouchedOK'
  BY <1>1, <1>2, <1>4, <1>5 DEF TouchedOK
<1>7. \A p \in Positions : Drawn(p)' = Drawn(p)
  BY <1>2, <1>5 DEF Drawn, At
<1>8. CacheShows'
  BY <1>1, <1>2, <1>3, <1>4, <1>7, ShowsStill
<1> QED
  BY <1>2, <1>3, <1>6, <1>8, WorkingKeeps DEF GridIInv

LEMMA ScrollKeeps ==
    ASSUME GridIInv, NEW delta \in {-1, 1}, Scroll(delta)
    PROVE  GridIInv'
<1>1. ScreenOK /\ TouchedOK /\ CacheShows
  BY DEF GridIInv
<1>2. /\ Columns \in Nat /\ Rows \in Nat /\ DOMAIN screen = 0 .. Rows - 1
      /\ \A r \in 0 .. Rows - 1 : LineOK(screen[r], Columns)
      /\ <<Columns, Rows>> \in Sizes
  BY <1>1, ScreenFacts DEF ScreenOK
<1>3. /\ Working /\ pending_content' = pending_content + delta /\ aged' = Positions
      /\ screen' = [r \in DOMAIN screen |->
                       IF r + delta \in DOMAIN screen THEN screen[r + delta]
                       ELSE BlankLine(Columns)]
      /\ UNCHANGED <<cursor, age_reset>>
      /\ UNCHANGED <<heap, cache, frame_valid, last_size>>
  BY DEF Scroll, Working
<1>4. ScreenShape(screen', Columns, Rows)
  <2>1. LineOK(BlankLine(Columns), Columns)
    BY <1>2, BlankCells
  <2> QED
    BY <1>2, <1>3, <2>1 DEF ScreenShape
<1>5. Columns' = Columns /\ Rows' = Rows /\ ScreenOK'
  BY <1>2, <1>4, ScreenIs
<1>6. Positions' = Positions
  BY <1>5, SameSize
<1>7. TouchedOK'
  BY <1>1, <1>3, <1>6 DEF TouchedOK
<1>8. CacheShows'
  BY <1>1, <1>3, <1>6, ShowsStill
<1> QED
  BY <1>3, <1>5, <1>7, <1>8, WorkingKeeps DEF GridIInv

LEMMA AgeKeeps ==
    ASSUME GridIInv, AgeWraps
    PROVE  GridIInv'
<1>1. ScreenOK /\ TouchedOK /\ CacheShows
  BY DEF GridIInv
<1>2. /\ Working /\ age_reset' = TRUE
      /\ UNCHANGED <<screen, cursor, aged, pending_content>>
      /\ UNCHANGED <<heap, cache, frame_valid, last_size>>
  BY DEF AgeWraps, Working
<1>3. Columns' = Columns /\ Rows' = Rows /\ ScreenOK'
  BY <1>1, <1>2, ScreenIs DEF ScreenOK
<1>4. Positions' = Positions
  BY <1>3, SameSize
<1>5. TouchedOK'
  BY <1>1, <1>2, <1>4 DEF TouchedOK
<1>6. \A p \in Positions : Drawn(p)' = Drawn(p)
  BY <1>2 DEF Drawn, At
<1>7. CacheShows'
  BY <1>1, <1>2, <1>3, <1>4, <1>6, ShowsStill
<1> QED
  BY <1>2, <1>3, <1>5, <1>7, WorkingKeeps DEF GridIInv

LEMMA ResizeKeeps ==
    ASSUME GridIInv, NEW size \in Sizes, Resize(size)
    PROVE  GridIInv'
<1> DEFINE m == size[1]
           n == size[2]
           kept(r, c) == /\ r < Rows /\ c < Columns
                         /\ ~(At(<<r, c>>).width = 2 /\ c + 1 >= m)
<1>1. ScreenOK /\ TouchedOK /\ CacheShows
  BY DEF GridIInv
<1>2. /\ Columns \in Nat /\ Rows \in Nat
      /\ \A r \in 0 .. Rows - 1 : LineOK(screen[r], Columns)
  BY <1>1, ScreenFacts
<1>3. size = <<m, n>> /\ m \in Nat /\ m > 0 /\ n \in Nat /\ n > 0
  BY SizeFacts
<1>4. /\ Working /\ pending_content' = 0 /\ UNCHANGED age_reset
      /\ screen' = [r \in 0 .. n - 1 |-> [c \in 0 .. m - 1 |->
                       IF kept(r, c) THEN At(<<r, c>>) ELSE BlankCell]]
      /\ cursor' = [cursor EXCEPT !.at = <<Smaller(@[1], n - 1), Smaller(@[2], m - 1)>>]
      /\ aged' = {<<r, c>> : r \in 0 .. n - 1, c \in 0 .. m - 1}
      /\ UNCHANGED <<heap, cache, frame_valid, last_size>>
  BY DEF Resize, Working
<1>5. BlankCell \in ScreenCells /\ BlankCell.width = 1
  BY BlankCells
<1>6. ASSUME NEW r \in 0 .. n - 1 PROVE LineOK(screen'[r], m)
  <2> DEFINE line == screen'[r]
  <2>1. line = [c \in 0 .. m - 1 |-> IF kept(r, c) THEN At(<<r, c>>) ELSE BlankCell]
    BY <1>4
  <2>2. ASSUME NEW c \in 0 .. m - 1, kept(r, c)
        PROVE  /\ At(<<r, c>>) \in ScreenCells
               /\ At(<<r, c>>).width = 0 => c > 0 /\ At(<<r, c - 1>>).width = 2
    <3>1. r \in 0 .. Rows - 1 /\ c \in 0 .. Columns - 1
      BY <1>2, <1>3, <2>2
    <3>2. At(<<r, c>>) = screen[r][c] /\ At(<<r, c - 1>>) = screen[r][c - 1]
      BY DEF At
    <3>3. LineOK(screen[r], Columns)
      BY <1>2, <3>1
    <3> QED
      BY <3>1, <3>2, <3>3 DEF LineOK, Paired
  <2>3. line \in [0 .. m - 1 -> ScreenCells]
    <3> HIDE DEF kept
    <3> QED
      BY <1>5, <2>1, <2>2
  <2>4. ASSUME NEW c \in 0 .. m - 1, line[c].width = 0
        PROVE  c > 0 /\ line[c - 1].width = 2
    <3>1. kept(r, c) /\ At(<<r, c>>).width = 0
      BY <1>5, <2>1, <2>4
    <3>2. c > 0 /\ At(<<r, c - 1>>).width = 2
      BY <2>2, <3>1
    <3>3. kept(r, c - 1) /\ c - 1 \in 0 .. m - 1
      BY <1>2, <1>3, <3>1, <3>2
    <3>4. line[c - 1] = At(<<r, c - 1>>)
      <4> HIDE DEF kept
      <4> QED
        BY <2>1, <3>3
    <3> QED
      BY <3>2, <3>4
  <2> QED
    BY <2>3, <2>4 DEF LineOK, Paired
<1> HIDE DEF kept
<1>7. screen' = [r \in 0 .. n - 1 |-> screen'[r]]
  BY <1>4
<1>8. ScreenShape(screen', m, n)
  BY <1>6, <1>7 DEF ScreenShape
<1>9. Columns' = m /\ Rows' = n /\ ScreenOK'
  BY <1>3, <1>8, ScreenIs
<1>10. Positions' = {<<r, c>> : r \in 0 .. n - 1, c \in 0 .. m - 1}
  BY <1>9 DEF Positions
<1>11. cursor' \in [at : Positions', look : Looks]
  <2>1. cursor \in [at : Positions, look : Looks] /\ cursor.at \in Positions
    BY <1>1 DEF TouchedOK
  <2>2. cursor.at[1] \in Nat /\ cursor.at[2] \in Nat
    BY <1>1, <2>1, ScreenFacts
  <2> DEFINE at == <<Smaller(cursor.at[1], n - 1), Smaller(cursor.at[2], m - 1)>>
  <2>3. Smaller(cursor.at[1], n - 1) \in 0 .. n - 1 /\ Smaller(cursor.at[2], m - 1) \in 0 .. m - 1
    BY <1>3, <2>2 DEF Smaller
  <2>4. at \in Positions'
    BY <1>10, <2>3
  <2>5. cursor' = [cursor EXCEPT !.at = at]
    BY <1>4
  <2> HIDE DEF at
  <2> QED
    BY <2>1, <2>4, <2>5
<1>12. TouchedOK'
  BY <1>1, <1>4, <1>10, <1>11 DEF TouchedOK
<1>13. CacheShows'
  BY <1>1, <1>4, <1>10, ShowsStill
<1> QED
  BY <1>4, <1>9, <1>12, <1>13, WorkingKeeps DEF GridIInv

\* What leaves the screen and the core alone, and forgets at most a frame.
LEMMA CoreKeeps ==
    ASSUME GridIInv, UNCHANGED <<tsmVars, coreVars, work>>,
           \A h \in DOMAIN held' : h \in DOMAIN held /\ held'[h] = held[h]
    PROVE  GridIInv'
<1>1. UNCHANGED <<screen, cursor, aged, age_reset, pending_content, heap, cache, frame_valid,
                  last_size, last_cursor, work>>
  BY DEF tsmVars, coreVars
<1>2. ScreenOK /\ TouchedOK /\ CacheShows /\ work \in 0 .. MaxWork
  BY DEF GridIInv
<1>3. Columns' = Columns /\ Rows' = Rows /\ ScreenOK'
  BY <1>1, <1>2, ScreenIs DEF ScreenOK
<1>4. Positions' = Positions
  BY <1>3, SameSize
<1>5. TouchedOK'
  BY <1>1, <1>2, <1>4 DEF TouchedOK
<1>6. \A p \in Positions : Drawn(p)' = Drawn(p)
  BY <1>1 DEF Drawn, At
<1>7. CacheShows'
  BY <1>1, <1>2, <1>3, <1>4, <1>6, ShowsStill
<1>8. InUse' \subseteq InUse
  BY <1>1 DEF InUse
<1>9. PointersValid' /\ GridsGood' /\ HeldOK'
  BY <1>1, <1>8 DEF GridIInv, PointersValid, GridsGood, HeldOK
<1> QED
  BY <1>1, <1>2, <1>3, <1>5, <1>7, <1>9 DEF GridIInv

LEMMA FreeKeeps ==
    ASSUME GridIInv, NEW h0 \in Handles, FreeFrame(h0)
    PROVE  GridIInv'
<1>1. UNCHANGED <<tsmVars, coreVars, work>>
  BY DEF FreeFrame
<1>2. held' = [k \in DOMAIN held \ {h0} |-> held[k]]
  BY DEF FreeFrame
<1>3. \A h \in DOMAIN held' : h \in DOMAIN held /\ held'[h] = held[h]
  BY <1>2
<1> QED
  BY <1>1, <1>3, CoreKeeps

\* A row that shows a line of the screen cuts no wide character either.
LEMMA ShownPaired ==
    ASSUME ScreenOK, NEW grid, ShowsScreen(grid), NEW r \in 0 .. Rows - 1
    PROVE  Paired(grid.data[r].cells, Columns)
<1>1. /\ Columns \in Nat /\ LineOK(screen[r], Columns)
      /\ \A c \in 0 .. Columns - 1 : <<r, c>> \in Positions
  BY ScreenFacts DEF Positions
<1>2. ASSUME NEW c \in 0 .. Columns - 1
      PROVE  grid.data[r].cells[c].width = screen[r][c].width
  <2> DEFINE p == <<r, c>>
  <2>1. p \in Positions /\ p[1] = r /\ p[2] = c
    BY <1>1
  <2>2. At(p) = screen[r][c]
    BY DEF At
  <2> HIDE DEF p
  <2>3. RowShows(grid.data[p[1]], p[2], Drawn(p), grid.styles)
    BY <2>1 DEF ShowsScreen
  <2>4. Drawn(p).width = At(p).width
    BY <2>1, DrawnCell
  <2> QED
    BY <2>1, <2>2, <2>3, <2>4 DEF RowShows, ShownAs
<1>3. \A c \in 0 .. Columns - 1 : screen[r][c].width = 0 => c > 0 /\ screen[r][c - 1].width = 2
  BY <1>1 DEF LineOK, Paired
<1>4. \A c \in 0 .. Columns - 1 : c > 0 => c - 1 \in 0 .. Columns - 1
  BY <1>1
<1> QED
  BY <1>2, <1>3, <1>4 DEF Paired

\* What TakePackedFrame leaves: a grid that shows the screen, in the cache and in
\* the frame.
LEMMA Taken ==
    ASSUME GridIInv, NEW h0 \in Handles, TakeFrame(h0)
    PROVE  /\ cache' \in GridsToFill /\ cache' \in GridIds
           /\ ShowsScreen(heap'[cache'])
           /\ h0 \notin DOMAIN held /\ DOMAIN held' = DOMAIN held \cup {h0}
           /\ held'[h0].grid = cache'
           /\ held'[h0].info.columns = Columns /\ held'[h0].info.rows = Rows
<1> DEFINE taken == PackedFrame(OldGrid)
<1>1. PICK id \in GridsToFill :
          /\ heap' = [heap EXCEPT ![id] = taken.grid]
          /\ cache' = id
          /\ held' = [k \in DOMAIN held \cup {h0} |->
                         IF k = h0 THEN [grid |-> id, info |-> taken.frame] ELSE held[k]]
  BY DEF TakeFrame, OldGrid
<1>2. /\ ShowsScreen(taken.grid)
      /\ taken.frame.columns = Columns /\ taken.frame.rows = Rows
  BY FrameGrid DEF GridIInv
<1> HIDE DEF taken
<1>3. id \in GridIds
  BY FreshGrid DEF GridIInv
<1>4. heap'[id] = taken.grid
  BY <1>1, <1>3 DEF GridIInv, PointersValid
<1>5. h0 \notin DOMAIN held
  BY DEF TakeFrame
<1> QED
  BY <1>1, <1>2, <1>3, <1>4, <1>5

LEMMA TakeKeeps ==
    ASSUME GridIInv, NEW h0 \in Handles, TakeFrame(h0)
    PROVE  GridIInv'
<1> DEFINE id == cache'
           grid == heap'[id]
<1>1. /\ id \in GridIds /\ ShowsScreen(grid)
      /\ DOMAIN held' = DOMAIN held \cup {h0}
      /\ held'[h0].grid = id
      /\ held'[h0].info.columns = Columns /\ held'[h0].info.rows = Rows
  BY Taken
<1>2. /\ pending_content' = 0 /\ frame_valid' = ~age_reset /\ last_size' = <<Columns, Rows>>
      /\ aged' = {} /\ age_reset' = FALSE /\ work' = 0
      /\ UNCHANGED <<screen, cursor>>
  BY DEF TakeFrame
<1>3. /\ PointersValid'
      /\ \A h \in DOMAIN held : /\ h \in DOMAIN held' /\ held'[h] = held[h]
                                /\ heap'[held[h].grid] = heap[held[h].grid]
  BY TakeFrameKeeps DEF GridIInv
<1>4. ScreenOK /\ TouchedOK /\ GridsGood /\ HeldOK
  BY DEF GridIInv
<1>5. Columns' = Columns /\ Rows' = Rows /\ ScreenOK'
  BY <1>2, <1>4, ScreenIs DEF ScreenOK
<1>6. Positions' = Positions
  BY <1>5, SameSize
<1>7. id # NoGrid
  BY <1>1, GridIdsAssumption
<1>8. GoodGrid(grid) /\ grid.columns = Columns /\ grid.rows = Rows
  BY <1>1 DEF ShowsScreen
<1>9. TouchedOK'
  <2>1. cursor' \in [at : Positions', look : Looks]
    BY <1>2, <1>4, <1>6 DEF TouchedOK
  <2>2. aged' \subseteq Positions' /\ age_reset' \in BOOLEAN
    BY <1>2
  <2>3. pending_content' = 0 /\ pending_content' \in Int
    BY <1>2
  <2>4. frame_valid' \in BOOLEAN /\ id # NoGrid
    BY <1>2, <1>7, Zenon
  <2> QED
    BY <2>1, <2>2, <2>3, <2>4 DEF TouchedOK
<1>10. GridsGood'
  <2>1. ASSUME NEW i \in InUse' \ {NoGrid}
        PROVE  GoodGrid(heap'[i])
    <3>1. CASE i = id
      BY <1>8, <3>1
    <3>2. CASE i # id
      <4>1. PICK h \in DOMAIN held' : held'[h].grid = i
        BY <2>1, <3>2 DEF InUse
      <4>2. h \in DOMAIN held /\ held[h].grid = i /\ heap'[i] = heap[i]
        BY <1>1, <1>3, <3>2, <4>1
      <4>3. i \in InUse \ {NoGrid}
        BY <2>1, <4>2 DEF InUse
      <4> QED
        BY <1>4, <4>2, <4>3 DEF GridsGood
    <3> QED
      BY <3>1, <3>2
  <2> QED
    BY <2>1 DEF GridsGood, GoodGrid, StylesOK
<1>11. CacheShows'
  <2>1. last_size' = <<grid.columns, grid.rows>>
    BY <1>2, <1>8
  <2>2. \A r \in 0 .. grid.rows - 1 : Paired(grid.data[r].cells, grid.columns)
    BY <1>1, <1>4, <1>8, ShownPaired
  <2>3. \A p \in Positions : RowShows(grid.data[p[1]], p[2], Drawn(p), grid.styles)
    BY <1>1 DEF ShowsScreen
  <2>4. \A p \in Positions : Drawn(p)' = Drawn(p)
    BY <1>2 DEF Drawn, At
  <2>5. \A p \in Positions' \ aged' :
            RowShows(grid.data[p[1]], p[2], Drawn(p)', grid.styles)
    BY <1>6, <2>3, <2>4
  <2> QED
    BY <2>1, <2>2, <2>5
       DEF CacheShows, RowShows, ShownAs, StyleShown, CellText, Piece
<1>12. HeldOK'
  <2>1. DOMAIN held' \subseteq Handles
    BY <1>1, <1>4 DEF HeldOK
  <2>2. ASSUME NEW h \in DOMAIN held'
        PROVE  /\ heap'[held'[h].grid].columns = held'[h].info.columns
               /\ heap'[held'[h].grid].rows = held'[h].info.rows
    <3>1. CASE h = h0
      BY <1>1, <1>8, <3>1
    <3>2. CASE h # h0
      BY <1>1, <1>3, <1>4, <3>2 DEF HeldOK
    <3> QED
      BY <3>1, <3>2
  <2> QED
    BY <2>1, <2>2 DEF HeldOK
<1>13. work' \in 0 .. MaxWork
  BY <1>2, LimitsAssumption
<1> QED
  BY <1>3, <1>5, <1>9, <1>10, <1>11, <1>12, <1>13 DEF GridIInv

LEMMA GridInitOK ==
    ASSUME GridInit
    PROVE  GridIInv
<1>1. PICK size \in Sizes : screen = [r \in 0 .. size[2] - 1 |-> BlankLine(size[1])]
  BY DEF GridInit
<1>2. /\ cursor \in [at : {<<0, 0>>}, look : Looks] /\ aged = Positions /\ age_reset = FALSE
      /\ pending_content = 0 /\ cache = NoGrid /\ frame_valid = FALSE
      /\ held = <<>> /\ work = 0
  BY DEF GridInit
<1> DEFINE m == size[1]
           n == size[2]
<1>3. size = <<m, n>> /\ m \in Nat /\ m > 0 /\ n \in Nat /\ n > 0
  BY SizeFacts
<1> HIDE DEF m, n
<1>4. LineOK(BlankLine(m), m)
  BY <1>3, BlankCells
<1>5. ScreenShape(screen, m, n)
  BY <1>1, <1>4 DEF ScreenShape, m, n
<1>6. SizeOf(screen) = <<m, n>>
  BY <1>3, <1>5, SizeIs
<1>7. Columns = m /\ Rows = n
  BY <1>6 DEF Columns, Rows
<1>8. ScreenOK
  BY <1>3, <1>5, <1>7 DEF ScreenOK
<1>9. <<0, 0>> \in Positions
  BY <1>3, <1>7 DEF Positions
<1>10. TouchedOK
  <2>1. cursor \in [at : Positions, look : Looks]
    BY <1>2, <1>9
  <2>2. /\ aged \subseteq Positions /\ age_reset \in BOOLEAN
        /\ frame_valid \in BOOLEAN /\ ~frame_valid
    BY <1>2, Zenon
  <2>3. pending_content = 0 /\ pending_content \in Int
    BY <1>2
  <2> QED
    BY <2>1, <2>2, <2>3 DEF TouchedOK
<1>11. DOMAIN held = {}
  BY <1>2
<1>12. PointersValid
  BY PointersInit
<1>13. InUse = {NoGrid}
  BY <1>2, <1>11 DEF InUse
<1>14. GridsGood /\ HeldOK /\ CacheShows
  BY <1>2, <1>11, <1>13 DEF GridsGood, HeldOK, CacheShows
<1>15. work \in 0 .. MaxWork
  BY <1>2, LimitsAssumption
<1> QED
  BY <1>8, <1>10, <1>12, <1>14, <1>15 DEF GridIInv

LEMMA GridStep ==
    ASSUME GridIInv, [GridNext]_gridVars
    PROVE  GridIInv'
<1>1. CASE UNCHANGED gridVars
  <2>1. UNCHANGED <<tsmVars, coreVars, work>> /\ held' = held
    BY <1>1 DEF gridVars
  <2> QED
    BY <2>1, CoreKeeps
<1>2. CASE \E p \in Positions, glyph \in Glyphs : Write(p, glyph)
  BY <1>2, WriteKeeps
<1>3. CASE \E look \in Looks : SetLook(look)
  BY <1>3, LookKeeps
<1>4. CASE \E delta \in {-1, 1} : Scroll(delta)
  BY <1>4, ScrollKeeps
<1>5. CASE AgeWraps
  BY <1>5, AgeKeeps
<1>6. CASE \E size \in Sizes : Resize(size)
  BY <1>6, ResizeKeeps
<1>7. CASE \E h \in Handles : TakeFrame(h)
  BY <1>7, TakeKeeps
<1>8. CASE \E h \in Handles : FreeFrame(h)
  BY <1>8, FreeKeeps
<1> QED
  BY <1>1, <1>2, <1>3, <1>4, <1>5, <1>6, <1>7, <1>8 DEF GridNext

LEMMA GridTypeFollows == GridIInv => GridTypeOK
<1> SUFFICES ASSUME GridIInv
             PROVE  GridTypeOK
  OBVIOUS
<1>1. ScreenOK /\ TouchedOK /\ GridsGood /\ HeldOK /\ PointersValid /\ work \in 0 .. MaxWork
  BY DEF GridIInv
<1>2. ASSUME NEW id \in InUse \ {NoGrid}
      PROVE  /\ Len(heap[id].styles) <= StyleLimit
             /\ \A r \in DOMAIN heap[id].data, c \in 0 .. heap[id].columns - 1 :
                    heap[id].data[r].cells[c].style < Len(heap[id].styles)
  <2> DEFINE grid == heap[id]
  <2>1. GoodGrid(grid)
    BY <1>1, <1>2 DEF GridsGood
  <2> HIDE DEF grid
  <2>2. Len(grid.styles) <= StyleLimit
    BY <2>1 DEF GoodGrid, StylesOK
  <2>3. DOMAIN grid.data = 0 .. grid.rows - 1
    BY <2>1 DEF GoodGrid, GridData
  <2>4. \A r \in 0 .. grid.rows - 1, c \in 0 .. grid.columns - 1 :
            grid.data[r].cells[c].style < Len(grid.styles)
    BY <2>1 DEF GoodGrid, GridData, GridRow
  <2> QED
    BY <2>2, <2>3, <2>4 DEF grid
<1>3. cursor.at \in Positions /\ cursor.look \in Looks
  BY <1>1 DEF TouchedOK
<1> QED
  BY <1>1, <1>2, <1>3 DEF GridTypeOK, ScreenOK, TouchedOK, HeldOK, PointersValid

\* TerminalBackend::Impl and the frames: whatever the child writes, the host
\* resizes and holds, the style of every cell is in the table of its grid, the
\* table keeps its limit, and a held frame has the size of its grid.
THEOREM GridTypes == GridSpec => []GridTypeOK
<1>1. GridInit => GridIInv
  BY GridInitOK
<1>2. GridIInv /\ [GridNext]_gridVars => GridIInv'
  BY GridStep
<1>3. GridIInv => GridTypeOK
  BY GridTypeFollows
<1> QED
  BY <1>1, <1>2, <1>3, PTL DEF GridSpec

LEMMA RowsFollow == GridIInv => RowsWellFormed
<1> SUFFICES ASSUME GridIInv, cache # NoGrid, NEW r \in DOMAIN heap[cache].data
             PROVE  LET row == heap[cache].data[r]
                        n == heap[cache].columns
                    IN /\ Partition(row, row.runs, 0, n)
                       /\ \A i \in 2 .. Len(row.runs) :
                              row.runs[i].style # row.runs[i - 1].style
                       /\ \A run \in Range(row.runs), max \in 1 .. n + 1 :
                              LET spans == RunSpans(row, run, max)
                              IN /\ Partition(row, spans, run.left, run.left + run.count)
                                 /\ \A span \in Range(spans) :
                                        /\ span.count <= Larger(2, max)
                                        /\ LET next == span.left + span.count
                                           IN next < run.left + run.count =>
                                                  row.cells[next].width # 0
  BY DEF RowsWellFormed
<1> DEFINE grid == heap[cache]
           row == grid.data[r]
           n == grid.columns
           runs == row.runs
<1>1. GoodGrid(grid)
  BY DEF GridIInv, GridsGood, InUse
<1>2. r \in 0 .. grid.rows - 1
  BY <1>1 DEF GoodGrid, GridData
<1>3. n \in Nat /\ n > 0
  BY <1>1, SizesAssumption DEF GoodGrid
<1>4. Paired(row.cells, n)
  BY <1>2 DEF GridIInv, CacheShows
<1>5. RowOf(row, n) /\ Split(row.cells, runs, 0, n) /\ Alternate(runs)
  BY <1>1, <1>2 DEF GoodGrid, GridData, GridRow
<1> HIDE DEF grid
<1>6. Partition(row, runs, 0, n)
  <2> DEFINE zero == 0
  <2>1. zero \in Nat /\ zero < n /\ n <= n /\ Split(row.cells, runs, zero, n)
    BY <1>3, <1>5
  <2> HIDE DEF row, runs, n, zero
  <2>2. Partition(row, runs, zero, n)
    BY <1>3, <1>5, <2>1, SplitIsPartition
  <2> QED
    BY <2>2 DEF zero
<1>7. \A i \in 2 .. Len(runs) : runs[i].style # runs[i - 1].style
  BY <1>5 DEF Alternate
<1>8. ASSUME NEW run \in Range(runs), NEW max \in 1 .. n + 1
      PROVE  LET spans == RunSpans(row, run, max)
             IN /\ Partition(row, spans, run.left, run.left + run.count)
                /\ \A span \in Range(spans) :
                       /\ span.count <= Larger(2, max)
                       /\ LET next == span.left + span.count
                          IN next < run.left + run.count => row.cells[next].width # 0
  <2> DEFINE spans == RunSpans(row, run, max)
  <2>1. PICK i \in 1 .. Len(runs) : runs[i] = run
    <3>1. DOMAIN runs = 1 .. Len(runs)
      BY <1>5 DEF Split
    <3> QED
      BY <1>8, <3>1 DEF Range
  <2>2. Covers(row.cells, run) /\ RightOf(run) <= n /\ run \in Runs /\ run.count > 0
    BY <1>5, <2>1 DEF Split, Covers
  <2>3. max \in Nat
    BY <1>3, <1>8
  <2> HIDE DEF row, n, runs
  <2>4. /\ Split(row.cells, spans, run.left, RightOf(run))
        /\ \A j \in 1 .. Len(spans) : /\ spans[j].count <= Larger(2, max)
                                      /\ EndsWhole(row.cells, spans[j], run)
    BY <1>3, <1>4, <1>5, <2>2, <2>3, SpansSplitRun
  <2>5. /\ run.left \in Nat /\ RightOf(run) \in Nat /\ run.left < RightOf(run)
        /\ RightOf(run) = run.left + run.count
    BY <2>2, RunTypes
  <2> HIDE DEF spans
  <2>6. Partition(row, spans, run.left, RightOf(run))
    BY <1>3, <1>5, <2>2, <2>4, <2>5, SplitIsPartition
  <2>7. ASSUME NEW span \in Range(spans)
        PROVE  /\ span.count <= Larger(2, max)
               /\ span.left + span.count < run.left + run.count =>
                      row.cells[span.left + span.count].width # 0
    <3>1. DOMAIN spans = 1 .. Len(spans)
      BY <2>4 DEF Split
    <3>2. PICK j \in 1 .. Len(spans) : spans[j] = span
      BY <2>7, <3>1 DEF Range
    <3> QED
      BY <2>4, <2>5, <3>2 DEF EndsWhole, RightOf
  <2> QED
    BY <2>5, <2>6, <2>7 DEF spans
<1> QED
  BY <1>6, <1>7, <1>8 DEF grid

\* ForEachPackedRun, ForEachPackedRunSpan: whatever was decoded again in whichever
\* order, the runs of every row of the core's grid are the maximal parts of one
\* style, and the spans of a run cover it, within the limit (or two cells), and
\* cut no wide character in two.
THEOREM RowsAreWellFormed == GridSpec => []RowsWellFormed
<1>1. GridInit => GridIInv
  BY GridInitOK
<1>2. GridIInv /\ [GridNext]_gridVars => GridIInv'
  BY GridStep
<1>3. GridIInv => RowsWellFormed
  BY RowsFollow
<1> QED
  BY <1>1, <1>2, <1>3, PTL DEF GridSpec

\* What the host reads of a grid that shows the screen.
LEMMA CellShown ==
    ASSUME ScreenOK, NEW frame, NEW grids, ShowsScreen(grids[frame.grid]), NEW p \in Positions
    PROVE  Shows(FrameCell(frame, grids, p), Drawn(p), grids[frame.grid].styles)
<1> DEFINE grid == grids[frame.grid]
           r == p[1]
           c == p[2]
           row == grid.data[r]
           styles == grid.styles
           index == row.cells[c].style
           drawn == Drawn(p)
           style == PackedStyleFor(drawn.attr)
           cell == [text |-> CellText(row, c), width |-> row.cells[c].width,
                    style |-> styles[index + 1]]
<1>1. /\ GoodGrid(grid) /\ grid.columns = Columns /\ grid.rows = Rows
      /\ RowShows(row, c, drawn, styles)
  BY DEF ShowsScreen
<1>2. r \in 0 .. Rows - 1 /\ c \in 0 .. Columns - 1
  BY ScreenFacts
<1>3. r \in DOMAIN grid.data
  BY <1>1, <1>2 DEF GoodGrid, GridData
<1>4. c \in DOMAIN row.cells
  BY <1>1, <1>2 DEF GoodGrid, GridData, GridRow, RowOf, Contiguous
<1>5. FrameCell(frame, grids, p) = cell
  BY <1>3, <1>4 DEF FrameCell
<1>6. /\ CellText(row, c) = drawn.text /\ row.cells[c].width = drawn.width
      /\ StyleShown(styles, index, style)
  BY <1>1 DEF RowShows, ShownAs
<1>7. styles[1] = DefaultStyle
  BY <1>1 DEF GoodGrid, StylesOK
<1> HIDE DEF row, styles, index, style, drawn
<1>8. IF style \in Range(styles) THEN styles[index + 1] = style
      ELSE styles[index + 1] = DefaultStyle /\ Len(styles) = StyleLimit
  BY <1>6, <1>7 DEF StyleShown
<1>9. cell.text = drawn.text /\ cell.width = drawn.width /\ cell.style = styles[index + 1]
  BY <1>6
<1> HIDE DEF cell
<1>10. Shows(cell, drawn, styles)
  BY <1>8, <1>9 DEF Shows, style
<1> QED
  BY <1>5, <1>10 DEF drawn, styles

\* TakePackedFrame: a new frame has, in every cell, the text, the width and the
\* colours that the screen has when the frame is taken (or the default colours, if
\* the table of styles was full), though only touched cells are visited and cells
\* that a scrolled row already shows are not decoded.
THEOREM FramesShowTheScreen == GridSpec => FramesShowScreen
<1>1. ASSUME GridIInv, GridNext, NEW h \in NewFrames, NEW p \in Positions
      PROVE  Shows(FrameCell(held'[h], heap', p), Drawn(p), heap'[held'[h].grid].styles)
  <2>1. h \in DOMAIN held' /\ h \notin DOMAIN held
    BY DEF NewFrames
  <2>2. PICK h0 \in Handles : TakeFrame(h0)
    <3>1. CASE ~\E k \in Handles : TakeFrame(k)
      <4>1. h \in DOMAIN held
        BY <1>1, <2>1, <3>1, OthersKeep DEF GridIInv
      <4> QED
        BY <2>1, <4>1
    <3> QED
      BY <3>1
  <2>3. h = h0 /\ held'[h].grid = cache' /\ ShowsScreen(heap'[cache'])
    BY <1>1, <2>1, <2>2, Taken
  <2>4. ScreenOK
    BY <1>1 DEF GridIInv
  <2> QED
    BY <2>3, <2>4, CellShown
<1>2. GridIInv /\ [GridNext]_gridVars =>
          [\A h \in NewFrames : \A p \in Positions :
               Shows(FrameCell(held'[h], heap', p), Drawn(p),
                     heap'[held'[h].grid].styles)]_gridVars
  BY <1>1
<1>3. GridIInv /\ [GridNext]_gridVars => GridIInv'
  BY GridStep
<1>4. GridInit => GridIInv
  BY GridInitOK
<1> QED
  BY <1>2, <1>3, <1>4, PTL DEF GridSpec, FramesShowScreen

-----------------------------------------------------------------------------
(* The spans of a frame are what there is to repaint                        *)

LastCursorOK == last_cursor \in [at : Nat \X Nat, look : Looks]

LEMMA CursorSeen ==
    ASSUME ScreenOK, TouchedOK
    PROVE  cursor \in [at : Nat \X Nat, look : Looks]
<1>1. Positions \subseteq Nat \X Nat
  BY ScreenFacts DEF Positions
<1> QED
  BY <1>1 DEF TouchedOK

LEMMA LastCursorInit ==
    ASSUME GridInit
    PROVE  LastCursorOK
<1>1. ScreenOK /\ TouchedOK
  BY GridInitOK DEF GridIInv
<1> QED
  BY <1>1, CursorSeen DEF GridInit, LastCursorOK

LEMMA LastCursorStep ==
    ASSUME GridIInv, LastCursorOK, [GridNext]_gridVars
    PROVE  LastCursorOK'
<1>1. CASE \E h \in Handles : TakeFrame(h)
  <2>1. last_cursor' = cursor
    BY <1>1 DEF TakeFrame
  <2> QED
    BY <2>1, CursorSeen DEF GridIInv, LastCursorOK
<1>2. CASE ~\E h \in Handles : TakeFrame(h)
  <2>1. CASE UNCHANGED gridVars
    BY <2>1 DEF gridVars, coreVars, LastCursorOK
  <2>2. CASE Working
    BY <2>2 DEF Working, LastCursorOK
  <2>3. CASE \E h \in Handles : FreeFrame(h)
    BY <2>3 DEF FreeFrame, coreVars, LastCursorOK
  <2>4. GridNext => Working \/ \E h \in Handles : TakeFrame(h) \/ FreeFrame(h)
    BY DEF GridNext, Write, SetLook, Scroll, AgeWraps, Resize
  <2> QED
    BY <1>2, <2>1, <2>2, <2>3, <2>4
<1> QED
  BY <1>1, <1>2

\* A cell in bounds, as the host reads it.
IsRead(cell, row, c, styles) ==
    /\ row.cells[c].style \in 0 .. Len(styles) - 1
    /\ cell = [text |-> CellText(row, c), width |-> row.cells[c].width,
               style |-> styles[row.cells[c].style + 1]]

LEMMA CellRead ==
    ASSUME NEW frame, NEW grids, NEW grid, grids[frame.grid] = grid, GoodGrid(grid),
           NEW p, NEW r \in 0 .. grid.rows - 1, NEW c \in 0 .. grid.columns - 1,
           p[1] = r, p[2] = c
    PROVE  IsRead(FrameCell(frame, grids, p), grid.data[r], c, grid.styles)
<1>1. r \in DOMAIN grid.data /\ GridRow(grid.data[r], grid.columns, Len(grid.styles))
  BY DEF GoodGrid, GridData
<1> DEFINE row == grid.data[r]
           columns == grid.columns
           styles == grid.styles
<1>2. Len(styles) \in Nat
  BY DEF GoodGrid, StylesOK
<1>3. GridRow(row, columns, Len(styles)) /\ c \in 0 .. columns - 1
  BY <1>1
<1>4. FrameCell(frame, grids, p) = IF r \notin DOMAIN grid.data \/ c \notin DOMAIN row.cells
                                   THEN <<>>
                                   ELSE [text |-> CellText(row, c), width |-> row.cells[c].width,
                                         style |-> styles[row.cells[c].style + 1]]
  BY DEF FrameCell
<1> HIDE DEF row, columns, styles
<1>5. row.cells[c] \in Cells /\ c \in DOMAIN row.cells /\ row.cells[c].style < Len(styles)
  BY <1>3 DEF GridRow, RowOf, Contiguous
<1>6. row.cells[c].style \in Nat
  BY <1>5, CellTypes
<1>7. row.cells[c].style \in 0 .. Len(styles) - 1
  BY <1>2, <1>5, <1>6
<1>8. IsRead(FrameCell(frame, grids, p), row, c, styles)
  BY <1>1, <1>4, <1>5, <1>7 DEF IsRead
<1> QED
  BY <1>8 DEF row, styles

\* Two cells that read alike: the table of one has grown from that of the other.
LEMMA ReadAlike ==
    ASSUME NEW x, NEW y, NEW was, NEW is, NEW c, NEW old, NEW new, StylesOK(old),
           IsRead(x, was, c, old), IsRead(y, is, c, new), StylesGrow(old, new),
           CellText(is, c) = CellText(was, c),
           is.cells[c].style = was.cells[c].style, is.cells[c].width = was.cells[c].width
    PROVE  x = y
<1> DEFINE i == was.cells[c].style + 1
<1>1. i \in 1 .. Len(old)
  <2>1. Len(old) \in Nat
    BY DEF StylesOK
  <2>2. was.cells[c].style \in 0 .. Len(old) - 1
    BY DEF IsRead
  <2> QED
    BY <2>1, <2>2
<1>2. x = [text |-> CellText(was, c), width |-> was.cells[c].width, style |-> old[i]]
  BY DEF IsRead
<1>3. y = [text |-> CellText(was, c), width |-> was.cells[c].width, style |-> new[i]]
  BY DEF IsRead
<1> HIDE DEF i
<1>4. new[i] = old[i]
  BY <1>1 DEF StylesGrow
<1> QED
  BY <1>2, <1>3, <1>4

\* A cell that stays is the one of the last frame, moved, to the host as well.
LEMMA CellStays ==
    ASSUME ScreenOK, TouchedOK, GridsGood, CacheShows,
           NEW frame, NEW grids, ShowsScreen(grids[frame.grid]),
           NEW p \in Positions, NEW delta \in Int, Stays(grids[frame.grid], p, delta)
    PROVE  Blitted(CellsBefore, p, delta) = FrameCell(frame, grids, p)
<1> DEFINE last == [grid |-> cache, info |-> [columns |-> last_size[1], rows |-> last_size[2]]]
           q == <<p[1] + delta, p[2]>>
           old == heap[cache]
           new == grids[frame.grid]
           was == old.data[p[1] + delta]
           is == new.data[p[1]]
           c == p[2]
<1>1. /\ cache # NoGrid /\ last_size = <<Columns, Rows>>
      /\ p[1] + delta \in 0 .. Rows - 1 /\ StylesGrow(old.styles, new.styles)
      /\ CellText(is, c) = CellText(was, c)
      /\ is.cells[c].style = was.cells[c].style
      /\ is.cells[c].width = was.cells[c].width
  BY DEF Stays
<1>2. p[1] \in 0 .. Rows - 1 /\ p[2] \in 0 .. Columns - 1
  BY ScreenFacts
<1>3. /\ GoodGrid(old) /\ old.columns = Columns /\ old.rows = Rows
      /\ GoodGrid(new) /\ new.columns = Columns /\ new.rows = Rows
  <2>1. GoodGrid(old)
    BY <1>1 DEF GridsGood, InUse
  <2>2. last_size = <<old.columns, old.rows>>
    BY <1>1 DEF CacheShows
  <2>3. GoodGrid(new) /\ new.columns = Columns /\ new.rows = Rows
    BY DEF ShowsScreen
  <2> HIDE DEF last, q, old, new, was, is, c
  <2>4. old.columns = Columns /\ old.rows = Rows
    <3>1. <<old.columns, old.rows>> = <<Columns, Rows>>
      BY <1>1, <2>2
    <3> QED
      BY <3>1
  <2> QED
    BY <2>1, <2>3, <2>4
<1>4. last.grid = cache /\ last.info.rows = Rows /\ last.info.columns = Columns
  BY <1>1
<1>5. q \in FramePositions(last) /\ q[1] = p[1] + delta /\ q[2] = c
  <2>1. q[1] = p[1] + delta /\ q[2] = c
    OBVIOUS
  <2> HIDE DEF last, q
  <2>2. q = <<q[1], q[2]>>
    BY DEF q
  <2>3. q[1] \in 0 .. last.info.rows - 1 /\ q[2] \in 0 .. last.info.columns - 1
    BY <1>1, <1>2, <1>4, <2>1
  <2> QED
    BY <2>1, <2>2, <2>3 DEF FramePositions
<1>6. CellsBefore = FrameCells(last, heap)
  BY DEF CellsBefore
<1> DEFINE read == FrameCell(last, heap, q)
<1>7. Blitted(CellsBefore, p, delta) = read
  <2> HIDE DEF last
  <2>1. q \in DOMAIN CellsBefore /\ CellsBefore[q] = read
    BY <1>5, <1>6 DEF FrameCells
  <2> HIDE DEF read
  <2> QED
    BY <2>1 DEF Blitted
<1> HIDE DEF last, q, read, old, new
<1>8. IsRead(read, old.data[q[1]], c, old.styles)
  <2> DEFINE x == q[1]
  <2>1. heap[last.grid] = old /\ x \in 0 .. old.rows - 1 /\ c \in 0 .. old.columns - 1
    BY <1>1, <1>2, <1>3, <1>4, <1>5 DEF old
  <2>2. q[1] = x /\ q[2] = c
    BY <1>5
  <2> HIDE DEF x, c
  <2>3. IsRead(FrameCell(last, heap, q), old.data[x], c, old.styles)
    BY <1>3, <2>1, <2>2, CellRead
  <2> QED
    BY <2>3 DEF x, read
<1>9. IsRead(FrameCell(frame, grids, p), is, c, new.styles)
  <2> DEFINE x == p[1]
  <2>1. grids[frame.grid] = new /\ x \in 0 .. new.rows - 1 /\ c \in 0 .. new.columns - 1
    BY <1>2, <1>3 DEF new
  <2>2. p[1] = x /\ p[2] = c
    OBVIOUS
  <2> HIDE DEF x, c
  <2>3. IsRead(FrameCell(frame, grids, p), new.data[x], c, new.styles)
    BY <1>3, <2>1, <2>2, CellRead
  <2> QED
    BY <2>3 DEF x
<1>10. old.data[q[1]] = was /\ StylesOK(old.styles)
  BY <1>3, <1>5 DEF GoodGrid
<1>11. read = FrameCell(frame, grids, p)
  <2> DEFINE y == FrameCell(frame, grids, p)
  <2>1. IsRead(read, was, c, old.styles) /\ IsRead(y, is, c, new.styles)
    BY <1>8, <1>9, <1>10
  <2> HIDE DEF y, was, is, c
  <2>2. read = y
    BY <1>1, <1>10, <2>1, ReadAlike
  <2> QED
    BY <2>2 DEF y
<1> QED
  BY <1>7, <1>11

\* TakePackedFrame: what the spans of a new frame leave out shows the cells of the
\* frame before, moved by the delta, and no cursor that has moved or changed; there
\* is something to repaint exactly if the frame says so; and its region is the
\* smallest around its spans.
THEOREM SpansSuffice == GridSpec => SpansSufficeToRepaint
<1> DEFINE Repaints(h) ==
               LET f == held'[h].info
                   before == CellsBefore
               IN /\ \A p \in Positions :
                         ~Covered(p, f.spans) =>
                             /\ last_size = <<Columns, Rows>>
                             /\ Blitted(before, p, f.delta) = FrameCell(held'[h], heap', p)
                             /\ cursor # last_cursor => p \notin {cursor.at, last_cursor.at}
                  /\ f.changed = (f.spans # <<>>)
                  /\ f.changed => f.dirty = [left   |-> Min({s.left : s \in Range(f.spans)}),
                                             top    |-> Min({s.row : s \in Range(f.spans)}),
                                             right  |-> Max({s.right : s \in Range(f.spans)}),
                                             bottom |-> Max({s.row + 1 : s \in Range(f.spans)})]
<1>1. ASSUME GridIInv, LastCursorOK, GridNext, NEW h \in NewFrames
      PROVE  Repaints(h)
  <2> DEFINE taken == PackedFrame(OldGrid)
             f == taken.frame
             frame == held'[h]
  <2>1. h \in DOMAIN held' /\ h \notin DOMAIN held
    BY DEF NewFrames
  <2>2. PICK h0 \in Handles : TakeFrame(h0)
    <3>1. CASE ~\E k \in Handles : TakeFrame(k)
      <4>1. h \in DOMAIN held
        BY <1>1, <2>1, <3>1, OthersKeep DEF GridIInv
      <4> QED
        BY <2>1, <4>1
    <3> QED
      BY <3>1
  <2>3. h = h0 /\ frame.grid = cache' /\ ShowsScreen(heap'[cache']) /\ cache' \in GridIds
    BY <1>1, <2>1, <2>2, Taken
  <2>4. /\ ScreenOK /\ TouchedOK /\ GridsGood /\ CacheShows
        /\ last_cursor \in [at : Nat \X Nat, look : Looks]
    BY <1>1 DEF GridIInv, LastCursorOK
  <2>5. frame.info = f /\ heap'[cache'] = taken.grid
    <3>1. PICK id \in GridsToFill :
              /\ heap' = [heap EXCEPT ![id] = taken.grid]
              /\ cache' = id
              /\ held' = [k \in DOMAIN held \cup {h0} |->
                             IF k = h0 THEN [grid |-> id, info |-> taken.frame] ELSE held[k]]
      BY <2>2 DEF TakeFrame, OldGrid
    <3> HIDE DEF taken
    <3> QED
      BY <1>1, <2>3, <3>1 DEF GridIInv, PointersValid
  <2>6. /\ f.changed = (f.spans # <<>>)
        /\ f.changed => Marked(f.dirty, f.spans, Columns, Rows)
        /\ \A p \in Positions : ~InSpans(f.spans, p[1], p[2]) => Stays(taken.grid, p, f.delta)
    BY <2>4, FrameMarked
  <2>7. f.delta \in Int
    <3>1. f.delta = pending_content
      BY DEF PackedFrame
    <3> QED
      BY <2>4, <3>1 DEF TouchedOK
  <2>8. Columns \in Nat /\ Rows \in Nat
    BY <2>4, ScreenFacts
  <2> HIDE DEF taken, f
  <2>9. \A p \in Positions : ~Covered(p, f.spans) => ~InSpans(f.spans, p[1], p[2])
    <3>1. CASE f.spans = <<>>
      BY <3>1 DEF InSpans
    <3>2. CASE f.spans # <<>>
      <4>1. f.spans \in Seq(Spans(Columns, Rows))
        BY <2>6, <3>2 DEF Marked
      <4>2. DOMAIN f.spans = 1 .. Len(f.spans)
        BY <4>1
      <4> QED
        BY <4>2 DEF Covered, InSpans, InSpan
    <3> QED
      BY <3>1, <3>2
  <2>10. ASSUME NEW p \in Positions, ~Covered(p, f.spans)
         PROVE  /\ last_size = <<Columns, Rows>>
                /\ Blitted(CellsBefore, p, f.delta) = FrameCell(frame, heap', p)
                /\ cursor # last_cursor => p \notin {cursor.at, last_cursor.at}
    <3>1. Stays(heap'[frame.grid], p, f.delta) /\ ShowsScreen(heap'[frame.grid])
      BY <2>3, <2>5, <2>6, <2>9, <2>10
    <3>2. last_size = <<Columns, Rows>>
          /\ (cursor # last_cursor => p \notin {cursor.at, last_cursor.at})
      BY <3>1 DEF Stays
    <3> HIDE DEF frame
    <3>3. Blitted(CellsBefore, p, f.delta) = FrameCell(frame, heap', p)
      BY <2>4, <2>7, <3>1, CellStays
    <3> QED
      BY <3>2, <3>3
  <2>11. f.changed => f.dirty = [left   |-> Min({s.left : s \in Range(f.spans)}),
                                 top    |-> Min({s.row : s \in Range(f.spans)}),
                                 right  |-> Max({s.right : s \in Range(f.spans)}),
                                 bottom |-> Max({s.row + 1 : s \in Range(f.spans)})]
    BY <2>6, <2>8, RegionOfSpans
  <2> HIDE DEF frame
  <2> QED
    BY <2>5, <2>6, <2>10, <2>11 DEF frame
<1>2. GridIInv /\ LastCursorOK /\ [GridNext]_gridVars =>
          [\A h \in NewFrames : Repaints(h)]_gridVars
  BY <1>1
<1>3. GridIInv /\ LastCursorOK /\ [GridNext]_gridVars => GridIInv' /\ LastCursorOK'
  BY GridStep, LastCursorStep
<1>4. GridInit => GridIInv /\ LastCursorOK
  BY GridInitOK, LastCursorInit
<1> QED
  BY <1>2, <1>3, <1>4, PTL DEF GridSpec, SpansSufficeToRepaint
=============================================================================
