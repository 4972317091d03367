----------------------------- MODULE CursorStyle -----------------------------
(***************************************************************************)
(* The cursor's style (terminal_core.cpp, TrackCursorStyle).  libtsm does   *)
(* not tell which style the child asked for, so the core reads the output  *)
(* itself: a small automaton looks for DECSCUSR, ESC [ Ps SP q.  Its state  *)
(* survives from one chunk of output to the next, so a chunk is a sequence *)
(* of steps here, one for each byte, and where chunks end does not matter. *)
(***************************************************************************)
EXTENDS Integers, Sequences, FiniteSetsExt

CONSTANTS
    Bytes,          \* the bytes of the output
    ParameterLimit, \* how many parameter bytes are kept (16)
    LongMax,        \* ULONG_MAX: strtoul stops there
    UIntModulus,    \* its result is cast to unsigned int
    MaxSequence     \* bound: bytes after the last ESC, and it

ESC == 27
SP == 32
LowercaseQ == 113
LeftBracket == 91
Semicolon == 59
Digits == 48 .. 57
ParameterBytes == Digits \cup {Semicolon}

ASSUME BytesAssumption == Bytes \subseteq 0 .. 255
ASSUME LimitAssumption ==
    /\ ParameterLimit \in Nat
    /\ LongMax \in Nat
    /\ UIntModulus \in Nat \ {0}
    /\ MaxSequence \in Nat

VARIABLES
    cursor_sequence_state, cursor_sequence_parameters, cursor_style,
    sequence   \* history, which no step reads: the bytes from the last ESC on

cursorVars == <<cursor_sequence_state, cursor_sequence_parameters, cursor_style, sequence>>

SequenceStates == {"Ground", "Escape", "Csi", "CsiIntermediate"}
CursorStyles == {"block", "underline", "bar"}

-----------------------------------------------------------------------------

\* The decimal number at the start of the parameters; 0 where there is none.
Number(parameters) ==
    LET others == {i \in DOMAIN parameters : parameters[i] \notin Digits}
        length == IF others = {} THEN Len(parameters) ELSE Min(others) - 1
        value[i \in 0 .. length] ==
            IF i = 0 THEN 0 ELSE 10 * value[i - 1] + (parameters[i] - 48)
    IN value[length]

\* strtoul, and the cast of its result.
Value(parameters) ==
    LET number == Number(parameters)
    IN (IF number <= LongMax THEN number ELSE LongMax) % UIntModulus

\* DECSCUSR does not tell blinking cursors from steady ones, and an unknown
\* number leaves the style as it is.
StyleNamed(value, style) ==
    CASE value \in 0 .. 2 -> "block"
      [] value \in 3 .. 4 -> "underline"
      [] value \in 5 .. 6 -> "bar"
      [] OTHER -> style

-----------------------------------------------------------------------------

Observe(byte) ==
    /\ sequence' = IF byte = ESC THEN <<ESC>>
                   ELSE IF sequence = <<>> THEN <<>> ELSE Append(sequence, byte)
    /\ Len(sequence') <= MaxSequence

\* A plausible bug: an ESC within a sequence ends it, and is not the start of
\* the next one.
RestartLosesEscape(byte) == "Ground"

\* Where a byte leads that does not go on with the sequence.
Restart(byte) == IF byte = ESC THEN "Escape" ELSE "Ground"

InGround(byte) ==
    /\ cursor_sequence_state = "Ground"
    /\ cursor_sequence_state' = Restart(byte)
    /\ UNCHANGED <<cursor_sequence_parameters, cursor_style>>

InEscape(byte) ==
    /\ cursor_sequence_state = "Escape"
    /\ UNCHANGED cursor_style
    /\ \/ /\ byte = LeftBracket
          /\ cursor_sequence_parameters' = <<>>
          /\ cursor_sequence_state' = "Csi"
       \/ /\ byte # LeftBracket
          /\ cursor_sequence_state' = Restart(byte)
          /\ UNCHANGED cursor_sequence_parameters

\* Parameter bytes beyond the limit are dropped.
InCsi(byte) ==
    /\ cursor_sequence_state = "Csi"
    /\ UNCHANGED cursor_style
    /\ \/ /\ byte \in ParameterBytes
          /\ cursor_sequence_parameters' =
                 IF Len(cursor_sequence_parameters) < ParameterLimit
                 THEN Append(cursor_sequence_parameters, byte)
                 ELSE cursor_sequence_parameters
          /\ UNCHANGED cursor_sequence_state
       \/ /\ byte \notin ParameterBytes
          /\ cursor_sequence_state' = IF byte = SP THEN "CsiIntermediate" ELSE Restart(byte)
          /\ UNCHANGED cursor_sequence_parameters

InCsiIntermediate(byte) ==
    /\ cursor_sequence_state = "CsiIntermediate"
    /\ UNCHANGED cursor_sequence_parameters
    /\ \/ /\ byte = LowercaseQ
          /\ cursor_style' = StyleNamed(Value(cursor_sequence_parameters), cursor_style)
          /\ cursor_sequence_state' = "Ground"
       \/ /\ byte # LowercaseQ
          /\ cursor_sequence_state' = Restart(byte)
          /\ UNCHANGED cursor_style

TrackCursorStyle(byte) ==
    /\ \/ InGround(byte)
       \/ InEscape(byte)
       \/ InCsi(byte)
       \/ InCsiIntermediate(byte)
    /\ Observe(byte)

CursorInit ==
    /\ cursor_sequence_state = "Ground"
    /\ cursor_sequence_parameters = <<>>
    /\ cursor_style = "block"
    /\ sequence = <<>>

CursorNext == \E byte \in Bytes : TrackCursorStyle(byte)

CursorSpec == CursorInit /\ [][CursorNext]_cursorVars

-----------------------------------------------------------------------------
(* Properties                                                               *)

\* DECSCUSR, told from the bytes alone.
IsDecscusr(s) ==
    /\ Len(s) >= 4
    /\ s[1] = ESC /\ s[2] = LeftBracket
    /\ \A i \in 3 .. Len(s) - 2 : s[i] \in ParameterBytes
    /\ s[Len(s) - 1] = SP /\ s[Len(s)] = LowercaseQ
ParametersOf(s) == SubSeq(s, 3, Len(s) - 2)

\* Parameters that are kept in full and whose number the conversion keeps.
Kept(parameters) ==
    Len(parameters) <= ParameterLimit /\ Value(parameters) = Number(parameters)

\* The style follows the output exactly, however it is cut into chunks and
\* whatever other or broken sequences surround a DECSCUSR: it changes with
\* the last byte of one, to the style its number names, and with no other.
CursorStyleFollowsSequences ==
    [][IF IsDecscusr(sequence')
       THEN Kept(ParametersOf(sequence')) =>
                cursor_style' = StyleNamed(Number(ParametersOf(sequence')), cursor_style)
       ELSE cursor_style' = cursor_style]_cursorVars

=============================================================================
