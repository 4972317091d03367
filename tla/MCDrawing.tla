------------------------------- MODULE MCDrawing -------------------------------
(***************************************************************************)
(* Instances of PackedGrid, GlyphRenderer and CursorStyle for TLC.  The     *)
(* three share no variable, so that interleaving their steps would only    *)
(* multiply their states: which of them moves is chosen at the start.      *)
(***************************************************************************)
EXTENDS PackedGrid, GlyphRenderer, CursorStyle

VARIABLE part   \* the module whose steps are taken

\* The frames: a screen of four columns, where a run beside the cursor has to be
\* split around a wide character, or of two rows, which can scroll.  Two attributes and
\* their inverses, with the initial style, are one too many for a table of 4.
Normal == [fg |-> 7, bg |-> 0, inverse |-> FALSE]
Red    == [Normal EXCEPT !.fg = 1]
SmallSizes == {<<4, 1>>, <<2, 2>>}
NarrowAndWide == {[text |-> <<"x">>, width |-> 1, attr |-> Red],
                  [text |-> <<"w", "W">>, width |-> 2, attr |-> Normal]}

\* The renderer: plain cells, marked ones that have a background and a line,
\* and a wide character.  With cells of three pixels the bitmap of two cells
\* exceeds the whole cache, and two of one cell do; with cells of one pixel
\* three bitmaps would fit, which are one too many.
StyleTable == [i \in 0 .. 2 |->
    [foreground |-> IF i = 0 THEN 0 ELSE 7, background |-> IF i = 2 THEN 4 ELSE 0,
     underline |-> i = 2]]
Narrow(char, style) == [text |-> <<char>>, style |-> style, width |-> 1]
CellKinds == {Narrow(" ", 1), Narrow("x", 1), Narrow("x", 2),
              [text |-> <<"W">>, style |-> 1, width |-> 2],
              [text |-> <<>>, style |-> 1, width |-> 0]}

\* The tracker: what a DECSCUSR is made of, with 1 and 5 for digits.
OutputBytes == {ESC, LeftBracket, SP, LowercaseQ, Semicolon, 49, 53}

DrawingInit ==
    /\ GridInit /\ GlyphInit /\ CursorInit
    /\ part \in {"frames", "glyphs", "cursor"}

FramesMove == part = "frames" /\ GridNext /\ UNCHANGED <<part, glyphVars, cursorVars>>
GlyphsMove == part = "glyphs" /\ GlyphNext /\ UNCHANGED <<part, gridVars, cursorVars>>
CursorMoves == part = "cursor" /\ CursorNext /\ UNCHANGED <<part, gridVars, glyphVars>>

DrawingNext == FramesMove \/ GlyphsMove \/ CursorMoves

\* Bound: the four columns see a frame after every change, and one frame held.
WideScreenBounds ==
    Columns' = 4 => work' <= 1 /\ Cardinality(DOMAIN held') <= 1

DrawingSpec == DrawingInit /\ [][DrawingNext]_<<part, gridVars, glyphVars, cursorVars>>

\* Views that TLC identifies states by.  Grids are told apart by what they
\* show, not by their identity or the order of their styles; of the frames
\* held, how many there are and how many of them share the core's grid decides
\* what can happen.  The two looks of the cursor are interchangeable.
Resolved(grid) ==
    <<Range(grid.styles),
      [r \in DOMAIN grid.data |-> [c \in DOMAIN grid.data[r].cells |->
          LET cell == grid.data[r].cells[c]
          IN <<CellText(grid.data[r], c), cell.width, grid.styles[cell.style + 1]>>]]>>
FramesView ==
    <<screen, cursor.at, cursor.look = last_cursor.look, last_cursor.at, aged, age_reset,
      pending_content, frame_valid, last_size, work,
      IF cache = NoGrid THEN <<>> ELSE Resolved(heap[cache]),
      Cardinality(DOMAIN held), Cardinality({h \in DOMAIN held : held[h].grid = cache})>>

\* Between two frames nothing reads what the last one's dirty region was.
GlyphsView ==
    <<packed_row, row_runs, cell_width, cacheVars, framebuffer, framebuffer_valid,
      IF row_runs = <<>> THEN <<>> ELSE <<dirty_columns, cache_glyphs>>>>

\* The parameters are cleared when a sequence begins.
CursorView ==
    <<cursor_sequence_state, cursor_style, sequence,
      IF cursor_sequence_state \in {"Csi", "CsiIntermediate"}
      THEN cursor_sequence_parameters ELSE <<>>>>

DrawingView ==
    CASE part = "frames" -> <<part, FramesView>>
      [] part = "glyphs" -> <<part, GlyphsView>>
      [] part = "cursor" -> <<part, CursorView>>
=============================================================================
