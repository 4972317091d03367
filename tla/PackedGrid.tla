------------------------------ MODULE PackedGrid ------------------------------
(***************************************************************************)
(* The frames of the terminal core (terminal_core.cpp, TakePackedFrame and *)
(* the frame functions of the C API): "a frame owns an immutable view of   *)
(* the rendered screen" (architecture.md), and still a frame costs only    *)
(* what changed.  The core keeps one grid of packed rows; a frame refers   *)
(* to it, and the core changes it in place for the next frame unless a     *)
(* frame still refers to it, in which case it goes on with a copy.         *)
(*                                                                         *)
(* FramePipeline has a screen of one column and all ways of scrolling it;  *)
(* here rows have columns, wide characters and styles, and the host may    *)
(* hold frames for as long as it likes.  What libtsm does to the screen is *)
(* outside this repository: a write clears the other half of a wide        *)
(* character it cuts, and touches every cell whose look changes.           *)
(***************************************************************************)
EXTENDS PackedRow, FiniteSetsExt

CONSTANTS
    Sizes,       \* <<columns, rows>> the screen can have
    Glyphs,      \* what the child writes: [text, width, attr]
    BlankAttr,   \* the attributes of an empty cell
    Looks,       \* the cursor's styles
    StyleLimit,  \* how many styles the table of a grid holds (65535)
    Handles,     \* what the host can hold frames by
    GridIds,     \* identities of grids
    NoGrid,      \* the null pointer
    MaxWork      \* bound: changes of the screen between two frames

ASSUME SizesAssumption == Sizes # {} /\ Sizes \subseteq (Nat \ {0}) \X (Nat \ {0})
ASSUME LimitsAssumption == StyleLimit \in Nat \ {0} /\ MaxWork \in Nat \ {0}
ASSUME GridIdsAssumption == NoGrid \notin GridIds

\* A color is a number; a character is one or two cells wide, and libtsm keeps
\* the code points that combine with it in the same cell.
Attrs == [fg : Nat, bg : Nat, inverse : BOOLEAN]
ASSUME GlyphsAssumption ==
    /\ BlankAttr \in Attrs
    /\ Glyphs \subseteq [text : Seq(STRING), width : {1, 2}, attr : Attrs]

VARIABLES
    \* tsm_screen: its cells, the cursor, the cells touched since the last draw,
    \* and has the age counter wrapped around?
    screen, cursor, aged, age_reset,
    \* TerminalBackend::Impl
    pending_content,                      \* pending_content_scroll_delta_
    heap, cache,                          \* the grids, packed_grid_cache_
    frame_valid, last_size, last_cursor,  \* packed_frame_valid_, packed_last_*
    \* the host: the frames it holds
    held,
    work   \* changes since the last frame

tsmVars  == <<screen, cursor, aged, age_reset>>
coreVars == <<pending_content, heap, cache, frame_valid, last_size, last_cursor>>
gridVars == <<tsmVars, coreVars, held, work>>

-----------------------------------------------------------------------------
(* The screen of libtsm                                                     *)

SizeOf(s) == <<Cardinality(DOMAIN s[0]), Cardinality(DOMAIN s)>>
Columns == SizeOf(screen)[1]
Rows == SizeOf(screen)[2]
Positions == {<<r, c>> : r \in 0 .. Rows - 1, c \in 0 .. Columns - 1}
At(p) == screen[p[1]][p[2]]

BlankCell == [text |-> <<SPACE>>, width |-> 1, attr |-> BlankAttr]
RightHalf(attr) == [text |-> <<>>, width |-> 0, attr |-> attr]
BlankLine(columns) == [c \in 0 .. columns - 1 |-> BlankCell]

\* A line with a glyph written at a column.
Written(line, column, glyph) ==
    [c \in DOMAIN line |->
        IF c = column THEN glyph
        ELSE IF c = column + 1 /\ glyph.width = 2 THEN RightHalf(glyph.attr)
        ELSE IF c = column - 1 /\ line[c].width = 2 THEN BlankCell
        ELSE IF c = column + glyph.width /\ line[c].width = 0 THEN BlankCell
        ELSE line[c]]

\* The cell as libtsm draws it: inverted under the cursor.
Drawn(p) ==
    IF p = cursor.at THEN [At(p) EXCEPT !.attr.inverse = ~@] ELSE At(p)

Working ==
    /\ work < MaxWork
    /\ work' = work + 1
    /\ UNCHANGED <<heap, cache, frame_valid, last_size, last_cursor, held>>

\* CUP and a character: it is written, and the cursor stands after it.
Write(p, glyph) ==
    LET line == Written(screen[p[1]], p[2], glyph)
        after == <<p[1], Smaller(Columns - 1, p[2] + glyph.width)>>
    IN /\ Working
       /\ p[2] + glyph.width <= Columns
       /\ screen' = [screen EXCEPT ![p[1]] = line]
       /\ cursor' = [cursor EXCEPT !.at = after]
       /\ aged' = aged \cup {cursor.at, after}
                      \cup {<<p[1], c>> : c \in {d \in DOMAIN line :
                                d = p[2] \/ line[d] # screen[p[1]][d]}}
       /\ UNCHANGED <<age_reset, pending_content>>

\* DECSCUSR: no cell is touched.
SetLook(look) ==
    /\ Working
    /\ look # cursor.look
    /\ cursor' = [cursor EXCEPT !.look = look]
    /\ UNCHANGED <<screen, aged, age_reset, pending_content>>

\* The whole screen moves by a row, and ObserveScreenScroll notices.
Scroll(delta) ==
    /\ Working
    /\ screen' = [r \in DOMAIN screen |->
                     IF r + delta \in DOMAIN screen THEN screen[r + delta]
                     ELSE BlankLine(Columns)]
    /\ pending_content' = pending_content + delta
    /\ aged' = Positions
    /\ UNCHANGED <<cursor, age_reset>>

\* The counter libtsm stamps cells with has wrapped around: it draws all
\* cells with age 0 once, and answers 0.
AgeWraps ==
    /\ Working
    /\ ~age_reset
    /\ age_reset' = TRUE
    /\ UNCHANGED <<screen, cursor, aged, pending_content>>

\* TerminalBackend::Resize: what fits is kept, half a wide character does not.
Resize(size) ==
    LET kept(r, c) == /\ r < Rows /\ c < Columns
                      /\ ~(At(<<r, c>>).width = 2 /\ c + 1 >= size[1])
    IN /\ Working
       /\ size # <<Columns, Rows>>
       /\ screen' = [r \in 0 .. size[2] - 1 |-> [c \in 0 .. size[1] - 1 |->
                        IF kept(r, c) THEN At(<<r, c>>) ELSE BlankCell]]
       /\ cursor' = [cursor EXCEPT !.at = <<Smaller(@[1], size[2] - 1),
                                            Smaller(@[2], size[1] - 1)>>]
       /\ aged' = {<<r, c>> : r \in 0 .. size[2] - 1, c \in 0 .. size[1] - 1}
       /\ pending_content' = 0
       /\ UNCHANGED age_reset

-----------------------------------------------------------------------------
(* The styles of a grid                                                     *)

PackedStyleFor(attr) ==
    IF attr.inverse THEN [foreground |-> attr.bg, background |-> attr.fg]
    ELSE [foreground |-> attr.fg, background |-> attr.bg]

\* PackedStyle's initial values, black on black: what a blank row has.
DefaultStyle == [foreground |-> 0, background |-> 0]

\* A plausible bug: the limit is compared after the style was added.
StylesOneMore(styles, style) ==
    IF style \in Range(styles) \/ Len(styles) > StyleLimit THEN styles
    ELSE Append(styles, style)

\* The table only grows.  When it is full, a new style gets index 0.
StylesWith(styles, style) ==
    IF style \in Range(styles) \/ Len(styles) >= StyleLimit THEN styles
    ELSE Append(styles, style)
StyleIndex(styles, style) ==
    IF style \in Range(styles) THEN (CHOOSE i \in DOMAIN styles : styles[i] = style) - 1
    ELSE 0

-----------------------------------------------------------------------------
(* TakePackedFrame                                                          *)

EmptyGrid == [styles |-> <<>>, columns |-> 0, rows |-> 0, data |-> <<>>]

EnsurePackedGrid(grid, columns, rows) ==
    LET styles == IF grid.styles = <<>> THEN <<DefaultStyle>> ELSE grid.styles
    IN IF grid.columns = columns /\ grid.rows = rows
       THEN [grid EXCEPT !.styles = styles]
       ELSE [styles |-> styles, columns |-> columns, rows |-> rows,
             data |-> [r \in 0 .. rows - 1 |-> BlankRow(columns)]]

RotatePackedRows(grid, delta) ==
    [grid EXCEPT !.data = [r \in DOMAIN @ |->
        IF r + delta \in DOMAIN @ THEN @[r + delta] ELSE BlankRow(grid.columns)]]

\* A plausible bug: a cell that changed its style only counts as shown.
AlreadyShownText(row, column, index, cell) ==
    /\ row.cells[column].width = cell.width
    /\ CellText(row, column) = cell.text

\* Does a row of the grid show a cell already?
AlreadyShown(row, column, index, cell) ==
    /\ row.cells[column].style = index
    /\ row.cells[column].width = cell.width
    /\ CellText(row, column) = cell.text

\* DrawPackedCell: nothing is done for a cell that a rotated row already
\* shows; the others are decoded and must be repainted.
DrawPackedCell(context, p, data, reuse) ==
    LET cell == Drawn(p)
        style == PackedStyleFor(cell.attr)
        styles == StylesWith(context.styles, style)
        index == StyleIndex(styles, style)
        shown == AlreadyShown(data[p[1]], p[2], index, cell)
    IN IF reuse /\ shown THEN [context EXCEPT !.styles = styles]
       ELSE [styles  |-> styles,
             changes |-> [q \in DOMAIN context.changes \cup {p} |->
                             IF q = p THEN [text |-> cell.text, style |-> index,
                                            width |-> cell.width]
                             ELSE context.changes[q]],
             dirty   |-> IncludeDirty(context.dirty, p[2], p[1], cell.width, Columns, Rows),
             spans   |-> IncludeCellSpan(context.spans, p[2], p[1], cell.width,
                                         Columns, Rows)]

\* tsm_screen_draw: the cells to be visited are drawn, row by row.
DrawScreen(grid, visited, reuse) ==
    LET at(i) == <<(i - 1) \div Columns, (i - 1) % Columns>>
        drawn[i \in 0 .. Rows * Columns] ==
            IF i = 0 THEN [styles |-> grid.styles, changes |-> <<>>,
                           dirty |-> NoRegion, spans |-> <<>>]
            ELSE IF at(i) \in visited
            THEN DrawPackedCell(drawn[i - 1], at(i), grid.data, reuse)
            ELSE drawn[i - 1]
    IN drawn[Rows * Columns]

RebuildPackedRows(data, changes) ==
    [r \in DOMAIN data |->
        LET columns == {c \in 0 .. Columns - 1 : <<r, c>> \in DOMAIN changes}
        IN IF columns = {} THEN data[r]
           ELSE RebuiltRow(data[r], [c \in columns |-> changes[<<r, c>>]])]

\* The cells a cursor leaves and enters, or changes its look in.
IncludeCursor(context, p) ==
    [context EXCEPT
        !.dirty = IncludeDirty(@, p[2], p[1], 1, Columns, Rows),
        !.spans = IncludeCellSpan(@, p[2], p[1], 1, Columns, Rows)]

\* The rows a scroll by delta brings in, from <<top>> to below <<bottom>>.
IncludeExposed(context, delta) ==
    LET top == IF delta > 0 THEN Rows - delta ELSE 0
        bottom == IF delta > 0 THEN Rows ELSE -delta
    IN [context EXCEPT
           !.dirty = IncludeRegion(@, 0, top, Columns, bottom),
           !.spans = IncludeRowSpans(@, top, bottom, Columns)]

\* Everything TakePackedFrame computes from a grid it may change: the grid it
\* leaves there, and the frame.
PackedFrame(old) ==
    LET ensured == EnsurePackedGrid(old, Columns, Rows)
        resized == ~frame_valid \/ last_size # <<Columns, Rows>>
        delta == pending_content
        reuse == ~resized /\ delta # 0 /\ delta < Rows /\ -delta < Rows
        redraw == resized \/ (delta # 0 /\ ~reuse)
        grid == IF reuse THEN RotatePackedRows(ensured, delta) ELSE ensured
        moved == frame_valid /\ cursor # last_cursor
        visited == IF redraw \/ age_reset THEN Positions
                   ELSE aged \cup (IF moved THEN {cursor.at, last_cursor.at} \cap Positions
                                   ELSE {})
        drawn == DrawScreen(grid, visited, reuse)
        pointed == IF moved THEN IncludeCursor(IncludeCursor(drawn, last_cursor.at), cursor.at)
                   ELSE drawn
        final == IF reuse THEN IncludeExposed(pointed, delta) ELSE pointed
        whole == WholeRegion(Columns, Rows)
        full == redraw \/ age_reset \/ final.dirty = whole
    IN [grid  |-> [grid EXCEPT !.styles = drawn.styles,
                               !.data = RebuildPackedRows(@, drawn.changes)],
        frame |-> [columns |-> Columns, rows |-> Rows, cursor |-> cursor, delta |-> delta,
                   full    |-> full,
                   dirty   |-> IF age_reset \/ (full /\ DirtyEmpty(final.dirty)) THEN whole
                               ELSE final.dirty,
                   spans   |-> IF full THEN FullSpans(Columns, Rows) ELSE final.spans,
                   changed |-> full \/ ~DirtyEmpty(final.dirty)]]

InUse == {cache} \cup {held[h].grid : h \in DOMAIN held}

\* A plausible bug: the cache is changed in place whenever there is one.
GridsToFillInPlace ==
    IF cache = NoGrid THEN GridIds \ InUse ELSE {cache}

\* The grid the next frame is made in: the cache, or, if there is none or a
\* frame refers to it too (use_count() > 1), a new one.
GridsToFill ==
    IF cache = NoGrid \/ \E h \in DOMAIN held : held[h].grid = cache
    THEN GridIds \ InUse
    ELSE {cache}

\* sakura_terminal_take_frame.
TakeFrame(h) ==
    /\ h \notin DOMAIN held
    /\ \E id \in GridsToFill :
           LET taken == PackedFrame(IF cache = NoGrid THEN EmptyGrid ELSE heap[cache])
           IN /\ heap' = [heap EXCEPT ![id] = taken.grid]
              /\ cache' = id
              /\ held' = [k \in DOMAIN held \cup {h} |->
                             IF k = h THEN [grid |-> id, info |-> taken.frame] ELSE held[k]]
    /\ pending_content' = 0
    /\ frame_valid' = ~age_reset
    /\ last_size' = <<Columns, Rows>>
    /\ last_cursor' = cursor
    /\ aged' = {}
    /\ age_reset' = FALSE
    /\ work' = 0
    /\ UNCHANGED <<screen, cursor>>

\* sakura_terminal_frame_free.
FreeFrame(h) ==
    /\ h \in DOMAIN held
    /\ held' = [k \in DOMAIN held \ {h} |-> held[k]]
    /\ UNCHANGED <<tsmVars, coreVars, work>>

GridInit ==
    /\ \E size \in Sizes : screen = [r \in 0 .. size[2] - 1 |-> BlankLine(size[1])]
    /\ cursor \in [at : {<<0, 0>>}, look : Looks]
    /\ aged = Positions
    /\ age_reset = FALSE
    /\ pending_content = 0
    /\ heap = [id \in GridIds |-> EmptyGrid]
    /\ cache = NoGrid
    /\ frame_valid = FALSE
    /\ last_size = <<0, 0>>
    /\ last_cursor = cursor
    /\ held = <<>>
    /\ work = 0

GridNext ==
    \/ \E p \in Positions, glyph \in Glyphs : Write(p, glyph)
    \/ \E look \in Looks : SetLook(look)
    \/ \E delta \in {-1, 1} : Scroll(delta)
    \/ AgeWraps
    \/ \E size \in Sizes : Resize(size)
    \/ \E h \in Handles : TakeFrame(h)
    \/ \E h \in Handles : FreeFrame(h)

GridSpec == GridInit /\ [][GridNext]_gridVars

-----------------------------------------------------------------------------
(* Properties                                                               *)

\* What sakura_terminal_frame_cell answers.
FrameCell(frame, grids, p) ==
    LET grid == grids[frame.grid]
        row == grid.data[p[1]]
    IN IF p[1] \notin DOMAIN grid.data \/ p[2] \notin DOMAIN row.cells THEN <<>>
       ELSE [text |-> CellText(row, p[2]), width |-> row.cells[p[2]].width,
             style |-> grid.styles[row.cells[p[2]].style + 1]]
FramePositions(frame) ==
    {<<r, c>> : r \in 0 .. frame.info.rows - 1, c \in 0 .. frame.info.columns - 1}
FrameCells(frame, grids) == [p \in FramePositions(frame) |-> FrameCell(frame, grids, p)]

\* A cell has its own style, unless the table was full before it came.
Shows(cell, drawn, styles) ==
    /\ cell.text = drawn.text
    /\ cell.width = drawn.width
    /\ LET style == PackedStyleFor(drawn.attr)
       IN IF style \in Range(styles) THEN cell.style = style
          ELSE cell.style = DefaultStyle /\ Len(styles) = StyleLimit

NewFrames == {h \in DOMAIN held' : h \notin DOMAIN held}

\* "A frame owns an immutable view of the rendered screen": what the host
\* reads of a frame it holds does not change, whatever becomes of the core and
\* of the other frames, although the core fills the same grid again and again.
HeldFramesFrozen ==
    [][\A h \in DOMAIN held \cap DOMAIN held' :
           FrameCells(held'[h], heap') = FrameCells(held[h], heap)]_<<heap, held>>

\* And what it reads of a new one is the screen: text, widths and colours of
\* every cell, whether decoded for this frame or left from earlier ones.
FramesShowScreen ==
    [][\A h \in NewFrames : \A p \in Positions :
           Shows(FrameCell(held'[h], heap', p), Drawn(p), heap'[held'[h].grid].styles)
      ]_gridVars

Covered(p, spans) ==
    \E i \in DOMAIN spans : /\ spans[i].row = p[1]
                            /\ spans[i].left <= p[2] /\ p[2] < spans[i].right

\* The picture of the last frame, moved by the new frame's delta.
CellsBefore == FrameCells([grid |-> cache, info |-> [columns |-> last_size[1],
                                                      rows    |-> last_size[2]]], heap)
Blitted(before, p, delta) ==
    before[IF <<p[1] + delta, p[2]>> \in DOMAIN before THEN <<p[1] + delta, p[2]>> ELSE p]

\* "A frontend may blit its framebuffer by that delta and repaint the newly
\* exposed dirty spans": outside the spans of a frame its cells are those of
\* the frame before, moved by the delta, and the cursor is neither where it
\* was nor where it is; and the dirty region is what bounds the spans.
SpansSufficeToRepaint ==
    [][\A h \in NewFrames :
        LET f == held'[h].info
            before == CellsBefore
        IN /\ \A p \in Positions :
                  ~Covered(p, f.spans) =>
                      /\ last_size = <<Columns, Rows>>
                      /\ Blitted(before, p, f.delta) = FrameCell(held'[h], heap', p)
                      /\ cursor # last_cursor => p \notin {cursor.at, last_cursor.at}
           /\ f.changed = (f.spans # <<>>)
           /\ f.changed => f.dirty = [left   |-> Min({s.left : s \in Range(f.spans)}),
                                      top    |-> Min({s.row : s \in Range(f.spans)}),
                                      right  |-> Max({s.right : s \in Range(f.spans)}),
                                      bottom |-> Max({s.row + 1 : s \in Range(f.spans)})]
      ]_gridVars

\* The rows keep the shape that renderers rely on, whichever cells were
\* decoded again: runs are the maximal parts of one style, and the spans a
\* glyph cache asks for split a run without cutting a wide character and
\* without exceeding the limit, or two cells.
RowsWellFormed ==
    cache # NoGrid =>
        LET grid == heap[cache]
        IN \A r \in DOMAIN grid.data :
            LET row == grid.data[r]
            IN /\ Partition(row, row.runs, 0, grid.columns)
               /\ \A i \in 2 .. Len(row.runs) : row.runs[i].style # row.runs[i - 1].style
               /\ \A run \in Range(row.runs), max \in 1 .. grid.columns + 1 :
                      LET spans == RunSpans(row, run, max)
                      IN /\ Partition(row, spans, run.left, run.left + run.count)
                         /\ \A span \in Range(spans) :
                                /\ span.count <= Larger(2, max)
                                /\ LET next == span.left + span.count
                                   IN next < run.left + run.count =>
                                          row.cells[next].width # 0

\* Types: every index stays within its table, and the tables within their
\* limits; a frame's grid has the frame's size.
GridTypeOK ==
    /\ <<Columns, Rows>> \in Sizes
    /\ cursor.at \in Positions /\ cursor.look \in Looks
    /\ aged \subseteq Positions
    /\ cache \in GridIds \cup {NoGrid}
    /\ DOMAIN held \subseteq Handles
    /\ \A id \in InUse \ {NoGrid} :
           /\ Len(heap[id].styles) <= StyleLimit
           /\ \A r \in DOMAIN heap[id].data, c \in 0 .. heap[id].columns - 1 :
                  heap[id].data[r].cells[c].style < Len(heap[id].styles)
    /\ \A h \in DOMAIN held :
           /\ heap[held[h].grid].columns = held[h].info.columns
           /\ heap[held[h].grid].rows = held[h].info.rows
    /\ work \in 0 .. MaxWork

=============================================================================
