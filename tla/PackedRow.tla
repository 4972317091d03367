------------------------------ MODULE PackedRow ------------------------------
(***************************************************************************)
(* Rows of a packed frame (terminal_core.cpp), as pure operators.  A packed *)
(* row is the text of its cells, one after the other, with for each cell   *)
(* its piece of the text, its style and its width; and the runs, the parts *)
(* of one style, that a renderer draws with one call.  A wide character is *)
(* a cell of width 2 and, on its right, one of width 0 and no text.        *)
(*                                                                         *)
(* Columns and text offsets count from 0 as in the code.                   *)
(***************************************************************************)
EXTENDS Integers, Sequences, FiniteSets, SequencesExt

SPACE == " "

Smaller(a, b) == IF a <= b THEN a ELSE b
Larger(a, b)  == IF a <= b THEN b ELSE a

\* The piece of a row's text that starts at an offset.
Piece(row, offset, length) == SubSeq(row.text, offset + 1, offset + length)
CellText(row, column) == Piece(row, row.cells[column].offset, row.cells[column].length)

BlankRow(columns) ==
    [cells |-> [c \in 0 .. columns - 1 |->
                   [offset |-> c, length |-> 1, style |-> 0, width |-> 1]],
     text  |-> [i \in 1 .. columns |-> SPACE],
     runs  |-> <<[left |-> 0, count |-> columns, style |-> 0,
                  offset |-> 0, length |-> columns]>>]

\* One more cell: it goes on with the last run if it has its style.
ExtendRuns(cells, runs, column) ==
    LET cell == cells[column]
        last == Len(runs)
        continues == last > 0 /\ runs[last].style = cell.style
    IN IF continues
       THEN [runs EXCEPT ![last].count  = @ + 1,
                         ![last].length = cell.offset + cell.length - runs[last].offset]
       ELSE Append(runs, [left |-> column, count |-> 1, style |-> cell.style,
                          offset |-> cell.offset, length |-> cell.length])

\* A row whose changed cells are decoded again: the others keep their text,
\* which moves to where it now belongs.
RebuiltRow(old, changes) ==
    LET columns == Cardinality(DOMAIN old.cells)
        decoded(c) ==
            IF c \in DOMAIN changes THEN changes[c]
            ELSE [text |-> CellText(old, c), style |-> old.cells[c].style,
                  width |-> old.cells[c].width]
        text[c \in 0 .. columns] ==
            IF c = 0 THEN <<>> ELSE text[c - 1] \o decoded(c - 1).text
        cells == [c \in 0 .. columns - 1 |->
                     [offset |-> Len(text[c]), length |-> Len(decoded(c).text),
                      style |-> decoded(c).style, width |-> decoded(c).width]]
        runs[c \in 0 .. columns] ==
            IF c = 0 THEN <<>> ELSE ExtendRuns(cells, runs[c - 1], c - 1)
    IN [cells |-> cells, text |-> text[columns], runs |-> runs[columns]]

-----------------------------------------------------------------------------
(* ForEachPackedRunSpan: a run in spans a glyph cache can hold.             *)

\* A plausible bug: the cell after the span is looked at, not the last one.
SpanCellsLookPast(row, run, max, offset) ==
    LET count == Smaller(max, run.count - offset)
        cuts == /\ count < run.count - offset
                /\ count > 1
                /\ row.cells[run.left + offset + count].width > 1
    IN IF cuts THEN count - 1 ELSE count

\* How many cells the span takes that starts at an offset within the run: a
\* wide character that would be cut goes to the next span.
SpanCells(row, run, max, offset) ==
    LET count == Smaller(max, run.count - offset)
        cuts == /\ count < run.count - offset
                /\ count > 1
                /\ row.cells[run.left + offset + count - 1].width > 1
    IN IF cuts THEN count - 1 ELSE count

NextSpan(row, run, max, done) ==
    LET left  == run.left + done.offset
        count == SpanCells(row, run, max, done.offset)
        first == row.cells[left]
        last  == row.cells[left + count - 1]
    IN IF done.offset = run.count THEN done
       ELSE [offset |-> done.offset + count,
             spans  |-> Append(done.spans,
                 [left |-> left, count |-> count, style |-> run.style,
                  offset |-> first.offset,
                  length |-> last.offset + last.length - first.offset])]

\* A two-cell glyph is the smallest indivisible span.  No run has more spans
\* than cells.
RunSpans(row, run, maxCells) ==
    LET split[i \in 0 .. run.count] ==
            IF i = 0 THEN [offset |-> 0, spans |-> <<>>]
            ELSE NextSpan(row, run, Larger(2, maxCells), split[i - 1])
    IN split[run.count].spans

-----------------------------------------------------------------------------
(* What must be repainted: a region that bounds it, and spans of the rows.  *)

NoRegion == [left |-> 0, top |-> 0, right |-> 0, bottom |-> 0]
WholeRegion(columns, rows) ==
    [left |-> 0, top |-> 0, right |-> columns, bottom |-> rows]
DirtyEmpty(dirty) == dirty.left >= dirty.right \/ dirty.top >= dirty.bottom

\* The columns a cell stands for: a cell of width 0 takes in the left half.
CellLeft(column, width) == IF width = 0 /\ column > 0 THEN column - 1 ELSE column
CellRight(column, width, columns) ==
    Smaller(columns, column + (IF width = 0 THEN 2 ELSE width))

IncludeRegion(dirty, left, top, right, bottom) ==
    IF DirtyEmpty(dirty)
    THEN [left |-> left, top |-> top, right |-> right, bottom |-> bottom]
    ELSE [left  |-> Smaller(dirty.left, left),   top    |-> Smaller(dirty.top, top),
          right |-> Larger(dirty.right, right),  bottom |-> Larger(dirty.bottom, bottom)]

IncludeDirty(dirty, column, row, width, columns, rows) ==
    IF column >= columns \/ row >= rows THEN dirty
    ELSE IncludeRegion(dirty, CellLeft(column, width), row,
                       CellRight(column, width, columns), row + 1)

\* A plausible bug: a span joins the last one though that is of another row.
IncludeSpanAnyRow(spans, row, left, right) ==
    LET joins == spans # <<>> /\ left <= Last(spans).right
    IN IF left >= right THEN spans
       ELSE IF joins
       THEN [spans EXCEPT ![Len(spans)].left  = Smaller(@, left),
                          ![Len(spans)].right = Larger(@, right)]
       ELSE Append(spans, [row |-> row, left |-> left, right |-> right])

\* A span joins the last one if they touch; an earlier one is not looked at.
IncludeSpan(spans, row, left, right) ==
    LET joins == /\ spans # <<>>
                 /\ Last(spans).row = row
                 /\ left <= Last(spans).right
    IN IF left >= right THEN spans
       ELSE IF joins
       THEN [spans EXCEPT ![Len(spans)].left  = Smaller(@, left),
                          ![Len(spans)].right = Larger(@, right)]
       ELSE Append(spans, [row |-> row, left |-> left, right |-> right])

IncludeCellSpan(spans, column, row, width, columns, rows) ==
    IF column >= columns \/ row >= rows THEN spans
    ELSE IncludeSpan(spans, row, CellLeft(column, width),
                     CellRight(column, width, columns))

\* Whole rows from top to bottom, both clipped to the screen.
IncludeRowSpans(spans, top, bottom, columns) ==
    LET with[i \in 0 .. bottom - top] ==
            IF i = 0 THEN spans ELSE IncludeSpan(with[i - 1], top + i - 1, 0, columns)
    IN with[bottom - top]

FullSpans(columns, rows) ==
    [i \in 1 .. rows |-> [row |-> i - 1, left |-> 0, right |-> columns]]

-----------------------------------------------------------------------------
(* The shape of a row, for the properties                                   *)

\* The cells of a run or of a span of it.
CellsOf(run) == run.left .. run.left + run.count - 1

TextOfCells(row, left, count) ==
    LET text[k \in 0 .. count] ==
            IF k = 0 THEN <<>> ELSE text[k - 1] \o CellText(row, left + k - 1)
    IN text[count]

\* Pieces follow each other from a column up to another, each with the text
\* of its own cells, and of one style.
Partition(row, pieces, from, to) ==
    /\ \A i \in DOMAIN pieces :
           /\ pieces[i].count > 0
           /\ pieces[i].left = IF i = 1 THEN from
                               ELSE pieces[i - 1].left + pieces[i - 1].count
           /\ i = Len(pieces) => pieces[i].left + pieces[i].count = to
           /\ \A c \in CellsOf(pieces[i]) : row.cells[c].style = pieces[i].style
           /\ Piece(row, pieces[i].offset, pieces[i].length) =
                  TextOfCells(row, pieces[i].left, pieces[i].count)
    /\ pieces # <<>>

=============================================================================
