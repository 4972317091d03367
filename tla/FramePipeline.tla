---------------------------- MODULE FramePipeline ----------------------------
(***************************************************************************)
(* The path of a terminal screen from libtsm to the window:                *)
(*                                                                         *)
(*   terminal_core.cpp       FeedOutput, ObserveScreenScroll, ScrollLines, *)
(*                           Resize, TakePackedFrame                       *)
(*   wx/terminal_ctrl.cpp    RequestFrameRefresh, OnSize, OnPaint          *)
(*   wx/terminal_renderer.cpp PaintFrame, ScrollFramebuffer, Draw          *)
(*                                                                         *)
(* The core keeps a cache of packed rows and, when the whole screen moved, *)
(* rotates it instead of decoding it again; the frame it hands out says by *)
(* how much (scroll_delta) and what must be repainted (dirty).  The wx     *)
(* control merges frames that arrive before a paint and invalidates the    *)
(* dirty part of the window; the renderer blits its backing bitmap by the  *)
(* delta and repaints the dirty part.  Three copies of the screen (packed  *)
(* cache, backing bitmap, window) are thus updated by differences, and the *)
(* properties say that none of them is ever left behind.                   *)
(*                                                                         *)
(* Data: a screen has one column, so a row is one cell, and a dirty region *)
(* is a set of rows.  The cursor is visible, nothing is selected, and      *)
(* smooth scrolling is off (ControlInput has it).  libtsm and wxWidgets    *)
(* are outside this repository: their definitions are marked external.     *)
(***************************************************************************)
EXTENDS Integers, Sequences, FiniteSets, FiniteSetsExt

CONSTANTS
    Heights,        \* the heights, in rows, the window can have
    Chars,          \* characters of a cell; Space is one of them
    Space,
    Reversed,       \* does the child write in reverse video (SGR 7)?
    Ops,            \* what the child and the user do in this instance
    Scrollback,     \* bound: lines of scrollback
    MaxWork,        \* bound: operations within one event handler
    MaxMergedDelta, \* bound: no handler starts while the delta to paint is larger
    PaintsKeepUp    \* does the event loop paint before the next event?

OpNames == {"write", "move", "linefeed", "reverseindex", "deleteline", "alternate",
            "viewport", "resize", "expose"}

ASSUME HeightsAssumption ==
    /\ Heights \subseteq Nat \ {0}
    /\ \E highest \in Heights : \A h \in Heights : highest >= h
ASSUME DataAssumption ==
    /\ Space \in Chars
    /\ Reversed \in BOOLEAN
    /\ Ops \subseteq OpNames
    /\ Scrollback \in Nat
    /\ MaxWork \in Nat \ {0}
    /\ MaxMergedDelta \in Nat
    /\ PaintsKeepUp \in BOOLEAN

VARIABLES
    \* tsm_screen: scrollback, the rows of the screen, is it the alternate one,
    \* the first row shown, the cursor's row, the rows touched since the last
    \* draw
    height, sb, live, alternate, pos, cursor, aged,
    \* TerminalBackend::Impl
    observed_lines, observed_alternate,
    pending_content, pending_viewport,   \* pending_*_scroll_delta_
    grid, frame_valid, last_rows, last_cursor, last_alternate,   \* packed_*
    \* WxTerminalCtrl: the handler in progress, and the frame to paint
    handler, work, pending_frame,
    \* WxRenderer and the window itself
    framebuffer, framebuffer_valid, window, invalid,
    \* History, which no action reads: since the last full repaint, did a shift
    \* meet another frame or a stray outline in what was painted; which rows of the bitmap
    \* moved without the window; did a resize find a frame waiting, with
    \* nothing full asked for since
    blurred, moved, outdated

tsm  == <<height, sb, live, alternate, pos, cursor, aged>>
obs  == <<observed_lines, observed_alternate>>
pend == <<pending_content, pending_viewport>>
pack == <<grid, frame_valid, last_rows, last_cursor, last_alternate>>
ctrl == <<handler, work, pending_frame>>
disp == <<framebuffer, framebuffer_valid, window, invalid>>
hist == <<blurred, moved, outdated>>
vars == <<tsm, obs, pend, pack, ctrl, disp, hist>>

-----------------------------------------------------------------------------
(* Cells and lines                                                          *)

Styles == {"normal", "reverse"}
Cells == [ch : Chars, style : IF Reversed THEN Styles ELSE {"normal"}]
Blank == [ch |-> Space, style |-> "normal"]
Inverted(cell) ==
    [cell EXCEPT !.style = IF @ = "normal" THEN "reverse" ELSE "normal"]

\* BlankRow fills a packed row with style 0, the style of no screen cell.
BlankRow == [ch |-> Space, style |-> "style0"]
PackedCells == [ch : Chars, style : Styles] \cup {BlankRow}

\* What the renderer has drawn in a row: the cell and the cursor's outline.
Background == [cell |-> BlankRow, outline |-> FALSE]
Pictures == [cell : PackedCells, outline : BOOLEAN]
NoFrame == [kind |-> "none"]

LineIds == 1 .. Scrollback + 5 * Max(Heights)
Lines == [id : LineIds, cell : Cells]
IdsOf(lines) == {lines[i].id : i \in DOMAIN lines}
UsedIds == IdsOf(sb) \cup IdsOf(live)
               \cup {observed_lines[i] : i \in DOMAIN observed_lines}

\* tsm_screen_get_row_id never returns the same id for two lines; an id that
\* no line and no observation holds may be taken again without being noticed.
FreshLines(n) ==
    LET ids == CHOOSE f \in [1..n -> LineIds \ UsedIds] : IsInjective(f)
    IN [k \in 1..n |-> [id |-> ids[k], cell |-> Blank]]

Rows == 0 .. height - 1
AtBottom == pos >= Len(sb)
RowIds == [r \in Rows |-> live[r + 1].id]

\* The cells tsm_screen_draw_since shows: the rows from pos on, the cell
\* under the cursor inverted.
DrawnCell(r) ==
    LET cell == IF pos + r < Len(sb) THEN sb[pos + r + 1].cell
                ELSE live[pos + r + 1 - Len(sb)].cell
    IN IF pos + r = Len(sb) + cursor THEN Inverted(cell) ELSE cell
DrawnView == [r \in Rows |-> DrawnCell(r)]

\* The row of the view that shows row r of the screen, if any does.
Shown(r) == {r + Len(sb) - pos} \cap Rows

Hull(S) == IF S = {} THEN {} ELSE Min(S) .. Max(S)
Distance(delta) == IF delta < 0 THEN -delta ELSE delta

-----------------------------------------------------------------------------
(* A handler of the control: it starts when the event loop is idle, feeds   *)
(* the core, and ends by asking for a frame.                                *)

EventLoopReady ==
    /\ PaintsKeepUp => pending_frame = NoFrame /\ invalid = {}
    /\ pending_frame # NoFrame => Distance(pending_frame.delta) <= MaxMergedDelta

Working(op) ==
    /\ op \in Ops
    /\ handler = "idle" => EventLoopReady
    /\ work < MaxWork
    /\ work' = work + 1
    /\ UNCHANGED <<pending_frame, pack, disp, hist, height>>

\* One control function of the output libtsm parses within one chunk.
Vte(op) ==
    /\ handler \in {"idle", "busy", "feeding"}
    /\ Working(op)
    /\ handler' = "feeding"
    /\ UNCHANGED <<obs, pend>>

Write(cell) ==
    /\ Vte("write")
    /\ live' = [live EXCEPT ![cursor + 1].cell = cell]
    /\ aged' = aged \cup Shown(cursor)
    /\ UNCHANGED <<sb, alternate, pos, cursor>>

\* CUP: the rows the cursor leaves and enters count as touched.
MoveCursor(row) ==
    /\ Vte("move")
    /\ row # cursor
    /\ cursor' = row
    /\ aged' = aged \cup Shown(cursor) \cup Shown(row)
    /\ UNCHANGED <<sb, live, alternate, pos>>

\* A line feed moves the cursor, and on the last row scrolls the screen; the
\* main screen keeps the line in the scrollback.
LineFeed ==
    /\ Vte("linefeed")
    /\ UNCHANGED alternate
    /\ \/ /\ cursor < height - 1
          /\ cursor' = cursor + 1
          /\ aged' = aged \cup Shown(cursor) \cup Shown(cursor')
          /\ UNCHANGED <<sb, live, pos>>
       \/ /\ cursor = height - 1
          /\ live' = Tail(live) \o FreshLines(1)
          /\ LET kept == IF alternate THEN sb ELSE Append(sb, Head(live))
                 lost == IF Len(kept) > Scrollback THEN 1 ELSE 0
             IN /\ sb' = SubSeq(kept, 1 + lost, Len(kept))
                /\ pos' = IF AtBottom THEN Len(sb') ELSE Max({0, pos - lost})
          /\ aged' = Rows
          /\ UNCHANGED cursor

ReverseIndex ==
    /\ Vte("reverseindex")
    /\ UNCHANGED <<sb, alternate, pos>>
    /\ \/ /\ cursor > 0
          /\ cursor' = cursor - 1
          /\ aged' = aged \cup Shown(cursor) \cup Shown(cursor')
          /\ UNCHANGED live
       \/ /\ cursor = 0
          /\ live' = FreshLines(1) \o SubSeq(live, 1, height - 1)
          /\ aged' = Rows
          /\ UNCHANGED cursor

\* DL: the lines below the cursor's move up, a blank one enters below.
DeleteLine ==
    /\ Vte("deleteline")
    /\ live' = SubSeq(live, 1, cursor) \o SubSeq(live, cursor + 2, height)
                   \o FreshLines(1)
    /\ aged' = Rows
    /\ UNCHANGED <<sb, alternate, pos, cursor>>

\* Mode 1049: the alternate screen is entered empty.  Leaving it brings back
\* the main one; the model forgot what it showed, and takes any text.
SwitchScreen ==
    /\ Vte("alternate")
    /\ alternate' = ~alternate
    /\ LET fresh == FreshLines(height)
       IN \E text \in [1..height -> IF alternate THEN Cells ELSE {Blank}] :
              live' = [i \in 1..height |-> [fresh[i] EXCEPT !.cell = text[i]]]
    /\ aged' = Rows
    /\ UNCHANGED <<sb, pos, cursor>>

-----------------------------------------------------------------------------
(* TerminalBackend                                                          *)

\* The smallest delta by which all rows that stay moved, up before down.
DetectFullScreenShift(previous) ==
    LET MovedUp(d) == \A r \in 0 .. height - d - 1 :
                          RowIds[r] = previous[r + d]
        MovedDown(d) == \A r \in 0 .. height - d - 1 :
                          RowIds[r + d] = previous[r]
        shifts == {d \in 1 .. height - 1 : MovedUp(d) \/ MovedDown(d)}
    IN IF DOMAIN previous # Rows \/ shifts = {} THEN 0
       ELSE LET d == Min(shifts) IN IF MovedUp(d) THEN d ELSE -d

\* A plausible bug: a resize leaves the observation of the old screen.
ResetForgotten == UNCHANGED obs

ResetScreenObservation ==
    /\ observed_lines' = RowIds'
    /\ observed_alternate' = alternate'

\* The end of FeedOutput: ObserveScreenScroll.
EndFeed ==
    /\ handler = "feeding"
    /\ pending_content' = pending_content +
           (IF observed_alternate = alternate /\ AtBottom
            THEN DetectFullScreenShift(observed_lines) ELSE 0)
    /\ observed_lines' = RowIds
    /\ observed_alternate' = alternate
    /\ handler' = "busy"
    /\ UNCHANGED <<tsm, pending_viewport, pack, work, pending_frame, disp, hist>>

\* ScrollLines(lines): positive towards older lines.  The core records how
\* far the view really moved.
ScrollLines(lines) ==
    LET after == Max({0, Min({Len(sb), pos - lines})})
    IN /\ handler \in {"idle", "busy"}
       /\ Working("viewport")
       /\ handler' = "busy"
       /\ pos' = after
       /\ pending_viewport' = pending_viewport + (after - pos)
       /\ aged' = IF after = pos THEN aged ELSE Rows
       /\ UNCHANGED <<sb, live, alternate, cursor, obs, pending_content>>

EnsurePackedGrid ==
    IF DOMAIN grid = Rows THEN grid ELSE [r \in Rows |-> BlankRow]

RotatePackedRows(rows, delta) ==
    [r \in DOMAIN rows |-> IF r + delta \in DOMAIN rows THEN rows[r + delta]
                           ELSE BlankRow]

\* TakePackedFrame reuses the cached rows only when the whole movement since
\* the last frame was output scrolling a screen that is shown to the bottom.
ReusesScrolledRows(full) ==
    /\ ~full
    /\ pending_content # 0
    /\ pending_viewport = 0
    /\ AtBottom
    /\ Distance(pending_content) < height

\* The rows a scroll by delta brings in.
Exposed(delta) == IF delta > 0 THEN height - delta .. height - 1
                               ELSE 0 .. -delta - 1

\* DrawPackedCell: of the cells drawn, those whose packed copy must change;
\* where rows were rotated, a cell that already shows the screen is skipped.
DecodedAgainstOldRows(drawn, reuse, cached) ==   \* a plausible bug
    {r \in drawn : ~(reuse /\ grid[r] = DrawnCell(r))}

DecodedCells(drawn, reuse, cached) ==
    {r \in drawn : ~(reuse /\ cached[r] = DrawnCell(r))}

RebuildPackedRows(rows, decoded) ==
    [r \in Rows |-> IF r \in decoded THEN DrawnCell(r) ELSE rows[r]]

\* TakePackedFrame: the frame, and the grid the core keeps.
TakePackedFrame ==
    LET resized == ~frame_valid \/ height # last_rows \/ alternate # last_alternate
        reuse == ReusesScrolledRows(resized)
        redraw == resized \/ (pending_content # 0 /\ ~reuse)
        cached == IF reuse THEN RotatePackedRows(EnsurePackedGrid, pending_content)
                  ELSE EnsurePackedGrid
        cells == IF frame_valid /\ cursor # last_cursor
                 THEN {cursor, last_cursor} \cap Rows ELSE {}
        drawn == IF redraw THEN Rows ELSE aged \cup cells
        decoded == DecodedCells(drawn, reuse, cached)
        exposed == IF reuse THEN Exposed(pending_content) ELSE {}
        dirty == Hull(decoded \cup cells \cup exposed)
        full == redraw \/ dirty = Rows
    IN [kind    |-> "frame",
        cells   |-> RebuildPackedRows(cached, decoded),
        cursor  |-> cursor,
        delta   |-> IF pending_content # 0 THEN pending_content ELSE pending_viewport,
        dirty   |-> IF full THEN Rows ELSE dirty,
        full    |-> full,
        changed |-> full \/ dirty # {}]

\* What taking a frame leaves behind in the core, whoever takes it.
FrameTaken(frame) ==
    /\ grid' = frame.cells
    /\ frame_valid' = TRUE
    /\ last_rows' = height
    /\ last_cursor' = cursor
    /\ last_alternate' = alternate
    /\ pending_content' = 0
    /\ pending_viewport' = 0
    /\ aged' = {}

-----------------------------------------------------------------------------
(* WxTerminalCtrl                                                           *)

\* A plausible bug: the dirty region of the frame that waited is forgotten.
MergeLosesDirty(frame) ==
    IF pending_frame = NoFrame THEN frame
    ELSE [frame EXCEPT !.delta = @ + pending_frame.delta,
                       !.full  = @ \/ pending_frame.full]

\* A frame that finds another one waiting takes its place: the deltas add
\* up and the dirty regions are joined as they are.
MergePending(frame) ==
    IF pending_frame = NoFrame THEN frame
    ELSE LET full == frame.full \/ pending_frame.full
         IN [frame EXCEPT
                !.delta = @ + pending_frame.delta,
                !.full  = full,
                !.dirty = IF full THEN Rows ELSE Hull(@ \cup pending_frame.dirty)]

\* The rows Refresh or RefreshRect invalidates.
Invalidated(frame) ==
    IF frame.full \/ frame.dirty = {} THEN Rows ELSE frame.dirty \cap Rows

\* The merged frame, not a full one, has a shift and rows of two frames.
ShiftMeetsFrame(frame, merged) ==
    /\ pending_frame # NoFrame
    /\ ~merged.full
    /\ frame.delta # 0 \/ pending_frame.delta # 0

RequestFrameRefresh ==
    /\ handler = "busy"
    /\ handler' = "idle"
    /\ work' = 0
    /\ UNCHANGED <<height, sb, live, alternate, pos, cursor, obs,
                   framebuffer, framebuffer_valid, window, moved>>
    /\ LET frame == TakePackedFrame
           merged == MergePending(frame)
       IN /\ FrameTaken(frame)
          /\ \/ /\ ~frame.changed
                /\ UNCHANGED <<pending_frame, invalid, blurred, outdated>>
             \/ /\ frame.changed
                /\ pending_frame' = merged
                /\ invalid' = invalid \cup Invalidated(merged)
                /\ blurred' = (blurred \/ ShiftMeetsFrame(frame, merged))
                /\ outdated' = (outdated /\ ~merged.full)

\* tsm_screen_resize: a lower screen keeps the rows that end with the
\* cursor's, a higher one gains blank rows; the view returns to the bottom.
ResizedTo(lines, top, blanks, h) ==
    IF h <= Len(lines) THEN SubSeq(lines, top + 1, top + h)
    ELSE lines \o blanks

\* TerminalBackend::Resize: the core forgets both deltas and what it observed.
CoreResize(h) ==
    LET top == Max({0, cursor + 1 - h})
        kept == IF alternate THEN sb ELSE sb \o SubSeq(live, 1, top)
        lost == Max({0, Len(kept) - Scrollback})
        more == Max({0, h - height})
    IN /\ UNCHANGED alternate
       /\ height' = h
       /\ live' = ResizedTo(live, top, FreshLines(more), h)
       /\ sb' = SubSeq(kept, lost + 1, Len(kept))
       /\ pos' = Len(sb')
       /\ cursor' = cursor - top
       /\ aged' = 0 .. h - 1
       /\ ResetScreenObservation
       /\ pending_content' = 0
       /\ pending_viewport' = 0

\* OnSize: UpdateGeometry resizes the core, and Refresh invalidates the whole
\* window, whose new area has no content yet.
OnSize(h) ==
    /\ "resize" \in Ops
    /\ handler = "idle"
    /\ EventLoopReady
    /\ h # height
    /\ CoreResize(h)
    /\ window' = [r \in 0 .. h - 1 |-> Background]
    /\ invalid' = 0 .. h - 1
    /\ moved' = {}
    /\ outdated' = (pending_frame # NoFrame)
    /\ UNCHANGED <<pack, ctrl, framebuffer, framebuffer_valid, blurred>>

\* The desktop uncovers a part of the window, whose content was lost.
Expose(rows) ==
    /\ "expose" \in Ops
    /\ handler = "idle"
    /\ EventLoopReady
    /\ rows # {}
    /\ window' = [r \in Rows |-> IF r \in rows THEN Background ELSE window[r]]
    /\ invalid' = invalid \cup rows
    /\ UNCHANGED <<tsm, obs, pend, pack, ctrl, framebuffer, framebuffer_valid, hist>>

-----------------------------------------------------------------------------
(* WxRenderer                                                               *)

Picture(frame, r) == [cell |-> frame.cells[r], outline |-> r = frame.cursor]

\* A plausible bug: the blit goes the wrong way.
ScrollBackwards(bitmap, delta, rows) ==
    [r \in DOMAIN bitmap |-> IF r - delta \in rows \cap DOMAIN bitmap THEN bitmap[r - delta]
                             ELSE bitmap[r]]

\* ScrollFramebuffer copies the rows that stay; the others keep what they had.
\* A bitmap of another size than the frame's has nothing to copy further down.
ScrollFramebuffer(bitmap, delta, rows) ==
    [r \in DOMAIN bitmap |->
        IF Distance(delta) < Cardinality(rows) /\ r \in rows /\ r + delta \in rows
        THEN IF r + delta \in DOMAIN bitmap THEN bitmap[r + delta] ELSE Background
        ELSE bitmap[r]]

\* EnsureFramebuffer makes a new, invalid bitmap when the size is another.
FramebufferUsable == framebuffer_valid /\ DOMAIN framebuffer = Rows

\* PaintFrame after EnsureFramebuffer: everything when the bitmap is new or
\* the frame says so, otherwise the blit and the dirty rows.
PaintedFramebuffer(frame) ==
    LET shown == DOMAIN frame.cells
        blitted == ScrollFramebuffer(framebuffer, frame.delta, shown)
    IN IF ~FramebufferUsable \/ frame.full
       THEN [r \in Rows |-> IF r \in shown THEN Picture(frame, r) ELSE Background]
       ELSE [r \in Rows |-> IF r \in frame.dirty \cap shown THEN Picture(frame, r)
                            ELSE blitted[r]]

\* The system clips what OnPaint draws to the invalid part of the window.
Display ==
    /\ window' = [r \in Rows |-> IF r \in invalid
                     THEN (IF framebuffer_valid' /\ r \in DOMAIN framebuffer'
                           THEN framebuffer'[r] ELSE Background)
                     ELSE window[r]]
    /\ invalid' = {}

\* An outline that no cell tells of: it stands on a cell that the core did not
\* invert, because the view is scrolled back and shows another line there, or
\* on one that the child can write inverted itself.
StrayOutline ==
    \E r \in DOMAIN framebuffer :
        framebuffer[r].outline /\ (Reversed \/ framebuffer[r].cell.style = "normal")

\* What painting a frame does to the bitmap, and to the history.
Render(frame) ==
    /\ framebuffer' = PaintedFramebuffer(frame)
    /\ framebuffer_valid' = TRUE
    /\ blurred' = (/\ FramebufferUsable
                   /\ ~frame.full
                   /\ blurred \/ (frame.delta # 0 /\ StrayOutline))
    /\ moved' = (IF FramebufferUsable /\ ~frame.full /\ frame.delta # 0
                 THEN Rows ELSE moved) \ invalid

\* OnPaint draws the waiting frame, or else takes one; a frame with no
\* change only copies the backing bitmap.
OnPaint ==
    /\ handler = "idle"
    /\ invalid # {}
    /\ UNCHANGED <<height, sb, live, alternate, pos, cursor, obs,
                   handler, work>>
    /\ \/ /\ pending_frame # NoFrame
          /\ Render(pending_frame)
          /\ pending_frame' = NoFrame
          /\ UNCHANGED <<aged, pend, pack, outdated>>
       \/ /\ pending_frame = NoFrame
          /\ UNCHANGED <<pending_frame, outdated>>
          /\ LET frame == TakePackedFrame
             IN /\ FrameTaken(frame)
                /\ \/ frame.changed /\ Render(frame)
                   \/ /\ ~frame.changed
                      /\ moved' = moved \ invalid
                      /\ UNCHANGED <<framebuffer, framebuffer_valid, blurred>>
    /\ Display

-----------------------------------------------------------------------------

Init ==
    /\ height \in Heights
    /\ live = [i \in 1..height |-> [id |-> i, cell |-> Blank]]
    /\ sb = <<>> /\ pos = 0 /\ cursor = 0 /\ alternate = FALSE
    /\ aged = Rows
    /\ observed_lines = RowIds /\ observed_alternate = FALSE
    /\ pending_content = 0 /\ pending_viewport = 0
    /\ grid = [r \in {} |-> BlankRow]
    /\ frame_valid = FALSE /\ last_rows = 0 /\ last_cursor = 0
    /\ last_alternate = FALSE
    /\ handler = "idle" /\ work = 0 /\ pending_frame = NoFrame
    /\ framebuffer = [r \in {} |-> Background] /\ framebuffer_valid = FALSE
    /\ window = [r \in Rows |-> Background]
    /\ invalid = Rows
    /\ blurred = FALSE /\ moved = {} /\ outdated = FALSE

Next ==
    \/ \E cell \in Cells : Write(cell)
    \/ \E row \in Rows : MoveCursor(row)
    \/ LineFeed
    \/ ReverseIndex
    \/ DeleteLine
    \/ SwitchScreen
    \/ EndFeed
    \/ \E lines \in {-1, 1} : ScrollLines(lines)
    \/ RequestFrameRefresh
    \/ \E h \in Heights : OnSize(h)
    \/ \E rows \in SUBSET Rows : Expose(rows)
    \/ OnPaint

Spec == Init /\ [][Next]_vars

-----------------------------------------------------------------------------
(* Properties                                                               *)

\* A changed frame of these rows that moves the screen by reach rows at most.
FramesOf(rows, reach) ==
    [kind : {"frame"}, cells : [rows -> PackedCells], cursor : rows,
     delta : -reach .. reach, dirty : SUBSET rows, full : BOOLEAN, changed : {TRUE}]

\* What one handler adds to the largest delta at which a handler starts.
MaxDelta == MaxMergedDelta + MaxWork * Max(Heights)

\* Types.  What moved since the last frame was taken is what the handler in
\* progress did: a chunk moves the screen by less than its height, a scroll of
\* the view by one row.  The frame waiting to be painted has the rows of the
\* last one taken, its dirty rows and its cursor are among them, and what it
\* moves is bounded by MaxDelta however many frames were merged into it.
TypeOK ==
    /\ height \in Heights
    /\ Len(live) = height /\ Len(sb) <= Scrollback
    /\ \A i \in DOMAIN live : live[i] \in Lines
    /\ \A i \in DOMAIN sb : sb[i] \in Lines
    /\ pos \in 0 .. Len(sb)
    /\ cursor \in Rows
    /\ aged \subseteq Rows
    /\ observed_lines \in [Rows -> LineIds]
    /\ Distance(pending_content) <= work * (height - 1)
    /\ Distance(pending_viewport) <= work
    /\ \A r \in DOMAIN grid : grid[r] \in PackedCells
    /\ pending_frame \in {NoFrame} \cup FramesOf(0 .. last_rows - 1, MaxDelta)
    /\ handler \in {"idle", "busy", "feeding"}
    /\ work \in 0 .. MaxWork
    /\ \A r \in DOMAIN framebuffer : framebuffer[r] \in Pictures
    /\ window \in [Rows -> Pictures]
    /\ invalid \subseteq Rows

\* A frame shows the screen it was taken from: rotating the cached rows and
\* decoding only the cells that differ never leaves an old cell in the packed
\* grid, whatever mix of output, scrolling and resizing came before.
PackedGridExact == frame_valid /\ aged = {} => grid = DrawnView

\* "A frontend may blit its framebuffer by that delta and repaint the newly
\* exposed dirty spans" (architecture.md): once no frame waits, the backing
\* bitmap is the picture of the last frame taken, outline of the cursor
\* included, unless RequestFrameRefresh merged a shift with another frame, or
\* a shift took along an outline drawn while the view was scrolled back, or on
\* a cell that reverse video can leave looking the same.
BackingBitmapExact ==
    /\ pending_frame = NoFrame
    /\ framebuffer_valid /\ DOMAIN framebuffer = DOMAIN grid
    /\ ~blurred
    => framebuffer = [r \in DOMAIN grid |->
                         [cell |-> grid[r], outline |-> r = last_cursor]]

\* The picture of row r of the terminal's screen.
ScreenPicture(r) == [cell |-> DrawnCell(r), outline |-> r = cursor]
Painted == handler = "idle" /\ invalid = {}

\* When everything invalidated has been painted, the window shows the
\* terminal's screen in every row that was not moved by a blit alone.
WindowCurrentWhereUnmoved ==
    Painted /\ ~blurred /\ ~outdated =>
        \A r \in Rows \ moved : window[r] = ScreenPicture(r)

\* "Preserve correct invalidation for scrolling, selection, cursor, and
\* resize" (TODO.md): when everything invalidated has been painted, the
\* window shows the terminal's screen.
WindowCurrent == Painted => \A r \in Rows : window[r] = ScreenPicture(r)

=============================================================================
