# Verification of the Sakura terminal

TLA+ models of the terminal library in `src/`, TLC runs that check them on
small instances, and TLAPS proofs of what matters most for all values of the
constants. Paths are relative to the repository; "core" is
`src/src/terminal_core.cpp`, "control" is `src/src/wx/terminal_ctrl.cpp` and
"renderer" is `src/src/wx/terminal_renderer.cpp`.

## 1. The system

```
 shell <-> pty / console host
              |  reader thread               (pty_session.cpp, conpty_session.cpp)
              v
        output queue, 1 MiB
              |  TakeOutput, timer           (wx/terminal_ctrl.cpp)
              v
        libtsm screen --frame, delta, dirty--> pending frame --paint--> backing bitmap --> window
        (terminal_core.cpp)                    (terminal_ctrl.cpp)      (terminal_renderer.cpp)
```

Everything but the reader thread runs on the UI thread ("owner"). The threads
share atomics (state, exit status, `queued_bytes_`, `stop_requested_`), the
queue under `output_mutex_`, and handles under `io_mutex_`.

| Component | State | Operations | What makes it correct | What is hard |
|---|---|---|---|---|
| POSIX transport, `pty_session.cpp` | master descriptor, child pid, `child_reaped_`, queue and counter, status atomics, reader thread | Start, Stop, Write, Resize, TakeOutput, DiscardOutput, GetStatus, the reader loop | bytes reach the owner once and in order; the queue is bounded; Exited comes after the last byte; snapshots are coherent; Stop leaves no thread, descriptor or zombie and signals no stranger | reader and owner interleave between any two shared accesses; signals and deadlines race the child's death; the reader sizes its read from a stale counter |
| ConPTY transport, `conpty_session.cpp` | seven handles, queue and counter, status atomics, reader thread | as above | also: no handle leaks on any failing path of Start, none is used after CloseHandle; Stop ends | a blocking ReadFile that only CancelIoEx or the console host can end |
| Transport interface, `transport.h` | state, exit status, queue | the methods above | both transports keep the same contract | it is not written down anywhere |
| Core, `terminal_core.cpp` | libtsm's screen, row ids last seen, accumulated scroll deltas, packed grid and its style table, selection, cursor-style parser | FeedOutput, ScrollLines, Resize, HandleKey/Mouse, selection, TakePackedFrame | a frame's cells are the screen's; the delta and the dirty spans suffice to update a copy | three caches updated by differences over any order of output, scrolling and resizing |
| wx control, `wx/terminal_ctrl.cpp` | frame that waits, wheel accumulators, the gesture in progress, last transport state told, timer | event handlers, timer, RestartTransport, constructor, destructor | nothing visible is left unpainted; gestures end; the host hears of every end; output is bounded per tick | handlers run in any order between two paints, with an animation in progress |
| wx renderer, `wx/terminal_renderer.cpp` | backing bitmap, scroll animation, glyph-run cache, metrics | PaintFrame, Draw, Begin/Advance/CancelScrollAnimation | the bitmap is the frame's picture; an animation ends in it | blit by delta and clipping of a partial paint |
| Host application, C facade, factory, fonts, tests, build | - | - | - | - |

libtsm and wxWidgets are outside the repository (an empty submodule and a system
library); what the code relies on is modelled and marked external.

## 2. Modules

| Module | Models | Composition |
|---|---|---|
| `TerminalTransport` | the abstract specification: what an owner may rely on | implemented by `PtySession` and `ConPtySession`, used by `ControlSession` |
| `PtySession` | POSIX transport, reader thread, pty, child | `Contract == INSTANCE TerminalTransport WITH ...`; property `KeepsContract` |
| `ConPtySession` | Windows transport, reader, shell, console host | the same |
| `ControlSession` | the control's use of its transport | `T == INSTANCE TerminalTransport`: its environment is the contract, not one of the implementations |
| `FramePipeline` | core, control and renderer from a line feed to the window's pixels | one module, for the hazards lie between them; the screen has one column |
| `PackedRow` | rows of a frame: cells, runs and spans, and what is dirty, as pure operators | used by the next two |
| `PackedGrid` | the core's grid and the frames the host holds, over rows with wide and styled cells | EXTENDS `PackedRow` |
| `GlyphRenderer` | how a row of a frame is painted, and the cache of glyph runs | EXTENDS `PackedRow` |
| `CursorStyle` | the automaton that finds DECSCUSR in the output | on its own: its result is the `cursor.look` of `PackedGrid` |
| `ControlInput` | mouse, wheel, keyboard, frame requests, scroll animation | frames abstracted to what they touch; their cells are in `FramePipeline` |
| `DataTheorems` | induction over the naturals, streams of consecutive numbers | used by the proofs of both transports and of rows |
| `PtySessionProofs` | theorems of `PtySession`: queue and types; Stop and the exit status; the stream and the contract | |
| `ConPtySessionProofs`, `ControlSessionProofs`, `ControlInputProofs`, `FramePipelineProofs` | theorems of the module in the name | |
| `RowProofs` | lemmas about the operators of `PackedRow`; theorems of `GlyphRenderer` | EXTENDS `GlyphRenderer` |
| `DrawingProofs` | theorems of `PackedGrid` and `CursorStyle` | EXTENDS both and `RowProofs` |
| `MC*` | values for TLC | |

### How they correspond to the code

**PtySession.** A step is one access to state two threads share; thread-local
work is folded into the next such step. `opc` and `rpc` are the places of the
owner and of the reader in the source. Stop is `StopCall` (the exchange of
`stop_requested_`), `StopLookup` (the section under `io_mutex_`), `StopHangup`
(SIGHUP), `StopJoin`, `StopClose`, then `StopReap`/`StopTimeout`/`StopEscalate`
for the 0 ms, 500 ms and 2 s waits, and `StopEnd`; Start is a Stop with
`goal = "fork"` and then `ForkSucceeds` or `ForkFails`. TakeOutput is two steps,
because it lowers `queued_bytes_` after it has released the mutex. GetStatus is
four loads. The reader is `ReaderCheck` (stop, limit, read size) - poll - read -
`ReaderPush`, and after the loop `ReaderLookup` ... `ReaderEnd`, the recording of
the exit status being three stores. A byte is its position in everything written
so far, so that order, loss and repetition are visible; `consumed` counts what
the owner got or discarded. A host that ignores SIGCHLD or waits for any child may
take the zombie (`ReapedElsewhere`, child "lost"): from then on waitpid fails, and the
reader's loop (line 423) and `WaitForChild` (94-98) end with no status recorded. Signals
reach only a living child; closing the master
sends SIGHUP; the slave may be held by a process that outlives the shell.

**ConPtySession.** The same grain. `handles` are the members that are set, `open`
what the system has open, `mine` what a Stop in progress has taken. `CreateFails`
has one case per failing call of Start. ReadFile is `ReaderIssue` and `ReaderRead`
or `ReaderFails`: between them it can be cancelled. `HostLeaves` is the console
host closing its end of the pipe; whether it does that before ClosePseudoConsole
depends on the Windows version, so it is never forced.

**FramePipeline.** The screen has one column, so a row is one cell, with a
character and a style; `PaintFrame`, the packed cache and the window are functions
from rows. `Write`, `LineFeed`, `ReverseIndex`, `DeleteLine`, `SwitchScreen`,
`MoveCursor` are what the child's bytes do to libtsm; `EndFeed` is
`ObserveScreenScroll`, which compares row ids; `ScrollLines`, `OnSize`,
`RequestFrameRefresh` (with `TakePackedFrame`), `OnPaint` (with PaintFrame and
Draw) are the code's. The dirty region is a set of rows, clipped on painting as
the window system does. Assumed of libtsm: row ids are unique, a drawing with an
age shows the rows touched since, the cell under the cursor is inverted while the
view is at the bottom. The alternate screen has no scrollback.

**PackedRow, PackedGrid.** A row is its text, for each cell the piece of the text,
the style and the width, and the runs of one style: what `RebuildPackedRows` leaves.
Columns and offsets count from 0. `PackedFrame` is all TakePackedFrame computes from
a grid it may change; `TakeFrame` chooses that grid as the code does with
`use_count()`: its own if no frame refers to it, and otherwise a new one with the
old one's content. `heap` are the grids by identity, `held` the frames by the
handle the host has, so that in-place changes are visible to every frame that
shares a grid. Scrolling, the alternate screen and the user's scrolling in all
their ways are left to `FramePipeline`; here a scroll is one row either way. Assumed
of libtsm: a write clears the other half of a wide character it cuts and touches
every cell whose look changes; a resize cuts no wide character; the cell under
the cursor is inverted.

**GlyphRenderer.** One row stands for all: rows share only the cache. `BeginRow`
paints the backgrounds of the dirty columns, each `DrawRun` one run, as text, from
the cache, into it, or from the scratch bitmap; `Resized` is `UpdateGeometry` and
`EnsureFramebuffer`. The picture of a column is background, ink and line. The
eviction loop is `EntriesThatStay`: the longest prefix of the list, from the last
used entry on, with which the new one fits. Assumed of wxWidgets: a text is no
wider than its cells, a bitmap can always be made.

**CursorStyle.** One step is one byte, so it does not matter where chunks end.
`sequence` is history: the bytes since the last ESC, from which the property tells
a DECSCUSR without the automaton.

**ControlSession.** Handlers are sequences of calls of the transport, between
which bytes arrive and the process exits: `TimerDrains` then `TimerStatus`;
`Restart` (Stop), `RestartStarts` (Start), `RestartEnd` (GetStatus, notice,
callback). `screen` is what the core was fed since it was last cleared, `told`
what the status callback got last.

**ControlInput.** One handler is one action. What handlers do to the picture are
functions on the record `display` (view, delta, dirty zones, waiting frame,
invalid zones, pictures an animation has to go), applied in the order of the
calls. The window is two zones, the cursor's line and the rest. `held` are the
buttons that are physically down, `reported` those the child believes down, and
`owed` the rotation not scrolled yet, `rate` the lines a notch last stood for. A wheel event is
what wxWidgets gives: a rotation, what the device calls a notch, the lines or the page it
stands for. `Normalized` is the division of line 542, which rounds toward zero and keeps no
rest: `owed` counts the whole parts of an event by a definition of its own (`WholeParts`), so
that the division is checked against it, and what it drops is bounded by
`NormalizationDrops`. A remainder below a notch is scrolled at the rate of the event that completes
it, as in the code. Not modelled: integers wider than 32 bits (`actions * lines_per_action`,
line 565, overflows only for rotations no device sends), and a page of another size after a
resize.

## 3. Runs

| Run | Module, specification | Question | Instance |
|---|---|---|---|
| `pty_whole` | MCPtySession, Spec | counter, limit, order, coherence, pid ownership, completeness of Stop, refinement | queue 3, reads of 2, takes of 1 and 3, 4 bytes, 2 sessions, child may ignore SIGHUP and SIGTERM |
| `pty_live` | FairSpec | Stop returns; a dead shell is reported; a paused reader resumes | queue 1, 2 bytes, 1 session, a Write may hold the mutex |
| `pty_echo` (violation) | LiveChildSpec | does a long Write return? | write of 6, pty buffers of 1, a child that echoes |
| `conpty_whole` | MCConPtySession, FairSpec | handles, coherence, refinement, liveness of Stop and of the exit report | queue 1, 2 bytes, 2 sessions, every failing call, dimensions 0, 5 and 9 for a SHORT of 8 |
| `conpty_lost_cancel` (violation) | FairSpec | does Stop return if the host keeps the pipe? | 1 session |
| `frame_window` | MCFramePipeline, Spec | is the packed grid always the screen; are bitmap and window updated rightly? | heights 1 and 2 with every operation and chunks of two controls, height 3 without resizes and alternate screen; frames merged before a paint, uncovering |
| `frame_blit_window` (violation) | Spec | does a blit reach the window? | one line feed, paints keep up |
| `frame_resize_race` (violation) | Spec | a frame waits during a resize | heights 2 and 3 |
| `drawing` | MCDrawing, DrawingSpec | are frames immutable, right and their spans enough; are rows well formed; does the glyph cache keep its limits and show the cells; is the cursor's style found? | screens of 4 columns or of 2 by 2, two glyphs, one wide, 4 styles, 2 frames held; a row of 3 cells, bitmaps of which 1 or 2 fit; 7 bytes after an ESC |
| `control_session` | MCControlSession, FairSpec | is every end told, is no tick silent about news, does all output reach the screen? | 3 sessions, 3 bytes, 1 byte a tick, queue 2 |
| `control_input` | MCControlInput, Spec | do gestures end, does the wheel lose no whole part? | two buttons; of a notch of two parts, three quarters back, three halves of pages, a notch of a device without a delta, no rotation; limit 1 line, one line of scrollback |
| `control_animation` (violation) | Spec | does the window settle after an animation? | one notch, an animation of two pictures |

### Why the bounds are enough

- *Queue.* The reader's stale size is interesting when a read may fill the queue
  while a drain is between its two steps: limit 3, reads of 2 and takes of 1 and 3
  give partial reads, partial takes and takes of more than there is. Four bytes
  let the queue fill, drain and fill again; two sessions let bytes, threads,
  pids and statuses of the first meet the second.
- *Rows.* With heights 1 and 2 and chunks of two controls (`MaxWork`) the shift is
  smaller than the screen, equal to it and larger, and two kinds of movement mix before
  the core looks. With height 3 a part of the rows can scroll while the others
  stay; these screens keep their height and have one control in a chunk
  (`WindowBounds`). Other heights, longer chunks and reverse video are left
  to the proofs of section 4, which hold for every value of the constants.
- *Frames.* Four columns are what a run beside the cursor needs to be split around a wide
  character (there a frame is taken after each change and one is held, `WideScreenBounds`),
  two rows what a scroll needs; the two sizes also resize into each other. The
  five styles that can occur (two attributes, their inverses, the initial one) are one too many for
  the table of 4, so that it fills. Two held frames and three grids let both,
  one or none share the core's grid. Two changes between frames combine a scroll
  with a write, a wrap of the ages with a move of the cursor.
- *Painting.* A row of three cells holds a wide character and a neighbour. With cells of
  three pixels the bitmap of two of them exceeds the whole cache and two of one cell
  exceed it together; with cells of one pixel three bitmaps would fit the bytes and
  the limit of two entries decides.
- *Bytes.* Seven hold the shortest DECSCUSR with more parameters than the limit
  of two; `LongMax` and `UIntModulus` are small enough for both conversions to wrap.
- *Three modules in one run.* `drawing` checks three modules that share no variable.
  Interleaving them would only multiply their states, so `part` chooses at the start
  whose steps are taken: the states are a disjoint union, and an action
  property of one module sees steps of the others as stutters.
- *Wheel.* Parts of a notch in both directions make remainders, turns back and
  rotations of more than a notch; a page or two lines pass the limit of one line. Two
  devices count more or less finely than the control does, and for one of them the division leaves a rest.
  Other devices, limits and pages are left to the proofs of `WheelIsExact` and `NormalizationDrops`.
- *Sessions of the control.* The end of a session may hide behind the one before
  it, and the first has none: three.
- Bounds that are not in the code are constants marked "bound" (`MaxBytes`,
  `MaxSessions`, `MaxWork`, `MaxMergedDelta`, `Scrollback`, `Steps`,
  `MaxCaptures`), and guards of the actions they limit name them. `OnSize` of
  `ControlInput` is not taken again while a frame with a delta beyond the scrollback
  waits, because such deltas would add up with every resize.

TLC runs of `FramePipeline`, `drawing` and `control_input` identify states by a VIEW. It drops
only what no guard and no other variable depends on and what the run's properties
do not read in the states concerned: line ids up to renaming, a backing bitmap
after a blurring merge until the next full repaint, the rows of the window that
are invalid; in `control_input`, what the window shows, the button of a gesture
that is over and, without smooth scrolling, the validity of the bitmap. In `drawing`, a grid is what its cells show, not its identity or the order of its
styles, of the held frames their number and how many share the core's grid, and the
parameters of a sequence that has not begun are dropped. The `MC` modules give the
reason at each.

`frame_window` has no reverse video: with it, a row whose cell equals the
inverted one hides that the cursor's outline has left (see 5). `CHECK_DEADLOCK` is off in
`control_session` only, because a destroyed control does nothing more.

### Fairness

- *PtySession.* The owner goes on with a call it has begun (weak): it has its own
  thread. The reader's local steps are strongly fair, for they may wait for a
  mutex that is free again and again; so are poll and read when there is data or a
  hangup, because EINTR and timeouts only repeat the loop. `OwnerTakes` is the UI
  timer; `EveryByteConsumed` further assumes that the owner comes back to its event
  loop. The child is not fair, except in `pty_echo`, where a child that answers
  makes the violation stronger.
- *ConPtySession.* The same threads; a process told to terminate dies. The console
  host is not fair: `StopReturnsIfHostLeaves` states its assumption in the formula.
- *ControlSession.* A handler ends and the timer fires again: wxTimer is periodic
  and started once.
- *FramePipeline, ControlInput, PackedGrid, GlyphRenderer, CursorStyle.* Safety only:
  one thread, which does not wait.

## 4. Proofs

`PtySessionProofs`: `TypeCorrect`, `QueueStaysBounded`, `QueueCounterExact`, for
every queue limit, read size, pty buffer, number of bytes and of sessions. The
bound is not inductive: it holds because a read, once sized, still fits when it is
pushed. The invariant `QueueIInv` adds this to the types: from `ReaderCheck` to `ReaderPush`,
`queued + cap` (later `queued + Len(chunk)`) is within the limit, as only the reader raises the
counter; and `taken` is positive only while the owner stands between the two steps
of TakeOutput. Lemmas `*Writers` say which actions write which variables, so that
each conjunct is proved over those only. Assumption: `PtyConstants`.

Stop, the child and its status need four invariants, each inductive given the one before.

- `StopInv` ties the places of the two threads to who may touch the child: from the
  join to the next fork there is no reader; a pid that is in `child_pid_`, is not
  marked and is not being recorded belongs to a child this transport has not reaped; a mark
  is never set for a child that still has a pid. `EscalationIsSafe` and `StopIsComplete`
  follow: that the pid is still good at the escalation rests on what the reader did
  before the join, and on `child_reaped_` being read again after it.
- `DrainInv`: a loop left without a stop or a failed poll was left at the end of the
  stream, and stays drained until Exited (`ExitedIsDrained`).
- `RecordInv`: a valid status is the child's own; a child this transport reaped is
  recorded, being recorded, or forgotten by a Start that failed; Exited without a status is
  said only of a child that somebody else reaped or that outlived SIGKILL.
- `SnapInv`: once a GetStatus has loaded Exited nobody stores any more, because the
  reader stores the state last (`SnapshotIsCoherent`).

The contract: `StreamInv` says that `output_`, the chunk in the reader's
hands and the pty continue one another (`StreamIsIntact`). With `PhaseInv`, the
states in which reader and Stop may be at each place, `ContractStep` maps each
step of `PtySession` to a step of `TerminalTransport` or to a stutter, which is
`ContractIsKept`: the refinement that `pty_whole` checks for one instance holds for
all.

`FramePipelineProofs`: `PackedGridIsExact` for every set of heights and
characters and all bounds. That the grid is the screen when nothing is touched
is not inductive. `PackInv` adds that rows not touched since the last frame are
in the grid (`UntouchedInGrid`), and that a shift the core noticed has touched all
rows (`ShiftsTouchAll`): the ids of lines are distinct (`Distinct`), and while
some row was left alone the observed ids are those of the rows (`ObservedInPlace`), so that
no shift is seen where nothing moved. A cell that is not decoded again after a rotation then
equals the one in the rotated row.

`PipelineTypes` types the bitmap, the window, the frame that waits and the deltas. `BoundsInv` says
that what moved since the last frame is at most `height - 1` for each operation the handler has
done (`OpsDone`: a chunk counts once it is observed), that an idle handler has left nothing in the
core, and that the waiting frame has the rows of the last one taken, its cursor and its dirty rows among
them, and a delta within `MaxMergedDelta` while a handler runs and within `MaxDelta` after it. The
bounds are those of the model where the code has none (see 5).

`BitmapIsExact` and `WindowIsCurrent` rest on `DrawnInv`. Its `PictureInv` compares
everything drawn with one picture, that of the last frame taken, whether it has been
painted or waits: the waiting frame is that last frame (`FrameWaiting`); the bitmap is its picture
(`BitmapTaken`), or becomes it outside the dirty rows when the waiting delta is applied
(`BitmapToPaint`); the window shows it wherever it is neither invalid nor skipped
by a blit (`WindowInv`); an unusable bitmap always has the whole window invalid and a
frame to come (`UsableInv`). The step of `OnPaint` composes the shift of the bitmap
with the shift of the rows. Assumptions: `HeightsAssumption`, `DataAssumption`.

`RowProofs` begins with what rows built cell by cell are. `Rebuilt`: a row that is built again from
a row and the cells decoded since shows what was decoded where it was and the old
cell elsewhere, and its runs are its parts of one style, each as long as it can be. `CellsMakePieces`: the text between two columns
is that of the cells between them. `SplitIsPartition`: pieces that follow one another have
the style and the text of their cells and cover them once. `SpansSplitRun`: the spans
a run is cut into for the cache cover it once, and none begins with a right half unless the run does.
`Marked` is what IncludeSpan keeps: the dirty region is the smallest around the spans
so far and empty if there are none, and a cell once in a span stays in one
(`Widened`); `RegionOfSpans` turns it into least and greatest elements.
They are inductions over columns, rows and lists; the library's theorem for that takes an operator, so
`DataTheorems` derives from `WellFoundedInduction` a form that asks for a set
instead (`Induction`), which is what the recursive functions of `PackedRow` need.

Its theorems are about the renderer:

- *Glyph cache.* `GlyphCacheIsBounded` rests on `GlyphIInv`: the list names the cached runs
  once each, the counter is the sum of their bytes (`CacheOK`), an entry has the bytes
  of its bitmap at the cell width in force, and the columns its key says (`EntriesOK`), and what is left to draw are parts of
  the row (`RowOK`). The eviction keeps a prefix of the list, whose cost is a recursive
  function over it. Assumptions: `SizeAssumption`, `CacheAssumption`, `CellsAssumption`.
- *Painting.* `RowIsShown`: if the row that is painted never has a wide character whose halves
  differ in style (`WideOfOneStyle`), then `RowShowsCells` always holds. The hypothesis is
  needed, as section 5 says of the cursor; the instance of `drawing` satisfies it. Three
  things make the invariant, `PaintInv`. The columns outside the dirty ones are right already,
  for a cell there that changed would have made them dirty (`NothingChanged`). The dirty ones
  have their background at once, though neighbouring runs share rectangles and those in
  the default background end them (`BackgroundsPainted`), and no line. And the ink of a
  column is missing exactly as long as the column is dirty and a run that waits has it
  (`InkWaits`). That drawing a run gives its columns their ink, and none to others, is because runs
  and the spans of them begin and end with whole characters (`RunsWhole`, `SpansWhole`): their text then
  has as many columns of ink as they have cells, each that of its cell (`RunInk`). A run
  reaches beyond the dirty columns too, but draws there the ink that is there already.
  A bitmap from the cache shows what its key says (`EntriesOK`), which is what would be drawn.
  Assumptions: those of the cache, and `CharactersAssumption` (a cell is one character as wide as
  the cell, and the right half of a wide one has no text).

`DrawingProofs`:

- *Frames.* `FramesAreFrozen` rests on `PointersValid` (every pointer to a grid
  is null or one of the grids) and on the lemma that a frame is made only in a grid
  no held frame refers to.
- *Grid.* `GridTypes`, `RowsAreWellFormed` and `FramesShowTheScreen` are parts of
  `GridIInv`: the screen has no half of a wide character (`ScreenOK`); rows that
  content shifts moved are all aged (`TouchedOK`); every grid in use has paired rows
  and a style table whose indices its cells keep to (`GridsGood`); and each position
  that is not aged since the last frame shows in the core's grid what is drawn
  (`CacheShows`), while the size stays what it was then. `TakeKeeps` is the step of TakePackedFrame:
  a rotation, then the cells that must be decoded, then the runs. Only a full
  style table lets a cell show less than the screen, as `FramesShowScreen` says.
  Assumptions: `SizesAssumption`, `LimitsAssumption`, `GridIdsAssumption`,
  `GlyphsAssumption` (the width of a character is 1 or 2).
- *Spans.* `SpansSuffice` says that what a frame leaves out of its spans needs no
  repainting. `FrameMarked` follows TakePackedFrame once more: a visited cell is decoded
  unless a rotated row shows it already, and a decoded cell is marked (`CellsMarked`); a
  cursor that moved marks where it was and where it is; a reused grid marks the rows it
  exposes. A cell outside the spans was then not decoded, and `Stays` ties it to the cell of
  the old grid that lies the delta away, through the rotation and the rebuilt row. The
  table of styles only grows, so equal indices mean equal styles. The invariant needed
  besides `GridIInv` is that the last cursor is a position, perhaps of a larger
  screen (`LastCursorOK`).
- *Cursor style.* `StyleFollowsSequences` rests on `Tracked`: the state of the
  automaton is which beginning of a DECSCUSR the bytes since the last ESC are, and the
  collected parameters are those bytes, cut at the limit. It says nothing of what
  `Number` computes. Assumption: `LimitAssumption`.

`ConPtySessionProofs`: `ConPtyTypes` (`CounterInv`: the reader never asks for more than
the queue can take, as for POSIX). `HandleInv` follows the handles from the members to Stop and
through its two closing steps, and `ReaderInv` keeps what the reader uses in the
members or with a Stop that has not joined it: `NoHandleIsUsedClosed`,
`NoHandleIsLeaked`. `SnapshotIsCoherent` is as for POSIX, but with the code
259 and the wait that runs out as the ways to know nothing.
`ConPtyKeepsContract` is the refinement, from `ContractIInv`: to the above it adds
`StreamInv` (queue, chunk and pipe continue one another, and while the console host is
there they hold all that was written and not consumed), `PipeInv` (the pipe outlives the
handles only in a Stop that is about to discard it) and `PhaseInv`. Assumption: `ConPtyConstants`.

`ControlSessionProofs`: `NoNewsIsHidden`, the action property
`SilentTickHidesNothing`. The invariant `RecordInv` says that between handlers the
recorded state is the one last told, or nothing has happened, or it stands at
"Stopped" while the session runs or has exited - so it differs from the state and
the next tick tells. It needs that only RestartTransport and the destructor call Stop.
`NoticesAreFew` (`OneNoticeForAnEnd`): by `NoticeInv` the notices on the screen and the
one that the recorded state still owes are within the limit together. `SessionTypes`:
the types of the control and of the contract it uses.

`ControlInputProofs`: `WheelIsExact`, for every set of devices, lines, pages and every limit; the
balance of rotation and lines is an identity of products that lemmas isolate, and
`NormalizedIsWhole` says that the division counts the whole parts. `NormalizationDrops`: the
division drops less than one part of an event, nothing when the device's delta divides what it
turned, and never turns the direction round.
`GesturesEnd`: the invariant `GestureInv` says which button, capture and reported
press belong together while presses do not overlap. `InputTypes`: every handler that moves the
view or touches the screen ends by asking for a frame, so between handlers the
delta is taken and the display has a narrower type (`Settled`) than within one.

No theorem is about liveness or ENABLED, which are out of the prover's reach: the
leads-to properties are only model-checked, under the fairness of section 3. Every other
property of a passing run is a theorem, `RowShowsCells` under the hypothesis named above.

## 5. What the checks found

Five runs end in a violation of what a document says (quoted in PROJECT.json):

1. `pty_echo`: Write waits for a child that waits for its output to be read, which
   only the caller of Write does; `docs/architecture.md` makes both the owner's, and
   `TODO.md:63-64` lists non-blocking writes as done.
2. `conpty_lost_cancel`: CancelIoEx comes before the reader's ReadFile and is lost;
   Stop then joins for ever unless the console host leaves by itself.
3. `frame_blit_window`: PaintFrame moves the whole bitmap but only the dirty rows of
   the window are invalidated, so moved rows keep their old picture.
4. `frame_resize_race`: the paint of a resize shows the frame that was waiting, of
   the old size; the window is then valid and nothing asks for another.
5. `control_animation`: output with no visible effect cancels an animation, and
   nothing invalidates the window, which keeps an intermediate picture. A key that
   is not echoed and a click do the same.

Properties are stated so that what is outside these cases is still checked:
`WindowCurrentWhereUnmoved` and `BackingBitmapExact` are about states that neither
3, nor 4, nor the first and third observation below have touched (the history variables
`moved`, `outdated` and `blurred`).

Observed on the way, without a document that says otherwise:

- RequestFrameRefresh merges a frame into the one that waits by adding the deltas and uniting
  the dirty rectangles as they are (control:266-286), though the waiting rectangle is about rows
  before the new shift: the blit moves a row that waits to be repainted out of the dirty rows.
  No property catches this, for all of them leave such states out. `BackingBitmapExact` without
  `~blurred` fails with three rows and line feeds alone: the cursor leaves a row,
  which waits for its paint, a line feed scrolls, and the bitmap keeps a second cursor.
- Nothing bounds the delta that frames merged before a paint add up to (control:266);
  `MaxMergedDelta` does in the model.
- The outline of the cursor is drawn in the bitmap but is no part of a cell: moved
  by a blit over a view that is scrolled back, it stays (core:557, renderer:753). So it does
  over a cell that the child itself wrote inverted: the proof of `BitmapIsExact` needed
  that case, which no run had met, as `StrayOutline` for reverse video.
- Resize narrows its arguments without Start's clamp (`pty_session.cpp:292`).
- Stop sends its first SIGHUP to a pid it looked up under the lock but signals
  after it (`pty_session.cpp:199`); the reader may reap in between.
- The rest of a division by the device's delta is dropped with each event (control:542): a device
  that calls more than 120 a notch and turns by one never scrolls. No document speaks of it.
- When the host has reaped the child, nobody sets `child_reaped_`: Stop's SIGHUP goes to a pid that
  may be another's by then (`pty_session.cpp:199`), as in the observation before.
- Two buttons held at once leave a capture or a gesture behind; `ButtonsUpMeansIdle` excludes
  them (control:635-656, 703-737).
- A process that exits between Start and GetStatus is announced twice, by the
  handler and by the next tick: `OneNoticeForAnEnd` allows two then.
- ReportError drops a message equal to the last one (control:854).
- When the halves of a wide character differ in style, the run after it begins with
  the right half, which has no text, so that its text is drawn one column too far left,
  over the right half (renderer:680, 703). The cursor on a wide character makes them
  differ, for libtsm inverts one cell. With such cells in `RowCells`,
  `RowShowsCells` fails after one painted row; the instance leaves them out
  to check the rest. `README.md:234` says the renderer preserves wide-cell widths,
  which it does.
- The line that RenderFrame draws under a run covers only its dirty columns, while
  a cached bitmap is drawn whole: a partly dirty underlined run loses its line
  outside them (renderer:680, 735).
- A full style table gives a new style index 0, black on black, for ever (core:426).
  `FramesShowScreen` allows it and nothing else.
- Dirty spans are merged with the last one only, so that those of the cursor may overlap
  earlier ones (core:360).
- A DECSCUSR with more than 16 bytes of parameters is read as the number its
  first 16 give (core:721).

## 6. Not modelled, and the plan

Not modelled: fonts and their measuring, the caches of colours and of texts; clipboard,
titles, configuration, tracing and metrics; key translation tables; selection text and
snapshots, which copy what libtsm answers; colours beyond the swap of an inverted cell;
combining characters (a cell's text has at most two characters, without the limit of 128
bytes at core:533); the host application and the C functions that only forward; in
`FramePipeline`, a resize by less than a row (`ControlInput` has it); pixels of an
animation; the data of WriteFile and of TakeOutput's chunk boundaries (bytes are
modelled, not the chunks they come in).

Order of the plan, of which only 5 is left:

1. Transports, with their contract: `TerminalTransport`, `PtySession`, `ConPtySession`.
2. The screen's way to the window: `FramePipeline`.
3. The control: `ControlSession`, `ControlInput`.
4. Frames over real rows and their painting: `PackedRow`, `PackedGrid`, `GlyphRenderer`,
   `CursorStyle`.
5. Liveness of `ControlInput`: an animation ends, the wheel is served.
6. Proofs: every invariant and action property of the runs.
