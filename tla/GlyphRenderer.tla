----------------------------- MODULE GlyphRenderer -----------------------------
(***************************************************************************)
(* How the wx renderer paints a row (wx/terminal_renderer.cpp, RenderFrame *)
(* and GlyphRunBitmap).  The dirty columns of the row are cleared and get   *)
(* their backgrounds; then every run of one style that reaches into them    *)
(* is drawn, either as text or from a cache of bitmaps, one for each run    *)
(* drawn before, which the least recently used one leaves when the cache    *)
(* is full.  Text leaves the background alone, a bitmap covers it.          *)
(*                                                                         *)
(* One row stands for all of them: rows share nothing but the cache.  What  *)
(* wxWidgets draws is outside this repository: characters are as wide as    *)
(* the cells libtsm gives them, and bitmaps can always be made.  The        *)
(* picture of a column is its background, the ink of a character or of the  *)
(* right half of a wide one, and the underline the renderer draws itself.   *)
(***************************************************************************)
EXTENDS PackedRow, FiniteSetsExt

CONSTANTS
    RowColumns,     \* the columns of the row
    RowCells,       \* what a cell can be: [text, style, width]
    RowStyles,      \* [style index -> [foreground, background, underline]]
    WideCharacters,
    DefaultBackground,
    CellWidths,     \* the widths of a cell, in pixels, the font can have
    BytesPerPixel,  \* of a bitmap one cell high
    MaxRunCells,    \* glyph_cache_max_run_cells
    MaxEntries,     \* glyph_cache_max_entries
    MaxBytes        \* glyph_cache_max_bytes

ASSUME SizeAssumption == RowColumns \in Nat \ {0} /\ CellWidths \subseteq Nat \ {0}
ASSUME CacheAssumption ==
    /\ BytesPerPixel \in Nat /\ MaxRunCells \in Nat
    /\ MaxEntries \in Nat /\ MaxBytes \in Nat
ASSUME CellsAssumption ==
    /\ DOMAIN RowStyles \subseteq Nat
    /\ RowCells \subseteq [text : Seq(STRING), style : DOMAIN RowStyles, width : 0 .. 2]
\* A cell is a character, combining ones included, as wide as the cell; the
\* right half of a wide one has no text.
ASSUME CharactersAssumption ==
    \A cell \in RowCells :
        IF cell.width = 0 THEN cell.text = <<>>
        ELSE /\ Len(cell.text) = 1
             /\ cell.text[1] \in WideCharacters <=> cell.width = 2

VARIABLES
    packed_row,         \* the row of the frame that is or was painted
    dirty_columns,      \* [left, right) of its dirty region
    row_runs,           \* the runs still to be drawn
    cache_glyphs,       \* does this frame use the cache?
    cell_width,
    glyph_runs, glyph_run_lru, glyph_run_cache_bytes,
    framebuffer, framebuffer_valid   \* the columns of the backing bitmap

cacheVars == <<glyph_runs, glyph_run_lru, glyph_run_cache_bytes>>
glyphVars == <<packed_row, dirty_columns, row_runs, cache_glyphs, cell_width, cacheVars,
               framebuffer, framebuffer_valid>>

-----------------------------------------------------------------------------
(* Pictures                                                                 *)

RowPositions == 0 .. RowColumns - 1

NoInk == [char |-> SPACE, right |-> FALSE, color |-> 0]
Ink(char, right, color) ==
    IF char = SPACE THEN NoInk ELSE [char |-> char, right |-> right, color |-> color]

\* A filled rectangle covers everything.
Filled(color) == [background |-> color, ink |-> NoInk, line |-> FALSE]
FillColumns(canvas, left, right, color) ==
    [c \in DOMAIN canvas |-> IF left <= c /\ c < right THEN Filled(color) ELSE canvas[c]]

\* The ink of a text, column by column from where it starts.
InkOf(text, color) ==
    LET cells(char) == <<Ink(char, FALSE, color)>>
                           \o (IF char \in WideCharacters THEN <<Ink(char, TRUE, color)>>
                               ELSE <<>>)
        ink[i \in 0 .. Len(text)] ==
            IF i = 0 THEN <<>> ELSE ink[i - 1] \o cells(text[i])
    IN ink[Len(text)]

\* Two characters drawn on top of each other.
Smear == [char |-> "smear", right |-> FALSE, color |-> 0]
InkOver(old, new) ==
    IF new = NoInk THEN old ELSE IF old \in {NoInk, new} THEN new ELSE Smear

\* wxDC::DrawText at a column.
DrawText(canvas, left, text, color) ==
    LET ink == InkOf(text, color)
    IN [c \in DOMAIN canvas |->
           IF c - left + 1 \in DOMAIN ink
           THEN [canvas[c] EXCEPT !.ink = InkOver(@, ink[c - left + 1])]
           ELSE canvas[c]]

-----------------------------------------------------------------------------
(* The cache of glyph runs                                                  *)

StyleOf(run) == RowStyles[run.style]
TextOf(run) == Piece(packed_row, run.offset, run.length)

GlyphRunKey(run) ==
    [text |-> TextOf(run), foreground |-> StyleOf(run).foreground,
     background |-> StyleOf(run).background, cell_count |-> run.count,
     attributes |-> StyleOf(run).underline, cell_width |-> cell_width]

\* The bitmap made for a run: as wide as its cells, or as its text if that is
\* wider.
GlyphBitmap(run) ==
    LET ink == InkOf(TextOf(run), StyleOf(run).foreground)
    IN [columns |-> [i \in 1 .. Larger(run.count, Len(ink)) |->
                        [background |-> StyleOf(run).background,
                         ink  |-> IF i \in DOMAIN ink THEN ink[i] ELSE NoInk,
                         line |-> FALSE]],
        cell_width |-> cell_width]
BitmapBytes(bitmap) == Len(bitmap.columns) * bitmap.cell_width * BytesPerPixel

Total(numbers) ==
    LET sum[i \in 0 .. Len(numbers)] == IF i = 0 THEN 0 ELSE sum[i - 1] + numbers[i]
    IN sum[Len(numbers)]
BytesOf(keys) == Total([i \in 1 .. Len(keys) |-> glyph_runs[keys[i]].bytes])

\* A plausible bug: a full cache is evicted from only when it is over its limit.
EntriesThatStayOneMore(bytes) ==
    LET used == Len(glyph_run_lru)
        after(n) == glyph_run_cache_bytes - BytesOf(SubSeq(glyph_run_lru, n + 1, used))
    IN Max({n \in 0 .. used :
               n = 0 \/ (n <= MaxEntries /\ after(n) <= MaxBytes - bytes)})

\* EvictLeastRecentlyUsedGlyphRun until a bitmap of so many bytes fits: how
\* many entries, from the last used one on, stay.
EntriesThatStay(bytes) ==
    LET used == Len(glyph_run_lru)
        after(n) == glyph_run_cache_bytes - BytesOf(SubSeq(glyph_run_lru, n + 1, used))
    IN Max({n \in 0 .. used :
               n = 0 \/ (n < MaxEntries /\ after(n) <= MaxBytes - bytes)})

\* A hit moves the entry to the front of the list.
UseCached(key) ==
    /\ key \in DOMAIN glyph_runs
    /\ \E i \in DOMAIN glyph_run_lru :
           /\ glyph_run_lru[i] = key
           /\ glyph_run_lru' = <<key>> \o RemoveAt(glyph_run_lru, i)
    /\ UNCHANGED <<glyph_runs, glyph_run_cache_bytes>>

Insert(key, bitmap) ==
    LET bytes == BitmapBytes(bitmap)
        stay == SubSeq(glyph_run_lru, 1, EntriesThatStay(bytes))
        gone == SubSeq(glyph_run_lru, Len(stay) + 1, Len(glyph_run_lru))
    IN /\ key \notin DOMAIN glyph_runs
       /\ MaxEntries > 0
       /\ bytes <= MaxBytes
       /\ glyph_runs' = [k \in Range(stay) \cup {key} |->
              IF k = key THEN [bitmap |-> bitmap, bytes |-> bytes] ELSE glyph_runs[k]]
       /\ glyph_run_lru' = <<key>> \o stay
       /\ glyph_run_cache_bytes' = (glyph_run_cache_bytes - BytesOf(gone)) + bytes

\* A bitmap the cache cannot hold is drawn from glyph_bitmap_scratch_.
UseScratch(key, bitmap) ==
    /\ key \notin DOMAIN glyph_runs
    /\ MaxEntries = 0 \/ BitmapBytes(bitmap) > MaxBytes
    /\ UNCHANGED cacheVars

-----------------------------------------------------------------------------
(* RenderFrame                                                              *)

Right(run) == run.left + run.count
DrawLeft(run) == Larger(dirty_columns[1], run.left)
DrawRight(run) == Smaller(dirty_columns[2], Right(run))

\* With the cache a run is drawn in spans of bounded length.
RunsToDraw(row, cached) ==
    LET spans[i \in 0 .. Len(row.runs)] ==
            IF i = 0 THEN <<>> ELSE spans[i - 1] \o RunSpans(row, row.runs[i], MaxRunCells)
    IN IF cached THEN spans[Len(row.runs)] ELSE row.runs

\* Those of them that reach into the dirty columns.
RunsWithin(runs, left, right) ==
    LET within[i \in 0 .. Len(runs)] ==
            IF i = 0 THEN <<>>
            ELSE IF runs[i].left < right /\ left < Right(runs[i])
            THEN Append(within[i - 1], runs[i])
            ELSE within[i - 1]
    IN within[Len(runs)]

\* Backgrounds of neighbouring runs are drawn with one rectangle if they have
\* the same colour; the default one is there already.
NoPending == [left |-> 0, right |-> 0, color |-> DefaultBackground]
Flushed(painting) ==
    [canvas |-> IF painting.pending = NoPending THEN painting.canvas
                ELSE FillColumns(painting.canvas, painting.pending.left,
                                 painting.pending.right, painting.pending.color),
     pending |-> NoPending]

\* A plausible bug: a run in the default background does not end the rectangle,
\* and the next one of its colour goes on with it.
AddBackgroundUnbroken(painting, run, left, right) ==
    LET color == StyleOf(run).background
        start == Larger(left, run.left)
        end == Smaller(right, Right(run))
        continues == /\ painting.pending # NoPending
                     /\ painting.pending.color = color
    IN IF start >= end THEN painting
       ELSE IF color = DefaultBackground THEN painting
       ELSE IF continues THEN [painting EXCEPT !.pending.right = end]
       ELSE [Flushed(painting) EXCEPT !.pending =
                [left |-> start, right |-> end, color |-> color]]

AddBackground(painting, run, left, right) ==
    LET color == StyleOf(run).background
        start == Larger(left, run.left)
        end == Smaller(right, Right(run))
        continues == /\ painting.pending # NoPending
                     /\ painting.pending.color = color
                     /\ painting.pending.right = start
    IN IF start >= end THEN painting
       ELSE IF color = DefaultBackground THEN Flushed(painting)
       ELSE IF continues THEN [painting EXCEPT !.pending.right = end]
       ELSE [Flushed(painting) EXCEPT !.pending =
                [left |-> start, right |-> end, color |-> color]]

PaintBackgrounds(canvas, runs, left, right) ==
    LET painting[i \in 0 .. Len(runs)] ==
            IF i = 0 THEN [canvas  |-> FillColumns(canvas, left, right, DefaultBackground),
                           pending |-> NoPending]
            ELSE AddBackground(painting[i - 1], runs[i], left, right)
    IN Flushed(painting[Len(runs)]).canvas

\* The columns whose cells differ from those of the row before.
ContentOf(row) ==
    [c \in RowPositions |-> [text |-> CellText(row, c), style |-> row.cells[c].style,
                             width |-> row.cells[c].width]]
ChangedColumns(cells) ==
    LET before == ContentOf(packed_row)
    IN UNION {CellLeft(c, cells[c].width) .. CellRight(c, cells[c].width, RowColumns) - 1 :
                  c \in {d \in RowPositions : cells[d] # before[d]}}

Layouts ==
    {cells \in [RowPositions -> RowCells] :
        \A c \in RowPositions :
            /\ cells[c].width = 2 => c + 1 \in RowPositions /\ cells[c + 1].width = 0
            /\ cells[c].width = 0 => c > 0 /\ cells[c - 1].width = 2}

\* What can be dirty: columns, not none, that take in the changes of this row,
\* and all of them where nothing has been painted yet.
Regions(cells) ==
    LET changed == ChangedColumns(cells)
    IN IF ~framebuffer_valid THEN {<<0, RowColumns>>}
       ELSE {region \in RowPositions \X (1 .. RowColumns) :
                /\ region[1] < region[2]
                /\ changed \subseteq region[1] .. region[2] - 1}

\* A frame is painted: the background, and the runs to be drawn on it.
\* Frames that scroll bypass the cache (glyph_cache_bypass_scroll).
BeginRow(cells, region, scrolled) ==
    LET row == RebuiltRow(packed_row, cells)
        runs == RunsToDraw(row, ~scrolled)
        left == region[1]
        right == region[2]
    IN /\ packed_row' = row
       /\ dirty_columns' = region
       /\ cache_glyphs' = ~scrolled
       /\ row_runs' = RunsWithin(runs, left, right)
       /\ framebuffer' = PaintBackgrounds(framebuffer, runs, left, right)
       /\ framebuffer_valid' = TRUE
       /\ UNCHANGED <<cell_width, cacheVars>>

\* The line an underlined run gets in its dirty columns, over text or bitmap.
Underlined(canvas, run) ==
    [c \in DOMAIN canvas |->
        IF StyleOf(run).underline /\ DrawLeft(run) <= c /\ c < DrawRight(run)
        THEN [canvas[c] EXCEPT !.line = TRUE] ELSE canvas[c]]

\* wxDC::DrawBitmap, which covers what it is drawn on.
DrawBitmap(canvas, left, bitmap) ==
    [c \in DOMAIN canvas |->
        IF c - left + 1 \in DOMAIN bitmap.columns THEN bitmap.columns[c - left + 1]
        ELSE canvas[c]]

HasGlyph(run) == \E i \in DOMAIN TextOf(run) : TextOf(run)[i] # SPACE

DrawRun ==
    /\ row_runs # <<>>
    /\ row_runs' = Tail(row_runs)
    /\ UNCHANGED <<packed_row, dirty_columns, cache_glyphs, cell_width, framebuffer_valid>>
    /\ LET run == Head(row_runs)
           key == GlyphRunKey(run)
           bitmap == IF key \in DOMAIN glyph_runs THEN glyph_runs[key].bitmap
                     ELSE GlyphBitmap(run)
       IN \/ /\ ~HasGlyph(run)
             /\ framebuffer' = Underlined(framebuffer, run)
             /\ UNCHANGED cacheVars
          \/ /\ HasGlyph(run) /\ ~cache_glyphs
             /\ framebuffer' = Underlined(DrawText(framebuffer, run.left, TextOf(run),
                                                   StyleOf(run).foreground), run)
             /\ UNCHANGED cacheVars
          \/ /\ HasGlyph(run) /\ cache_glyphs
             /\ framebuffer' = Underlined(DrawBitmap(framebuffer, run.left, bitmap), run)
             /\ UseCached(key) \/ Insert(key, bitmap) \/ UseScratch(key, bitmap)

\* UpdateGeometry and EnsureFramebuffer after the window got another size and
\* perhaps another resolution: a cache of bitmaps of another size is cleared.
Resized(width) ==
    /\ row_runs = <<>>
    /\ framebuffer_valid
    /\ cell_width' = width
    /\ IF width = cell_width THEN UNCHANGED cacheVars
       ELSE /\ glyph_runs' = <<>>
            /\ glyph_run_lru' = <<>>
            /\ glyph_run_cache_bytes' = 0
    /\ framebuffer' = [c \in RowPositions |-> Filled(DefaultBackground)]
    /\ framebuffer_valid' = FALSE
    /\ UNCHANGED <<packed_row, dirty_columns, row_runs, cache_glyphs>>

GlyphInit ==
    /\ packed_row = BlankRow(RowColumns)
    /\ dirty_columns = <<0, 0>>
    /\ row_runs = <<>>
    /\ cache_glyphs = FALSE
    /\ cell_width \in CellWidths
    /\ glyph_runs = <<>> /\ glyph_run_lru = <<>> /\ glyph_run_cache_bytes = 0
    /\ framebuffer = [c \in RowPositions |-> Filled(DefaultBackground)]
    /\ framebuffer_valid = FALSE

GlyphNext ==
    \/ /\ row_runs = <<>>
       /\ \E cells \in Layouts : \E region \in Regions(cells), scrolled \in BOOLEAN :
              BeginRow(cells, region, scrolled)
    \/ DrawRun
    \/ \E width \in CellWidths : Resized(width)

GlyphSpec == GlyphInit /\ [][GlyphNext]_glyphVars

-----------------------------------------------------------------------------
(* Properties                                                               *)

\* "Bound the wx glyph bitmap cache by entry count and estimated bitmap
\* memory, with LRU eviction" (TODO.md): the counter is the memory of all
\* entries, the list has every entry once, no bitmap is of another size than
\* the cells now have, and neither limit is exceeded, whichever mix of hits,
\* insertions, evictions and clearing came before.
GlyphCacheBounded ==
    /\ Range(glyph_run_lru) = DOMAIN glyph_runs
    /\ Len(glyph_run_lru) = Cardinality(DOMAIN glyph_runs)
    /\ glyph_run_cache_bytes = BytesOf(glyph_run_lru)
    /\ glyph_run_cache_bytes <= MaxBytes
    /\ Len(glyph_run_lru) <= MaxEntries
    /\ \A key \in DOMAIN glyph_runs :
           /\ glyph_runs[key].bitmap.cell_width = cell_width
           /\ glyph_runs[key].bytes = BitmapBytes(glyph_runs[key].bitmap)

InkAt(c) ==
    LET cell == packed_row.cells[c]
        whole == IF cell.width = 0 THEN c - 1 ELSE c
        color == RowStyles[packed_row.cells[whole].style].foreground
    IN Ink(CellText(packed_row, whole)[1], cell.width = 0, color)

\* "Cached versus uncached draw-path behavior" (README.md): when a row is
\* painted its columns show their cells, each once, on the background of its
\* style and underlined only if that says so, however little of the row was
\* dirty and whether text or bitmaps, fresh or from the cache, were drawn.
RowShowsCells ==
    row_runs = <<>> /\ framebuffer_valid =>
        \A c \in RowPositions :
            LET style == RowStyles[packed_row.cells[c].style]
            IN /\ framebuffer[c].background = style.background
               /\ framebuffer[c].ink = InkAt(c)
               /\ framebuffer[c].line => style.underline

=============================================================================
