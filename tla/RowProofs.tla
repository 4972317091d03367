------------------------------ MODULE RowProofs ------------------------------
(***************************************************************************)
(* What TLAPS proves of the rows of a packed frame and of how the renderer  *)
(* paints them: what a row that is built again shows, that its runs are its *)
(* parts of one style, and that the spans of a run split it where a glyph   *)
(* cache may; that the cache stays within its limits; and that a row that   *)
(* is painted shows its cells, whatever was drawn from text or from bitmaps.*)
(***************************************************************************)
EXTENDS GlyphRenderer, DataTheorems, FiniteSetTheorems, SequenceTheorems

\* (The provers do not know that a string constant is a STRING.)
Characters == STRING \cup {SPACE}
Texts   == Seq(Characters)
Cells   == [offset : Nat, length : Nat, style : Nat, width : Nat]
Runs    == [left : Nat, count : Nat, style : Nat, offset : Nat, length : Int]
Decoded == [text : Texts, style : Nat, width : Nat]

-----------------------------------------------------------------------------
(* Pieces of a text                                                        *)

LEMMA FunctionSeq ==
    ASSUME NEW S, NEW n \in Nat, NEW f \in [1 .. n -> S]
    PROVE  f \in Seq(S) /\ Len(f) = n
OBVIOUS

LEMMA PieceFacts ==
    ASSUME NEW t \in Texts, NEW a \in Nat, NEW n \in Nat, a + n <= Len(t)
    PROVE  /\ SubSeq(t, a + 1, a + n) \in Texts /\ Len(SubSeq(t, a + 1, a + n)) = n
           /\ \A i \in 1 .. n : SubSeq(t, a + 1, a + n)[i] = t[a + i]
<1> DEFINE l == a + 1
           u == a + n
<1>1. l \in Nat /\ u \in Nat /\ l >= 1 /\ u <= Len(t) /\ u + 1 - l = n
  OBVIOUS
<1>2. \A i \in 1 .. n : l + i - 1 = a + i
  OBVIOUS
<1> HIDE DEF l, u
<1>3. /\ SubSeq(t, l, u) \in Texts
      /\ Len(SubSeq(t, l, u)) = IF l <= u THEN u - l + 1 ELSE 0
  BY <1>1 DEF Texts
<1>4. Len(SubSeq(t, l, u)) = n
  BY <1>1, <1>3
<1>5. \A i \in 1 .. n : SubSeq(t, l, u)[i] = t[l + i - 1]
  BY <1>1, <1>3 DEF Texts
<1> QED
  BY <1>2, <1>3, <1>4, <1>5 DEF l, u

\* Texts of one length with the same characters are one.
LEMMA SameText ==
    ASSUME NEW s \in Texts, NEW t \in Texts, Len(s) = Len(t),
           \A i \in 1 .. Len(s) : s[i] = t[i]
    PROVE  s = t
BY SeqEqual DEF Texts

LEMMA JoinedText ==
    ASSUME NEW s \in Texts, NEW t \in Texts
    PROVE  /\ s \o t \in Texts /\ Len(s \o t) = Len(s) + Len(t)
           /\ Len(s) \in Nat /\ Len(t) \in Nat
           /\ \A i \in 1 .. Len(s) : (s \o t)[i] = s[i]
           /\ \A i \in 1 .. Len(t) : (s \o t)[Len(s) + i] = t[i]
<1>1. s \o t \in Texts /\ Len(s \o t) = Len(s) + Len(t) /\ Len(s) \in Nat /\ Len(t) \in Nat
  BY ConcatProperties, LenProperties DEF Texts
<1>2. \A i \in 1 .. Len(s) + Len(t) :
          (s \o t)[i] = IF i <= Len(s) THEN s[i] ELSE t[i - Len(s)]
  BY ConcatProperties DEF Texts
<1>3. \A i \in 1 .. Len(s) : i \in 1 .. Len(s) + Len(t) /\ i <= Len(s)
  BY <1>1
<1>4. \A i \in 1 .. Len(t) :
          /\ Len(s) + i \in 1 .. Len(s) + Len(t) /\ ~(Len(s) + i <= Len(s))
          /\ (Len(s) + i) - Len(s) = i
  BY <1>1
<1> QED
  BY <1>1, <1>2, <1>3, <1>4

\* Two pieces that touch make one.
LEMMA PiecesJoin ==
    ASSUME NEW t \in Texts, NEW a \in Nat, NEW m \in Nat, NEW n \in Nat, a + m + n <= Len(t)
    PROVE  SubSeq(t, a + 1, a + m) \o SubSeq(t, (a + m) + 1, (a + m) + n)
               = SubSeq(t, a + 1, a + (m + n))
<1> DEFINE b == a + m
           k == m + n
           p == SubSeq(t, a + 1, a + m)
           q == SubSeq(t, b + 1, b + n)
           w == SubSeq(t, a + 1, a + k)
<1>0. Len(t) \in Nat
  BY LenProperties DEF Texts
<1>1. b \in Nat /\ k \in Nat /\ a + m <= Len(t) /\ b + n <= Len(t) /\ a + k <= Len(t)
      /\ \A i \in 1 .. n : b + i = a + (m + i)
  BY <1>0
<1>2. p \in Texts /\ Len(p) = m /\ \A i \in 1 .. m : p[i] = t[a + i]
  BY <1>1, PieceFacts
<1>3. w \in Texts /\ Len(w) = k /\ \A i \in 1 .. k : w[i] = t[a + i]
  <2> HIDE DEF k
  <2> QED
    BY <1>1, PieceFacts
<1>4. q \in Texts /\ Len(q) = n /\ \A i \in 1 .. n : q[i] = t[b + i]
  <2> HIDE DEF b
  <2> QED
    BY <1>1, PieceFacts
<1>5. \A i \in 1 .. n : q[i] = t[a + (m + i)]
  BY <1>1, <1>4
<1> HIDE DEF p, q, w, b
<1>6. /\ p \o q \in Texts /\ Len(p \o q) = k
      /\ \A i \in 1 .. m : (p \o q)[i] = p[i]
      /\ \A i \in 1 .. n : (p \o q)[m + i] = q[i]
  BY <1>2, <1>4, JoinedText
<1>7. ASSUME NEW i \in 1 .. k PROVE (p \o q)[i] = w[i]
  <2>1. CASE i <= m
    <3>1. i \in 1 .. m
      BY <2>1
    <3> QED
      BY <1>2, <1>3, <1>6, <3>1
  <2>2. CASE ~(i <= m)
    <3>1. i - m \in 1 .. n /\ m + (i - m) = i
      BY <2>2
    <3>2. (p \o q)[m + (i - m)] = t[a + (m + (i - m))]
      BY <1>5, <1>6, <3>1
    <3> QED
      BY <1>3, <3>1, <3>2
  <2> QED
    BY <2>1, <2>2
<1>8. p \o q = w
  <2> HIDE DEF k
  <2> QED
    BY <1>3, <1>6, <1>7, SameText
<1> QED
  BY <1>8 DEF p, q, w, b

-----------------------------------------------------------------------------
(* The text of a row is that of its cells, one after the other.            *)

EndOf(cell) == cell.offset + cell.length

Contiguous(cells, n) ==
    /\ cells \in [0 .. n - 1 -> Cells]
    /\ \A c \in 0 .. n - 1 :
           cells[c].offset = IF c = 0 THEN 0 ELSE EndOf(cells[c - 1])

RowOf(row, n) ==
    /\ Contiguous(row.cells, n)
    /\ row.text \in Texts
    /\ \A c \in 0 .. n - 1 : EndOf(row.cells[c]) <= Len(row.text)

LEMMA CellTypes ==
    ASSUME NEW cell \in Cells
    PROVE  /\ cell.offset \in Nat /\ cell.length \in Nat /\ cell.style \in Nat
           /\ cell.width \in Nat /\ EndOf(cell) \in Nat /\ cell.offset <= EndOf(cell)
           /\ EndOf(cell) = cell.offset + cell.length
<1>1. cell.offset \in Nat /\ cell.length \in Nat /\ cell.style \in Nat /\ cell.width \in Nat
  BY DEF Cells
<1> QED
  BY <1>1 DEF EndOf

LEMMA CellsInOrder ==
    ASSUME NEW n \in Nat, NEW cells, Contiguous(cells, n),
           NEW a \in 0 .. n - 1, NEW b \in 0 .. n - 1, a <= b
    PROVE  cells[a].offset <= cells[b].offset /\ EndOf(cells[a]) <= EndOf(cells[b])
<1> DEFINE S == {d \in Nat : a + d <= n - 1 =>
                    /\ cells[a].offset <= cells[a + d].offset
                    /\ EndOf(cells[a]) <= EndOf(cells[a + d])}
<1>1. \A c \in 0 .. n - 1 :
          /\ cells[c] \in Cells /\ cells[c].offset \in Nat /\ EndOf(cells[c]) \in Nat
          /\ cells[c].offset <= EndOf(cells[c])
  BY CellTypes DEF Contiguous
<1>2. 0 \in S
  <2>1. a + 0 = a
    OBVIOUS
  <2> QED
    BY <1>1, <2>1
<1>3. ASSUME NEW d \in Nat, d \in S PROVE d + 1 \in S
  <2> SUFFICES ASSUME a + (d + 1) <= n - 1
               PROVE  /\ cells[a].offset <= cells[a + (d + 1)].offset
                      /\ EndOf(cells[a]) <= EndOf(cells[a + (d + 1)])
    OBVIOUS
  <2> DEFINE c == a + (d + 1)
  <2>1. c \in 0 .. n - 1 /\ c # 0 /\ c - 1 = a + d /\ a + d <= n - 1 /\ a + d \in 0 .. n - 1
    OBVIOUS
  <2>2. cells[a].offset <= cells[a + d].offset /\ EndOf(cells[a]) <= EndOf(cells[a + d])
    BY <1>3, <2>1
  <2> HIDE DEF c
  <2>3. cells[c].offset = EndOf(cells[a + d])
    BY <2>1 DEF Contiguous
  <2>4. /\ cells[a].offset <= cells[c].offset
        /\ EndOf(cells[a]) <= EndOf(cells[c])
    BY <1>1, <2>1, <2>2, <2>3
  <2> QED
    BY <2>4 DEF c
<1>4. b - a \in Nat /\ a + (b - a) = b /\ b <= n - 1
  OBVIOUS
<1> HIDE DEF S
<1>5. b - a \in S
  BY <1>2, <1>3, <1>4, Induction
<1> QED
  BY <1>4, <1>5 DEF S

\* Texts that are put together one after the other.
LEMMA Concatenation ==
    ASSUME NEW n \in Nat, NEW part \in [1 .. n -> Texts]
    PROVE  \E f \in [0 .. n -> Texts] :
               f[0] = <<>> /\ \A k \in 1 .. n : f[k] = f[k - 1] \o part[k]
<1> DEFINE none == <<>>
           step == [x \in (1 .. n) \X Texts |-> x[2] \o part[x[1]]]
<1>1. none \in Texts
  BY DEF Texts
<1>2. ASSUME NEW x \in (1 .. n) \X Texts PROVE x[2] \o part[x[1]] \in Texts
  <2>1. x[1] \in 1 .. n /\ x[2] \in Texts
    OBVIOUS
  <2> QED
    BY <2>1, JoinedText
<1>3. step \in Steps(n, Texts)
  BY <1>2 DEF Steps
<1>4. \A k \in 1 .. n, t \in Texts : step[<<k, t>>] = t \o part[k]
  OBVIOUS
<1> HIDE DEF none, step
<1>5. PICK f : Recursive(f, n, Texts, none, step)
  BY <1>1, <1>3, Recursion
<1>6. f \in [0 .. n -> Texts] /\ f[0] = none /\ \A k \in 1 .. n : f[k] = step[<<k, f[k - 1]>>]
  BY <1>5 DEF Recursive
<1>7. \A k \in 1 .. n : step[<<k, f[k - 1]>>] = f[k - 1] \o part[k]
  <2>1. \A k \in 1 .. n : k - 1 \in 0 .. n
    OBVIOUS
  <2> QED
    BY <1>4, <1>6, <2>1
<1>8. f[0] = <<>> /\ \A k \in 1 .. n : f[k] = f[k - 1] \o part[k]
  BY <1>6, <1>7 DEF none
<1> QED
  BY <1>6, <1>8

\* The text of neighbouring cells is one piece of the row's.
LEMMA CellsMakePieces ==
    ASSUME NEW n \in Nat, NEW row, RowOf(row, n), NEW left \in Nat, NEW count \in Nat,
           count > 0, left + count <= n
    PROVE  TextOfCells(row, left, count)
               = Piece(row, row.cells[left].offset,
                       EndOf(row.cells[left + count - 1]) - row.cells[left].offset)
<1> DEFINE part == [k \in 1 .. count |-> CellText(row, left + k - 1)]
           text[k \in 0 .. count] ==
               IF k = 0 THEN <<>> ELSE text[k - 1] \o CellText(row, left + k - 1)
           first == row.cells[left].offset
           upto(k) == Piece(row, first, EndOf(row.cells[left + k - 1]) - first)
<1>1. \A c \in 0 .. n - 1 :
          /\ row.cells[c] \in Cells /\ row.cells[c].offset \in Nat
          /\ row.cells[c].length \in Nat /\ EndOf(row.cells[c]) \in Nat
          /\ row.cells[c].offset <= EndOf(row.cells[c])
          /\ EndOf(row.cells[c]) = row.cells[c].offset + row.cells[c].length
          /\ EndOf(row.cells[c]) <= Len(row.text)
  BY CellTypes DEF Contiguous, RowOf
<1>2. \A c \in 0 .. n - 1 : CellText(row, c) \in Texts
  BY <1>1, PieceFacts DEF CellText, Piece, RowOf
<1>3. \A k \in 1 .. count : left + k - 1 \in 0 .. n - 1 /\ left <= left + k - 1
  OBVIOUS
<1>5. part \in [1 .. count -> Texts]
  BY <1>2, <1>3
<1>6. \E f \in [0 .. count -> Texts] :
          f = [k \in 0 .. count |-> IF k = 0 THEN <<>> ELSE f[k - 1] \o CellText(row, left + k - 1)]
  <2> HIDE DEF part
  <2>1. PICK f \in [0 .. count -> Texts] :
            f[0] = <<>> /\ \A k \in 1 .. count : f[k] = f[k - 1] \o part[k]
    BY <1>5, Concatenation
  <2>2. \A k \in 1 .. count : part[k] = CellText(row, left + k - 1)
    BY DEF part
  <2>2a. \A k \in 1 .. count : f[k] = f[k - 1] \o CellText(row, left + k - 1)
    BY <2>1, <2>2
  <2>2b. \A k \in 0 .. count :
            f[k] = IF k = 0 THEN <<>> ELSE f[k - 1] \o CellText(row, left + k - 1)
    BY <2>1, <2>2a
  <2>3. f = [k \in 0 .. count |-> IF k = 0 THEN <<>> ELSE f[k - 1] \o CellText(row, left + k - 1)]
    BY <2>1, <2>2b
  <2> QED
    BY <2>3
<1>7. text = [k \in 0 .. count |->
                 IF k = 0 THEN <<>> ELSE text[k - 1] \o CellText(row, left + k - 1)]
  BY <1>6
<1>8. TextOfCells(row, left, count) = text[count]
  BY DEF TextOfCells, text
<1> HIDE DEF text
<1>8a. /\ text[0] = <<>>
       /\ \A k \in 1 .. count : text[k] = text[k - 1] \o CellText(row, left + k - 1)
  BY <1>7
<1> DEFINE S == {k \in Nat : k + 1 \in 1 .. count => text[k + 1] = upto(k + 1)}
<1>9. 0 \in S
  <2>0. 1 \in 1 .. count /\ 1 - 1 = 0 /\ left + 1 - 1 = left /\ left \in 0 .. n - 1
    OBVIOUS
  <2>1. text[1] = text[0] \o CellText(row, left) /\ text[0] = <<>>
    BY <1>8a, <2>0
  <2>2. text[1] = CellText(row, left)
    BY <1>2, <2>0, <2>1, ConcatEmptySeq DEF Texts
  <2>3. EndOf(row.cells[left]) - first = row.cells[left].length
    BY <1>1, <2>0
  <2>4. upto(1) = CellText(row, left)
    BY <2>0, <2>3 DEF CellText
  <2> QED
    BY <2>2, <2>4
<1>10. ASSUME NEW k \in Nat, k \in S PROVE k + 1 \in S
  <2> SUFFICES ASSUME (k + 1) + 1 \in 1 .. count PROVE text[(k + 1) + 1] = upto((k + 1) + 1)
    OBVIOUS
  <2> DEFINE j == (k + 1) + 1
             c == left + j - 1
             m == EndOf(row.cells[c - 1]) - first
  <2>1. /\ j \in 1 .. count /\ j \in 0 .. count /\ j # 0 /\ j - 1 = k + 1 /\ k + 1 \in 1 .. count
        /\ c \in 0 .. n - 1 /\ c # 0 /\ c - 1 = left + (k + 1) - 1 /\ c - 1 \in 0 .. n - 1
        /\ left <= c - 1 /\ left \in 0 .. n - 1
    OBVIOUS
  <2>2. text[k + 1] = upto(k + 1)
    BY <1>10, <2>1
  <2> HIDE DEF j
  <2>3. text[j] = text[k + 1] \o CellText(row, c)
    BY <1>8a, <2>1
  <2> HIDE DEF c
  <2>4. upto(k + 1) = Piece(row, first, m)
    BY <2>1
  <2>5. row.cells[left].offset <= row.cells[c - 1].offset
    BY <2>1, CellsInOrder DEF RowOf
  <2>6. row.cells[c].offset = EndOf(row.cells[c - 1])
    BY <2>1 DEF RowOf, Contiguous
  <2> DEFINE l == row.cells[c].length
             t == row.text
             e == EndOf(row.cells[c])
             o == row.cells[c].offset
             b == EndOf(row.cells[c - 1])
             a == row.cells[c - 1].offset
             z == Len(t)
  <2>7a. /\ o \in Nat /\ l \in Nat /\ e = o + l /\ e <= z /\ o = b /\ b \in Nat /\ a \in Nat
         /\ a <= b /\ first <= a /\ first \in Nat /\ z \in Nat
    BY <1>1, <2>1, <2>5, <2>6, LenProperties DEF RowOf, Texts
  <2> HIDE DEF l, t, e, o, b, a, z, first
  <2>7. m \in Nat /\ o = first + m /\ first + m + l <= z /\ m + l = e - first
    BY <2>7a DEF b
  <2> HIDE DEF m
  <2>8. Piece(row, first, m) \o Piece(row, first + m, l) = Piece(row, first, m + l)
    <3>1. t \in Texts
      BY DEF RowOf, t
    <3>2. SubSeq(t, first + 1, first + m) \o SubSeq(t, (first + m) + 1, (first + m) + l)
              = SubSeq(t, first + 1, first + (m + l))
      BY <2>7, <2>7a, <3>1, PiecesJoin DEF z
    <3> QED
      BY <3>2 DEF Piece, t
  <2>9. CellText(row, c) = Piece(row, first + m, l)
    BY <2>7 DEF CellText, l, o
  <2>10. text[j] = Piece(row, first, m + l)
    BY <2>2, <2>3, <2>4, <2>8, <2>9
  <2>11. upto(j) = Piece(row, first, EndOf(row.cells[c]) - first)
    BY DEF c
  <2>12. text[j] = upto(j)
    BY <2>7, <2>10, <2>11 DEF e
  <2> QED
    BY <2>12 DEF j
<1>11. count - 1 \in Nat /\ (count - 1) + 1 = count /\ count \in 1 .. count
  OBVIOUS
<1> HIDE DEF S
<1>12. count - 1 \in S
  BY <1>9, <1>10, <1>11, Induction
<1> HIDE DEF upto
<1>13. text[count] = upto(count)
  BY <1>11, <1>12 DEF S
<1> QED
  BY <1>8, <1>13 DEF upto

-----------------------------------------------------------------------------
(* Runs, and the spans of a run, split the cells between two columns.      *)

\* A piece has the style and the text of its cells.
Covers(cells, piece) ==
    /\ piece \in Runs
    /\ piece.count > 0
    /\ \A c \in CellsOf(piece) : cells[c].style = piece.style
    /\ piece.offset = cells[piece.left].offset
    /\ piece.offset + piece.length = EndOf(cells[piece.left + piece.count - 1])

RightOf(piece) == piece.left + piece.count

Split(cells, pieces, from, to) ==
    /\ pieces \in Seq(Runs)
    /\ \A i \in 1 .. Len(pieces) : /\ Covers(cells, pieces[i])
                                   /\ from <= pieces[i].left /\ RightOf(pieces[i]) <= to
    /\ \A i \in 1 .. Len(pieces) :
           pieces[i].left = IF i = 1 THEN from ELSE RightOf(pieces[i - 1])
    /\ to = IF Len(pieces) = 0 THEN from ELSE RightOf(pieces[Len(pieces)])

LEMMA RunTypes ==
    ASSUME NEW run \in Runs
    PROVE  /\ run.left \in Nat /\ run.count \in Nat /\ run.style \in Nat /\ run.offset \in Nat
           /\ run.length \in Int /\ RightOf(run) \in Nat
           /\ RightOf(run) = run.left + run.count
<1>1. /\ run.left \in Nat /\ run.count \in Nat /\ run.style \in Nat /\ run.offset \in Nat
      /\ run.length \in Int
  BY DEF Runs
<1> QED
  BY <1>1 DEF RightOf

LEMMA RunRecord ==
    ASSUME NEW l \in Nat, NEW k \in Nat, NEW s \in Nat, NEW o \in Nat, NEW z \in Int
    PROVE  [left |-> l, count |-> k, style |-> s, offset |-> o, length |-> z] \in Runs
BY DEF Runs

LEMMA AppendFacts ==
    ASSUME NEW S, NEW s \in Seq(S), NEW x \in S
    PROVE  /\ Append(s, x) \in Seq(S) /\ Len(Append(s, x)) = Len(s) + 1 /\ Len(s) \in Nat
           /\ \A i \in 1 .. Len(s) : Append(s, x)[i] = s[i] /\ s[i] \in S
           /\ Append(s, x)[Len(s) + 1] = x
OBVIOUS

\* One more piece, where the last one ends.
LEMMA SplitAppend ==
    ASSUME NEW cells, NEW pieces, NEW from \in Nat, NEW to \in Nat, from <= to,
           Split(cells, pieces, from, to),
           NEW piece, Covers(cells, piece), piece.left = to
    PROVE  Split(cells, Append(pieces, piece), from, to + piece.count)
<1> DEFINE n == Len(pieces)
           more == Append(pieces, piece)
<1>1. /\ more \in Seq(Runs) /\ Len(more) = n + 1 /\ n \in Nat
      /\ \A i \in 1 .. n : more[i] = pieces[i] /\ pieces[i] \in Runs
      /\ more[n + 1] = piece
  BY AppendFacts DEF Split, Covers
<1>2. \A i \in 1 .. n : /\ Covers(cells, pieces[i]) /\ from <= pieces[i].left
                        /\ RightOf(pieces[i]) <= to /\ RightOf(pieces[i]) \in Nat
                        /\ pieces[i].left = IF i = 1 THEN from ELSE RightOf(pieces[i - 1])
  BY <1>1, RunTypes DEF Split
<1>3. to = IF n = 0 THEN from ELSE RightOf(pieces[n])
  BY DEF Split
<1>4. piece.count \in Nat /\ RightOf(piece) = to + piece.count
  BY RunTypes DEF Covers
<1> HIDE DEF n, more
<1>5. ASSUME NEW i \in 1 .. n + 1
      PROVE  /\ Covers(cells, more[i])
             /\ from <= more[i].left /\ RightOf(more[i]) <= to + piece.count
  <2>1. CASE i \in 1 .. n
    <3>1. RightOf(pieces[i]) <= to + piece.count
      BY <1>2, <1>4, <2>1
    <3> QED
      BY <1>1, <1>2, <2>1, <3>1
  <2>2. CASE i = n + 1
    BY <1>1, <1>4, <2>2
  <2> QED
    BY <1>1, <2>1, <2>2
<1>6. ASSUME NEW i \in 1 .. n + 1
      PROVE  more[i].left = IF i = 1 THEN from ELSE RightOf(more[i - 1])
  <2>1. CASE i \in 1 .. n
    <3>1. i # 1 => i - 1 \in 1 .. n
      BY <1>1, <2>1
    <3> QED
      BY <1>1, <1>2, <2>1, <3>1
  <2>2. CASE i = n + 1
    <3>1. i = 1 => n = 0
      BY <1>1, <2>2
    <3>2. i # 1 => n # 0 /\ n \in 1 .. n /\ i - 1 = n
      BY <1>1, <2>2
    <3> QED
      BY <1>1, <1>3, <2>2, <3>1, <3>2
  <2> QED
    BY <1>1, <2>1, <2>2
<1>7. n + 1 # 0
  BY <1>1
<1> QED
  BY <1>1, <1>4, <1>5, <1>6, <1>7 DEF Split, more

\* Neighbouring runs differ: a run is as long as it can be.
Alternate(runs) == \A i \in 2 .. Len(runs) : runs[i].style # runs[i - 1].style

LEMMA RunsExtended ==
    ASSUME NEW n \in Nat, NEW cells, Contiguous(cells, n), NEW c \in 0 .. n - 1,
           NEW runs, Split(cells, runs, 0, c), Alternate(runs)
    PROVE  /\ Split(cells, ExtendRuns(cells, runs, c), 0, c + 1)
           /\ Alternate(ExtendRuns(cells, runs, c))
<1> DEFINE cell == cells[c]
           last == Len(runs)
           continues == last > 0 /\ runs[last].style = cell.style
           one == [left |-> c, count |-> 1, style |-> cell.style,
                   offset |-> cell.offset, length |-> cell.length]
           longer == [runs EXCEPT ![last].count  = @ + 1,
                                  ![last].length = cell.offset + cell.length - runs[last].offset]
<1>1. ExtendRuns(cells, runs, c) = IF continues THEN longer ELSE Append(runs, one)
  BY DEF ExtendRuns
<1>2. /\ cell \in Cells /\ cell.offset \in Nat /\ cell.length \in Nat /\ cell.style \in Nat
      /\ EndOf(cell) = cell.offset + cell.length
  BY CellTypes DEF Contiguous
<1>3. runs \in Seq(Runs) /\ last \in Nat /\ \A i \in 1 .. last : runs[i] \in Runs
  BY DEF Split
<1>4. c \in Nat /\ 0 <= c /\ 0 \in Nat
  OBVIOUS
<1>5. CASE ~continues
  <2>1. one \in Runs
    BY <1>2, <1>4, RunRecord
  <2>2. CellsOf(one) = {c}
    BY <1>4 DEF CellsOf
  <2>3. one.left + one.count - 1 = c
    BY <1>4
  <2>4. Covers(cells, one)
    BY <1>2, <2>1, <2>2, <2>3 DEF Covers
  <2>5. one.left = c /\ one.count = 1 /\ one.style = cell.style
    OBVIOUS
  <2> HIDE DEF one
  <2>6. Split(cells, Append(runs, one), 0, c + 1)
    BY <1>4, <2>4, <2>5, SplitAppend
  <2>7. /\ Len(Append(runs, one)) = last + 1
        /\ \A i \in 1 .. last : Append(runs, one)[i] = runs[i]
        /\ Append(runs, one)[last + 1] = one
    BY <1>3, <2>1, AppendFacts
  <2>8. Alternate(Append(runs, one))
    <3> SUFFICES ASSUME NEW i \in 2 .. last + 1
                 PROVE  Append(runs, one)[i].style # Append(runs, one)[i - 1].style
      BY <2>7 DEF Alternate
    <3>1. i - 1 \in 1 .. last
      BY <1>3
    <3>2. CASE i <= last
      <4>1. i \in 1 .. last /\ i \in 2 .. last
        BY <3>2
      <4> QED
        BY <2>7, <3>1, <4>1 DEF Alternate
    <3>3. CASE ~(i <= last)
      <4>1. i = last + 1 /\ i - 1 = last /\ last > 0
        BY <1>3, <3>3
      <4>2. runs[last].style # cell.style
        BY <1>5, <4>1
      <4>3. Append(runs, one)[i] = one /\ Append(runs, one)[i - 1] = runs[last]
        BY <2>7, <3>1, <4>1
      <4> QED
        BY <2>5, <4>2, <4>3
    <3> QED
      BY <3>2, <3>3
  <2> QED
    BY <1>1, <1>5, <2>6, <2>8
<1>6. CASE continues
  <2> DEFINE old == runs[last]
             new == [old EXCEPT !.count = @ + 1,
                                !.length = cell.offset + cell.length - old.offset]
  <2>1. last \in 1 .. last /\ last # 0 /\ old \in Runs /\ old.style = cell.style
    BY <1>3, <1>6
  <2>2. /\ old.left \in Nat /\ old.count \in Nat /\ old.style \in Nat /\ old.offset \in Nat
        /\ RightOf(old) = old.left + old.count /\ RightOf(old) = c /\ Covers(cells, old)
        /\ old.left >= 0 /\ old.count > 0
    BY <2>1, RunTypes DEF Split, Covers
  <2>3. /\ new \in Runs /\ new.left = old.left /\ new.count = old.count + 1
        /\ new.style = old.style /\ new.offset = old.offset
        /\ new.length = cell.offset + cell.length - old.offset
    <3>1. cell.offset + cell.length - old.offset \in Int
      BY <1>2, <2>2
    <3>2. old.count + 1 \in Nat
      BY <2>2
    <3> DEFINE k == old.count + 1
               z == cell.offset + cell.length - old.offset
    <3>3. new = [old EXCEPT !.count = k, !.length = z]
      OBVIOUS
    <3>3a. k \in Nat /\ z \in Int /\ old \in Runs
      BY <2>1, <3>1, <3>2
    <3> HIDE DEF old, new, k, z
    <3>4. new \in Runs
      BY <3>3, <3>3a DEF Runs
    <3>5. new.left = old.left /\ new.count = k /\ new.length = z
      BY <3>3, <3>3a DEF Runs
    <3>6. new.style = old.style /\ new.offset = old.offset
      BY <3>3, <3>3a DEF Runs
    <3> QED
      BY <3>4, <3>5, <3>6 DEF k, z
  <2>4. /\ longer \in Seq(Runs) /\ Len(longer) = last
        /\ \A i \in 1 .. last : longer[i] = IF i = last THEN new ELSE runs[i]
    <3>1. longer = [runs EXCEPT ![last] = new]
      BY <1>3, <2>1
    <3> HIDE DEF new, longer
    <3>2. runs \in [1 .. last -> Runs]
      BY <1>3
    <3>3. longer \in [1 .. last -> Runs]
      BY <2>3, <3>1, <3>2
    <3>4. \A i \in 1 .. last : longer[i] = IF i = last THEN new ELSE runs[i]
      BY <3>1, <3>2
    <3> HIDE DEF last
    <3>5. last \in Nat
      BY <1>3
    <3>6. Len(longer) = last /\ longer \in Seq(Runs)
      BY <3>3, <3>5, FunctionSeq
    <3> QED
      BY <3>4, <3>6
  <2>5. RightOf(new) = c + 1
    BY <2>2, <2>3 DEF RightOf
  <2>6. Covers(cells, new)
    <3>1. CellsOf(new) = CellsOf(old) \cup {c}
      <4> HIDE DEF new, old
      <4>1. old.left + (old.count + 1) - 1 = c /\ old.left + old.count - 1 = c - 1
            /\ old.left <= c
        BY <2>2, <1>4
      <4>2. CellsOf(new) = old.left .. c /\ CellsOf(old) = old.left .. (c - 1)
        BY <2>3, <4>1 DEF CellsOf
      <4> QED
        BY <1>4, <2>2, <4>1, <4>2
    <3>2. \A d \in CellsOf(new) : cells[d].style = new.style
      BY <2>1, <2>2, <2>3, <3>1 DEF Covers
    <3> HIDE DEF new, old
    <3>3. new.left + new.count - 1 = c
      BY <1>4, <2>2, <2>3
    <3>4. new.offset + new.length = EndOf(cell)
      BY <1>2, <2>2, <2>3
    <3> QED
      BY <2>2, <2>3, <3>2, <3>3, <3>4 DEF Covers
  <2> HIDE DEF new, longer
  <2>7. \A i \in 1 .. last : Covers(cells, longer[i]) /\ 0 <= longer[i].left
                            /\ RightOf(longer[i]) <= c + 1
                            /\ longer[i].left = runs[i].left
    <3>1. \A i \in 1 .. last : /\ Covers(cells, runs[i]) /\ 0 <= runs[i].left
                              /\ RightOf(runs[i]) <= c /\ RightOf(runs[i]) \in Nat
      BY <1>3, RunTypes DEF Split
    <3>2. \A i \in 1 .. last : RightOf(runs[i]) <= c + 1
      BY <1>4, <3>1
    <3>3. c + 1 <= c + 1
      BY <1>4
    <3> QED
      BY <2>2, <2>3, <2>4, <2>5, <2>6, <3>1, <3>2, <3>3
  <2>8. \A i \in 1 .. last :
            longer[i].left = IF i = 1 THEN 0 ELSE RightOf(longer[i - 1])
    <3>1. \A i \in 1 .. last : i # 1 => i - 1 \in 1 .. last /\ i - 1 # last
      BY <1>3
    <3>2. \A i \in 1 .. last : runs[i].left = IF i = 1 THEN 0 ELSE RightOf(runs[i - 1])
      BY DEF Split
    <3> QED
      BY <2>4, <2>7, <3>1, <3>2
  <2>9. Split(cells, longer, 0, c + 1)
    BY <2>1, <2>4, <2>5, <2>7, <2>8 DEF Split
  <2>10. \A i \in 1 .. last : longer[i].style = runs[i].style
    BY <2>3, <2>4
  <2>11. Alternate(longer)
    <3>1. \A i \in 2 .. last : i \in 1 .. last /\ i - 1 \in 1 .. last
      BY <1>3
    <3> QED
      BY <2>4, <2>10, <3>1 DEF Alternate
  <2> QED
    BY <1>1, <1>6, <2>9, <2>11
<1> QED
  BY <1>5, <1>6

-----------------------------------------------------------------------------
(* A row that is built again                                               *)

LEMMA CellRecord ==
    ASSUME NEW o \in Nat, NEW l \in Nat, NEW s \in Nat, NEW w \in Nat
    PROVE  [offset |-> o, length |-> l, style |-> s, width |-> w] \in Cells
BY DEF Cells

LEMMA DecodedRecord ==
    ASSUME NEW t \in Texts, NEW s \in Nat, NEW w \in Nat
    PROVE  [text |-> t, style |-> s, width |-> w] \in Decoded
BY DEF Decoded

LEMMA CellTextType ==
    ASSUME NEW n \in Nat, NEW row, RowOf(row, n), NEW c \in 0 .. n - 1
    PROVE  /\ CellText(row, c) \in Texts /\ Len(CellText(row, c)) = row.cells[c].length
           /\ row.cells[c] \in Cells
<1>1. /\ row.cells[c] \in Cells /\ row.cells[c].offset \in Nat /\ row.cells[c].length \in Nat
      /\ row.cells[c].offset + row.cells[c].length <= Len(row.text)
  BY CellTypes DEF RowOf, Contiguous
<1> QED
  BY <1>1, PieceFacts DEF CellText, Piece, RowOf

\* Each text is a part of those it is continued to, and there it stays.
LEMMA TextStays ==
    ASSUME NEW n \in Nat, NEW text \in [0 .. n -> Texts], NEW part \in [0 .. n - 1 -> Texts],
           \A c \in 0 .. n - 1 : text[c + 1] = text[c] \o part[c],
           NEW c \in 0 .. n - 1
    PROVE  /\ Len(text[c]) + Len(part[c]) <= Len(text[n])
           /\ SubSeq(text[n], Len(text[c]) + 1, Len(text[c]) + Len(part[c])) = part[c]
<1> DEFINE T == text[c + 1]
           S == {d \in Nat : (c + 1) + d <= n =>
                    /\ Len(T) <= Len(text[(c + 1) + d])
                    /\ \A i \in 1 .. Len(T) : text[(c + 1) + d][i] = T[i]}
<1>0. \A k \in 0 .. n : text[k] \in Texts /\ Len(text[k]) \in Nat
  BY LenProperties DEF Texts
<1>1. c + 1 \in 0 .. n /\ T \in Texts /\ Len(T) \in Nat
  BY <1>0
<1>2. 0 \in S
  <2>1. (c + 1) + 0 = c + 1
    OBVIOUS
  <2> HIDE DEF T
  <2> QED
    BY <1>1, <2>1 DEF T
<1>3. ASSUME NEW d \in Nat, d \in S PROVE d + 1 \in S
  <2> DEFINE k == (c + 1) + d
  <2> SUFFICES ASSUME (c + 1) + (d + 1) <= n
               PROVE  /\ Len(T) <= Len(text[(c + 1) + (d + 1)])
                      /\ \A i \in 1 .. Len(T) : text[(c + 1) + (d + 1)][i] = T[i]
    OBVIOUS
  <2>1. /\ k \in 0 .. n - 1 /\ k \in 0 .. n /\ k + 1 \in 0 .. n /\ (c + 1) + (d + 1) = k + 1
        /\ k <= n
    OBVIOUS
  <2>2. Len(T) <= Len(text[k]) /\ \A i \in 1 .. Len(T) : text[k][i] = T[i]
    BY <1>3, <2>1
  <2> HIDE DEF k, T
  <2>3. text[k + 1] = text[k] \o part[k] /\ text[k] \in Texts /\ part[k] \in Texts
    BY <2>1
  <2> DEFINE u == text[k]
             v == part[k]
             w == text[k + 1]
  <2>3a. w = u \o v /\ u \in Texts /\ v \in Texts
    BY <2>3
  <2> HIDE DEF u, v, w
  <2>4. /\ Len(w) = Len(u) + Len(v) /\ Len(u) \in Nat /\ Len(v) \in Nat
        /\ \A i \in 1 .. Len(u) : w[i] = u[i]
    BY <2>3a, JoinedText
  <2>4a. Len(T) <= Len(u) /\ \A i \in 1 .. Len(T) : u[i] = T[i]
    BY <2>2 DEF u
  <2>5. Len(T) <= Len(w)
    BY <1>1, <2>4, <2>4a
  <2>6. \A i \in 1 .. Len(T) : i \in 1 .. Len(u)
    BY <1>1, <2>4, <2>4a
  <2>7. Len(T) <= Len(w) /\ \A i \in 1 .. Len(T) : w[i] = T[i]
    BY <2>4, <2>4a, <2>5, <2>6
  <2> QED
    BY <2>1, <2>7 DEF w
<1>4. n - (c + 1) \in Nat /\ (c + 1) + (n - (c + 1)) = n /\ n <= n /\ n \in 0 .. n
  OBVIOUS
<1>5. n - (c + 1) \in S
  <2> HIDE DEF S
  <2> QED
    BY <1>2, <1>3, <1>4, Induction
<1>6. Len(T) <= Len(text[n]) /\ \A i \in 1 .. Len(T) : text[n][i] = T[i]
  BY <1>4, <1>5
<1> DEFINE a == Len(text[c])
           m == Len(part[c])
           whole == text[n]
           p == part[c]
<1>7. /\ T = text[c] \o part[c] /\ text[c] \in Texts /\ part[c] \in Texts /\ whole \in Texts
      /\ c \in 0 .. n
  BY <1>0, <1>4
<1> HIDE DEF T
<1>8. /\ Len(T) = a + m /\ a \in Nat /\ m \in Nat
      /\ \A i \in 1 .. m : T[a + i] = part[c][i]
  BY <1>7, JoinedText
<1>9. a + m <= Len(text[n])
  BY <1>6, <1>8
<1>10. \A i \in 1 .. m : a + i \in 1 .. Len(T)
  BY <1>8
<1>11. \A i \in 1 .. m : whole[a + i] = part[c][i]
  BY <1>6, <1>8, <1>10
<1> HIDE DEF a, whole
<1>12. /\ SubSeq(whole, a + 1, a + m) \in Texts /\ Len(SubSeq(whole, a + 1, a + m)) = m
       /\ \A i \in 1 .. m : SubSeq(whole, a + 1, a + m)[i] = whole[a + i]
  <2> HIDE DEF m
  <2> QED
    BY <1>7, <1>8, <1>9, PieceFacts DEF whole
<1> DEFINE q == SubSeq(whole, a + 1, a + m)
<1>13. q = p
  <2>1. q \in Texts /\ p \in Texts /\ Len(q) = Len(p) /\ \A i \in 1 .. Len(q) : q[i] = p[i]
    BY <1>7, <1>11, <1>12
  <2> HIDE DEF q, p
  <2> QED
    BY <2>1, SameText
<1> QED
  BY <1>9, <1>13 DEF a, whole

LEMMA ExtendType ==
    ASSUME NEW n \in Nat, NEW cells \in [0 .. n - 1 -> Cells], NEW c \in 0 .. n - 1,
           NEW runs \in Seq(Runs)
    PROVE  ExtendRuns(cells, runs, c) \in Seq(Runs)
<1> DEFINE cell == cells[c]
           last == Len(runs)
           continues == last > 0 /\ runs[last].style = cell.style
           one == [left |-> c, count |-> 1, style |-> cell.style,
                   offset |-> cell.offset, length |-> cell.length]
           longer == [runs EXCEPT ![last].count  = @ + 1,
                                  ![last].length = cell.offset + cell.length - runs[last].offset]
<1>1. ExtendRuns(cells, runs, c) = IF continues THEN longer ELSE Append(runs, one)
  BY DEF ExtendRuns
<1>2. /\ cell.offset \in Nat /\ cell.length \in Nat /\ cell.style \in Nat /\ c \in Nat
      /\ last \in Nat
  BY DEF Cells
<1>3. CASE ~continues
  <2>1. one \in Runs
    BY <1>2, RunRecord, SMTT(20)
  <2> HIDE DEF one
  <2> QED
    BY <1>1, <1>3, <2>1, AppendFacts
<1>4. CASE continues
  <2> DEFINE old == runs[last]
             k == old.count + 1
             z == cell.offset + cell.length - old.offset
             new == [old EXCEPT !.count = k, !.length = z]
  <2>1. last \in 1 .. last /\ old \in Runs
    BY <1>2, <1>4
  <2>2. longer = [runs EXCEPT ![last] = new]
    BY <2>1
  <2>3. k \in Nat /\ z \in Int
    <3>1. old.count \in Nat /\ old.offset \in Nat
      BY <2>1, RunTypes
    <3> HIDE DEF old
    <3> QED
      BY <1>2, <3>1, SMTT(20)
  <2> HIDE DEF k, z, old
  <2>4. new \in Runs
    BY <2>1, <2>3 DEF Runs
  <2> HIDE DEF new, longer
  <2>5. runs \in [1 .. last -> Runs]
    BY <1>2
  <2>6. longer \in [1 .. last -> Runs]
    BY <2>2, <2>4, <2>5
  <2>7. longer \in Seq(Runs)
    BY <1>2, <2>6, SMTT(20)
  <2> QED
    BY <1>1, <1>4, <2>7
<1> QED
  BY <1>3, <1>4

LEMMA Rebuilt ==
    ASSUME NEW n \in Nat, NEW old, RowOf(old, n), NEW changes,
           DOMAIN changes \subseteq 0 .. n - 1, \A c \in DOMAIN changes : changes[c] \in Decoded
    PROVE  LET new == RebuiltRow(old, changes)
           IN /\ RowOf(new, n) /\ Split(new.cells, new.runs, 0, n) /\ Alternate(new.runs)
              /\ \A c \in 0 .. n - 1 :
                     IF c \in DOMAIN changes
                     THEN /\ CellText(new, c) = changes[c].text
                          /\ new.cells[c].style = changes[c].style
                          /\ new.cells[c].width = changes[c].width
                     ELSE /\ CellText(new, c) = CellText(old, c)
                          /\ new.cells[c].style = old.cells[c].style
                          /\ new.cells[c].width = old.cells[c].width
<1> DEFINE columns == Cardinality(DOMAIN old.cells)
           decoded(c) ==
               IF c \in DOMAIN changes THEN changes[c]
               ELSE [text |-> CellText(old, c), style |-> old.cells[c].style,
                     width |-> old.cells[c].width]
           text[c \in 0 .. columns] ==
               IF c = 0 THEN <<>> ELSE text[c - 1] \o decoded(c - 1).text
           cells == [c \in 0 .. columns - 1 |->
                        [offset |-> Len(text[c]), length |-> Len(decoded(c).text),
                         style |-> decoded(c).style, width |-> decoded(c).width]]
           runs[c \in 0 .. columns] ==
               IF c = 0 THEN <<>> ELSE ExtendRuns(cells, runs[c - 1], c - 1)
           new == RebuiltRow(old, changes)
<1>1. new = [cells |-> cells, text |-> text[columns], runs |-> runs[columns]]
  BY DEF RebuiltRow
<1>2. columns = n
  <2>1. DOMAIN old.cells = 0 .. n - 1
    BY DEF RowOf, Contiguous
  <2>2. Cardinality(0 .. n - 1) = n
    <3> DEFINE m == n - 1
    <3>1. m \in Int /\ 0 \in Int /\ (0 > m => n = 0) /\ (~(0 > m) => m - 0 + 1 = n)
      OBVIOUS
    <3> HIDE DEF m
    <3>2. Cardinality(0 .. m) = IF 0 > m THEN 0 ELSE m - 0 + 1
      BY <3>1, FS_Interval
    <3> QED
      BY <3>1, <3>2 DEF m
  <2> QED
    BY <2>1, <2>2
<1> HIDE DEF columns
<1>3. ASSUME NEW c \in 0 .. n - 1
      PROVE  /\ decoded(c) \in Decoded /\ decoded(c).text \in Texts
             /\ decoded(c).style \in Nat /\ decoded(c).width \in Nat
  <2>1. CASE c \in DOMAIN changes
    BY <2>1 DEF Decoded
  <2>2. CASE c \notin DOMAIN changes
    <3>1. CellText(old, c) \in Texts /\ old.cells[c].style \in Nat /\ old.cells[c].width \in Nat
      BY CellTextType, CellTypes
    <3>2. decoded(c) \in Decoded
      BY <2>2, <3>1, DecodedRecord
    <3> QED
      BY <2>2, <3>1, <3>2
  <2> QED
    BY <2>1, <2>2
<1> DEFINE part == [c \in 0 .. n - 1 |-> decoded(c).text]
<1>4. \E f \in [0 .. n -> Texts] :
          f = [c \in 0 .. n |-> IF c = 0 THEN <<>> ELSE f[c - 1] \o decoded(c - 1).text]
  <2> DEFINE g == [k \in 1 .. n |-> decoded(k - 1).text]
  <2>1. g \in [1 .. n -> Texts]
    <3>1. \A k \in 1 .. n : k - 1 \in 0 .. n - 1
      OBVIOUS
    <3> HIDE DEF decoded
    <3> QED
      BY <1>3, <3>1
  <2>2. \A k \in 1 .. n : g[k] = decoded(k - 1).text
    OBVIOUS
  <2> HIDE DEF g, decoded
  <2>3. PICK f \in [0 .. n -> Texts] :
            f[0] = <<>> /\ \A k \in 1 .. n : f[k] = f[k - 1] \o g[k]
    BY <2>1, Concatenation
  <2>4. \A k \in 1 .. n : f[k] = f[k - 1] \o decoded(k - 1).text
    BY <2>2, <2>3
  <2>5. \A c \in 0 .. n : f[c] = IF c = 0 THEN <<>> ELSE f[c - 1] \o decoded(c - 1).text
    BY <2>3, <2>4
  <2> QED
    BY <2>3, <2>5
<1>5. text = [c \in 0 .. n |-> IF c = 0 THEN <<>> ELSE text[c - 1] \o decoded(c - 1).text]
  <2> HIDE DEF decoded
  <2> QED
    BY <1>2, <1>4 DEF text
<1> HIDE DEF text, new
<1>6. /\ text \in [0 .. n -> Texts] /\ text[0] = <<>>
      /\ \A c \in 0 .. n - 1 : text[c + 1] = text[c] \o part[c]
  <2>1. PICK f \in [0 .. n -> Texts] :
            f = [c \in 0 .. n |-> IF c = 0 THEN <<>> ELSE f[c - 1] \o decoded(c - 1).text]
    BY <1>4
  <2>2. text[0] = <<>> /\ \A c \in 1 .. n : text[c] = text[c - 1] \o decoded(c - 1).text
    <3> HIDE DEF decoded
    <3> QED
      BY <1>5
  <2>3. \A c \in 0 .. n - 1 : /\ c + 1 \in 1 .. n /\ (c + 1) - 1 = c /\ part[c] = decoded(c).text
    <3> HIDE DEF decoded
    <3> QED
      OBVIOUS
  <2>4. \A c \in 0 .. n - 1 : text[c + 1] = text[c] \o part[c]
    <3> HIDE DEF decoded, part
    <3> QED
      BY <2>2, <2>3
  <2>5. text \in [0 .. n -> Texts]
    <3> DEFINE S == {c \in Nat : c <= n => text[c] \in Texts}
    <3>0. <<>> \in Texts
      BY DEF Texts
    <3>1. 0 \in S
      <4> HIDE DEF decoded, part
      <4> QED
        BY <2>2, <3>0
    <3>2. ASSUME NEW c \in Nat, c \in S PROVE c + 1 \in S
      <4> SUFFICES ASSUME c + 1 <= n PROVE text[c + 1] \in Texts
        OBVIOUS
      <4>1. c \in 0 .. n - 1 /\ c <= n
        OBVIOUS
      <4> HIDE DEF decoded
      <4>2. text[c] \in Texts /\ decoded(c).text \in Texts
        BY <1>3, <3>2, <4>1
      <4>3. text[c + 1] = text[c] \o decoded(c).text
        BY <2>3, <2>4, <4>1
      <4> QED
        BY <4>2, <4>3, JoinedText
    <3>3. Nat \subseteq S
      <4> HIDE DEF S
      <4> QED
        BY <3>1, <3>2, Induction
    <3>4. \A c \in 0 .. n : text[c] \in Texts
      BY <3>3
    <3>5. text = [c \in 0 .. n |-> text[c]]
      <4> HIDE DEF decoded
      <4> QED
        BY <1>5
    <3> QED
      BY <3>4, <3>5
  <2> QED
    BY <2>2, <2>4, <2>5
<1>7. /\ cells = [c \in 0 .. n - 1 |->
                    [offset |-> Len(text[c]), length |-> Len(part[c]),
                     style |-> decoded(c).style, width |-> decoded(c).width]]
      /\ part \in [0 .. n - 1 -> Texts]
  <2> HIDE DEF decoded
  <2> QED
    BY <1>2, <1>3
<1>8. \A c \in 0 .. n - 1 :
          /\ cells[c].offset = Len(text[c]) /\ cells[c].length = Len(part[c])
          /\ cells[c].style = decoded(c).style /\ cells[c].width = decoded(c).width
  <2> HIDE DEF decoded, part
  <2> QED
    BY <1>7
<1>9. cells \in [0 .. n - 1 -> Cells]
  <2> HIDE DEF decoded, part
  <2>1. \A c \in 0 .. n - 1 :
            [offset |-> Len(text[c]), length |-> Len(part[c]),
             style |-> decoded(c).style, width |-> decoded(c).width] \in Cells
    <3> TAKE c \in 0 .. n - 1
    <3>0. c \in 0 .. n
      OBVIOUS
    <3>1. Len(text[c]) \in Nat /\ Len(part[c]) \in Nat
      <4>1. text[c] \in Texts /\ part[c] \in Texts
        BY <1>6, <1>7, <3>0
      <4> QED
        BY <4>1, LenProperties DEF Texts
    <3> QED
      BY <1>3, <3>1, CellRecord
  <2> QED
    BY <1>7, <2>1
<1> HIDE DEF cells
<1>10. Contiguous(cells, n)
  <2>1. ASSUME NEW c \in 0 .. n - 1
        PROVE  cells[c].offset = IF c = 0 THEN 0 ELSE EndOf(cells[c - 1])
    <3>1. CASE c = 0
      <4>1. Len(<<>>) = 0
        OBVIOUS
      <4> QED
        BY <1>6, <1>8, <3>1, <4>1
    <3>2. CASE c # 0
      <4> DEFINE b == c - 1
      <4>1. b \in 0 .. n - 1 /\ b + 1 = c /\ b \in 0 .. n
        BY <3>2
      <4> HIDE DEF b, part
      <4>2. text[c] = text[b] \o part[b] /\ text[b] \in Texts /\ part[b] \in Texts
        BY <1>6, <1>7, <4>1
      <4>3. Len(text[c]) = Len(text[b]) + Len(part[b])
        BY <4>2, JoinedText
      <4> QED
        BY <1>8, <3>2, <4>1, <4>3 DEF EndOf, b
    <3> QED
      BY <3>1, <3>2
  <2> QED
    BY <1>9, <2>1 DEF Contiguous
<1>11. ASSUME NEW c \in 0 .. n - 1
       PROVE  EndOf(cells[c]) <= Len(text[n]) /\ Piece(new, cells[c].offset, cells[c].length) = part[c]
  <2>1. new.text = text[n]
    <3> HIDE DEF decoded, runs
    <3> QED
      BY <1>1, <1>2
  <2> HIDE DEF part
  <2>2. /\ Len(text[c]) + Len(part[c]) <= Len(text[n])
        /\ SubSeq(text[n], Len(text[c]) + 1, Len(text[c]) + Len(part[c])) = part[c]
    BY <1>6, <1>7, TextStays
  <2> QED
    BY <1>8, <2>1, <2>2 DEF Piece, EndOf
<1>12. new.cells = cells /\ new.text = text[n] /\ new.runs = runs[n]
  <2> HIDE DEF decoded, runs
  <2> QED
    BY <1>1, <1>2
<1>13. RowOf(new, n)
  <2>1. n \in 0 .. n
    OBVIOUS
  <2> QED
    BY <1>6, <1>10, <1>11, <1>12, <2>1 DEF RowOf
<1>14. \A c \in 0 .. n - 1 : CellText(new, c) = decoded(c).text
  BY <1>11, <1>12 DEF CellText
<1>15. Split(cells, runs[n], 0, n) /\ Alternate(runs[n])
  <2> DEFINE none == <<>>
             V == Seq(Runs)
             step == [x \in (1 .. n) \X V |-> ExtendRuns(cells, x[2], x[1] - 1)]
  <2>1. none \in V
    OBVIOUS
  <2>2. step \in Steps(n, V)
    <3>1. \A x \in (1 .. n) \X V : x[1] - 1 \in 0 .. n - 1 /\ x[2] \in Seq(Runs)
      OBVIOUS
    <3>2. \A x \in (1 .. n) \X V : ExtendRuns(cells, x[2], x[1] - 1) \in V
      BY <1>9, <3>1, ExtendType
    <3> QED
      BY <3>2 DEF Steps
  <2>3. \A c \in 1 .. n, r \in V : step[<<c, r>>] = ExtendRuns(cells, r, c - 1)
    OBVIOUS
  <2> HIDE DEF none, step, V
  <2>4. PICK f : Recursive(f, n, V, none, step)
    BY <2>1, <2>2, Recursion
  <2>5. f \in [0 .. n -> V] /\ f[0] = none /\ \A c \in 1 .. n : f[c] = step[<<c, f[c - 1]>>]
    BY <2>4 DEF Recursive
  <2>6. \A c \in 1 .. n : f[c] = ExtendRuns(cells, f[c - 1], c - 1)
    <3>1. \A c \in 1 .. n : c - 1 \in 0 .. n
      OBVIOUS
    <3> QED
      BY <2>3, <2>5, <3>1
  <2>7. \A c \in 0 .. n : f[c] = IF c = 0 THEN <<>> ELSE ExtendRuns(cells, f[c - 1], c - 1)
    BY <2>5, <2>6 DEF none
  <2>8. f = [c \in 0 .. n |-> IF c = 0 THEN <<>> ELSE ExtendRuns(cells, f[c - 1], c - 1)]
    BY <2>5, <2>7
  <2>9. runs = [c \in 0 .. n |-> IF c = 0 THEN <<>> ELSE ExtendRuns(cells, runs[c - 1], c - 1)]
    BY <1>2, <2>8
  <2> HIDE DEF runs
  <2>10. runs[0] = <<>> /\ \A c \in 1 .. n : runs[c] = ExtendRuns(cells, runs[c - 1], c - 1)
    BY <2>9
  <2> DEFINE S == {c \in Nat : c <= n => Split(cells, runs[c], 0, c) /\ Alternate(runs[c])}
  <2>11. 0 \in S
    <3>1. <<>> \in Seq(Runs) /\ Len(<<>>) = 0 /\ 1 .. 0 = {} /\ 2 .. 0 = {}
      OBVIOUS
    <3>2. Split(cells, <<>>, 0, 0) /\ Alternate(<<>>)
      BY <3>1 DEF Split, Alternate
    <3> QED
      BY <2>10, <3>2
  <2>12. ASSUME NEW c \in Nat, c \in S PROVE c + 1 \in S
    <3> SUFFICES ASSUME c + 1 <= n
                 PROVE  Split(cells, runs[c + 1], 0, c + 1) /\ Alternate(runs[c + 1])
      OBVIOUS
    <3>1. c \in 0 .. n - 1 /\ c <= n /\ c + 1 \in 1 .. n /\ (c + 1) - 1 = c
      OBVIOUS
    <3>2. Split(cells, runs[c], 0, c) /\ Alternate(runs[c])
      BY <2>12, <3>1
    <3>3. runs[c + 1] = ExtendRuns(cells, runs[c], c)
      BY <2>10, <3>1
    <3> QED
      BY <1>10, <3>1, <3>2, <3>3, RunsExtended
  <2>13. n \in S
    <3> HIDE DEF S
    <3> QED
      BY <2>11, <2>12, Induction
  <2> QED
    BY <2>13
<1>16. ASSUME NEW c \in 0 .. n - 1
       PROVE  IF c \in DOMAIN changes
              THEN /\ CellText(new, c) = changes[c].text
                   /\ cells[c].style = changes[c].style
                   /\ cells[c].width = changes[c].width
              ELSE /\ CellText(new, c) = CellText(old, c)
                   /\ cells[c].style = old.cells[c].style
                   /\ cells[c].width = old.cells[c].width
  <2>1. /\ CellText(new, c) = decoded(c).text
        /\ cells[c].style = decoded(c).style /\ cells[c].width = decoded(c).width
    BY <1>8, <1>14
  <2> QED
    BY <2>1
<1> HIDE DEF runs
<1> QED
  BY <1>12, <1>13, <1>15, <1>16 DEF new

LEMMA SpaceText == SPACE \in Characters
BY DEF Characters

\* A row nothing has been drawn on.
LEMMA Blank ==
    ASSUME NEW n \in Nat, n > 0
    PROVE  LET row == BlankRow(n)
           IN /\ RowOf(row, n) /\ Split(row.cells, row.runs, 0, n) /\ Alternate(row.runs)
              /\ \A c \in 0 .. n - 1 : /\ row.cells[c].style = 0 /\ row.cells[c].width = 1
                                       /\ CellText(row, c) = <<SPACE>>
<1> DEFINE row == BlankRow(n)
           run == [left |-> 0, count |-> n, style |-> 0, offset |-> 0, length |-> n]
           spaces == [i \in 1 .. n |-> SPACE]
<1>1. /\ row.cells = [c \in 0 .. n - 1 |->
                         [offset |-> c, length |-> 1, style |-> 0, width |-> 1]]
      /\ row.text = spaces /\ row.runs = <<run>>
  BY DEF BlankRow
<1> DEFINE cells == row.cells
<1>2. /\ spaces \in Texts /\ Len(spaces) = n /\ \A i \in 1 .. n : spaces[i] = SPACE
  BY SpaceText DEF Texts
<1> HIDE DEF row, spaces
<1>3. \A c \in 0 .. n - 1 :
          /\ cells[c] = [offset |-> c, length |-> 1, style |-> 0, width |-> 1]
          /\ cells[c].offset = c /\ cells[c].length = 1
          /\ cells[c].style = 0 /\ cells[c].width = 1
  BY <1>1
<1>4. ASSUME NEW c \in 0 .. n - 1 PROVE cells[c] \in Cells
  <2> HIDE DEF cells
  <2> DEFINE zero == 0
             one == 1
  <2>1. c \in Nat /\ zero \in Nat /\ one \in Nat
    OBVIOUS
  <2>2. cells[c] = [offset |-> c, length |-> one, style |-> zero, width |-> one]
    BY <1>3
  <2> HIDE DEF zero, one
  <2> QED
    BY <2>1, <2>2, CellRecord
<1>5. DOMAIN cells = 0 .. n - 1 /\ cells = [c \in 0 .. n - 1 |-> cells[c]]
  BY <1>1
<1> HIDE DEF cells
<1>6. cells \in [0 .. n - 1 -> Cells]
  BY <1>4, <1>5
<1>7. \A c \in 0 .. n - 1 : EndOf(cells[c]) = c + 1
  BY <1>3 DEF EndOf
<1>8. Contiguous(cells, n)
  <2>1. \A c \in 0 .. n - 1 : c # 0 => c - 1 \in 0 .. n - 1 /\ (c - 1) + 1 = c
    OBVIOUS
  <2> QED
    BY <1>3, <1>6, <1>7, <2>1 DEF Contiguous
<1>9. RowOf(row, n)
  <2>1. \A c \in 0 .. n - 1 : c + 1 <= n
    OBVIOUS
  <2> QED
    BY <1>1, <1>2, <1>7, <1>8, <2>1 DEF RowOf, cells
<1>10. run \in Runs
  BY RunRecord
<1>11. run.left = 0 /\ run.count = n /\ run.style = 0 /\ run.offset = 0 /\ run.length = n
  OBVIOUS
<1> HIDE DEF run
<1>12. CellsOf(run) = 0 .. n - 1 /\ run.left + run.count - 1 = n - 1 /\ RightOf(run) = n
  BY <1>11 DEF CellsOf, RightOf
<1>13. Covers(cells, run)
  <2>1. 0 \in 0 .. n - 1 /\ n - 1 \in 0 .. n - 1 /\ (n - 1) + 1 = n /\ 0 + n = n
    OBVIOUS
  <2>2. cells[run.left].offset = 0 /\ EndOf(cells[run.left + run.count - 1]) = n
    BY <1>3, <1>7, <1>11, <1>12, <2>1
  <2>3. \A c \in CellsOf(run) : cells[c].style = run.style
    BY <1>3, <1>11, <1>12
  <2> QED
    BY <1>10, <1>11, <2>1, <2>2, <2>3 DEF Covers
<1>14. /\ Len(<<run>>) = 1 /\ <<run>>[1] = run /\ <<run>> \in Seq(Runs)
  BY <1>10
<1>15. Split(cells, <<run>>, 0, n)
  <2>1. \A i \in 1 .. 1 : i = 1
    OBVIOUS
  <2>2. 0 <= 0 /\ n <= n
    OBVIOUS
  <2> HIDE DEF run
  <2> QED
    BY <1>11, <1>12, <1>13, <1>14, <2>1, <2>2 DEF Split
<1>16. Alternate(<<run>>)
  <2>1. 2 .. 1 = {}
    OBVIOUS
  <2> QED
    BY <1>14, <2>1 DEF Alternate
<1>17. ASSUME NEW c \in 0 .. n - 1 PROVE CellText(row, c) = <<SPACE>>
  <2> DEFINE t == CellText(row, c)
  <2>1. t = SubSeq(spaces, c + 1, c + 1)
    BY <1>1, <1>3 DEF CellText, Piece, cells
  <2>2. c \in Nat /\ 1 \in Nat /\ c + 1 <= Len(spaces) /\ c + 1 \in 1 .. n
    BY <1>2
  <2>3. t \in Texts /\ Len(t) = 1 /\ \A i \in 1 .. 1 : t[i] = spaces[c + i]
    <3> HIDE DEF t
    <3> QED
      BY <1>2, <2>1, <2>2, PieceFacts
  <2>4. t[1] = SPACE
    BY <1>2, <2>2, <2>3
  <2> DEFINE u == <<SPACE>>
  <2>5. u \in Texts /\ Len(u) = 1 /\ u[1] = SPACE
    BY SpaceText DEF Texts
  <2> HIDE DEF t, u
  <2>6. \A i \in 1 .. 1 : i = 1
    OBVIOUS
  <2>7. t = u
    BY <2>3, <2>4, <2>5, <2>6, SameText
  <2> QED
    BY <2>7 DEF t, u
<1> QED
  BY <1>1, <1>3, <1>9, <1>15, <1>16, <1>17 DEF row, cells

-----------------------------------------------------------------------------
(* The pieces of a row have the text and the style of their cells.         *)

LEMMA SplitIsPartition ==
    ASSUME NEW n \in Nat, NEW row, RowOf(row, n), NEW pieces, NEW from \in Nat, NEW to \in Nat,
           Split(row.cells, pieces, from, to), from < to, to <= n
    PROVE  Partition(row, pieces, from, to)
<1>1. pieces \in Seq(Runs) /\ Len(pieces) \in Nat /\ DOMAIN pieces = 1 .. Len(pieces)
  BY DEF Split
<1>2. Len(pieces) # 0 /\ pieces # <<>>
  BY <1>1 DEF Split
<1>3. ASSUME NEW i \in 1 .. Len(pieces)
      PROVE  /\ pieces[i].count > 0
             /\ pieces[i].left = IF i = 1 THEN from ELSE pieces[i - 1].left + pieces[i - 1].count
             /\ i = Len(pieces) => pieces[i].left + pieces[i].count = to
             /\ \A c \in CellsOf(pieces[i]) : row.cells[c].style = pieces[i].style
             /\ Piece(row, pieces[i].offset, pieces[i].length) =
                    TextOfCells(row, pieces[i].left, pieces[i].count)
  <2> DEFINE p == pieces[i]
  <2>1. /\ Covers(row.cells, p) /\ from <= p.left /\ RightOf(p) <= to
        /\ p.left = IF i = 1 THEN from ELSE pieces[i - 1].left + pieces[i - 1].count
        /\ i = Len(pieces) => RightOf(p) = to
    BY <1>2 DEF Split, RightOf
  <2> HIDE DEF p
  <2>2. /\ p \in Runs /\ p.left \in Nat /\ p.count \in Nat /\ p.count > 0 /\ p.offset \in Nat
        /\ p.length \in Int
        /\ p.offset = row.cells[p.left].offset
        /\ p.offset + p.length = EndOf(row.cells[p.left + p.count - 1])
        /\ RightOf(p) = p.left + p.count
    BY <2>1, RunTypes DEF Covers
  <2>3. p.left + p.count <= n
    BY <2>1, <2>2
  <2>4. TextOfCells(row, p.left, p.count)
            = Piece(row, row.cells[p.left].offset,
                    EndOf(row.cells[p.left + p.count - 1]) - row.cells[p.left].offset)
    BY <2>2, <2>3, CellsMakePieces, SMTT(20)
  <2>5. (p.offset + p.length) - p.offset = p.length
    BY <2>2
  <2> QED
    BY <2>1, <2>2, <2>4, <2>5 DEF Covers, p
<1> QED
  BY <1>1, <1>2, <1>3 DEF Partition

-----------------------------------------------------------------------------
(* The spans of a run                                                      *)

\* Every right half has its left half beside it.
Paired(cells, n) == \A c \in 0 .. n - 1 : cells[c].width = 0 => c > 0 /\ cells[c - 1].width = 2

LEMMA SpanCellsFacts ==
    ASSUME NEW n \in Nat, NEW row, RowOf(row, n), NEW run \in Runs, RightOf(run) <= n,
           NEW max \in Nat, max >= 2, NEW o \in Nat, o < run.count
    PROVE  LET k == SpanCells(row, run, max, o)
           IN /\ k \in Nat /\ k >= 1 /\ o + k <= run.count /\ k <= max
              /\ o + k < run.count =>
                     \/ row.cells[run.left + o + k - 1].width <= 1
                     \/ row.cells[run.left + o + k].width > 1
<1> DEFINE rest == run.count - o
           count == Smaller(max, rest)
           w == row.cells[run.left + o + count - 1].width
           cuts == count < rest /\ count > 1 /\ w > 1
           k == SpanCells(row, run, max, o)
<1>1. k = IF cuts THEN count - 1 ELSE count
  BY DEF SpanCells
<1>2. run.left \in Nat /\ run.count \in Nat /\ run.left + run.count <= n
  BY RunTypes
<1>3. rest \in Nat /\ rest >= 1 /\ o + rest = run.count
  BY <1>2
<1> HIDE DEF rest
<1>4. count \in Nat /\ count >= 1 /\ count <= rest /\ count <= max /\ (count < rest => count >= 2)
  BY <1>3 DEF Smaller
<1> HIDE DEF count
<1>5. run.left + o + count - 1 \in 0 .. n - 1
  BY <1>2, <1>3, <1>4
<1>6. w \in Nat
  <2> DEFINE c == run.left + o + count - 1
  <2>1. c \in 0 .. n - 1
    BY <1>5
  <2> HIDE DEF c
  <2>2. row.cells[c] \in Cells
    BY <2>1 DEF RowOf, Contiguous
  <2> QED
    BY <2>2, CellTypes DEF c
<1> HIDE DEF k, w
<1>7. CASE cuts
  <2>1. k = count - 1 /\ count > 1
    BY <1>1, <1>7
  <2>2. /\ k \in Nat /\ k >= 1 /\ o + k <= run.count /\ k <= max
        /\ run.left + o + k = run.left + o + count - 1
    BY <1>2, <1>3, <1>4, <2>1
  <2>3. row.cells[run.left + o + k].width > 1
    BY <1>7, <2>2 DEF w
  <2> QED
    BY <2>2, <2>3 DEF k
<1>8. CASE ~cuts
  <2>1. k = count
    BY <1>1, <1>8
  <2>2. k \in Nat /\ k >= 1 /\ o + k <= run.count /\ k <= max
    BY <1>2, <1>3, <1>4, <2>1
  <2>3. o + k < run.count => row.cells[run.left + o + k - 1].width <= 1
    <3>1. o + k < run.count => count < rest /\ count > 1
      BY <1>2, <1>3, <1>4, <2>1
    <3>2. o + k < run.count => w <= 1
      BY <1>6, <1>8, <3>1
    <3> QED
      BY <2>1, <3>2 DEF w
  <2> QED
    BY <2>2, <2>3 DEF k
<1> QED
  BY <1>7, <1>8

\* Where a span ends that is not the last one of its run, no character is cut.
EndsWhole(cells, span, run) ==
    RightOf(span) < RightOf(run) => cells[RightOf(span)].width # 0

\* The spans found so far: they split the run up to an offset.
SpansUpTo(cells, run, max, done) ==
    /\ Split(cells, done.spans, run.left, run.left + done.offset)
    /\ \A i \in 1 .. Len(done.spans) : /\ done.spans[i].count <= max
                                       /\ EndsWhole(cells, done.spans[i], run)

SpanStates(run) == [offset : 0 .. run.count, spans : Seq(Runs)]

LEMMA SpanState ==
    ASSUME NEW run, NEW o \in 0 .. run.count, NEW s \in Seq(Runs)
    PROVE  /\ [offset |-> o, spans |-> s] \in SpanStates(run)
           /\ [offset |-> o, spans |-> s].offset = o /\ [offset |-> o, spans |-> s].spans = s
BY DEF SpanStates

LEMMA NextSpanFacts ==
    ASSUME NEW n \in Nat, NEW row, RowOf(row, n), NEW run, Covers(row.cells, run),
           RightOf(run) <= n, NEW max \in Nat, max >= 2, NEW done \in SpanStates(run)
    PROVE  LET next == NextSpan(row, run, max, done)
           IN /\ next \in SpanStates(run)
              /\ done.offset < run.count => done.offset < next.offset
              /\ done.offset = run.count => next = done
              /\ Paired(row.cells, n) /\ SpansUpTo(row.cells, run, max, done)
                     => SpansUpTo(row.cells, run, max, next)
<1> DEFINE cells == row.cells
           o == done.offset
           spans == done.spans
           next == NextSpan(row, run, max, done)
<1>1. /\ run \in Runs /\ run.left \in Nat /\ run.count \in Nat /\ run.style \in Nat
      /\ RightOf(run) = run.left + run.count
  BY RunTypes DEF Covers
<1>2. o \in 0 .. run.count /\ o \in Nat /\ spans \in Seq(Runs)
  BY <1>1 DEF SpanStates
<1>3. CASE o = run.count
  <2>1. next = done
    BY <1>3 DEF NextSpan
  <2> HIDE DEF next
  <2> QED
    BY <1>1, <1>3, <2>1 DEF next
<1>4. CASE o # run.count
  <2> DEFINE left == run.left + o
             count == SpanCells(row, run, max, o)
             first == cells[left]
             last == cells[left + count - 1]
             span == [left |-> left, count |-> count, style |-> run.style,
                      offset |-> first.offset,
                      length |-> last.offset + last.length - first.offset]
             more == Append(spans, span)
  <2>1. next = [offset |-> o + count, spans |-> more]
    BY <1>4 DEF NextSpan
  <2>2. o < run.count
    BY <1>1, <1>2, <1>4
  <2>3. /\ count \in Nat /\ count >= 1 /\ o + count <= run.count /\ count <= max
        /\ o + count < run.count =>
               \/ cells[run.left + o + count - 1].width <= 1
               \/ cells[run.left + o + count].width > 1
    BY <1>1, <1>2, <2>2, SpanCellsFacts
  <2> HIDE DEF count
  <2>3a. /\ count \in Nat /\ count >= 1 /\ o + count <= run.count /\ o \in Nat
         /\ run.left + run.count <= n
    BY <1>1, <1>2, <2>3
  <2> HIDE DEF o
  <2>4. /\ left \in Nat /\ left \in 0 .. n - 1 /\ left + count - 1 \in 0 .. n - 1
        /\ left <= left + count - 1
        /\ \A c \in left .. left + count - 1 : c \in run.left .. run.left + run.count - 1
    BY <1>1, <2>3a
  <2> USE DEF o
  <2>5. /\ first \in Cells /\ last \in Cells /\ first.offset <= last.offset
    BY <2>4, CellsInOrder DEF RowOf, Contiguous
  <2>6. /\ first.offset \in Nat /\ last.offset \in Nat /\ last.length \in Nat
        /\ EndOf(last) = last.offset + last.length
    BY <2>5, CellTypes
  <2> HIDE DEF first, last
  <2>7. span \in Runs
    <3> DEFINE z == last.offset + last.length - first.offset
    <3>1. z \in Int
      BY <2>6
    <3> HIDE DEF left, z
    <3> QED
      BY <1>1, <2>3, <2>4, <2>6, <3>1, RunRecord DEF z
  <2>8. /\ span.left = left /\ span.count = count /\ span.style = run.style
        /\ span.offset = first.offset
        /\ span.length = last.offset + last.length - first.offset
    OBVIOUS
  <2> HIDE DEF span
  <2>9. Covers(cells, span)
    <3>1. span.offset + span.length = EndOf(last)
      BY <2>6, <2>8
    <3>2. CellsOf(span) = left .. left + count - 1
      BY <2>8 DEF CellsOf
    <3>3. \A c \in CellsOf(span) : cells[c].style = span.style
      BY <2>4, <2>8, <3>2 DEF Covers, CellsOf
    <3>4. span.count > 0
      BY <2>3, <2>8
    <3> QED
      BY <2>7, <2>8, <3>1, <3>3, <3>4 DEF Covers, first, last
  <2>10. /\ more \in Seq(Runs) /\ Len(more) = Len(spans) + 1 /\ Len(spans) \in Nat
         /\ \A i \in 1 .. Len(spans) : more[i] = spans[i]
         /\ more[Len(spans) + 1] = span
    BY <1>2, <2>7, AppendFacts
  <2>11. o + count \in 0 .. run.count /\ o < o + count
    BY <1>1, <1>2, <2>3
  <2>12. next \in SpanStates(run) /\ next.offset = o + count /\ next.spans = more
    <3> DEFINE oc == o + count
    <3> HIDE DEF more, next, oc
    <3> QED
      BY <2>1, <2>10, <2>11, SpanState DEF oc
  <2>13. ASSUME Paired(cells, n), SpansUpTo(cells, run, max, done)
         PROVE  SpansUpTo(cells, run, max, next)
    <3>1. Split(cells, spans, run.left, left)
      BY <2>13 DEF SpansUpTo
    <3>2. run.left <= left /\ left + count = run.left + (o + count)
      BY <1>1, <1>2, <2>3
    <3>3. Split(cells, more, run.left, left + count)
      <4> HIDE DEF left, more, o, spans, cells
      <4> QED
        BY <1>1, <2>4, <2>8, <2>9, <3>1, <3>2, SplitAppend DEF more
    <3>4. RightOf(span) = left + count
      BY <2>8 DEF RightOf
    <3>5. EndsWhole(cells, span, run)
      <4> SUFFICES ASSUME left + count < run.left + run.count, cells[left + count].width = 0
                   PROVE  FALSE
        BY <1>1, <3>4 DEF EndsWhole
      <4>1. /\ o + count < run.count /\ left + count \in 0 .. n - 1
            /\ (left + count) - 1 = left + count - 1
        <5> HIDE DEF o
        <5> QED
          BY <1>1, <2>3a
      <4>2. cells[left + count - 1].width = 2
        BY <2>13, <4>1 DEF Paired
      <4>3. cells[left + count - 1].width <= 1 \/ cells[left + count].width > 1
        BY <2>3, <4>1
      <4> QED
        BY <4>2, <4>3
    <3>6. ASSUME NEW i \in 1 .. Len(more)
          PROVE  more[i].count <= max /\ EndsWhole(cells, more[i], run)
      <4>1. CASE i \in 1 .. Len(spans)
        <5>1. spans[i].count <= max /\ EndsWhole(cells, spans[i], run)
          BY <2>13, <4>1 DEF SpansUpTo
        <5> QED
          BY <2>10, <4>1, <5>1
      <4>2. CASE i = Len(spans) + 1
        BY <2>3, <2>8, <2>10, <3>5, <4>2
      <4> QED
        BY <2>10, <4>1, <4>2
    <3> QED
      BY <2>12, <3>2, <3>3, <3>6 DEF SpansUpTo
  <2> QED
    BY <1>4, <2>11, <2>12, <2>13
<1> QED
  BY <1>3, <1>4

LEMMA SpansSplitRun ==
    ASSUME NEW n \in Nat, NEW row, RowOf(row, n), Paired(row.cells, n),
           NEW run, Covers(row.cells, run), RightOf(run) <= n, NEW max \in Nat
    PROVE  LET spans == RunSpans(row, run, max)
           IN /\ Split(row.cells, spans, run.left, RightOf(run))
              /\ \A i \in 1 .. Len(spans) : /\ spans[i].count <= Larger(2, max)
                                            /\ EndsWhole(row.cells, spans[i], run)
<1> DEFINE m == Larger(2, max)
           none == [offset |-> 0, spans |-> <<>>]
           V == SpanStates(run)
           k == run.count
           split[i \in 0 .. run.count] ==
               IF i = 0 THEN [offset |-> 0, spans |-> <<>>]
               ELSE NextSpan(row, run, Larger(2, max), split[i - 1])
           step == [x \in (1 .. k) \X V |-> NextSpan(row, run, m, x[2])]
<1>1. m \in Nat /\ m >= 2
  BY DEF Larger
<1>2. k \in Nat /\ k > 0 /\ run.left \in Nat /\ RightOf(run) = run.left + k
  BY RunTypes DEF Covers
<1>3. none \in V /\ none.offset = 0 /\ none.spans = <<>>
  <2> DEFINE o == 0
             s == <<>>
  <2>1. o \in 0 .. run.count /\ s \in Seq(Runs) /\ none = [offset |-> o, spans |-> s]
    BY <1>2
  <2> HIDE DEF o, s
  <2>2. none \in V /\ none.offset = o /\ none.spans = s
    BY <2>1, SpanState
  <2> QED
    BY <2>2 DEF o, s
<1> HIDE DEF m, none
<1>4. \A done \in V : NextSpan(row, run, m, done) \in V
  BY <1>1, NextSpanFacts
<1>5. RunSpans(row, run, max) = split[k].spans
  BY DEF RunSpans
<1> HIDE DEF V, k
<1>6. step \in Steps(k, V) /\ \A i \in 1 .. k, d \in V : step[<<i, d>>] = NextSpan(row, run, m, d)
  BY <1>4 DEF Steps
<1> HIDE DEF step
<1>7. PICK f : Recursive(f, k, V, none, step)
  BY <1>2, <1>3, <1>6, Recursion
<1>8. f \in [0 .. k -> V] /\ f[0] = none /\ \A i \in 1 .. k : f[i] = NextSpan(row, run, m, f[i - 1])
  <2>1. f \in [0 .. k -> V] /\ f[0] = none /\ \A i \in 1 .. k : f[i] = step[<<i, f[i - 1]>>]
    BY <1>7 DEF Recursive
  <2>2. \A i \in 1 .. k : i - 1 \in 0 .. k
    BY <1>2
  <2> QED
    BY <1>6, <2>1, <2>2
<1>9. split = [i \in 0 .. k |-> IF i = 0 THEN none ELSE NextSpan(row, run, m, split[i - 1])]
  <2>1. \A i \in 0 .. k : f[i] = IF i = 0 THEN none ELSE NextSpan(row, run, m, f[i - 1])
    BY <1>8
  <2>2. f = [i \in 0 .. k |-> IF i = 0 THEN none ELSE NextSpan(row, run, m, f[i - 1])]
    BY <1>8, <2>1
  <2> QED
    BY <2>2 DEF k, m, none
<1> HIDE DEF split
<1>10. split[0] = none /\ \A i \in 1 .. k : split[i] = NextSpan(row, run, m, split[i - 1])
  BY <1>2, <1>9
<1> DEFINE S == {i \in Nat : i <= k =>
                    /\ split[i] \in V /\ SpansUpTo(row.cells, run, m, split[i])
                    /\ split[i].offset >= i}
<1>11. 0 \in S
  <2>1. <<>> \in Seq(Runs) /\ Len(<<>>) = 0 /\ 1 .. 0 = {} /\ run.left + 0 = run.left
    BY <1>2
  <2>2. SpansUpTo(row.cells, run, m, none)
    BY <1>3, <2>1 DEF SpansUpTo, Split
  <2>3. none.offset >= 0
    BY <1>3
  <2> QED
    BY <1>3, <1>10, <2>2, <2>3
<1>12. ASSUME NEW i \in Nat, i \in S PROVE i + 1 \in S
  <2> SUFFICES ASSUME i + 1 <= k
               PROVE  /\ split[i + 1] \in V /\ SpansUpTo(row.cells, run, m, split[i + 1])
                      /\ split[i + 1].offset >= i + 1
    OBVIOUS
  <2> DEFINE old == split[i]
             new == split[i + 1]
  <2>1. i + 1 \in 1 .. k /\ (i + 1) - 1 = i /\ i <= k
    BY <1>2
  <2>2. old \in V /\ SpansUpTo(row.cells, run, m, old) /\ old.offset >= i
    BY <1>12, <2>1
  <2>3. new = NextSpan(row, run, m, old)
    BY <1>10, <2>1
  <2> HIDE DEF old, new
  <2>4. /\ new \in V /\ (old.offset < run.count => old.offset < new.offset)
        /\ old.offset = run.count => new = old
        /\ SpansUpTo(row.cells, run, m, new)
    BY <1>1, <2>2, <2>3, NextSpanFacts DEF V
  <2>5. old.offset \in 0 .. k /\ new.offset \in 0 .. k
    BY <2>2, <2>4 DEF V, SpanStates, k
  <2>6. new.offset >= i + 1
    <3>1. CASE old.offset = k
      <4>1. new.offset = k
        BY <2>4, <3>1 DEF k
      <4> QED
        BY <2>1, <4>1
    <3>2. CASE old.offset # k
      <4>1. old.offset < k
        BY <1>2, <2>5, <3>2
      <4>2. old.offset < new.offset
        BY <2>4, <4>1 DEF k
      <4> QED
        BY <1>2, <2>2, <2>5, <4>2
    <3> QED
      BY <3>1, <3>2
  <2> QED
    BY <2>4, <2>6 DEF new
<1>13. k \in S
  <2> HIDE DEF S
  <2> QED
    BY <1>2, <1>11, <1>12, Induction
<1>14. split[k] \in V /\ SpansUpTo(row.cells, run, m, split[k]) /\ split[k].offset >= k
  BY <1>2, <1>13
<1>15. split[k].offset = k
  <2>1. split[k].offset \in 0 .. k
    BY <1>14 DEF V, SpanStates, k
  <2> QED
    BY <1>2, <1>14, <2>1
<1> QED
  BY <1>2, <1>5, <1>14, <1>15 DEF SpansUpTo, m

-----------------------------------------------------------------------------
(* What must be repainted: the spans and the region around them.            *)

Spans(columns, rows) ==
    {s \in [row : 0 .. rows - 1, left : 0 .. columns, right : 0 .. columns] : s.left < s.right}
Areas == [left : Nat, top : Nat, right : Nat, bottom : Nat]

InSpan(span, r, c) == span.row = r /\ span.left <= c /\ c < span.right
InSpans(spans, r, c) == \E i \in 1 .. Len(spans) : InSpan(spans[i], r, c)

\* The region is the smallest around the spans.
Encloses(dirty, spans) ==
    /\ \A i \in 1 .. Len(spans) : /\ dirty.left <= spans[i].left /\ spans[i].right <= dirty.right
                                  /\ dirty.top <= spans[i].row /\ spans[i].row + 1 <= dirty.bottom
    /\ \E i \in 1 .. Len(spans) : spans[i].left = dirty.left
    /\ \E i \in 1 .. Len(spans) : spans[i].right = dirty.right
    /\ \E i \in 1 .. Len(spans) : spans[i].row = dirty.top
    /\ \E i \in 1 .. Len(spans) : spans[i].row + 1 = dirty.bottom

Marked(dirty, spans, columns, rows) ==
    /\ spans \in Seq(Spans(columns, rows)) /\ dirty \in Areas
    /\ IF spans = <<>> THEN dirty = NoRegion ELSE Encloses(dirty, spans)

\* Nothing that was in a span leaves it.
Widened(old, new) == \A r, c \in Int : InSpans(old, r, c) => InSpans(new, r, c)

LEMMA RegionGrows ==
    ASSUME NEW dirty \in Areas, NEW left \in Nat, NEW right \in Nat, left < right,
           NEW top \in Nat, NEW bottom \in Nat, top < bottom
    PROVE  LET new == IncludeRegion(dirty, left, top, right, bottom)
           IN /\ new \in Areas
              /\ dirty = NoRegion => new = [left |-> left, top |-> top, right |-> right,
                                            bottom |-> bottom]
              /\ ~DirtyEmpty(dirty) =>
                     /\ new.left = (IF dirty.left <= left THEN dirty.left ELSE left)
                     /\ new.top = (IF dirty.top <= top THEN dirty.top ELSE top)
                     /\ new.right = (IF dirty.right <= right THEN right ELSE dirty.right)
                     /\ new.bottom = (IF dirty.bottom <= bottom THEN bottom ELSE dirty.bottom)
BY DEF IncludeRegion, Areas, NoRegion, DirtyEmpty, Smaller, Larger

LEMMA MarkedNotEmpty ==
    ASSUME NEW columns \in Nat, NEW rows \in Nat, NEW spans, NEW dirty,
           Marked(dirty, spans, columns, rows)
    PROVE  DirtyEmpty(dirty) <=> spans = <<>>
<1>1. spans \in Seq(Spans(columns, rows)) /\ dirty \in Areas
  BY DEF Marked
<1>2. CASE spans = <<>>
  BY <1>2 DEF Marked, DirtyEmpty, NoRegion
<1>3. CASE spans # <<>>
  <2>1. 1 \in 1 .. Len(spans) /\ spans[1] \in Spans(columns, rows)
    BY <1>1, <1>3
  <2>2. /\ dirty.left <= spans[1].left /\ spans[1].right <= dirty.right
        /\ dirty.top <= spans[1].row /\ spans[1].row + 1 <= dirty.bottom
    BY <1>3, <2>1 DEF Marked, Encloses
  <2>3. ~DirtyEmpty(dirty)
    BY <1>1, <2>1, <2>2, SMTT(20) DEF DirtyEmpty, Spans, Areas
  <2> QED
    BY <1>3, <2>3
<1> QED
  BY <1>2, <1>3

\* A span is included: the region goes on to enclose all of them.
LEMMA SpanFields ==
    ASSUME NEW columns \in Nat, NEW rows \in Nat, NEW span \in Spans(columns, rows)
    PROVE  /\ span.row \in Nat /\ span.left \in Nat /\ span.right \in Nat
           /\ span.left < span.right /\ span.row < rows /\ span.right <= columns
           /\ span = [row |-> span.row, left |-> span.left, right |-> span.right]
BY DEF Spans

LEMMA SpanMarked ==
    ASSUME NEW columns \in Nat, NEW rows \in Nat, NEW spans, NEW dirty,
           Marked(dirty, spans, columns, rows), NEW s \in Spans(columns, rows)
    PROVE  LET new == IncludeSpan(spans, s.row, s.left, s.right)
               region == IncludeRegion(dirty, s.left, s.row, s.right, s.row + 1)
           IN /\ Marked(region, new, columns, rows)
              /\ Widened(spans, new)
              /\ \A c \in Int : InSpan(s, s.row, c) => InSpans(new, s.row, c)
<1> DEFINE S == Spans(columns, rows)
           n == Len(spans)
           last == spans[n]
           new == IncludeSpan(spans, s.row, s.left, s.right)
           region == IncludeRegion(dirty, s.left, s.row, s.right, s.row + 1)
           joins == spans # <<>> /\ last.row = s.row /\ s.left <= last.right
           joined == [row |-> last.row, left |-> Smaller(last.left, s.left),
                      right |-> Larger(last.right, s.right)]
<1>0. n \in Nat
  BY DEF Marked
<1>1. spans \in Seq(S) /\ dirty \in Areas /\ n \in Nat /\ spans \in [1 .. n -> S]
  BY DEF Marked
<1>2. /\ s.row \in Nat /\ s.left \in Nat /\ s.right \in Nat /\ s.left < s.right
      /\ s.row < rows /\ s.right <= columns
      /\ s = [row |-> s.row, left |-> s.left, right |-> s.right]
  BY DEF Spans
<1>3. \A i \in 1 .. n : /\ spans[i] \in S /\ spans[i].row \in Nat
                        /\ spans[i].left \in Nat /\ spans[i].right \in Nat
                        /\ spans[i].left < spans[i].right
                        /\ spans[i].row < rows /\ spans[i].right <= columns
                        /\ spans[i] = [row |-> spans[i].row, left |-> spans[i].left,
                                       right |-> spans[i].right]
  BY <1>1, SpanFields
<1>4. new = IF joins
            THEN [spans EXCEPT ![n].left = Smaller(@, s.left), ![n].right = Larger(@, s.right)]
            ELSE Append(spans, s)
  <2>1. ~(s.left >= s.right)
    BY <1>2
  <2>2. joins <=> /\ spans # <<>> /\ Last(spans).row = s.row /\ s.left <= Last(spans).right
    BY DEF Last
  <2> QED
    BY <1>2, <2>1, <2>2 DEF IncludeSpan
<1>5. /\ region \in Areas
      /\ spans = <<>> => region = [left |-> s.left, top |-> s.row, right |-> s.right,
                                   bottom |-> s.row + 1]
      /\ spans # <<>> =>
             /\ region.left = (IF dirty.left <= s.left THEN dirty.left ELSE s.left)
             /\ region.top = (IF dirty.top <= s.row THEN dirty.top ELSE s.row)
             /\ region.right = (IF dirty.right <= s.right THEN s.right ELSE dirty.right)
             /\ region.bottom = (IF dirty.bottom <= s.row + 1 THEN s.row + 1 ELSE dirty.bottom)
  <2> DEFINE a == s.left
             b == s.right
             t == s.row
             u == s.row + 1
  <2>1. a \in Nat /\ b \in Nat /\ a < b /\ t \in Nat /\ u \in Nat /\ t < u
    BY <1>2
  <2> HIDE DEF a, b, t, u
  <2>2. LET d == IncludeRegion(dirty, a, t, b, u)
        IN /\ d \in Areas
           /\ dirty = NoRegion => d = [left |-> a, top |-> t, right |-> b, bottom |-> u]
           /\ ~DirtyEmpty(dirty) =>
                  /\ d.left = (IF dirty.left <= a THEN dirty.left ELSE a)
                  /\ d.top = (IF dirty.top <= t THEN dirty.top ELSE t)
                  /\ d.right = (IF dirty.right <= b THEN b ELSE dirty.right)
                  /\ d.bottom = (IF dirty.bottom <= u THEN u ELSE dirty.bottom)
    BY <1>1, <2>1, RegionGrows
  <2>3. (spans = <<>> => dirty = NoRegion) /\ (spans # <<>> => ~DirtyEmpty(dirty))
    BY MarkedNotEmpty DEF Marked
  <2> QED
    BY <2>2, <2>3 DEF a, b, t, u
<1>6. spans # <<>> => Encloses(dirty, spans)
  BY DEF Marked
<1>7. dirty.left \in Nat /\ dirty.right \in Nat /\ dirty.top \in Nat /\ dirty.bottom \in Nat
      /\ region.left \in Nat /\ region.right \in Nat /\ region.top \in Nat
      /\ region.bottom \in Nat
  BY <1>1, <1>5 DEF Areas
<1>10. s.left \in Nat /\ s.right \in Nat /\ s.row \in Nat
  BY <1>2
<1>11. spans # <<>> => /\ region.left <= dirty.left /\ dirty.right <= region.right
                      /\ region.top <= dirty.top /\ dirty.bottom <= region.bottom
  <2> HIDE DEF region
  <2> QED
    BY <1>5, <1>7, <1>10, SMTT(20)
<1> HIDE DEF new, region, S
<1>8. CASE ~joins
  <2>1. new = Append(spans, s)
    BY <1>4, <1>8
  <2>2. /\ new \in Seq(S) /\ Len(new) = n + 1 /\ new[n + 1] = s
        /\ \A i \in 1 .. n : new[i] = spans[i]
    <3>1. s \in S
      BY DEF S
    <3> QED
      BY <1>1, <2>1, <3>1
  <2>3. new # <<>>
    BY <1>1, <2>2, EmptySeq
  <2>4. n + 1 \in 1 .. n + 1 /\ \A i \in 1 .. n : i \in 1 .. n + 1
    BY <1>1
  <2>5. Widened(spans, new)
    BY <2>2, <2>4 DEF Widened, InSpans
  <2>6. \A c \in Int : InSpan(s, s.row, c) => InSpans(new, s.row, c)
    BY <2>2, <2>4 DEF InSpans
  <2>7. Encloses(region, new)
    <3>1. CASE spans = <<>>
      <4>1. n = 0
        BY <3>1, EmptySeq
      <4> QED
        BY <1>2, <1>5, <2>2, <3>1, <4>1 DEF Encloses
    <3>2. CASE spans # <<>>
      <4>1. Encloses(dirty, spans)
        BY <1>6, <3>2
      <4>2. \A i \in 1 .. n + 1 : i \in 1 .. n \/ i = n + 1
        BY <1>1
      <4>3. \A i \in 1 .. n + 1 :
                /\ region.left <= new[i].left /\ new[i].right <= region.right
                /\ region.top <= new[i].row /\ new[i].row + 1 <= region.bottom
        <5> TAKE i \in 1 .. n + 1
        <5>1. CASE i \in 1 .. n
          <6>1. new[i] = spans[i]
            BY <2>2, <5>1
          <6>2. /\ dirty.left <= spans[i].left /\ spans[i].right <= dirty.right
                /\ dirty.top <= spans[i].row /\ spans[i].row + 1 <= dirty.bottom
            BY <4>1, <5>1 DEF Encloses
          <6>3. /\ spans[i].row \in Nat /\ spans[i].left \in Nat /\ spans[i].right \in Nat
            BY <1>3, <5>1
          <6>4. /\ region.left <= dirty.left /\ dirty.right <= region.right
                /\ region.top <= dirty.top /\ dirty.bottom <= region.bottom
            BY <1>11, <3>2
          <6> DEFINE x == spans[i]
          <6> HIDE DEF x
          <6>5. /\ dirty.left <= x.left /\ x.right <= dirty.right
                /\ dirty.top <= x.row /\ x.row + 1 <= dirty.bottom
                /\ x.row \in Nat /\ x.left \in Nat /\ x.right \in Nat
            BY <6>2, <6>3 DEF x
          <6>6. region.left <= x.left
            BY <1>7, <6>4, <6>5, SMTT(20)
          <6>9. x.right <= region.right
            BY <1>7, <6>4, <6>5, SMTT(20)
          <6>7. region.top <= x.row
            BY <1>7, <6>4, <6>5, SMTT(20)
          <6>8. x.row + 1 <= region.bottom
            BY <1>7, <6>4, <6>5, SMTT(20)
          <6> QED
            BY <6>1, <6>6, <6>7, <6>8, <6>9 DEF x
        <5>2. CASE i = n + 1
          BY <1>2, <1>5, <1>7, <2>2, <3>2, <5>2, SMTT(20)
        <5> QED
          BY <4>2, <5>1, <5>2
      <4>4. \E i \in 1 .. n + 1 : new[i].left = region.left
        BY <1>5, <2>2, <2>4, <3>2, <4>1 DEF Encloses
      <4>5. \E i \in 1 .. n + 1 : new[i].right = region.right
        BY <1>5, <2>2, <2>4, <3>2, <4>1 DEF Encloses
      <4>6. \E i \in 1 .. n + 1 : new[i].row = region.top
        BY <1>5, <2>2, <2>4, <3>2, <4>1 DEF Encloses
      <4>7. \E i \in 1 .. n + 1 : new[i].row + 1 = region.bottom
        BY <1>5, <2>2, <2>4, <3>2, <4>1 DEF Encloses
      <4> QED
        BY <2>2, <4>3, <4>4, <4>5, <4>6, <4>7 DEF Encloses
    <3> QED
      BY <3>1, <3>2
  <2> QED
    BY <1>5, <2>2, <2>3, <2>5, <2>6, <2>7 DEF Marked, S, new, region
<1>9. CASE joins
  <2>1. n \in 1 .. n /\ last \in S
    <3>1. n # 0
      BY <1>1, <1>9, EmptySeq
    <3> QED
      BY <1>1, <1>3, <3>1
  <2>2. /\ last.row \in Nat /\ last.left \in Nat /\ last.right \in Nat
        /\ last.left < last.right /\ last.row < rows /\ last.right <= columns
        /\ last = [row |-> last.row, left |-> last.left, right |-> last.right]
    BY <1>3, <2>1
  <2>3. new = [spans EXCEPT ![n] = joined]
    <3>1. new = [spans EXCEPT ![n].left = Smaller(@, s.left), ![n].right = Larger(@, s.right)]
      BY <1>4, <1>9
    <3>2. [[last EXCEPT !.left = Smaller(@, s.left)] EXCEPT !.right = Larger(@, s.right)] = joined
      <4> DEFINE x == last
      <4>1. x = [row |-> x.row, left |-> x.left, right |-> x.right]
        BY <2>2
      <4> HIDE DEF x
      <4> DEFINE a == Smaller(x.left, s.left)
                 b == Larger(x.right, s.right)
                 y == [x EXCEPT !.left = a]
      <4>2. y = [row |-> x.row, left |-> a, right |-> x.right]
        BY <4>1
      <4>3. y.right = x.right
        BY <4>2
      <4>4. [y EXCEPT !.right = Larger(@, s.right)] = [y EXCEPT !.right = b]
        BY <4>3
      <4> HIDE DEF y, a, b
      <4>5. [y EXCEPT !.right = b] = [row |-> x.row, left |-> a, right |-> b]
        BY <4>2
      <4> QED
        BY <4>4, <4>5 DEF x, y, a, b
    <3> QED
      BY <1>1, <2>1, <3>1, <3>2
  <2>4. /\ joined.row = s.row /\ joined.row \in Nat /\ joined.row < rows
        /\ joined.left = (IF last.left <= s.left THEN last.left ELSE s.left)
        /\ joined.right = (IF last.right <= s.right THEN s.right ELSE last.right)
        /\ joined.left \in Nat /\ joined.right \in Nat
        /\ joined.left < joined.right /\ joined.right <= columns
    BY <1>2, <1>9, <2>2 DEF Smaller, Larger
  <2>5. joined \in S
    <3> DEFINE a == joined.row
               b == joined.left
               c == joined.right
    <3>1. a \in 0 .. rows - 1 /\ b \in 0 .. columns /\ c \in 0 .. columns /\ b < c
      BY <2>4
    <3>2. joined = [row |-> a, left |-> b, right |-> c]
      OBVIOUS
    <3> HIDE DEF a, b, c, joined
    <3>3. [row |-> a, left |-> b, right |-> c] \in S
      BY <3>1 DEF S, Spans
    <3> QED
      BY <3>2, <3>3
  <2> HIDE DEF joined
  <2>6. /\ new \in Seq(S) /\ Len(new) = n /\ new[n] = joined
        /\ \A i \in 1 .. n - 1 : new[i] = spans[i]
    BY <1>1, <2>1, <2>3, <2>5
  <2>7. new # <<>>
    <3>1. n # 0
      BY <2>1
    <3> QED
      BY <2>6, <3>1, EmptySeq
  <2>8. \A i \in 1 .. n : i \in 1 .. n - 1 \/ i = n
    BY <1>0
  <2>9. \A r, c \in Int : InSpan(last, r, c) => InSpan(joined, r, c)
    BY <1>2, <1>9, <2>2, <2>4 DEF InSpan
  <2>10. Widened(spans, new)
    BY <2>1, <2>6, <2>8, <2>9 DEF Widened, InSpans
  <2>11. \A c \in Int : InSpan(s, s.row, c) => InSpans(new, s.row, c)
    <3>1. \A c \in Int : InSpan(s, s.row, c) => InSpan(joined, s.row, c)
      BY <1>2, <2>2, <2>4 DEF InSpan
    <3> QED
      BY <2>1, <2>6, <3>1 DEF InSpans
  <2>12. Encloses(dirty, spans)
    BY <1>6, <1>9
  <2>13. /\ region.left = (IF dirty.left <= s.left THEN dirty.left ELSE s.left)
         /\ region.top = (IF dirty.top <= s.row THEN dirty.top ELSE s.row)
         /\ region.right = (IF dirty.right <= s.right THEN s.right ELSE dirty.right)
         /\ region.bottom = (IF dirty.bottom <= s.row + 1 THEN s.row + 1 ELSE dirty.bottom)
    BY <1>5, <1>9
  <2>14. \A i \in 1 .. n :
             /\ dirty.left <= spans[i].left /\ spans[i].right <= dirty.right
             /\ dirty.top <= spans[i].row /\ spans[i].row + 1 <= dirty.bottom
    BY <2>12 DEF Encloses
  <2>15. /\ dirty.left <= last.left /\ last.right <= dirty.right
         /\ dirty.top <= last.row /\ last.row + 1 <= dirty.bottom
    BY <2>1, <2>14
  <2>16. region.top = dirty.top /\ region.bottom = dirty.bottom
    BY <1>2, <1>7, <1>9, <2>2, <2>13, <2>15
  <2>17. \A i \in 1 .. n :
                /\ region.left <= new[i].left /\ new[i].right <= region.right
                /\ region.top <= new[i].row /\ new[i].row + 1 <= region.bottom
    <3> TAKE i \in 1 .. n
    <3>1. CASE i \in 1 .. n - 1
      <4>1. new[i] = spans[i]
        BY <2>6, <3>1
      <4>2. /\ dirty.left <= spans[i].left /\ spans[i].right <= dirty.right
            /\ dirty.top <= spans[i].row /\ spans[i].row + 1 <= dirty.bottom
        BY <2>14
      <4>3. /\ spans[i].row \in Nat /\ spans[i].left \in Nat /\ spans[i].right \in Nat
        BY <1>3
      <4>4. region.left <= dirty.left /\ dirty.right <= region.right
        BY <1>9, <1>11
      <4> DEFINE x == spans[i]
      <4> HIDE DEF x
      <4>5. /\ dirty.left <= x.left /\ x.right <= dirty.right
            /\ x.left \in Nat /\ x.right \in Nat
        BY <4>2, <4>3 DEF x
      <4>6. region.left <= x.left /\ x.right <= region.right
        BY <1>7, <4>4, <4>5, SMTT(20)
      <4> QED
        BY <2>16, <4>1, <4>2, <4>6 DEF x
    <3>2. CASE i = n
      BY <1>2, <1>7, <1>9, <2>2, <2>4, <2>6, <2>13, <2>15, <2>16, <3>2, SMTT(20)
    <3> QED
      BY <2>8, <3>1, <3>2
  <2>18. \E i \in 1 .. n : new[i].left = region.left
    <3>1. PICK i \in 1 .. n : spans[i].left = dirty.left
      BY <2>12 DEF Encloses
    <3>2. CASE region.left = s.left
      <4>1. joined.left = region.left
        BY <1>2, <1>7, <2>2, <2>4, <2>13, <2>15, <3>2, SMTT(20)
      <4> QED
        BY <2>1, <2>6, <4>1
    <3>3. CASE region.left = dirty.left
      <4>1. CASE i = n
        <5>1. joined.left = region.left
          BY <1>2, <1>7, <2>2, <2>4, <2>13, <2>15, <3>1, <3>3, <4>1
        <5> QED
          BY <2>1, <2>6, <5>1
      <4>2. CASE i \in 1 .. n - 1
        BY <2>6, <3>1, <3>3, <4>2
      <4> QED
        BY <2>8, <4>1, <4>2
    <3> QED
      BY <2>13, <3>2, <3>3
  <2>19. \E i \in 1 .. n : new[i].right = region.right
    <3>1. PICK i \in 1 .. n : spans[i].right = dirty.right
      BY <2>12 DEF Encloses
    <3>2. CASE region.right = s.right
      <4>1. joined.right = region.right
        BY <1>2, <1>7, <2>2, <2>4, <2>13, <2>15, <3>2
      <4> QED
        BY <2>1, <2>6, <4>1
    <3>3. CASE region.right = dirty.right
      <4>1. CASE i = n
        <5>1. joined.right = region.right
          BY <1>2, <1>7, <2>2, <2>4, <2>13, <2>15, <3>1, <3>3, <4>1
        <5> QED
          BY <2>1, <2>6, <5>1
      <4>2. CASE i \in 1 .. n - 1
        BY <2>6, <3>1, <3>3, <4>2
      <4> QED
        BY <2>8, <4>1, <4>2
    <3> QED
      BY <2>13, <3>2, <3>3
  <2>20. \A i \in 1 .. n : new[i].row = spans[i].row
    BY <1>9, <2>4, <2>6, <2>8
  <2>21. (\E i \in 1 .. n : new[i].row = region.top)
         /\ \E i \in 1 .. n : new[i].row + 1 = region.bottom
    BY <2>12, <2>16, <2>20 DEF Encloses
  <2>22. Encloses(region, new)
    BY <2>6, <2>17, <2>18, <2>19, <2>21 DEF Encloses
  <2> QED
    BY <1>5, <2>6, <2>7, <2>10, <2>11, <2>22 DEF Marked, S, new, region
<1> QED
  BY <1>8, <1>9

LEMMA WidenedOn ==
    ASSUME NEW a, NEW b, NEW c, Widened(a, b), Widened(b, c) PROVE Widened(a, c)
BY DEF Widened

\* A region that has grown downwards, grows on.
LEMMA RegionGrowsOn ==
    ASSUME NEW dirty \in Areas, NEW z \in Nat, NEW columns \in Nat, z < columns,
           NEW top \in Nat, NEW m \in Nat, NEW b \in Nat, top < m, m < b
    PROVE  IncludeRegion(IncludeRegion(dirty, z, top, columns, m), z, m, columns, b)
               = IncludeRegion(dirty, z, top, columns, b)
<1> DEFINE once == IncludeRegion(dirty, z, top, columns, m)
           twice == IncludeRegion(once, z, m, columns, b)
           whole == IncludeRegion(dirty, z, top, columns, b)
<1>1. top < b
  OBVIOUS
<1>2. /\ once \in Areas
      /\ dirty = NoRegion => once = [left |-> z, top |-> top, right |-> columns, bottom |-> m]
      /\ ~DirtyEmpty(dirty) =>
             /\ once.left = (IF dirty.left <= z THEN dirty.left ELSE z)
             /\ once.top = (IF dirty.top <= top THEN dirty.top ELSE top)
             /\ once.right = (IF dirty.right <= columns THEN columns ELSE dirty.right)
             /\ once.bottom = (IF dirty.bottom <= m THEN m ELSE dirty.bottom)
  BY <1>1, RegionGrows
<1> QED
  <2>1. CASE DirtyEmpty(dirty)
    <3>1. once = [left |-> z, top |-> top, right |-> columns, bottom |-> m]
          /\ whole = [left |-> z, top |-> top, right |-> columns, bottom |-> b]
      BY <2>1 DEF IncludeRegion
    <3>2. ~DirtyEmpty(once)
      BY <1>1, <3>1 DEF DirtyEmpty
    <3>3. twice = [left |-> Smaller(z, z), top |-> Smaller(top, m),
                   right |-> Larger(columns, columns), bottom |-> Larger(m, b)]
      BY <3>1, <3>2 DEF IncludeRegion
    <3>4. twice = whole
      BY <1>1, <3>1, <3>3 DEF Smaller, Larger
    <3> QED
      BY <3>4
  <2>2. CASE ~DirtyEmpty(dirty)
    <3> DEFINE l == dirty.left
               t == dirty.top
               r == dirty.right
               u == dirty.bottom
    <3>1. l \in Nat /\ t \in Nat /\ r \in Nat /\ u \in Nat /\ l < r /\ t < u
      BY <2>2 DEF Areas, DirtyEmpty
    <3>2. /\ once = [left |-> Smaller(l, z), top |-> Smaller(t, top),
                     right |-> Larger(r, columns), bottom |-> Larger(u, m)]
          /\ whole = [left |-> Smaller(l, z), top |-> Smaller(t, top),
                      right |-> Larger(r, columns), bottom |-> Larger(u, b)]
      BY <2>2 DEF IncludeRegion
    <3> HIDE DEF l, t, r, u
    <3>3. ~DirtyEmpty(once)
      BY <1>1, <3>1, <3>2 DEF DirtyEmpty, Smaller, Larger
    <3>4. twice = [left |-> Smaller(Smaller(l, z), z), top |-> Smaller(Smaller(t, top), m),
                   right |-> Larger(Larger(r, columns), columns),
                   bottom |-> Larger(Larger(u, m), b)]
      <4> HIDE DEF once
      <4>1. twice = [left |-> Smaller(once.left, z), top |-> Smaller(once.top, m),
                     right |-> Larger(once.right, columns), bottom |-> Larger(once.bottom, b)]
        BY <3>3 DEF IncludeRegion
      <4> QED
        BY <3>2, <4>1
    <3>5. /\ Smaller(Smaller(l, z), z) = Smaller(l, z)
          /\ Smaller(Smaller(t, top), m) = Smaller(t, top)
          /\ Larger(Larger(r, columns), columns) = Larger(r, columns)
          /\ Larger(Larger(u, m), b) = Larger(u, b)
      BY <1>1, <3>1 DEF Smaller, Larger
    <3> HIDE DEF once, twice, whole
    <3>6. twice = whole
      BY <3>2, <3>4, <3>5
    <3> QED
      BY <3>6 DEF once, twice, whole
  <2> QED
    BY <2>1, <2>2

\* Whole rows are included, one span each, as one region.
LEMMA RowsMarked ==
    ASSUME NEW columns \in Nat, columns > 0, NEW rows \in Nat, NEW spans, NEW dirty,
           Marked(dirty, spans, columns, rows),
           NEW top \in Nat, NEW bottom \in Nat, top < bottom, bottom <= rows
    PROVE  LET new == IncludeRowSpans(spans, top, bottom, columns)
           IN /\ Marked(IncludeRegion(dirty, 0, top, columns, bottom), new, columns, rows)
              /\ Widened(spans, new)
              /\ \A r \in top .. bottom - 1, c \in 0 .. columns - 1 : InSpans(new, r, c)
<1> DEFINE V == {x \in Seq(Spans(columns, rows)) :
                     \E d \in Areas : Marked(d, x, columns, rows)}
           n == bottom - top
           next(i, x) == IncludeSpan(x, top + i - 1, 0, columns)
           with[i \in 0 .. n] == IF i = 0 THEN spans ELSE next(i, with[i - 1])
           step == [x \in (1 .. n) \X V |-> next(x[1], x[2])]
           row(i) == [row |-> top + i - 1, left |-> 0, right |-> columns]
           region(i) == IF i = 0 THEN dirty ELSE IncludeRegion(dirty, 0, top, columns, top + i)
<1>1. n \in Nat /\ n > 0 /\ top + n = bottom
  OBVIOUS
<1>2. IncludeRowSpans(spans, top, bottom, columns) = with[n]
  BY DEF IncludeRowSpans
<1> HIDE DEF n
<1>3. ASSUME NEW i \in 1 .. n
      PROVE  /\ row(i) \in Spans(columns, rows) /\ row(i).row = top + i - 1
             /\ row(i).left = 0 /\ row(i).right = columns
             /\ row(i).row + 1 = top + i
  <2> DEFINE r == top + i - 1
  <2>1. r \in 0 .. rows - 1 /\ r + 1 = top + i
    BY <1>1
  <2> HIDE DEF r
  <2>2. [row |-> r, left |-> 0, right |-> columns] \in Spans(columns, rows)
    BY <2>1 DEF Spans
  <2> QED
    BY <2>1, <2>2 DEF r
<1>4. ASSUME NEW i \in 1 .. n, NEW x, NEW d, Marked(d, x, columns, rows)
      PROVE  /\ Marked(IncludeRegion(d, 0, top + i - 1, columns, top + i), next(i, x),
                       columns, rows)
             /\ Widened(x, next(i, x))
             /\ \A c \in 0 .. columns - 1 : InSpans(next(i, x), top + i - 1, c)
  <2> DEFINE s == row(i)
  <2>1. /\ s \in Spans(columns, rows) /\ s.row = top + i - 1 /\ s.left = 0 /\ s.right = columns
        /\ s.row + 1 = top + i
    BY <1>3
  <2> HIDE DEF s
  <2>2. LET new == IncludeSpan(x, s.row, s.left, s.right)
        IN /\ Marked(IncludeRegion(d, s.left, s.row, s.right, s.row + 1), new, columns, rows)
           /\ Widened(x, new)
           /\ \A c \in Int : InSpan(s, s.row, c) => InSpans(new, s.row, c)
    BY <1>4, <2>1, SpanMarked
  <2>3. \A c \in 0 .. columns - 1 : c \in Int /\ InSpan(s, s.row, c)
    BY <2>1 DEF InSpan
  <2> QED
    BY <2>1, <2>2, <2>3
<1> HIDE DEF next, row
<1>5. spans \in V
  BY DEF Marked
<1>6. \A i \in 1 .. n, x \in V : next(i, x) \in V
  <2> TAKE i \in 1 .. n, x \in V
  <2>1. PICK d \in Areas : Marked(d, x, columns, rows)
    OBVIOUS
  <2>2. Marked(IncludeRegion(d, 0, top + i - 1, columns, top + i), next(i, x), columns, rows)
    BY <1>4, <2>1
  <2> QED
    BY <2>2 DEF Marked
<1> HIDE DEF V
<1>7. step \in Steps(n, V) /\ \A i \in 1 .. n, x \in V : step[<<i, x>>] = next(i, x)
  BY <1>6 DEF Steps
<1> HIDE DEF step
<1>8. PICK f : Recursive(f, n, V, spans, step)
  BY <1>1, <1>5, <1>7, Recursion
<1>9. f \in [0 .. n -> V] /\ f[0] = spans /\ \A i \in 1 .. n : f[i] = next(i, f[i - 1])
  <2>1. f \in [0 .. n -> V] /\ f[0] = spans /\ \A i \in 1 .. n : f[i] = step[<<i, f[i - 1]>>]
    BY <1>8 DEF Recursive
  <2>2. \A i \in 1 .. n : i - 1 \in 0 .. n
    BY <1>1
  <2> QED
    BY <1>7, <2>1, <2>2
<1>10. with = [i \in 0 .. n |-> IF i = 0 THEN spans ELSE next(i, with[i - 1])]
  <2>1. \A i \in 0 .. n : f[i] = IF i = 0 THEN spans ELSE next(i, f[i - 1])
    BY <1>9
  <2>2. f = [i \in 0 .. n |-> IF i = 0 THEN spans ELSE next(i, f[i - 1])]
    BY <1>9, <2>1
  <2> QED
    BY <2>2
<1> HIDE DEF with
<1>11. with[0] = spans /\ \A i \in 1 .. n : with[i] = next(i, with[i - 1])
  BY <1>1, <1>10
<1>12. region(1) = IncludeRegion(region(0), 0, top, columns, top + 1)
       /\ \A i \in Nat \ {0} :
              region(i + 1) = IncludeRegion(region(i), 0, top + i, columns, top + i + 1)
  <2>1. dirty \in Areas
    BY DEF Marked
  <2>2. ASSUME NEW i \in Nat \ {0}
        PROVE  region(i + 1) = IncludeRegion(region(i), 0, top + i, columns, top + i + 1)
    <3>1. i \in Nat /\ i > 0 /\ i # 0 /\ i + 1 # 0 /\ top + (i + 1) = top + i + 1
      OBVIOUS
    <3>2. IncludeRegion(IncludeRegion(dirty, 0, top, columns, top + i),
                        0, top + i, columns, top + i + 1)
              = IncludeRegion(dirty, 0, top, columns, top + i + 1)
      <4> DEFINE z == 0
                 m == top + i
                 b == top + i + 1
      <4>1. z \in Nat /\ z < columns /\ m \in Nat /\ b \in Nat /\ top < m /\ m < b
        BY <3>1
      <4> HIDE DEF z, m, b
      <4>2. IncludeRegion(IncludeRegion(dirty, z, top, columns, m), z, m, columns, b)
                = IncludeRegion(dirty, z, top, columns, b)
        BY <2>1, <4>1, RegionGrowsOn
      <4> QED
        BY <4>2 DEF z, m, b
    <3> QED
      BY <3>1, <3>2
  <2>3. region(1) = IncludeRegion(region(0), 0, top, columns, top + 1)
    OBVIOUS
  <2> QED
    BY <2>2, <2>3
<1> DEFINE T == {i \in 0 .. n :
                    /\ Marked(region(i), with[i], columns, rows) /\ Widened(spans, with[i])
                    /\ \A r \in top .. top + i - 1, c \in 0 .. columns - 1 :
                           InSpans(with[i], r, c)}
<1>13. 0 \in T
  <2>1. Widened(spans, spans) /\ top .. top + 0 - 1 = {}
    BY DEF Widened
  <2> QED
    BY <1>1, <1>11, <2>1
<1>14. ASSUME NEW i \in 1 .. n, i - 1 \in T PROVE i \in T
  <2> DEFINE j == i - 1
             old == with[j]
             new == with[i]
             d == region(j)
  <2>1. j \in 0 .. n /\ i = j + 1 /\ top + i - 1 = top + j /\ top + i = top + j + 1
    BY <1>1
  <2>2. /\ Marked(d, old, columns, rows) /\ Widened(spans, old)
        /\ \A r \in top .. top + j - 1, c \in 0 .. columns - 1 : InSpans(old, r, c)
    BY <1>14
  <2>3. new = next(i, old)
    BY <1>11
  <2>4. region(i) = IncludeRegion(d, 0, top + i - 1, columns, top + i)
    <3> HIDE DEF region
    <3>1. CASE j = 0
      <4>1. i = 1 /\ top + i - 1 = top /\ top + i = top + 1
        BY <2>1, <3>1
      <4> QED
        BY <1>12, <3>1, <4>1
    <3>2. CASE j # 0
      <4>1. j \in Nat \ {0}
        BY <2>1, <3>2
      <4>2. region(j + 1) = IncludeRegion(region(j), 0, top + j, columns, top + j + 1)
        BY <1>12, <4>1
      <4> HIDE DEF j
      <4> QED
        BY <2>1, <4>2
    <3> QED
      BY <3>1, <3>2
  <2> HIDE DEF region, old, new, d
  <2>5. /\ Marked(region(i), new, columns, rows) /\ Widened(old, new)
        /\ \A c \in 0 .. columns - 1 : InSpans(new, top + i - 1, c)
    BY <1>4, <2>2, <2>3, <2>4
  <2>6. Widened(spans, new)
    BY <2>2, <2>5, WidenedOn
  <2>7. \A r \in top .. top + i - 1 : r \in Int /\ (r \in top .. top + j - 1 \/ r = top + i - 1)
    BY <2>1
  <2>8. \A c \in 0 .. columns - 1 : c \in Int
    OBVIOUS
  <2>9. \A r \in top .. top + i - 1, c \in 0 .. columns - 1 : InSpans(new, r, c)
    BY <2>2, <2>5, <2>7, <2>8 DEF Widened
  <2>10. i \in 0 .. n
    BY <1>1
  <2> QED
    BY <2>5, <2>6, <2>9, <2>10 DEF new
<1>15. n \in T
  <2> HIDE DEF T
  <2>1. 0 .. n \subseteq T
    BY <1>1, <1>13, <1>14, InductionUpTo
  <2> QED
    BY <1>1, <2>1
<1>16. region(n) = IncludeRegion(dirty, 0, top, columns, bottom) /\ top + n - 1 = bottom - 1
  BY <1>1
<1> HIDE DEF region
<1> QED
  BY <1>2, <1>15, <1>16

\* The span of a cell takes it in.
LEMMA CellMarked ==
    ASSUME NEW columns \in Nat, NEW rows \in Nat, NEW spans, NEW dirty,
           Marked(dirty, spans, columns, rows),
           NEW column \in Nat, NEW row \in Nat, NEW width \in Nat
    PROVE  LET new == IncludeCellSpan(spans, column, row, width, columns, rows)
           IN /\ Marked(IncludeDirty(dirty, column, row, width, columns, rows), new,
                        columns, rows)
              /\ Widened(spans, new)
              /\ column < columns /\ row < rows => InSpans(new, row, column)
<1> DEFINE new == IncludeCellSpan(spans, column, row, width, columns, rows)
           region == IncludeDirty(dirty, column, row, width, columns, rows)
           l == CellLeft(column, width)
           r == CellRight(column, width, columns)
           s == [row |-> row, left |-> l, right |-> r]
<1>1. CASE column >= columns \/ row >= rows
  <2>1. new = spans /\ region = dirty /\ ~(column < columns /\ row < rows)
    BY <1>1 DEF IncludeCellSpan, IncludeDirty
  <2> QED
    BY <2>1 DEF Widened
<1>2. CASE ~(column >= columns \/ row >= rows)
  <2>1. column < columns /\ row < rows
    BY <1>2
  <2>2. l \in Nat /\ l <= column /\ r \in Nat /\ column < r /\ r <= columns
    BY <2>1 DEF CellLeft, CellRight, Smaller
  <2>3. /\ new = IncludeSpan(spans, row, l, r)
        /\ region = IncludeRegion(dirty, l, row, r, row + 1)
    BY <1>2 DEF IncludeCellSpan, IncludeDirty
  <2> HIDE DEF new, region, l, r
  <2>4. row \in 0 .. rows - 1 /\ l \in 0 .. columns /\ r \in 0 .. columns /\ l < r
    BY <2>1, <2>2
  <2>5. s \in Spans(columns, rows) /\ s.row = row /\ s.left = l /\ s.right = r
    BY <2>4 DEF Spans
  <2>6. InSpan(s, row, column)
    BY <2>2, <2>5 DEF InSpan
  <2> HIDE DEF s
  <2>7. LET next == IncludeSpan(spans, s.row, s.left, s.right)
        IN /\ Marked(IncludeRegion(dirty, s.left, s.row, s.right, s.row + 1), next,
                     columns, rows)
           /\ Widened(spans, next)
           /\ \A c \in Int : InSpan(s, s.row, c) => InSpans(next, s.row, c)
    BY <2>5, SpanMarked
  <2> QED
    BY <2>3, <2>5, <2>6, <2>7 DEF new, region
<1> QED
  BY <1>1, <1>2

LEMMA NothingMarked ==
    ASSUME NEW columns \in Nat, NEW rows \in Nat
    PROVE  Marked(NoRegion, <<>>, columns, rows)
BY DEF Marked, NoRegion, Areas

\* All rows, one span each.
LEMMA WholeMarked ==
    ASSUME NEW columns \in Nat, columns > 0, NEW rows \in Nat, rows > 0
    PROVE  LET spans == FullSpans(columns, rows)
           IN /\ Marked(WholeRegion(columns, rows), spans, columns, rows)
              /\ spans # <<>>
              /\ \A r \in 0 .. rows - 1, c \in 0 .. columns - 1 : InSpans(spans, r, c)
<1> DEFINE spans == FullSpans(columns, rows)
           whole == WholeRegion(columns, rows)
           span(i) == [row |-> i - 1, left |-> 0, right |-> columns]
<1>1. \A i \in 1 .. rows : span(i) \in Spans(columns, rows)
  <2> TAKE i \in 1 .. rows
  <2> DEFINE r == i - 1
             z == 0
  <2>1. r \in 0 .. rows - 1 /\ z \in 0 .. columns /\ columns \in 0 .. columns /\ z < columns
    OBVIOUS
  <2> HIDE DEF r, z
  <2>2. [row |-> r, left |-> z, right |-> columns] \in Spans(columns, rows)
    BY <2>1 DEF Spans
  <2> QED
    BY <2>2 DEF r, z
<1>2. /\ spans \in Seq(Spans(columns, rows)) /\ Len(spans) = rows
      /\ \A i \in 1 .. rows : /\ spans[i].row = i - 1 /\ spans[i].left = 0
                              /\ spans[i].right = columns
  <2>1. spans = [i \in 1 .. rows |-> span(i)]
    BY DEF FullSpans
  <2>2. \A i \in 1 .. rows : span(i).row = i - 1 /\ span(i).left = 0 /\ span(i).right = columns
    OBVIOUS
  <2> HIDE DEF span, spans
  <2> QED
    BY <1>1, <2>1, <2>2
<1>3. /\ whole \in Areas /\ whole.left = 0 /\ whole.top = 0 /\ whole.right = columns
      /\ whole.bottom = rows
  BY DEF WholeRegion, Areas
<1> HIDE DEF spans, whole
<1>4. 1 \in 1 .. rows /\ rows \in 1 .. rows
  OBVIOUS
<1>5. spans # <<>>
  BY <1>2, EmptySeq
<1>6. Encloses(whole, spans)
  BY <1>2, <1>3, <1>4 DEF Encloses
<1>7. ASSUME NEW r \in 0 .. rows - 1, NEW c \in 0 .. columns - 1 PROVE InSpans(spans, r, c)
  <2>1. r + 1 \in 1 .. rows /\ (r + 1) - 1 = r
    OBVIOUS
  <2>2. InSpan(spans[r + 1], r, c)
    BY <1>2, <2>1 DEF InSpan
  <2> QED
    BY <1>2, <2>1, <2>2 DEF InSpans
<1> QED
  BY <1>2, <1>3, <1>5, <1>6, <1>7 DEF Marked, spans, whole

\* Spans that take in two opposite corners take in the whole screen.
LEMMA CornersMarked ==
    ASSUME NEW columns \in Nat, columns > 0, NEW rows \in Nat, rows > 0, NEW spans, NEW dirty,
           Marked(dirty, spans, columns, rows),
           InSpans(spans, 0, 0), InSpans(spans, rows - 1, columns - 1)
    PROVE  dirty = WholeRegion(columns, rows)
<1>1. spans \in Seq(Spans(columns, rows)) /\ dirty \in Areas /\ Len(spans) \in Nat
  BY DEF Marked
<1>2. PICK i \in 1 .. Len(spans) : InSpan(spans[i], 0, 0)
  BY DEF InSpans
<1>3. PICK j \in 1 .. Len(spans) : InSpan(spans[j], rows - 1, columns - 1)
  BY DEF InSpans
<1>4. spans # <<>>
  <2>1. Len(spans) # 0
    BY <1>1, <1>2
  <2> QED
    BY <2>1, EmptySeq
<1>5. Encloses(dirty, spans)
  BY <1>4 DEF Marked
<1>6. \A k \in 1 .. Len(spans) : /\ spans[k].row \in 0 .. rows - 1
                                 /\ spans[k].left \in 0 .. columns
                                 /\ spans[k].right \in 0 .. columns
  <2>1. \A k \in 1 .. Len(spans) : spans[k] \in Spans(columns, rows)
    BY <1>1
  <2> QED
    BY <2>1 DEF Spans
<1>7. dirty.left \in Nat /\ dirty.top \in Nat /\ dirty.right \in Nat /\ dirty.bottom \in Nat
  BY <1>1 DEF Areas
<1>8. dirty.left = 0 /\ dirty.top = 0
  <2>1. dirty.left <= spans[i].left /\ dirty.top <= spans[i].row
    BY <1>5 DEF Encloses
  <2>2. spans[i].left <= 0 /\ spans[i].row = 0
    BY <1>2 DEF InSpan
  <2> QED
    BY <1>6, <1>7, <2>1, <2>2
<1>9. dirty.right = columns
  <2>1. PICK k \in 1 .. Len(spans) : spans[k].right = dirty.right
    BY <1>5 DEF Encloses
  <2>2. spans[j].right <= dirty.right /\ columns - 1 < spans[j].right
    BY <1>3, <1>5 DEF Encloses, InSpan
  <2>3. spans[j].right \in 0 .. columns /\ spans[k].right \in 0 .. columns
    BY <1>6
  <2> QED
    BY <1>7, <2>1, <2>2, <2>3
<1>10. dirty.bottom = rows
  <2>1. PICK k \in 1 .. Len(spans) : spans[k].row + 1 = dirty.bottom
    BY <1>5 DEF Encloses
  <2>2. spans[j].row + 1 <= dirty.bottom /\ spans[j].row = rows - 1
    BY <1>3, <1>5 DEF Encloses, InSpan
  <2>3. spans[k].row \in 0 .. rows - 1
    BY <1>6
  <2> QED
    BY <1>7, <2>1, <2>2, <2>3
<1> QED
  BY <1>1, <1>8, <1>9, <1>10 DEF Areas, WholeRegion

LEMMA LeastIs ==
    ASSUME NEW S, NEW x \in S, S \subseteq Int, \A y \in S : x <= y PROVE Min(S) = x
<1>1. Min(S) \in S /\ \A y \in S : Min(S) <= y
  BY DEF Min
<1>2. Min(S) \in Int /\ x \in Int /\ Min(S) <= x /\ x <= Min(S)
  BY <1>1
<1> QED
  BY <1>2

LEMMA GreatestIs ==
    ASSUME NEW S, NEW x \in S, S \subseteq Int, \A y \in S : y <= x PROVE Max(S) = x
<1>1. Max(S) \in S /\ \A y \in S : Max(S) >= y
  BY DEF Max
<1>2. Max(S) \in Int /\ x \in Int /\ Max(S) >= x /\ x >= Max(S)
  BY <1>1
<1> QED
  BY <1>2

\* The region in terms of the spans.
LEMMA RegionOfSpans ==
    ASSUME NEW columns \in Nat, NEW rows \in Nat, NEW spans, NEW dirty,
           Marked(dirty, spans, columns, rows), spans # <<>>
    PROVE  dirty = [left   |-> Min({s.left : s \in Range(spans)}),
                    top    |-> Min({s.row : s \in Range(spans)}),
                    right  |-> Max({s.right : s \in Range(spans)}),
                    bottom |-> Max({s.row + 1 : s \in Range(spans)})]
<1> DEFINE n == Len(spans)
           lefts == {s.left : s \in Range(spans)}
           tops == {s.row : s \in Range(spans)}
           rights == {s.right : s \in Range(spans)}
           bottoms == {s.row + 1 : s \in Range(spans)}
<1>1. spans \in Seq(Spans(columns, rows)) /\ dirty \in Areas /\ Encloses(dirty, spans)
  BY DEF Marked
<1>2. Range(spans) = {spans[i] : i \in 1 .. n}
  <2>1. DOMAIN spans = 1 .. n
    BY <1>1
  <2> QED
    BY <2>1 DEF Range
<1>3. \A i \in 1 .. n : spans[i].left \in Int /\ spans[i].row \in Int /\ spans[i].right \in Int
                        /\ spans[i].row + 1 \in Int
  BY <1>1, SMTT(20) DEF Spans
<1>4. dirty.left \in lefts /\ lefts \subseteq Int /\ \A y \in lefts : dirty.left <= y
  <2> HIDE DEF n
  <2> QED
    BY <1>1, <1>2, <1>3 DEF Encloses, n
<1>5. dirty.top \in tops /\ tops \subseteq Int /\ \A y \in tops : dirty.top <= y
  BY <1>1, <1>2, <1>3 DEF Encloses
<1>6. dirty.right \in rights /\ rights \subseteq Int /\ \A y \in rights : y <= dirty.right
  BY <1>1, <1>2, <1>3 DEF Encloses
<1>7. dirty.bottom \in bottoms /\ bottoms \subseteq Int /\ \A y \in bottoms : y <= dirty.bottom
  BY <1>1, <1>2, <1>3 DEF Encloses
<1>8. dirty = [left |-> dirty.left, top |-> dirty.top, right |-> dirty.right,
               bottom |-> dirty.bottom]
  BY <1>1 DEF Areas
<1> DEFINE l == dirty.left
           t == dirty.top
           r == dirty.right
           b == dirty.bottom
<1> HIDE DEF lefts, tops, rights, bottoms, l, t, r, b
<1>9. Min(lefts) = l /\ Min(tops) = t
  BY <1>4, <1>5, LeastIs DEF l, t
<1>10. Max(rights) = r /\ Max(bottoms) = b
  BY <1>6, <1>7, GreatestIs DEF r, b
<1>11. dirty = [left |-> Min(lefts), top |-> Min(tops), right |-> Max(rights),
                bottom |-> Max(bottoms)]
  BY <1>8, <1>9, <1>10 DEF l, t, r, b
<1> QED
  BY <1>11 DEF lefts, tops, rights, bottoms

-----------------------------------------------------------------------------
(* The glyph cache: sums over the entries of the list.                     *)

LEMMA TotalFunction ==
    ASSUME NEW s \in Seq(Nat)
    PROVE  \E f \in [0 .. Len(s) -> Nat] :
               /\ f[0] = 0 /\ \A i \in 1 .. Len(s) : f[i] = f[i - 1] + s[i]
               /\ Total(s) = f[Len(s)]
<1> DEFINE n == Len(s)
           first == 0
           step == [x \in (1 .. n) \X Nat |-> x[2] + s[x[1]]]
           sum[i \in 0 .. Len(s)] == IF i = 0 THEN 0 ELSE sum[i - 1] + s[i]
<1>1. n \in Nat /\ first \in Nat /\ \A i \in 1 .. n : s[i] \in Nat
  OBVIOUS
<1>2. step \in Steps(n, Nat) /\ \A i \in 1 .. n, k \in Nat : step[<<i, k>>] = k + s[i]
  BY <1>1, SMTT(20) DEF Steps
<1>3. Total(s) = sum[n]
  BY DEF Total
<1> HIDE DEF step, first
<1>4. PICK f : Recursive(f, n, Nat, first, step)
  <2> HIDE DEF n
  <2> QED
    BY <1>1, <1>2, Recursion
<1>5. f \in [0 .. n -> Nat] /\ f[0] = 0 /\ \A i \in 1 .. n : f[i] = f[i - 1] + s[i]
  <2>1. f \in [0 .. n -> Nat] /\ f[0] = first /\ \A i \in 1 .. n : f[i] = step[<<i, f[i - 1]>>]
    BY <1>4 DEF Recursive
  <2>2. \A i \in 1 .. n : i - 1 \in 0 .. n
    OBVIOUS
  <2> HIDE DEF n
  <2> QED
    BY <1>2, <2>1, <2>2 DEF first
<1>6. f = [i \in 0 .. n |-> IF i = 0 THEN 0 ELSE f[i - 1] + s[i]]
  BY <1>1, <1>5
<1>7. sum = [i \in 0 .. n |-> IF i = 0 THEN 0 ELSE sum[i - 1] + s[i]]
  BY <1>6
<1> HIDE DEF sum
<1>8. /\ sum[0] = 0 /\ \A i \in 1 .. n : sum[i] = sum[i - 1] + s[i]
      /\ DOMAIN sum = 0 .. n /\ sum = [i \in 0 .. n |-> sum[i]]
  BY <1>1, <1>7
<1> DEFINE S == {i \in Nat : i <= n => sum[i] = f[i] /\ sum[i] \in Nat}
<1>9. 0 \in S
  BY <1>5, <1>8
<1>10. ASSUME NEW i \in Nat, i \in S PROVE i + 1 \in S
  <2> SUFFICES ASSUME i + 1 <= n PROVE sum[i + 1] = f[i + 1] /\ sum[i + 1] \in Nat
    OBVIOUS
  <2>1. i <= n /\ i + 1 \in 1 .. n /\ (i + 1) - 1 = i
    BY <1>1
  <2>2. sum[i] = f[i] /\ sum[i] \in Nat
    BY <1>10, <2>1
  <2> HIDE DEF n
  <2>3. sum[i + 1] = sum[i] + s[i + 1] /\ f[i + 1] = f[i] + s[i + 1]
    BY <1>5, <1>8, <2>1
  <2> QED
    BY <1>1, <2>1, <2>2, <2>3
<1>11. Nat \subseteq S
  <2> HIDE DEF S
  <2> QED
    BY <1>9, <1>10, Induction
<1>12. sum[n] = f[n]
  BY <1>1, <1>11
<1> QED
  BY <1>3, <1>5, <1>12

LEMMA TotalConcat ==
    ASSUME NEW s \in Seq(Nat), NEW t \in Seq(Nat)
    PROVE  Total(s \o t) = Total(s) + Total(t) /\ Total(s) \in Nat /\ Total(t) \in Nat
<1> DEFINE m == Len(s)
           n == Len(t)
           u == s \o t
<1>1. m \in Nat /\ n \in Nat /\ u \in Seq(Nat) /\ Len(u) = m + n
  BY ConcatProperties, LenProperties
<1>2. /\ \A i \in 1 .. m : u[i] = s[i]
      /\ \A i \in 1 .. n : u[m + i] = t[i]
  <2>1. \A i \in 1 .. m + n : u[i] = IF i <= m THEN s[i] ELSE t[i - m]
    BY ConcatProperties
  <2>2. \A i \in 1 .. m : i \in 1 .. m + n /\ i <= m
    BY <1>1
  <2>3. \A i \in 1 .. n : m + i \in 1 .. m + n /\ ~(m + i <= m) /\ (m + i) - m = i
    BY <1>1
  <2> HIDE DEF m, n, u
  <2> QED
    BY <2>1, <2>2, <2>3
<1>3. PICK f \in [0 .. m -> Nat] :
          /\ f[0] = 0 /\ \A i \in 1 .. m : f[i] = f[i - 1] + s[i]
          /\ Total(s) = f[m]
  BY TotalFunction
<1>4. PICK g \in [0 .. n -> Nat] :
          /\ g[0] = 0 /\ \A i \in 1 .. n : g[i] = g[i - 1] + t[i]
          /\ Total(t) = g[n]
  BY TotalFunction
<1>5. PICK h \in [0 .. m + n -> Nat] :
          /\ h[0] = 0 /\ \A i \in 1 .. m + n : h[i] = h[i - 1] + u[i]
          /\ Total(u) = h[m + n]
  <2>1. \E h \in [0 .. Len(u) -> Nat] :
            /\ h[0] = 0 /\ \A i \in 1 .. Len(u) : h[i] = h[i - 1] + u[i]
            /\ Total(u) = h[Len(u)]
    <3> HIDE DEF u
    <3> QED
      BY <1>1, TotalFunction
  <2> QED
    BY <1>1, <2>1
<1> HIDE DEF m, n, u
<1> DEFINE S == {i \in Nat : i <= m => h[i] = f[i]}
<1>6. 0 \in S
  BY <1>3, <1>5
<1>7. ASSUME NEW i \in Nat, i \in S PROVE i + 1 \in S
  <2> SUFFICES ASSUME i + 1 <= m PROVE h[i + 1] = f[i + 1]
    OBVIOUS
  <2>1. i <= m /\ i + 1 \in 1 .. m /\ i + 1 \in 1 .. m + n /\ (i + 1) - 1 = i
    BY <1>1
  <2>2. h[i] = f[i]
    BY <1>7, <2>1
  <2>3. h[i + 1] = h[i] + u[i + 1]
    BY <1>5, <2>1
  <2>4. f[i + 1] = f[i] + s[i + 1]
    BY <1>3, <2>1
  <2> QED
    BY <1>2, <2>1, <2>2, <2>3, <2>4
<1>8. h[m] = f[m]
  <2>1. Nat \subseteq S
    <3> HIDE DEF S
    <3> QED
      BY <1>6, <1>7, Induction
  <2> QED
    BY <1>1, <2>1
<1> DEFINE U == {i \in Nat : i <= n => h[m + i] = f[m] + g[i]}
<1>9. f[m] \in Nat /\ g[n] \in Nat /\ \A i \in 0 .. n : g[i] \in Nat
  BY <1>1, <1>3, <1>4
<1>10. 0 \in U
  <2>1. m + 0 = m /\ f[m] + 0 = f[m]
    BY <1>1, <1>9
  <2> QED
    BY <1>4, <1>8, <2>1
<1>11. ASSUME NEW i \in Nat, i \in U PROVE i + 1 \in U
  <2> SUFFICES ASSUME i + 1 <= n PROVE h[m + (i + 1)] = f[m] + g[i + 1]
    OBVIOUS
  <2>1. /\ i <= n /\ i + 1 \in 1 .. n /\ m + (i + 1) \in 1 .. m + n /\ (i + 1) - 1 = i
        /\ (m + (i + 1)) - 1 = m + i /\ i \in 0 .. n
    BY <1>1
  <2>2. h[m + i] = f[m] + g[i]
    BY <1>11, <2>1
  <2>3. h[m + (i + 1)] = h[m + i] + u[m + (i + 1)]
    BY <1>5, <2>1
  <2>4. g[i + 1] = g[i] + t[i + 1]
    BY <1>4, <2>1
  <2>5. u[m + (i + 1)] = t[i + 1] /\ t[i + 1] \in Nat
    BY <1>2, <2>1 DEF n
  <2> DEFINE tt == t[i + 1]
             gi == g[i]
             fm == f[m]
  <2>6. gi \in Nat /\ fm \in Nat /\ tt \in Nat
    BY <1>9, <2>1, <2>5
  <2>7. h[m + (i + 1)] = (fm + gi) + tt /\ g[i + 1] = gi + tt
    BY <2>2, <2>3, <2>4, <2>5
  <2> HIDE DEF tt, gi, fm
  <2>8. (fm + gi) + tt = fm + (gi + tt)
    BY <2>6
  <2> QED
    BY <2>7, <2>8 DEF fm
<1>12. h[m + n] = f[m] + g[n]
  <2>1. Nat \subseteq U
    <3> HIDE DEF U
    <3> QED
      BY <1>10, <1>11, Induction
  <2> QED
    BY <1>1, <2>1
<1> QED
  BY <1>3, <1>4, <1>5, <1>9, <1>12 DEF u

LEMMA TotalSmall ==
    /\ Total(<<>>) = 0
    /\ \A x \in Nat : Total(<<x>>) = x
<1>1. <<>> \in Seq(Nat) /\ Len(<<>>) = 0
  OBVIOUS
<1>2. Total(<<>>) = 0
  <2> DEFINE e == <<>>
  <2>1. e \in Seq(Nat) /\ Len(e) = 0
    OBVIOUS
  <2> HIDE DEF e
  <2>2. Total(e) = 0
    BY <2>1, TotalFunction
  <2> QED
    BY <2>2 DEF e
<1>3. ASSUME NEW x \in Nat PROVE Total(<<x>>) = x
  <2> DEFINE e == <<x>>
  <2>1. e \in Seq(Nat) /\ Len(e) = 1 /\ e[1] = x /\ 1 \in 1 .. 1 /\ 1 - 1 = 0 /\ 0 + x = x
    OBVIOUS
  <2> HIDE DEF e
  <2>2. Total(e) = x
    BY <2>1, TotalFunction
  <2> QED
    BY <2>2 DEF e
<1> QED
  BY <1>2, <1>3

\* The costs of keys, one after the other, and all of them together.
Costs(cost, keys) == [i \in 1 .. Len(keys) |-> cost[keys[i]]]
CostOf(cost, keys) == Total(Costs(cost, keys))

LEMMA Joined ==
    ASSUME NEW S, NEW s \in Seq(S), NEW t \in Seq(S), NEW m, NEW n, m = Len(s), n = Len(t)
    PROVE  /\ s \o t \in Seq(S) /\ Len(s \o t) = m + n
           /\ \A i \in 1 .. m + n : (s \o t)[i] = IF i <= m THEN s[i] ELSE t[i - m]
BY ConcatProperties

LEMMA CostsConcat ==
    ASSUME NEW K, NEW cost \in [K -> Nat], NEW s \in Seq(K), NEW t \in Seq(K)
    PROVE  /\ CostOf(cost, s \o t) = CostOf(cost, s) + CostOf(cost, t)
           /\ CostOf(cost, s) \in Nat /\ CostOf(cost, t) \in Nat
<1> DEFINE m == Len(s)
           n == Len(t)
           u == s \o t
           cs == Costs(cost, s)
           ct == Costs(cost, t)
           cu == Costs(cost, u)
<1>1. m \in Nat /\ n \in Nat /\ u \in Seq(K) /\ Len(u) = m + n
  BY ConcatProperties, LenProperties
<1>2. \A i \in 1 .. m + n : u[i] = IF i <= m THEN s[i] ELSE t[i - m]
  BY ConcatProperties
<1>3. (\A i \in 1 .. m : s[i] \in K) /\ (\A i \in 1 .. n : t[i] \in K)
  BY ElementOfSeq
<1>4. /\ cs = [i \in 1 .. m |-> cost[s[i]]] /\ ct = [i \in 1 .. n |-> cost[t[i]]]
      /\ cu = [i \in 1 .. m + n |-> cost[u[i]]]
  <2> HIDE DEF u
  <2> QED
    BY <1>1 DEF Costs
<1>5. \A i \in 1 .. m + n : u[i] \in K
  BY <1>1, ElementOfSeq
<1> HIDE DEF m, n, u, cs, ct, cu
<1>6. cs \in Seq(Nat) /\ Len(cs) = m /\ \A i \in 1 .. m : cs[i] = cost[s[i]]
  <2>1. cs \in [1 .. m -> Nat]
    BY <1>3, <1>4
  <2> QED
    BY <1>1, <1>4, <2>1, FunctionSeq
<1>7. ct \in Seq(Nat) /\ Len(ct) = n /\ \A i \in 1 .. n : ct[i] = cost[t[i]]
  <2>1. ct \in [1 .. n -> Nat]
    BY <1>3, <1>4
  <2> QED
    BY <1>1, <1>4, <2>1, FunctionSeq
<1>8. cu \in Seq(Nat) /\ Len(cu) = m + n /\ \A i \in 1 .. m + n : cu[i] = cost[u[i]]
  <2> DEFINE k == m + n
  <2>1. k \in Nat
    BY <1>1
  <2> HIDE DEF k
  <2>2. cu \in [1 .. k -> Nat]
    BY <1>4, <1>5 DEF k
  <2>3. cu \in Seq(Nat) /\ Len(cu) = k
    BY <2>1, <2>2, FunctionSeq
  <2> QED
    BY <1>4, <2>3 DEF k
<1> DEFINE w == cs \o ct
<1>9. /\ w \in Seq(Nat) /\ Len(w) = m + n
      /\ \A i \in 1 .. m + n : w[i] = IF i <= m THEN cs[i] ELSE ct[i - m]
  BY <1>6, <1>7, Joined, SMTT(20)
<1> HIDE DEF w
<1>10. ASSUME NEW i \in 1 .. m + n PROVE cu[i] = w[i]
  <2>1. CASE i <= m
    <3>1. i \in 1 .. m
      BY <1>1, <2>1
    <3>2. u[i] = s[i] /\ w[i] = cs[i] /\ cu[i] = cost[u[i]]
      BY <1>2, <1>8, <1>9, <2>1
    <3>3. cs[i] = cost[s[i]]
      BY <1>6, <3>1
    <3> QED
      BY <3>2, <3>3
  <2>2. CASE ~(i <= m)
    <3>1. i - m \in 1 .. n
      BY <1>1, <2>2
    <3>2. u[i] = t[i - m] /\ w[i] = ct[i - m] /\ cu[i] = cost[u[i]]
      BY <1>2, <1>8, <1>9, <2>2
    <3>3. ct[i - m] = cost[t[i - m]]
      BY <1>7, <3>1
    <3> QED
      BY <3>2, <3>3
  <2> QED
    BY <2>1, <2>2
<1>11. cu = w
  BY <1>8, <1>9, <1>10, SeqEqual
<1>12. Total(cu) = Total(cs) + Total(ct) /\ Total(cs) \in Nat /\ Total(ct) \in Nat
  BY <1>6, <1>7, <1>11, TotalConcat DEF w
<1> QED
  BY <1>12 DEF CostOf, cu, cs, ct, u

LEMMA CostsOfOne ==
    ASSUME NEW K, NEW cost \in [K -> Nat], NEW k \in K
    PROVE  /\ CostOf(cost, <<k>>) = cost[k]
           /\ CostOf(cost, <<>>) = 0
<1>1. Costs(cost, <<k>>) = <<cost[k]>>
  <2> DEFINE e == <<k>>
             f == <<cost[k]>>
             c == Costs(cost, e)
  <2>1. Len(e) = 1 /\ e[1] = k /\ f \in Seq(Nat) /\ Len(f) = 1 /\ f[1] = cost[k]
    OBVIOUS
  <2>2. c = [i \in 1 .. 1 |-> cost[k]]
    BY DEF Costs
  <2>3. c \in Seq(Nat) /\ Len(c) = 1 /\ c[1] = cost[k]
    <3> DEFINE one == 1
    <3>1. one \in Nat /\ one \in 1 .. one /\ c = [i \in 1 .. one |-> cost[k]]
      BY <2>2
    <3> HIDE DEF c, one
    <3>2. c \in [1 .. one -> Nat] /\ c[one] = cost[k]
      BY <3>1
    <3>3. c \in Seq(Nat) /\ Len(c) = one
      BY <3>1, <3>2, FunctionSeq
    <3> QED
      BY <3>2, <3>3 DEF one
  <2> HIDE DEF e, f, c
  <2>4. \A i \in 1 .. 1 : i = 1
    OBVIOUS
  <2>5. c = f
    BY <2>1, <2>3, <2>4, SeqEqual
  <2> QED
    BY <2>5 DEF c, e, f
<1>2. Costs(cost, <<>>) = <<>>
  BY DEF Costs
<1>3. Total(<<cost[k]>>) = cost[k]
  BY TotalSmall
<1> QED
  BY <1>1, <1>2, <1>3, TotalSmall DEF CostOf

\* A list that has every key of a set, and each once.
ListsAll(keys, K) ==
    /\ keys \in Seq(K)
    /\ \A i, j \in 1 .. Len(keys) : keys[i] = keys[j] => i = j
    /\ \A k \in K : \E i \in 1 .. Len(keys) : keys[i] = k

\* It has as many entries as the set has elements.
LEMMA ListedOnce ==
    ASSUME NEW K, NEW keys, ListsAll(keys, K)
    PROVE  Range(keys) = K /\ Len(keys) = Cardinality(K) /\ Len(keys) \in Nat
<1> DEFINE n == Len(keys)
<1>1. keys \in Seq(K) /\ n \in Nat /\ keys \in [1 .. n -> K] /\ DOMAIN keys = 1 .. n
  BY LenProperties DEF ListsAll
<1>2. Range(keys) = K
  BY <1>1 DEF ListsAll, Range
<1>3. keys \in Bijection(1 .. n, K)
  BY <1>1 DEF ListsAll, Bijection, Injection, Surjection, IsInjective
<1>4. ExistsBijection(1 .. n, K)
  BY <1>3 DEF ExistsBijection
<1>5. IsFiniteSet(1 .. n) /\ Cardinality(1 .. n) = n
  <2>1. /\ 1 \in Int /\ n \in Int /\ (1 > n => n = 0) /\ (~(1 > n) => n - 1 + 1 = n)
    BY <1>1
  <2>2. IsFiniteSet(1 .. n) /\ Cardinality(1 .. n) = IF 1 > n THEN 0 ELSE n - 1 + 1
    <3> HIDE DEF n
    <3> QED
      BY <2>1, FS_Interval
  <2> QED
    BY <2>1, <2>2
<1>6. Cardinality(K) = n
  <2> HIDE DEF n
  <2> QED
    BY <1>4, <1>5, FS_Bijection
<1> QED
  BY <1>1, <1>2, <1>6

\* A key that moves to the front: the list still has them all, at the same cost.
LEMMA MovedToFront ==
    ASSUME NEW K, NEW keys, ListsAll(keys, K), NEW i \in 1 .. Len(keys), NEW cost \in [K -> Nat]
    PROVE  LET moved == <<keys[i]>> \o RemoveAt(keys, i)
           IN /\ ListsAll(moved, K) /\ Len(moved) = Len(keys)
              /\ CostOf(cost, moved) = CostOf(cost, keys)
<1> DEFINE n == Len(keys)
           m == i - 1
           x == <<keys[i]>>
           A == SubSeq(keys, 1, m)
           B == SubSeq(keys, i + 1, n)
           rest == A \o B
           moved == x \o rest
<1>1. /\ keys \in Seq(K) /\ n \in Nat /\ keys[i] \in K /\ i \in Nat /\ m \in Nat
      /\ m \in 0 .. n /\ m = i - 1 /\ 1 <= i /\ i <= n
  <2>1. keys \in Seq(K) /\ n \in Nat
    BY LenProperties DEF ListsAll
  <2>2. keys[i] \in K
    BY <2>1, ElementOfSeq
  <2> HIDE DEF n
  <2>3. i \in 1 .. n
    BY DEF n
  <2> QED
    BY <2>1, <2>2, <2>3
<1>2. x \in Seq(K) /\ Len(x) = 1 /\ x[1] = keys[i]
  BY <1>1
<1>3. A \in Seq(K) /\ Len(A) = m /\ \A j \in 1 .. m : A[j] = keys[j]
  <2> HIDE DEF m
  <2>1. /\ SubSeq(keys, 1, m) \in Seq(K) /\ Len(SubSeq(keys, 1, m)) = m
        /\ \A j \in 1 .. m : SubSeq(keys, 1, m)[j] = keys[j]
    BY <1>1
  <2> QED
    BY <2>1
<1>4. B \in Seq(K) /\ Len(B) = n - i /\ \A j \in 1 .. n - i : B[j] = keys[i + j]
  <2> DEFINE l == i + 1
  <2>1. l \in Nat /\ 1 <= l /\ l <= n + 1 /\ \A j \in 1 .. n - i : (l + j) - 1 = i + j
    BY <1>1
  <2>2. \A j \in l .. n : keys[j] \in K
    BY <1>1
  <2>3. (l <= n => n - l + 1 = n - i) /\ (~(l <= n) => n - i = 0) /\ n - l + 1 = n - i
    BY <1>1
  <2> HIDE DEF l, n
  <2>4. /\ SubSeq(keys, l, n) \in Seq(K)
        /\ Len(SubSeq(keys, l, n)) = IF l <= n THEN n - l + 1 ELSE 0
        /\ \A j \in 1 .. n - l + 1 : SubSeq(keys, l, n)[j] = keys[l + j - 1]
    BY <1>1, <2>1, <2>2, SubSeqProperties
  <2> QED
    BY <2>1, <2>3, <2>4 DEF l
<1> HIDE DEF x, A, B, m, n
<1>5. /\ rest \in Seq(K) /\ Len(rest) = m + (n - i)
      /\ \A j \in 1 .. m + (n - i) : rest[j] = IF j <= m THEN A[j] ELSE B[j - m]
  BY <1>3, <1>4, Joined
<1> HIDE DEF rest
<1>6. /\ moved \in Seq(K) /\ Len(moved) = 1 + (m + (n - i))
      /\ \A j \in 1 .. 1 + (m + (n - i)) : moved[j] = IF j <= 1 THEN x[j] ELSE rest[j - 1]
  <2> DEFINE one == 1
             k == m + (n - i)
  <2>1. Len(x) = one /\ Len(rest) = k
    BY <1>2, <1>5
  <2> HIDE DEF one, k
  <2>2. /\ moved \in Seq(K) /\ Len(moved) = one + k
        /\ \A j \in 1 .. one + k : moved[j] = IF j <= one THEN x[j] ELSE rest[j - one]
    BY <1>2, <1>5, <2>1, Joined, SMTT(20)
  <2> QED
    BY <2>2 DEF one, k
<1>7. 1 + (m + (n - i)) = n /\ m + (n - i) = n - 1
  BY <1>1
<1> HIDE DEF moved
<1>8. ASSUME NEW j \in 1 .. n
      PROVE  moved[j] = IF j = 1 THEN keys[i] ELSE IF j <= i THEN keys[j - 1] ELSE keys[j]
  <2>1. CASE j = 1
    BY <1>2, <1>6, <1>7, <2>1
  <2>2. CASE j # 1 /\ j <= i
    <3>1. j - 1 \in 1 .. m /\ j - 1 \in 1 .. n - 1 /\ j - 1 <= m /\ ~(j <= 1)
      BY <1>1, <2>2
    <3> QED
      BY <1>3, <1>5, <1>6, <1>7, <2>2, <3>1
  <2>3. CASE j # 1 /\ ~(j <= i)
    <3>1. /\ j - 1 \in 1 .. n - 1 /\ ~(j - 1 <= m) /\ (j - 1) - m \in 1 .. n - i
          /\ i + ((j - 1) - m) = j /\ ~(j <= 1)
      BY <1>1, <2>3
    <3>2. rest[j - 1] = B[(j - 1) - m]
      BY <1>5, <1>7, <3>1
    <3>3. B[(j - 1) - m] = keys[j]
      BY <1>4, <3>1
    <3> QED
      BY <1>6, <1>7, <2>3, <3>1, <3>2, <3>3
  <2> QED
    BY <2>1, <2>2, <2>3
<1> DEFINE from == [j \in 1 .. n |-> IF j = 1 THEN i ELSE IF j <= i THEN j - 1 ELSE j]
<1>9. \A j \in 1 .. n : from[j] \in 1 .. n /\ moved[j] = keys[from[j]]
  BY <1>1, <1>8
<1>10. \A j, k \in 1 .. n : from[j] = from[k] => j = k
  BY <1>1
<1>11. \A j \in 1 .. n : \E k \in 1 .. n : from[k] = j
  <2> TAKE j \in 1 .. n
  <2>1. CASE j = i
    <3>1. 1 \in 1 .. n /\ from[1] = j
      BY <1>1, <2>1
    <3> HIDE DEF from
    <3> QED
      BY <3>1
  <2>2. CASE j < i
    <3>1. j + 1 \in 1 .. n /\ from[j + 1] = j
      BY <1>1, <2>2
    <3> HIDE DEF from
    <3> QED
      BY <3>1
  <2>3. CASE j > i
    <3>1. from[j] = j
      BY <1>1, <2>3
    <3> HIDE DEF from
    <3> QED
      BY <3>1
  <2> QED
    BY <1>1, <2>1, <2>2, <2>3
<1> HIDE DEF from
<1>12. ListsAll(moved, K)
  <2>1. \A j, k \in 1 .. n : keys[j] = keys[k] => j = k
    BY DEF ListsAll, n
  <2>2. \A k \in K : \E j \in 1 .. n : keys[j] = k
    BY DEF ListsAll, n
  <2>3. Len(moved) = n
    BY <1>6, <1>7
  <2>4. \A j, k \in 1 .. n : moved[j] = moved[k] => j = k
    BY <1>9, <1>10, <2>1
  <2>5. \A k \in K : \E j \in 1 .. n : moved[j] = k
    <3> TAKE k \in K
    <3>1. PICK j \in 1 .. n : keys[j] = k
      BY <2>2
    <3>2. PICK l \in 1 .. n : from[l] = j
      BY <1>11
    <3>3. moved[l] = k
      BY <1>9, <3>1, <3>2
    <3> QED
      BY <3>3
  <2>6. moved \in Seq(K)
    BY <1>6
  <2>7. /\ \A j, k \in 1 .. Len(moved) : moved[j] = moved[k] => j = k
        /\ \A k \in K : \E j \in 1 .. Len(moved) : moved[j] = k
    BY <2>3, <2>4, <2>5
  <2> DEFINE s == moved
  <2>8. s = moved
    OBVIOUS
  <2> HIDE DEF s
  <2>9. ListsAll(s, K)
    BY <2>6, <2>7, <2>8 DEF ListsAll
  <2> QED
    BY <2>8, <2>9
<1>13. CostOf(cost, moved) = CostOf(cost, x) + (CostOf(cost, A) + CostOf(cost, B))
  <2>1. rest \in Seq(K)
    BY <1>5
  <2>2. CostOf(cost, x \o rest) = CostOf(cost, x) + CostOf(cost, rest)
    BY <1>2, <2>1, CostsConcat
  <2>3. CostOf(cost, A \o B) = CostOf(cost, A) + CostOf(cost, B)
    BY <1>3, <1>4, CostsConcat
  <2> QED
    BY <2>2, <2>3 DEF moved, rest
<1>14. keys = A \o (x \o B)
  <2>1. x \o B = SubSeq(keys, i, n)
    <3>1. i \in 1 .. Len(keys) /\ n \in i .. Len(keys)
      BY <1>1 DEF n
    <3>2. SubSeq(keys, i, n) = <<keys[i]>> \o SubSeq(keys, i + 1, n)
      BY <1>1, <3>1, SubSeqRecursiveFirst
    <3> QED
      BY <3>2 DEF x, B
  <2>2. SubSeq(keys, 1, m) \o SubSeq(keys, m + 1, n) = SubSeq(keys, 1, n)
    <3>1. 1 \in 1 .. Len(keys) + 1 /\ m \in 1 - 1 .. Len(keys) /\ n \in m .. Len(keys)
      BY <1>1 DEF n
    <3> QED
      BY <1>1, <3>1, ConcatAdjacentSubSeq
  <2>3. SubSeq(keys, 1, n) = keys
    BY <1>1, SubSeqFull DEF n
  <2>4. m + 1 = i
    BY <1>1
  <2> QED
    BY <2>1, <2>2, <2>3, <2>4 DEF A
<1>15. CostOf(cost, keys) = CostOf(cost, A) + (CostOf(cost, x) + CostOf(cost, B))
  <2>1. x \o B \in Seq(K)
    BY <1>2, <1>4, ConcatProperties
  <2>2. CostOf(cost, x \o B) = CostOf(cost, x) + CostOf(cost, B)
    BY <1>2, <1>4, CostsConcat
  <2> QED
    BY <1>3, <1>14, <2>1, <2>2, CostsConcat, ZenonT(30)
<1>16. CostOf(cost, A) \in Nat /\ CostOf(cost, B) \in Nat /\ CostOf(cost, x) \in Nat
  BY <1>2, <1>3, <1>4, CostsConcat
<1>17. CostOf(cost, moved) = CostOf(cost, keys)
  <2> DEFINE a == CostOf(cost, A)
             b == CostOf(cost, B)
             c == CostOf(cost, x)
  <2> HIDE DEF a, b, c
  <2> QED
    BY <1>13, <1>15, <1>16 DEF a, b, c
<1>18. moved = <<keys[i]>> \o RemoveAt(keys, i)
  BY DEF moved, rest, x, A, B, m, n, RemoveAt
<1> QED
  BY <1>6, <1>7, <1>12, <1>17, <1>18 DEF n

\* The first entries of a list stay, a new key comes before them, the others go:
\* what stays and what goes cost together what all did.
PutBefore(K, keys, key, cost, stay, gone) ==
    /\ ListsAll(<<key>> \o stay, Range(stay) \cup {key})
    /\ Len(<<key>> \o stay) = 1 + Len(stay)
    /\ stay \in Seq(K) /\ gone \in Seq(K) /\ Range(stay) \subseteq K
    /\ CostOf(cost, keys) = CostOf(cost, stay) + CostOf(cost, gone)
    /\ CostOf(cost, stay) \in Nat /\ CostOf(cost, gone) \in Nat

LEMMA PutInFront ==
    ASSUME NEW K, NEW keys, ListsAll(keys, K), NEW m \in 0 .. Len(keys), NEW key, key \notin K,
           NEW cost \in [K -> Nat]
    PROVE  /\ PutBefore(K, keys, key, cost, SubSeq(keys, 1, m), SubSeq(keys, m + 1, Len(keys)))
           /\ Len(SubSeq(keys, 1, m)) = m
<1> DEFINE n == Len(keys)
           stay == SubSeq(keys, 1, m)
           gone == SubSeq(keys, m + 1, n)
           R == Range(stay)
           L == R \cup {key}
           x == <<key>>
           new == x \o stay
<1>1. keys \in Seq(K) /\ n \in Nat /\ m \in Nat /\ m <= n
  BY LenProperties DEF ListsAll
<1>2. stay \in Seq(K) /\ Len(stay) = m /\ \A j \in 1 .. m : stay[j] = keys[j] /\ stay[j] \in K
  <2>1. stay \in Seq(K) /\ Len(stay) = m /\ \A j \in 1 .. m : stay[j] = keys[j]
    BY <1>1
  <2>2. \A j \in 1 .. m : j \in 1 .. Len(keys)
    BY <1>1
  <2>3. \A j \in 1 .. m : keys[j] \in K
    BY <1>1, <2>2, ElementOfSeq
  <2> QED
    BY <2>1, <2>3
<1>3. gone \in Seq(K)
  <2> DEFINE l == m + 1
  <2>1. l \in Nat /\ 1 <= l /\ l <= n + 1
    BY <1>1
  <2>2. \A j \in l .. n : keys[j] \in K
    <3>1. \A j \in l .. n : j \in 1 .. Len(keys)
      BY <1>1
    <3> QED
      BY <1>1, <3>1, ElementOfSeq
  <2> HIDE DEF l, n
  <2>3. SubSeq(keys, l, n) \in Seq(K)
    BY <1>1, <2>1, <2>2, SubSeqProperties
  <2> QED
    BY <2>3 DEF l
<1>4. R \subseteq K /\ \A j \in 1 .. m : stay[j] \in R
  <2>1. DOMAIN stay = 1 .. m
    BY <1>2
  <2> QED
    BY <1>2, <2>1 DEF Range
<1>5. \A k \in R : \E j \in 1 .. m : stay[j] = k
  <2>1. DOMAIN stay = 1 .. m
    BY <1>2
  <2> QED
    BY <2>1 DEF Range
<1>6. keys = stay \o gone
  <2>1. 1 \in 1 .. Len(keys) + 1 /\ m \in 1 - 1 .. Len(keys) /\ n \in m .. Len(keys)
    BY <1>1 DEF n
  <2>2. SubSeq(keys, 1, m) \o SubSeq(keys, m + 1, n) = SubSeq(keys, 1, n)
    BY <1>1, <2>1, ConcatAdjacentSubSeq
  <2>3. SubSeq(keys, 1, n) = keys
    BY <1>1, SubSeqFull DEF n
  <2> QED
    BY <2>2, <2>3
<1> HIDE DEF stay, gone, R
<1>7. /\ CostOf(cost, keys) = CostOf(cost, stay) + CostOf(cost, gone)
      /\ CostOf(cost, stay) \in Nat /\ CostOf(cost, gone) \in Nat
  BY <1>2, <1>3, <1>6, CostsConcat
<1>8. /\ new \in Seq(L) /\ Len(new) = 1 + m /\ new[1] = key
      /\ \A j \in 1 .. m : new[1 + j] = stay[j]
  <2> DEFINE one == 1
  <2>1. x \in Seq(L) /\ Len(x) = one /\ x[1] = key
    OBVIOUS
  <2>2. stay \in Seq(L)
    <3>1. stay \in [1 .. m -> L]
      <4>1. \A j \in 1 .. m : stay[j] \in L
        BY <1>4
      <4>2. stay = [j \in 1 .. m |-> stay[j]]
        BY <1>2
      <4> HIDE DEF L
      <4> QED
        BY <4>1, <4>2
    <3> HIDE DEF L
    <3> QED
      BY <1>1, <3>1, FunctionSeq
  <2> HIDE DEF L, one, x
  <2>3. /\ new \in Seq(L) /\ Len(new) = one + m
        /\ \A j \in 1 .. one + m : new[j] = IF j <= one THEN x[j] ELSE stay[j - one]
    BY <1>2, <2>1, <2>2, Joined, SMTT(20)
  <2>4. /\ 1 \in 1 .. one + m /\ 1 <= one
        /\ \A j \in 1 .. m : 1 + j \in 1 .. one + m /\ ~(1 + j <= one) /\ (1 + j) - one = j
    BY <1>1 DEF one
  <2> HIDE DEF new
  <2>5. new[1] = x[1] /\ \A j \in 1 .. m : new[1 + j] = stay[j]
    BY <2>3, <2>4
  <2> QED
    BY <2>1, <2>3, <2>5 DEF one
<1> HIDE DEF new
<1>9. \A j \in 1 .. 1 + m : j = 1 \/ (j - 1 \in 1 .. m /\ new[j] = stay[j - 1])
  <2> TAKE j \in 1 .. 1 + m
  <2>1. CASE j = 1
    BY <2>1
  <2>2. CASE j # 1
    <3>1. j - 1 \in 1 .. m /\ 1 + (j - 1) = j
      BY <1>1, <2>2
    <3> QED
      BY <1>8, <3>1
  <2> QED
    BY <2>1, <2>2
<1>10. ASSUME NEW i \in 1 .. 1 + m, NEW j \in 1 .. 1 + m, new[i] = new[j] PROVE i = j
  <2>1. \A a \in 1 .. m : stay[a] # key
    BY <1>2
  <2>2. CASE i = 1 \/ j = 1
    <3>1. i = 1 /\ j = 1
      BY <1>8, <1>9, <1>10, <2>1, <2>2
    <3> QED
      BY <3>1
  <2>3. CASE i # 1 /\ j # 1
    <3>1. /\ i - 1 \in 1 .. m /\ new[i] = stay[i - 1]
          /\ j - 1 \in 1 .. m /\ new[j] = stay[j - 1]
      BY <1>9, <2>3
    <3>2. keys[i - 1] = keys[j - 1]
      BY <1>2, <1>10, <3>1
    <3>3. i - 1 \in 1 .. Len(keys) /\ j - 1 \in 1 .. Len(keys)
      BY <1>1, <3>1
    <3>4. i - 1 = j - 1
      BY <3>2, <3>3 DEF ListsAll
    <3> QED
      BY <1>1, <3>4
  <2> QED
    BY <2>2, <2>3
<1>11. ASSUME NEW k \in L PROVE \E j \in 1 .. 1 + m : new[j] = k
  <2>1. CASE k = key
    <3>1. 1 \in 1 .. 1 + m
      BY <1>1
    <3> QED
      BY <1>8, <2>1, <3>1
  <2>2. CASE k # key
    <3>1. PICK j \in 1 .. m : stay[j] = k
      BY <1>5, <2>2
    <3>2. 1 + j \in 1 .. 1 + m
      BY <1>1
    <3> QED
      BY <1>8, <3>1, <3>2
  <2> QED
    BY <2>1, <2>2
<1>12. ListsAll(new, L)
  <2>1. /\ \A i, j \in 1 .. Len(new) : new[i] = new[j] => i = j
        /\ \A k \in L : \E j \in 1 .. Len(new) : new[j] = k
    <3> HIDE DEF L
    <3> QED
      BY <1>8, <1>10, <1>11
  <2> HIDE DEF L
  <2> QED
    BY <1>8, <2>1 DEF ListsAll
<1> QED
  BY <1>2, <1>3, <1>4, <1>7, <1>8, <1>12 DEF PutBefore, new, stay, gone, R, n

\* What the same keys cost does not depend on other keys.
LEMMA SameCosts ==
    ASSUME NEW K, NEW keys \in Seq(K), NEW cost, NEW other, \A k \in Range(keys) : cost[k] = other[k]
    PROVE  CostOf(cost, keys) = CostOf(other, keys)
<1>1. \A i \in 1 .. Len(keys) : keys[i] \in Range(keys)
  BY DEF Range
<1>2. Costs(cost, keys) = Costs(other, keys)
  BY <1>1 DEF Costs
<1> QED
  BY <1>2 DEF CostOf

-----------------------------------------------------------------------------
(* What is drawn of a row                                                   *)

\* Ink has a length.
Inks(color) == [char : Characters, right : BOOLEAN, color : {0, color}]

LEMMA InkType ==
    ASSUME NEW char \in Characters, NEW right \in BOOLEAN, NEW color
    PROVE  Ink(char, right, color) \in Inks(color)
<1>1. [char |-> char, right |-> right, color |-> color] \in Inks(color)
  BY Zenon DEF Inks
<1>2. NoInk \in Inks(color)
  BY SpaceText, Zenon DEF NoInk, Inks
<1> QED
  BY <1>1, <1>2 DEF Ink

\* Runs, or spans of them, that have the text and the style of their cells.
Drawable(row) == {run \in Runs : Covers(row.cells, run) /\ RightOf(run) <= RowColumns}

LEMMA SplitDrawable ==
    ASSUME NEW row, NEW pieces, NEW from, NEW to \in Nat, Split(row.cells, pieces, from, to),
           to <= RowColumns
    PROVE  pieces \in Seq(Drawable(row))
<1> DEFINE n == Len(pieces)
           D == Drawable(row)
<1>1. pieces \in Seq(Runs) /\ n \in Nat /\ pieces = [i \in 1 .. n |-> pieces[i]]
  BY LenProperties DEF Split
<1>2. ASSUME NEW i \in 1 .. n PROVE pieces[i] \in D
  <2>1. /\ pieces[i] \in Runs /\ Covers(row.cells, pieces[i]) /\ RightOf(pieces[i]) <= to
    BY <1>1, ElementOfSeq DEF Split
  <2>2. RightOf(pieces[i]) \in Nat
    BY <2>1, RunTypes
  <2>3. RightOf(pieces[i]) <= RowColumns
    BY <2>1, <2>2, SizeAssumption
  <2> QED
    BY <2>1, <2>3 DEF Drawable
<1> HIDE DEF n, D
<1>3. pieces \in [1 .. n -> D]
  BY <1>1, <1>2
<1> QED
  BY <1>1, <1>3, FunctionSeq DEF D

-----------------------------------------------------------------------------
(* The ink of a text                                                        *)

\* One column for a character, or two.
CharInk(char, color) ==
    <<Ink(char, FALSE, color)>>
        \o (IF char \in WideCharacters THEN <<Ink(char, TRUE, color)>> ELSE <<>>)

LEMMA CharInkType ==
    ASSUME NEW char \in Characters, NEW color
    PROVE  /\ CharInk(char, color) \in Seq(Inks(color))
           /\ Len(CharInk(char, color)) = IF char \in WideCharacters THEN 2 ELSE 1
           /\ CharInk(char, color)[1] = Ink(char, FALSE, color)
           /\ char \in WideCharacters => CharInk(char, color)[2] = Ink(char, TRUE, color)
<1> DEFINE I == Inks(color)
           here == Ink(char, FALSE, color)
           right == Ink(char, TRUE, color)
           first == <<here>>
           rest == IF char \in WideCharacters THEN <<right>> ELSE <<>>
<1>1. here \in I /\ right \in I
  BY InkType
<1>2. CharInk(char, color) = first \o rest
  BY DEF CharInk
<1> HIDE DEF I, here, right
<1>3. /\ first \in Seq(I) /\ Len(first) = 1 /\ first[1] = here
      /\ rest \in Seq(I) /\ Len(rest) = (IF char \in WideCharacters THEN 1 ELSE 0)
      /\ char \in WideCharacters => rest[1] = right
  BY <1>1
<1> HIDE DEF first, rest
<1>4. Len(first) \in Nat /\ Len(rest) \in Nat
  BY <1>3
<1>5. /\ first \o rest \in Seq(I) /\ Len(first \o rest) = Len(first) + Len(rest)
      /\ \A i \in 1 .. Len(first) + Len(rest) :
             (first \o rest)[i] = IF i <= Len(first) THEN first[i] ELSE rest[i - Len(first)]
  BY <1>3, ConcatProperties
<1> DEFINE both == first \o rest
           n == Len(rest)
<1>6. /\ both \in Seq(I) /\ Len(both) = 1 + n
      /\ \A i \in 1 .. 1 + n : both[i] = IF i <= 1 THEN first[i] ELSE rest[i - 1]
      /\ n = IF char \in WideCharacters THEN 1 ELSE 0
  BY <1>3, <1>5
<1> HIDE DEF both, n
<1>7. both[1] = first[1] /\ (char \in WideCharacters => both[2] = rest[1])
      /\ Len(both) = IF char \in WideCharacters THEN 2 ELSE 1
  BY <1>6
<1> QED
  BY <1>2, <1>3, <1>6, <1>7 DEF both, I, here, right

\* What InkOf computes character by character.
InkSteps(f, text, color) ==
    /\ f \in [0 .. Len(text) -> Seq(Inks(color))]
    /\ f[0] = <<>>
    /\ \A i \in 1 .. Len(text) : f[i] = f[i - 1] \o CharInk(text[i], color)
    /\ InkOf(text, color) = f[Len(text)]

LEMMA InkFunction ==
    ASSUME NEW text \in Texts, NEW color
    PROVE  \E f : InkSteps(f, text, color)
<1> DEFINE n == Len(text)
           V == Seq(Inks(color))
           none == <<>>
           cells(char) == <<Ink(char, FALSE, color)>>
                              \o (IF char \in WideCharacters THEN <<Ink(char, TRUE, color)>>
                                  ELSE <<>>)
           ink[i \in 0 .. Len(text)] ==
               IF i = 0 THEN <<>> ELSE ink[i - 1] \o cells(text[i])
           step == [x \in (1 .. n) \X V |-> x[2] \o CharInk(text[x[1]], color)]
<1>1. n \in Nat /\ none \in V
  BY LenProperties DEF Texts
<1>2. ASSUME NEW i \in 1 .. n PROVE CharInk(text[i], color) \in V
  <2>1. text[i] \in Characters
    BY ElementOfSeq DEF Texts
  <2> QED
    BY <2>1, CharInkType
<1>3. ASSUME NEW x \in (1 .. n) \X V PROVE x[2] \o CharInk(text[x[1]], color) \in V
  <2> DEFINE i == x[1]
             t == x[2]
             more == CharInk(text[i], color)
             I == Inks(color)
  <2>1. i \in 1 .. n /\ t \in Seq(I)
    OBVIOUS
  <2>2. more \in Seq(I)
    BY <1>2, <2>1
  <2> HIDE DEF i, t, more, I
  <2>3. t \o more \in Seq(I)
    BY <2>1, <2>2, ConcatProperties
  <2> QED
    BY <2>3 DEF i, t, more, I
<1>4. InkOf(text, color) = ink[n]
  BY DEF InkOf
<1>5. \A char : cells(char) = CharInk(char, color)
  BY DEF CharInk
<1> HIDE DEF cells, V
<1>6. step \in Steps(n, V)
      /\ \A i \in 1 .. n, t \in V : step[<<i, t>>] = t \o CharInk(text[i], color)
  BY <1>3 DEF Steps
<1> HIDE DEF step, none
<1>7. PICK f : Recursive(f, n, V, none, step)
  <2> HIDE DEF n
  <2> QED
    BY <1>1, <1>6, Recursion
<1>8. f \in [0 .. n -> V] /\ f[0] = none
      /\ \A i \in 1 .. n : f[i] = f[i - 1] \o CharInk(text[i], color)
  <2>1. f \in [0 .. n -> V] /\ f[0] = none /\ \A i \in 1 .. n : f[i] = step[<<i, f[i - 1]>>]
    BY <1>7 DEF Recursive
  <2>2. \A i \in 1 .. n : i - 1 \in 0 .. n
    OBVIOUS
  <2> HIDE DEF n
  <2> QED
    BY <1>6, <2>1, <2>2
<1>9. ink = [i \in 0 .. n |-> IF i = 0 THEN none ELSE ink[i - 1] \o cells(text[i])]
  <2>1. \A i \in 0 .. n : f[i] = IF i = 0 THEN none ELSE f[i - 1] \o cells(text[i])
    BY <1>1, <1>5, <1>8
  <2>2. f = [i \in 0 .. n |-> IF i = 0 THEN none ELSE f[i - 1] \o cells(text[i])]
    BY <1>8, <2>1
  <2> QED
    BY <2>2 DEF none
<1> HIDE DEF ink, n
<1>10. /\ ink[0] = none /\ DOMAIN ink = 0 .. n /\ ink = [i \in 0 .. n |-> ink[i]]
       /\ \A i \in 1 .. n : ink[i] = ink[i - 1] \o CharInk(text[i], color)
  BY <1>1, <1>5, <1>9
<1> DEFINE S == {i \in Nat : i <= n => ink[i] = f[i]}
<1>11. 0 \in S
  BY <1>8, <1>10
<1>12. ASSUME NEW i \in Nat, i \in S PROVE i + 1 \in S
  <2> SUFFICES ASSUME i + 1 <= n PROVE ink[i + 1] = f[i + 1]
    OBVIOUS
  <2>1. i + 1 \in 1 .. n /\ (i + 1) - 1 = i /\ i <= n
    BY <1>1
  <2> QED
    BY <1>8, <1>10, <1>12, <2>1
<1>13. ink[n] = f[n]
  <2>1. Nat \subseteq S
    <3> HIDE DEF S
    <3> QED
      BY <1>11, <1>12, Induction
  <2> QED
    BY <1>1, <2>1
<1>14. InkSteps(f, text, color)
  BY <1>4, <1>8, <1>13 DEF InkSteps, V, none, n
<1> QED
  BY <1>14

LEMMA InkOfType ==
    ASSUME NEW text \in Texts, NEW color
    PROVE  InkOf(text, color) \in Seq(Inks(color))
<1>1. PICK f : InkSteps(f, text, color)
  BY InkFunction
<1>2. Len(text) \in Nat
  BY LenProperties DEF Texts
<1> QED
  BY <1>1, <1>2 DEF InkSteps

LEMMA InkConcat ==
    ASSUME NEW s \in Texts, NEW t \in Texts, NEW color
    PROVE  InkOf(s \o t, color) = InkOf(s, color) \o InkOf(t, color)
<1> DEFINE m == Len(s)
           n == Len(t)
           u == s \o t
           I == Inks(color)
           more(char) == CharInk(char, color)
<1>1. /\ m \in Nat /\ n \in Nat /\ u \in Texts /\ Len(u) = m + n
      /\ \A i \in 1 .. m : u[i] = s[i]
      /\ \A i \in 1 .. n : u[m + i] = t[i]
  BY JoinedText
<1>2. PICK f : InkSteps(f, s, color)
  BY InkFunction
<1>3. PICK g : InkSteps(g, t, color)
  BY InkFunction
<1>4. PICK h : InkSteps(h, u, color)
  <2> HIDE DEF u
  <2> QED
    BY <1>1, InkFunction
<1>5. /\ f \in [0 .. m -> Seq(I)] /\ f[0] = <<>> /\ \A i \in 1 .. m : f[i] = f[i - 1] \o more(s[i])
      /\ g \in [0 .. n -> Seq(I)] /\ g[0] = <<>> /\ \A i \in 1 .. n : g[i] = g[i - 1] \o more(t[i])
      /\ h[0] = <<>> /\ \A i \in 1 .. m + n : h[i] = h[i - 1] \o more(u[i])
      /\ InkOf(s, color) = f[m] /\ InkOf(t, color) = g[n] /\ InkOf(u, color) = h[m + n]
  BY <1>1, <1>2, <1>3, <1>4 DEF InkSteps
<1>6. \A i \in 1 .. n : more(t[i]) \in Seq(I)
  <2>1. \A i \in 1 .. n : t[i] \in Characters
    BY ElementOfSeq DEF Texts
  <2> QED
    BY <2>1, CharInkType
<1> HIDE DEF m, n, u, I, more
<1> DEFINE S == {i \in Nat : i <= m => h[i] = f[i]}
<1>7. 0 \in S
  BY <1>5
<1>8. ASSUME NEW i \in Nat, i \in S PROVE i + 1 \in S
  <2> SUFFICES ASSUME i + 1 <= m PROVE h[i + 1] = f[i + 1]
    OBVIOUS
  <2>1. i <= m /\ i + 1 \in 1 .. m /\ i + 1 \in 1 .. m + n /\ (i + 1) - 1 = i
    BY <1>1
  <2>2. h[i] = f[i]
    BY <1>8, <2>1
  <2>3. h[i + 1] = h[i] \o more(u[i + 1]) /\ f[i + 1] = f[i] \o more(s[i + 1])
    BY <1>5, <2>1
  <2> QED
    BY <1>1, <2>1, <2>2, <2>3
<1>9. h[m] = f[m]
  <2>1. Nat \subseteq S
    <3> HIDE DEF S
    <3> QED
      BY <1>7, <1>8, Induction
  <2> QED
    BY <1>1, <2>1
<1> DEFINE fm == f[m]
           U == {i \in Nat : i <= n => h[m + i] = fm \o g[i]}
<1>10. fm \in Seq(I) /\ \A i \in 0 .. n : g[i] \in Seq(I)
  BY <1>1, <1>5
<1>11. 0 \in U
  <2>1. m + 0 = m
    BY <1>1
  <2> HIDE DEF fm
  <2>2. fm \o <<>> = fm
    BY <1>10, ConcatEmptySeq
  <2> QED
    BY <1>5, <1>9, <2>1, <2>2 DEF fm
<1> HIDE DEF fm
<1>12. ASSUME NEW i \in Nat, i \in U PROVE i + 1 \in U
  <2> SUFFICES ASSUME i + 1 <= n PROVE h[m + (i + 1)] = fm \o g[i + 1]
    OBVIOUS
  <2>1. /\ i <= n /\ i + 1 \in 1 .. n /\ m + (i + 1) \in 1 .. m + n /\ (i + 1) - 1 = i
        /\ (m + (i + 1)) - 1 = m + i /\ i \in 0 .. n
    BY <1>1
  <2>2. h[m + i] = fm \o g[i]
    BY <1>12, <2>1
  <2> DEFINE x == more(t[i + 1])
             y == g[i]
  <2>3. h[m + (i + 1)] = h[m + i] \o x /\ g[i + 1] = y \o x
    BY <1>1, <1>5, <2>1
  <2>4. x \in Seq(I) /\ y \in Seq(I)
    BY <1>6, <1>10, <2>1
  <2> HIDE DEF x, y
  <2>5. (fm \o y) \o x = fm \o (y \o x)
    BY <1>10, <2>4, ConcatAssociative
  <2> QED
    BY <2>2, <2>3, <2>5 DEF y
<1>13. h[m + n] = fm \o g[n]
  <2>1. Nat \subseteq U
    <3> HIDE DEF U
    <3> QED
      BY <1>11, <1>12, Induction
  <2> QED
    BY <1>1, <2>1
<1> QED
  BY <1>5, <1>13 DEF u, fm

LEMMA InkSmall ==
    ASSUME NEW color
    PROVE  /\ InkOf(<<>>, color) = <<>>
           /\ \A char \in Characters : InkOf(<<char>>, color) = CharInk(char, color)
<1>1. InkOf(<<>>, color) = <<>>
  <2> DEFINE e == <<>>
  <2>1. e \in Texts /\ Len(e) = 0
    BY DEF Texts
  <2> HIDE DEF e
  <2>2. InkOf(e, color) = <<>>
    <3>1. PICK f : InkSteps(f, e, color)
      BY <2>1, InkFunction
    <3> QED
      BY <2>1, <3>1 DEF InkSteps
  <2> QED
    BY <2>2 DEF e
<1>2. ASSUME NEW char \in Characters PROVE InkOf(<<char>>, color) = CharInk(char, color)
  <2> DEFINE e == <<char>>
             more == CharInk(char, color)
  <2>1. e \in Texts /\ Len(e) = 1 /\ e[1] = char
    BY DEF Texts
  <2>2. more \in Seq(Inks(color))
    BY CharInkType
  <2> HIDE DEF e
  <2>3. InkOf(e, color) = <<>> \o more
    <3>1. PICK f : InkSteps(f, e, color)
      BY <2>1, InkFunction
    <3>2. 1 \in 1 .. 1 /\ 1 - 1 = 0
      OBVIOUS
    <3> QED
      BY <2>1, <3>1, <3>2 DEF InkSteps
  <2> HIDE DEF more
  <2>4. <<>> \o more = more
    BY <2>2, ConcatEmptySeq
  <2> QED
    BY <2>3, <2>4 DEF e, more
<1> QED
  BY <1>1, <1>2

-----------------------------------------------------------------------------
(* The ink of a run                                                         *)

\* A row whose cells have characters of their width, and whole wide ones.
LaidOut(row) ==
    \A c \in RowPositions :
        /\ IF row.cells[c].width = 0
           THEN /\ CellText(row, c) = <<>>
                /\ c > 0 /\ row.cells[c - 1].width = 2
           ELSE \E char \in Characters :
                    /\ CellText(row, c) = <<char>>
                    /\ char \in WideCharacters <=> row.cells[c].width = 2
        /\ row.cells[c].width = 2 => c + 1 \in RowPositions /\ row.cells[c + 1].width = 0

\* A run that neither begins nor ends within a wide character.
Whole(row, run) ==
    /\ row.cells[run.left].width # 0
    /\ RightOf(run) < RowColumns => row.cells[RightOf(run)].width # 0

\* The ink a column has when the row is painted.
RowInk(row, c) ==
    LET cell == row.cells[c]
        whole == IF cell.width = 0 THEN c - 1 ELSE c
        color == RowStyles[row.cells[whole].style].foreground
    IN Ink(CellText(row, whole)[1], cell.width = 0, color)

\* The ink of some cells of one style, which ends with the right half of the
\* last character, though that is the next cell's.
PartInk(row, left, k, ink) ==
    LET n == IF left + k < RowColumns /\ row.cells[left + k].width = 0 THEN k + 1 ELSE k
    IN /\ Len(ink) = n
       /\ \A j \in 1 .. n : ink[j] = RowInk(row, left + j - 1)

LEMMA OneMoreCell ==
    ASSUME NEW row, LaidOut(row), NEW left \in Nat, NEW k \in Nat, left + k < RowColumns,
           NEW color, color = RowStyles[row.cells[left + k].style].foreground,
           NEW ink \in Seq(Inks(color)), PartInk(row, left, k, ink)
    PROVE  PartInk(row, left, k + 1, ink \o InkOf(CellText(row, left + k), color))
<1> DEFINE c == left + k
           text == CellText(row, c)
           more == InkOf(text, color)
           w(d) == row.cells[d].width
           out == ink \o more
<1>1. RowColumns \in Nat /\ RowPositions = 0 .. RowColumns - 1
  BY SizeAssumption DEF RowPositions
<1>2. c \in RowPositions /\ c \in Nat /\ left + (k + 1) = c + 1 /\ left + (k + 1) - 1 = c
  BY <1>1
<1> DEFINE n == IF c < RowColumns /\ w(c) = 0 THEN k + 1 ELSE k
<1>3. /\ n \in Nat /\ Len(ink) = n /\ Len(ink) \in Nat
      /\ \A j \in 1 .. n : ink[j] = RowInk(row, left + j - 1)
  BY DEF PartInk
<1>4. SUFFICES LET m == IF c + 1 < RowColumns /\ w(c + 1) = 0 THEN (k + 1) + 1 ELSE k + 1
               IN /\ Len(out) = m
                  /\ \A j \in 1 .. m : out[j] = RowInk(row, left + j - 1)
  BY <1>2 DEF PartInk
<1>5. CASE w(c) = 0
  <2>1. text = <<>> /\ c > 0 /\ w(c - 1) = 2
    BY <1>2, <1>5 DEF LaidOut
  <2>2. more = <<>>
    BY <2>1, InkSmall
  <2>3. out = ink
    <3> HIDE DEF more
    <3> QED
      BY <2>2, ConcatEmptySeq
  <2>4. ~(c + 1 < RowColumns /\ w(c + 1) = 0)
    <3> SUFFICES ASSUME c + 1 < RowColumns, w(c + 1) = 0 PROVE FALSE
      OBVIOUS
    <3>1. c + 1 \in RowPositions /\ (c + 1) - 1 = c
      BY <1>1, <1>2
    <3>2. w((c + 1) - 1) = 2
      BY <3>1 DEF LaidOut
    <3> QED
      BY <1>5, <3>1, <3>2
  <2>5. n = k + 1
    BY <1>5
  <2> HIDE DEF out, w, c, n
  <2> QED
    BY <1>3, <2>3, <2>4, <2>5
<1>6. CASE w(c) # 0
  <2>1. PICK char \in Characters : text = <<char>> /\ (char \in WideCharacters <=> w(c) = 2)
    BY <1>2, <1>6 DEF LaidOut
  <2>2. more = CharInk(char, color)
    BY <2>1, InkSmall
  <2>3. /\ more \in Seq(Inks(color))
        /\ Len(more) = IF char \in WideCharacters THEN 2 ELSE 1
        /\ more[1] = Ink(char, FALSE, color)
        /\ char \in WideCharacters => more[2] = Ink(char, TRUE, color)
    BY <2>2, CharInkType
  <2>4. n = k
    BY <1>6
  <2>5. text[1] = char
    BY <2>1
  <2>6. RowInk(row, c) = Ink(char, FALSE, color)
    <3>1. (row.cells[c].width = 0) = FALSE
      BY <1>6
    <3>2. RowInk(row, c) = Ink(CellText(row, c)[1], row.cells[c].width = 0,
                               RowStyles[row.cells[c].style].foreground)
      BY <1>6 DEF RowInk
    <3> HIDE DEF c
    <3> QED
      BY <2>5, <3>1, <3>2 DEF c
  <2>7. CASE w(c) = 2
    <3>1. c + 1 \in RowPositions /\ w(c + 1) = 0 /\ c + 1 < RowColumns /\ (c + 1) - 1 = c
      BY <1>1, <1>2, <2>7 DEF LaidOut
    <3>2. RowInk(row, c + 1) = Ink(char, TRUE, color)
      <4>1. (row.cells[c + 1].width = 0) = TRUE
        BY <3>1
      <4>2. RowInk(row, c + 1) = Ink(CellText(row, c)[1], row.cells[c + 1].width = 0,
                                     RowStyles[row.cells[c].style].foreground)
        BY <3>1 DEF RowInk
      <4> HIDE DEF c
      <4> QED
        BY <2>5, <4>1, <4>2 DEF c
    <3>3. Len(more) = 2 /\ more[1] = RowInk(row, c) /\ more[2] = RowInk(row, c + 1)
      BY <2>1, <2>3, <2>6, <2>7, <3>2
    <3>4. /\ Len(out) = k + 2
          /\ \A j \in 1 .. k + 2 : out[j] = IF j <= k THEN ink[j] ELSE more[j - k]
      <4> DEFINE I == Inks(color)
                 a == Len(ink)
                 b == Len(more)
      <4>1. ink \in Seq(I) /\ more \in Seq(I) /\ a = k /\ b = 2
        BY <1>3, <2>3, <2>4, <3>3
      <4> HIDE DEF I, more
      <4>2. /\ Len(ink \o more) = a + b
            /\ \A j \in 1 .. a + b : (ink \o more)[j] = IF j <= a THEN ink[j] ELSE more[j - a]
        BY <4>1, ConcatProperties
      <4> HIDE DEF a, b
      <4> QED
        BY <4>1, <4>2
    <3>5. ASSUME NEW j \in 1 .. k + 2 PROVE out[j] = RowInk(row, left + j - 1)
      <4>1. j <= k \/ j = k + 1 \/ j = k + 2
        OBVIOUS
      <4>2. CASE j <= k
        BY <1>3, <2>4, <3>4, <4>2
      <4>3. CASE j = k + 1
        <5>1. ~(j <= k) /\ j - k = 1 /\ left + j - 1 = c
          BY <4>3
        <5> HIDE DEF out, more, c
        <5> QED
          BY <3>3, <3>4, <5>1
      <4>4. CASE j = k + 2
        <5>1. ~(j <= k) /\ j - k = 2 /\ left + j - 1 = c + 1
          BY <4>4
        <5> HIDE DEF out, more, c
        <5> QED
          BY <3>3, <3>4, <5>1
      <4> QED
        BY <4>1, <4>2, <4>3, <4>4
    <3> HIDE DEF out, more, w, c
    <3> QED
      BY <3>1, <3>4, <3>5
  <2>8. CASE w(c) # 2
    <3>1. ~(c + 1 < RowColumns /\ w(c + 1) = 0)
      <4> SUFFICES ASSUME c + 1 < RowColumns, w(c + 1) = 0 PROVE FALSE
        OBVIOUS
      <4>1. c + 1 \in RowPositions /\ (c + 1) - 1 = c
        BY <1>1, <1>2
      <4>2. w((c + 1) - 1) = 2
        BY <4>1 DEF LaidOut
      <4> QED
        BY <2>8, <4>1, <4>2
    <3>2. Len(more) = 1 /\ more[1] = RowInk(row, c)
      BY <2>1, <2>3, <2>6, <2>8
    <3>3. /\ Len(out) = k + 1
          /\ \A j \in 1 .. k + 1 : out[j] = IF j <= k THEN ink[j] ELSE more[j - k]
      <4> DEFINE I == Inks(color)
                 a == Len(ink)
                 b == Len(more)
      <4>1. ink \in Seq(I) /\ more \in Seq(I) /\ a = k /\ b = 1
        BY <1>3, <2>3, <2>4, <3>2
      <4> HIDE DEF I, more
      <4>2. /\ Len(ink \o more) = a + b
            /\ \A j \in 1 .. a + b : (ink \o more)[j] = IF j <= a THEN ink[j] ELSE more[j - a]
        BY <4>1, ConcatProperties
      <4> HIDE DEF a, b
      <4> QED
        BY <4>1, <4>2
    <3>4. ASSUME NEW j \in 1 .. k + 1 PROVE out[j] = RowInk(row, left + j - 1)
      <4>1. CASE j <= k
        BY <1>3, <2>4, <3>3, <4>1
      <4>2. CASE ~(j <= k)
        <5>1. j - k = 1 /\ left + j - 1 = c
          BY <4>2
        <5> HIDE DEF out, more, c
        <5> QED
          BY <3>2, <3>3, <4>2, <5>1
      <4> QED
        BY <4>1, <4>2
    <3> HIDE DEF out, more, w, c
    <3> QED
      BY <3>1, <3>3, <3>4
  <2> QED
    BY <2>7, <2>8
<1> QED
  BY <1>5, <1>6

\* The text up to the end of a cell is the text up to its beginning and its own.
LEMMA OneMoreText ==
    ASSUME NEW n \in Nat, NEW row, RowOf(row, n), NEW left \in 0 .. n - 1, NEW c \in 0 .. n - 1,
           left <= c
    PROVE  LET first == row.cells[left].offset
               before == Piece(row, first, row.cells[c].offset - first)
           IN /\ before \in Texts /\ CellText(row, c) \in Texts
              /\ Piece(row, first, EndOf(row.cells[c]) - first) = before \o CellText(row, c)
<1> DEFINE first == row.cells[left].offset
           o == row.cells[c].offset
           l == row.cells[c].length
           m == o - first
           t == row.text
<1>1. /\ first \in Nat /\ o \in Nat /\ l \in Nat /\ EndOf(row.cells[c]) = o + l
      /\ o + l <= Len(t) /\ t \in Texts /\ Len(t) \in Nat
  BY CellTypes, LenProperties DEF RowOf, Contiguous, Texts
<1>2. first <= o
  BY CellsInOrder DEF RowOf
<1>3. CellText(row, c) = SubSeq(t, o + 1, o + l)
  BY DEF CellText, Piece
<1> DEFINE e == EndOf(row.cells[c]) - first
<1> HIDE DEF first, o, l, t
<1>4. m \in Nat /\ first + m = o /\ e = m + l /\ first + m + l <= Len(t) /\ first + m <= Len(t)
  BY <1>1, <1>2
<1> HIDE DEF m, e
<1>5. SubSeq(t, first + 1, first + m) \in Texts
  BY <1>1, <1>4, PieceFacts
<1>6. SubSeq(t, o + 1, o + l) \in Texts
  BY <1>1, PieceFacts
<1>7. SubSeq(t, first + 1, first + m) \o SubSeq(t, o + 1, o + l)
          = SubSeq(t, first + 1, first + (m + l))
  BY <1>1, <1>4, PiecesJoin
<1>8. /\ Piece(row, first, m) = SubSeq(t, first + 1, first + m)
      /\ Piece(row, first, e) = SubSeq(t, first + 1, first + (m + l))
  BY <1>4 DEF Piece, t
<1>9. /\ Piece(row, first, m) \in Texts /\ CellText(row, c) \in Texts
      /\ Piece(row, first, e) = Piece(row, first, m) \o CellText(row, c)
  BY <1>3, <1>5, <1>6, <1>7, <1>8
<1> QED
  BY <1>9 DEF m, e, first, o

\* The ink of a whole run is that of its columns.
LEMMA RunInk ==
    ASSUME NEW row, RowOf(row, RowColumns), LaidOut(row),
           NEW run, Covers(row.cells, run), RightOf(run) <= RowColumns, Whole(row, run)
    PROVE  LET color == RowStyles[run.style].foreground
               ink == InkOf(Piece(row, run.offset, run.length), color)
           IN /\ ink \in Seq(Inks(color)) /\ Len(ink) = run.count
              /\ \A j \in 1 .. run.count : ink[j] = RowInk(row, run.left + j - 1)
<1> DEFINE n == RowColumns
           color == RowStyles[run.style].foreground
           left == run.left
           count == run.count
           first == row.cells[left].offset
           before(k) == Piece(row, first, row.cells[left + k].offset - first)
           upto(k) == Piece(row, first, EndOf(row.cells[left + k]) - first)
<1>1. /\ n \in Nat /\ left \in Nat /\ count \in Nat /\ count > 0 /\ left + count <= n
      /\ RightOf(run) = left + count
  BY RunTypes, SizeAssumption DEF Covers
<1>2. ASSUME NEW k \in 0 .. count - 1
      PROVE  /\ before(k) \in Texts /\ CellText(row, left + k) \in Texts
             /\ upto(k) = before(k) \o CellText(row, left + k)
             /\ RowStyles[row.cells[left + k].style].foreground = color
  <2>1. left \in 0 .. n - 1 /\ left + k \in 0 .. n - 1 /\ left <= left + k
    BY <1>1
  <2>2. left + k \in CellsOf(run)
    BY <1>1 DEF CellsOf
  <2>3. row.cells[left + k].style = run.style
    BY <2>2 DEF Covers
  <2> DEFINE c == left + k
  <2>4. c \in 0 .. n - 1 /\ left <= c
    BY <2>1
  <2> HIDE DEF c, left
  <2>5. /\ Piece(row, first, row.cells[c].offset - first) \in Texts
        /\ CellText(row, c) \in Texts
        /\ Piece(row, first, EndOf(row.cells[c]) - first)
               = Piece(row, first, row.cells[c].offset - first) \o CellText(row, c)
    BY <1>1, <2>1, <2>4, OneMoreText
  <2> QED
    BY <2>3, <2>5 DEF c
<1>3. ASSUME NEW k \in 0 .. count - 1, PartInk(row, left, k, InkOf(before(k), color))
      PROVE  PartInk(row, left, k + 1, InkOf(upto(k), color))
  <2> DEFINE s == before(k)
             t == CellText(row, left + k)
  <2>1. s \in Texts /\ t \in Texts /\ upto(k) = s \o t
    BY <1>2
  <2>2. left + k < RowColumns /\ k \in Nat
    BY <1>1
  <2>3. color = RowStyles[row.cells[left + k].style].foreground
    BY <1>2
  <2> HIDE DEF s, t, upto, left, color
  <2>4. InkOf(s \o t, color) = InkOf(s, color) \o InkOf(t, color)
    BY <2>1, InkConcat
  <2>5. InkOf(s, color) \in Seq(Inks(color))
    BY <2>1, InkOfType
  <2>6. PartInk(row, left, k, InkOf(s, color))
    BY <1>3 DEF s
  <2> DEFINE ink == InkOf(s, color)
  <2> HIDE DEF ink
  <2>7. PartInk(row, left, k + 1, ink \o InkOf(CellText(row, left + k), color))
    BY <1>1, <2>2, <2>3, <2>5, <2>6, OneMoreCell DEF ink
  <2> QED
    BY <2>1, <2>4, <2>7 DEF t, ink
<1> DEFINE S == {k \in Nat : k <= count - 1 => PartInk(row, left, k, InkOf(before(k), color))}
<1>4. 0 \in S
  <2>1. before(0) = <<>>
    <3>1. first \in Nat
      <4>1. left \in 0 .. n - 1
        BY <1>1
      <4> QED
        BY <4>1, CellTypes DEF RowOf, Contiguous
    <3>2. left + 0 = left /\ first - first = 0 /\ first + 0 = first /\ first + 1 > first
      BY <1>1, <3>1
    <3>3. before(0) = SubSeq(row.text, first + 1, first)
      BY <3>2 DEF Piece
    <3> HIDE DEF first
    <3>4. SubSeq(row.text, first + 1, first) = <<>>
      <4>1. row.text \in Texts
        BY DEF RowOf
      <4> QED
        BY <3>1, <4>1 DEF Texts
    <3> QED
      BY <3>3, <3>4
  <2>2. InkOf(before(0), color) = <<>>
    BY <2>1, InkSmall
  <2>3. PartInk(row, left, 0, <<>>)
    <3>1. row.cells[left].width # 0 /\ left + 0 = left
      BY <1>1 DEF Whole
    <3> QED
      BY <3>1 DEF PartInk
  <2> QED
    BY <2>2, <2>3
<1>5. ASSUME NEW k \in Nat, k \in S PROVE k + 1 \in S
  <2> SUFFICES ASSUME k + 1 <= count - 1
               PROVE  PartInk(row, left, k + 1, InkOf(before(k + 1), color))
    OBVIOUS
  <2>1. k \in 0 .. count - 1 /\ k <= count - 1
    BY <1>1
  <2>2. PartInk(row, left, k, InkOf(before(k), color))
    BY <1>5, <2>1
  <2>3. row.cells[left + (k + 1)].offset = EndOf(row.cells[left + k])
    <3> DEFINE c == left + (k + 1)
    <3>1. c \in 0 .. n - 1 /\ c # 0 /\ c - 1 = left + k
      BY <1>1
    <3> HIDE DEF c, n
    <3>2. row.cells[c].offset = EndOf(row.cells[c - 1])
      BY <3>1 DEF RowOf, Contiguous, n
    <3> QED
      BY <3>1, <3>2 DEF c
  <2>4. before(k + 1) = upto(k)
    BY <2>3
  <2> QED
    BY <1>3, <2>1, <2>2, <2>4
<1>6. count - 1 \in S
  <2>1. count - 1 \in Nat
    BY <1>1
  <2> HIDE DEF S
  <2> QED
    BY <1>4, <1>5, <2>1, Induction
<1>7. PartInk(row, left, count, InkOf(upto(count - 1), color))
  <2>1. count - 1 \in 0 .. count - 1 /\ (count - 1) + 1 = count
    BY <1>1
  <2>2. PartInk(row, left, count - 1, InkOf(before(count - 1), color))
    BY <1>6, <2>1
  <2>3. PartInk(row, left, (count - 1) + 1, InkOf(upto(count - 1), color))
    BY <1>3, <2>1, <2>2
  <2> QED
    BY <2>1, <2>3
<1>8. upto(count - 1) = Piece(row, run.offset, run.length)
  <2>1. left + (count - 1) = left + count - 1
    BY <1>1
  <2>2. /\ run.offset = first /\ run.offset \in Nat /\ run.length \in Int
        /\ run.offset + run.length = EndOf(row.cells[left + count - 1])
    BY RunTypes DEF Covers
  <2>3. EndOf(row.cells[left + (count - 1)]) - first = run.length
    BY <2>1, <2>2
  <2> QED
    BY <2>2, <2>3
<1>9. upto(count - 1) \in Texts
  <2> DEFINE k == count - 1
  <2>1. k \in 0 .. count - 1
    BY <1>1
  <2> HIDE DEF k
  <2>2. before(k) \in Texts /\ CellText(row, left + k) \in Texts
        /\ upto(k) = before(k) \o CellText(row, left + k)
    BY <1>2, <2>1
  <2> HIDE DEF before, upto
  <2>3. upto(k) \in Texts
    BY <2>2, JoinedText
  <2> QED
    BY <2>3 DEF k
<1> HIDE DEF upto, left, count, color
<1>10. ~(left + count < RowColumns /\ row.cells[left + count].width = 0)
  BY <1>1 DEF Whole
<1> QED
  BY <1>7, <1>8, <1>9, <1>10, InkOfType DEF PartInk, left, count, color

\* Text of spaces leaves no ink.
LEMMA SpacesLeaveNoInk ==
    ASSUME NEW text \in Texts, \A i \in 1 .. Len(text) : text[i] = SPACE, NEW color
    PROVE  LET ink == InkOf(text, color)
           IN \A j \in 1 .. Len(ink) : ink[j] = NoInk
<1> DEFINE n == Len(text)
           V == {NoInk}
           S == {i \in Nat : i <= n => \A f : InkSteps(f, text, color) => f[i] \in Seq(V)}
<1>1. n \in Nat
  BY LenProperties DEF Texts
<1>2. PICK f : InkSteps(f, text, color)
  BY InkFunction
<1>3. CharInk(SPACE, color) \in Seq(V)
  <2>1. Ink(SPACE, FALSE, color) = NoInk /\ Ink(SPACE, TRUE, color) = NoInk
    BY DEF Ink
  <2> DEFINE none == NoInk
  <2>2. CharInk(SPACE, color)
            = <<none>> \o (IF SPACE \in WideCharacters THEN <<none>> ELSE <<>>)
    BY <2>1, Zenon DEF CharInk
  <2> DEFINE more == IF SPACE \in WideCharacters THEN <<none>> ELSE <<>>
             one == <<none>>
  <2>3. one \in Seq(V) /\ more \in Seq(V)
    <3>1. none \in V
      OBVIOUS
    <3> HIDE DEF none, V
    <3>2. one \in Seq(V) /\ <<>> \in Seq(V)
      BY <3>1
    <3> QED
      BY <3>2
  <2> HIDE DEF one, more, V
  <2>4. one \o more \in Seq(V)
    BY <2>3, ConcatProperties
  <2> QED
    BY <2>2, <2>4 DEF one, more
<1> DEFINE T == {i \in Nat : i <= n => f[i] \in Seq(V)}
<1>4. 0 \in T
  BY <1>2 DEF InkSteps
<1>5. ASSUME NEW i \in Nat, i \in T PROVE i + 1 \in T
  <2> SUFFICES ASSUME i + 1 <= n PROVE f[i + 1] \in Seq(V)
    OBVIOUS
  <2>1. i <= n /\ i + 1 \in 1 .. n /\ (i + 1) - 1 = i
    BY <1>1
  <2>2. f[i] \in Seq(V)
    BY <1>5, <2>1
  <2>3. f[i + 1] = f[i] \o CharInk(text[i + 1], color)
    BY <1>2, <2>1 DEF InkSteps
  <2>4. text[i + 1] = SPACE
    BY <2>1
  <2> DEFINE a == f[i]
             b == CharInk(SPACE, color)
  <2>5. a \in Seq(V) /\ b \in Seq(V) /\ f[i + 1] = a \o b
    BY <1>3, <2>2, <2>3, <2>4
  <2> HIDE DEF a, b, V
  <2> QED
    BY <2>5, ConcatProperties
<1>6. f[n] \in Seq(V)
  <2>1. Nat \subseteq T
    <3> HIDE DEF T
    <3> QED
      BY <1>4, <1>5, Induction
  <2> QED
    BY <1>1, <2>1
<1> DEFINE ink == InkOf(text, color)
<1>7. ink \in Seq(V)
  BY <1>2, <1>6 DEF InkSteps
<1> HIDE DEF ink, V
<1>8. \A j \in 1 .. Len(ink) : ink[j] \in V
  BY <1>7, ElementOfSeq
<1> QED
  BY <1>8 DEF ink, V

-----------------------------------------------------------------------------
(* No run begins or ends within a wide character                            *)

AllWhole(row, pieces) == \A i \in 1 .. Len(pieces) : Whole(row, pieces[i])

LEMMA WholePieces ==
    ASSUME NEW row, NEW pieces, NEW from \in Nat, NEW to \in Nat,
           Split(row.cells, pieces, from, to), row.cells[from].width # 0,
           to < RowColumns => row.cells[to].width # 0,
           \A i \in 1 .. Len(pieces) :
               RightOf(pieces[i]) < to => row.cells[RightOf(pieces[i])].width # 0
    PROVE  AllWhole(row, pieces)
<1> SUFFICES ASSUME NEW i \in 1 .. Len(pieces) PROVE Whole(row, pieces[i])
  BY DEF AllWhole
<1>1. Len(pieces) \in Nat
  BY LenProperties DEF Split
<1>2. \A k \in 1 .. Len(pieces) :
          /\ pieces[k] \in Runs /\ pieces[k].left \in Nat /\ pieces[k].count \in Nat
          /\ pieces[k].count > 0 /\ RightOf(pieces[k]) \in Nat
          /\ RightOf(pieces[k]) = pieces[k].left + pieces[k].count
          /\ RightOf(pieces[k]) <= to
          /\ pieces[k].left = IF k = 1 THEN from ELSE RightOf(pieces[k - 1])
  BY RunTypes DEF Split, Covers
<1> DEFINE p == pieces[i]
<1>3. row.cells[p.left].width # 0
  <2>1. CASE i = 1
    BY <1>2, <2>1
  <2>2. CASE i # 1
    <3>1. i - 1 \in 1 .. Len(pieces)
      BY <1>1, <2>2
    <3>2. p.left = RightOf(pieces[i - 1]) /\ p.left < to
      <4>1. p.left = RightOf(pieces[i - 1])
        BY <1>2, <2>2
      <4>2. p.left \in Nat /\ p.count \in Nat /\ p.count > 0 /\ p.left + p.count <= to
        BY <1>2
      <4> HIDE DEF p
      <4> QED
        BY <4>1, <4>2
    <3> QED
      BY <3>1, <3>2
  <2> QED
    BY <2>1, <2>2
<1>4. RightOf(p) < RowColumns => row.cells[RightOf(p)].width # 0
  <2>1. RightOf(p) \in Nat /\ RightOf(p) <= to
    BY <1>2
  <2>2. CASE RightOf(p) < to
    BY <2>2
  <2>3. CASE ~(RightOf(p) < to)
    <3>1. RightOf(p) = to
      BY <2>1, <2>3
    <3> QED
      BY <3>1
  <2> QED
    BY <2>2, <2>3
<1> QED
  BY <1>3, <1>4 DEF Whole

\* Both halves of a wide character have one style.
OneStyle(row) ==
    \A c \in RowPositions :
        row.cells[c].width = 2 /\ c + 1 \in RowPositions =>
            row.cells[c + 1].style = row.cells[c].style

LEMMA RunsWhole ==
    ASSUME NEW row, LaidOut(row), OneStyle(row),
           Split(row.cells, row.runs, 0, RowColumns), Alternate(row.runs)
    PROVE  AllWhole(row, row.runs)
<1> DEFINE runs == row.runs
           n == Len(runs)
           from == 0
           to == RowColumns
<1>1. n \in Nat /\ to \in Nat /\ from \in Nat /\ to > 0 /\ RowPositions = 0 .. to - 1
  BY LenProperties, SizeAssumption DEF Split, RowPositions
<1>2. row.cells[from].width # 0
  <2>1. 0 \in RowPositions /\ ~(0 > 0)
    BY <1>1
  <2> QED
    BY <2>1 DEF LaidOut
<1>3. ASSUME NEW i \in 1 .. n, RightOf(runs[i]) < to
      PROVE  row.cells[RightOf(runs[i])].width # 0
  <2> SUFFICES ASSUME row.cells[RightOf(runs[i])].width = 0 PROVE FALSE
    OBVIOUS
  <2>1. \A k \in 1 .. n :
            /\ Covers(row.cells, runs[k]) /\ runs[k].left \in Nat /\ runs[k].count \in Nat
            /\ runs[k].count > 0 /\ RightOf(runs[k]) = runs[k].left + runs[k].count
            /\ RightOf(runs[k]) \in Nat
            /\ runs[k].left = IF k = 1 THEN 0 ELSE RightOf(runs[k - 1])
    BY RunTypes DEF Split, Covers
  <2> DEFINE p == runs[i]
             q == runs[i + 1]
             c == RightOf(p)
  <2>2. i # n
    <3>1. to = RightOf(runs[n]) \/ n = 0
      BY DEF Split
    <3> QED
      BY <1>1, <1>3, <2>1, <3>1
  <2>3. i + 1 \in 1 .. n /\ i + 1 \in 2 .. n /\ (i + 1) - 1 = i /\ i + 1 # 1
    BY <1>1, <2>2
  <2>4. q.left = c /\ Covers(row.cells, q) /\ q.count \in Nat /\ q.count > 0 /\ c \in Nat
    BY <2>1, <2>3
  <2>5. p.left \in Nat /\ p.count \in Nat /\ p.count > 0 /\ c = p.left + p.count
        /\ Covers(row.cells, p)
    BY <2>1
  <2>6. q.style # p.style
    BY <2>3 DEF Alternate
  <2>7. c < to /\ row.cells[c].width = 0
    BY <1>3
  <2> HIDE DEF p, q, c
  <2>8. c \in CellsOf(q)
    BY <2>4 DEF CellsOf
  <2>9. c - 1 \in CellsOf(p)
    <3> DEFINE a == p.left
               b == p.count
    <3>1. a \in Nat /\ b \in Nat /\ b > 0 /\ c = a + b /\ CellsOf(p) = a .. a + b - 1
      BY <2>5 DEF CellsOf
    <3> HIDE DEF a, b
    <3> QED
      BY <3>1
  <2>13. row.cells[c].style = q.style
    BY <2>4, <2>8, Zenon DEF Covers
  <2>14. row.cells[c - 1].style = p.style
    BY <2>5, <2>9, Zenon DEF Covers
  <2>10. c \in RowPositions /\ c - 1 \in RowPositions /\ (c - 1) + 1 = c
    BY <1>1, <2>4, <2>5, <2>7
  <2>11. row.cells[c - 1].width = 2
    BY <2>7, <2>10 DEF LaidOut
  <2>12. row.cells[(c - 1) + 1].style = row.cells[c - 1].style
    BY <2>10, <2>11 DEF OneStyle
  <2> QED
    BY <2>6, <2>10, <2>12, <2>13, <2>14
<1>4. Split(row.cells, runs, from, to)
  OBVIOUS
<1>5. ~(to < RowColumns)
  BY <1>1
<1> HIDE DEF from, to, runs
<1>6. AllWhole(row, runs)
  BY <1>1, <1>2, <1>3, <1>4, <1>5, WholePieces
<1> QED
  BY <1>6 DEF runs

LEMMA SpansWhole ==
    ASSUME NEW row, RowOf(row, RowColumns), Paired(row.cells, RowColumns),
           NEW run, Covers(row.cells, run), RightOf(run) <= RowColumns, Whole(row, run)
    PROVE  LET spans == RunSpans(row, run, MaxRunCells)
           IN Split(row.cells, spans, run.left, RightOf(run)) /\ AllWhole(row, spans)
<1> DEFINE spans == RunSpans(row, run, MaxRunCells)
<1>1. RowColumns \in Nat /\ MaxRunCells \in Nat
  BY SizeAssumption, CacheAssumption
<1>2. /\ Split(row.cells, spans, run.left, RightOf(run))
      /\ \A i \in 1 .. Len(spans) : EndsWhole(row.cells, spans[i], run)
  BY <1>1, SpansSplitRun
<1>3. run.left \in Nat /\ RightOf(run) \in Nat
  BY RunTypes DEF Covers
<1>4. /\ row.cells[run.left].width # 0
      /\ RightOf(run) < RowColumns => row.cells[RightOf(run)].width # 0
  BY DEF Whole
<1> HIDE DEF spans
<1>5. AllWhole(row, spans)
  BY <1>2, <1>3, <1>4, WholePieces DEF EndsWhole
<1> QED
  BY <1>2, <1>5 DEF spans

\* Pieces up to a column and pieces from there on.
LEMMA SplitConcat ==
    ASSUME NEW cells, NEW a, NEW b, NEW from \in Nat, NEW mid \in Nat, NEW to \in Nat,
           from <= mid, mid <= to, Split(cells, a, from, mid), Split(cells, b, mid, to)
    PROVE  Split(cells, a \o b, from, to)
<1> DEFINE m == Len(a)
           n == Len(b)
           both == a \o b
<1>1. a \in Seq(Runs) /\ b \in Seq(Runs) /\ m \in Nat /\ n \in Nat
  BY LenProperties DEF Split
<1>2. /\ both \in Seq(Runs) /\ Len(both) = m + n
      /\ \A i \in 1 .. m + n : both[i] = IF i <= m THEN a[i] ELSE b[i - m]
  BY <1>1, ConcatProperties
<1>3. /\ \A i \in 1 .. m : /\ Covers(cells, a[i]) /\ from <= a[i].left /\ RightOf(a[i]) <= mid
                           /\ a[i].left \in Nat /\ RightOf(a[i]) \in Nat
                           /\ a[i].left = IF i = 1 THEN from ELSE RightOf(a[i - 1])
      /\ mid = IF m = 0 THEN from ELSE RightOf(a[m])
  BY RunTypes DEF Split, Covers
<1>4. /\ \A i \in 1 .. n : /\ Covers(cells, b[i]) /\ mid <= b[i].left /\ RightOf(b[i]) <= to
                           /\ b[i].left \in Nat /\ RightOf(b[i]) \in Nat
                           /\ b[i].left = IF i = 1 THEN mid ELSE RightOf(b[i - 1])
      /\ to = IF n = 0 THEN mid ELSE RightOf(b[n])
  BY RunTypes DEF Split, Covers
<1> HIDE DEF m, n, both
<1>5. ASSUME NEW i \in 1 .. m + n
      PROVE  /\ Covers(cells, both[i]) /\ from <= both[i].left /\ RightOf(both[i]) <= to
             /\ both[i].left = IF i = 1 THEN from ELSE RightOf(both[i - 1])
  <2>1. CASE i <= m
    <3>1. i \in 1 .. m /\ both[i] = a[i]
      BY <1>1, <1>2, <2>1
    <3>2. i # 1 => both[i - 1] = a[i - 1]
      <4>1. i # 1 => i - 1 \in 1 .. m + n /\ i - 1 <= m
        BY <1>1, <2>1
      <4> QED
        BY <1>2, <4>1
    <3>3. RightOf(a[i]) <= to
      <4>1. RightOf(a[i]) \in Nat /\ RightOf(a[i]) <= mid
        BY <1>3, <3>1
      <4> QED
        BY <4>1
    <3> QED
      BY <1>3, <3>1, <3>2, <3>3
  <2>2. CASE ~(i <= m)
    <3> DEFINE j == i - m
    <3>1. j \in 1 .. n /\ both[i] = b[j]
      <4>1. both[i] = b[j]
        BY <1>2, <2>2
      <4>2. j \in 1 .. n
        BY <1>1, <2>2
      <4> QED
        BY <4>1, <4>2
    <3>2. from <= b[j].left
      <4>1. b[j].left \in Nat /\ mid <= b[j].left
        BY <1>4, <3>1
      <4> HIDE DEF j
      <4> QED
        BY <4>1
    <3>3. both[i].left = IF i = 1 THEN from ELSE RightOf(both[i - 1])
      <4>1. CASE j = 1
        <5>1. i = m + 1
          BY <1>1, <4>1
        <5>2. both[i].left = mid
          BY <1>4, <3>1, <4>1
        <5>3. CASE m = 0
          BY <1>3, <5>1, <5>2, <5>3
        <5>4. CASE m # 0
          <6>1. i # 1 /\ i - 1 = m /\ m \in 1 .. m + n /\ m <= m
            BY <1>1, <5>1, <5>4
          <6>2. both[m] = a[m]
            BY <1>2, <6>1
          <6> QED
            BY <1>3, <5>2, <5>4, <6>1, <6>2
        <5> QED
          BY <5>3, <5>4
      <4>2. CASE j # 1
        <5>1. i # 1 /\ i - 1 \in 1 .. m + n /\ ~(i - 1 <= m) /\ (i - 1) - m = j - 1
          <6>1. i \in Nat /\ i <= m + n /\ i > m /\ i # m + 1
            BY <1>1, <2>2, <4>2
          <6> QED
            BY <1>1, <6>1
        <5>2. both[i - 1] = b[j - 1]
          BY <1>2, <5>1
        <5>3. b[j].left = RightOf(b[j - 1])
          BY <1>4, <3>1, <4>2
        <5> HIDE DEF j
        <5> QED
          BY <3>1, <5>1, <5>2, <5>3
      <4> QED
        BY <4>1, <4>2
    <3> QED
      BY <1>4, <3>1, <3>2, <3>3
  <2> QED
    BY <2>1, <2>2
<1>6. to = IF m + n = 0 THEN from ELSE RightOf(both[m + n])
  <2>1. CASE n = 0
    <3>1. m + n = m /\ (m # 0 => m \in 1 .. m + n)
      BY <1>1, <2>1
    <3>2. m # 0 => both[m] = a[m]
      BY <1>1, <1>2, <3>1
    <3> QED
      BY <1>3, <1>4, <2>1, <3>1, <3>2
  <2>2. CASE n # 0
    <3>1. m + n # 0 /\ m + n \in 1 .. m + n /\ ~(m + n <= m) /\ (m + n) - m = n
      BY <1>1, <2>2
    <3>2. both[m + n] = b[n]
      BY <1>2, <3>1
    <3> QED
      BY <1>4, <2>2, <3>1, <3>2
  <2> QED
    BY <2>1, <2>2
<1> QED
  BY <1>2, <1>5, <1>6 DEF Split, both

LEMMA WholeConcat ==
    ASSUME NEW row, NEW a \in Seq(Runs), NEW b \in Seq(Runs), AllWhole(row, a), AllWhole(row, b)
    PROVE  AllWhole(row, a \o b)
<1> DEFINE m == Len(a)
           n == Len(b)
<1>1. m \in Nat /\ n \in Nat
  BY LenProperties
<1>2. /\ Len(a \o b) = m + n
      /\ \A i \in 1 .. m + n : (a \o b)[i] = IF i <= m THEN a[i] ELSE b[i - m]
  BY ConcatProperties
<1>3. /\ \A i \in 1 .. m : Whole(row, a[i])
      /\ \A i \in 1 .. n : Whole(row, b[i])
  BY DEF AllWhole
<1> HIDE DEF m, n
<1>4. ASSUME NEW i \in 1 .. m + n PROVE Whole(row, (a \o b)[i])
  <2>1. CASE i <= m
    BY <1>1, <1>2, <1>3, <2>1
  <2>2. CASE ~(i <= m)
    <3>1. i - m \in 1 .. n /\ (a \o b)[i] = b[i - m]
      BY <1>1, <1>2, <2>2
    <3> QED
      BY <1>3, <3>1
  <2> QED
    BY <2>1, <2>2
<1> QED
  BY <1>2, <1>4 DEF AllWhole

\* What is drawn of a row are its cells, in whole pieces of one style, with the
\* cache or without.
LEMMA RunsToDrawSplit ==
    ASSUME NEW row, RowOf(row, RowColumns), Paired(row.cells, RowColumns),
           Split(row.cells, row.runs, 0, RowColumns), NEW cached
    PROVE  /\ Split(row.cells, RunsToDraw(row, cached), 0, RowColumns)
           /\ AllWhole(row, row.runs) => AllWhole(row, RunsToDraw(row, cached))
<1> DEFINE runs == row.runs
           n == Len(row.runs)
           V == Seq(Runs)
           none == <<>>
           more(i) == RunSpans(row, row.runs[i], MaxRunCells)
           spans[i \in 0 .. n] == IF i = 0 THEN none ELSE spans[i - 1] \o more(i)
           step == [x \in (1 .. n) \X V |-> x[2] \o more(x[1])]
           end(i) == IF i = 0 THEN 0 ELSE RightOf(row.runs[i])
<1>1. n \in Nat /\ none \in V /\ RowColumns \in Nat /\ MaxRunCells \in Nat
  BY LenProperties, SizeAssumption, CacheAssumption DEF Split
<1>2. ASSUME NEW i \in 1 .. n
      PROVE  /\ Covers(row.cells, runs[i]) /\ RightOf(runs[i]) <= RowColumns
             /\ runs[i].left = end(i - 1) /\ end(i - 1) \in Nat /\ end(i) \in Nat
             /\ end(i - 1) <= end(i) /\ end(i) <= RowColumns /\ i - 1 \in 0 .. n
  <2> DEFINE p == runs[i]
  <2>1. /\ Covers(row.cells, p) /\ RightOf(p) <= RowColumns
        /\ p.left = IF i = 1 THEN 0 ELSE RightOf(runs[i - 1])
    BY DEF Split
  <2>2. p.left \in Nat /\ p.count \in Nat /\ p.count > 0 /\ RightOf(p) = p.left + p.count
    BY <2>1, RunTypes DEF Covers
  <2>3. end(i - 1) = p.left /\ end(i) = RightOf(p)
    BY <2>1
  <2> HIDE DEF end, p
  <2>4. p.left <= RightOf(p) /\ RightOf(p) \in Nat
    BY <2>2
  <2>5. i - 1 \in 0 .. n
    BY <1>1
  <2> QED
    BY <2>1, <2>2, <2>3, <2>4, <2>5 DEF p
<1>3. ASSUME NEW i \in 1 .. n
      PROVE  /\ more(i) \in V /\ Split(row.cells, more(i), end(i - 1), end(i))
             /\ AllWhole(row, runs) => AllWhole(row, more(i))
  <2> DEFINE p == runs[i]
             m == MaxRunCells
  <2>1. /\ Covers(row.cells, p) /\ RightOf(p) <= RowColumns /\ p.left = end(i - 1)
        /\ end(i) = RightOf(p)
    BY <1>2
  <2> HIDE DEF end
  <2>2. Split(row.cells, RunSpans(row, p, m), p.left, RightOf(p))
    <3> HIDE DEF p, m
    <3> QED
      BY <1>1, <2>1, SpansSplitRun DEF m
  <2>3. ASSUME AllWhole(row, runs) PROVE AllWhole(row, RunSpans(row, p, m))
    <3>1. Whole(row, p)
      BY <2>3 DEF AllWhole
    <3> HIDE DEF p
    <3> QED
      BY <2>1, <3>1, SpansWhole
  <2>4. more(i) \in V
    BY <2>2 DEF Split
  <2> QED
    BY <2>1, <2>2, <2>3, <2>4
<1>4. ASSUME NEW x \in (1 .. n) \X V PROVE x[2] \o more(x[1]) \in V
  <2> DEFINE i == x[1]
             t == x[2]
             u == more(i)
  <2>1. i \in 1 .. n /\ t \in V
    OBVIOUS
  <2>2. u \in V
    BY <1>3, <2>1
  <2> HIDE DEF i, t, u
  <2>3. t \o u \in V
    BY <2>1, <2>2, ConcatProperties
  <2> QED
    BY <2>3 DEF i, t, u
<1>5. RunsToDraw(row, cached) = IF cached THEN spans[n] ELSE runs
  BY DEF RunsToDraw
<1>6. Split(row.cells, runs, 0, RowColumns) /\ end(n) = RowColumns
  BY <1>1 DEF Split
<1> HIDE DEF more, V, end, runs
<1>7. step \in Steps(n, V) /\ \A i \in 1 .. n, t \in V : step[<<i, t>>] = t \o more(i)
  BY <1>4 DEF Steps
<1> HIDE DEF step, none
<1>8. PICK f : Recursive(f, n, V, none, step)
  <2> HIDE DEF n
  <2> QED
    BY <1>1, <1>7, Recursion
<1>9. f \in [0 .. n -> V] /\ f[0] = none /\ \A i \in 1 .. n : f[i] = f[i - 1] \o more(i)
  <2>1. f \in [0 .. n -> V] /\ f[0] = none /\ \A i \in 1 .. n : f[i] = step[<<i, f[i - 1]>>]
    BY <1>8 DEF Recursive
  <2>2. \A i \in 1 .. n : i - 1 \in 0 .. n
    OBVIOUS
  <2> HIDE DEF n
  <2> QED
    BY <1>7, <2>1, <2>2
<1>10. spans = [i \in 0 .. n |-> IF i = 0 THEN none ELSE spans[i - 1] \o more(i)]
  <2> HIDE DEF n
  <2>1. \A i \in 0 .. n : f[i] = IF i = 0 THEN none ELSE f[i - 1] \o more(i)
    <3>1. \A i \in 0 .. n : i # 0 => i \in 1 .. n
      BY <1>1
    <3> QED
      BY <1>9, <3>1, Zenon
  <2>2. f = [i \in 0 .. n |-> IF i = 0 THEN none ELSE f[i - 1] \o more(i)]
    BY <1>9, <2>1
  <2> QED
    BY <2>2, Zenon
<1> HIDE DEF spans, n
<1>11. spans[0] = none /\ \A i \in 1 .. n : spans[i] = spans[i - 1] \o more(i)
  <2>1. 0 \in 0 .. n /\ \A i \in 1 .. n : i \in 0 .. n /\ i # 0
    BY <1>1
  <2> QED
    BY <1>10, <2>1, Zenon
<1> DEFINE S == {i \in Nat : i <= n =>
                    /\ Split(row.cells, spans[i], 0, end(i)) /\ end(i) \in Nat
                    /\ AllWhole(row, runs) => AllWhole(row, spans[i])}
<1>12. 0 \in S
  <2>1. none \in Seq(Runs) /\ Len(none) = 0 /\ 1 .. 0 = {} /\ end(0) = 0
    BY DEF none, end
  <2>2. Split(row.cells, none, 0, 0) /\ AllWhole(row, none)
    BY <2>1 DEF Split, AllWhole
  <2> QED
    BY <1>11, <2>1, <2>2
<1>13. ASSUME NEW i \in Nat, i \in S PROVE i + 1 \in S
  <2> SUFFICES ASSUME i + 1 <= n
               PROVE  /\ Split(row.cells, spans[i + 1], 0, end(i + 1)) /\ end(i + 1) \in Nat
                      /\ AllWhole(row, runs) => AllWhole(row, spans[i + 1])
    OBVIOUS
  <2> DEFINE k == i + 1
             a == spans[i]
             b == more(k)
             from == 0
             mid == end(i)
             to == end(k)
  <2>1. k \in 1 .. n /\ k - 1 = i /\ i <= n
    BY <1>1
  <2>2. Split(row.cells, a, from, mid) /\ (AllWhole(row, runs) => AllWhole(row, a))
    BY <1>13, <2>1
  <2>3. spans[k] = a \o b
    BY <1>11, <2>1
  <2>4. /\ Split(row.cells, b, mid, to) /\ mid \in Nat /\ to \in Nat /\ mid <= to
        /\ AllWhole(row, runs) => AllWhole(row, b)
    BY <1>2, <1>3, <2>1
  <2>5. from \in Nat /\ from <= mid
    BY <2>4
  <2>6. a \in Seq(Runs) /\ b \in Seq(Runs)
    BY <2>2, <2>4 DEF Split
  <2> HIDE DEF k, a, b, from, mid, to
  <2>7. Split(row.cells, a \o b, from, to)
    BY <2>2, <2>4, <2>5, SplitConcat
  <2>8. AllWhole(row, runs) => AllWhole(row, a \o b)
    BY <2>2, <2>4, <2>6, WholeConcat
  <2> QED
    BY <2>3, <2>4, <2>7, <2>8 DEF k, from, to
<1>14. n \in S
  <2>1. Nat \subseteq S
    <3> HIDE DEF S
    <3> QED
      BY <1>12, <1>13, Induction
  <2> QED
    BY <1>1, <2>1
<1>15. /\ Split(row.cells, spans[n], 0, RowColumns)
       /\ AllWhole(row, runs) => AllWhole(row, spans[n])
  BY <1>1, <1>6, <1>14
<1>16. CASE cached
  BY <1>5, <1>15, <1>16 DEF runs
<1>17. CASE ~cached
  BY <1>5, <1>6, <1>17 DEF runs
<1> QED
  BY <1>16, <1>17

-----------------------------------------------------------------------------
(* The runs that reach into the dirty columns                               *)

\* The runs follow each other, perhaps with gaps.
Ordered(runs) ==
    \A i, j \in 1 .. Len(runs) : i < j => RightOf(runs[i]) <= runs[j].left

Reaches(run, left, right) == run.left < right /\ left < RightOf(run)

LEMMA OrderedAppend ==
    ASSUME NEW runs \in Seq(Runs), Ordered(runs), NEW run \in Runs,
           \A i \in 1 .. Len(runs) : RightOf(runs[i]) <= run.left
    PROVE  Ordered(Append(runs, run))
<1> DEFINE n == Len(runs)
           more == Append(runs, run)
<1>1. n \in Nat /\ Len(more) = n + 1 /\ more[n + 1] = run /\ \A i \in 1 .. n : more[i] = runs[i]
  BY AppendFacts
<1>2. \A i, j \in 1 .. n : i < j => RightOf(runs[i]) <= runs[j].left
  BY DEF Ordered
<1> HIDE DEF n, more
<1>3. ASSUME NEW i \in 1 .. n + 1, NEW j \in 1 .. n + 1, i < j
      PROVE  RightOf(more[i]) <= more[j].left
  <2>1. i \in 1 .. n /\ (j \in 1 .. n \/ j = n + 1)
    BY <1>1, <1>3
  <2>2. CASE j \in 1 .. n
    BY <1>1, <1>2, <1>3, <2>1, <2>2
  <2>3. CASE j = n + 1
    BY <1>1, <2>1, <2>3 DEF n
  <2> QED
    BY <2>1, <2>2, <2>3
<1> QED
  BY <1>1, <1>3 DEF Ordered, more

\* They are runs of the row, in its order, and all that reach into the columns.
LEMMA WithinFacts ==
    ASSUME NEW D, NEW runs \in Seq(D), NEW cells, NEW from \in Nat, NEW to \in Nat,
           Split(cells, runs, from, to), NEW left, NEW right
    PROVE  LET within == RunsWithin(runs, left, right)
           IN /\ within \in Seq(D) /\ Ordered(within)
              /\ \A k \in 1 .. Len(runs) : Reaches(runs[k], left, right) =>
                     \E j \in 1 .. Len(within) : within[j] = runs[k]
<1> DEFINE n == Len(runs)
           E == D \cap Runs
           V == Seq(E)
           none == <<>>
           next(i, t) == IF runs[i].left < right /\ left < Right(runs[i])
                         THEN Append(t, runs[i]) ELSE t
           within[i \in 0 .. Len(runs)] ==
               IF i = 0 THEN <<>>
               ELSE IF runs[i].left < right /\ left < Right(runs[i])
               THEN Append(within[i - 1], runs[i])
               ELSE within[i - 1]
           step == [x \in (1 .. n) \X V |-> next(x[1], x[2])]
           end(i) == IF i = 0 THEN from ELSE RightOf(runs[i])
<1>1. n \in Nat /\ none \in V
  BY LenProperties
<1>2. ASSUME NEW i \in 1 .. n
      PROVE  /\ runs[i] \in E /\ runs[i].left = end(i - 1) /\ end(i) = RightOf(runs[i])
             /\ end(i - 1) \in Nat /\ end(i) \in Nat /\ end(i - 1) <= end(i)
  <2> DEFINE p == runs[i]
  <2>1. p \in D
    BY ElementOfSeq
  <2>2. Covers(cells, p) /\ p.left = IF i = 1 THEN from ELSE RightOf(runs[i - 1])
    BY DEF Split
  <2>3. /\ p \in Runs /\ p.left \in Nat /\ p.count \in Nat /\ p.count > 0
        /\ RightOf(p) = p.left + p.count
    BY <2>2, RunTypes DEF Covers
  <2>4. end(i - 1) = p.left /\ end(i) = RightOf(p)
    BY <2>2
  <2> HIDE DEF end, p
  <2>5. RightOf(p) \in Nat /\ p.left <= RightOf(p)
    BY <2>3
  <2> QED
    BY <2>1, <2>3, <2>4, <2>5 DEF p
<1>3. ASSUME NEW i \in 1 .. n, NEW t \in V PROVE next(i, t) \in V
  <2>1. runs[i] \in E
    BY <1>2
  <2> HIDE DEF E
  <2> QED
    BY <2>1
<1>4. RunsWithin(runs, left, right) = within[n]
  BY DEF RunsWithin
<1>5. ASSUME NEW i \in 1 .. n, NEW t
      PROVE  next(i, t) = IF Reaches(runs[i], left, right) THEN Append(t, runs[i]) ELSE t
  BY DEF Reaches, Right, RightOf
<1> HIDE DEF next, V
<1>6. step \in Steps(n, V) /\ \A i \in 1 .. n, t \in V : step[<<i, t>>] = next(i, t)
  BY <1>3 DEF Steps
<1> HIDE DEF step, none, end
<1>7. PICK f : Recursive(f, n, V, none, step)
  <2> HIDE DEF n
  <2> QED
    BY <1>1, <1>6, Recursion
<1>8. f \in [0 .. n -> V] /\ f[0] = none /\ \A i \in 1 .. n : f[i] = next(i, f[i - 1])
  <2>1. f \in [0 .. n -> V] /\ f[0] = none /\ \A i \in 1 .. n : f[i] = step[<<i, f[i - 1]>>]
    BY <1>7 DEF Recursive
  <2>2. \A i \in 1 .. n : i - 1 \in 0 .. n
    OBVIOUS
  <2> HIDE DEF n
  <2> QED
    BY <1>6, <2>1, <2>2
<1>9. within = [i \in 0 .. n |-> IF i = 0 THEN none ELSE next(i, within[i - 1])]
  <2>1. \A i \in 0 .. n : f[i] = IF i = 0 THEN none ELSE next(i, f[i - 1])
    BY <1>1, <1>8
  <2>2. f = [i \in 0 .. n |-> IF i = 0 THEN none ELSE next(i, f[i - 1])]
    BY <1>8, <2>1
  <2> QED
    BY <2>2 DEF none, next
<1> HIDE DEF within
<1>10. within[0] = none /\ \A i \in 1 .. n : within[i] = next(i, within[i - 1])
  BY <1>1, <1>9
<1> DEFINE S == {i \in Nat : i <= n =>
                    /\ within[i] \in V /\ Ordered(within[i])
                    /\ \A j \in 1 .. Len(within[i]) : RightOf(within[i][j]) <= end(i)
                    /\ \A k \in 1 .. i : Reaches(runs[k], left, right) =>
                           \E j \in 1 .. Len(within[i]) : within[i][j] = runs[k]}
<1>11. 0 \in S
  <2>1. Len(none) = 0 /\ 1 .. 0 = {}
    BY DEF none
  <2>2. Ordered(none)
    BY <2>1 DEF Ordered
  <2> QED
    BY <1>1, <1>10, <2>1, <2>2
<1>12. ASSUME NEW i \in Nat, i \in S PROVE i + 1 \in S
  <2> SUFFICES ASSUME i + 1 <= n
               PROVE  /\ within[i + 1] \in V /\ Ordered(within[i + 1])
                      /\ \A j \in 1 .. Len(within[i + 1]) :
                             RightOf(within[i + 1][j]) <= end(i + 1)
                      /\ \A k \in 1 .. i + 1 : Reaches(runs[k], left, right) =>
                             \E j \in 1 .. Len(within[i + 1]) : within[i + 1][j] = runs[k]
    OBVIOUS
  <2> DEFINE m == i + 1
             old == within[i]
             new == within[m]
             p == runs[m]
  <2>1. m \in 1 .. n /\ m - 1 = i /\ i <= n /\ \A k \in 1 .. m : k = m \/ k \in 1 .. i
    BY <1>1
  <2>2. /\ old \in V /\ Ordered(old)
        /\ \A j \in 1 .. Len(old) : RightOf(old[j]) <= end(i)
        /\ \A k \in 1 .. i : Reaches(runs[k], left, right) =>
               \E j \in 1 .. Len(old) : old[j] = runs[k]
    BY <1>12, <2>1
  <2>3. new = next(m, old)
    BY <1>10, <2>1
  <2>4. new = IF Reaches(p, left, right) THEN Append(old, p) ELSE old
    BY <1>5, <2>1, <2>3
  <2>5. /\ p \in E /\ p.left = end(i) /\ end(m) = RightOf(p) /\ end(i) \in Nat /\ end(m) \in Nat
        /\ end(i) <= end(m)
    BY <1>2, <2>1
  <2>6. new \in V
    BY <1>3, <2>1, <2>2, <2>3
  <2> DEFINE z == Len(old)
  <2>7. /\ old \in Seq(Runs) /\ old \in Seq(E) /\ z \in Nat
        /\ \A j \in 1 .. z : old[j] \in Runs /\ RightOf(old[j]) \in Nat
    <3>1. old \in Seq(E)
      BY <2>2 DEF V
    <3>2. z \in Nat /\ old = [j \in 1 .. z |-> old[j]] /\ \A j \in 1 .. z : old[j] \in E
      BY <3>1, LenProperties, ElementOfSeq
    <3>3. \A j \in 1 .. z : old[j] \in Runs /\ RightOf(old[j]) \in Nat
      BY <3>2, RunTypes
    <3> HIDE DEF z, old
    <3>4. old \in [1 .. z -> Runs]
      BY <3>2, <3>3
    <3>5. old \in Seq(Runs)
      BY <3>2, <3>4, FunctionSeq
    <3> QED
      BY <3>1, <3>2, <3>3, <3>5
  <2> HIDE DEF m, old, new, p, end
  <2>8. CASE Reaches(p, left, right)
    <3>1. new = Append(old, p)
      BY <2>4, <2>8
    <3>2. Ordered(new)
      <4>1. p \in Runs
        BY <2>5
      <4>2. \A j \in 1 .. Len(old) : RightOf(old[j]) <= p.left
        BY <2>2, <2>5
      <4> QED
        BY <2>2, <2>7, <3>1, <4>1, <4>2, OrderedAppend
    <3>3. Len(new) = z + 1 /\ new[z + 1] = p /\ \A j \in 1 .. z : new[j] = old[j]
      <4>1. p \in Runs
        BY <2>5
      <4> QED
        BY <2>7, <3>1, <4>1, AppendFacts
    <3>4. ASSUME NEW j \in 1 .. Len(new) PROVE RightOf(new[j]) <= end(m)
      <4>1. j \in 1 .. z \/ j = z + 1
        BY <2>7, <3>3
      <4>2. CASE j \in 1 .. z
        <5>1. RightOf(old[j]) \in Nat /\ RightOf(old[j]) <= end(i) /\ new[j] = old[j]
          BY <2>2, <2>7, <3>3, <4>2
        <5> QED
          BY <2>5, <5>1
      <4>3. CASE j = z + 1
        BY <2>5, <3>3, <4>3
      <4> QED
        BY <4>1, <4>2, <4>3
    <3>5. ASSUME NEW k \in 1 .. m, Reaches(runs[k], left, right)
          PROVE  \E j \in 1 .. Len(new) : new[j] = runs[k]
      <4>1. CASE k = m
        <5>1. z + 1 \in 1 .. Len(new) /\ new[z + 1] = runs[k]
          BY <2>7, <3>3, <4>1 DEF p
        <5> QED
          BY <5>1
      <4>2. CASE k \in 1 .. i
        <5>1. PICK j \in 1 .. Len(old) : old[j] = runs[k]
          BY <2>2, <3>5, <4>2
        <5>2. j \in 1 .. Len(new) /\ new[j] = runs[k]
          BY <2>7, <3>3, <5>1
        <5> QED
          BY <5>2
      <4> QED
        BY <2>1, <4>1, <4>2
    <3> QED
      BY <2>6, <3>2, <3>4, <3>5 DEF m, new
  <2>9. CASE ~Reaches(p, left, right)
    <3>1. new = old
      BY <2>4, <2>9
    <3>2. ASSUME NEW j \in 1 .. Len(new) PROVE RightOf(new[j]) <= end(m)
      <4>1. RightOf(old[j]) \in Nat /\ RightOf(old[j]) <= end(i)
        BY <2>2, <2>7, <3>1
      <4> QED
        BY <2>5, <3>1, <4>1
    <3>3. ASSUME NEW k \in 1 .. m, Reaches(runs[k], left, right)
          PROVE  \E j \in 1 .. Len(new) : new[j] = runs[k]
      <4>1. k # m
        BY <2>9, <3>3 DEF p
      <4> QED
        BY <2>1, <2>2, <3>1, <3>3, <4>1
    <3> QED
      BY <2>2, <2>6, <3>1, <3>2, <3>3 DEF m, new
  <2> QED
    BY <2>8, <2>9
<1>13. n \in S
  <2>1. Nat \subseteq S
    <3> HIDE DEF S
    <3> QED
      BY <1>11, <1>12, Induction
  <2> QED
    BY <1>1, <2>1
<1>14. /\ within[n] \in V /\ Ordered(within[n])
       /\ \A k \in 1 .. n : Reaches(runs[k], left, right) =>
              \E j \in 1 .. Len(within[n]) : within[n][j] = runs[k]
  BY <1>1, <1>13
<1>15. within[n] \in Seq(D)
  <2> DEFINE w == within[n]
             z == Len(w)
  <2>1. w \in Seq(E)
    BY <1>14 DEF V
  <2>2. z \in Nat /\ w = [j \in 1 .. z |-> w[j]] /\ \A j \in 1 .. z : w[j] \in E
    BY <2>1, LenProperties, ElementOfSeq
  <2>3. \A j \in 1 .. z : w[j] \in D
    BY <2>2
  <2> HIDE DEF z, w
  <2>4. w \in [1 .. z -> D]
    BY <2>2, <2>3
  <2>5. w \in Seq(D)
    BY <2>2, <2>4, FunctionSeq
  <2> QED
    BY <2>5 DEF w
<1> QED
  BY <1>4, <1>14, <1>15

-----------------------------------------------------------------------------
(* The backgrounds of a row                                                 *)

Colors == {DefaultBackground} \cup {RowStyles[s].background : s \in Nat}
Pixels(canvas) == {canvas[c] : c \in RowPositions} \cup {Filled(color) : color \in Colors}
Rectangles == [left : Nat, right : Nat, color : Colors]
Paintings(canvas) == [canvas : [RowPositions -> Pixels(canvas)], pending : Rectangles]

\* What a column shows once the rectangle is drawn.
Shown(painting, c) ==
    IF painting.pending.left <= c /\ c < painting.pending.right
    THEN Filled(painting.pending.color) ELSE painting.canvas[c]

\* What it has to show when the runs up to a column are done.
Goal(canvas, cells, left, right, upto, c) ==
    IF ~(left <= c /\ c < right) THEN canvas[c]
    ELSE IF c < upto THEN Filled(RowStyles[cells[c].style].background)
    ELSE Filled(DefaultBackground)

PaintedTo(painting, canvas, cells, left, right, upto) ==
    /\ painting \in Paintings(canvas)
    /\ painting.pending # NoPending => painting.pending.left < painting.pending.right
    /\ \A c \in RowPositions : Shown(painting, c) = Goal(canvas, cells, left, right, upto, c)

LEMMA PaintingFields ==
    ASSUME NEW canvas, NEW painting \in Paintings(canvas)
    PROVE  /\ painting.canvas \in [RowPositions -> Pixels(canvas)]
           /\ painting.pending \in Rectangles
           /\ painting.pending.left \in Nat /\ painting.pending.right \in Nat
           /\ painting.pending.color \in Colors
BY DEF Paintings, Rectangles

LEMMA PaintingRecord ==
    ASSUME NEW canvas, NEW c \in [RowPositions -> Pixels(canvas)],
           NEW l \in Nat, NEW r \in Nat, NEW color \in Colors
    PROVE  LET pending == [left |-> l, right |-> r, color |-> color]
               painting == [canvas |-> c, pending |-> pending]
           IN /\ painting \in Paintings(canvas) /\ painting.canvas = c
              /\ painting.pending = pending /\ pending.left = l /\ pending.right = r
              /\ pending.color = color
BY DEF Paintings, Rectangles

LEMMA FillType ==
    ASSUME NEW canvas, NEW c \in [RowPositions -> Pixels(canvas)], NEW l, NEW r,
           NEW color \in Colors
    PROVE  /\ FillColumns(c, l, r, color) \in [RowPositions -> Pixels(canvas)]
           /\ \A k \in RowPositions : FillColumns(c, l, r, color)[k] =
                  IF l <= k /\ k < r THEN Filled(color) ELSE c[k]
<1>1. Filled(color) \in Pixels(canvas)
  BY DEF Pixels
<1>2. DOMAIN c = RowPositions /\ \A k \in RowPositions : c[k] \in Pixels(canvas)
  OBVIOUS
<1>3. FillColumns(c, l, r, color)
          = [k \in RowPositions |-> IF l <= k /\ k < r THEN Filled(color) ELSE c[k]]
  BY <1>2, Zenon DEF FillColumns
<1> QED
  BY <1>1, <1>2, <1>3

LEMMA FlushedShows ==
    ASSUME NEW canvas, NEW painting \in Paintings(canvas)
    PROVE  /\ Flushed(painting) \in Paintings(canvas) /\ Flushed(painting).pending = NoPending
           /\ \A c \in RowPositions : Flushed(painting).canvas[c] = Shown(painting, c)
           /\ \A c \in RowPositions : Shown(Flushed(painting), c) = Shown(painting, c)
<1> DEFINE old == painting.canvas
           p == painting.pending
           new == IF p = NoPending THEN old ELSE FillColumns(old, p.left, p.right, p.color)
           zero == 0
<1>1. /\ old \in [RowPositions -> Pixels(canvas)] /\ p.left \in Nat /\ p.right \in Nat
      /\ p.color \in Colors
  BY PaintingFields
<1>2. DefaultBackground \in Colors /\ zero \in Nat
      /\ NoPending = [left |-> zero, right |-> zero, color |-> DefaultBackground]
  BY DEF Colors, NoPending
<1>3. Flushed(painting) = [canvas |-> new, pending |-> NoPending]
  BY DEF Flushed
<1>4. /\ new \in [RowPositions -> Pixels(canvas)]
      /\ \A c \in RowPositions : new[c] = Shown(painting, c)
  <2>1. CASE p = NoPending
    <3>1. p.left = 0 /\ p.right = 0
      BY <2>1 DEF NoPending
    <3>2. \A c \in RowPositions : ~(p.left <= c /\ c < p.right)
      <4>1. \A c \in RowPositions : c \in Int
        BY DEF RowPositions
      <4> QED
        BY <3>1, <4>1
    <3> QED
      BY <1>1, <2>1, <3>2 DEF Shown
  <2>2. CASE p # NoPending
    <3>1. new = FillColumns(old, p.left, p.right, p.color)
      BY <2>2
    <3> HIDE DEF new
    <3>2. /\ new \in [RowPositions -> Pixels(canvas)]
          /\ \A c \in RowPositions : new[c] =
                 IF p.left <= c /\ c < p.right THEN Filled(p.color) ELSE old[c]
      <4> HIDE DEF old, p
      <4> QED
        BY <1>1, <3>1, FillType
    <3> QED
      BY <3>2 DEF Shown
  <2> QED
    BY <2>1, <2>2
<1> HIDE DEF new, zero
<1>5. /\ Flushed(painting) \in Paintings(canvas) /\ Flushed(painting).pending = NoPending
      /\ Flushed(painting).canvas = new /\ NoPending.left = zero /\ NoPending.right = zero
  BY <1>2, <1>3, <1>4, PaintingRecord
<1>6. ASSUME NEW c \in RowPositions PROVE Shown(Flushed(painting), c) = new[c]
  <2>1. ~(zero <= c /\ c < zero)
    BY DEF RowPositions, zero
  <2> QED
    BY <1>5, <2>1 DEF Shown
<1> QED
  BY <1>4, <1>5, <1>6

LEMMA BackgroundAdded ==
    ASSUME NEW canvas, NEW cells, NEW left \in Nat, NEW right \in Nat, NEW run,
           Covers(cells, run), NEW painting,
           PaintedTo(painting, canvas, cells, left, right, run.left)
    PROVE  PaintedTo(AddBackground(painting, run, left, right), canvas, cells, left, right,
                     RightOf(run))
<1> DEFINE color == StyleOf(run).background
           start == Larger(left, run.left)
           end == Smaller(right, Right(run))
           p == painting.pending
           continues == p # NoPending /\ p.color = color /\ p.right = start
           flushed == Flushed(painting)
           new == AddBackground(painting, run, left, right)
           goal(c) == Goal(canvas, cells, left, right, RightOf(run), c)
           before(c) == Goal(canvas, cells, left, right, run.left, c)
<1>1. /\ run \in Runs /\ run.left \in Nat /\ run.count \in Nat /\ run.count > 0
      /\ RightOf(run) = run.left + run.count /\ Right(run) = RightOf(run) /\ run.style \in Nat
  BY RunTypes DEF Covers, Right, RightOf
<1>2. start \in Nat /\ end \in Nat /\ color \in Colors
  <2>1. color \in Colors
    BY <1>1 DEF StyleOf, Colors
  <2> QED
    BY <1>1, <2>1 DEF Larger, Smaller
<1>3. ASSUME NEW c \in RowPositions
      PROVE  goal(c) = IF start <= c /\ c < end THEN Filled(color) ELSE before(c)
  <2>1. c \in Int
    BY DEF RowPositions
  <2>2. start <= c <=> left <= c /\ run.left <= c
    BY <1>1, <2>1 DEF Larger
  <2>3. c < end <=> c < right /\ c < RightOf(run)
    BY <1>1, <2>1 DEF Smaller
  <2>4. run.left <= c /\ c < RightOf(run) => RowStyles[cells[c].style].background = color
    <3>1. run.left <= c /\ c < RightOf(run) => c \in CellsOf(run)
      BY <1>1, <2>1 DEF CellsOf
    <3> QED
      BY <3>1 DEF Covers, StyleOf
  <2>5. /\ run.left <= c <=> ~(c < run.left)
        /\ c < run.left => c < RightOf(run)
    BY <1>1, <2>1
  <2> HIDE DEF start, end, color
  <2> QED
    BY <2>2, <2>3, <2>4, <2>5 DEF Goal
<1>4. /\ painting \in Paintings(canvas) /\ (p # NoPending => p.left < p.right)
      /\ \A c \in RowPositions : Shown(painting, c) = before(c)
  BY DEF PaintedTo
<1>5. /\ painting.canvas \in [RowPositions -> Pixels(canvas)] /\ p.left \in Nat
      /\ p.right \in Nat /\ p.color \in Colors
  BY <1>4, PaintingFields
<1>6. /\ flushed \in Paintings(canvas) /\ flushed.pending = NoPending
      /\ \A c \in RowPositions : flushed.canvas[c] = before(c)
      /\ \A c \in RowPositions : Shown(flushed, c) = before(c)
  BY <1>4, FlushedShows
<1>7. new = IF start >= end THEN painting
            ELSE IF color = DefaultBackground THEN flushed
            ELSE IF continues THEN [painting EXCEPT !.pending.right = end]
            ELSE [flushed EXCEPT !.pending = [left |-> start, right |-> end, color |-> color]]
  BY DEF AddBackground
<1>8. SUFFICES /\ new \in Paintings(canvas)
               /\ new.pending # NoPending => new.pending.left < new.pending.right
               /\ \A c \in RowPositions : Shown(new, c) = goal(c)
  BY DEF PaintedTo
<1> HIDE DEF new, flushed, goal, before, start, end, color
<1>9. CASE start >= end
  <2>1. \A c \in RowPositions : ~(start <= c /\ c < end)
    BY <1>2, <1>9 DEF RowPositions
  <2> QED
    BY <1>3, <1>4, <1>7, <1>9, <2>1
<1>10. CASE ~(start >= end) /\ color = DefaultBackground
  <2>1. new = flushed
    BY <1>7, <1>10
  <2>2. ASSUME NEW c \in RowPositions PROVE before(c) = goal(c)
    <3>1. CASE start <= c /\ c < end
      <4>1. left <= c /\ c < right /\ ~(c < run.left)
        <5>1. c \in Int
          BY DEF RowPositions
        <5> QED
          BY <1>1, <3>1, <5>1 DEF start, end, Larger, Smaller
      <4>2. before(c) = Filled(DefaultBackground)
        BY <4>1 DEF before, Goal
      <4> QED
        BY <1>3, <1>10, <3>1, <4>2
    <3>2. CASE ~(start <= c /\ c < end)
      BY <1>3, <3>2
    <3> QED
      BY <3>1, <3>2
  <2> QED
    BY <1>6, <2>1, <2>2
<1>11. CASE ~(start >= end) /\ color # DefaultBackground /\ continues
  <2> DEFINE l == p.left
             old == painting.canvas
             k == p.color
  <2>1. new = [painting EXCEPT !.pending.right = end]
    BY <1>7, <1>11
  <2>2. new = [canvas |-> old, pending |-> [left |-> l, right |-> end, color |-> k]]
    BY <1>4, <2>1 DEF Paintings, Rectangles
  <2>3. l \in Nat /\ old \in [RowPositions -> Pixels(canvas)] /\ k \in Colors /\ k = color
        /\ l < start /\ p.right = start /\ start < end
    BY <1>2, <1>4, <1>5, <1>11
  <2>4. ASSUME NEW c \in RowPositions
        PROVE  before(c) = IF l <= c /\ c < start THEN Filled(color) ELSE old[c]
    BY <1>4, <2>3 DEF Shown
  <2> HIDE DEF l, old, k
  <2>5. /\ new \in Paintings(canvas) /\ new.canvas = old /\ new.pending.left = l
        /\ new.pending.right = end /\ new.pending.color = k
    BY <1>2, <2>2, <2>3, PaintingRecord
  <2>6. ASSUME NEW c \in RowPositions PROVE Shown(new, c) = goal(c)
    <3>1. Shown(new, c) = IF l <= c /\ c < end THEN Filled(color) ELSE old[c]
      BY <2>3, <2>5 DEF Shown
    <3>2. c \in Int
      BY DEF RowPositions
    <3>3. (l <= c /\ c < end) <=> (l <= c /\ c < start) \/ (start <= c /\ c < end)
      BY <1>2, <2>3, <3>2
    <3> QED
      BY <1>3, <2>4, <3>1, <3>3
  <2>7. new.pending.left < new.pending.right
    BY <1>2, <2>3, <2>5
  <2> QED
    BY <2>5, <2>6, <2>7
<1>12. CASE ~(start >= end) /\ color # DefaultBackground /\ ~continues
  <2> DEFINE old == flushed.canvas
  <2>1. new = [flushed EXCEPT !.pending = [left |-> start, right |-> end, color |-> color]]
    BY <1>7, <1>12
  <2>2. new = [canvas |-> old, pending |-> [left |-> start, right |-> end, color |-> color]]
    BY <1>6, <2>1 DEF Paintings
  <2>3. old \in [RowPositions -> Pixels(canvas)] /\ start < end
    BY <1>2, <1>6, <1>12, PaintingFields
  <2>4. \A c \in RowPositions : old[c] = before(c)
    BY <1>6
  <2> HIDE DEF old
  <2>5. /\ new \in Paintings(canvas) /\ new.canvas = old /\ new.pending.left = start
        /\ new.pending.right = end /\ new.pending.color = color
    BY <1>2, <2>2, <2>3, PaintingRecord
  <2>6. \A c \in RowPositions : Shown(new, c) = goal(c)
    BY <1>3, <2>4, <2>5 DEF Shown
  <2> QED
    BY <2>3, <2>5, <2>6
<1> QED
  BY <1>9, <1>10, <1>11, <1>12

\* The dirty columns get the backgrounds of their cells, the others stay.
LEMMA BackgroundsPainted ==
    ASSUME NEW canvas, canvas = [c \in RowPositions |-> canvas[c]], NEW cells, NEW runs,
           Split(cells, runs, 0, RowColumns),
           NEW left \in Nat, NEW right \in Nat, left < right, right <= RowColumns
    PROVE  LET painted == PaintBackgrounds(canvas, runs, left, right)
           IN /\ painted = [c \in RowPositions |-> painted[c]]
              /\ \A c \in RowPositions : painted[c] =
                     IF left <= c /\ c < right
                     THEN Filled(RowStyles[cells[c].style].background) ELSE canvas[c]
<1> DEFINE n == Len(runs)
           V == Paintings(canvas)
           first == [canvas  |-> FillColumns(canvas, left, right, DefaultBackground),
                     pending |-> NoPending]
           painting[i \in 0 .. Len(runs)] ==
               IF i = 0 THEN [canvas  |-> FillColumns(canvas, left, right, DefaultBackground),
                              pending |-> NoPending]
               ELSE AddBackground(painting[i - 1], runs[i], left, right)
           next(i, t) == AddBackground(t, runs[i], left, right)
           end(i) == IF i = 0 THEN 0 ELSE RightOf(runs[i])
           Done(t, e) == PaintedTo(t, canvas, cells, left, right, e)
           zero == 0
<1>1. n \in Nat /\ RowColumns \in Nat /\ RowColumns > 0
  BY LenProperties, SizeAssumption DEF Split
<1>2. ASSUME NEW i \in 1 .. n
      PROVE  Covers(cells, runs[i]) /\ runs[i].left = end(i - 1) /\ end(i) = RightOf(runs[i])
  <2>1. Covers(cells, runs[i]) /\ runs[i].left = IF i = 1 THEN 0 ELSE RightOf(runs[i - 1])
    BY DEF Split
  <2> QED
    BY <2>1
<1>3. ASSUME NEW i \in 1 .. n, NEW t, Done(t, end(i - 1))
      PROVE  Done(next(i, t), end(i))
  <2> DEFINE run == runs[i]
  <2>1. Covers(cells, run) /\ run.left = end(i - 1) /\ end(i) = RightOf(run)
    BY <1>2
  <2> HIDE DEF end, run
  <2>2. PaintedTo(AddBackground(t, run, left, right), canvas, cells, left, right, RightOf(run))
    BY <1>3, <2>1, BackgroundAdded
  <2> QED
    BY <2>1, <2>2 DEF run
<1>4. Done(first, end(0))
  <2> DEFINE fill == FillColumns(canvas, left, right, DefaultBackground)
  <2>1. canvas \in [RowPositions -> Pixels(canvas)]
    <3>1. \A c \in RowPositions : canvas[c] \in Pixels(canvas)
      BY DEF Pixels
    <3> QED
      BY <3>1, Zenon
  <2>2. /\ fill \in [RowPositions -> Pixels(canvas)]
        /\ \A c \in RowPositions : fill[c] =
               IF left <= c /\ c < right THEN Filled(DefaultBackground) ELSE canvas[c]
    BY <2>1, FillType DEF Colors
  <2>3. DefaultBackground \in Colors /\ zero \in Nat
        /\ NoPending = [left |-> zero, right |-> zero, color |-> DefaultBackground]
    BY DEF Colors, NoPending
  <2> HIDE DEF fill, zero
  <2>4. /\ first \in Paintings(canvas) /\ first.canvas = fill /\ first.pending = NoPending
        /\ NoPending.left = zero /\ NoPending.right = zero
    BY <2>2, <2>3, PaintingRecord DEF fill
  <2> HIDE DEF first
  <2>5. ASSUME NEW c \in RowPositions
        PROVE  Shown(first, c) = Goal(canvas, cells, left, right, 0, c)
    <3>1. c \in Nat /\ ~(zero <= c /\ c < zero) /\ ~(c < 0)
      BY <1>1 DEF RowPositions, zero
    <3> QED
      BY <2>2, <2>4, <3>1 DEF Shown, Goal
  <2> QED
    BY <2>4, <2>5 DEF PaintedTo
<1>5. PaintBackgrounds(canvas, runs, left, right) = Flushed(painting[n]).canvas
  BY DEF PaintBackgrounds
<1>6. end(n) = RowColumns
  BY <1>1 DEF Split
<1> HIDE DEF first, next, end
<1>7. \E f : /\ f \in [0 .. n -> V] /\ f[0] = first
             /\ \A i \in 1 .. n : f[i] = next(i, f[i - 1])
  <2> DEFINE any(i, t) == IF next(i, t) \in V THEN next(i, t) ELSE t
             step == [x \in (1 .. n) \X V |-> any(x[1], x[2])]
  <2>1. first \in V
    BY <1>4 DEF PaintedTo
  <2>2. ASSUME NEW i \in 1 .. n, NEW t \in V PROVE any(i, t) \in V
    OBVIOUS
  <2> HIDE DEF any, V
  <2>3. step \in Steps(n, V) /\ \A i \in 1 .. n, t \in V : step[<<i, t>>] = any(i, t)
    BY <2>2 DEF Steps
  <2> HIDE DEF step, n
  <2>4. PICK f : Recursive(f, n, V, first, step)
    BY <1>1, <2>1, <2>3, Recursion
  <2>5. f \in [0 .. n -> V] /\ f[0] = first /\ \A i \in 1 .. n : f[i] = any(i, f[i - 1])
    <3>1. f \in [0 .. n -> V] /\ f[0] = first /\ \A i \in 1 .. n : f[i] = step[<<i, f[i - 1]>>]
      BY <2>4 DEF Recursive
    <3>2. \A i \in 1 .. n : i - 1 \in 0 .. n
      BY <1>1
    <3> QED
      BY <2>3, <3>1, <3>2
  <2> DEFINE S == {i \in Nat : i <= n => Done(f[i], end(i))}
  <2>6. ASSUME NEW i \in 1 .. n, Done(f[i - 1], end(i - 1))
        PROVE  f[i] = next(i, f[i - 1]) /\ Done(f[i], end(i))
    <3> DEFINE t == f[i - 1]
    <3>1. Done(next(i, t), end(i))
      <4> HIDE DEF t
      <4> QED
        BY <1>3, <2>6 DEF n, t
    <3>2. next(i, t) \in V
      BY <3>1 DEF PaintedTo, V
    <3>3. f[i] = next(i, t)
      BY <2>5, <3>2 DEF any
    <3> QED
      BY <3>1, <3>3
  <2>7. 0 \in S
    BY <1>4, <2>5
  <2>8. ASSUME NEW i \in Nat, i \in S PROVE i + 1 \in S
    <3> SUFFICES ASSUME i + 1 <= n PROVE Done(f[i + 1], end(i + 1))
      OBVIOUS
    <3>1. i + 1 \in 1 .. n /\ (i + 1) - 1 = i /\ i <= n
      BY <1>1
    <3>2. Done(f[(i + 1) - 1], end((i + 1) - 1))
      BY <2>8, <3>1
    <3> QED
      BY <2>6, <3>1, <3>2
  <2>9. Nat \subseteq S
    <3> HIDE DEF S
    <3> QED
      BY <2>7, <2>8, Induction
  <2>10. ASSUME NEW i \in 1 .. n PROVE f[i] = next(i, f[i - 1])
    <3>1. i - 1 \in Nat /\ i - 1 <= n
      BY <1>1
    <3>2. Done(f[i - 1], end(i - 1))
      BY <2>9, <3>1
    <3> QED
      BY <2>6, <3>2
  <2> QED
    BY <2>5, <2>10
<1>8. PICK f : /\ f \in [0 .. n -> V] /\ f[0] = first
               /\ \A i \in 1 .. n : f[i] = next(i, f[i - 1])
  BY <1>7
<1> HIDE DEF V
<1>9. painting = [i \in 0 .. n |-> IF i = 0 THEN first ELSE next(i, painting[i - 1])]
  <2>1. \A i \in 0 .. n : f[i] = IF i = 0 THEN first ELSE next(i, f[i - 1])
    <3>1. \A i \in 0 .. n : i # 0 => i \in 1 .. n
      BY <1>1
    <3> QED
      BY <1>8, <3>1, Zenon
  <2>2. f = [i \in 0 .. n |-> IF i = 0 THEN first ELSE next(i, f[i - 1])]
    BY <1>8, <2>1
  <2> QED
    BY <2>2 DEF first, next
<1> HIDE DEF painting, n
<1>10. painting[0] = first /\ \A i \in 1 .. n : painting[i] = next(i, painting[i - 1])
  <2>1. 0 \in 0 .. n /\ \A i \in 1 .. n : i \in 0 .. n /\ i # 0
    BY <1>1
  <2> QED
    BY <1>9, <2>1, Zenon
<1> DEFINE S == {i \in Nat : i <= n => Done(painting[i], end(i))}
<1>11. 0 \in S
  BY <1>4, <1>10
<1>12. ASSUME NEW i \in Nat, i \in S PROVE i + 1 \in S
  <2> SUFFICES ASSUME i + 1 <= n PROVE Done(painting[i + 1], end(i + 1))
    OBVIOUS
  <2> DEFINE k == i + 1
  <2>1. k \in 1 .. n /\ k - 1 = i /\ i <= n
    BY <1>1
  <2> HIDE DEF k
  <2>2. Done(painting[k - 1], end(k - 1)) /\ painting[k] = next(k, painting[k - 1])
    BY <1>10, <1>12, <2>1
  <2>3. Done(painting[k], end(k))
    BY <1>3, <2>1, <2>2 DEF n
  <2> QED
    BY <2>3 DEF k
<1>13. Done(painting[n], RowColumns)
  <2>1. Nat \subseteq S
    <3> HIDE DEF S
    <3> QED
      BY <1>11, <1>12, Induction
  <2> QED
    BY <1>1, <1>6, <2>1 DEF n
<1> DEFINE t == painting[n]
           z == Flushed(t).canvas
<1>14. t \in Paintings(canvas) /\ \A c \in RowPositions :
           Shown(t, c) = Goal(canvas, cells, left, right, RowColumns, c)
  BY <1>13 DEF PaintedTo
<1> HIDE DEF t
<1>15. Flushed(t) \in Paintings(canvas) /\ \A c \in RowPositions : z[c] = Shown(t, c)
  BY <1>14, FlushedShows
<1>16. z = [c \in RowPositions |-> z[c]]
  <2>1. z \in [RowPositions -> Pixels(canvas)]
    BY <1>15, PaintingFields
  <2> HIDE DEF z
  <2> QED
    BY <2>1
<1>17. \A c \in RowPositions : z[c] =
           IF left <= c /\ c < right
           THEN Filled(RowStyles[cells[c].style].background) ELSE canvas[c]
  <2>1. \A c \in RowPositions : c < RowColumns
    BY <1>1 DEF RowPositions
  <2> HIDE DEF z
  <2> QED
    BY <1>14, <1>15, <2>1 DEF Goal
<1> QED
  BY <1>5, <1>16, <1>17 DEF t, n

-----------------------------------------------------------------------------
(* The cache stays within its limits                                        *)

EntryBytes == [k \in DOMAIN glyph_runs |-> glyph_runs[k].bytes]

\* The columns of the bitmap that is made for a key.
KeyColumns(key) ==
    LET ink == InkOf(key.text, key.foreground)
    IN [i \in 1 .. Larger(key.cell_count, Len(ink)) |->
           [background |-> key.background,
            ink  |-> IF i \in DOMAIN ink THEN ink[i] ELSE NoInk,
            line |-> FALSE]]

\* The bitmaps of the cache are as large as they were made, and show what their
\* keys say.
EntriesOK ==
    \A key \in DOMAIN glyph_runs :
        /\ glyph_runs[key].bytes \in Nat
        /\ glyph_runs[key].bitmap.cell_width = cell_width
        /\ glyph_runs[key].bytes = BitmapBytes(glyph_runs[key].bitmap)
        /\ glyph_runs[key].bitmap.columns = KeyColumns(key)

CacheOK ==
    /\ ListsAll(glyph_run_lru, DOMAIN glyph_runs)
    /\ EntriesOK
    /\ glyph_run_cache_bytes = CostOf(EntryBytes, glyph_run_lru)
    /\ glyph_run_cache_bytes <= MaxBytes
    /\ Len(glyph_run_lru) <= MaxEntries

\* What is drawn are parts of the row.
RowOK ==
    /\ RowOf(packed_row, RowColumns)
    /\ row_runs \in Seq(Drawable(packed_row))

GlyphIInv == RowOK /\ cell_width \in CellWidths /\ CacheOK

LEMMA BytesAreCosts ==
    ASSUME NEW keys \in Seq(DOMAIN glyph_runs)
    PROVE  BytesOf(keys) = CostOf(EntryBytes, keys)
<1>1. \A i \in 1 .. Len(keys) : keys[i] \in DOMAIN glyph_runs
  BY ElementOfSeq
<1>2. Costs(EntryBytes, keys) = [i \in 1 .. Len(keys) |-> glyph_runs[keys[i]].bytes]
  BY <1>1 DEF Costs, EntryBytes
<1> QED
  BY <1>2 DEF BytesOf, CostOf

LEMMA EntryBytesType == ASSUME EntriesOK PROVE EntryBytes \in [DOMAIN glyph_runs -> Nat]
BY DEF EntriesOK, EntryBytes

\* The text of a run is a piece of the row's.
LEMMA DrawableText ==
    ASSUME NEW row, RowOf(row, RowColumns), NEW run \in Drawable(row)
    PROVE  Piece(row, run.offset, run.length) \in Texts
<1> DEFINE n == RowColumns
           first == row.cells[run.left]
           last == row.cells[run.left + run.count - 1]
           t == row.text
           a == run.offset
           z == run.length
<1>1. /\ run \in Runs /\ Covers(row.cells, run) /\ RightOf(run) <= n /\ n \in Nat
  BY SizeAssumption DEF Drawable
<1>2. /\ run.left \in Nat /\ run.count \in Nat /\ a \in Nat /\ z \in Int
      /\ RightOf(run) = run.left + run.count /\ run.count > 0
  BY <1>1, RunTypes DEF Covers
<1>3. /\ run.left \in 0 .. n - 1 /\ run.left + run.count - 1 \in 0 .. n - 1
      /\ run.left <= run.left + run.count - 1
  BY <1>1, <1>2
<1>4. first \in Cells /\ last \in Cells /\ EndOf(last) <= Len(t) /\ t \in Texts
  BY <1>3 DEF RowOf, Contiguous
<1>5. first.offset <= last.offset
  <2> DEFINE b == run.left + run.count - 1
  <2>1. b \in 0 .. n - 1 /\ run.left <= b
    BY <1>3
  <2> HIDE DEF b
  <2>2. row.cells[run.left].offset <= row.cells[b].offset
    BY <1>1, <1>3, <2>1, CellsInOrder DEF RowOf
  <2> QED
    BY <2>2 DEF b
<1>6. a = first.offset /\ a + z = EndOf(last)
  BY <1>1 DEF Covers
<1>7. first.offset \in Nat /\ last.offset \in Nat /\ EndOf(last) \in Nat /\ last.offset <= EndOf(last)
  BY <1>4, CellTypes
<1>8. Piece(row, a, z) = SubSeq(t, a + 1, a + z)
  BY DEF Piece
<1>9. Len(t) \in Nat
  BY <1>4, LenProperties DEF Texts
<1> HIDE DEF first, last, a, z, t
<1>10. z \in Nat /\ a + z <= Len(t)
  BY <1>2, <1>4, <1>5, <1>6, <1>7, <1>9
<1>11. SubSeq(t, a + 1, a + z) \in Texts
  BY <1>2, <1>4, <1>10, PieceFacts
<1> QED
  BY <1>8, <1>11 DEF a, z

\* The bytes of a new bitmap are a number, and it shows what its key says.
LEMMA BitmapMade ==
    ASSUME RowOK, cell_width \in CellWidths, NEW run \in Drawable(packed_row)
    PROVE  /\ BitmapBytes(GlyphBitmap(run)) \in Nat
           /\ GlyphBitmap(run).cell_width = cell_width
           /\ GlyphBitmap(run).columns = KeyColumns(GlyphRunKey(run))
<1> DEFINE text == TextOf(run)
           ink == InkOf(text, StyleOf(run).foreground)
           n == Larger(run.count, Len(ink))
<1>1. run.count \in Nat
  BY RunTypes DEF Drawable
<1>2. text \in Texts
  BY DrawableText DEF RowOK, TextOf
<1>3. Len(ink) \in Nat
  <2> DEFINE color == StyleOf(run).foreground
  <2> HIDE DEF color, text
  <2>1. InkOf(text, color) \in Seq(Inks(color))
    BY <1>2, InkOfType
  <2> QED
    BY <2>1, LenProperties DEF color
<1>4. n \in Nat
  <2> HIDE DEF ink
  <2> QED
    BY <1>1, <1>3 DEF Larger
<1>5. Len(GlyphBitmap(run).columns) = n /\ GlyphBitmap(run).cell_width = cell_width
  <2> DEFINE column == [i \in 1 .. n |-> [background |-> StyleOf(run).background,
                                         ink  |-> IF i \in DOMAIN ink THEN ink[i] ELSE NoInk,
                                         line |-> FALSE]]
  <2>1. GlyphBitmap(run) = [columns |-> column, cell_width |-> cell_width]
    BY DEF GlyphBitmap
  <2>2. DOMAIN column = 1 .. n
    OBVIOUS
  <2>3. column \in Seq({column[i] : i \in 1 .. n}) /\ Len(column) = n
    <3>1. column \in [1 .. n -> {column[i] : i \in 1 .. n}]
      <4>1. column = [i \in 1 .. n |-> column[i]]
        OBVIOUS
      <4> HIDE DEF column, n
      <4> QED
        BY <4>1
    <3> HIDE DEF column, n
    <3> QED
      BY <1>4, <3>1, FunctionSeq
  <2> HIDE DEF column, n
  <2> QED
    BY <2>1, <2>3
<1>6. cell_width \in Nat /\ BytesPerPixel \in Nat
  BY SizeAssumption, CacheAssumption
<1> HIDE DEF n
<1>7. n * cell_width * BytesPerPixel \in Nat
  BY <1>4, <1>6
<1>8. GlyphBitmap(run).columns = KeyColumns(GlyphRunKey(run))
  <2> DEFINE key == GlyphRunKey(run)
  <2>1. /\ key.text = text /\ key.foreground = StyleOf(run).foreground
        /\ key.background = StyleOf(run).background /\ key.cell_count = run.count
    BY DEF GlyphRunKey
  <2> HIDE DEF key
  <2>2. KeyColumns(key) = [i \in 1 .. Larger(run.count, Len(ink)) |->
                              [background |-> StyleOf(run).background,
                               ink  |-> IF i \in DOMAIN ink THEN ink[i] ELSE NoInk,
                               line |-> FALSE]]
    BY <2>1 DEF KeyColumns
  <2> QED
    BY <2>2 DEF GlyphBitmap, key
<1> QED
  BY <1>5, <1>7, <1>8 DEF BitmapBytes

\* A hit keeps the cache as it is, but for the order.
LEMMA HitKeepsCache ==
    ASSUME CacheOK, NEW key, UseCached(key), cell_width' = cell_width
    PROVE  CacheOK'
<1> DEFINE K == DOMAIN glyph_runs
           keys == glyph_run_lru
           cost == EntryBytes
<1>1. PICK i \in DOMAIN keys : keys[i] = key /\ glyph_run_lru' = <<key>> \o RemoveAt(keys, i)
  BY DEF UseCached
<1>2. glyph_runs' = glyph_runs /\ glyph_run_cache_bytes' = glyph_run_cache_bytes
  BY DEF UseCached
<1>3. ListsAll(keys, K) /\ cost \in [K -> Nat]
  BY EntryBytesType DEF CacheOK
<1>4. i \in 1 .. Len(keys)
  <2> HIDE DEF keys, K, cost
  <2>1. keys \in Seq(K)
    BY <1>3 DEF ListsAll
  <2>2. DOMAIN keys = 1 .. Len(keys)
    BY <2>1
  <2> QED
    BY <1>1, <2>2
<1> DEFINE moved == <<keys[i]>> \o RemoveAt(keys, i)
<1>5. ListsAll(moved, K) /\ Len(moved) = Len(keys) /\ CostOf(cost, moved) = CostOf(cost, keys)
  <2> HIDE DEF K, keys, cost
  <2> QED
    BY <1>3, <1>4, MovedToFront
<1>6. glyph_run_lru' = moved
  BY <1>1
<1>7. EntryBytes' = EntryBytes /\ EntriesOK'
  BY <1>2 DEF EntryBytes, EntriesOK, CacheOK, BitmapBytes
<1> HIDE DEF moved
<1>8. /\ ListsAll(glyph_run_lru', DOMAIN glyph_runs') /\ Len(glyph_run_lru') <= MaxEntries
      /\ glyph_run_cache_bytes' = CostOf(EntryBytes', glyph_run_lru')
      /\ glyph_run_cache_bytes' <= MaxBytes
  BY <1>2, <1>5, <1>6, <1>7 DEF CacheOK
<1> QED
  BY <1>7, <1>8 DEF CacheOK

\* An insertion first makes room: an entry fewer than the limit stay, and no
\* more bytes than the bitmap leaves.
LEMMA InsertKeepsCache ==
    ASSUME CacheOK, NEW key, NEW bitmap, bitmap.cell_width = cell_width,
           BitmapBytes(bitmap) \in Nat, bitmap.columns = KeyColumns(key),
           Insert(key, bitmap), cell_width' = cell_width
    PROVE  CacheOK'
<1> DEFINE K == DOMAIN glyph_runs
           keys == glyph_run_lru
           n == Len(keys)
           cost == EntryBytes
           bytes == BitmapBytes(bitmap)
           after(k) == glyph_run_cache_bytes - BytesOf(SubSeq(keys, k + 1, n))
           T == {k \in 0 .. n : k = 0 \/ (k < MaxEntries /\ after(k) <= MaxBytes - bytes)}
           m == EntriesThatStay(bytes)
           stay == SubSeq(keys, 1, m)
           gone == SubSeq(keys, m + 1, n)
           new == <<key>> \o stay
           L == Range(stay) \cup {key}
<1>1. /\ ListsAll(keys, K) /\ cost \in [K -> Nat] /\ n \in Nat
      /\ glyph_run_cache_bytes = CostOf(cost, keys)
  BY EntryBytesType, LenProperties DEF CacheOK, ListsAll
<1>2. m = Max(T)
  BY DEF EntriesThatStay
<1>3. m \in T
  <2>1. T \subseteq 0 .. n /\ 0 \in T
    BY <1>1
  <2> HIDE DEF T, n
  <2>2. T # {}
    BY <2>1
  <2> QED
    BY <1>1, <1>2, <2>1, <2>2, GreatestOf
<1>4. m \in 0 .. n /\ (m = 0 \/ (m < MaxEntries /\ after(m) <= MaxBytes - bytes))
  BY <1>3
<1> HIDE DEF m, T
<1>5. key \notin K /\ MaxEntries > 0 /\ bytes <= MaxBytes /\ MaxEntries \in Nat /\ MaxBytes \in Nat
  BY CacheAssumption DEF Insert
<1>6. /\ ListsAll(new, L) /\ Len(stay) = m /\ Len(new) = 1 + m
      /\ stay \in Seq(K) /\ gone \in Seq(K) /\ Range(stay) \subseteq K
      /\ CostOf(cost, keys) = CostOf(cost, stay) + CostOf(cost, gone)
      /\ CostOf(cost, stay) \in Nat /\ CostOf(cost, gone) \in Nat
  <2>1. m \in 0 .. Len(keys)
    BY <1>4
  <2> HIDE DEF K, keys, cost
  <2>2. /\ PutBefore(K, keys, key, cost, SubSeq(keys, 1, m), SubSeq(keys, m + 1, Len(keys)))
        /\ Len(SubSeq(keys, 1, m)) = m
    BY <1>1, <1>5, <2>1, PutInFront
  <2>3. PutBefore(K, keys, key, cost, stay, gone) /\ Len(stay) = m
    BY <2>2
  <2> HIDE DEF stay, gone
  <2> QED
    BY <2>3 DEF PutBefore
<1>7. BytesOf(gone) = CostOf(cost, gone)
  <2> HIDE DEF gone
  <2> QED
    BY <1>6, BytesAreCosts
<1>8. /\ glyph_runs' = [k \in L |-> IF k = key THEN [bitmap |-> bitmap, bytes |-> bytes]
                                    ELSE glyph_runs[k]]
      /\ glyph_run_lru' = new
      /\ glyph_run_cache_bytes' = (glyph_run_cache_bytes - BytesOf(gone)) + bytes
  BY <1>6 DEF Insert, m
<1>9. EntriesOK'
  <2> SUFFICES ASSUME NEW k \in L
               PROVE  /\ glyph_runs'[k].bytes \in Nat
                      /\ glyph_runs'[k].bitmap.cell_width = cell_width
                      /\ glyph_runs'[k].bytes = Len(glyph_runs'[k].bitmap.columns)
                             * glyph_runs'[k].bitmap.cell_width * BytesPerPixel
                      /\ glyph_runs'[k].bitmap.columns = KeyColumns(k)
    BY <1>8 DEF EntriesOK, BitmapBytes
  <2>1. CASE k = key
    <3>1. glyph_runs'[k].bitmap = bitmap /\ glyph_runs'[k].bytes = bytes
      BY <1>8, <2>1
    <3>2. glyph_runs'[k].bitmap.columns = KeyColumns(k)
      BY <2>1, <3>1
    <3> QED
      BY <3>1, <3>2 DEF BitmapBytes
  <2>2. CASE k # key
    <3>1. glyph_runs'[k] = glyph_runs[k] /\ k \in DOMAIN glyph_runs
      BY <1>6, <1>8, <2>2
    <3> QED
      BY <3>1 DEF CacheOK, EntriesOK, BitmapBytes
  <2> QED
    BY <2>1, <2>2
<1> DEFINE other == EntryBytes'
<1>10. /\ other \in [L -> Nat] /\ other[key] = bytes /\ \A k \in Range(stay) : other[k] = cost[k]
  <2>1. DOMAIN glyph_runs' = L /\ glyph_runs'[key].bytes = bytes
    BY <1>8
  <2>2. other \in [L -> Nat]
    BY <1>9, <2>1 DEF EntriesOK, EntryBytes
  <2>3. \A k \in Range(stay) : k # key /\ k \in K /\ k \in L
    BY <1>5, <1>6
  <2>4. \A k \in Range(stay) : glyph_runs'[k] = glyph_runs[k]
    BY <1>8, <2>3
  <2> QED
    BY <2>1, <2>2, <2>3, <2>4 DEF EntryBytes
<1>11. CostOf(other, new) = bytes + CostOf(cost, stay)
  <2> DEFINE x == <<key>>
  <2>1. x \in Seq(L) /\ CostOf(other, x) = other[key]
    <3> HIDE DEF other
    <3> QED
      BY <1>10, CostsOfOne
  <2>2. stay \in Seq(L)
    <3> DEFINE k == Len(stay)
    <3>1. k \in Nat /\ stay = [j \in 1 .. k |-> stay[j]] /\ DOMAIN stay = 1 .. k
      BY <1>6, LenProperties
    <3>2. \A j \in 1 .. k : stay[j] \in L
      BY <3>1 DEF Range
    <3> HIDE DEF k, stay, L
    <3>3. stay \in [1 .. k -> L]
      BY <3>1, <3>2
    <3> QED
      BY <3>1, <3>3, FunctionSeq
  <2>3. CostOf(other, stay) = CostOf(cost, stay)
    <3> HIDE DEF other, cost, stay
    <3> QED
      BY <1>6, <1>10, SameCosts
  <2> HIDE DEF other, x, stay, L, cost
  <2>4. CostOf(other, x \o stay) = CostOf(other, x) + CostOf(other, stay)
    BY <1>10, <2>1, <2>2, CostsConcat
  <2> QED
    BY <1>10, <2>1, <2>3, <2>4 DEF x
<1>12. /\ glyph_run_cache_bytes' = CostOf(other, new)
       /\ glyph_run_cache_bytes' <= MaxBytes
  <2> DEFINE a == CostOf(cost, stay)
             b == CostOf(cost, gone)
  <2>1. /\ a \in Nat /\ b \in Nat /\ glyph_run_cache_bytes = a + b
        /\ glyph_run_cache_bytes' = (glyph_run_cache_bytes - b) + bytes
        /\ CostOf(other, new) = bytes + a
    BY <1>1, <1>6, <1>7, <1>8, <1>11
  <2>2. m = 0 \/ glyph_run_cache_bytes - b <= MaxBytes - bytes
    BY <1>4, <1>7
  <2>3. m = 0 => a = 0
    <3>1. m = 0 => Costs(cost, stay) = <<>>
      BY <1>6 DEF Costs
    <3> QED
      BY <3>1, TotalSmall DEF CostOf
  <2> HIDE DEF a, b, bytes
  <2> QED
    BY <1>5, <2>1, <2>2, <2>3 DEF bytes
<1>13. Len(new) <= MaxEntries
  <2>1. m \in Nat /\ (m = 0 \/ m < MaxEntries)
    BY <1>1, <1>4
  <2> HIDE DEF new
  <2> QED
    BY <1>5, <1>6, <2>1
<1>14. ListsAll(glyph_run_lru', DOMAIN glyph_runs')
  <2>1. DOMAIN glyph_runs' = L
    BY <1>8
  <2> QED
    BY <1>6, <1>8, <2>1
<1> HIDE DEF new
<1> QED
  BY <1>8, <1>9, <1>12, <1>13, <1>14 DEF CacheOK

\* A cell the row may have is one a row can be rebuilt from.
LEMMA LayoutCells ==
    ASSUME NEW cells \in Layouts
    PROVE  /\ DOMAIN cells = RowPositions
           /\ \A c \in RowPositions : cells[c] \in Decoded
           /\ \A c \in RowPositions : cells[c].width = 0 => c > 0 /\ cells[c - 1].width = 2
<1>1. /\ cells \in [RowPositions -> RowCells]
      /\ \A c \in RowPositions : cells[c].width = 0 => c > 0 /\ cells[c - 1].width = 2
  BY DEF Layouts
<1>2. ASSUME NEW c \in RowPositions PROVE cells[c] \in Decoded
  <2> DEFINE cell == cells[c]
  <2>1. cell \in [text : Seq(STRING), style : DOMAIN RowStyles, width : 0 .. 2]
    BY <1>1, CellsAssumption
  <2>2. STRING \subseteq Characters
    BY DEF Characters
  <2>3. cell.text \in Texts /\ cell.style \in Nat /\ cell.width \in Nat
    <3>1. cell.text \in Seq(STRING) /\ cell.style \in DOMAIN RowStyles /\ cell.width \in 0 .. 2
      BY <2>1
    <3> DEFINE text == cell.text
               n == Len(text)
    <3>2. text \in Seq(STRING) /\ n \in Nat /\ text = [i \in 1 .. n |-> text[i]]
      BY <3>1, LenProperties
    <3>3. \A i \in 1 .. n : text[i] \in STRING
      BY <3>2, ElementOfSeq
    <3> HIDE DEF text, n
    <3>4. text \in [1 .. n -> Characters]
      BY <2>2, <3>2, <3>3
    <3>5. text \in Seq(Characters)
      BY <3>2, <3>4, FunctionSeq
    <3> QED
      BY <3>1, <3>5, CellsAssumption DEF Texts, text
  <2>4. cell = [text |-> cell.text, style |-> cell.style, width |-> cell.width]
    BY <2>1
  <2> HIDE DEF cell
  <2>5. [text |-> cell.text, style |-> cell.style, width |-> cell.width] \in Decoded
    <3> DEFINE t == cell.text
               s == cell.style
               w == cell.width
    <3>1. t \in Texts /\ s \in Nat /\ w \in Nat
      BY <2>3
    <3> HIDE DEF t, s, w
    <3>2. [text |-> t, style |-> s, width |-> w] \in Decoded
      BY <3>1, DecodedRecord
    <3> QED
      BY <3>2 DEF t, s, w
  <2> QED
    BY <2>4, <2>5 DEF cell
<1> QED
  BY <1>1, <1>2

LEMMA BeginKeepsRow ==
    ASSUME RowOK, NEW cells \in Layouts, NEW region, NEW scrolled, BeginRow(cells, region, scrolled)
    PROVE  RowOK'
<1> DEFINE n == RowColumns
           row == RebuiltRow(packed_row, cells)
<1>1. n \in Nat /\ n > 0 /\ RowPositions = 0 .. n - 1
  BY SizeAssumption DEF RowPositions
<1>2. RowOf(packed_row, n)
  BY DEF RowOK
<1>3. /\ DOMAIN cells = 0 .. n - 1
      /\ \A c \in 0 .. n - 1 : cells[c] \in Decoded
      /\ \A c \in 0 .. n - 1 : cells[c].width = 0 => c > 0 /\ cells[c - 1].width = 2
  BY <1>1, LayoutCells
<1> HIDE DEF n
<1>4. /\ RowOf(row, n) /\ Split(row.cells, row.runs, 0, n)
      /\ \A c \in 0 .. n - 1 : row.cells[c].width = cells[c].width
  BY <1>1, <1>2, <1>3, Rebuilt
<1> HIDE DEF row
<1>5. Paired(row.cells, n)
  <2>1. \A c \in 0 .. n - 1 : c > 0 => c - 1 \in 0 .. n - 1
    BY <1>1
  <2> QED
    BY <1>3, <1>4, <2>1 DEF Paired
<1> DEFINE runs == RunsToDraw(row, ~scrolled)
           zero == 0
<1>6. Split(row.cells, runs, zero, n)
  BY <1>4, <1>5, RunsToDrawSplit DEF n
<1>7. runs \in Seq(Drawable(row))
  <2>1. n \in Nat /\ n <= RowColumns
    BY <1>1 DEF n
  <2> HIDE DEF zero, runs
  <2> QED
    BY <1>6, <2>1, SplitDrawable
<1>8. packed_row' = row /\ row_runs' = RunsWithin(runs, region[1], region[2])
  BY DEF BeginRow, row
<1>9. row_runs' \in Seq(Drawable(row))
  <2> DEFINE D == Drawable(row)
  <2>1. zero \in Nat /\ n \in Nat
    BY <1>1
  <2> HIDE DEF D, runs, zero
  <2> QED
    BY <1>6, <1>7, <1>8, <2>1, WithinFacts DEF D
<1> HIDE DEF runs, zero
<1> QED
  BY <1>4, <1>8, <1>9 DEF RowOK, n, Drawable

LEMMA EmptyCache ==
    ASSUME glyph_runs' = <<>>, glyph_run_lru' = <<>>, glyph_run_cache_bytes' = 0
    PROVE  CacheOK'
<1>1. DOMAIN glyph_runs' = {}
  BY DOMAIN <<>> = {}
<1>2. ListsAll(glyph_run_lru', DOMAIN glyph_runs') /\ Len(glyph_run_lru') = 0
  BY <1>1 DEF ListsAll
<1>3. EntriesOK'
  BY <1>1 DEF EntriesOK
<1>4. CostOf(EntryBytes', glyph_run_lru') = 0
  BY TotalSmall DEF CostOf, Costs
<1> QED
  BY <1>1, <1>2, <1>3, <1>4, CacheAssumption DEF CacheOK

LEMMA GlyphInitOK == ASSUME GlyphInit PROVE GlyphIInv
<1>1. RowOf(packed_row, RowColumns)
  <2>1. RowColumns \in Nat /\ RowColumns > 0
    BY SizeAssumption
  <2> QED
    BY <2>1, Blank DEF GlyphInit
<1>2. row_runs \in Seq(Drawable(packed_row)) /\ cell_width \in CellWidths
  BY DEF GlyphInit
<1>3. DOMAIN glyph_runs = {} /\ glyph_run_lru = <<>> /\ glyph_run_cache_bytes = 0
  BY DOMAIN <<>> = {} DEF GlyphInit
<1>4. ListsAll(glyph_run_lru, DOMAIN glyph_runs) /\ Len(glyph_run_lru) = 0
  BY <1>3 DEF ListsAll
<1>5. EntriesOK
  BY <1>3 DEF EntriesOK
<1>6. CostOf(EntryBytes, glyph_run_lru) = 0
  BY <1>3, TotalSmall DEF CostOf, Costs
<1> QED
  BY <1>1, <1>2, <1>3, <1>4, <1>5, <1>6, CacheAssumption DEF GlyphIInv, RowOK, CacheOK

LEMMA CacheStays ==
    ASSUME CacheOK, UNCHANGED cacheVars, cell_width' = cell_width
    PROVE  CacheOK'
BY DEF cacheVars, CacheOK, EntriesOK, EntryBytes, BitmapBytes

LEMMA DrawKeeps ==
    ASSUME GlyphIInv, DrawRun
    PROVE  GlyphIInv'
<1> DEFINE run == Head(row_runs)
           key == GlyphRunKey(run)
           bitmap == IF key \in DOMAIN glyph_runs THEN glyph_runs[key].bitmap
                     ELSE GlyphBitmap(run)
<1>1. /\ row_runs # <<>> /\ row_runs' = Tail(row_runs)
      /\ packed_row' = packed_row /\ cell_width' = cell_width
  BY DEF DrawRun
<1>2. row_runs \in Seq(Drawable(packed_row))
  BY DEF GlyphIInv, RowOK
<1>3. run \in Drawable(packed_row) /\ Tail(row_runs) \in Seq(Drawable(packed_row))
  <2> DEFINE D == Drawable(packed_row)
  <2> HIDE DEF D
  <2> QED
    BY <1>1, <1>2, HeadTailProperties DEF D
<1>4. RowOK'
  BY <1>1, <1>3 DEF GlyphIInv, RowOK, Drawable
<1>5. CacheOK /\ cell_width \in CellWidths
  BY DEF GlyphIInv
<1>6. ASSUME UNCHANGED cacheVars PROVE CacheOK'
  <2> HIDE DEF bitmap, key, run
  <2> QED
    BY <1>1, <1>5, <1>6, CacheStays
<1>7. ASSUME UseCached(key) PROVE CacheOK'
  BY <1>1, <1>5, <1>7, HitKeepsCache
<1>8. ASSUME Insert(key, bitmap) PROVE CacheOK'
  <2>1. bitmap = GlyphBitmap(run)
    BY <1>8 DEF Insert
  <2>2. BitmapBytes(bitmap) \in Nat /\ bitmap.cell_width = cell_width
        /\ bitmap.columns = KeyColumns(key)
    <3> HIDE DEF bitmap, run
    <3>1. /\ BitmapBytes(GlyphBitmap(run)) \in Nat
          /\ GlyphBitmap(run).cell_width = cell_width
          /\ GlyphBitmap(run).columns = KeyColumns(GlyphRunKey(run))
      BY <1>3, <1>5, BitmapMade DEF GlyphIInv
    <3> QED
      BY <2>1, <3>1
  <2> HIDE DEF bitmap, key, run
  <2> QED
    BY <1>1, <1>5, <1>8, <2>2, InsertKeepsCache
<1>9. UNCHANGED cacheVars \/ UseCached(key) \/ Insert(key, bitmap)
  <2>1. \/ UNCHANGED cacheVars \/ UseCached(key) \/ Insert(key, bitmap)
        \/ UseScratch(key, bitmap)
    BY Zenon DEF DrawRun
  <2> HIDE DEF bitmap, key, run
  <2> QED
    BY <2>1 DEF UseScratch
<1>10. CacheOK'
  BY <1>6, <1>7, <1>8, <1>9
<1> QED
  BY <1>1, <1>4, <1>5, <1>10 DEF GlyphIInv

LEMMA GlyphStep ==
    ASSUME GlyphIInv, [GlyphNext]_glyphVars
    PROVE  GlyphIInv'
<1>1. ASSUME NEW cells \in Layouts, NEW region, NEW scrolled, BeginRow(cells, region, scrolled)
      PROVE  GlyphIInv'
  <2>1. RowOK'
    BY <1>1, BeginKeepsRow DEF GlyphIInv
  <2>2. UNCHANGED cacheVars /\ cell_width' = cell_width
    BY <1>1 DEF BeginRow
  <2>3. CacheOK'
    BY <2>2, CacheStays DEF GlyphIInv
  <2> QED
    BY <2>1, <2>2, <2>3 DEF GlyphIInv
<1>2. CASE DrawRun
  BY <1>2, DrawKeeps
<1>3. ASSUME NEW width \in CellWidths, Resized(width)
      PROVE  GlyphIInv'
  <2>1. RowOK' /\ cell_width' \in CellWidths
    BY <1>3 DEF Resized, GlyphIInv, RowOK, Drawable
  <2>2. CASE width = cell_width
    <3>1. UNCHANGED cacheVars /\ cell_width' = cell_width
      BY <1>3, <2>2 DEF Resized
    <3>2. CacheOK'
      BY <3>1, CacheStays DEF GlyphIInv
    <3> QED
      BY <2>1, <3>2 DEF GlyphIInv
  <2>3. CASE width # cell_width
    <3>1. CacheOK'
      BY <1>3, <2>3, EmptyCache DEF Resized
    <3> QED
      BY <2>1, <3>1 DEF GlyphIInv
  <2> QED
    BY <2>2, <2>3
<1>4. CASE UNCHANGED glyphVars
  BY <1>4 DEF glyphVars, cacheVars, GlyphIInv, RowOK, Drawable, CacheOK, EntriesOK, EntryBytes,
              BitmapBytes
<1> QED
  BY <1>1, <1>2, <1>3, <1>4 DEF GlyphNext

LEMMA CacheBounded == GlyphIInv => GlyphCacheBounded
<1> SUFFICES ASSUME GlyphIInv PROVE GlyphCacheBounded
  OBVIOUS
<1>1. CacheOK /\ ListsAll(glyph_run_lru, DOMAIN glyph_runs)
  BY DEF GlyphIInv, CacheOK
<1>2. /\ Range(glyph_run_lru) = DOMAIN glyph_runs
      /\ Len(glyph_run_lru) = Cardinality(DOMAIN glyph_runs)
  BY <1>1, ListedOnce
<1>3. glyph_run_cache_bytes = BytesOf(glyph_run_lru)
  <2>1. glyph_run_lru \in Seq(DOMAIN glyph_runs)
    BY <1>1 DEF ListsAll
  <2>2. BytesOf(glyph_run_lru) = CostOf(EntryBytes, glyph_run_lru)
    BY <2>1, BytesAreCosts
  <2> QED
    BY <1>1, <2>2 DEF CacheOK
<1> QED
  BY <1>1, <1>2, <1>3 DEF GlyphCacheBounded, CacheOK, EntriesOK

\* The cache of glyph runs lists every bitmap once, counts their bytes, holds
\* none of another cell size, and exceeds neither limit, for every row, cell
\* width and limit, a limit of no entry or no byte included.
THEOREM GlyphCacheIsBounded == GlyphSpec => []GlyphCacheBounded
<1>1. GlyphInit => GlyphIInv
  BY GlyphInitOK
<1>2. GlyphIInv /\ [GlyphNext]_glyphVars => GlyphIInv'
  BY GlyphStep
<1>3. GlyphIInv => GlyphCacheBounded
  BY CacheBounded
<1> QED
  BY <1>1, <1>2, <1>3, PTL DEF GlyphSpec

-----------------------------------------------------------------------------
(* A painted row shows its cells                                            *)

\* Is the ink of a column still to be drawn?
InkWaits(c) ==
    /\ dirty_columns[1] <= c /\ c < dirty_columns[2]
    /\ \E i \in 1 .. Len(row_runs) : c \in CellsOf(row_runs[i])

\* A column of the bitmap with the background of a cell and an ink.
ColumnShows(column, cell, ink) ==
    \E line \in BOOLEAN :
        /\ column = [background |-> RowStyles[cell.style].background, ink |-> ink, line |-> line]
        /\ line => RowStyles[cell.style].underline

\* From the first frame on, the columns have the backgrounds of the cells of the
\* row, and their ink too where no run that waits is still to draw it; and what
\* waits are whole runs, in the order of the row.
PaintInv ==
    /\ framebuffer = [c \in RowPositions |-> framebuffer[c]]
    /\ ~framebuffer_valid => row_runs = <<>>
    /\ framebuffer_valid =>
           /\ dirty_columns[1] \in Nat /\ dirty_columns[2] \in Nat
           /\ LaidOut(packed_row) /\ AllWhole(packed_row, row_runs) /\ Ordered(row_runs)
           /\ \A c \in RowPositions :
                  ColumnShows(framebuffer[c], packed_row.cells[c],
                        IF InkWaits(c) THEN NoInk ELSE RowInk(packed_row, c))

LEMMA CellsOfRun ==
    ASSUME NEW run \in Runs, NEW c \in Int
    PROVE  c \in CellsOf(run) <=> run.left <= c /\ c < RightOf(run)
<1>1. run.left \in Nat /\ run.count \in Nat /\ RightOf(run) = run.left + run.count
  BY RunTypes
<1> QED
  BY <1>1 DEF CellsOf

\* Every column is in one of the pieces that split the row.
LEMMA SplitFinds ==
    ASSUME NEW cells, NEW pieces, NEW to \in Nat, Split(cells, pieces, 0, to), NEW c \in 0 .. to - 1
    PROVE  \E k \in 1 .. Len(pieces) : c \in CellsOf(pieces[k])
<1> DEFINE n == Len(pieces)
           end(k) == IF k = 0 THEN 0 ELSE RightOf(pieces[k])
           S == {k \in Nat : k <= n /\ c < end(k) =>
                     \E i \in 1 .. n : c \in CellsOf(pieces[i])}
<1>1. n \in Nat /\ c \in Nat
  BY LenProperties DEF Split
<1>2. \A k \in 1 .. n : /\ pieces[k] \in Runs /\ end(k) = RightOf(pieces[k])
                        /\ pieces[k].left = end(k - 1)
  BY <1>1 DEF Split, Covers
<1>3. end(n) = to /\ end(0) = 0
  BY <1>1 DEF Split
<1> HIDE DEF n, end
<1>4. 0 \in S
  BY <1>1, <1>3
<1>5. ASSUME NEW k \in Nat, k \in S PROVE k + 1 \in S
  <2> SUFFICES ASSUME k + 1 <= n, c < end(k + 1)
               PROVE  \E i \in 1 .. n : c \in CellsOf(pieces[i])
    OBVIOUS
  <2> DEFINE m == k + 1
             p == pieces[m]
  <2>1. m \in 1 .. n /\ m - 1 = k /\ k <= n
    BY <1>1
  <2>2. p \in Runs /\ end(m) = RightOf(p) /\ p.left = end(k)
    BY <1>2, <2>1
  <2>3. p.left \in Nat
    BY <2>2, RunTypes
  <2>4. CASE c < end(k)
    BY <1>5, <2>1, <2>4
  <2>5. CASE ~(c < end(k))
    <3>1. p.left <= c /\ c < RightOf(p)
      BY <1>1, <2>2, <2>3, <2>5
    <3>2. c \in CellsOf(p)
      <4> HIDE DEF p
      <4> QED
        BY <1>1, <2>2, <3>1, CellsOfRun
    <3> QED
      BY <2>1, <3>2
  <2> QED
    BY <2>4, <2>5
<1>6. n \in S
  <2>1. Nat \subseteq S
    <3> HIDE DEF S
    <3> QED
      BY <1>4, <1>5, Induction
  <2> QED
    BY <1>1, <2>1
<1> QED
  BY <1>1, <1>3, <1>6 DEF n

-----------------------------------------------------------------------------
(* A run is drawn                                                           *)

\* A run, its text or its bitmap, has a column for each of its cells, with its
\* ink.
LEMMA RunColumns ==
    ASSUME RowOK, LaidOut(packed_row), NEW run \in Drawable(packed_row), Whole(packed_row, run)
    PROVE  LET ink == InkOf(TextOf(run), StyleOf(run).foreground)
               columns == KeyColumns(GlyphRunKey(run))
           IN /\ DOMAIN ink = 1 .. run.count /\ DOMAIN columns = 1 .. run.count
              /\ \A c \in CellsOf(run) :
                     /\ c \in RowPositions /\ c - run.left + 1 \in 1 .. run.count
                     /\ ink[c - run.left + 1] = RowInk(packed_row, c)
                     /\ columns[c - run.left + 1] =
                            [background |-> RowStyles[packed_row.cells[c].style].background,
                             ink |-> RowInk(packed_row, c), line |-> FALSE]
<1> DEFINE color == StyleOf(run).foreground
           ink == InkOf(TextOf(run), color)
           n == run.count
           key == GlyphRunKey(run)
           columns == KeyColumns(key)
<1>1. /\ run \in Runs /\ Covers(packed_row.cells, run) /\ RightOf(run) <= RowColumns
      /\ RowOf(packed_row, RowColumns)
  BY DEF Drawable, RowOK
<1>2. /\ ink \in Seq(Inks(color)) /\ Len(ink) = n
      /\ \A j \in 1 .. n : ink[j] = RowInk(packed_row, run.left + j - 1)
  BY <1>1, RunInk DEF TextOf, StyleOf
<1>3. /\ n \in Nat /\ run.left \in Nat /\ RightOf(run) = run.left + n /\ RowColumns \in Nat
  BY <1>1, RunTypes, SizeAssumption
<1>4. DOMAIN ink = 1 .. n
  <2> HIDE DEF ink
  <2> QED
    BY <1>2
<1>5. Larger(n, Len(ink)) = n
  BY <1>2, <1>3 DEF Larger
<1>6. /\ key.text = TextOf(run) /\ key.foreground = color /\ key.cell_count = n
      /\ key.background = StyleOf(run).background
  BY DEF GlyphRunKey
<1>7. columns = [i \in 1 .. n |-> [background |-> StyleOf(run).background,
                                   ink |-> IF i \in DOMAIN ink THEN ink[i] ELSE NoInk,
                                   line |-> FALSE]]
  <2> HIDE DEF key
  <2> QED
    BY <1>5, <1>6 DEF KeyColumns
<1> HIDE DEF columns, ink
<1>8. ASSUME NEW c \in CellsOf(run)
      PROVE  /\ c \in RowPositions /\ c - run.left + 1 \in 1 .. n
             /\ ink[c - run.left + 1] = RowInk(packed_row, c)
             /\ columns[c - run.left + 1] =
                    [background |-> RowStyles[packed_row.cells[c].style].background,
                     ink |-> RowInk(packed_row, c), line |-> FALSE]
  <2> DEFINE j == c - run.left + 1
  <2>1. j \in 1 .. n /\ run.left + j - 1 = c /\ c \in RowPositions
    BY <1>1, <1>3 DEF CellsOf, RowPositions
  <2>2. packed_row.cells[c].style = run.style
    BY <1>1 DEF Covers
  <2> HIDE DEF j, n
  <2>3. ink[j] = RowInk(packed_row, c)
    BY <1>2, <2>1
  <2>4. columns[j] = [background |-> StyleOf(run).background, ink |-> ink[j], line |-> FALSE]
    BY <1>4, <1>7, <2>1
  <2> QED
    BY <2>1, <2>2, <2>3, <2>4 DEF StyleOf, j
<1>9. DOMAIN columns = 1 .. n
  BY <1>7
<1> QED
  BY <1>4, <1>8, <1>9 DEF ink, columns

LEMMA BlankRunColumns ==
    ASSUME RowOK, LaidOut(packed_row), NEW run \in Drawable(packed_row), Whole(packed_row, run),
           ~HasGlyph(run), NEW c \in CellsOf(run)
    PROVE  RowInk(packed_row, c) = NoInk
<1> DEFINE text == TextOf(run)
           color == StyleOf(run).foreground
           ink == InkOf(text, color)
           j == c - run.left + 1
<1>1. text \in Texts
  BY DrawableText DEF RowOK, TextOf
<1>2. \A i \in 1 .. Len(text) : text[i] = SPACE
  <2>1. DOMAIN text = 1 .. Len(text)
    <3> HIDE DEF text
    <3> QED
      BY <1>1 DEF Texts
  <2> QED
    BY <2>1 DEF HasGlyph
<1>3. DOMAIN ink = 1 .. run.count /\ j \in 1 .. run.count /\ ink[j] = RowInk(packed_row, c)
  BY RunColumns
<1> HIDE DEF text, color
<1>4. ink \in Seq(Inks(color)) /\ \A i \in 1 .. Len(ink) : ink[i] = NoInk
  BY <1>1, <1>2, InkOfType, SpacesLeaveNoInk
<1>5. DOMAIN ink = 1 .. Len(ink)
  <2> HIDE DEF ink
  <2> QED
    BY <1>4
<1> QED
  BY <1>3, <1>4, <1>5

\* Ink over a column that has none, or the same already.
LEMMA InkOnColumn ==
    ASSUME NEW column, NEW cell, NEW old, NEW ink, ColumnShows(column, cell, old),
           old \in {NoInk, ink}
    PROVE  ColumnShows([column EXCEPT !.ink = InkOver(@, ink)], cell, ink)
<1> DEFINE b == RowStyles[cell.style].background
<1>1. PICK line \in BOOLEAN :
          /\ column = [background |-> b, ink |-> old, line |-> line]
          /\ line => RowStyles[cell.style].underline
  BY DEF ColumnShows
<1>2. InkOver(old, ink) = ink
  BY DEF InkOver
<1> HIDE DEF b
<1>3. [column EXCEPT !.ink = InkOver(@, ink)] = [background |-> b, ink |-> ink, line |-> line]
  BY <1>1, <1>2
<1> QED
  BY <1>1, <1>3 DEF ColumnShows, b

LEMMA RecordLine ==
    ASSUME NEW b, NEW ink, NEW line, NEW over
    PROVE  [[background |-> b, ink |-> ink, line |-> line] EXCEPT !.line = over]
               = [background |-> b, ink |-> ink, line |-> over]
OBVIOUS

LEMMA LineOnColumn ==
    ASSUME NEW column, NEW cell, NEW ink, ColumnShows(column, cell, ink),
           RowStyles[cell.style].underline
    PROVE  ColumnShows([column EXCEPT !.line = TRUE], cell, ink)
<1> DEFINE b == RowStyles[cell.style].background
           yes == TRUE
<1>1. PICK line \in BOOLEAN : column = [background |-> b, ink |-> ink, line |-> line]
  BY DEF ColumnShows
<1>2. yes \in BOOLEAN
  OBVIOUS
<1> HIDE DEF b, yes
<1>3. [column EXCEPT !.line = yes] = [background |-> b, ink |-> ink, line |-> yes]
  BY <1>1, RecordLine
<1> DEFINE lined == [column EXCEPT !.line = yes]
<1> HIDE DEF lined
<1>4. lined = [background |-> b, ink |-> ink, line |-> yes]
  BY <1>3 DEF lined
<1>5. ColumnShows(lined, cell, ink)
  BY <1>2, <1>4, Zenon DEF ColumnShows, b
<1> QED
  BY <1>5, Zenon DEF lined, yes

\* The columns of a run are drawn, the others stay.
RunDrawn(canvas, run) ==
    /\ canvas = [c \in RowPositions |-> canvas[c]]
    /\ \A c \in RowPositions :
           IF c \in CellsOf(run)
           THEN ColumnShows(canvas[c], packed_row.cells[c], RowInk(packed_row, c))
           ELSE canvas[c] = framebuffer[c]

\* Whether as text or from a bitmap, new or of the cache.
LEMMA RunIsDrawn ==
    ASSUME GlyphIInv, PaintInv, DrawRun
    PROVE  \E canvas : RunDrawn(canvas, Head(row_runs))
                       /\ framebuffer' = Underlined(canvas, Head(row_runs))
<1> DEFINE run == Head(row_runs)
           key == GlyphRunKey(run)
           bitmap == IF key \in DOMAIN glyph_runs THEN glyph_runs[key].bitmap
                     ELSE GlyphBitmap(run)
           text == TextOf(run)
           color == StyleOf(run).foreground
           ink == InkOf(text, color)
           at(c) == c - run.left + 1
<1>1. row_runs # <<>> /\ row_runs \in Seq(Drawable(packed_row))
  BY DEF DrawRun, GlyphIInv, RowOK
<1>2. framebuffer_valid
  BY <1>1 DEF PaintInv
<1>3. run \in Drawable(packed_row) /\ Whole(packed_row, run)
  <2> DEFINE D == Drawable(packed_row)
  <2>1. row_runs # <<>> /\ row_runs \in Seq(D)
    BY <1>1
  <2> HIDE DEF D
  <2>2. Len(row_runs) \in Nat /\ 1 \in 1 .. Len(row_runs) /\ run = row_runs[1] /\ run \in D
    BY <2>1
  <2>3. AllWhole(packed_row, row_runs)
    BY <1>2 DEF PaintInv
  <2> HIDE DEF run
  <2> QED
    BY <2>2, <2>3 DEF D, AllWhole
<1>4. /\ LaidOut(packed_row) /\ RowOK /\ run \in Runs
      /\ framebuffer = [c \in RowPositions |-> framebuffer[c]] /\ DOMAIN framebuffer = RowPositions
  BY <1>2, <1>3 DEF PaintInv, GlyphIInv, Drawable
<1>5. ASSUME NEW c \in RowPositions
      PROVE  \E old : ColumnShows(framebuffer[c], packed_row.cells[c], old)
                      /\ old \in {NoInk, RowInk(packed_row, c)}
  <2>1. ColumnShows(framebuffer[c], packed_row.cells[c],
              IF InkWaits(c) THEN NoInk ELSE RowInk(packed_row, c))
    BY <1>2 DEF PaintInv
  <2>2. (IF InkWaits(c) THEN NoInk ELSE RowInk(packed_row, c)) \in {NoInk, RowInk(packed_row, c)}
    OBVIOUS
  <2> QED
    BY <2>1, <2>2
<1>6. /\ DOMAIN ink = 1 .. run.count /\ DOMAIN KeyColumns(key) = 1 .. run.count
      /\ \A c \in CellsOf(run) :
             /\ at(c) \in 1 .. run.count
             /\ ink[at(c)] = RowInk(packed_row, c)
             /\ KeyColumns(key)[at(c)] =
                    [background |-> RowStyles[packed_row.cells[c].style].background,
                     ink |-> RowInk(packed_row, c), line |-> FALSE]
  BY <1>3, <1>4, RunColumns
<1>7. \A c \in RowPositions : at(c) \in 1 .. run.count <=> c \in CellsOf(run)
  <2>1. run.left \in Nat /\ run.count \in Nat
    BY <1>4, RunTypes
  <2> HIDE DEF run
  <2> QED
    BY <2>1 DEF CellsOf, RowPositions
<1>8. CASE ~HasGlyph(run) /\ framebuffer' = Underlined(framebuffer, run)
  <2>1. ASSUME NEW c \in RowPositions, c \in CellsOf(run)
        PROVE  ColumnShows(framebuffer[c], packed_row.cells[c], RowInk(packed_row, c))
    <3>1. RowInk(packed_row, c) = NoInk
      BY <1>3, <1>4, <1>8, <2>1, BlankRunColumns
    <3> QED
      BY <1>5, <3>1
  <2>2. RunDrawn(framebuffer, run)
    BY <1>4, <2>1 DEF RunDrawn
  <2> QED
    BY <1>8, <2>2
<1>9. CASE framebuffer' = Underlined(DrawText(framebuffer, run.left, text, color), run)
  <2> DEFINE canvas == DrawText(framebuffer, run.left, text, color)
  <2>1. canvas = [c \in RowPositions |->
                     IF at(c) \in DOMAIN ink
                     THEN [framebuffer[c] EXCEPT !.ink = InkOver(@, ink[at(c)])]
                     ELSE framebuffer[c]]
    BY <1>4 DEF DrawText
  <2> HIDE DEF canvas, ink, run
  <2>2. canvas = [c \in RowPositions |-> canvas[c]]
    BY <2>1
  <2>3. ASSUME NEW c \in RowPositions, c \in CellsOf(run)
        PROVE  ColumnShows(canvas[c], packed_row.cells[c], RowInk(packed_row, c))
    <3> DEFINE this == ink[at(c)]
    <3>1. at(c) \in DOMAIN ink /\ this = RowInk(packed_row, c)
      BY <1>6, <2>3
    <3>2. canvas[c] = [framebuffer[c] EXCEPT !.ink = InkOver(@, this)]
      BY <2>1, <3>1
    <3>3. PICK old : ColumnShows(framebuffer[c], packed_row.cells[c], old) /\ old \in {NoInk, this}
      BY <1>5, <3>1
    <3> HIDE DEF this
    <3>4. ColumnShows([framebuffer[c] EXCEPT !.ink = InkOver(@, this)], packed_row.cells[c], this)
      BY <3>3, InkOnColumn
    <3> QED
      BY <3>1, <3>2, <3>4
  <2>4. ASSUME NEW c \in RowPositions, c \notin CellsOf(run) PROVE canvas[c] = framebuffer[c]
    <3>1. at(c) \notin DOMAIN ink
      BY <1>6, <1>7, <2>4
    <3> QED
      BY <2>1, <3>1
  <2>5. RunDrawn(canvas, run)
    BY <2>2, <2>3, <2>4 DEF RunDrawn
  <2> QED
    BY <1>9, <2>5 DEF canvas, run
<1>10. bitmap.columns = KeyColumns(key)
  <2>1. CASE key \in DOMAIN glyph_runs
    BY <2>1 DEF GlyphIInv, CacheOK, EntriesOK
  <2>2. CASE key \notin DOMAIN glyph_runs
    BY <1>3, <1>4, <2>2, BitmapMade DEF GlyphIInv
  <2> QED
    BY <2>1, <2>2
<1>11. CASE framebuffer' = Underlined(DrawBitmap(framebuffer, run.left, bitmap), run)
  <2> DEFINE canvas == DrawBitmap(framebuffer, run.left, bitmap)
             columns == KeyColumns(key)
  <2>1. canvas = [c \in RowPositions |->
                     IF at(c) \in DOMAIN columns THEN columns[at(c)] ELSE framebuffer[c]]
    <3> HIDE DEF bitmap, key, run
    <3> QED
      BY <1>4, <1>10 DEF DrawBitmap
  <2> HIDE DEF canvas, columns, run
  <2>2. canvas = [c \in RowPositions |-> canvas[c]]
    BY <2>1
  <2>3. ASSUME NEW c \in RowPositions, c \in CellsOf(run)
        PROVE  ColumnShows(canvas[c], packed_row.cells[c], RowInk(packed_row, c))
    <3>1. at(c) \in DOMAIN columns
          /\ columns[at(c)] = [background |-> RowStyles[packed_row.cells[c].style].background,
                               ink |-> RowInk(packed_row, c), line |-> FALSE]
      BY <1>6, <2>3 DEF columns
    <3>2. canvas[c] = columns[at(c)]
      BY <2>1, <3>1
    <3> QED
      BY <3>1, <3>2 DEF ColumnShows
  <2>4. ASSUME NEW c \in RowPositions, c \notin CellsOf(run) PROVE canvas[c] = framebuffer[c]
    <3>1. at(c) \notin DOMAIN columns
      BY <1>6, <1>7, <2>4 DEF columns
    <3> QED
      BY <2>1, <3>1
  <2>5. RunDrawn(canvas, run)
    BY <2>2, <2>3, <2>4 DEF RunDrawn
  <2> QED
    BY <1>11, <2>5 DEF canvas, run
<1>12. \/ ~HasGlyph(run) /\ framebuffer' = Underlined(framebuffer, run)
       \/ framebuffer' = Underlined(DrawText(framebuffer, run.left, text, color), run)
       \/ framebuffer' = Underlined(DrawBitmap(framebuffer, run.left, bitmap), run)
  BY Zenon DEF DrawRun
<1> QED
  BY <1>8, <1>9, <1>11, <1>12

LEMMA DrawKeepsPicture ==
    ASSUME GlyphIInv, PaintInv, DrawRun
    PROVE  PaintInv'
<1> DEFINE run == Head(row_runs)
           rest == Tail(row_runs)
           n == Len(row_runs)
           shown(c) == IF InkWaits(c) THEN NoInk ELSE RowInk(packed_row, c)
<1>1. PICK canvas : RunDrawn(canvas, run) /\ framebuffer' = Underlined(canvas, run)
  BY RunIsDrawn
<1>2. /\ row_runs # <<>> /\ row_runs' = rest /\ packed_row' = packed_row
      /\ dirty_columns' = dirty_columns /\ framebuffer_valid' = framebuffer_valid
  BY DEF DrawRun
<1>3. /\ framebuffer_valid /\ LaidOut(packed_row) /\ AllWhole(packed_row, row_runs)
      /\ Ordered(row_runs) /\ dirty_columns[1] \in Nat /\ dirty_columns[2] \in Nat
      /\ \A c \in RowPositions : ColumnShows(framebuffer[c], packed_row.cells[c], shown(c))
  BY <1>2 DEF PaintInv
<1>4. row_runs \in Seq(Drawable(packed_row))
  BY DEF GlyphIInv, RowOK
<1>5. /\ n \in Nat /\ n > 0 /\ Len(rest) = n - 1 /\ run = row_runs[1]
      /\ \A i \in 1 .. n - 1 : rest[i] = row_runs[i + 1]
      /\ \A i \in 1 .. n : row_runs[i] \in Drawable(packed_row)
  <2> DEFINE D == Drawable(packed_row)
  <2>1. row_runs # <<>> /\ row_runs \in Seq(D)
    BY <1>2, <1>4
  <2> HIDE DEF D
  <2>2. /\ n \in Nat /\ n > 0 /\ Len(rest) = n - 1 /\ run = row_runs[1]
        /\ \A i \in 1 .. n - 1 : rest[i] = row_runs[i + 1]
        /\ \A i \in 1 .. n : row_runs[i] \in D
    BY <2>1
  <2> QED
    BY <2>2 DEF D
<1> HIDE DEF n, rest, run
<1>6. \A i \in 1 .. n : row_runs[i] \in Runs
  BY <1>5 DEF Drawable
<1>7. \A i \in 1 .. n - 1 : i + 1 \in 1 .. n
  BY <1>5
<1>8. AllWhole(packed_row, rest)
  <2>1. \A i \in 1 .. n : Whole(packed_row, row_runs[i])
    BY <1>3 DEF AllWhole, n
  <2> QED
    BY <1>5, <1>7, <2>1 DEF AllWhole
<1>9. \A i, j \in 1 .. n : i < j => RightOf(row_runs[i]) <= row_runs[j].left
  BY <1>3 DEF Ordered, n
<1>10. Ordered(rest)
  <2>1. \A i, j \in 1 .. n - 1 : i < j => i + 1 < j + 1
    BY <1>5
  <2> QED
    BY <1>5, <1>7, <1>9, <2>1 DEF Ordered
<1> DEFINE Dirty(c) == dirty_columns[1] <= c /\ c < dirty_columns[2]
<1>11. ASSUME NEW c \in RowPositions
       PROVE  /\ InkWaits(c)' <=> Dirty(c) /\ \E i \in 1 .. n - 1 : c \in CellsOf(row_runs[i + 1])
              /\ InkWaits(c) <=> Dirty(c) /\ \E i \in 1 .. n : c \in CellsOf(row_runs[i])
  <2>1. InkWaits(c)' <=> Dirty(c) /\ \E i \in 1 .. Len(rest) : c \in CellsOf(rest[i])
    BY <1>2 DEF InkWaits
  <2> QED
    BY <1>5, <2>1 DEF InkWaits, n
<1>12. ASSUME NEW c \in RowPositions, c \in CellsOf(run) PROVE ~InkWaits(c)'
  <2> SUFFICES ASSUME NEW i \in 1 .. n - 1, c \in CellsOf(row_runs[i + 1]) PROVE FALSE
    BY <1>11
  <2> DEFINE p == row_runs[i + 1]
  <2>1. 1 \in 1 .. n /\ i + 1 \in 1 .. n /\ 1 < i + 1
    BY <1>5, <1>7
  <2>2. RightOf(run) <= p.left /\ run \in Runs /\ p \in Runs /\ c \in Int
    BY <1>5, <1>6, <1>9, <2>1 DEF RowPositions
  <2> HIDE DEF p
  <2>3. c < RightOf(run) /\ p.left <= c
    BY <1>12, <2>2, CellsOfRun DEF p
  <2>4. RightOf(run) \in Nat /\ p.left \in Nat
    BY <2>2, RunTypes
  <2> QED
    BY <2>2, <2>3, <2>4
<1>13. ASSUME NEW c \in RowPositions, c \notin CellsOf(run) PROVE InkWaits(c)' <=> InkWaits(c)
  <2>1. ASSUME NEW i \in 1 .. n, c \in CellsOf(row_runs[i])
        PROVE  \E j \in 1 .. n - 1 : c \in CellsOf(row_runs[j + 1])
    <3>1. i # 1
      BY <1>5, <1>13, <2>1
    <3>2. i - 1 \in 1 .. n - 1 /\ (i - 1) + 1 = i
      BY <1>5, <3>1
    <3> QED
      BY <2>1, <3>2
  <2> QED
    BY <1>7, <1>11, <2>1
<1>14. /\ canvas = [c \in RowPositions |-> canvas[c]]
       /\ \A c \in RowPositions :
              IF c \in CellsOf(run)
              THEN ColumnShows(canvas[c], packed_row.cells[c], RowInk(packed_row, c))
              ELSE canvas[c] = framebuffer[c]
  BY <1>1 DEF RunDrawn
<1> DEFINE now(c) == IF InkWaits(c)' THEN NoInk ELSE RowInk(packed_row, c)
<1>15. ASSUME NEW c \in RowPositions PROVE ColumnShows(canvas[c], packed_row.cells[c], now(c))
  <2>1. CASE c \in CellsOf(run)
    BY <1>12, <1>14, <2>1
  <2>2. CASE c \notin CellsOf(run)
    <3>1. ColumnShows(framebuffer[c], packed_row.cells[c], shown(c)) /\ canvas[c] = framebuffer[c]
      BY <1>3, <1>14, <2>2
    <3>2. now(c) = shown(c)
      BY <1>13, <2>2
    <3> QED
      BY <3>1, <3>2
  <2> QED
    BY <2>1, <2>2
<1>16. framebuffer' = [c \in RowPositions |->
           IF StyleOf(run).underline /\ DrawLeft(run) <= c /\ c < DrawRight(run)
           THEN [canvas[c] EXCEPT !.line = TRUE] ELSE canvas[c]]
  <2>1. DOMAIN canvas = RowPositions
    BY <1>14
  <2> QED
    BY <1>1, <2>1 DEF Underlined
<1> HIDE DEF now
<1>17. ASSUME NEW c \in RowPositions PROVE ColumnShows(framebuffer'[c], packed_row.cells[c], now(c))
  <2>1. CASE StyleOf(run).underline /\ DrawLeft(run) <= c /\ c < DrawRight(run)
    <3>1. 1 \in 1 .. n
      BY <1>5
    <3>2. run \in Runs /\ Covers(packed_row.cells, run)
      BY <1>5, <3>1 DEF Drawable
    <3>3. c \in CellsOf(run)
      <4>1. /\ run.left \in Nat /\ RightOf(run) \in Nat /\ c \in Int /\ Right(run) = RightOf(run)
        BY <3>2, RunTypes DEF RowPositions, Right, RightOf
      <4> DEFINE from == dirty_columns[1]
                 to == dirty_columns[2]
                 l == run.left
                 r == RightOf(run)
      <4>2. from \in Nat /\ to \in Nat /\ l \in Nat /\ r \in Nat
        BY <1>3, <4>1
      <4>3. Larger(from, l) <= c /\ c < Smaller(to, r)
        BY <2>1, <4>1 DEF DrawLeft, DrawRight
      <4> HIDE DEF from, to, l, r
      <4>4. l <= c /\ c < r
        BY <4>1, <4>2, <4>3 DEF Larger, Smaller
      <4> QED
        BY <3>2, <4>1, <4>4, CellsOfRun DEF l, r
    <3>4. packed_row.cells[c].style = run.style
      BY <3>2, <3>3 DEF Covers
    <3>5. RowStyles[packed_row.cells[c].style].underline
      BY <2>1, <3>4 DEF StyleOf
    <3>6. framebuffer'[c] = [canvas[c] EXCEPT !.line = TRUE]
      BY <1>16, <2>1
    <3>7. ColumnShows([canvas[c] EXCEPT !.line = TRUE], packed_row.cells[c], now(c))
      BY <1>15, <3>5, LineOnColumn
    <3> QED
      BY <3>6, <3>7
  <2>2. CASE ~(StyleOf(run).underline /\ DrawLeft(run) <= c /\ c < DrawRight(run))
    BY <1>15, <1>16, <2>2
  <2> QED
    BY <2>1, <2>2
<1>18. framebuffer' = [c \in RowPositions |-> framebuffer'[c]]
  BY <1>16
<1>19. \A c \in RowPositions :
           ColumnShows(framebuffer'[c], packed_row'.cells[c],
                 IF InkWaits(c)' THEN NoInk ELSE RowInk(packed_row', c))
  BY <1>2, <1>17 DEF now
<1> QED
  BY <1>2, <1>3, <1>8, <1>10, <1>18, <1>19 DEF PaintInv

-----------------------------------------------------------------------------
(* A row begins                                                             *)

LEMMA OneCharacter ==
    ASSUME NEW text \in Texts, Len(text) = 1
    PROVE  text[1] \in Characters /\ text = <<text[1]>>
<1>1. 1 \in 1 .. Len(text)
  OBVIOUS
<1>2. text[1] \in Characters
  BY <1>1, ElementOfSeq DEF Texts
<1> DEFINE char == text[1]
<1> HIDE DEF char
<1>3. text = [i \in 1 .. 1 |-> char]
  BY DEF Texts, char
<1>4. text = <<char>>
  BY <1>3
<1> QED
  BY <1>2, <1>4 DEF char

\* The row that is painted has the cells it was given, whole wide ones among
\* them, with characters of their width.
LEMMA LayoutRow ==
    ASSUME RowOf(packed_row, RowColumns), NEW cells \in Layouts
    PROVE  LET row == RebuiltRow(packed_row, cells)
           IN /\ RowOf(row, RowColumns) /\ Split(row.cells, row.runs, 0, RowColumns)
              /\ Alternate(row.runs) /\ Paired(row.cells, RowColumns) /\ LaidOut(row)
              /\ \A c \in RowPositions : /\ CellText(row, c) = cells[c].text
                                         /\ row.cells[c].style = cells[c].style
                                         /\ row.cells[c].width = cells[c].width
<1> DEFINE n == RowColumns
           row == RebuiltRow(packed_row, cells)
<1>1. n \in Nat /\ n > 0 /\ RowPositions = 0 .. n - 1
  BY SizeAssumption DEF RowPositions
<1>2. /\ DOMAIN cells = 0 .. n - 1
      /\ \A c \in 0 .. n - 1 : cells[c] \in Decoded
      /\ \A c \in 0 .. n - 1 : cells[c].width = 0 => c > 0 /\ cells[c - 1].width = 2
  BY <1>1, LayoutCells
<1> HIDE DEF n
<1>3. /\ RowOf(row, n) /\ Split(row.cells, row.runs, 0, n) /\ Alternate(row.runs)
      /\ \A c \in 0 .. n - 1 : /\ CellText(row, c) = cells[c].text
                               /\ row.cells[c].style = cells[c].style
                               /\ row.cells[c].width = cells[c].width
  BY <1>1, <1>2, Rebuilt DEF n
<1> HIDE DEF row
<1>4. \A c \in 0 .. n - 1 : c > 0 => c - 1 \in 0 .. n - 1
  BY <1>1
<1>5. Paired(row.cells, n)
  BY <1>2, <1>3, <1>4 DEF Paired
<1>6. cells \in [RowPositions -> RowCells]
      /\ \A c \in RowPositions :
             cells[c].width = 2 => c + 1 \in RowPositions /\ cells[c + 1].width = 0
  BY DEF Layouts
<1>7. LaidOut(row)
  <2> SUFFICES ASSUME NEW c \in RowPositions
               PROVE  /\ IF row.cells[c].width = 0
                         THEN /\ CellText(row, c) = <<>>
                              /\ c > 0 /\ row.cells[c - 1].width = 2
                         ELSE \E char \in Characters :
                                  /\ CellText(row, c) = <<char>>
                                  /\ char \in WideCharacters <=> row.cells[c].width = 2
                      /\ row.cells[c].width = 2 =>
                             c + 1 \in RowPositions /\ row.cells[c + 1].width = 0
    BY DEF LaidOut
  <2> DEFINE cell == cells[c]
  <2>1. /\ CellText(row, c) = cell.text /\ row.cells[c].width = cell.width
        /\ cell \in RowCells /\ cell \in Decoded
    BY <1>1, <1>2, <1>3, <1>6
  <2>2. CASE cell.width = 0
    <3>1. cell.text = <<>>
      BY <2>1, <2>2, CharactersAssumption
    <3>2. c > 0 /\ row.cells[c - 1].width = 2
      BY <1>1, <1>2, <1>3, <1>4, <2>2
    <3> QED
      BY <2>1, <2>2, <3>1, <3>2
  <2>3. CASE cell.width # 0
    <3>1. Len(cell.text) = 1 /\ (cell.text[1] \in WideCharacters <=> cell.width = 2)
      BY <2>1, <2>3, CharactersAssumption
    <3>2. cell.text \in Texts
      BY <2>1 DEF Decoded
    <3>3. cell.text[1] \in Characters /\ cell.text = <<cell.text[1]>>
      BY <3>1, <3>2, OneCharacter
    <3>4. row.cells[c].width = 2 => c + 1 \in RowPositions /\ row.cells[c + 1].width = 0
      BY <1>1, <1>3, <1>6, <2>1
    <3> HIDE DEF cell
    <3> QED
      BY <2>1, <2>3, <3>1, <3>3, <3>4
  <2> QED
    BY <2>2, <2>3
<1> QED
  BY <1>1, <1>3, <1>5, <1>7 DEF n, row

\* Everything is dirty, or the columns of cells that changed are.
LEMMA RegionFacts ==
    ASSUME NEW cells, NEW region \in Regions(cells)
    PROVE  /\ region[1] \in Nat /\ region[2] \in Nat /\ region[1] < region[2]
           /\ region[2] <= RowColumns
           /\ \A c \in RowPositions : ~(region[1] <= c /\ c < region[2]) =>
                  framebuffer_valid /\ c \notin ChangedColumns(cells)
<1> DEFINE n == RowColumns
           changed == ChangedColumns(cells)
<1>1. n \in Nat /\ n > 0 /\ RowPositions = 0 .. n - 1
  BY SizeAssumption DEF RowPositions
<1>2. CASE ~framebuffer_valid
  <2>1. region = <<0, n>>
    BY <1>2 DEF Regions
  <2> QED
    BY <1>1, <2>1
<1>3. CASE framebuffer_valid
  <2>1. /\ region \in RowPositions \X (1 .. n) /\ region[1] < region[2]
        /\ changed \subseteq region[1] .. region[2] - 1
    BY <1>3 DEF Regions
  <2> HIDE DEF changed
  <2>2. /\ region[1] \in 0 .. n - 1 /\ region[2] \in 1 .. n
    BY <1>1, <2>1
  <2> DEFINE a == region[1]
             b == region[2]
  <2> HIDE DEF a, b, n
  <2>3. a \in Nat /\ b \in Nat /\ a < b /\ b <= n
    BY <1>1, <2>1, <2>2 DEF a, b
  <2>4. \A c \in changed : a <= c /\ c < b
    BY <2>1, <2>3 DEF a, b
  <2> QED
    BY <1>3, <2>3, <2>4 DEF a, b, n, changed
<1> QED
  BY <1>2, <1>3

\* A column no change reaches has the content it had; the right half of a wide
\* character, the left half too.
LEMMA NothingChanged ==
    ASSUME NEW cells \in Layouts, NEW c \in RowPositions, c \notin ChangedColumns(cells)
    PROVE  /\ cells[c] = ContentOf(packed_row)[c]
           /\ cells[c].width = 0 =>
                  c - 1 \in RowPositions /\ cells[c - 1] = ContentOf(packed_row)[c - 1]
<1> DEFINE n == RowColumns
           before == ContentOf(packed_row)
<1>1. n \in Nat /\ n > 0 /\ RowPositions = 0 .. n - 1
  BY SizeAssumption DEF RowPositions
<1>2. \A d \in RowPositions : cells[d] # before[d] =>
          c \notin CellLeft(d, cells[d].width) .. CellRight(d, cells[d].width, n) - 1
  BY DEF ChangedColumns
<1>3. \A d \in RowPositions :
          /\ cells[d].width \in Nat
          /\ cells[d].width = 0 => d > 0 /\ cells[d - 1].width = 2
  BY LayoutCells DEF Decoded
<1> HIDE DEF n, before
<1>4. cells[c] = before[c]
  <2> DEFINE w == cells[c].width
  <2>1. w \in Nat /\ (w = 0 => c > 0)
    BY <1>3
  <2>2. c \in CellLeft(c, w) .. CellRight(c, w, n) - 1
    <3> HIDE DEF w
    <3> QED
      BY <1>1, <2>1 DEF CellLeft, CellRight, Smaller
  <2> QED
    BY <1>2, <2>2
<1>5. ASSUME cells[c].width = 0 PROVE c - 1 \in RowPositions /\ cells[c - 1] = before[c - 1]
  <2> DEFINE d == c - 1
             w == cells[d].width
  <2>1. d \in RowPositions /\ c = d + 1 /\ w = 2
    BY <1>1, <1>3, <1>5
  <2>2. c \in CellLeft(d, w) .. CellRight(d, w, n) - 1
    <3> HIDE DEF w, d
    <3> QED
      BY <1>1, <2>1 DEF CellLeft, CellRight, Smaller
  <2> QED
    BY <1>2, <2>1, <2>2
<1> QED
  BY <1>4, <1>5 DEF before

\* Such a column already shows what the new row has there.
LEMMA ShowsAlready ==
    ASSUME NEW row, NEW cells \in Layouts,
           \A c \in RowPositions : /\ CellText(row, c) = cells[c].text
                                   /\ row.cells[c].style = cells[c].style
                                   /\ row.cells[c].width = cells[c].width,
           NEW c \in RowPositions, c \notin ChangedColumns(cells)
    PROVE  /\ row.cells[c].style = packed_row.cells[c].style
           /\ RowInk(row, c) = RowInk(packed_row, c)
<1>1. /\ cells[c] = ContentOf(packed_row)[c]
      /\ cells[c].width = 0 =>
             c - 1 \in RowPositions /\ cells[c - 1] = ContentOf(packed_row)[c - 1]
  BY NothingChanged
<1>2. ASSUME NEW d \in RowPositions, cells[d] = ContentOf(packed_row)[d]
      PROVE  /\ CellText(row, d) = CellText(packed_row, d)
             /\ row.cells[d].style = packed_row.cells[d].style
             /\ row.cells[d].width = packed_row.cells[d].width
  <2> DEFINE text == CellText(packed_row, d)
             style == packed_row.cells[d].style
             width == packed_row.cells[d].width
  <2>1. cells[d] = [text |-> text, style |-> style, width |-> width]
    BY <1>2 DEF ContentOf
  <2> HIDE DEF text, style, width
  <2>2. cells[d].text = text /\ cells[d].style = style /\ cells[d].width = width
    BY <2>1
  <2> QED
    BY <2>2 DEF text, style, width
<1>3. /\ CellText(row, c) = CellText(packed_row, c)
      /\ row.cells[c].style = packed_row.cells[c].style
      /\ row.cells[c].width = packed_row.cells[c].width
  BY <1>1, <1>2
<1>4. CASE row.cells[c].width = 0
  <2> DEFINE d == c - 1
  <2>1. d \in RowPositions /\ cells[d] = ContentOf(packed_row)[d]
    BY <1>1, <1>4
  <2>2. CellText(row, d) = CellText(packed_row, d)
        /\ row.cells[d].style = packed_row.cells[d].style
    BY <1>2, <2>1
  <2> QED
    BY <1>3, <1>4, <2>2 DEF RowInk
<1>5. CASE row.cells[c].width # 0
  BY <1>3, <1>5 DEF RowInk
<1> QED
  BY <1>3, <1>4, <1>5

LEMMA CleanColumn ==
    ASSUME NEW cell, NEW column, column = Filled(RowStyles[cell.style].background)
    PROVE  ColumnShows(column, cell, NoInk)
<1> DEFINE no == FALSE
           b == RowStyles[cell.style].background
<1>1. no \in BOOLEAN /\ ~no /\ column = [background |-> b, ink |-> NoInk, line |-> no]
  BY DEF Filled
<1> HIDE DEF no
<1> QED
  BY <1>1, Zenon DEF ColumnShows

\* The dirty columns of the row have their backgrounds and wait for all their
\* ink, the others show their cells.
LEMMA BeginPaints ==
    ASSUME GlyphIInv, PaintInv, row_runs = <<>>,
           NEW cells \in Layouts, NEW region \in Regions(cells), NEW scrolled,
           BeginRow(cells, region, scrolled), OneStyle(packed_row')
    PROVE  PaintInv'
<1> DEFINE n == RowColumns
           row == RebuiltRow(packed_row, cells)
           cached == ~scrolled
           runs == RunsToDraw(row, cached)
           left == region[1]
           right == region[2]
           within == RunsWithin(runs, left, right)
           painted == PaintBackgrounds(framebuffer, runs, left, right)
           D == {p \in Drawable(row) : Whole(row, p)}
           zero == 0
<1>1. /\ packed_row' = row /\ dirty_columns' = region /\ row_runs' = within
      /\ framebuffer' = painted /\ framebuffer_valid' = TRUE
  BY DEF BeginRow
<1>2. /\ RowOf(row, n) /\ Split(row.cells, row.runs, 0, n)
      /\ Alternate(row.runs) /\ Paired(row.cells, n) /\ LaidOut(row)
      /\ \A c \in RowPositions : /\ CellText(row, c) = cells[c].text
                                 /\ row.cells[c].style = cells[c].style
                                 /\ row.cells[c].width = cells[c].width
  BY LayoutRow DEF GlyphIInv, RowOK
<1>3. /\ left \in Nat /\ right \in Nat /\ left < right /\ right <= n
      /\ \A c \in RowPositions : ~(left <= c /\ c < right) =>
             framebuffer_valid /\ c \notin ChangedColumns(cells)
  BY RegionFacts
<1>4. n \in Nat /\ n > 0 /\ RowPositions = 0 .. n - 1 /\ zero \in Nat
  BY SizeAssumption DEF RowPositions
<1> HIDE DEF row
<1>5. AllWhole(row, row.runs)
  BY <1>1, <1>2, RunsWhole DEF n
<1> HIDE DEF cached, left, right
<1>6. Split(row.cells, runs, zero, n) /\ AllWhole(row, runs)
  BY <1>2, <1>5, RunsToDrawSplit DEF n
<1> HIDE DEF runs, zero, n
<1>7. runs \in Seq(Drawable(row))
  <2>1. n <= RowColumns
    BY <1>4 DEF n
  <2> QED
    BY <1>4, <1>6, <2>1, SplitDrawable
<1>8. runs \in Seq(D)
  <2> DEFINE E == Drawable(row)
             len == Len(runs)
  <2>1. len \in Nat /\ runs = [i \in 1 .. len |-> runs[i]]
    BY <1>7, LenProperties
  <2>2. \A i \in 1 .. len : runs[i] \in E
    BY <1>7, ElementOfSeq
  <2>3. \A i \in 1 .. len : Whole(row, runs[i])
    BY <1>6 DEF AllWhole
  <2> HIDE DEF E
  <2>4. \A i \in 1 .. len : runs[i] \in D
    BY <2>2, <2>3 DEF E
  <2> HIDE DEF D, len
  <2>5. runs \in [1 .. len -> D]
    BY <2>1, <2>4
  <2> QED
    BY <2>1, <2>5, FunctionSeq
<1>9. /\ within \in Seq(D) /\ Ordered(within)
      /\ \A k \in 1 .. Len(runs) : Reaches(runs[k], left, right) =>
             \E j \in 1 .. Len(within) : within[j] = runs[k]
  <2> HIDE DEF D
  <2> QED
    BY <1>4, <1>6, <1>8, WithinFacts
<1> HIDE DEF within
<1>10. AllWhole(row, within)
  <2>1. \A i \in 1 .. Len(within) : within[i] \in D
    <3> HIDE DEF D
    <3> QED
      BY <1>9, ElementOfSeq
  <2> QED
    BY <2>1 DEF AllWhole
<1>11. framebuffer = [c \in RowPositions |-> framebuffer[c]]
  BY DEF PaintInv
<1>12. /\ painted = [c \in RowPositions |-> painted[c]]
       /\ \A c \in RowPositions : painted[c] =
              IF left <= c /\ c < right
              THEN Filled(RowStyles[row.cells[c].style].background) ELSE framebuffer[c]
  BY <1>3, <1>6, <1>11, BackgroundsPainted DEF zero, n
<1> HIDE DEF painted
<1> DEFINE waits(c) == /\ left <= c /\ c < right
                       /\ \E i \in 1 .. Len(within) : c \in CellsOf(within[i])
<1>13. \A c \in RowPositions : InkWaits(c)' <=> waits(c)
  BY <1>1 DEF InkWaits, left, right
<1>14. ASSUME NEW c \in RowPositions
       PROVE  ColumnShows(painted[c], row.cells[c], IF waits(c) THEN NoInk ELSE RowInk(row, c))
  <2>1. CASE left <= c /\ c < right
    <3>1. ColumnShows(painted[c], row.cells[c], NoInk)
      BY <1>12, <2>1, CleanColumn
    <3>2. PICK k \in 1 .. Len(runs) : c \in CellsOf(runs[k])
      BY <1>4, <1>6, SplitFinds DEF zero
    <3>3. runs[k] \in Runs
      BY <1>6 DEF Split, Covers
    <3>4. Reaches(runs[k], left, right)
      <4> DEFINE l == runs[k].left
                 r == RightOf(runs[k])
      <4>1. l \in Nat /\ r \in Nat /\ c \in Int
        BY <1>4, <3>3, RunTypes
      <4>2. l <= c /\ c < r
        BY <3>2, <3>3, <4>1, CellsOfRun
      <4> HIDE DEF l, r
      <4>3. l < right /\ left < r
        BY <1>3, <2>1, <4>1, <4>2
      <4> QED
        BY <4>3 DEF Reaches, l, r
    <3>5. PICK j \in 1 .. Len(within) : within[j] = runs[k]
      BY <1>9, <3>4
    <3>6. waits(c)
      BY <2>1, <3>2, <3>5
    <3> HIDE DEF waits
    <3> QED
      BY <3>1, <3>6
  <2>2. CASE ~(left <= c /\ c < right)
    <3>1. painted[c] = framebuffer[c] /\ framebuffer_valid /\ c \notin ChangedColumns(cells)
      BY <1>3, <1>12, <2>2
    <3>2. ~InkWaits(c)
      BY DEF InkWaits
    <3>3. ColumnShows(framebuffer[c], packed_row.cells[c], RowInk(packed_row, c))
      BY <3>1, <3>2 DEF PaintInv
    <3>4. /\ row.cells[c].style = packed_row.cells[c].style
          /\ RowInk(row, c) = RowInk(packed_row, c)
      BY <1>2, <3>1, ShowsAlready
    <3>5. ColumnShows(framebuffer[c], row.cells[c], RowInk(row, c))
      BY <3>3, <3>4 DEF ColumnShows
    <3>6. ~waits(c)
      BY <2>2
    <3> HIDE DEF waits
    <3> QED
      BY <3>1, <3>5, <3>6
  <2> QED
    BY <2>1, <2>2
<1>15. dirty_columns'[1] \in Nat /\ dirty_columns'[2] \in Nat
  BY <1>1, <1>3 DEF left, right
<1> HIDE DEF waits
<1>16. \A c \in RowPositions :
           ColumnShows(framebuffer'[c], packed_row'.cells[c],
                 IF InkWaits(c)' THEN NoInk ELSE RowInk(packed_row', c))
  BY <1>1, <1>13, <1>14
<1> QED
  BY <1>1, <1>2, <1>9, <1>10, <1>12, <1>15, <1>16 DEF PaintInv

LEMMA PaintInitOK == ASSUME GlyphInit PROVE PaintInv
<1>1. framebuffer = [c \in RowPositions |-> Filled(DefaultBackground)]
      /\ row_runs = <<>> /\ ~framebuffer_valid
  BY DEF GlyphInit
<1>2. framebuffer = [c \in RowPositions |-> framebuffer[c]]
  BY <1>1
<1> QED
  BY <1>1, <1>2 DEF PaintInv

\* Both halves of every wide character of the row that is painted have one
\* style.
WideOfOneStyle == OneStyle(packed_row)

LEMMA PaintStep ==
    ASSUME GlyphIInv, PaintInv, [GlyphNext]_glyphVars, WideOfOneStyle'
    PROVE  PaintInv'
<1>1. ASSUME row_runs = <<>>, NEW cells \in Layouts, NEW region \in Regions(cells),
             NEW scrolled, BeginRow(cells, region, scrolled)
      PROVE  PaintInv'
  <2>1. OneStyle(packed_row')
    BY DEF WideOfOneStyle, OneStyle
  <2> QED
    BY <1>1, <2>1, BeginPaints
<1>2. CASE DrawRun
  BY <1>2, DrawKeepsPicture
<1>3. ASSUME NEW width, Resized(width) PROVE PaintInv'
  <2>1. /\ framebuffer' = [c \in RowPositions |-> Filled(DefaultBackground)]
        /\ ~framebuffer_valid' /\ row_runs' = <<>>
    BY <1>3 DEF Resized
  <2>2. framebuffer' = [c \in RowPositions |-> framebuffer'[c]]
    BY <2>1
  <2> QED
    BY <2>1, <2>2 DEF PaintInv
<1>4. CASE UNCHANGED glyphVars
  <2>1. /\ packed_row' = packed_row /\ dirty_columns' = dirty_columns /\ row_runs' = row_runs
        /\ framebuffer' = framebuffer /\ framebuffer_valid' = framebuffer_valid
    BY <1>4 DEF glyphVars
  <2>2. \A c \in RowPositions : InkWaits(c)' <=> InkWaits(c)
    BY <2>1 DEF InkWaits
  <2>3. framebuffer_valid => \A c \in RowPositions :
            ColumnShows(framebuffer'[c], packed_row'.cells[c],
                  IF InkWaits(c)' THEN NoInk ELSE RowInk(packed_row', c))
    BY <2>1, <2>2 DEF PaintInv
  <2> QED
    BY <2>1, <2>3 DEF PaintInv
<1> QED
  BY <1>1, <1>2, <1>3, <1>4 DEF GlyphNext

LEMMA PaintFollows == PaintInv => RowShowsCells
<1> SUFFICES ASSUME PaintInv, row_runs = <<>>, framebuffer_valid, NEW c \in RowPositions
             PROVE  /\ framebuffer[c].background = RowStyles[packed_row.cells[c].style].background
                    /\ framebuffer[c].ink = InkAt(c)
                    /\ framebuffer[c].line =>
                           RowStyles[packed_row.cells[c].style].underline
  BY Zenon DEF RowShowsCells
<1> DEFINE style == RowStyles[packed_row.cells[c].style]
           ink == InkAt(c)
           column == framebuffer[c]
<1>1. ~InkWaits(c)
  BY DEF InkWaits
<1>2. RowInk(packed_row, c) = ink
  BY DEF RowInk, InkAt
<1>3. ColumnShows(column, packed_row.cells[c], ink)
  BY <1>1, <1>2 DEF PaintInv
<1>4. PICK line \in BOOLEAN :
          /\ column = [background |-> style.background, ink |-> ink, line |-> line]
          /\ line => style.underline
  BY <1>3 DEF ColumnShows
<1> DEFINE b == style.background
<1> HIDE DEF b, ink, column
<1>5. column.background = b /\ column.ink = ink /\ column.line = line
  BY <1>4 DEF b
<1> HIDE DEF style
<1>6. column.line => style.underline
  BY <1>4, <1>5, Zenon
<1> QED
  BY <1>5, <1>6, Zenon DEF b, ink, column, style

\* When a row has been painted its columns show their cells, however little of
\* it was dirty and whether text or bitmaps, fresh or from the cache, were
\* drawn: for every row, region, limit of the cache and sequence of frames, as
\* long as both halves of every wide character have one style.  Without that
\* a run can begin with the right half, which no text of its own draws.
THEOREM RowIsShown == GlyphSpec /\ []WideOfOneStyle => []RowShowsCells
<1>1. GlyphInit => GlyphIInv /\ PaintInv
  BY GlyphInitOK, PaintInitOK
<1>2. GlyphIInv /\ PaintInv /\ [GlyphNext]_glyphVars /\ WideOfOneStyle' => GlyphIInv' /\ PaintInv'
  BY GlyphStep, PaintStep
<1>3. PaintInv => RowShowsCells
  BY PaintFollows
<1> QED
  BY <1>1, <1>2, <1>3, PTL DEF GlyphSpec

==============================================================================
