-------------------------- MODULE FramePipelineProofs --------------------------
(***************************************************************************)
(* What TLAPS proves of FramePipeline for every value of its constants: the *)
(* packed grid the core keeps is the screen, whatever was scrolled, however *)
(* many operations a handler makes and whatever is merged before a paint;   *)
(* the bitmap a paint leaves is the screen, and the window the bitmap.      *)
(***************************************************************************)
EXTENDS FramePipeline, FiniteSetTheorems, DataTheorems, TLAPS

-----------------------------------------------------------------------------
(* Numbers and sets                                                         *)

LEMMA MaxPair ==
    ASSUME NEW a \in Int, NEW b \in Int
    PROVE  /\ Max({a, b}) \in Int /\ Max({a, b}) >= a /\ Max({a, b}) >= b
           /\ Max({a, b}) = a \/ Max({a, b}) = b
<1>1. \E x \in {a, b} : \A y \in {a, b} : x >= y
  <2>1. CASE a >= b
    BY <2>1
  <2>2. CASE b >= a
    BY <2>2
  <2> QED
    BY <2>1, <2>2
<1> QED
  BY <1>1 DEF Max

LEMMA FromZero ==
    ASSUME NEW a \in Int
    PROVE  Max({0, a}) \in Nat /\ Max({0, a}) >= a /\ (Max({0, a}) = 0 \/ Max({0, a}) = a)
<1>1. PICK z \in Int : z = 0
  OBVIOUS
<1>2. /\ Max({z, a}) \in Int /\ Max({z, a}) >= z /\ Max({z, a}) >= a
      /\ Max({z, a}) = z \/ Max({z, a}) = a
  BY MaxPair
<1> QED
  BY <1>1, <1>2

LEMMA MinPair ==
    ASSUME NEW a \in Int, NEW b \in Int
    PROVE  /\ Min({a, b}) \in Int /\ Min({a, b}) <= a /\ Min({a, b}) <= b
           /\ Min({a, b}) = a \/ Min({a, b}) = b
<1>1. \E x \in {a, b} : \A y \in {a, b} : x <= y
  <2>1. CASE a <= b
    BY <2>1
  <2>2. CASE b <= a
    BY <2>2
  <2> QED
    BY <2>1, <2>2
<1> QED
  BY <1>1 DEF Min

LEMMA Highest ==
    /\ Max(Heights) \in Nat \ {0}
    /\ \A h \in Heights : h \in Nat \ {0} /\ h <= Max(Heights)
BY HeightsAssumption DEF Max

\* The rows between the first and the last one of a set.
LEMMA HullFacts ==
    ASSUME height \in Nat, NEW S, S \subseteq Rows
    PROVE  S \subseteq Hull(S) /\ Hull(S) \subseteq Rows /\ (S = {} => Hull(S) = {})
<1>1. CASE S = {}
  BY <1>1 DEF Hull
<1>2. CASE S # {}
  <2>0. PICK s \in S : s \in 0 .. height - 1
    BY <1>2 DEF Rows
  <2>1. height - 1 \in Nat /\ S \subseteq Nat /\ S \subseteq 0 .. height - 1
    <3>1. height - 1 \in Nat
      BY <2>0
    <3>2. \A r \in 0 .. height - 1 : r \in Nat
      OBVIOUS
    <3> QED
      BY <3>1, <3>2 DEF Rows
  <2>2. Min(S) \in S /\ \A y \in S : Min(S) <= y
    BY <1>2, <2>1, LeastOf
  <2>3. Max(S) \in S /\ \A y \in S : Max(S) >= y
    BY <1>2, <2>1, GreatestOf
  <2>4. Hull(S) = Min(S) .. Max(S)
    BY <1>2 DEF Hull
  <2>5. S \subseteq Hull(S)
    <3>1. \A y \in S : y \in Int /\ Min(S) <= y /\ y <= Max(S)
      BY <2>1, <2>2, <2>3
    <3> QED
      BY <2>1, <2>2, <2>3, <2>4, <3>1
  <2>6. Hull(S) \subseteq Rows
    <3>1. Min(S) \in 0 .. height - 1 /\ Max(S) \in 0 .. height - 1
      BY <2>1, <2>2, <2>3
    <3> QED
      BY <2>1, <2>4, <3>1 DEF Rows
  <2> QED
    BY <1>2, <2>5, <2>6
<1> QED
  BY <1>1, <1>2

\* A set of enough elements has as many distinct ones as are asked for.
LEMMA EnoughElements ==
    ASSUME NEW S, IsFiniteSet(S), NEW n \in Nat, n <= Cardinality(S)
    PROVE  \E f \in [1..n -> S] : IsInjective(f)
<1>1. PICK b : b \in Bijection(1..Cardinality(S), S)
  BY FS_CardinalityType DEF ExistsBijection
<1>2. Cardinality(S) \in Nat
  BY FS_CardinalityType
<1> DEFINE f == [i \in 1..n |-> b[i]]
<1>3. f \in [1..n -> S] /\ IsInjective(f)
  BY <1>1, <1>2 DEF Bijection, Injection, IsInjective
<1> QED
  BY <1>3

\* A function takes at most as many values as it has arguments.
LEMMA FewValues ==
    ASSUME NEW D, IsFiniteSet(D), NEW f, DOMAIN f = D
    PROVE  LET V == {f[x] : x \in D}
           IN IsFiniteSet(V) /\ Cardinality(V) <= Cardinality(D)
<1> DEFINE V == {f[x] : x \in D}
           g == [x \in D |-> f[x]]
<1>1. g \in Surjection(D, V)
  BY DEF Surjection
<1> QED
  BY <1>1, FS_Surjection

LEMMA Interval ==
    ASSUME NEW a \in Int, NEW b \in Int, a <= b + 1
    PROVE  IsFiniteSet(a..b) /\ Cardinality(a..b) = b - a + 1
<1>1. /\ IsFiniteSet(a..b)
      /\ Cardinality(a..b) = IF a > b THEN 0 ELSE b - a + 1
  BY FS_Interval
<1> QED
  BY <1>1

LEMMA FewTogether ==
    ASSUME NEW S, NEW T, NEW m \in Nat, NEW n \in Nat, IsFiniteSet(S), IsFiniteSet(T),
           Cardinality(S) <= m, Cardinality(T) <= n
    PROVE  IsFiniteSet(S \cup T) /\ Cardinality(S \cup T) <= m + n
<1>1. Cardinality(S) \in Nat /\ Cardinality(T) \in Nat
  BY FS_CardinalityType
<1>2. IsFiniteSet(S \cap T)
  BY FS_Intersection
<1>3. Cardinality(S \cap T) \in Nat
  BY <1>2, FS_CardinalityType
<1>4. /\ IsFiniteSet(S \cup T)
      /\ Cardinality(S \cup T) = Cardinality(S) + Cardinality(T) - Cardinality(S \cap T)
  BY FS_Union
<1> QED
  BY <1>1, <1>3, <1>4

-----------------------------------------------------------------------------
(* Lines and their ids                                                      *)

Distinct(lines) == \A i, j \in DOMAIN lines : lines[i].id = lines[j].id => i = j

\* Types of the screen and of what the core observed of it.
ScreenType ==
    /\ height \in Heights
    /\ live \in Seq(Lines) /\ Len(live) = height
    /\ sb \in Seq(Lines) /\ Len(sb) <= Scrollback
    /\ pos \in 0 .. Len(sb)
    /\ cursor \in Rows
    /\ aged \subseteq Rows
    /\ alternate \in BOOLEAN
    /\ observed_lines \in [Rows -> LineIds]

LEMMA FewIds ==
    ASSUME NEW lines \in Seq(Lines), NEW n \in Nat, Len(lines) <= n
    PROVE  IsFiniteSet(IdsOf(lines)) /\ Cardinality(IdsOf(lines)) <= n
<1> DEFINE f == [i \in 1 .. Len(lines) |-> lines[i].id]
<1>1. IsFiniteSet(1 .. Len(lines)) /\ Cardinality(1 .. Len(lines)) = Len(lines)
  BY Interval, Len(lines) \in Nat
<1>2. IdsOf(lines) = {f[i] : i \in 1 .. Len(lines)}
  BY DEF IdsOf
<1>3. DOMAIN f = 1 .. Len(lines)
  OBVIOUS
<1>4. Len(lines) \in Nat
  OBVIOUS
<1> HIDE DEF f
<1>5. IsFiniteSet(IdsOf(lines)) /\ Cardinality(IdsOf(lines)) <= Len(lines)
  BY <1>1, <1>2, <1>3, FewValues
<1>6. Cardinality(IdsOf(lines)) \in Nat
  BY <1>5, FS_CardinalityType
<1> QED
  BY <1>4, <1>5, <1>6

LEMMA FewObserved ==
    ASSUME ScreenType
    PROVE  LET ids == {observed_lines[i] : i \in DOMAIN observed_lines}
           IN IsFiniteSet(ids) /\ Cardinality(ids) <= Max(Heights)
<1> DEFINE ids == {observed_lines[i] : i \in Rows}
<1>1. height \in Nat \ {0} /\ height <= Max(Heights) /\ Max(Heights) \in Nat
  BY Highest DEF ScreenType
<1>2. IsFiniteSet(Rows) /\ Cardinality(Rows) = height
  BY <1>1, Interval, height - 1 \in Int DEF Rows
<1>3. DOMAIN observed_lines = Rows
  BY DEF ScreenType
<1>4. IsFiniteSet(ids) /\ Cardinality(ids) <= height
  BY <1>2, <1>3, FewValues
<1>5. Cardinality(ids) \in Nat
  BY <1>4, FS_CardinalityType
<1>6. Cardinality(ids) <= Max(Heights)
  BY <1>1, <1>4, <1>5
<1> QED
  BY <1>3, <1>4, <1>6

\* There are always ids for as many new lines as the largest screen has.
LEMMA FreeIds ==
    ASSUME ScreenType
    PROVE  /\ IsFiniteSet(LineIds \ UsedIds)
           /\ Max(Heights) <= Cardinality(LineIds \ UsedIds)
<1> DEFINE A == IdsOf(sb)
           B == IdsOf(live)
           C == {observed_lines[i] : i \in DOMAIN observed_lines}
           most == Max(Heights)
<1>1. most \in Nat /\ Scrollback \in Nat
  BY Highest, DataAssumption
<1>2. IsFiniteSet(A) /\ Cardinality(A) <= Scrollback
  BY <1>1, FewIds DEF ScreenType
<1>3. IsFiniteSet(B) /\ Cardinality(B) <= most
  BY <1>1, FewIds, Highest DEF ScreenType
<1>4. IsFiniteSet(C) /\ Cardinality(C) <= most
  BY FewObserved
<1>5. UsedIds = (A \cup B) \cup C
  BY DEF UsedIds
<1>6. IsFiniteSet(LineIds) /\ Cardinality(LineIds) = Scrollback + 5 * most
  <2>1. Scrollback + 5 * most \in Nat
    BY <1>1
  <2> QED
    BY <2>1, Interval DEF LineIds
<1> HIDE DEF A, B, C, most
<1>7. IsFiniteSet(A \cup B) /\ Cardinality(A \cup B) <= Scrollback + most
  BY <1>1, <1>2, <1>3, FewTogether
<1>8. IsFiniteSet(UsedIds) /\ Cardinality(UsedIds) <= (Scrollback + most) + most
  <2>1. Scrollback + most \in Nat
    BY <1>1
  <2> QED
    BY <1>1, <1>4, <1>5, <1>7, <2>1, FewTogether
<1>9. IsFiniteSet(LineIds \cap UsedIds)
      /\ Cardinality(LineIds \cap UsedIds) <= Cardinality(UsedIds)
  BY <1>8, FS_Subset, LineIds \cap UsedIds \in SUBSET UsedIds
<1>10. Cardinality(LineIds \cap UsedIds) \in Nat /\ Cardinality(UsedIds) \in Nat
  BY <1>8, <1>9, FS_CardinalityType
<1>11. /\ IsFiniteSet(LineIds \ UsedIds)
       /\ Cardinality(LineIds \ UsedIds) =
              Cardinality(LineIds) - Cardinality(LineIds \cap UsedIds)
  BY <1>6, FS_Difference
<1> QED
  BY <1>1, <1>6, <1>8, <1>9, <1>10, <1>11 DEF most

LEMMA Fresh ==
    ASSUME ScreenType, NEW n \in Nat, n <= Max(Heights)
    PROVE  /\ FreshLines(n) \in Seq(Lines) /\ Len(FreshLines(n)) = n
           /\ Distinct(FreshLines(n))
           /\ IdsOf(FreshLines(n)) \cap UsedIds = {}
           /\ IdsOf(FreshLines(n)) \subseteq LineIds
<1> DEFINE free == LineIds \ UsedIds
           ids == CHOOSE f \in [1..n -> free] : IsInjective(f)
           fresh == [k \in 1..n |-> [id |-> ids[k], cell |-> Blank]]
<1>1. n <= Cardinality(free) /\ IsFiniteSet(free)
  BY FreeIds, Highest, FS_CardinalityType
<1>2. ids \in [1..n -> free] /\ IsInjective(ids)
  BY <1>1, EnoughElements
<1>3. FreshLines(n) = fresh
  BY DEF FreshLines
<1>4. Blank \in Cells
  BY DataAssumption DEF Blank, Cells, Styles
<1> HIDE DEF ids
<1>5. fresh \in Seq(Lines) /\ Len(fresh) = n
  BY <1>2, <1>4 DEF Lines
<1>6. Distinct(fresh)
  BY <1>2 DEF Distinct, IsInjective
<1>7. IdsOf(fresh) \subseteq free
  BY <1>2 DEF IdsOf
<1> QED
  BY <1>3, <1>5, <1>6, <1>7

LEMMA Concatenation ==
    ASSUME NEW a \in Seq(Lines), NEW b \in Seq(Lines)
    PROVE  /\ a \o b \in Seq(Lines) /\ Len(a \o b) = Len(a) + Len(b)
           /\ \A i \in 1 .. Len(a) + Len(b) :
                 (a \o b)[i] = IF i <= Len(a) THEN a[i] ELSE b[i - Len(a)]
OBVIOUS

LEMMA Joined ==
    ASSUME NEW a \in Seq(Lines), NEW b \in Seq(Lines), Distinct(a), Distinct(b),
           IdsOf(a) \cap IdsOf(b) = {}
    PROVE  a \o b \in Seq(Lines) /\ Len(a \o b) = Len(a) + Len(b) /\ Distinct(a \o b)
<1>1. a \o b \in Seq(Lines) /\ Len(a \o b) = Len(a) + Len(b)
  OBVIOUS
<1>2. \A i \in DOMAIN a : a[i].id \in IdsOf(a)
  BY DEF IdsOf
<1>3. \A i \in DOMAIN b : b[i].id \in IdsOf(b)
  BY DEF IdsOf
<1>4. \A i \in 1 .. Len(a) + Len(b) :
          (a \o b)[i] = IF i <= Len(a) THEN a[i] ELSE b[i - Len(a)]
  OBVIOUS
<1>5. ASSUME NEW i \in 1 .. Len(a) + Len(b), NEW j \in 1 .. Len(a) + Len(b),
             (a \o b)[i].id = (a \o b)[j].id
      PROVE  i = j
  <2>1. CASE i <= Len(a) /\ j <= Len(a)
    BY <1>4, <1>5, <2>1 DEF Distinct
  <2>2. CASE i > Len(a) /\ j > Len(a)
    BY <1>4, <1>5, <2>2 DEF Distinct
  <2>3. CASE i <= Len(a) /\ j > Len(a)
    BY <1>2, <1>3, <1>4, <1>5, <2>3
  <2>4. CASE i > Len(a) /\ j <= Len(a)
    BY <1>2, <1>3, <1>4, <1>5, <2>4
  <2> QED
    BY <2>1, <2>2, <2>3, <2>4
<1> QED
  BY <1>1, <1>5 DEF Distinct

LEMMA Piece ==
    ASSUME NEW a \in Seq(Lines), NEW m \in Int, NEW n \in Int, 1 <= m, m <= n + 1,
           n <= Len(a)
    PROVE  /\ SubSeq(a, m, n) \in Seq(Lines) /\ Len(SubSeq(a, m, n)) = n + 1 - m
           /\ \A i \in 1 .. n + 1 - m : SubSeq(a, m, n)[i] = a[i + m - 1]
           /\ Distinct(a) => Distinct(SubSeq(a, m, n))
           /\ IdsOf(SubSeq(a, m, n)) \subseteq IdsOf(a)
<1>1. /\ SubSeq(a, m, n) \in Seq(Lines) /\ Len(SubSeq(a, m, n)) = n + 1 - m
      /\ \A i \in 1 .. n + 1 - m : SubSeq(a, m, n)[i] = a[i + m - 1]
  OBVIOUS
<1>2. DOMAIN SubSeq(a, m, n) = 1 .. n + 1 - m
  BY <1>1
<1>3. Distinct(a) => Distinct(SubSeq(a, m, n))
  BY <1>1, <1>2 DEF Distinct
<1>4. IdsOf(SubSeq(a, m, n)) \subseteq IdsOf(a)
  BY <1>1, <1>2 DEF IdsOf
<1> QED
  BY <1>1, <1>3, <1>4

-----------------------------------------------------------------------------
(* The invariant.  Rows that libtsm has not touched since the last frame    *)
(* are in the packed grid; a shift that was noticed has touched all of them, *)
(* because the ids of the lines are distinct and were observed where they  *)
(* are while some row was left alone.                                      *)

PackType ==
    /\ frame_valid \in BOOLEAN
    /\ grid \in [0 .. last_rows - 1 -> PackedCells]

ShiftsTouchAll == pending_content # 0 => aged = Rows
ObservedInPlace == handler # "feeding" \/ aged # Rows => observed_lines = RowIds
UntouchedInGrid ==
    frame_valid /\ aged # Rows =>
        /\ height = last_rows /\ alternate = last_alternate
        /\ \A r \in Rows \ aged : grid[r] = DrawnCell(r)

PackInv ==
    /\ ScreenType /\ PackType /\ Distinct(live)
    /\ ShiftsTouchAll /\ ObservedInPlace /\ UntouchedInGrid

LEMMA ScreenFacts ==
    ASSUME ScreenType
    PROVE  /\ height \in Nat \ {0} /\ height <= Max(Heights)
           /\ 0 \in Rows /\ Rows # {}
           /\ cursor \in Nat /\ cursor < height
           /\ Len(sb) \in Nat /\ pos \in Nat /\ pos <= Len(sb)
           /\ Scrollback \in Nat /\ Max(Heights) \in Nat
           /\ RowIds \in [Rows -> LineIds]
<1>1. height \in Nat \ {0} /\ height <= Max(Heights) /\ Max(Heights) \in Nat
  BY Highest DEF ScreenType
<1>2. \A r \in Rows : r + 1 \in 1 .. Len(live)
  BY <1>1 DEF Rows, ScreenType
<1>3. \A r \in Rows : live[r + 1] \in Lines
  BY <1>2 DEF ScreenType
<1>4. RowIds \in [Rows -> LineIds]
  BY <1>3 DEF RowIds, Lines
<1>5. Len(sb) \in Nat /\ pos \in Nat /\ pos <= Len(sb) /\ Scrollback \in Nat
  BY DataAssumption DEF ScreenType
<1>6. 0 \in Rows /\ cursor \in Nat /\ cursor < height
  BY <1>1 DEF ScreenType, Rows
<1> QED
  BY <1>1, <1>4, <1>5, <1>6

LEMMA NotShown ==
    ASSUME ScreenType, NEW c \in Int, NEW r \in Rows, r \notin Shown(c)
    PROVE  pos + r # Len(sb) + c
<1>1. r \in Int /\ pos \in Int /\ Len(sb) \in Int
  BY ScreenFacts DEF Rows
<1>2. r # c + Len(sb) - pos
  BY DEF Shown
<1> QED
  BY <1>1, <1>2

LEMMA DrawnType ==
    ASSUME ScreenType, NEW r \in Rows
    PROVE  DrawnCell(r) \in PackedCells
<1>1. pos + r < Len(sb) => pos + r + 1 \in 1 .. Len(sb)
  BY ScreenFacts DEF Rows
<1>2. ~(pos + r < Len(sb)) => pos + r + 1 - Len(sb) \in 1 .. Len(live)
  BY ScreenFacts DEF Rows, ScreenType
<1> DEFINE cell == IF pos + r < Len(sb) THEN sb[pos + r + 1].cell
                   ELSE live[pos + r + 1 - Len(sb)].cell
<1>a. pos + r < Len(sb) => sb[pos + r + 1] \in Lines
  BY <1>1 DEF ScreenType
<1>b. ~(pos + r < Len(sb)) => live[pos + r + 1 - Len(sb)] \in Lines
  BY <1>2 DEF ScreenType
<1>3. cell \in Cells
  BY <1>a, <1>b DEF Lines
<1>4. cell \in PackedCells /\ Inverted(cell) \in PackedCells
  BY <1>3 DEF Cells, PackedCells, Styles, Inverted
<1> QED
  BY <1>4 DEF DrawnCell

\* A control function of the child's output: either every row is touched, or
\* the lines stay and a row that is not touched shows what it showed.
LEMMA ScreenStep ==
    ASSUME PackInv, ScreenType', Distinct(live'), handler' = "feeding",
           UNCHANGED <<height, obs, pend, pack>>,
           \/ aged' = Rows
           \/ /\ aged \subseteq aged'
              /\ alternate' = alternate
              /\ RowIds' = RowIds
              /\ \A r \in Rows \ aged' : DrawnCell(r)' = DrawnCell(r)
    PROVE  PackInv'
<1> USE DEF PackInv, obs, pend, pack
<1>1. PackType'
  BY DEF PackType
<1>2. Rows' = Rows
  BY DEF Rows
<1>3. ASSUME aged' # Rows
      PROVE  /\ aged # Rows /\ aged \subseteq aged' /\ alternate' = alternate
             /\ RowIds' = RowIds
             /\ \A r \in Rows \ aged' : DrawnCell(r)' = DrawnCell(r)
  BY <1>2, <1>3 DEF ScreenType
<1>4. ShiftsTouchAll'
  BY <1>2, <1>3 DEF ShiftsTouchAll
<1>5. ObservedInPlace'
  BY <1>2, <1>3 DEF ObservedInPlace
<1>6. UntouchedInGrid'
  <2> SUFFICES ASSUME frame_valid', aged' # Rows'
               PROVE  /\ height' = last_rows' /\ alternate' = last_alternate'
                      /\ \A r \in Rows' \ aged' : grid'[r] = DrawnCell(r)'
    BY DEF UntouchedInGrid
  <2>1. /\ height = last_rows /\ alternate = last_alternate
        /\ \A r \in Rows \ aged : grid[r] = DrawnCell(r)
    BY <1>2, <1>3 DEF UntouchedInGrid
  <2> QED
    BY <1>2, <1>3, <2>1
<1> QED
  BY <1>1, <1>4, <1>5, <1>6

LEMMA VteFacts ==
    ASSUME NEW op, Vte(op)
    PROVE  handler' = "feeding" /\ UNCHANGED <<height, obs, pend, pack, disp>>
BY DEF Vte, Working

LEMMA WriteStep ==
    ASSUME PackInv, NEW cell \in Cells, Write(cell)
    PROVE  PackInv'
<1> USE ScreenFacts DEF PackInv
<1>1. handler' = "feeding" /\ UNCHANGED <<height, obs, pend, pack>>
  BY VteFacts DEF Write
<1>2. /\ live' = [live EXCEPT ![cursor + 1].cell = cell]
      /\ aged' = aged \cup Shown(cursor)
      /\ UNCHANGED <<sb, alternate, pos, cursor>>
  BY DEF Write
<1>3. \A i \in 1 .. Len(live) : live[i] \in Lines
  BY DEF ScreenType
<1>4. \A i \in 1 .. Len(live) :
          /\ live'[i] \in Lines /\ live'[i].id = live[i].id
          /\ i # cursor + 1 => live'[i] = live[i]
  BY <1>2, <1>3 DEF Lines
<1>5. live' \in Seq(Lines) /\ Len(live') = Len(live)
  <2>a. Len(live) \in Nat /\ live \in [1 .. Len(live) -> Lines]
    BY DEF ScreenType
  <2>b. live' = [i \in 1 .. Len(live) |-> live'[i]]
    <3> DEFINE n == Len(live)
               changed == [live[cursor + 1] EXCEPT !.cell = cell]
    <3>1. live' = [live EXCEPT ![cursor + 1] = changed]
      BY <1>2
    <3> HIDE DEF n, changed
    <3>2. live \in [1 .. n -> Lines]
      BY <2>a DEF n
    <3>3. live' = [i \in 1 .. n |-> live'[i]]
      BY <3>1, <3>2
    <3> QED
      BY <3>3 DEF n
  <2>1. live' = [i \in 1 .. Len(live) |-> live'[i]] /\ Len(live) \in Nat
    BY <2>a, <2>b
  <2> DEFINE n == Len(live)
             f == live'
  <2>2. f \in [1 .. n -> Lines] /\ n \in Nat
    BY <1>4, <2>1
  <2> HIDE DEF f, n
  <2>3. f \in Seq(Lines) /\ Len(f) = n
    BY <2>2
  <2> QED
    BY <2>3 DEF f, n
<1>6. ScreenType'
  BY <1>1, <1>2, <1>5 DEF ScreenType, Rows, Shown, obs, pend
<1>7. Distinct(live')
  BY <1>4, <1>5 DEF Distinct, ScreenType
<1>8. RowIds' = RowIds
  BY <1>1, <1>4 DEF RowIds, Rows, ScreenType
<1>9. ASSUME NEW r \in Rows \ aged' PROVE DrawnCell(r)' = DrawnCell(r)
  <2>a. r \in Rows /\ r \notin Shown(cursor) /\ cursor \in Int
    BY <1>2
  <2>1. pos + r # Len(sb) + cursor
    BY <2>a, NotShown
  <2>2. ~(pos + r < Len(sb)) => /\ pos + r + 1 - Len(sb) \in 1 .. Len(live)
                                /\ pos + r + 1 - Len(sb) # cursor + 1
    BY <2>1 DEF Rows, ScreenType
  <2> DEFINE i == pos + r + 1 - Len(sb)
  <2>3. ~(pos + r < Len(sb)) => live'[i] = live[i]
    BY <1>4, <2>2
  <2>4. UNCHANGED <<sb, pos, cursor>>
    BY <1>2
  <2> HIDE DEF i
  <2>5. DrawnCell(r) =
            LET shown == IF pos + r < Len(sb) THEN sb[pos + r + 1].cell ELSE live[i].cell
            IN IF pos + r = Len(sb) + cursor THEN Inverted(shown) ELSE shown
    BY DEF DrawnCell, i
  <2>6. DrawnCell(r)' =
            LET shown == IF pos + r < Len(sb) THEN sb[pos + r + 1].cell ELSE live'[i].cell
            IN IF pos + r = Len(sb) + cursor THEN Inverted(shown) ELSE shown
    BY <2>4 DEF DrawnCell, i, Inverted
  <2> QED
    BY <2>3, <2>5, <2>6
<1> QED
  BY <1>1, <1>2, <1>6, <1>7, <1>8, <1>9, ScreenStep

\* The cursor moves within the screen.
LEMMA CursorStep ==
    ASSUME PackInv, NEW row \in Rows, handler' = "feeding",
           UNCHANGED <<height, obs, pend, pack, sb, live, alternate, pos>>,
           cursor' = row, aged' = aged \cup Shown(cursor) \cup Shown(row)
    PROVE  PackInv'
<1> USE ScreenFacts DEF PackInv
<1>1. ScreenType'
  BY DEF ScreenType, Rows, Shown, obs, pend
<1>2. RowIds' = RowIds
  BY DEF RowIds, Rows
<1>3. ASSUME NEW r \in Rows \ aged' PROVE DrawnCell(r)' = DrawnCell(r)
  <2>a. r \in Rows /\ r \notin Shown(cursor) /\ r \notin Shown(row)
    OBVIOUS
  <2>b. cursor \in Int /\ row \in Int
    BY DEF Rows
  <2>1. pos + r # Len(sb) + cursor /\ pos + r # Len(sb) + row
    BY <2>a, <2>b, NotShown
  <2> QED
    BY <2>1 DEF DrawnCell
<1> QED
  BY <1>1, <1>2, <1>3, ScreenStep

\* New lines go above, below or between lines of the screen.
LEMMA FreshBelow ==
    ASSUME ScreenType, Distinct(live), NEW n \in Nat, n <= Max(Heights),
           NEW lines \in Seq(Lines), Distinct(lines), IdsOf(lines) \subseteq IdsOf(live)
    PROVE  /\ lines \o FreshLines(n) \in Seq(Lines)
           /\ Len(lines \o FreshLines(n)) = Len(lines) + n
           /\ Distinct(lines \o FreshLines(n))
           /\ FreshLines(n) \o lines \in Seq(Lines)
           /\ Len(FreshLines(n) \o lines) = n + Len(lines)
           /\ Distinct(FreshLines(n) \o lines)
<1> DEFINE fresh == FreshLines(n)
<1>1. /\ fresh \in Seq(Lines) /\ Len(fresh) = n /\ Distinct(fresh)
      /\ IdsOf(fresh) \cap UsedIds = {}
  BY Fresh
<1>2. IdsOf(lines) \cap IdsOf(fresh) = {}
  BY <1>1 DEF UsedIds
<1> HIDE DEF fresh
<1> QED
  BY <1>1, <1>2, Joined DEF fresh

LEMMA LineFeedStep ==
    ASSUME PackInv, LineFeed
    PROVE  PackInv'
<1> USE ScreenFacts DEF PackInv
<1>1. /\ handler' = "feeding" /\ UNCHANGED <<height, obs, pend, pack>>
      /\ UNCHANGED alternate
  BY VteFacts DEF LineFeed
<1>2. CASE /\ cursor < height - 1
           /\ cursor' = cursor + 1
           /\ aged' = aged \cup Shown(cursor) \cup Shown(cursor')
           /\ UNCHANGED <<sb, live, pos>>
  <2>1. cursor + 1 \in Rows
    BY <1>2 DEF Rows
  <2> QED
    BY <1>1, <1>2, <2>1, CursorStep
<1> DEFINE kept == IF alternate THEN sb ELSE Append(sb, Head(live))
           lost == IF Len(kept) > Scrollback THEN 1 ELSE 0
<1>3. CASE /\ live' = Tail(live) \o FreshLines(1)
           /\ sb' = SubSeq(kept, 1 + lost, Len(kept))
           /\ pos' = IF AtBottom THEN Len(sb') ELSE Max({0, pos - lost})
           /\ aged' = Rows
           /\ UNCHANGED cursor
  <2>1. /\ Tail(live) = SubSeq(live, 2, Len(live))
        /\ Len(live) \in Nat \ {0} /\ live \in Seq(Lines)
    BY DEF ScreenType
  <2>2. /\ Tail(live) \in Seq(Lines) /\ Len(Tail(live)) = height - 1
        /\ Distinct(Tail(live)) /\ IdsOf(Tail(live)) \subseteq IdsOf(live)
    <3> DEFINE last == Len(live)
    <3>1. last \in Int /\ 2 \in Int /\ 1 <= 2 /\ 2 <= last + 1 /\ last <= Len(live)
          /\ last + 1 - 2 = height - 1
      BY <2>1 DEF ScreenType
    <3>2. Distinct(live)
      OBVIOUS
    <3> HIDE DEF last, PackInv
    <3>3. /\ SubSeq(live, 2, last) \in Seq(Lines)
          /\ Len(SubSeq(live, 2, last)) = last + 1 - 2
          /\ Distinct(live) => Distinct(SubSeq(live, 2, last))
          /\ IdsOf(SubSeq(live, 2, last)) \subseteq IdsOf(live)
      BY <2>1, <3>1, Piece, Zenon
    <3>4. Tail(live) = SubSeq(live, 2, last)
      BY <2>1 DEF last
    <3> QED
      BY <3>1, <3>2, <3>3, <3>4, Zenon
  <2>3. live' \in Seq(Lines) /\ Len(live') = height /\ Distinct(live')
    <3> DEFINE stay == Tail(live)
    <3>1. 1 <= Max(Heights) /\ live' = stay \o FreshLines(1)
      BY <1>3
    <3>2. /\ stay \in Seq(Lines) /\ Len(stay) = height - 1
          /\ Distinct(stay) /\ IdsOf(stay) \subseteq IdsOf(live)
      BY <2>2
    <3> HIDE DEF stay
    <3> QED
      BY <3>1, <3>2, FreshBelow
  <2>4. kept \in Seq(Lines) /\ Len(kept) >= Len(sb) /\ Len(kept) <= Len(sb) + 1
    <3>1. Head(live) \in Lines
      BY <2>1
    <3> QED
      BY <3>1 DEF ScreenType
  <2>5. lost \in {0, 1} /\ (lost = 1 <=> Len(kept) > Scrollback)
    OBVIOUS
  <2> HIDE DEF kept, lost
  <2>6. /\ sb' \in Seq(Lines) /\ Len(sb') = Len(kept) - lost
        /\ Len(kept) \in Nat /\ lost <= Len(kept)
    <3>1. Len(kept) \in Nat /\ lost <= Len(kept)
      BY <2>4, <2>5
    <3> QED
      BY <1>3, <2>4, <2>5, <3>1, Piece
  <2>7. Len(sb') <= Scrollback
    BY <2>4, <2>5, <2>6 DEF ScreenType
  <2>8. pos' \in 0 .. Len(sb')
    <3>1. CASE AtBottom
      BY <1>3, <2>5, <2>6, <3>1
    <3>2. CASE ~AtBottom
      <4>1. pos - lost \in Int /\ pos - lost <= Len(sb')
        BY <2>4, <2>5, <2>6, <3>2 DEF AtBottom
      <4>2. pos' = Max({0, pos - lost})
        BY <1>3, <3>2
      <4> DEFINE back == pos - lost
      <4>3. back \in Int /\ back <= Len(sb') /\ pos' = Max({0, back})
        BY <4>1, <4>2
      <4>4. Len(sb') \in Nat
        BY <2>6
      <4> HIDE DEF back
      <4> DEFINE top == Max({0, back})
      <4>5. top \in Int /\ 0 <= top /\ (top = 0 \/ top = back)
        BY <4>3, FromZero
      <4> HIDE DEF top
      <4>6. pos' = top
        BY <4>3 DEF top
      <4> QED
        BY <4>3, <4>4, <4>5, <4>6
    <3> QED
      BY <3>1, <3>2
  <2>9. ScreenType'
    BY <1>1, <1>3, <2>3, <2>6, <2>7, <2>8 DEF ScreenType, Rows, obs, pend
  <2> QED
    BY <1>1, <1>3, <2>3, <2>9, ScreenStep
<1> QED
  BY <1>2, <1>3 DEF LineFeed

LEMMA ReverseIndexStep ==
    ASSUME PackInv, ReverseIndex
    PROVE  PackInv'
<1> USE ScreenFacts DEF PackInv
<1>1. /\ handler' = "feeding" /\ UNCHANGED <<height, obs, pend, pack>>
      /\ UNCHANGED <<sb, alternate, pos>>
  BY VteFacts DEF ReverseIndex
<1>2. CASE /\ cursor > 0
           /\ cursor' = cursor - 1
           /\ aged' = aged \cup Shown(cursor) \cup Shown(cursor')
           /\ UNCHANGED live
  <2>1. cursor - 1 \in Rows
    BY <1>2 DEF Rows
  <2> QED
    BY <1>1, <1>2, <2>1, CursorStep
<1>3. CASE /\ live' = FreshLines(1) \o SubSeq(live, 1, height - 1)
           /\ aged' = Rows
           /\ UNCHANGED cursor
  <2> DEFINE stay == SubSeq(live, 1, height - 1)
  <2>1. /\ stay \in Seq(Lines) /\ Len(stay) = height - 1
        /\ Distinct(stay) /\ IdsOf(stay) \subseteq IdsOf(live)
    <3> DEFINE n == height - 1
    <3>1. live \in Seq(Lines) /\ Len(live) = height /\ height \in Nat \ {0}
      BY DEF ScreenType
    <3>2. n \in Int /\ 1 \in Int /\ 1 <= 1 /\ 1 <= n + 1 /\ n <= Len(live)
          /\ n + 1 - 1 = height - 1
      BY <3>1
    <3>3. Distinct(live)
      OBVIOUS
    <3> HIDE DEF n, PackInv
    <3>4. /\ SubSeq(live, 1, n) \in Seq(Lines) /\ Len(SubSeq(live, 1, n)) = n + 1 - 1
          /\ Distinct(live) => Distinct(SubSeq(live, 1, n))
          /\ IdsOf(SubSeq(live, 1, n)) \subseteq IdsOf(live)
      BY <3>1, <3>2, Piece, Zenon
    <3> QED
      BY <3>2, <3>3, <3>4, Zenon DEF n
  <2> HIDE DEF stay
  <2>2. live' = FreshLines(1) \o stay /\ 1 <= Max(Heights)
    BY <1>3 DEF stay
  <2>3. live' \in Seq(Lines) /\ Len(live') = height /\ Distinct(live')
    BY <2>1, <2>2, FreshBelow
  <2>4. ScreenType'
    BY <1>1, <1>3, <2>3 DEF ScreenType, Rows, obs, pend
  <2> QED
    BY <1>1, <1>3, <2>3, <2>4, ScreenStep
<1> QED
  BY <1>2, <1>3 DEF ReverseIndex

LEMMA OneRemoved ==
    ASSUME NEW a \in Seq(Lines), Distinct(a), NEW n \in Nat, Len(a) = n,
           NEW c \in Nat, c < n
    PROVE  LET stay == SubSeq(a, 1, c) \o SubSeq(a, c + 2, n)
           IN /\ stay \in Seq(Lines) /\ Len(stay) = n - 1
              /\ Distinct(stay) /\ IdsOf(stay) \subseteq IdsOf(a)
<1> DEFINE above == SubSeq(a, 1, c)
           below == SubSeq(a, c + 2, n)
           stay == above \o below
<1>1. /\ above \in Seq(Lines) /\ Len(above) = c
      /\ \A i \in 1 .. c : above[i] = a[i]
  OBVIOUS
<1>2. /\ below \in Seq(Lines) /\ Len(below) = n - c - 1
      /\ \A i \in 1 .. n - c - 1 : below[i] = a[i + c + 1]
  <2> DEFINE first == c + 2
  <2>1. first \in Int /\ n \in Int /\ 1 <= first /\ first <= n + 1 /\ n <= Len(a)
    OBVIOUS
  <2> HIDE DEF first
  <2>2. /\ SubSeq(a, first, n) \in Seq(Lines) /\ Len(SubSeq(a, first, n)) = n + 1 - first
        /\ \A i \in 1 .. n + 1 - first : SubSeq(a, first, n)[i] = a[i + first - 1]
    BY <2>1, Piece, Zenon
  <2>3. n + 1 - first = n - c - 1 /\ \A i \in Int : i + first - 1 = i + c + 1
    BY DEF first
  <2>4. below = SubSeq(a, first, n)
    BY DEF first
  <2>5. below \in Seq(Lines) /\ Len(below) = n - c - 1
    BY <2>2, <2>3, <2>4
  <2>6. ASSUME NEW i \in 1 .. n - c - 1 PROVE below[i] = a[i + c + 1]
    <3>1. i \in 1 .. n + 1 - first /\ i + first - 1 = i + c + 1
      BY <2>3
    <3>2. SubSeq(a, first, n)[i] = a[i + first - 1]
      BY <2>2, <3>1, Zenon
    <3> QED
      BY <2>4, <3>1, <3>2, Zenon
  <2> QED
    BY <2>5, <2>6
<1> HIDE DEF above, below
<1>3. /\ stay \in Seq(Lines) /\ Len(stay) = n - 1
      /\ \A i \in 1 .. n - 1 :
            stay[i] = IF i <= c THEN above[i] ELSE below[i - c]
  <2>1. /\ stay \in Seq(Lines) /\ Len(stay) = Len(above) + Len(below)
        /\ \A i \in 1 .. Len(above) + Len(below) :
              stay[i] = IF i <= Len(above) THEN above[i] ELSE below[i - Len(above)]
    <3>1. above \in Seq(Lines) /\ below \in Seq(Lines)
      BY <1>1, <1>2
    <3> QED
      BY <3>1, Concatenation
  <2> HIDE DEF stay
  <2>2. Len(above) + Len(below) = n - 1
    BY <1>1, <1>2
  <2> QED
    BY <1>1, <2>1, <2>2
<1> HIDE DEF stay
<1>4. \A i \in 1 .. n - 1 : stay[i] = IF i <= c THEN a[i] ELSE a[i + 1]
  <2> TAKE i \in 1 .. n - 1
  <2>1. CASE i <= c
    BY <1>1, <1>3, <2>1
  <2>2. CASE i > c
    <3>1. i - c \in 1 .. n - c - 1 /\ (i - c) + c + 1 = i + 1
      BY <2>2
    <3>2. below[i - c] = a[i + 1]
      BY <1>2, <3>1
    <3> QED
      BY <1>3, <2>2, <3>2
  <2> QED
    BY <2>1, <2>2
<1>5. Distinct(stay)
  <2>1. \A i \in 1 .. n - 1 : i \in DOMAIN a /\ i + 1 \in DOMAIN a
    OBVIOUS
  <2>2. DOMAIN stay = 1 .. n - 1
    BY <1>3
  <2>3. \A i \in 1 .. n - 1 : \E k \in DOMAIN a :
            stay[i] = a[k] /\ k = IF i <= c THEN i ELSE i + 1
    BY <1>4, <2>1
  <2> SUFFICES ASSUME NEW i \in 1 .. n - 1, NEW j \in 1 .. n - 1,
                      stay[i].id = stay[j].id
               PROVE  i = j
    BY <2>2 DEF Distinct
  <2>4. PICK k \in DOMAIN a : stay[i] = a[k] /\ k = IF i <= c THEN i ELSE i + 1
    BY <2>3
  <2>5. PICK l \in DOMAIN a : stay[j] = a[l] /\ l = IF j <= c THEN j ELSE j + 1
    BY <2>3
  <2>6. k = l
    BY <2>4, <2>5 DEF Distinct
  <2> QED
    BY <2>4, <2>5, <2>6
<1>6. IdsOf(stay) \subseteq IdsOf(a)
  <2> SUFFICES ASSUME NEW i \in 1 .. n - 1 PROVE stay[i].id \in IdsOf(a)
    BY <1>3 DEF IdsOf
  <2>1. PICK j \in 1 .. Len(a) : stay[i] = a[j]
    <3>1. i \in 1 .. Len(a) /\ i + 1 \in 1 .. Len(a)
      OBVIOUS
    <3> QED
      BY <1>4, <3>1
  <2> QED
    BY <2>1 DEF IdsOf
<1> QED
  BY <1>3, <1>5, <1>6 DEF stay, above, below

LEMMA DeleteLineStep ==
    ASSUME PackInv, DeleteLine
    PROVE  PackInv'
<1> USE ScreenFacts DEF PackInv
<1> DEFINE stay == SubSeq(live, 1, cursor) \o SubSeq(live, cursor + 2, height)
<1>1. /\ handler' = "feeding" /\ UNCHANGED <<height, obs, pend, pack>>
      /\ UNCHANGED <<sb, alternate, pos, cursor>>
      /\ aged' = Rows /\ live' = stay \o FreshLines(1)
  BY VteFacts DEF DeleteLine
<1>2. /\ stay \in Seq(Lines) /\ Len(stay) = height - 1
      /\ Distinct(stay) /\ IdsOf(stay) \subseteq IdsOf(live)
  BY OneRemoved DEF ScreenType
<1> HIDE DEF stay
<1>3. live' \in Seq(Lines) /\ Len(live') = height /\ Distinct(live')
  <2>1. 1 <= Max(Heights)
    OBVIOUS
  <2> QED
    BY <1>1, <1>2, <2>1, FreshBelow
<1>4. ScreenType'
  BY <1>1, <1>3 DEF ScreenType, Rows, obs, pend
<1> QED
  BY <1>1, <1>3, <1>4, ScreenStep

LEMMA SwitchScreenStep ==
    ASSUME PackInv, SwitchScreen
    PROVE  PackInv'
<1> USE ScreenFacts DEF PackInv
<1>1. /\ handler' = "feeding" /\ UNCHANGED <<height, obs, pend, pack>>
      /\ UNCHANGED <<sb, pos, cursor>> /\ alternate' = ~alternate /\ aged' = Rows
  BY VteFacts DEF SwitchScreen
<1> DEFINE fresh == FreshLines(height)
<1>2. /\ fresh \in Seq(Lines) /\ Len(fresh) = height /\ Distinct(fresh)
  BY Fresh
<1>3. PICK text \in [1..height -> Cells] :
          live' = [i \in 1..height |-> [fresh[i] EXCEPT !.cell = text[i]]]
  <2>1. Blank \in Cells
    BY DataAssumption DEF Blank, Cells, Styles
  <2>2. PICK text \in [1..height -> IF alternate THEN Cells ELSE {Blank}] :
            live' = [i \in 1..height |-> [fresh[i] EXCEPT !.cell = text[i]]]
    BY DEF SwitchScreen
  <2>3. text \in [1..height -> Cells]
    BY <2>1
  <2> QED
    BY <2>2, <2>3
<1> HIDE DEF fresh
<1>4. \A i \in 1..height : fresh[i] \in Lines /\ text[i] \in Cells
  BY <1>2
<1>5. \A i \in 1..height : live'[i] \in Lines /\ live'[i].id = fresh[i].id
  BY <1>3, <1>4 DEF Lines
<1>6. live' \in Seq(Lines) /\ Len(live') = height
  <2>1. live' \in [1..height -> Lines]
    BY <1>3, <1>5
  <2> QED
    BY <2>1
<1>7. Distinct(live')
  BY <1>2, <1>5, <1>6 DEF Distinct
<1>8. ScreenType'
  BY <1>1, <1>6 DEF ScreenType, Rows, obs, pend
<1> QED
  BY <1>1, <1>7, <1>8, ScreenStep

-----------------------------------------------------------------------------
(* The core's own steps                                                     *)

\* Rows observed where they still are have not been shifted.
LEMMA NoShiftInPlace ==
    ASSUME ScreenType, Distinct(live), observed_lines = RowIds
    PROVE  DetectFullScreenShift(observed_lines) = 0
<1> USE ScreenFacts
<1>1. ASSUME NEW d \in 1 .. height - 1 PROVE RowIds[0] # RowIds[d]
  <2>1. /\ 0 \in Rows /\ d \in Rows
        /\ 1 \in DOMAIN live /\ d + 1 \in DOMAIN live /\ d + 1 # 1
    BY DEF Rows, ScreenType
  <2>2. RowIds[0] = live[1].id /\ RowIds[d] = live[d + 1].id
    BY <2>1 DEF RowIds
  <2> QED
    BY <2>1, <2>2 DEF Distinct
<1> DEFINE MovedUp(d) == \A r \in 0 .. height - d - 1 : RowIds[r] = observed_lines[r + d]
           MovedDown(d) == \A r \in 0 .. height - d - 1 : RowIds[r + d] = observed_lines[r]
<1>2. ASSUME NEW d \in 1 .. height - 1 PROVE ~MovedUp(d) /\ ~MovedDown(d)
  <2>1. 0 \in 0 .. height - d - 1 /\ 0 + d = d
    OBVIOUS
  <2> QED
    BY <1>1, <2>1
<1>3. {d \in 1 .. height - 1 : MovedUp(d) \/ MovedDown(d)} = {}
  BY <1>2
<1> QED
  BY <1>3 DEF DetectFullScreenShift

LEMMA EndFeedStep ==
    ASSUME PackInv, EndFeed
    PROVE  PackInv'
<1> USE ScreenFacts DEF PackInv
<1>1. /\ UNCHANGED <<tsm, pack>> /\ observed_lines' = RowIds
      /\ pending_content' = pending_content +
             (IF observed_alternate = alternate /\ AtBottom
              THEN DetectFullScreenShift(observed_lines) ELSE 0)
  BY DEF EndFeed
<1>2. Rows' = Rows /\ RowIds' = RowIds
  BY <1>1 DEF Rows, RowIds, tsm
<1>3. ScreenType' /\ Distinct(live')
  BY <1>1, <1>2 DEF ScreenType, tsm
<1>4. PackType'
  BY <1>1 DEF PackType, pack
<1>5. ShiftsTouchAll'
  <2> SUFFICES ASSUME aged # Rows PROVE pending_content' = 0
    BY <1>1, <1>2 DEF ShiftsTouchAll, tsm
  <2>1. pending_content = 0 /\ DetectFullScreenShift(observed_lines) = 0
    BY NoShiftInPlace DEF ShiftsTouchAll, ObservedInPlace
  <2> QED
    BY <1>1, <2>1
<1>6. ObservedInPlace'
  BY <1>1, <1>2 DEF ObservedInPlace
<1>7. UntouchedInGrid'
  BY <1>1 DEF UntouchedInGrid, tsm, pack, Rows, DrawnCell
<1> QED
  BY <1>3, <1>4, <1>5, <1>6, <1>7

LEMMA ScrollLinesStep ==
    ASSUME PackInv, NEW lines \in Int, ScrollLines(lines)
    PROVE  PackInv'
<1> USE ScreenFacts DEF PackInv
<1> DEFINE after == Max({0, Min({Len(sb), pos - lines})})
<1>1. /\ handler' = "busy" /\ handler # "feeding" /\ pos' = after
      /\ UNCHANGED <<height, pack, sb, live, alternate, cursor, obs, pending_content>>
      /\ aged' = IF after = pos THEN aged ELSE Rows
  BY DEF ScrollLines, Working
<1>2. after \in 0 .. Len(sb)
  <2> DEFINE least == Min({Len(sb), pos - lines})
  <2>1. Len(sb) \in Int /\ pos - lines \in Int
    OBVIOUS
  <2>2. least \in Int /\ least <= Len(sb)
    BY <2>1, MinPair
  <2> HIDE DEF least
  <2> DEFINE greatest == Max({0, least})
  <2>3. greatest \in Nat /\ (greatest = 0 \/ greatest = least)
    BY <2>2, FromZero
  <2> HIDE DEF greatest
  <2>4. after = greatest
    BY DEF greatest, least
  <2>5. Len(sb) \in Nat
    OBVIOUS
  <2> HIDE DEF after
  <2> QED
    BY <2>2, <2>3, <2>4, <2>5
<1> HIDE DEF after
<1>3. Rows' = Rows /\ RowIds' = RowIds
  BY <1>1 DEF Rows, RowIds
<1>4. ScreenType' /\ Distinct(live')
  BY <1>1, <1>2, <1>3 DEF ScreenType, obs
<1>5. PackType'
  BY <1>1 DEF PackType, pack
<1>6. ShiftsTouchAll' /\ ObservedInPlace'
  BY <1>1, <1>3 DEF ShiftsTouchAll, ObservedInPlace, obs
<1>7. UntouchedInGrid'
  <2>1. CASE pos' = pos
    BY <1>1, <2>1 DEF UntouchedInGrid, pack, Rows, DrawnCell
  <2>2. CASE pos' # pos
    BY <1>1, <1>3, <2>2 DEF UntouchedInGrid
  <2> QED
    BY <2>1, <2>2
<1> QED
  BY <1>4, <1>5, <1>6, <1>7

\* The frame is the screen: a row that is not decoded either equals what is
\* drawn, because that was compared, or was not touched, and then nothing was
\* shifted and the grid has it.
LEMMA FrameExact ==
    ASSUME PackInv
    PROVE  TakePackedFrame.cells = DrawnView
<1> USE ScreenFacts DEF PackInv
<1> DEFINE resized == ~frame_valid \/ height # last_rows \/ alternate # last_alternate
           reuse == ReusesScrolledRows(resized)
           redraw == resized \/ (pending_content # 0 /\ ~reuse)
           cached == IF reuse THEN RotatePackedRows(EnsurePackedGrid, pending_content)
                     ELSE EnsurePackedGrid
           cells == IF frame_valid /\ cursor # last_cursor
                    THEN {cursor, last_cursor} \cap Rows ELSE {}
           drawn == IF redraw THEN Rows ELSE aged \cup cells
           decoded == DecodedCells(drawn, reuse, cached)
<1>1. TakePackedFrame.cells = RebuildPackedRows(cached, decoded)
  BY DEF TakePackedFrame
<1>2. ASSUME NEW r \in Rows, r \notin decoded PROVE cached[r] = DrawnCell(r)
  <2>1. CASE r \in drawn
    BY <1>2, <2>1 DEF DecodedCells
  <2>2. CASE r \notin drawn
    <3>1. ~redraw /\ r \notin aged
      BY <2>2
    <3>2. aged # Rows /\ pending_content = 0 /\ frame_valid
      BY <3>1 DEF ShiftsTouchAll
    <3>3. ~reuse /\ cached = EnsurePackedGrid
      BY <3>2 DEF ReusesScrolledRows
    <3>4. DOMAIN grid = Rows /\ grid[r] = DrawnCell(r)
      BY <3>1, <3>2 DEF UntouchedInGrid, PackType, Rows
    <3> QED
      BY <3>3, <3>4 DEF EnsurePackedGrid
  <2> QED
    BY <2>1, <2>2
<1>3. RebuildPackedRows(cached, decoded) = DrawnView
  BY <1>2 DEF RebuildPackedRows, DrawnView
<1> QED
  BY <1>1, <1>3

LEMMA TakeStep ==
    ASSUME PackInv, handler # "feeding", FrameTaken(TakePackedFrame),
           UNCHANGED <<height, sb, live, alternate, pos, cursor, obs>>
    PROVE  PackInv'
<1> USE ScreenFacts DEF PackInv
<1>1. Rows' = Rows /\ RowIds' = RowIds /\ DrawnView' = DrawnView
  BY DEF Rows, RowIds, DrawnView, DrawnCell
<1>2. /\ grid' = DrawnView /\ frame_valid' /\ last_rows' = height
      /\ last_alternate' = alternate /\ pending_content' = 0 /\ aged' = {}
  BY FrameExact DEF FrameTaken
<1>3. ScreenType' /\ Distinct(live')
  BY <1>1, <1>2 DEF ScreenType, obs
<1>4. PackType'
  <2>1. frame_valid' = TRUE
    BY DEF FrameTaken
  <2>2. \A r \in Rows : DrawnView[r] \in PackedCells
    BY DrawnType DEF DrawnView
  <2> QED
    BY <1>2, <2>1, <2>2 DEF PackType, DrawnView, Rows
<1>5. ShiftsTouchAll' /\ ObservedInPlace'
  BY <1>1, <1>2 DEF ShiftsTouchAll, ObservedInPlace, obs
<1>6. UntouchedInGrid'
  BY <1>1, <1>2 DEF UntouchedInGrid, DrawnView
<1> QED
  BY <1>3, <1>4, <1>5, <1>6

LEMMA OnSizeStep ==
    ASSUME PackInv, NEW h \in Heights, OnSize(h)
    PROVE  PackInv'
<1> USE ScreenFacts DEF PackInv
<1> DEFINE top == Max({0, cursor + 1 - h})
           more == Max({0, h - height})
           kept == IF alternate THEN sb ELSE sb \o SubSeq(live, 1, top)
           lost == Max({0, Len(kept) - Scrollback})
<1>1. /\ UNCHANGED <<alternate, pack, handler>> /\ height' = h
      /\ live' = ResizedTo(live, top, FreshLines(more), h)
      /\ sb' = SubSeq(kept, lost + 1, Len(kept))
      /\ pos' = Len(sb') /\ cursor' = cursor - top /\ aged' = 0 .. h - 1
      /\ observed_lines' = RowIds' /\ pending_content' = 0
  BY DEF OnSize, CoreResize, ResetScreenObservation, ctrl
<1>2. h \in Nat \ {0} /\ h <= Max(Heights)
  BY Highest
<1>3. /\ top \in Nat /\ top >= cursor + 1 - h /\ top <= cursor
      /\ top = 0 \/ top = cursor + 1 - h
  <2> DEFINE d == cursor + 1 - h
  <2>1. d \in Int /\ d <= cursor
    BY <1>2
  <2> HIDE DEF d
  <2>2. /\ Max({0, d}) \in Nat /\ Max({0, d}) >= d /\ Max({0, d}) <= cursor
        /\ Max({0, d}) = 0 \/ Max({0, d}) = d
    BY <2>1, FromZero
  <2> QED
    BY <2>2 DEF d
<1>4. more \in Nat /\ more >= h - height /\ (more = 0 \/ more = h - height)
  <2> DEFINE d == h - height
  <2>1. d \in Int
    BY <1>2
  <2> HIDE DEF d
  <2>2. Max({0, d}) \in Nat /\ Max({0, d}) >= d /\ (Max({0, d}) = 0 \/ Max({0, d}) = d)
    BY <2>1, FromZero
  <2> QED
    BY <2>2 DEF d
<1>5. live \in Seq(Lines) /\ Len(live) = height /\ sb \in Seq(Lines)
  BY DEF ScreenType
<1> HIDE DEF top, more
<1>6. kept \in Seq(Lines)
  BY <1>3, <1>5, Piece
<1> HIDE DEF kept
<1>7. lost \in Nat /\ lost >= Len(kept) - Scrollback /\ lost <= Len(kept)
  <2> DEFINE d == Len(kept) - Scrollback
  <2>1. d \in Int /\ d <= Len(kept) /\ Len(kept) \in Nat
    BY <1>6
  <2> HIDE DEF d
  <2>2. Max({0, d}) \in Nat /\ Max({0, d}) >= d /\ Max({0, d}) <= Len(kept)
    BY <2>1, FromZero
  <2> QED
    BY <2>2 DEF d
<1> HIDE DEF lost
<1>8. sb' \in Seq(Lines) /\ Len(sb') = Len(kept) - lost /\ Len(sb') <= Scrollback
  <2> DEFINE m == lost + 1
             n == Len(kept)
  <2>1. m \in Int /\ n \in Nat /\ 1 <= m /\ m <= n + 1 /\ n + 1 - m = n - lost
    BY <1>6, <1>7
  <2>2. sb' = SubSeq(kept, m, n) /\ n <= Len(kept)
    BY <1>1, <2>1
  <2>3. n = Len(kept)
    OBVIOUS
  <2> HIDE DEF m, n
  <2>4. sb' \in Seq(Lines) /\ Len(sb') = n + 1 - m
    BY <1>6, <2>1, <2>2, Piece
  <2> QED
    BY <1>7, <2>1, <2>3, <2>4
<1>9. live' \in Seq(Lines) /\ Len(live') = h /\ Distinct(live')
  <2>1. CASE h <= height
    <3> DEFINE m == top + 1
               n == top + h
    <3>1. m \in Int /\ n \in Int /\ 1 <= m /\ m <= n + 1 /\ n <= height /\ n + 1 - m = h
      <4>1. top + h <= height
        <5>1. top = 0 \/ top = cursor + 1 - h
          BY <1>3
        <5> QED
          BY <1>2, <2>1, <5>1
      <4> QED
        BY <1>2, <1>3, <4>1
    <3>2. live' = SubSeq(live, m, n)
      BY <1>1, <1>5, <2>1 DEF ResizedTo
    <3> HIDE DEF m, n
    <3> QED
      BY <1>5, <3>1, <3>2, Piece
  <2>2. CASE h > height
    <3>1. live' = live \o FreshLines(more) /\ more = h - height
      BY <1>1, <1>2, <1>4, <1>5, <2>2 DEF ResizedTo
    <3>2. more <= Max(Heights)
      BY <1>2, <3>1
    <3>3. /\ live' \in Seq(Lines) /\ Len(live') = Len(live) + more /\ Distinct(live')
      BY <1>4, <1>5, <3>1, <3>2, FreshBelow
    <3> QED
      BY <1>2, <1>5, <3>1, <3>3
  <2> QED
    BY <1>2, <2>1, <2>2
<1>10. Rows' = 0 .. h - 1 /\ RowIds' \in [Rows' -> LineIds]
  <2>1. Rows' = 0 .. h - 1
    BY <1>1 DEF Rows
  <2>2. \A r \in 0 .. h - 1 : live'[r + 1] \in Lines
    BY <1>2, <1>9
  <2> QED
    BY <2>1, <2>2 DEF RowIds, Lines
<1>11. cursor' \in Rows'
  <2>1. cursor - top \in 0 .. h - 1
    BY <1>2, <1>3
  <2> QED
    BY <1>1, <1>10, <2>1
<1>12. ScreenType'
  <2>1. pos' \in 0 .. Len(sb')
    BY <1>1, <1>8
  <2>2. alternate' \in BOOLEAN /\ aged' \subseteq Rows' /\ observed_lines' \in [Rows' -> LineIds]
    BY <1>1, <1>10 DEF ScreenType
  <2> QED
    BY <1>1, <1>8, <1>9, <1>11, <2>1, <2>2 DEF ScreenType
<1>13. PackType'
  BY <1>1 DEF PackType, pack
<1>14. ShiftsTouchAll' /\ ObservedInPlace' /\ UntouchedInGrid'
  BY <1>1, <1>10 DEF ShiftsTouchAll, ObservedInPlace, UntouchedInGrid
<1> QED
  BY <1>9, <1>12, <1>13, <1>14

-----------------------------------------------------------------------------
(* What is displayed                                                        *)

DisplayType ==
    /\ handler \in {"idle", "busy", "feeding"}
    /\ work \in 0 .. MaxWork
    /\ \A r \in DOMAIN framebuffer : framebuffer[r] \in Pictures
    /\ window \in [Rows -> Pictures]
    /\ invalid \subseteq Rows
    /\ pending_frame # NoFrame =>
           \A r \in DOMAIN pending_frame.cells : pending_frame.cells[r] \in PackedCells

LEMMA BackgroundType == Background \in Pictures
BY DataAssumption DEF Background, Pictures, PackedCells

LEMMA PictureType ==
    ASSUME NEW frame, NEW r \in DOMAIN frame.cells, frame.cells[r] \in PackedCells
    PROVE  Picture(frame, r) \in Pictures
BY DEF Picture, Pictures

LEMMA FrameCellsType ==
    ASSUME PackInv
    PROVE  \A r \in DOMAIN TakePackedFrame.cells : TakePackedFrame.cells[r] \in PackedCells
BY FrameExact, DrawnType DEF DrawnView, PackInv

LEMMA MergedCells ==
    ASSUME NEW frame, frame = TakePackedFrame
    PROVE  MergePending(frame).cells = frame.cells
BY DEF MergePending, TakePackedFrame

LEMMA WorkingFacts ==
    ASSUME DisplayType, NEW op, Working(op)
    PROVE  /\ work' \in 0 .. MaxWork
           /\ UNCHANGED <<pending_frame, disp, height>>
BY DataAssumption DEF Working, DisplayType

\* Feeding the core or scrolling its view displays nothing.
LEMMA DisplayKept ==
    ASSUME DisplayType, work' \in 0 .. MaxWork, UNCHANGED <<pending_frame, disp, height>>,
           handler' \in {"idle", "busy", "feeding"}
    PROVE  DisplayType'
BY DEF DisplayType, disp, Rows

LEMMA PaintedType ==
    ASSUME DisplayType, NEW frame,
           \A r \in DOMAIN frame.cells : frame.cells[r] \in PackedCells
    PROVE  \A r \in DOMAIN PaintedFramebuffer(frame) :
               PaintedFramebuffer(frame)[r] \in Pictures
<1> DEFINE shown == DOMAIN frame.cells
           blitted == ScrollFramebuffer(framebuffer, frame.delta, shown)
<1>1. \A r \in shown : Picture(frame, r) \in Pictures
  BY PictureType
<1>2. \A r \in DOMAIN framebuffer : blitted[r] \in Pictures
  BY BackgroundType DEF ScrollFramebuffer, DisplayType
<1> HIDE DEF shown, blitted
<1>3. CASE ~FramebufferUsable \/ frame.full
  BY <1>1, <1>3, BackgroundType DEF PaintedFramebuffer, shown
<1>4. CASE ~(~FramebufferUsable \/ frame.full)
  <2>1. PaintedFramebuffer(frame) =
            [r \in Rows |-> IF r \in frame.dirty \cap shown THEN Picture(frame, r)
                            ELSE blitted[r]]
    BY <1>4 DEF PaintedFramebuffer, shown, blitted
  <2>2. DOMAIN framebuffer = Rows
    BY <1>4 DEF FramebufferUsable
  <2> QED
    BY <1>1, <1>2, <2>1, <2>2
<1> QED
  BY <1>3, <1>4

LEMMA DisplayStep == PackInv /\ DisplayType /\ [Next]_vars => DisplayType'
<1> SUFFICES ASSUME PackInv, DisplayType, [Next]_vars PROVE DisplayType'
  OBVIOUS
<1>1. ASSUME NEW op, Vte(op) PROVE DisplayType'
  BY <1>1, WorkingFacts, DisplayKept DEF Vte
<1>2. ASSUME NEW lines \in Int, ScrollLines(lines) PROVE DisplayType'
  BY <1>2, WorkingFacts, DisplayKept DEF ScrollLines
<1>3. CASE EndFeed
  BY <1>3 DEF EndFeed, DisplayType, disp, tsm, Rows
<1>4. CASE RequestFrameRefresh
  <2> DEFINE frame == TakePackedFrame
             merged == MergePending(frame)
  <2>1. \A r \in DOMAIN merged.cells : merged.cells[r] \in PackedCells
    BY FrameCellsType, MergedCells
  <2>2. Invalidated(merged) \subseteq Rows
    BY DEF Invalidated
  <2>3. /\ handler' = "idle" /\ work' = 0
        /\ UNCHANGED <<height, framebuffer, window>>
        /\ \/ UNCHANGED <<pending_frame, invalid>>
           \/ pending_frame' = merged /\ invalid' = invalid \cup Invalidated(merged)
    BY <1>4 DEF RequestFrameRefresh
  <2> HIDE DEF merged
  <2>4. Rows' = Rows /\ work' \in 0 .. MaxWork
    BY <2>3, DataAssumption DEF Rows
  <2> QED
    BY <2>1, <2>2, <2>3, <2>4 DEF DisplayType
<1>5. ASSUME NEW h \in Heights, OnSize(h) PROVE DisplayType'
  <2>1. /\ height' = h /\ window' = [r \in 0 .. h - 1 |-> Background]
        /\ invalid' = 0 .. h - 1
        /\ UNCHANGED <<ctrl, framebuffer>>
    BY <1>5 DEF OnSize, CoreResize
  <2> QED
    BY <2>1, BackgroundType DEF DisplayType, ctrl, Rows
<1>6. ASSUME NEW rows \in SUBSET Rows, Expose(rows) PROVE DisplayType'
  <2>1. /\ window' = [r \in Rows |-> IF r \in rows THEN Background ELSE window[r]]
        /\ invalid' = invalid \cup rows
        /\ UNCHANGED <<height, ctrl, framebuffer>>
    BY <1>6 DEF Expose, tsm
  <2> QED
    BY <2>1, BackgroundType DEF DisplayType, ctrl, Rows
<1>7. CASE OnPaint
  <2>1. /\ UNCHANGED <<height, handler, work>> /\ Display
        /\ pending_frame' = NoFrame \/ UNCHANGED pending_frame
    BY <1>7 DEF OnPaint
  <2>2. \A r \in DOMAIN framebuffer' : framebuffer'[r] \in Pictures
    <3>1. CASE pending_frame # NoFrame
      <4>1. framebuffer' = PaintedFramebuffer(pending_frame)
        BY <1>7, <3>1 DEF OnPaint, Render
      <4> QED
        BY <3>1, <4>1, PaintedType DEF DisplayType
    <3>2. CASE pending_frame = NoFrame
      <4>1. UNCHANGED framebuffer \/ framebuffer' = PaintedFramebuffer(TakePackedFrame)
        BY <1>7, <3>2 DEF OnPaint, Render
      <4> QED
        BY <4>1, PaintedType, FrameCellsType DEF DisplayType
    <3> QED
      BY <3>1, <3>2
  <2>3. window' \in [Rows -> Pictures] /\ invalid' = {}
    BY <2>1, <2>2, BackgroundType DEF Display, DisplayType
  <2>4. Rows' = Rows
    BY <2>1 DEF Rows
  <2> QED
    BY <2>1, <2>2, <2>3, <2>4 DEF DisplayType
<1>8. CASE UNCHANGED vars
  BY <1>8 DEF vars, tsm, ctrl, disp, DisplayType, Rows
<1>9. ASSUME NEW cell \in Cells, Write(cell) PROVE DisplayType'
  BY <1>1, <1>9 DEF Write
<1>10. ASSUME NEW row \in Rows, MoveCursor(row) PROVE DisplayType'
  BY <1>1, <1>10 DEF MoveCursor
<1>11. CASE LineFeed \/ ReverseIndex \/ DeleteLine \/ SwitchScreen
  BY <1>1, <1>11 DEF LineFeed, ReverseIndex, DeleteLine, SwitchScreen
<1> QED
  BY <1>2, <1>3, <1>4, <1>5, <1>6, <1>7, <1>8, <1>9, <1>10, <1>11 DEF Next

-----------------------------------------------------------------------------
(* The bitmap and the window.  A frame that is not a full one was taken     *)
(* where the one before was, and outside its dirty rows shows the cells of *)
(* that one, moved by its delta.  A shift is found only in a view that is  *)
(* shown to the bottom, where the cell under the cursor is the one that is *)
(* inverted: hence an outline that a cell tells of is never moved along.   *)

PendingType ==
    /\ pending_content \in Int /\ pending_viewport \in Int
    /\ pending_viewport # 0 => aged = Rows

\* Of the cells of the last frame, one is inverted at most.
TakenCells ==
    frame_valid =>
        /\ last_cursor \in DOMAIN grid
        /\ ~Reversed => \A r, s \in DOMAIN grid :
               /\ grid[r].style = "normal" \/ grid[r].style = "reverse"
               /\ grid[r].style = "reverse" /\ grid[s].style = "reverse" => r = s

\* The picture of the last frame.
PictureTaken == [r \in DOMAIN grid |-> [cell |-> grid[r], outline |-> r = last_cursor]]

CoreInv == PackInv /\ PendingType /\ TakenCells

\* "A frontend may blit its framebuffer by that delta": what a frame that is not
\* a full one says of the one before it.
Follows(frame) ==
    /\ frame_valid /\ height = last_rows /\ DOMAIN grid = Rows
    /\ frame.delta = pending_content
    /\ cursor # last_cursor => cursor \in frame.dirty /\ last_cursor \in frame.dirty
    /\ frame.delta = 0 => \A r \in Rows \ frame.dirty : frame.cells[r] = grid[r]
    /\ frame.delta # 0 =>
           /\ AtBottom /\ Distance(frame.delta) < height
           /\ \A r \in Rows \ frame.dirty :
                  r + frame.delta \in Rows /\ frame.cells[r] = grid[r + frame.delta]

LEMMA TakenFrame ==
    ASSUME CoreInv
    PROVE  LET frame == TakePackedFrame
           IN /\ frame.cells = DrawnView /\ frame.cursor = cursor
              /\ frame.full \in BOOLEAN /\ frame.delta \in Int
              /\ frame.dirty \subseteq Rows
              /\ frame.changed <=> frame.full \/ frame.dirty # {}
              /\ frame.full => frame.dirty = Rows
              /\ ~frame.full => Follows(frame)
              /\ ~frame.changed => frame.delta = 0
              /\ aged = Rows => frame.changed
<1> USE ScreenFacts DEF CoreInv, PackInv
<1> DEFINE frame == TakePackedFrame
           resized == ~frame_valid \/ height # last_rows \/ alternate # last_alternate
           reuse == ReusesScrolledRows(resized)
           redraw == resized \/ (pending_content # 0 /\ ~reuse)
           cached == IF reuse THEN RotatePackedRows(EnsurePackedGrid, pending_content)
                     ELSE EnsurePackedGrid
           cells == IF frame_valid /\ cursor # last_cursor
                    THEN {cursor, last_cursor} \cap Rows ELSE {}
           drawn == IF redraw THEN Rows ELSE aged \cup cells
           decoded == DecodedCells(drawn, reuse, cached)
           exposed == IF reuse THEN Exposed(pending_content) ELSE {}
           touched == decoded \cup cells \cup exposed
           dirty == Hull(touched)
           full == redraw \/ dirty = Rows
<1>1. /\ frame.cells = RebuildPackedRows(cached, decoded) /\ frame.cursor = cursor
      /\ frame.delta = IF pending_content # 0 THEN pending_content ELSE pending_viewport
      /\ frame.dirty = IF full THEN Rows ELSE dirty
      /\ frame.full = full
      /\ frame.changed = (full \/ dirty # {})
  BY DEF TakePackedFrame
<1>2. frame.cells = DrawnView
  BY FrameExact
<1>3. height \in Nat /\ cursor \in Rows /\ pending_content \in Int /\ pending_viewport \in Int
  BY DEF PendingType, ScreenType
<1>4. reuse => /\ ~resized /\ pending_content # 0 /\ pending_viewport = 0 /\ AtBottom
               /\ Distance(pending_content) < height
  BY DEF ReusesScrolledRows
<1>5. exposed \subseteq Rows /\ (reuse => exposed # {})
  <2>1. CASE ~reuse
    BY <2>1
  <2>2. CASE reuse
    <3>1. CASE pending_content > 0
      <4>1. pending_content < height /\ exposed = height - pending_content .. height - 1
        BY <1>3, <1>4, <2>2, <3>1 DEF Distance, Exposed
      <4>2. height - 1 \in exposed
        BY <1>3, <3>1, <4>1
      <4> QED
        BY <1>3, <3>1, <4>1, <4>2 DEF Rows
    <3>2. CASE ~(pending_content > 0)
      <4>1. pending_content < 0 /\ -pending_content < height
            /\ exposed = 0 .. -pending_content - 1
        BY <1>3, <1>4, <2>2, <3>2 DEF Distance, Exposed
      <4>2. 0 \in exposed
        BY <1>3, <4>1
      <4> QED
        BY <1>3, <4>1, <4>2 DEF Rows
    <3> QED
      BY <3>1, <3>2
  <2> QED
    BY <2>1, <2>2
<1>6. touched \subseteq Rows
  <2>1. drawn \subseteq Rows
    BY DEF ScreenType
  <2>2. decoded \subseteq Rows
    BY <2>1 DEF DecodedCells
  <2> QED
    BY <1>5, <2>2
<1>7. ~reuse => decoded = drawn
  BY DEF DecodedCells
<1> HIDE DEF frame, reuse, cached, exposed, decoded
<1>8. touched \subseteq dirty /\ dirty \subseteq Rows /\ (touched = {} => dirty = {})
  <2> HIDE DEF touched
  <2> QED
    BY <1>3, <1>6, HullFacts
<1>9. aged = Rows => full \/ reuse
  <2> SUFFICES ASSUME aged = Rows, ~reuse, ~redraw PROVE dirty = Rows
    OBVIOUS
  <2>1. decoded = Rows
    BY <1>7 DEF ScreenType
  <2> QED
    BY <1>8, <2>1
<1>10. ASSUME ~full PROVE Follows(frame)
  <2>1. ~resized /\ (pending_content # 0 => reuse)
    BY <1>10
  <2>2. DOMAIN grid = Rows /\ EnsurePackedGrid = grid
    BY <2>1 DEF PackType, Rows, EnsurePackedGrid
  <2>3. pending_viewport = 0
    BY <1>4, <1>9, <1>10 DEF PendingType
  <2>4. frame.delta = pending_content /\ frame.dirty = dirty
    BY <1>1, <1>10, <2>3
  <2>5. cursor # last_cursor => cursor \in dirty /\ last_cursor \in dirty
    <3>1. last_cursor \in Rows
      BY <2>1, <2>2 DEF TakenCells
    <3> QED
      BY <1>3, <1>8, <2>1, <3>1
  <2>6. \A r \in Rows \ dirty : frame.cells[r] = cached[r] /\ r \notin exposed
    BY <1>1, <1>8 DEF RebuildPackedRows
  <2>7. ASSUME frame.delta = 0, NEW r \in Rows \ dirty PROVE frame.cells[r] = grid[r]
    <3>1. ~reuse
      BY <1>4, <2>4, <2>7
    <3>2. cached = grid
      BY <2>2, <3>1 DEF cached
    <3> QED
      BY <2>6, <3>2
  <2>8. ASSUME frame.delta # 0
        PROVE  /\ AtBottom /\ Distance(frame.delta) < height
               /\ \A r \in Rows \ dirty :
                      r + frame.delta \in Rows /\ frame.cells[r] = grid[r + frame.delta]
    <3>1. reuse /\ pending_content # 0
      BY <2>1, <2>4, <2>8
    <3>2. AtBottom /\ Distance(frame.delta) < height
      BY <1>4, <2>4, <3>1
    <3>3. cached = RotatePackedRows(grid, pending_content) /\ exposed = Exposed(pending_content)
      BY <2>2, <3>1 DEF cached, exposed
    <3>4. ASSUME NEW r \in Rows \ dirty PROVE r + pending_content \in Rows
      <4>1. r \in 0 .. height - 1 /\ r \notin Exposed(pending_content)
        BY <2>6, <3>3 DEF Rows
      <4>2. pending_content > 0 \/ pending_content < 0
        BY <1>3, <3>1
      <4> QED
        BY <1>3, <4>1, <4>2 DEF Exposed, Rows
    <3>5. ASSUME NEW r \in Rows \ dirty PROVE frame.cells[r] = grid[r + pending_content]
      BY <2>2, <2>6, <3>3, <3>4 DEF RotatePackedRows
    <3> QED
      BY <2>4, <3>2, <3>4, <3>5
  <2> QED
    BY <2>1, <2>2, <2>4, <2>5, <2>7, <2>8 DEF Follows
<1>11. ~full /\ dirty = {} => frame.delta = 0
  <2>1. ~full /\ dirty = {} => ~reuse
    BY <1>5, <1>8
  <2> QED
    BY <1>10, <2>1 DEF Follows
<1>12. aged = Rows => full \/ dirty # {}
  BY <1>5, <1>8, <1>9
<1>13. frame.delta \in Int
  BY <1>1, <1>3
<1> HIDE DEF full, dirty
<1> QED
  BY <1>1, <1>2, <1>8, <1>10, <1>11, <1>12, <1>13 DEF frame

\* Nothing has changed since a frame was taken: the next one says so.
FrameCurrent ==
    /\ frame_valid /\ aged = {}
    /\ height = last_rows /\ cursor = last_cursor /\ alternate = last_alternate
    /\ pending_content = 0

LEMMA NothingNew ==
    ASSUME CoreInv, FrameCurrent
    PROVE  ~TakePackedFrame.changed
<1> USE ScreenFacts DEF CoreInv, PackInv, FrameCurrent
<1>1. \A full : ~ReusesScrolledRows(full)
  BY DEF ReusesScrolledRows
<1>2. DecodedCells({}, FALSE, EnsurePackedGrid) = {}
  BY DEF DecodedCells
<1>3. Hull({}) = {}
  BY DEF Hull
<1> DEFINE resized == ~frame_valid \/ height # last_rows \/ alternate # last_alternate
           reuse == ReusesScrolledRows(resized)
           redraw == resized \/ (pending_content # 0 /\ ~reuse)
           cached == IF reuse THEN RotatePackedRows(EnsurePackedGrid, pending_content)
                     ELSE EnsurePackedGrid
           cells == IF frame_valid /\ cursor # last_cursor
                    THEN {cursor, last_cursor} \cap Rows ELSE {}
           drawn == IF redraw THEN Rows ELSE aged \cup cells
           decoded == DecodedCells(drawn, reuse, cached)
           exposed == IF reuse THEN Exposed(pending_content) ELSE {}
           dirty == Hull(decoded \cup cells \cup exposed)
           full == redraw \/ dirty = Rows
<1>4. TakePackedFrame.changed = (full \/ dirty # {})
  BY DEF TakePackedFrame
<1>5. resized = FALSE
  OBVIOUS
<1>6. reuse = FALSE
  BY <1>1, <1>5
<1>7. redraw = FALSE /\ cached = EnsurePackedGrid /\ exposed = {}
  BY <1>5, <1>6
<1>8. cells = {} /\ drawn = {}
  BY <1>7
<1>9. decoded = {}
  BY <1>2, <1>6, <1>7, <1>8
<1>10. dirty = {}
  BY <1>3, <1>7, <1>8, <1>9
<1>11. dirty # Rows
  BY <1>10 DEF ScreenType
<1> HIDE DEF redraw, dirty
<1> QED
  BY <1>4, <1>7, <1>10, <1>11

LEMMA DrawnStyle ==
    ASSUME ScreenType, ~Reversed, NEW r \in Rows
    PROVE  DrawnCell(r).style = IF pos + r = Len(sb) + cursor THEN "reverse" ELSE "normal"
<1>1. pos + r < Len(sb) => pos + r + 1 \in 1 .. Len(sb)
  BY ScreenFacts DEF Rows
<1>2. ~(pos + r < Len(sb)) => pos + r + 1 - Len(sb) \in 1 .. Len(live)
  BY ScreenFacts DEF Rows, ScreenType
<1> DEFINE cell == IF pos + r < Len(sb) THEN sb[pos + r + 1].cell
                   ELSE live[pos + r + 1 - Len(sb)].cell
<1>3. pos + r < Len(sb) => sb[pos + r + 1] \in Lines
  BY <1>1 DEF ScreenType
<1>4. ~(pos + r < Len(sb)) => live[pos + r + 1 - Len(sb)] \in Lines
  BY <1>2 DEF ScreenType
<1>5. cell \in Cells
  BY <1>3, <1>4 DEF Lines
<1>6. cell.style = "normal" /\ Inverted(cell).style = "reverse"
  BY <1>5 DEF Cells, Inverted
<1> QED
  BY <1>6 DEF DrawnCell

\* What is known of the core once a frame was taken.
LEMMA AfterFrame ==
    ASSUME CoreInv, NEW frame, frame = TakePackedFrame, FrameTaken(frame),
           UNCHANGED <<height, sb, live, alternate, pos, cursor>>
    PROVE  /\ TakenCells' /\ PendingType' /\ FrameCurrent'
           /\ PictureTaken' = [r \in Rows |-> Picture(frame, r)]
           /\ DOMAIN grid' = Rows /\ grid' = frame.cells /\ last_cursor' = frame.cursor
<1> USE ScreenFacts DEF CoreInv, PackInv
<1>1. frame.cells = DrawnView /\ frame.cursor = cursor
  BY TakenFrame
<1>2. grid' = DrawnView /\ last_cursor' = cursor /\ Rows' = Rows /\ cursor \in Rows
  BY <1>1 DEF FrameTaken, Rows, ScreenType
<1>3. DOMAIN grid' = Rows /\ \A r \in Rows : grid'[r] = DrawnCell(r)
  BY <1>2 DEF DrawnView
<1>4. PictureTaken' = [r \in Rows |-> Picture(frame, r)]
  BY <1>1, <1>2, <1>3 DEF PictureTaken, Picture
<1>5. TakenCells'
  <2>1. ASSUME ~Reversed, NEW r \in Rows
        PROVE  grid'[r].style = IF pos + r = Len(sb) + cursor THEN "reverse" ELSE "normal"
    BY <1>3, <2>1, DrawnStyle
  <2>2. \A r, s \in Rows : pos + r = Len(sb) + cursor /\ pos + s = Len(sb) + cursor => r = s
    BY DEF Rows
  <2> QED
    BY <1>2, <1>3, <2>1, <2>2 DEF TakenCells
<1>6. PendingType' /\ FrameCurrent'
  BY DEF FrameTaken, PendingType, FrameCurrent
<1> QED
  BY <1>1, <1>2, <1>3, <1>4, <1>5, <1>6

LEMMA OutlineOf ==
    ASSUME NEW c, NEW b
    PROVE  [cell |-> c, outline |-> b].outline = b
OBVIOUS

LEMMA Outlined ==
    ASSUME NEW p, NEW c, NEW last, p = [cell |-> c, outline |-> last = last]
    PROVE  p.outline /\ p.cell = c
<1>1. p.outline
  BY OutlineOf, Zenon
<1>2. p.cell = c
  OBVIOUS
<1> QED
  BY <1>1, <1>2, Zenon

\* A bitmap that shows the last frame shows the next one in the rows that are
\* not dirty, once it was scrolled: the outline was on the inverted cell,
\* which is the one the cursor was in, and that cell is not moved along.
LEMMA FollowingFrame ==
    ASSUME CoreInv, NEW frame, frame = TakePackedFrame, ~frame.full,
           framebuffer = PictureTaken, frame.delta = 0 \/ ~StrayOutline,
           NEW r \in Rows \ frame.dirty
    PROVE  ScrollFramebuffer(framebuffer, frame.delta, Rows)[r] = Picture(frame, r)
<1> USE ScreenFacts DEF CoreInv, PackInv
<1>1. Follows(frame) /\ frame.cells = DrawnView /\ frame.cursor = cursor /\ frame.delta \in Int
  BY TakenFrame
<1>2. DOMAIN framebuffer = Rows /\ DOMAIN grid = Rows
      /\ \A s \in Rows : framebuffer[s] = [cell |-> grid[s], outline |-> s = last_cursor]
  BY <1>1 DEF Follows, PictureTaken
<1>3. r \in Int /\ IsFiniteSet(Rows) /\ Cardinality(Rows) = height
  BY Interval, height - 1 \in Int DEF Rows
<1>4. Picture(frame, r) = [cell |-> frame.cells[r], outline |-> r = cursor]
  BY <1>1 DEF Picture
<1>5. r # cursor \/ cursor = last_cursor
  BY <1>1 DEF Follows
<1>6. r # last_cursor \/ cursor = last_cursor
  BY <1>1 DEF Follows
<1>7. CASE frame.delta = 0
  <2>1. ScrollFramebuffer(framebuffer, frame.delta, Rows)[r] = framebuffer[r]
    BY <1>2, <1>3, <1>7 DEF ScrollFramebuffer
  <2>2. frame.cells[r] = grid[r]
    BY <1>1, <1>7 DEF Follows
  <2>3. (r = cursor) = (r = last_cursor)
    BY <1>5, <1>6
  <2> QED
    BY <1>2, <1>4, <2>1, <2>2, <2>3
<1>8. CASE frame.delta # 0
  <2> DEFINE from == r + frame.delta
  <2>1. from \in Rows /\ frame.cells[r] = grid[from]
    BY <1>1, <1>8 DEF Follows
  <2>2. from # r
    BY <1>1, <1>3, <1>8
  <2>3. ScrollFramebuffer(framebuffer, frame.delta, Rows)[r] = framebuffer[from]
    BY <1>1, <1>2, <1>3, <1>8, <2>1 DEF ScrollFramebuffer, Follows
  <2>4. ~Reversed /\ \A s \in Rows : s = last_cursor => grid[s].style # "normal"
    <3>1. last_cursor \in Rows
      BY <1>1, <1>2 DEF Follows, TakenCells
    <3>2. framebuffer[last_cursor].outline /\ framebuffer[last_cursor].cell = grid[last_cursor]
      <4>1. framebuffer[last_cursor] =
                [cell |-> grid[last_cursor], outline |-> last_cursor = last_cursor]
        BY <1>2, <3>1, Zenon
      <4> HIDE DEF TakenCells, CoreInv, PackInv
      <4> QED
        BY <4>1, Outlined
    <3>3. ~StrayOutline
      BY <1>8
    <3>4. ~(Reversed \/ framebuffer[last_cursor].cell.style = "normal")
      BY <1>2, <3>1, <3>2, <3>3 DEF StrayOutline
    <3> QED
      BY <3>2, <3>4
  <2>5. grid[from].style = IF r = cursor THEN "reverse" ELSE "normal"
    <3>1. DrawnCell(r).style = IF pos + r = Len(sb) + cursor THEN "reverse" ELSE "normal"
      BY <2>4, DrawnStyle
    <3>2. pos = Len(sb)
      BY <1>1, <1>8 DEF Follows, AtBottom
    <3>3. frame.cells[r] = DrawnCell(r)
      BY <1>1 DEF DrawnView
    <3>4. pos + r = Len(sb) + cursor <=> r = cursor
      BY <1>3, <3>2
    <3> QED
      BY <2>1, <3>1, <3>3, <3>4
  <2>6. last_cursor \in Rows /\ grid[last_cursor].style = "reverse"
    <3>1. last_cursor \in Rows /\ frame_valid
      BY <1>1, <1>2 DEF Follows, TakenCells
    <3> QED
      BY <1>2, <2>4, <3>1 DEF TakenCells
  <2>7. grid[from].style = "reverse" => from = last_cursor
    BY <1>1, <1>2, <2>1, <2>4, <2>6 DEF TakenCells, Follows
  <2>8. r # cursor
    <3> SUFFICES ASSUME r = cursor PROVE FALSE
      OBVIOUS
    <3>1. from = last_cursor /\ cursor = last_cursor
      BY <1>5, <2>5, <2>7
    <3> QED
      BY <2>2, <3>1
  <2>9. from # last_cursor
    BY <2>1, <2>5, <2>6, <2>8
  <2> HIDE DEF from
  <2>10. framebuffer[from] = [cell |-> grid[from], outline |-> FALSE]
    BY <1>2, <2>1, <2>9
  <2>11. Picture(frame, r) = [cell |-> grid[from], outline |-> FALSE]
    BY <1>4, <2>1, <2>8
  <2> QED
    BY <2>3, <2>10, <2>11
<1> QED
  BY <1>7, <1>8

\* A frame that says nothing changed leaves the last one as it was.
LEMMA SameFrame ==
    ASSUME CoreInv, NEW frame, frame = TakePackedFrame, FrameTaken(frame), ~frame.changed
    PROVE  /\ frame_valid /\ grid' = grid /\ last_cursor' = last_cursor /\ DOMAIN grid = Rows
           /\ aged # Rows
<1>1. ~frame.full /\ frame.dirty = {} /\ frame.delta = 0 /\ aged # Rows /\ Follows(frame)
  BY TakenFrame
<1>2. \A r \in Rows : frame.cells[r] = grid[r]
  BY <1>1 DEF Follows
<1>3. frame.cells = DrawnView /\ DOMAIN grid = Rows /\ frame_valid /\ cursor = last_cursor
  BY <1>1, TakenFrame DEF Follows
<1>4. TakenCells /\ PackInv
  BY DEF CoreInv
<1>5. grid = [r \in Rows |-> grid[r]]
  BY <1>3, <1>4 DEF PackInv, PackType
<1>6. DrawnView = [r \in Rows |-> grid[r]]
  BY <1>2, <1>3 DEF DrawnView
<1> QED
  BY <1>1, <1>3, <1>5, <1>6 DEF FrameTaken

\* A frame that does not move the screen shows, outside its dirty rows, the
\* picture of the one before.
LEMMA StillFrame ==
    ASSUME CoreInv, NEW frame, frame = TakePackedFrame, ~frame.full, frame.delta = 0,
           NEW r \in Rows \ frame.dirty
    PROVE  DOMAIN grid = Rows /\ Picture(frame, r) = PictureTaken[r]
<1>1. Follows(frame) /\ frame.cursor = cursor
  BY TakenFrame
<1>2. DOMAIN grid = Rows /\ frame.cells[r] = grid[r]
  BY <1>1 DEF Follows
<1>3. (r = cursor) = (r = last_cursor)
  BY <1>1 DEF Follows
<1> QED
  BY <1>1, <1>2, <1>3 DEF Picture, PictureTaken

-----------------------------------------------------------------------------
(* What is drawn and what is invalidated.  The bitmap is the picture of the *)
(* last frame, or becomes it by painting the one that waits; the window    *)
(* shows that picture wherever it is not invalidated.                      *)

FrameWaiting ==
    pending_frame # NoFrame =>
        /\ frame_valid
        /\ pending_frame.cells = grid /\ pending_frame.cursor = last_cursor
        /\ pending_frame.delta \in Int /\ pending_frame.full \in BOOLEAN
        /\ pending_frame.dirty \subseteq DOMAIN grid
        /\ invalid # {}
        /\ ~outdated => DOMAIN grid = Rows
        /\ pending_frame.full => invalid = Rows

BitmapKnown == framebuffer_valid /\ DOMAIN framebuffer = DOMAIN grid /\ ~blurred
BitmapTaken == pending_frame = NoFrame /\ BitmapKnown => framebuffer = PictureTaken
BitmapToPaint ==
    /\ pending_frame # NoFrame /\ BitmapKnown
    /\ ~pending_frame.full
    /\ pending_frame.delta = 0 \/ ~StrayOutline
    => \A r \in DOMAIN grid \ pending_frame.dirty :
           ScrollFramebuffer(framebuffer, pending_frame.delta, DOMAIN grid)[r]
               = PictureTaken[r]

\* Between two handlers nothing is left to take but after a resize.
IdleInv ==
    handler = "idle" /\ ~outdated =>
        FrameCurrent \/ (invalid = Rows /\ aged = Rows /\ pending_frame = NoFrame)
UsableInv ==
    FramebufferUsable \/ (invalid = Rows /\ (pending_frame # NoFrame \/ aged = Rows))
WindowInv ==
    /\ ~blurred /\ ~outdated
    /\ pending_frame = NoFrame \/ pending_frame.delta = 0
    => \A r \in Rows \ (invalid \cup moved) :
           r \in DOMAIN grid /\ window[r] = PictureTaken[r]

PictureInv ==
    /\ FrameWaiting /\ BitmapTaken /\ BitmapToPaint
    /\ IdleInv /\ UsableInv /\ WindowInv

DrawnInv == CoreInv /\ DisplayType /\ PictureInv

\* The shift that is found leaves a row of the screen.
LEMMA ShiftBound ==
    ASSUME ScreenType, NEW previous
    PROVE  /\ DetectFullScreenShift(previous) \in Int
           /\ Distance(DetectFullScreenShift(previous)) <= height - 1
<1> DEFINE MovedUp(d) == \A r \in 0 .. height - d - 1 : RowIds[r] = previous[r + d]
           MovedDown(d) == \A r \in 0 .. height - d - 1 : RowIds[r + d] = previous[r]
           shifts == {d \in 1 .. height - 1 : MovedUp(d) \/ MovedDown(d)}
<1>1. shifts \subseteq 1 .. height - 1
  OBVIOUS
<1> HIDE DEF shifts
<1>2. \A d \in 1 .. height - 1 : d \in Nat
  OBVIOUS
<1>3. shifts # {} => Min(shifts) \in 1 .. height - 1
  BY <1>1, <1>2, LeastOf
<1>4. DetectFullScreenShift(previous) =
          IF DOMAIN previous # Rows \/ shifts = {} THEN 0
          ELSE IF MovedUp(Min(shifts)) THEN Min(shifts) ELSE -Min(shifts)
  BY DEF DetectFullScreenShift, shifts
<1> HIDE DEF MovedUp
<1>5. height \in Nat \ {0}
  BY ScreenFacts
<1> QED
  BY <1>3, <1>4, <1>5 DEF Distance

\* Feeding the core or scrolling its view.
LEMMA CoreStep ==
    ASSUME DrawnInv, UNCHANGED <<pack, disp, hist, pending_frame, height>>,
           handler' # "idle", aged = Rows => aged' = Rows
    PROVE  TakenCells' /\ PictureInv'
<1> USE DEF DrawnInv, PictureInv
<1>1. /\ UNCHANGED <<grid, frame_valid, last_rows, last_cursor, last_alternate>>
      /\ UNCHANGED <<framebuffer, framebuffer_valid, window, invalid>>
      /\ UNCHANGED <<blurred, moved, outdated, pending_frame, height>>
  BY DEF pack, disp, hist
<1>2. Rows' = Rows
  BY <1>1 DEF Rows
<1>3. PictureTaken' = PictureTaken
  BY <1>1 DEF PictureTaken
<1>4. TakenCells'
  BY <1>1 DEF TakenCells, CoreInv
<1>5. FrameWaiting'
  BY <1>1, <1>2 DEF FrameWaiting
<1>6. BitmapTaken'
  BY <1>1, <1>3 DEF BitmapTaken, BitmapKnown
<1>7. BitmapToPaint'
  BY <1>1, <1>3 DEF BitmapToPaint, BitmapKnown, StrayOutline, ScrollFramebuffer
<1>8. IdleInv'
  BY DEF IdleInv
<1>9. UsableInv'
  BY <1>1, <1>2 DEF UsableInv, FramebufferUsable
<1>10. WindowInv'
  BY <1>1, <1>2, <1>3 DEF WindowInv
<1> QED
  BY <1>4, <1>5, <1>6, <1>7, <1>8, <1>9, <1>10

LEMMA VteStep ==
    ASSUME DrawnInv, NEW op, Vte(op), aged = Rows => aged' = Rows
    PROVE  PendingType' /\ TakenCells' /\ PictureInv'
<1>1. UNCHANGED <<pack, disp, hist, pending_frame, height>> /\ handler' # "idle"
  BY DEF Vte, Working
<1>2. PendingType'
  BY <1>1 DEF DrawnInv, CoreInv, PendingType, Vte, pend, Rows
<1> QED
  BY <1>1, <1>2, CoreStep

\* The steps of the core that feed it, close the feed or scroll its view.
LEMMA FeedingStep ==
    ASSUME DrawnInv,
           \/ \E cell \in Cells : Write(cell)
           \/ \E row \in Rows : MoveCursor(row)
           \/ LineFeed \/ ReverseIndex \/ DeleteLine \/ SwitchScreen
    PROVE  PendingType' /\ TakenCells' /\ PictureInv'
<1>1. aged \subseteq Rows /\ \A r : Shown(r) \subseteq Rows
  BY DEF DrawnInv, CoreInv, PackInv, ScreenType, Shown
<1>2. \A S, T : S \subseteq Rows /\ T \subseteq Rows /\ aged = Rows => aged \cup S \cup T = Rows
  BY <1>1
<1>3. ASSUME NEW cell \in Cells, Write(cell) PROVE Vte("write") /\ (aged = Rows => aged' = Rows)
  BY <1>1, <1>2, <1>3 DEF Write
<1>4. ASSUME NEW row \in Rows, MoveCursor(row)
      PROVE  Vte("move") /\ (aged = Rows => aged' = Rows)
  BY <1>1, <1>2, <1>4 DEF MoveCursor
<1>5. LineFeed => Vte("linefeed") /\ (aged = Rows => aged' = Rows)
  BY <1>1, <1>2 DEF LineFeed
<1>6. ReverseIndex => Vte("reverseindex") /\ (aged = Rows => aged' = Rows)
  BY <1>1, <1>2 DEF ReverseIndex
<1>7. /\ DeleteLine => Vte("deleteline") /\ (aged = Rows => aged' = Rows)
      /\ SwitchScreen => Vte("alternate") /\ (aged = Rows => aged' = Rows)
  BY DEF DeleteLine, SwitchScreen
<1> QED
  BY <1>3, <1>4, <1>5, <1>6, <1>7, VteStep

LEMMA EndFeedKeeps ==
    ASSUME DrawnInv, EndFeed
    PROVE  PendingType' /\ TakenCells' /\ PictureInv'
<1>1. /\ UNCHANGED <<pack, disp, hist, pending_frame, height, aged, pending_viewport>>
      /\ handler' = "busy"
      /\ pending_content' = pending_content +
             (IF observed_alternate = alternate /\ AtBottom
              THEN DetectFullScreenShift(observed_lines) ELSE 0)
  BY DEF EndFeed, tsm
<1>2. ScreenType /\ PendingType
  BY DEF DrawnInv, CoreInv, PackInv
<1>3. pending_content' \in Int
  BY <1>1, <1>2, ShiftBound DEF PendingType
<1>4. PendingType'
  BY <1>1, <1>2, <1>3 DEF PendingType, Rows
<1> QED
  BY <1>1, <1>4, CoreStep

LEMMA ScrollLinesKeeps ==
    ASSUME DrawnInv, NEW lines \in Int, ScrollLines(lines)
    PROVE  PendingType' /\ TakenCells' /\ PictureInv'
<1> DEFINE least == Min({Len(sb), pos - lines})
           after == Max({0, least})
<1>1. /\ UNCHANGED <<pack, disp, hist, pending_frame, height, pending_content>>
      /\ handler' = "busy"
      /\ pending_viewport' = pending_viewport + (after - pos)
      /\ aged' = IF after = pos THEN aged ELSE Rows
  BY DEF ScrollLines, Working
<1>2. ScreenType /\ PendingType
  BY DEF DrawnInv, CoreInv, PackInv
<1>3. after \in Int /\ pos \in Int
  <2>1. Len(sb) \in Nat /\ pos \in Int
    BY <1>2 DEF ScreenType
  <2>2. Len(sb) \in Int /\ pos - lines \in Int
    BY <2>1
  <2>3. least \in Int
    BY <2>2, MinPair
  <2> HIDE DEF least
  <2> QED
    BY <2>1, <2>3, FromZero
<1> HIDE DEF after
<1>4. PendingType'
  BY <1>1, <1>2, <1>3 DEF PendingType, Rows
<1>5. aged = Rows => aged' = Rows
  BY <1>1
<1> QED
  BY <1>1, <1>4, <1>5, CoreStep

\* What becomes of the dirty rows when a frame takes the place of another.
LEMMA MergedFrame ==
    ASSUME DrawnInv, NEW frame, frame = TakePackedFrame
    PROVE  LET merged == MergePending(frame)
           IN /\ merged # NoFrame
              /\ merged.cells = frame.cells /\ merged.cursor = frame.cursor
              /\ merged.delta \in Int /\ merged.full \in BOOLEAN
              /\ merged.dirty \subseteq Rows
              /\ pending_frame = NoFrame => merged = frame
              /\ pending_frame # NoFrame =>
                     /\ merged.delta = frame.delta + pending_frame.delta
                     /\ merged.full <=> frame.full \/ pending_frame.full
              /\ ~merged.full =>
                     /\ ~frame.full /\ frame.dirty \subseteq merged.dirty
                     /\ pending_frame # NoFrame =>
                            pending_frame.dirty \subseteq merged.dirty
<1> DEFINE merged == MergePending(frame)
           full == frame.full \/ pending_frame.full
           dirty == frame.dirty \cup pending_frame.dirty
<1>1. /\ frame.full \in BOOLEAN /\ frame.delta \in Int /\ frame.dirty \subseteq Rows
      /\ ~frame.full => DOMAIN grid = Rows
  BY TakenFrame DEF DrawnInv, Follows
<1>2. CASE pending_frame = NoFrame
  <2>1. merged = frame
    BY <1>2 DEF MergePending
  <2>2. frame # NoFrame
    <3>1. frame.kind = "frame" /\ NoFrame.kind = "none"
      BY DEF TakePackedFrame, NoFrame
    <3> QED
      BY <3>1
  <2> QED
    BY <1>1, <1>2, <2>1, <2>2
<1>3. CASE pending_frame # NoFrame
  <2>1. /\ pending_frame.delta \in Int /\ pending_frame.full \in BOOLEAN
        /\ pending_frame.dirty \subseteq DOMAIN grid
    BY <1>3 DEF DrawnInv, PictureInv, FrameWaiting
  <2>2. merged = [frame EXCEPT !.delta = @ + pending_frame.delta,
                               !.full  = full,
                               !.dirty = IF full THEN Rows ELSE Hull(dirty)]
    BY <1>3 DEF MergePending
  <2>3. /\ merged.kind = "frame" /\ merged.cells = frame.cells /\ merged.cursor = frame.cursor
        /\ merged.delta = frame.delta + pending_frame.delta
        /\ merged.full = full
        /\ merged.dirty = IF full THEN Rows ELSE Hull(dirty)
    <3>1. frame = [kind |-> "frame", cells |-> frame.cells, cursor |-> frame.cursor,
                   delta |-> frame.delta, dirty |-> frame.dirty, full |-> frame.full,
                   changed |-> frame.changed]
      BY DEF TakePackedFrame
    <3> HIDE DEF full, dirty
    <3> QED
      BY <2>2, <3>1
  <2>4. merged # NoFrame
    <3>1. NoFrame.kind = "none"
      BY DEF NoFrame
    <3> QED
      BY <2>3, <3>1
  <2>5. ~full => dirty \subseteq Hull(dirty) /\ Hull(dirty) \subseteq Rows
    <3> SUFFICES ASSUME ~full PROVE dirty \subseteq Hull(dirty) /\ Hull(dirty) \subseteq Rows
      OBVIOUS
    <3>1. dirty \subseteq Rows /\ height \in Nat
      BY <1>1, <2>1, ScreenFacts DEF DrawnInv, CoreInv, PackInv
    <3> HIDE DEF dirty
    <3> QED
      BY <3>1, HullFacts
  <2> HIDE DEF merged
  <2>6. merged.dirty \subseteq Rows /\ merged.delta \in Int /\ merged.full \in BOOLEAN
    <3>1. full \in BOOLEAN
      BY <1>1, <2>1
    <3> HIDE DEF full, dirty
    <3> QED
      BY <1>1, <2>1, <2>3, <2>5, <3>1
  <2>7. ~merged.full => /\ ~frame.full /\ frame.dirty \subseteq merged.dirty
                        /\ pending_frame.dirty \subseteq merged.dirty
    BY <2>3, <2>5
  <2>8. merged.full <=> frame.full \/ pending_frame.full
    BY <2>3
  <2> HIDE DEF full, dirty
  <2>9. merged = MergePending(frame)
    BY DEF merged
  <2> QED
    BY <1>3, <2>3, <2>4, <2>6, <2>7, <2>8, <2>9
<1> QED
  BY <1>2, <1>3

\* RequestFrameRefresh when the frame changed something.
LEMMA ChangedRefresh ==
    ASSUME DrawnInv, NEW frame, frame = TakePackedFrame, frame.changed, FrameTaken(frame),
           NEW merged, merged = MergePending(frame), handler' = "idle",
           UNCHANGED <<height, sb, live, alternate, pos, cursor, obs,
                       framebuffer, framebuffer_valid, window, moved>>,
           pending_frame' = merged,
           invalid' = invalid \cup Invalidated(merged),
           blurred' = (blurred \/ ShiftMeetsFrame(frame, merged)),
           outdated' = (outdated /\ ~merged.full)
    PROVE  PendingType' /\ TakenCells' /\ PictureInv'
<1> USE DEF DrawnInv, PictureInv
<1>1. /\ TakenCells' /\ PendingType' /\ FrameCurrent'
      /\ PictureTaken' = [r \in Rows |-> Picture(frame, r)]
      /\ DOMAIN grid' = Rows /\ grid' = frame.cells /\ last_cursor' = frame.cursor
  BY AfterFrame
<1>2. /\ merged # NoFrame
      /\ merged.cells = frame.cells /\ merged.cursor = frame.cursor
      /\ merged.delta \in Int /\ merged.full \in BOOLEAN
      /\ merged.dirty \subseteq Rows
      /\ pending_frame = NoFrame => merged = frame
      /\ pending_frame # NoFrame =>
             /\ merged.delta = frame.delta + pending_frame.delta
             /\ merged.full <=> frame.full \/ pending_frame.full
      /\ ~merged.full =>
             /\ ~frame.full /\ frame.dirty \subseteq merged.dirty
             /\ pending_frame # NoFrame =>
                    pending_frame.dirty \subseteq merged.dirty
  BY MergedFrame
<1>3. Rows' = Rows /\ Rows # {} /\ invalid \subseteq Rows
  BY DEF DisplayType, Rows, CoreInv, PackInv, ScreenType
<1>4. /\ Invalidated(merged) \subseteq Rows /\ Invalidated(merged) # {}
      /\ merged.dirty \subseteq Invalidated(merged)
      /\ merged.full => Invalidated(merged) = Rows
  BY <1>2, <1>3 DEF Invalidated
<1>5. FrameWaiting'
  <2>1. frame_valid'
    BY DEF FrameTaken
  <2> QED
    BY <1>1, <1>2, <1>3, <1>4, <2>1 DEF FrameWaiting
<1>6. BitmapTaken' /\ IdleInv'
  BY <1>1, <1>2 DEF BitmapTaken, IdleInv
<1>7. UsableInv'
  BY <1>2, <1>3, <1>4 DEF UsableInv, FramebufferUsable
<1>8. ASSUME ~merged.full, ~blurred', pending_frame # NoFrame
      PROVE  frame.delta = 0 /\ pending_frame.delta = 0 /\ merged.delta = 0
  <2>1. ~ShiftMeetsFrame(frame, merged)
    BY <1>8, Zenon
  <2>2. frame.delta = 0 /\ pending_frame.delta = 0
    BY <1>8, <2>1 DEF ShiftMeetsFrame
  <2> QED
    BY <1>2, <1>8, <2>2
<1>9. BitmapToPaint'
  <2> SUFFICES ASSUME BitmapKnown', ~merged.full, merged.delta = 0 \/ ~StrayOutline',
                      NEW r \in Rows \ merged.dirty
               PROVE  ScrollFramebuffer(framebuffer, merged.delta, Rows)[r] = Picture(frame, r)
    BY <1>1 DEF BitmapToPaint, ScrollFramebuffer
  <2>1. ~frame.full /\ r \notin frame.dirty
    BY <1>2
  <2>2. Follows(frame)
    BY <2>1, TakenFrame
  <2>3. DOMAIN grid = Rows /\ DOMAIN framebuffer = Rows /\ ~blurred /\ framebuffer_valid
    BY <1>1, <2>2 DEF BitmapKnown, Follows
  <2>4. StrayOutline' = StrayOutline
    BY DEF StrayOutline
  <2>5. CASE pending_frame = NoFrame
    <3>1. merged = frame /\ framebuffer = PictureTaken
      BY <1>2, <2>3, <2>5 DEF BitmapTaken, BitmapKnown
    <3> QED
      BY <2>1, <2>4, <3>1, FollowingFrame
  <2>6. CASE pending_frame # NoFrame
    <3>1. frame.delta = 0 /\ pending_frame.delta = 0 /\ merged.delta = 0
      BY <1>8, <2>6 DEF BitmapKnown
    <3>2. Picture(frame, r) = PictureTaken[r]
      BY <2>1, <3>1, StillFrame
    <3>3. r \notin pending_frame.dirty /\ ~pending_frame.full
      BY <1>2, <2>6
    <3>4. ScrollFramebuffer(framebuffer, 0, Rows)[r] = PictureTaken[r]
      BY <2>3, <2>6, <3>1, <3>3 DEF BitmapToPaint, BitmapKnown
    <3> QED
      BY <3>1, <3>2, <3>4
  <2> QED
    BY <2>5, <2>6
<1>10. WindowInv'
  <2> SUFFICES ASSUME ~blurred', ~outdated', merged.delta = 0,
                      NEW r \in Rows, r \notin invalid', r \notin moved
               PROVE  window[r] = Picture(frame, r)
    BY <1>1, <1>2, <1>3 DEF WindowInv
  <2>1. ~merged.full /\ r \notin merged.dirty /\ r \notin invalid
    BY <1>2, <1>4
  <2>2. ~blurred /\ ~outdated /\ frame.delta = 0
        /\ (pending_frame = NoFrame \/ pending_frame.delta = 0)
    BY <1>2, <1>8, <2>1
  <2>3. window[r] = PictureTaken[r]
    BY <2>1, <2>2 DEF WindowInv
  <2>4. ~frame.full /\ r \notin frame.dirty
    BY <1>2, <2>1
  <2> QED
    BY <2>2, <2>3, <2>4, StillFrame
<1> QED
  BY <1>1, <1>5, <1>6, <1>7, <1>9, <1>10

\* RequestFrameRefresh when the frame says that nothing changed.
LEMMA UnchangedRefresh ==
    ASSUME DrawnInv, NEW frame, frame = TakePackedFrame, ~frame.changed, FrameTaken(frame),
           handler' = "idle",
           UNCHANGED <<height, sb, live, alternate, pos, cursor,
                       framebuffer, framebuffer_valid, window, moved>>,
           UNCHANGED <<pending_frame, invalid, blurred, outdated>>
    PROVE  PendingType' /\ TakenCells' /\ PictureInv'
<1> USE DEF DrawnInv, PictureInv
<1>1. TakenCells' /\ PendingType' /\ FrameCurrent'
  BY AfterFrame
<1>2. frame_valid /\ grid' = grid /\ last_cursor' = last_cursor /\ DOMAIN grid = Rows
      /\ aged # Rows
  BY SameFrame
<1>3. Rows' = Rows /\ PictureTaken' = PictureTaken
  BY <1>2 DEF Rows, PictureTaken
<1>4. FrameWaiting'
  <2>1. frame_valid'
    BY DEF FrameTaken
  <2> QED
    BY <1>2, <1>3, <2>1 DEF FrameWaiting
<1>5. BitmapTaken'
  BY <1>2, <1>3 DEF BitmapTaken, BitmapKnown
<1>6. BitmapToPaint'
  BY <1>2, <1>3 DEF BitmapToPaint, BitmapKnown, StrayOutline, ScrollFramebuffer
<1>7. IdleInv'
  BY <1>1 DEF IdleInv
<1>8. UsableInv'
  BY <1>2, <1>3 DEF UsableInv, FramebufferUsable
<1>9. WindowInv'
  BY <1>2, <1>3 DEF WindowInv
<1> QED
  BY <1>1, <1>4, <1>5, <1>6, <1>7, <1>8, <1>9

LEMMA RefreshKeeps ==
    ASSUME DrawnInv, RequestFrameRefresh
    PROVE  PendingType' /\ TakenCells' /\ PictureInv'
<1> DEFINE frame == TakePackedFrame
           merged == MergePending(frame)
<1>1. /\ handler' = "idle" /\ FrameTaken(frame)
      /\ UNCHANGED <<height, sb, live, alternate, pos, cursor, obs,
                     framebuffer, framebuffer_valid, window, moved>>
      /\ \/ /\ ~frame.changed
            /\ UNCHANGED <<pending_frame, invalid, blurred, outdated>>
         \/ /\ frame.changed
            /\ pending_frame' = merged
            /\ invalid' = invalid \cup Invalidated(merged)
            /\ blurred' = (blurred \/ ShiftMeetsFrame(frame, merged))
            /\ outdated' = (outdated /\ ~merged.full)
  BY DEF RequestFrameRefresh
<1>2. frame = TakePackedFrame /\ merged = MergePending(frame)
  OBVIOUS
<1> HIDE DEF frame, merged
<1>3. CASE ~frame.changed
  BY <1>1, <1>2, <1>3, UnchangedRefresh
<1>4. CASE frame.changed
  BY <1>1, <1>2, <1>4, ChangedRefresh
<1> QED
  BY <1>3, <1>4

\* A resize invalidates the whole window; the core has everything to draw.
LEMMA OnSizeKeeps ==
    ASSUME DrawnInv, NEW h \in Heights, OnSize(h)
    PROVE  PendingType' /\ TakenCells' /\ PictureInv'
<1> USE DEF DrawnInv, PictureInv
<1>1. /\ height' = h /\ aged' = 0 .. h - 1 /\ invalid' = 0 .. h - 1
      /\ pending_content' = 0 /\ pending_viewport' = 0
      /\ outdated' = (pending_frame # NoFrame)
      /\ UNCHANGED <<grid, frame_valid, last_rows, last_cursor, last_alternate>>
      /\ UNCHANGED <<pending_frame, framebuffer, framebuffer_valid, blurred>>
  BY DEF OnSize, CoreResize, pack, ctrl
<1>2. Rows' = 0 .. h - 1 /\ Rows' # {}
  <2>1. 0 \in 0 .. h - 1
    BY Highest
  <2> QED
    BY <1>1, <2>1 DEF Rows
<1>3. aged' = Rows' /\ invalid' = Rows'
  BY <1>1, <1>2
<1>4. PictureTaken' = PictureTaken
  BY <1>1 DEF PictureTaken
<1>5. TakenCells' /\ PendingType'
  BY <1>1, <1>3 DEF TakenCells, PendingType, CoreInv
<1>6. FrameWaiting'
  BY <1>1, <1>2, <1>3 DEF FrameWaiting
<1>7. BitmapTaken'
  BY <1>1, <1>4 DEF BitmapTaken, BitmapKnown
<1>8. BitmapToPaint'
  BY <1>1, <1>4 DEF BitmapToPaint, BitmapKnown, StrayOutline, ScrollFramebuffer
<1>9. IdleInv' /\ UsableInv' /\ WindowInv'
  BY <1>1, <1>3 DEF IdleInv, UsableInv, WindowInv
<1> QED
  BY <1>5, <1>6, <1>7, <1>8, <1>9

LEMMA ExposeKeeps ==
    ASSUME DrawnInv, NEW rows \in SUBSET Rows, Expose(rows)
    PROVE  PendingType' /\ TakenCells' /\ PictureInv'
<1> USE DEF DrawnInv, PictureInv
<1>1. /\ UNCHANGED <<height, sb, live, alternate, pos, cursor, aged>>
      /\ UNCHANGED <<grid, frame_valid, last_rows, last_cursor, last_alternate>>
      /\ UNCHANGED <<pending_content, pending_viewport, handler, pending_frame>>
      /\ UNCHANGED <<framebuffer, framebuffer_valid, blurred, moved, outdated>>
      /\ invalid' = invalid \cup rows
      /\ window' = [r \in Rows |-> IF r \in rows THEN Background ELSE window[r]]
  BY DEF Expose, tsm, pend, pack, ctrl, hist
<1>2. Rows' = Rows /\ PictureTaken' = PictureTaken
  BY <1>1 DEF Rows, PictureTaken
<1>3. TakenCells' /\ PendingType'
  BY <1>1, <1>2 DEF TakenCells, PendingType, CoreInv
<1>4. invalid \subseteq Rows /\ (invalid = Rows => invalid' = Rows)
  BY <1>1 DEF DisplayType
<1>5. FrameWaiting'
  BY <1>1, <1>2, <1>4 DEF FrameWaiting
<1>6. BitmapTaken'
  BY <1>1, <1>2 DEF BitmapTaken, BitmapKnown
<1>7. BitmapToPaint'
  BY <1>1, <1>2 DEF BitmapToPaint, BitmapKnown, StrayOutline, ScrollFramebuffer
<1>8. FrameCurrent' <=> FrameCurrent
  BY <1>1 DEF FrameCurrent
<1>9. IdleInv'
  BY <1>1, <1>2, <1>4, <1>8 DEF IdleInv
<1>10. UsableInv'
  BY <1>1, <1>2, <1>4 DEF UsableInv, FramebufferUsable
<1>11. WindowInv'
  BY <1>1, <1>2 DEF WindowInv
<1> QED
  BY <1>3, <1>5, <1>6, <1>7, <1>9, <1>10, <1>11

\* What Render draws of a frame that shows the screen's rows: the whole of it,
\* or the rows that are dirty, the others moved along.
LEMMA RenderedRows ==
    ASSUME NEW frame, DOMAIN frame.cells = Rows, NEW r \in Rows
    PROVE  /\ DOMAIN PaintedFramebuffer(frame) = Rows
           /\ ~FramebufferUsable \/ frame.full \/ r \in frame.dirty =>
                  PaintedFramebuffer(frame)[r] = Picture(frame, r)
           /\ FramebufferUsable /\ ~frame.full /\ r \notin frame.dirty =>
                  PaintedFramebuffer(frame)[r] = ScrollFramebuffer(framebuffer, frame.delta, Rows)[r]
<1>1. CASE ~FramebufferUsable \/ frame.full
  BY <1>1 DEF PaintedFramebuffer
<1>2. CASE FramebufferUsable /\ ~frame.full
  BY <1>2 DEF PaintedFramebuffer
<1> QED
  BY <1>1, <1>2

\* OnPaint when a frame waits.
LEMMA PaintWaiting ==
    ASSUME DrawnInv, pending_frame # NoFrame, handler = "idle", Render(pending_frame), Display,
           pending_frame' = NoFrame,
           UNCHANGED <<height, sb, live, alternate, pos, cursor, handler,
                       aged, pend, pack, outdated>>
    PROVE  PendingType' /\ TakenCells' /\ PictureInv'
<1> USE DEF DrawnInv, PictureInv
<1>1. /\ UNCHANGED <<grid, frame_valid, last_rows, last_cursor, last_alternate>>
      /\ UNCHANGED <<pending_content, pending_viewport>>
  BY DEF pack, pend
<1>2. Rows' = Rows /\ PictureTaken' = PictureTaken
  BY <1>1 DEF Rows, PictureTaken
<1>3. TakenCells' /\ PendingType'
  BY <1>1, <1>2 DEF TakenCells, PendingType, CoreInv
<1>4. /\ pending_frame.cells = grid /\ pending_frame.cursor = last_cursor
      /\ pending_frame.delta \in Int /\ pending_frame.full \in BOOLEAN
      /\ pending_frame.dirty \subseteq DOMAIN grid
      /\ ~outdated => DOMAIN grid = Rows
      /\ pending_frame.full => invalid = Rows
  BY DEF FrameWaiting
<1>5. /\ framebuffer' = PaintedFramebuffer(pending_frame) /\ framebuffer_valid'
      /\ blurred' = (/\ FramebufferUsable /\ ~pending_frame.full
                     /\ blurred \/ (pending_frame.delta # 0 /\ StrayOutline))
      /\ moved' = (IF FramebufferUsable /\ ~pending_frame.full /\ pending_frame.delta # 0
                   THEN Rows ELSE moved) \ invalid
  BY DEF Render
<1>6. DOMAIN framebuffer' = Rows
  BY <1>5 DEF PaintedFramebuffer
<1>7. \A r \in DOMAIN grid : Picture(pending_frame, r) = PictureTaken[r]
  BY <1>4 DEF Picture, PictureTaken
<1>8. ASSUME DOMAIN grid = Rows, ~blurred' PROVE framebuffer' = PictureTaken
  <2>1. DOMAIN pending_frame.cells = Rows
    BY <1>4, <1>8
  <2>2. ASSUME NEW r \in Rows PROVE framebuffer'[r] = PictureTaken[r]
    <3>1. CASE ~FramebufferUsable \/ pending_frame.full \/ r \in pending_frame.dirty
      BY <1>5, <1>7, <1>8, <2>1, <3>1, RenderedRows
    <3>2. CASE FramebufferUsable /\ ~pending_frame.full /\ r \notin pending_frame.dirty
      <4>1. ~(blurred \/ (pending_frame.delta # 0 /\ StrayOutline))
        BY <1>5, <1>8, <3>2, Zenon
      <4>2. BitmapKnown
        BY <1>8, <3>2, <4>1 DEF BitmapKnown, FramebufferUsable
      <4>3. ScrollFramebuffer(framebuffer, pending_frame.delta, Rows)[r] = PictureTaken[r]
        BY <1>8, <3>2, <4>1, <4>2 DEF BitmapToPaint
      <4> QED
        BY <1>5, <2>1, <3>2, <4>3, RenderedRows
    <3> QED
      BY <3>1, <3>2
  <2>3. framebuffer' = [r \in Rows |-> framebuffer'[r]]
    BY <1>5 DEF PaintedFramebuffer
  <2>4. PictureTaken = [r \in Rows |-> PictureTaken[r]]
    BY <1>8 DEF PictureTaken
  <2> QED
    BY <2>2, <2>3, <2>4
<1>9. FrameWaiting' /\ BitmapToPaint'
  BY DEF FrameWaiting, BitmapToPaint
<1>10. BitmapTaken'
  BY <1>1, <1>2, <1>6, <1>8 DEF BitmapTaken, BitmapKnown
<1>11. IdleInv'
  BY <1>1 DEF IdleInv, FrameCurrent
<1>12. UsableInv'
  BY <1>2, <1>5, <1>6 DEF UsableInv, FramebufferUsable
<1>13. WindowInv'
  <2> SUFFICES ASSUME ~blurred', ~outdated, NEW r \in Rows, r \notin moved'
               PROVE  r \in DOMAIN grid /\ window'[r] = PictureTaken[r]
    BY <1>1, <1>2 DEF WindowInv
  <2>1. DOMAIN grid = Rows /\ framebuffer' = PictureTaken
    BY <1>4, <1>8
  <2>2. CASE r \in invalid
    <3>1. window'[r] = framebuffer'[r]
      BY <1>5, <1>6, <2>2 DEF Display
    <3> QED
      BY <2>1, <3>1
  <2>3. CASE r \notin invalid
    <3>1. FramebufferUsable /\ ~pending_frame.full
      BY <1>4, <2>3 DEF UsableInv
    <3>2. pending_frame.delta = 0 /\ r \notin moved
      BY <1>5, <2>3, <3>1
    <3>3. ~blurred
      BY <1>5, <3>1, Zenon
    <3>4. window[r] = PictureTaken[r]
      BY <2>3, <3>2, <3>3 DEF WindowInv
    <3> QED
      BY <2>1, <2>3, <3>4 DEF Display
  <2> QED
    BY <2>2, <2>3
<1> QED
  BY <1>3, <1>9, <1>10, <1>11, <1>12, <1>13

\* OnPaint when it takes a frame of its own, which is a new one only after
\* the whole window was invalidated.
LEMMA PaintTaken ==
    ASSUME DrawnInv, pending_frame = NoFrame, handler = "idle", Display,
           NEW frame, frame = TakePackedFrame, FrameTaken(frame), frame.changed, Render(frame),
           UNCHANGED <<height, sb, live, alternate, pos, cursor, handler,
                       pending_frame, outdated>>
    PROVE  PendingType' /\ TakenCells' /\ PictureInv'
<1> USE DEF DrawnInv, PictureInv
<1>1. /\ TakenCells' /\ PendingType' /\ FrameCurrent'
      /\ PictureTaken' = [r \in Rows |-> Picture(frame, r)]
      /\ DOMAIN grid' = Rows /\ grid' = frame.cells
  BY AfterFrame
<1>2. Rows' = Rows
  BY DEF Rows
<1>3. /\ framebuffer' = PaintedFramebuffer(frame) /\ framebuffer_valid'
      /\ blurred' = (/\ FramebufferUsable /\ ~frame.full
                     /\ blurred \/ (frame.delta # 0 /\ StrayOutline))
  BY DEF Render
<1>4. DOMAIN framebuffer' = Rows
  BY <1>3 DEF PaintedFramebuffer
<1>5. ASSUME ~blurred' PROVE framebuffer' = PictureTaken'
  <2>1. DOMAIN frame.cells = Rows
    BY <1>1
  <2>2. ASSUME NEW r \in Rows PROVE framebuffer'[r] = Picture(frame, r)
    <3>1. CASE ~FramebufferUsable \/ frame.full \/ r \in frame.dirty
      BY <1>3, <2>1, <3>1, RenderedRows
    <3>2. CASE FramebufferUsable /\ ~frame.full /\ r \notin frame.dirty
      <4>1. ~(blurred \/ (frame.delta # 0 /\ StrayOutline))
        BY <1>3, <1>5, <3>2, Zenon
      <4>2. Follows(frame)
        BY <3>2, TakenFrame
      <4>3. framebuffer = PictureTaken
        BY <3>2, <4>1, <4>2 DEF BitmapTaken, BitmapKnown, FramebufferUsable, Follows
      <4>4. ScrollFramebuffer(framebuffer, frame.delta, Rows)[r] = Picture(frame, r)
        BY <3>2, <4>1, <4>3, FollowingFrame
      <4> QED
        BY <1>3, <2>1, <3>2, <4>4, RenderedRows
    <3> QED
      BY <3>1, <3>2
  <2>3. framebuffer' = [r \in Rows |-> framebuffer'[r]]
    BY <1>3 DEF PaintedFramebuffer
  <2> QED
    BY <1>1, <2>2, <2>3
<1>6. FrameWaiting' /\ BitmapToPaint'
  BY DEF FrameWaiting, BitmapToPaint
<1>7. BitmapTaken'
  BY <1>5 DEF BitmapTaken, BitmapKnown
<1>8. IdleInv'
  BY <1>1 DEF IdleInv
<1>9. UsableInv'
  BY <1>2, <1>3, <1>4 DEF UsableInv, FramebufferUsable
<1>10. WindowInv'
  <2> SUFFICES ASSUME ~blurred', ~outdated, NEW r \in Rows
               PROVE  r \in DOMAIN grid' /\ window'[r] = PictureTaken'[r]
    BY <1>2 DEF WindowInv
  <2>1. ~FrameCurrent
    BY NothingNew
  <2>2. r \in invalid
    BY <2>1 DEF IdleInv
  <2>3. window'[r] = framebuffer'[r]
    BY <1>3, <1>4, <2>2 DEF Display
  <2> QED
    BY <1>1, <1>5, <2>3
<1> QED
  BY <1>1, <1>6, <1>7, <1>8, <1>9, <1>10

\* OnPaint when only a part of the window was lost.
LEMMA PaintSame ==
    ASSUME DrawnInv, pending_frame = NoFrame, handler = "idle", Display,
           NEW frame, frame = TakePackedFrame, FrameTaken(frame), ~frame.changed,
           moved' = moved \ invalid,
           UNCHANGED <<framebuffer, framebuffer_valid, blurred>>,
           UNCHANGED <<height, sb, live, alternate, pos, cursor, handler,
                       pending_frame, outdated>>
    PROVE  PendingType' /\ TakenCells' /\ PictureInv'
<1> USE DEF DrawnInv, PictureInv
<1>1. TakenCells' /\ PendingType' /\ FrameCurrent'
  BY AfterFrame
<1>2. grid' = grid /\ last_cursor' = last_cursor /\ DOMAIN grid = Rows /\ aged # Rows
  BY SameFrame
<1>3. Rows' = Rows /\ PictureTaken' = PictureTaken
  BY <1>2 DEF Rows, PictureTaken
<1>4. FramebufferUsable
  BY <1>2 DEF UsableInv
<1>5. FrameWaiting' /\ BitmapToPaint'
  BY DEF FrameWaiting, BitmapToPaint
<1>6. BitmapTaken'
  BY <1>2, <1>3 DEF BitmapTaken, BitmapKnown
<1>7. IdleInv'
  BY <1>1 DEF IdleInv
<1>8. UsableInv'
  BY <1>3, <1>4 DEF UsableInv, FramebufferUsable
<1>9. WindowInv'
  <2> SUFFICES ASSUME ~blurred, ~outdated, NEW r \in Rows, r \notin moved'
               PROVE  window'[r] = PictureTaken[r]
    BY <1>2, <1>3 DEF WindowInv
  <2>1. CASE r \in invalid
    <3>1. framebuffer = PictureTaken
      BY <1>2, <1>4 DEF BitmapTaken, BitmapKnown, FramebufferUsable
    <3>2. window'[r] = framebuffer[r]
      BY <1>4, <2>1 DEF Display, FramebufferUsable
    <3> QED
      BY <3>1, <3>2
  <2>2. CASE r \notin invalid
    BY <2>2 DEF WindowInv, Display
  <2> QED
    BY <2>1, <2>2
<1> QED
  BY <1>1, <1>5, <1>6, <1>7, <1>8, <1>9

LEMMA OnPaintKeeps ==
    ASSUME DrawnInv, OnPaint
    PROVE  PendingType' /\ TakenCells' /\ PictureInv'
<1>1. /\ handler = "idle" /\ Display
      /\ UNCHANGED <<height, sb, live, alternate, pos, cursor, handler>>
  BY DEF OnPaint
<1>2. CASE pending_frame # NoFrame
  <2>1. /\ Render(pending_frame) /\ pending_frame' = NoFrame
        /\ UNCHANGED <<aged, pend, pack, outdated>>
    BY <1>2 DEF OnPaint
  <2> QED
    BY <1>1, <1>2, <2>1, PaintWaiting
<1>3. CASE pending_frame = NoFrame
  <2> DEFINE frame == TakePackedFrame
  <2>1. /\ UNCHANGED <<pending_frame, outdated>>
        /\ FrameTaken(frame)
        /\ \/ frame.changed /\ Render(frame)
           \/ /\ ~frame.changed
              /\ moved' = moved \ invalid
              /\ UNCHANGED <<framebuffer, framebuffer_valid, blurred>>
    BY <1>3 DEF OnPaint
  <2>2. frame = TakePackedFrame
    OBVIOUS
  <2> HIDE DEF frame
  <2>3. CASE frame.changed
    BY <1>1, <1>3, <2>1, <2>2, <2>3, PaintTaken
  <2>4. CASE ~frame.changed
    BY <1>1, <1>3, <2>1, <2>2, <2>4, PaintSame
  <2> QED
    BY <2>3, <2>4
<1> QED
  BY <1>2, <1>3

LEMMA StutterKeeps ==
    ASSUME DrawnInv, UNCHANGED vars
    PROVE  PendingType' /\ TakenCells' /\ PictureInv'
<1> USE DEF DrawnInv, PictureInv
<1>1. /\ UNCHANGED <<height, sb, live, alternate, pos, cursor, aged>>
      /\ UNCHANGED <<grid, frame_valid, last_rows, last_cursor, last_alternate>>
      /\ UNCHANGED <<pending_content, pending_viewport, handler, pending_frame>>
      /\ UNCHANGED <<framebuffer, framebuffer_valid, window, invalid>>
      /\ UNCHANGED <<blurred, moved, outdated>>
  BY DEF vars, tsm, pend, pack, ctrl, disp, hist
<1>2. Rows' = Rows /\ PictureTaken' = PictureTaken
  BY <1>1 DEF Rows, PictureTaken
<1>3. TakenCells' /\ PendingType'
  BY <1>1, <1>2 DEF TakenCells, PendingType, CoreInv
<1>4. FrameWaiting' /\ BitmapTaken'
  BY <1>1, <1>2 DEF FrameWaiting, BitmapTaken, BitmapKnown
<1>5. BitmapToPaint'
  BY <1>1, <1>2 DEF BitmapToPaint, BitmapKnown, StrayOutline, ScrollFramebuffer
<1>6. IdleInv'
  BY <1>1, <1>2 DEF IdleInv, FrameCurrent
<1>7. UsableInv' /\ WindowInv'
  BY <1>1, <1>2 DEF UsableInv, WindowInv, FramebufferUsable
<1> QED
  BY <1>3, <1>4, <1>5, <1>6, <1>7

-----------------------------------------------------------------------------
(* Theorems                                                                 *)

LEMMA PackInit == Init => PackInv
<1> SUFFICES ASSUME Init PROVE PackInv
  OBVIOUS
<1>1. height \in Heights /\ height \in Nat \ {0} /\ height <= Max(Heights)
  BY Highest DEF Init
<1>2. live = [i \in 1..height |-> [id |-> i, cell |-> Blank]]
  BY DEF Init
<1>3. \A i \in 1..height : [id |-> i, cell |-> Blank] \in Lines
  BY <1>1, DataAssumption, Highest DEF Lines, LineIds, Blank, Cells, Styles
<1>4. live \in Seq(Lines) /\ Len(live) = height
  BY <1>1, <1>2, <1>3
<1>5. Distinct(live)
  BY <1>1, <1>2 DEF Distinct
<1>6. RowIds \in [Rows -> LineIds]
  <2>1. \A r \in Rows : live[r + 1] \in Lines
    BY <1>1, <1>4 DEF Rows
  <2> QED
    BY <2>1 DEF RowIds, Lines
<1>7. ScreenType
  <2>1. sb \in Seq(Lines) /\ Len(sb) = 0 /\ 0 <= Scrollback
    BY DataAssumption DEF Init
  <2>2. 0 \in Rows
    BY <1>1 DEF Rows
  <2> QED
    BY <1>1, <1>4, <1>6, <2>1, <2>2 DEF Init, ScreenType
<1>8. PackType /\ ShiftsTouchAll /\ ObservedInPlace /\ UntouchedInGrid
  <2>1. PackType
    <3>1. 0 .. last_rows - 1 = {}
      BY DEF Init
    <3> QED
      BY <3>1 DEF Init, PackType
  <2> QED
    BY <2>1 DEF Init, ShiftsTouchAll, ObservedInPlace, UntouchedInGrid
<1> QED
  BY <1>5, <1>7, <1>8 DEF PackInv

LEMMA PackStep == PackInv /\ [Next]_vars => PackInv'
<1> SUFFICES ASSUME PackInv, [Next]_vars PROVE PackInv'
  OBVIOUS
<1> DEFINE Same == UNCHANGED <<tsm, obs, pend, pack, handler>>
<1>1. ASSUME Same PROVE PackInv'
  BY <1>1 DEF PackInv, ScreenType, PackType, Distinct, ShiftsTouchAll, ObservedInPlace,
     UntouchedInGrid, Rows, RowIds, DrawnCell, tsm, obs, pend, pack
<1>2. ASSUME NEW cell \in Cells, Write(cell) PROVE PackInv'
  BY <1>2, WriteStep
<1>3. ASSUME NEW row \in Rows, MoveCursor(row) PROVE PackInv'
  <2>1. handler' = "feeding" /\ UNCHANGED <<height, obs, pend, pack>>
    BY <1>3, VteFacts DEF MoveCursor
  <2> QED
    BY <1>3, <2>1, CursorStep DEF MoveCursor
<1>4. CASE RequestFrameRefresh
  BY <1>4, TakeStep DEF RequestFrameRefresh
<1>5. CASE OnPaint
  <2>1. CASE pending_frame # NoFrame
    <3>1. Same
      BY <1>5, <2>1 DEF OnPaint, tsm, obs, pend, pack
    <3> QED
      BY <1>1, <3>1
  <2>2. CASE pending_frame = NoFrame
    BY <1>5, <2>2, TakeStep DEF OnPaint
  <2> QED
    BY <2>1, <2>2
<1>6. ASSUME NEW rows \in SUBSET Rows, Expose(rows) PROVE PackInv'
  <2>1. Same
    BY <1>6 DEF Expose, ctrl
  <2> QED
    BY <1>1, <2>1
<1>7. CASE UNCHANGED vars
  BY <1>1, <1>7 DEF vars, ctrl
<1>8. ASSUME NEW lines \in {-1, 1}, ScrollLines(lines) PROVE PackInv'
  BY <1>8, ScrollLinesStep
<1> QED
  BY <1>2, <1>3, <1>4, <1>5, <1>6, <1>7, <1>8, LineFeedStep, ReverseIndexStep,
     DeleteLineStep, SwitchScreenStep, EndFeedStep, OnSizeStep DEF Next

LEMMA DrawnInit == Init => DrawnInv
<1> SUFFICES ASSUME Init PROVE DrawnInv
  OBVIOUS
<1>1. PackInv
  BY PackInit
<1>2. DisplayType
  BY BackgroundType, DataAssumption DEF Init, DisplayType
<1>3. PendingType /\ TakenCells
  BY DEF Init, PendingType, TakenCells
<1>4. FrameWaiting /\ BitmapTaken /\ BitmapToPaint
  BY DEF Init, FrameWaiting, BitmapTaken, BitmapToPaint, BitmapKnown
<1>5. IdleInv /\ UsableInv /\ WindowInv
  BY DEF Init, IdleInv, UsableInv, WindowInv
<1> QED
  BY <1>1, <1>2, <1>3, <1>4, <1>5 DEF DrawnInv, CoreInv, PictureInv

LEMMA DrawnStep == DrawnInv /\ [Next]_vars => DrawnInv'
<1> SUFFICES ASSUME DrawnInv, [Next]_vars PROVE DrawnInv'
  OBVIOUS
<1>1. PackInv' /\ DisplayType'
  BY PackStep, DisplayStep DEF DrawnInv, CoreInv
<1>2. ASSUME NEW lines \in {-1, 1}, ScrollLines(lines)
      PROVE  PendingType' /\ TakenCells' /\ PictureInv'
  BY <1>2, ScrollLinesKeeps
<1>3. PendingType' /\ TakenCells' /\ PictureInv'
  BY <1>2, FeedingStep, EndFeedKeeps, RefreshKeeps, OnSizeKeeps, ExposeKeeps, OnPaintKeeps,
     StutterKeeps DEF Next
<1> QED
  BY <1>1, <1>3 DEF DrawnInv, CoreInv

-----------------------------------------------------------------------------
(* How far the screen moved since the last frame was taken, and what may     *)
(* wait to be painted.  A handler starts with nothing taken from the core    *)
(* and nothing left in it; each operation that is done adds less than the    *)
(* height, and merging the frame at its end adds all of that to the delta    *)
(* that waited, which was small when the handler started.                    *)

OpsDone == IF handler = "feeding" THEN work - 1 ELSE work

BoundsInv ==
    /\ handler = "feeding" => work # 0
    /\ handler = "idle" => work = 0
    /\ Distance(pending_content) <= OpsDone * (height - 1)
    /\ Distance(pending_viewport) <= OpsDone
    /\ pending_frame = NoFrame \/
           pending_frame \in FramesOf(0 .. last_rows - 1,
                                      IF handler = "idle" THEN MaxDelta ELSE MaxMergedDelta)

LEMMA Products ==
    ASSUME NEW a \in Nat, NEW b \in Nat, NEW c \in Nat, NEW d \in Nat, a <= b, c <= d
    PROVE  /\ a * c \in Nat /\ a * c <= b * c /\ b * c <= b * d
           /\ (a + 1) * c = a * c + c
<1>1. b * c = a * c + (b - a) * c /\ b * d = b * c + b * (d - c)
  OBVIOUS
<1>2. a * c \in Nat /\ (b - a) * c \in Nat /\ b * c \in Nat /\ b * (d - c) \in Nat
  <2>1. b - a \in Nat /\ d - c \in Nat
    OBVIOUS
  <2>2. \A x, y \in Nat : x * y \in Nat
    OBVIOUS
  <2> QED
    BY <2>1, <2>2
<1> QED
  BY <1>1, <1>2

LEMMA NoProduct ==
    ASSUME NEW n, NEW a \in Int, n = 0
    PROVE  n * a = 0
OBVIOUS

\* A frame that moves the screen by a at most moves it by b at most.
LEMMA WiderFrames ==
    ASSUME NEW rows, NEW a \in Nat, NEW b \in Nat, a <= b, NEW frame \in FramesOf(rows, a)
    PROVE  frame \in FramesOf(rows, b)
<1>1. -a .. a \subseteq -b .. b
  OBVIOUS
<1>2. \A D, E : D \subseteq E =>
          [kind : {"frame"}, cells : [rows -> PackedCells], cursor : rows, delta : D,
           dirty : SUBSET rows, full : BOOLEAN, changed : {TRUE}]
          \subseteq
          [kind : {"frame"}, cells : [rows -> PackedCells], cursor : rows, delta : E,
           dirty : SUBSET rows, full : BOOLEAN, changed : {TRUE}]
  OBVIOUS
<1> QED
  BY <1>1, <1>2 DEF FramesOf

LEMMA TakenIsFrame ==
    ASSUME CoreInv, TakePackedFrame.changed, NEW reach \in Nat,
           Distance(pending_content) <= reach, Distance(pending_viewport) <= reach
    PROVE  TakePackedFrame \in FramesOf(Rows, reach)
<1> DEFINE frame == TakePackedFrame
<1>1. /\ frame.cells = DrawnView /\ frame.cursor = cursor
      /\ frame.full \in BOOLEAN /\ frame.delta \in Int /\ frame.dirty \subseteq Rows
      /\ frame.changed <=> frame.full \/ frame.dirty # {}
  BY TakenFrame
<1>2. DrawnView \in [Rows -> PackedCells] /\ cursor \in Rows
  BY DrawnType DEF CoreInv, PackInv, ScreenType, DrawnView
<1>3. frame.delta = pending_content \/ frame.delta = pending_viewport
  BY DEF TakePackedFrame
<1>4. frame.delta \in -reach .. reach
  BY <1>1, <1>3 DEF Distance, CoreInv, PendingType
<1>5. /\ frame = [kind |-> "frame", cells |-> frame.cells, cursor |-> frame.cursor,
                  delta |-> frame.delta, dirty |-> frame.dirty, full |-> frame.full,
                  changed |-> frame.changed]
      /\ frame.changed \in BOOLEAN
  BY DEF TakePackedFrame
<1>6. frame.changed = TRUE
  BY <1>5
<1> HIDE DEF frame
<1>7. frame = [kind |-> "frame", cells |-> frame.cells, cursor |-> frame.cursor,
               delta |-> frame.delta, dirty |-> frame.dirty, full |-> frame.full,
               changed |-> TRUE]
  BY <1>5, <1>6, Zenon
<1>8. frame.cells \in [Rows -> PackedCells] /\ frame.cursor \in Rows
  BY <1>1, <1>2
<1>9. \A c \in [Rows -> PackedCells], u \in Rows, d \in -reach .. reach,
         t \in SUBSET Rows, f \in BOOLEAN :
          [kind |-> "frame", cells |-> c, cursor |-> u, delta |-> d, dirty |-> t,
           full |-> f, changed |-> TRUE] \in FramesOf(Rows, reach)
  BY DEF FramesOf
<1>10. frame.dirty \in SUBSET Rows /\ frame.full \in BOOLEAN
  BY <1>1
<1>11. frame \in FramesOf(Rows, reach)
  <2>1. [kind |-> "frame", cells |-> frame.cells, cursor |-> frame.cursor,
         delta |-> frame.delta, dirty |-> frame.dirty, full |-> frame.full,
         changed |-> TRUE] \in FramesOf(Rows, reach)
    BY <1>4, <1>8, <1>9, <1>10, Zenon
  <2> QED
    BY <1>7, <2>1, Zenon
<1> QED
  BY <1>11 DEF frame

LEMMA MergedIsFrame ==
    ASSUME NEW a \in Nat, NEW b \in Nat, NEW rows, NEW frame \in FramesOf(Rows, a),
           pending_frame = NoFrame \/ pending_frame \in FramesOf(rows, b),
           MergePending(frame).dirty \subseteq Rows
    PROVE  MergePending(frame) \in FramesOf(Rows, b + a)
<1>1. CASE pending_frame = NoFrame
  <2>1. MergePending(frame) = frame
    BY <1>1 DEF MergePending
  <2>2. frame \in FramesOf(Rows, b + a)
    BY WiderFrames
  <2> QED
    BY <2>1, <2>2
<1>2. CASE pending_frame # NoFrame
  <2> DEFINE full == frame.full \/ pending_frame.full
             dirty == IF full THEN Rows ELSE Hull(frame.dirty \cup pending_frame.dirty)
             delta == frame.delta + pending_frame.delta
  <2>1. frame.full \in BOOLEAN /\ pending_frame.full \in BOOLEAN
    BY <1>2 DEF FramesOf
  <2>2. full \in BOOLEAN
    BY <2>1
  <2>3. delta \in -(b + a) .. b + a
    <3>1. frame.delta \in -a .. a /\ pending_frame.delta \in -b .. b
      BY <1>2 DEF FramesOf
    <3> QED
      BY <3>1
  <2>4. MergePending(frame) = [frame EXCEPT !.delta = delta, !.full = full, !.dirty = dirty]
    BY <1>2 DEF MergePending
  <2> HIDE DEF full, dirty, delta
  <2>5. MergePending(frame) =
            [kind |-> "frame", cells |-> frame.cells, cursor |-> frame.cursor,
             delta |-> delta, dirty |-> dirty, full |-> full, changed |-> TRUE]
    BY <2>4 DEF FramesOf
  <2>6. dirty \subseteq Rows
    BY <2>5
  <2>7. frame.cells \in [Rows -> PackedCells] /\ frame.cursor \in Rows
    BY DEF FramesOf
  <2> QED
    BY <2>2, <2>3, <2>5, <2>6, <2>7 DEF FramesOf
<1> QED
  BY <1>1, <1>2

\* An operation of a handler: what it may find waiting, and the next one's bound.
LEMMA OperationStep ==
    ASSUME DrawnInv, BoundsInv, NEW op, Working(op), handler \in {"idle", "busy", "feeding"}
    PROVE  /\ work \in Nat /\ work' = work + 1
           /\ UNCHANGED <<pending_frame, pack, height>>
           /\ pending_frame = NoFrame \/
                  pending_frame \in FramesOf(0 .. last_rows - 1, MaxMergedDelta)
<1>1. /\ work' = work + 1 /\ UNCHANGED <<pending_frame, pack, height>>
      /\ handler = "idle" => EventLoopReady
  BY DEF Working
<1>2. work \in Nat
  BY DataAssumption DEF DrawnInv, DisplayType
<1>3. ASSUME handler = "idle", pending_frame # NoFrame
      PROVE  pending_frame \in FramesOf(0 .. last_rows - 1, MaxMergedDelta)
  <2>1. pending_frame \in FramesOf(0 .. last_rows - 1, MaxDelta)
    BY <1>3 DEF BoundsInv
  <2>2. Distance(pending_frame.delta) <= MaxMergedDelta /\ pending_frame.delta \in Int
    BY <1>1, <1>3 DEF EventLoopReady, DrawnInv, PictureInv, FrameWaiting
  <2>3. pending_frame.delta \in -MaxMergedDelta .. MaxMergedDelta
    BY <2>2, DataAssumption DEF Distance
  <2> QED
    BY <2>1, <2>3 DEF FramesOf
<1> QED
  BY <1>1, <1>2, <1>3 DEF BoundsInv

\* The frame is taken: nothing is left in the core.
LEMMA TakenBounds ==
    ASSUME NEW frame, FrameTaken(frame), work' = 0, handler' = "idle", height' \in Nat
    PROVE  /\ Distance(pending_content') <= OpsDone' * (height' - 1)
           /\ Distance(pending_viewport') <= OpsDone'
<1>1. pending_content' = 0 /\ pending_viewport' = 0
  BY DEF FrameTaken
<1>2. OpsDone' = 0
  BY handler' = "idle", work' = 0, Zenon DEF OpsDone
<1>3. OpsDone' * (height' - 1) = 0
  <2>1. height' - 1 \in Int
    OBVIOUS
  <2> QED
    BY <1>2, <2>1, NoProduct, Zenon
<1>4. Distance(0) = 0 /\ 0 <= 0
  BY DEF Distance
<1> QED
  BY <1>1, <1>2, <1>3, <1>4, Zenon

LEMMA BoundsInit == Init => BoundsInv
<1> SUFFICES ASSUME Init PROVE BoundsInv
  OBVIOUS
<1>1. OpsDone = 0 /\ height \in Int
  BY Highest DEF Init, OpsDone
<1>2. 0 * (height - 1) = 0
  BY <1>1
<1> QED
  BY <1>1, <1>2 DEF Init, BoundsInv, Distance

LEMMA BoundsStep == DrawnInv /\ DrawnInv' /\ BoundsInv /\ [Next]_vars => BoundsInv'
<1> SUFFICES ASSUME DrawnInv, DrawnInv', BoundsInv, [Next]_vars PROVE BoundsInv'
  OBVIOUS
<1>1. /\ height \in Nat \ {0} /\ height - 1 \in Nat /\ height <= Max(Heights)
      /\ Max(Heights) \in Nat \ {0}
      /\ height' \in Nat /\ work \in Nat /\ work <= MaxWork
      /\ MaxWork \in Nat /\ MaxMergedDelta \in Nat
      /\ pending_content \in Int /\ pending_viewport \in Int
      /\ handler \in {"idle", "busy", "feeding"}
  BY ScreenFacts, Highest, DataAssumption
     DEF DrawnInv, CoreInv, PackInv, DisplayType, PendingType, ScreenType
<1>2. ASSUME NEW op, Vte(op) PROVE BoundsInv'
  <2>1. /\ work' = work + 1 /\ UNCHANGED <<pending_frame, pack, height>>
        /\ pending_frame = NoFrame \/
               pending_frame \in FramesOf(0 .. last_rows - 1, MaxMergedDelta)
        /\ handler' = "feeding" /\ UNCHANGED pend
    BY <1>1, <1>2, OperationStep DEF Vte
  <2>2. OpsDone \in Nat /\ OpsDone <= work /\ OpsDone' = work
    BY <1>1, <2>1 DEF OpsDone, BoundsInv
  <2>3. OpsDone * (height - 1) <= work * (height - 1)
    BY <1>1, <2>2, Products
  <2>4. OpsDone * (height - 1) \in Int /\ work * (height - 1) \in Int
    BY <1>1, <2>2
  <2>5. /\ Distance(pending_content) <= work * (height - 1)
        /\ Distance(pending_viewport) <= work
    <3> HIDE DEF OpsDone
    <3>1. Distance(pending_content) \in Int /\ Distance(pending_viewport) \in Int
      BY <1>1 DEF Distance
    <3>2. /\ Distance(pending_content) <= OpsDone * (height - 1)
          /\ Distance(pending_viewport) <= OpsDone
      BY DEF BoundsInv
    <3> QED
      BY <1>1, <2>2, <2>3, <2>4, <3>1, <3>2
  <2>6. UNCHANGED <<pending_content, pending_viewport, height, pending_frame, last_rows>>
    BY <2>1 DEF pend, pack
  <2> QED
    BY <1>1, <2>1, <2>2, <2>5, <2>6 DEF BoundsInv, Distance
<1>3. ASSUME NEW lines \in {-1, 1}, ScrollLines(lines) PROVE BoundsInv'
  <2> DEFINE least == Min({Len(sb), pos - lines})
             after == Max({0, least})
  <2>1. /\ work' = work + 1 /\ UNCHANGED <<pending_frame, pack, height>>
        /\ pending_frame = NoFrame \/
               pending_frame \in FramesOf(0 .. last_rows - 1, MaxMergedDelta)
        /\ handler' = "busy" /\ handler # "feeding"
        /\ pending_content' = pending_content
        /\ pending_viewport' = pending_viewport + (after - pos)
    BY <1>1, <1>3, OperationStep DEF ScrollLines
  <2>2. OpsDone = work /\ OpsDone' = work + 1
    BY <2>1 DEF OpsDone
  <2>3. after \in Int /\ pos \in Int /\ Distance(after - pos) <= 1
    <3>1. Len(sb) \in Nat /\ pos \in Nat /\ pos <= Len(sb)
      BY ScreenFacts DEF DrawnInv, CoreInv, PackInv
    <3>2. Len(sb) \in Int /\ pos - lines \in Int
      BY <3>1
    <3>3. /\ least \in Int /\ least <= Len(sb) /\ least <= pos - lines
          /\ least = Len(sb) \/ least = pos - lines
      BY <3>2, MinPair
    <3> HIDE DEF least
    <3>4. after \in Nat /\ after >= least /\ (after = 0 \/ after = least)
      BY <3>3, FromZero
    <3> HIDE DEF after
    <3> QED
      BY <3>1, <3>3, <3>4 DEF Distance
  <2> HIDE DEF after
  <2>4. Distance(pending_viewport') <= work + 1
    BY <1>1, <2>1, <2>2, <2>3 DEF BoundsInv, Distance
  <2>5. Distance(pending_content') <= (work + 1) * (height - 1)
    <3>1. work * (height - 1) \in Int /\ (work + 1) * (height - 1) \in Int
          /\ work * (height - 1) <= (work + 1) * (height - 1)
      BY <1>1, Products
    <3>2. Distance(pending_content) \in Int
          /\ Distance(pending_content) <= work * (height - 1)
      BY <1>1, <2>2 DEF BoundsInv, Distance
    <3> QED
      BY <2>1, <3>1, <3>2
  <2>6. UNCHANGED last_rows
    BY <2>1 DEF pack
  <2> QED
    BY <1>1, <2>1, <2>2, <2>4, <2>5, <2>6 DEF BoundsInv
<1>4. CASE EndFeed
  <2>1. /\ UNCHANGED <<height, pending_viewport, pack, work, pending_frame>>
        /\ handler = "feeding" /\ handler' = "busy"
        /\ pending_content' = pending_content +
               (IF observed_alternate = alternate /\ AtBottom
                THEN DetectFullScreenShift(observed_lines) ELSE 0)
    BY <1>4 DEF EndFeed, tsm
  <2>2. OpsDone = work - 1 /\ work - 1 \in Nat /\ OpsDone' = work
    BY <1>1, <2>1 DEF OpsDone, BoundsInv
  <2>3. (work - 1 + 1) * (height - 1) = (work - 1) * (height - 1) + (height - 1)
    BY <1>1, <2>2, Products
  <2>4. work * (height - 1) = (work - 1) * (height - 1) + (height - 1)
        /\ (work - 1) * (height - 1) \in Int
    BY <1>1, <2>2, <2>3
  <2>5. Distance(pending_content) <= (work - 1) * (height - 1)
        /\ Distance(pending_viewport) <= work - 1
    BY <2>2 DEF BoundsInv
  <2>6. /\ DetectFullScreenShift(observed_lines) \in Int
        /\ Distance(DetectFullScreenShift(observed_lines)) <= height - 1
    BY ShiftBound DEF DrawnInv, CoreInv, PackInv
  <2>7. Distance(pending_content') <= work * (height - 1)
    <3> DEFINE before == (work - 1) * (height - 1)
               bound == work * (height - 1)
    <3>1. before \in Int /\ bound = before + (height - 1)
          /\ Distance(pending_content) <= before
      BY <2>4, <2>5
    <3> HIDE DEF before, bound
    <3>2. Distance(pending_content') <= bound
      BY <1>1, <2>1, <2>6, <3>1 DEF Distance
    <3> QED
      BY <3>2 DEF bound
  <2>8. Distance(pending_viewport') <= work
    BY <1>1, <2>1, <2>5 DEF Distance
  <2>9. UNCHANGED last_rows
    BY <2>1 DEF pack
  <2> QED
    BY <2>1, <2>2, <2>7, <2>8, <2>9 DEF BoundsInv
<1>5. CASE RequestFrameRefresh
  <2> DEFINE frame == TakePackedFrame
             merged == MergePending(frame)
             reach == MaxWork * Max(Heights)
  <2>1. /\ handler = "busy" /\ handler' = "idle" /\ work' = 0 /\ UNCHANGED height
        /\ FrameTaken(frame)
        /\ \/ ~frame.changed /\ UNCHANGED pending_frame
           \/ frame.changed /\ pending_frame' = merged
    BY <1>5 DEF RequestFrameRefresh
  <2>2. last_rows' = height /\ Rows = 0 .. last_rows' - 1
    BY <2>1 DEF FrameTaken, Rows
  <2>3. reach \in Nat /\ work * (height - 1) \in Int
        /\ work * (height - 1) <= reach /\ work <= reach
    <3>1. work * (height - 1) <= MaxWork * (height - 1)
          /\ MaxWork * (height - 1) <= MaxWork * Max(Heights)
          /\ work * (height - 1) \in Nat
      BY <1>1, Products
    <3>2. MaxWork * 1 <= MaxWork * Max(Heights) /\ MaxWork * 1 = MaxWork
      BY <1>1, Products
    <3>3. MaxWork * (height - 1) \in Int /\ MaxWork * Max(Heights) \in Nat
      BY <1>1
    <3> QED
      BY <1>1, <3>1, <3>2, <3>3
  <2> HIDE DEF reach
  <2>4. Distance(pending_content) <= reach /\ Distance(pending_viewport) <= reach
    <3> DEFINE bound == work * (height - 1)
    <3>1. Distance(pending_content) <= bound /\ Distance(pending_viewport) <= work
      BY <2>1 DEF BoundsInv, OpsDone
    <3>2. bound \in Int /\ bound <= reach
      BY <2>3
    <3>3. Distance(pending_content) \in Int /\ Distance(pending_viewport) \in Int
      BY <1>1 DEF Distance
    <3> HIDE DEF bound
    <3> QED
      BY <1>1, <2>3, <3>1, <3>2, <3>3
  <2>5. CASE frame.changed
    <3>1. frame \in FramesOf(Rows, reach)
      BY <2>3, <2>4, <2>5, TakenIsFrame DEF DrawnInv
    <3>2. merged.dirty \subseteq Rows
      BY MergedFrame
    <3>3. pending_frame = NoFrame \/
              pending_frame \in FramesOf(0 .. last_rows - 1, MaxMergedDelta)
      BY <2>1 DEF BoundsInv
    <3>4. merged \in FramesOf(Rows, MaxMergedDelta + reach)
      <4> HIDE DEF frame
      <4> QED
        BY <1>1, <2>3, <3>1, <3>2, <3>3, MergedIsFrame
    <3>5. merged \in FramesOf(0 .. last_rows' - 1, MaxDelta')
      BY <2>2, <3>4 DEF reach, MaxDelta
    <3>6. pending_frame' = merged
      BY <2>1, <2>5
    <3> HIDE DEF merged
    <3> QED
      BY <1>1, <2>1, <3>5, <3>6, TakenBounds DEF BoundsInv
  <2>6. CASE ~frame.changed
    <3>1. DOMAIN grid = 0 .. last_rows - 1 /\ DOMAIN grid = Rows
      <4>1. ~frame.full
        BY <2>6, TakenFrame DEF DrawnInv
      <4>2. Follows(frame)
        BY <4>1, TakenFrame DEF DrawnInv
      <4> QED
        BY <4>2 DEF Follows, DrawnInv, CoreInv, PackInv, PackType
    <3>2. UNCHANGED pending_frame /\ 0 .. last_rows - 1 = 0 .. last_rows' - 1
      BY <2>1, <2>2, <2>6, <3>1
    <3>3. MaxDelta' = MaxDelta /\ MaxDelta \in Nat /\ MaxMergedDelta <= MaxDelta
      BY <1>1, <2>3 DEF MaxDelta, reach
    <3>4. pending_frame = NoFrame \/
              pending_frame \in FramesOf(0 .. last_rows - 1, MaxMergedDelta)
      BY <2>1 DEF BoundsInv
    <3>5. pending_frame = NoFrame \/
              pending_frame \in FramesOf(0 .. last_rows - 1, MaxDelta)
      BY <1>1, <3>3, <3>4, WiderFrames
    <3> QED
      BY <1>1, <2>1, <3>2, <3>3, <3>5, TakenBounds DEF BoundsInv
  <2> QED
    BY <2>1, <2>5, <2>6
<1>6. ASSUME NEW h \in Heights, OnSize(h) PROVE BoundsInv'
  <2>1. /\ handler = "idle" /\ UNCHANGED <<pack, ctrl>>
        /\ pending_content' = 0 /\ pending_viewport' = 0
    BY <1>6 DEF OnSize, CoreResize
  <2>2. UNCHANGED <<handler, work, pending_frame, last_rows>>
    BY <2>1 DEF pack, ctrl
  <2>3. work = 0 /\ OpsDone' = 0
    BY <2>1, <2>2 DEF BoundsInv, OpsDone
  <2>4. OpsDone' * (height' - 1) = 0
    <3>1. height' - 1 \in Int
      BY <1>1
    <3> QED
      BY <2>3, <3>1, NoProduct, Zenon
  <2> QED
    BY <2>1, <2>2, <2>3, <2>4 DEF BoundsInv, Distance, MaxDelta
<1>7. CASE UNCHANGED <<height, work, handler, pending_frame, pending_content,
                       pending_viewport, last_rows>>
  BY <1>7 DEF BoundsInv, OpsDone, Distance, MaxDelta
<1>8. ASSUME NEW rows \in SUBSET Rows, Expose(rows) PROVE BoundsInv'
  BY <1>7, <1>8 DEF Expose, tsm, pend, pack, ctrl
<1>9. CASE OnPaint
  <2>1. handler = "idle" /\ UNCHANGED <<height, handler, work>>
    BY <1>9 DEF OnPaint
  <2>2. CASE pending_frame # NoFrame
    <3>1. UNCHANGED <<pend, pack>> /\ pending_frame' = NoFrame
      BY <1>9, <2>2 DEF OnPaint
    <3> QED
      BY <2>1, <3>1 DEF BoundsInv, OpsDone, Distance, pend, pack
  <2>3. CASE pending_frame = NoFrame
    <3>1. FrameTaken(TakePackedFrame) /\ pending_frame' = NoFrame
      BY <1>9, <2>3 DEF OnPaint
    <3>2. work' = 0
      BY <2>1 DEF BoundsInv
    <3> QED
      BY <1>1, <2>1, <3>1, <3>2, TakenBounds DEF BoundsInv
  <2> QED
    BY <2>2, <2>3
<1>10. CASE UNCHANGED vars
  BY <1>7, <1>10 DEF vars, tsm, pend, pack, ctrl
<1>11. ASSUME NEW cell \in Cells, Write(cell) PROVE BoundsInv'
  BY <1>2, <1>11 DEF Write
<1>12. ASSUME NEW row \in Rows, MoveCursor(row) PROVE BoundsInv'
  BY <1>2, <1>12 DEF MoveCursor
<1>13. CASE LineFeed \/ ReverseIndex \/ DeleteLine \/ SwitchScreen
  BY <1>2, <1>13 DEF LineFeed, ReverseIndex, DeleteLine, SwitchScreen
<1> QED
  BY <1>3, <1>4, <1>5, <1>6, <1>8, <1>9, <1>10, <1>11, <1>12, <1>13 DEF Next

-----------------------------------------------------------------------------
(* The theorems                                                             *)

\* The packed grid is exact, for every height of the screen, any scrollback
\* and any number of operations in a handler or between two paints.
THEOREM PackedGridIsExact == Spec => []PackedGridExact
<1>1. PackInv => PackedGridExact
  <2> SUFFICES ASSUME PackInv, frame_valid, aged = {} PROVE grid = DrawnView
    BY DEF PackedGridExact
  <2>1. aged # Rows
    BY ScreenFacts DEF PackInv
  <2>2. /\ height = last_rows
        /\ \A r \in Rows : grid[r] = DrawnCell(r)
    BY <2>1 DEF PackInv, UntouchedInGrid
  <2>3. DOMAIN grid = Rows
    BY <2>2 DEF PackInv, PackType, Rows
  <2>4. grid = [r \in DOMAIN grid |-> grid[r]]
    BY DEF PackInv, PackType
  <2> QED
    BY <2>2, <2>3, <2>4 DEF DrawnView
<1> QED
  BY <1>1, PackInit, PackStep, PTL DEF Spec

\* Types of the screen and of the copies of it.  What the core and the control
\* have yet to move is bounded by what one handler can do, and the frame that
\* waits has the rows of the last one taken, its dirty rows and cursor in them,
\* for any number of frames merged before a paint.
THEOREM PipelineTypes == Spec => []TypeOK
<1>1. ASSUME DrawnInv, BoundsInv PROVE TypeOK
  <2> USE <1>1 DEF DrawnInv, CoreInv, PackInv
  <2>1. /\ height \in Nat \ {0} /\ work \in Nat /\ MaxMergedDelta \in Nat
        /\ MaxDelta \in Nat /\ MaxMergedDelta <= MaxDelta
    <3>1. MaxWork \in Nat /\ Max(Heights) \in Nat /\ MaxMergedDelta \in Nat
      BY Highest, DataAssumption
    <3>2. MaxWork * Max(Heights) \in Nat
      BY <3>1
    <3> QED
      BY <3>1, <3>2, ScreenFacts DEF MaxDelta, DisplayType
  <2>2. OpsDone \in Nat /\ OpsDone <= work
    BY <2>1 DEF BoundsInv, OpsDone
  <2>3. Distance(pending_content) <= work * (height - 1) /\ Distance(pending_viewport) <= work
    <3> HIDE DEF OpsDone
    <3>1. OpsDone * (height - 1) <= work * (height - 1)
      BY <2>1, <2>2, Products
    <3>2. OpsDone * (height - 1) \in Int /\ work * (height - 1) \in Int
      BY <2>1, <2>2
    <3>3. Distance(pending_content) \in Int /\ Distance(pending_viewport) \in Int
      BY DEF Distance, PendingType
    <3>4. Distance(pending_content) <= OpsDone * (height - 1)
          /\ Distance(pending_viewport) <= OpsDone
      BY DEF BoundsInv
    <3> QED
      BY <2>1, <2>2, <3>1, <3>2, <3>3, <3>4
  <2>4. pending_frame \in {NoFrame} \cup FramesOf(0 .. last_rows - 1, MaxDelta)
    BY <2>1, WiderFrames DEF BoundsInv
  <2> QED
    BY <2>3, <2>4 DEF ScreenType, PackType, DisplayType, TypeOK
<1>2. DrawnInv /\ BoundsInv /\ [Next]_vars => (DrawnInv /\ BoundsInv)'
  BY DrawnStep, BoundsStep
<1> QED
  BY <1>1, <1>2, DrawnInit, BoundsInit, PTL DEF Spec

\* Once no frame waits, the backing bitmap is the picture of the last frame
\* taken, however the frames before it were merged, blitted and repainted,
\* unless a shift was merged with another frame or took along an outline
\* that no cell tells of.
THEOREM BitmapIsExact == Spec => []BackingBitmapExact
<1>1. DrawnInv => BackingBitmapExact
  BY DEF DrawnInv, PictureInv, BitmapTaken, BitmapKnown, PictureTaken, BackingBitmapExact
<1> QED
  BY <1>1, DrawnInit, DrawnStep, PTL DEF Spec

\* When everything invalidated has been painted, the window shows the screen
\* in every row that no blit moved without it.
THEOREM WindowIsCurrent == Spec => []WindowCurrentWhereUnmoved
<1>1. ASSUME DrawnInv PROVE WindowCurrentWhereUnmoved
  <2> USE <1>1 DEF DrawnInv, PictureInv
  <2> SUFFICES ASSUME Painted, ~blurred, ~outdated, NEW r \in Rows \ moved
               PROVE  window[r] = ScreenPicture(r)
    BY DEF WindowCurrentWhereUnmoved
  <2>1. invalid = {} /\ invalid # Rows /\ handler = "idle"
    BY DEF Painted
  <2>2. FrameCurrent /\ pending_frame = NoFrame
    BY <2>1 DEF IdleInv, FrameWaiting
  <2>3. r \in DOMAIN grid /\ window[r] = PictureTaken[r]
    BY <2>1, <2>2 DEF WindowInv
  <2>4. grid[r] = DrawnCell(r)
    <3>1. aged # Rows
      BY <2>2, ScreenFacts DEF CoreInv, PackInv, FrameCurrent
    <3> QED
      BY <2>2, <3>1 DEF CoreInv, PackInv, UntouchedInGrid, FrameCurrent
  <2>5. last_cursor = cursor
    BY <2>2 DEF FrameCurrent
  <2> QED
    BY <2>3, <2>4, <2>5 DEF PictureTaken, ScreenPicture
<1> QED
  BY <1>1, DrawnInit, DrawnStep, PTL DEF Spec

=============================================================================
