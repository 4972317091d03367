---------------------------- MODULE DataTheorems ----------------------------
(***************************************************************************)
(* Facts about numbers and sequences that the proofs of several components  *)
(* need: induction over the naturals in a form that asks for a set, and     *)
(* sequences of consecutive numbers, which is what a stream of bytes looks  *)
(* like when a byte is its position in it.                                 *)
(***************************************************************************)
EXTENDS Integers, Sequences, FiniteSetsExt, WellFoundedInduction, TLAPS

-----------------------------------------------------------------------------
(* Induction.                                                              *)

\* The order of the naturals is well-founded: a set of them has a least element.
LEMMA Least ==
    ASSUME NEW T, T \subseteq Nat, T # {}
    PROVE  \E x \in T : \A y \in T : x <= y
<1> DEFINE R == {p \in Nat \X Nat : p[1] < p[2]}
<1>1. IsWellFoundedOn(R, Nat)
  BY NatLessThanWellFounded DEF OpToRel
<1>2. \A x, y \in Nat : <<y, x>> \in R <=> y < x
  OBVIOUS
<1> HIDE DEF R
<1>3. PICK x \in T : \A y \in T : <<y, x>> \notin R
  BY <1>1, WFMin
<1>4. x \in Nat /\ \A y \in T : y \in Nat
  OBVIOUS
<1>5. \A y \in T : ~(y < x)
  BY <1>2, <1>3, <1>4
<1>6. \A y \in T : x <= y
  BY <1>4, <1>5
<1> QED
  BY <1>6

\* The least and the greatest of a set of numbers.
LEMMA LeastOf ==
    ASSUME NEW T, T \subseteq Nat, T # {}
    PROVE  Min(T) \in T /\ \A y \in T : Min(T) <= y
BY Least DEF Min

LEMMA GreatestOf ==
    ASSUME NEW n \in Nat, NEW T, T \subseteq 0 .. n, T # {}
    PROVE  Max(T) \in T /\ \A y \in T : Max(T) >= y
<1> DEFINE U == {n - y : y \in T}
<1>1. U \subseteq Nat /\ U # {}
  <2>1. \A y \in T : y \in Int /\ n - y \in Nat
    OBVIOUS
  <2> QED
    BY <2>1
<1>2. PICK u \in U : \A v \in U : u <= v
  BY <1>1, Least
<1>3. PICK x \in T : u = n - x
  BY <1>2
<1>4. \A y \in T : n - x <= n - y
  BY <1>2, <1>3
<1>5. \A y \in T : x >= y
  BY <1>4
<1> QED
  BY <1>5 DEF Max

\* What holds of zero and passes from each number to the next holds of all: the
\* property is a set, so no operator has to be found for it.
LEMMA Induction ==
    ASSUME NEW S, 0 \in S, \A n \in Nat : n \in S => n + 1 \in S
    PROVE  Nat \subseteq S
<1> SUFFICES ASSUME ~(Nat \subseteq S) PROVE FALSE
  OBVIOUS
<1>1. PICK x \in Nat \ S : \A y \in Nat \ S : x <= y
  BY Least
<1>2. x # 0
  BY <1>1
<1>3. x - 1 \in S
  BY <1>1, <1>2
<1> QED
  BY <1>1, <1>2, <1>3

\* The same up to a number.
LEMMA InductionUpTo ==
    ASSUME NEW n \in Nat, NEW S, 0 \in S, \A i \in 1..n : i - 1 \in S => i \in S
    PROVE  0..n \subseteq S
<1> DEFINE T == {i \in Nat : i <= n => i \in S}
<1>1. 0 \in T
  OBVIOUS
<1>2. ASSUME NEW i \in Nat, i \in T PROVE i + 1 \in T
  <2>1. i + 1 <= n => i + 1 \in 1..n /\ (i + 1) - 1 = i /\ i <= n
    OBVIOUS
  <2> QED
    BY <1>2, <2>1
<1> HIDE DEF T
<1>3. Nat \subseteq T
  BY <1>1, <1>2, Induction
<1> QED
  BY <1>3 DEF T

\* A function that is defined by its value at zero and from each value the next
\* exists, if the values have a type that the step from one to the next keeps.
Steps(n, V) == [(1..n) \X V -> V]
Recursive(f, n, V, first, step) ==
    f \in [0..n -> V] /\ f[0] = first /\ \A i \in 1..n : f[i] = step[<<i, f[i - 1]>>]

LEMMA Recursion ==
    ASSUME NEW V, NEW first \in V, NEW n \in Nat, NEW step \in Steps(n, V)
    PROVE  \E f : Recursive(f, n, V, first, step)
<1>0. step \in [(1..n) \X V -> V]
  BY DEF Steps
<1> DEFINE Rec(f, k) == f = [i \in 0..k |-> IF i = 0 THEN first ELSE step[<<i, f[i - 1]>>]]
           S == {k \in Nat : k <= n => \E f \in [0..k -> V] : Rec(f, k)}
<1>1. 0 \in S
  <2> DEFINE g == [i \in 0..0 |-> first]
  <2>1. g \in [0..0 -> V]
    OBVIOUS
  <2>2. \A i \in 0..0 : i = 0
    OBVIOUS
  <2>3. Rec(g, 0)
    BY <2>2
  <2> QED
    BY <2>1, <2>3
<1>2. ASSUME NEW k \in Nat, k \in S PROVE k + 1 \in S
  <2> SUFFICES ASSUME k + 1 <= n PROVE \E f \in [0..k + 1 -> V] : Rec(f, k + 1)
    OBVIOUS
  <2>1. PICK f \in [0..k -> V] : Rec(f, k)
    BY <1>2
  <2> DEFINE g == [i \in 0..k + 1 |-> IF i <= k THEN f[i] ELSE step[<<k + 1, f[k]>>]]
  <2>2. k \in 0..k /\ k + 1 \in 1..n /\ f[k] \in V /\ step[<<k + 1, f[k]>>] \in V
    BY <1>0
  <2>3. \A i \in 0..k + 1 : i <= k => i \in 0..k
    OBVIOUS
  <2>4. g \in [0..k + 1 -> V]
    BY <2>2, <2>3
  <2>5. ASSUME NEW i \in 0..k + 1
        PROVE  g[i] = IF i = 0 THEN first ELSE step[<<i, g[i - 1]>>]
    <3>1. CASE i = 0
      <4>1. 0 <= k /\ 0 \in 0..k
        OBVIOUS
      <4> QED
        BY <2>1, <3>1, <4>1
    <3>2. CASE i # 0 /\ i <= k
      <4>1. i \in 0..k /\ i - 1 \in 0..k + 1 /\ i - 1 <= k
        BY <3>2
      <4>2. f[i] = step[<<i, f[i - 1]>>]
        BY <2>1, <3>2, <4>1
      <4> QED
        BY <3>2, <4>1, <4>2
    <3>3. CASE i = k + 1
      <4>1. i # 0 /\ ~(i <= k) /\ i - 1 = k /\ k <= k /\ k \in 0..k + 1
        BY <3>3
      <4> QED
        BY <3>3, <4>1
    <3> QED
      BY <3>1, <3>2, <3>3
  <2>6. Rec(g, k + 1)
    <3> HIDE DEF g
    <3>1. DOMAIN g = 0..k + 1 /\ g = [i \in 0..k + 1 |-> g[i]]
      BY <2>4
    <3> QED
      BY <2>5, <3>1
  <2> QED
    BY <2>4, <2>6
<1>3. n \in S
  <2> HIDE DEF S
  <2> QED
    BY <1>1, <1>2, Induction
<1>4. PICK f \in [0..n -> V] : Rec(f, n)
  BY <1>3
<1>5. f[0] = first /\ \A i \in 1..n : f[i] = step[<<i, f[i - 1]>>]
  BY <1>4
<1>6. Recursive(f, n, V, first, step)
  BY <1>5 DEF Recursive
<1> QED
  BY <1>6

-----------------------------------------------------------------------------
(* Runs of consecutive numbers.                                            *)

\* The numbers that follow n.
Continues(s, n) == \A i \in 1..Len(s) : s[i] = n + i

LEMMA ContinuesDrop ==
    ASSUME NEW s \in Seq(Nat), NEW n \in Nat, NEW k \in 0..Len(s), Continues(s, n)
    PROVE  LET rest == SubSeq(s, k + 1, Len(s)) IN
           Continues(rest, n + k) /\ Len(rest) = Len(s) - k /\ rest \in Seq(Nat)
<1> DEFINE m == k + 1
           z == Len(s)
           rest == SubSeq(s, m, z)
<1>0. m \in 1..z + 1 /\ z \in Nat
  OBVIOUS
<1> HIDE DEF m
<1>1. rest \in Seq(Nat) /\ Len(rest) = z + 1 - m
  BY <1>0
<1>2. \A i \in 1..(z + 1 - m) : rest[i] = s[m + i - 1]
  BY <1>0
<1>3. z + 1 - m = z - k /\ \A i \in 1..(z - k) : m + i - 1 = k + i
  BY <1>0 DEF m
<1>4. \A i \in 1..(z - k) : k + i \in 1..Len(s) /\ n + (k + i) = (n + k) + i
  OBVIOUS
<1>5. \A i \in 1..(z - k) : rest[i] = s[k + i]
  BY <1>2, <1>3
<1>6. Len(rest) = z - k
  BY <1>1, <1>3
<1> HIDE DEF rest, z
<1>7. Continues(rest, n + k)
  BY <1>4, <1>5, <1>6 DEF Continues
<1> QED
  BY <1>1, <1>6, <1>7 DEF m, rest, z

LEMMA ContinuesPrefix ==
    ASSUME NEW s \in Seq(Nat), NEW n \in Nat, NEW k \in 0..Len(s), Continues(s, n)
    PROVE  /\ Continues(SubSeq(s, 1, k), n) /\ Len(SubSeq(s, 1, k)) = k
           /\ SubSeq(s, 1, k) \in Seq(Nat)
<1>1. Len(SubSeq(s, 1, k)) = k /\ SubSeq(s, 1, k) \in Seq(Nat)
  OBVIOUS
<1>2. \A i \in 1..k : SubSeq(s, 1, k)[i] = s[i]
  OBVIOUS
<1> QED
  BY <1>1, <1>2 DEF Continues

LEMMA ContinuesConcat ==
    ASSUME NEW s \in Seq(Nat), NEW t \in Seq(Nat), NEW n \in Nat,
           Continues(s, n), Continues(t, n + Len(s))
    PROVE  Continues(s \o t, n) /\ Len(s \o t) = Len(s) + Len(t) /\ s \o t \in Seq(Nat)
<1>1. Len(s \o t) = Len(s) + Len(t) /\ s \o t \in Seq(Nat)
  OBVIOUS
<1>2. ASSUME NEW i \in 1..(Len(s) + Len(t)) PROVE (s \o t)[i] = n + i
  <2>1. CASE i <= Len(s)
    <3>1. (s \o t)[i] = s[i]
      BY <2>1
    <3> QED
      BY <2>1, <3>1 DEF Continues
  <2>2. CASE i > Len(s)
    <3>1. (s \o t)[i] = t[i - Len(s)] /\ i - Len(s) \in 1..Len(t)
      BY <2>2
    <3>2. t[i - Len(s)] = (n + Len(s)) + (i - Len(s))
      BY <3>1 DEF Continues
    <3> QED
      BY <3>1, <3>2
  <2> QED
    BY <2>1, <2>2
<1> QED
  BY <1>1, <1>2 DEF Continues
=============================================================================
