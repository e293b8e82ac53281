--------------------------- MODULE InductiveSets ----------------------------
(***************************************************************************)
(* Induction on the naturals, for a set: the form that needs no operator   *)
(* parameter.  Every proof by induction in these modules cites it.         *)
(***************************************************************************)
EXTENDS Naturals, WellFoundedInduction, TLAPS

\* A set of naturals with 0 in it and the successor of each of its members is Nat.
LEMMA InductiveSet ==
  ASSUME NEW T \in SUBSET Nat, 0 \in T, \A n \in T : n + 1 \in T
  PROVE  T = Nat
<1> DEFINE Less == { p \in Nat \X Nat : p[1] < p[2] }
<1>1. SUFFICES ASSUME Nat \ T # {} PROVE FALSE
  OBVIOUS
<1>2. IsWellFoundedOn(Less, Nat)
  BY NatLessThanWellFounded DEF OpToRel, IsWellFoundedOn
<1>3. PICK n \in Nat \ T : \A m \in Nat \ T : <<m, n>> \notin Less
  <2>. HIDE DEF Less
  <2>. QED BY <1>1, <1>2, WFMin
<1>4. n - 1 \in Nat
  OBVIOUS
<1>5. n - 1 \in T
  <2>1. SUFFICES ASSUME n - 1 \in Nat \ T PROVE FALSE
    BY <1>4
  <2>2. <<n - 1, n>> \in Less
    BY <1>4
  <2>. QED BY <2>1, <2>2, <1>3
<1>6. (n - 1) + 1 \in T
  BY <1>5
<1>. QED BY <1>4, <1>6

\* A set of naturals with a member has a least one, and a greatest if it is bounded.
LEMMA LeastNatural ==
  ASSUME NEW S \in SUBSET Nat, S # {}
  PROVE  \E n \in S : \A m \in S : n <= m
<1> DEFINE Less == { p \in Nat \X Nat : p[1] < p[2] }
<1>1. IsWellFoundedOn(Less, Nat)
  BY NatLessThanWellFounded DEF OpToRel, IsWellFoundedOn
<1>2. PICK n \in S : \A m \in S : <<m, n>> \notin Less
  <2>. HIDE DEF Less
  <2>. QED BY <1>1, WFMin
<1>3. ASSUME NEW m \in S PROVE n <= m
  <2>1. SUFFICES ASSUME m < n PROVE FALSE
    OBVIOUS
  <2>2. <<m, n>> \in Less
    BY <2>1
  <2>. HIDE DEF Less
  <2>. QED BY <1>2, <2>2
<1>. QED BY <1>3

LEMMA GreatestNatural ==
  ASSUME NEW S \in SUBSET Nat, S # {}, NEW b \in Nat, \A n \in S : n <= b
  PROVE  \E n \in S : \A m \in S : m <= n
<1> DEFINE T == { k \in Nat : b - k \in S }
<1>1. \A n \in S : b - n \in T
  OBVIOUS
<1>2. T \in SUBSET Nat /\ T # {}
  BY <1>1
<1>3. PICK k \in T : \A m \in T : k <= m
  <2>. HIDE DEF T
  <2>. QED BY <1>2, LeastNatural
<1>4. b - k \in S /\ \A m \in S : k <= b - m
  BY <1>1, <1>3
<1>. QED BY <1>4
(***************************************************************************)
(* Recursion on the naturals, for a set S, where the step is a function    *)
(* of where it is and of the value so far.                                 *)
(***************************************************************************)
IsRecursion(f, n, S, zero, step) ==
  /\ f \in [0 .. n -> S] /\ f[0] = zero
  /\ \A i \in 0 .. n - 1 : f[i + 1] = step[i][f[i]]

LEMMA RecursionExists ==
  ASSUME NEW S, NEW zero \in S, NEW step \in [Nat -> [S -> S]]
  PROVE  \A n \in Nat : \E f : IsRecursion(f, n, S, zero, step)
<1> DEFINE T == { n \in Nat : \E f : IsRecursion(f, n, S, zero, step) }
<1>1. 0 \in T
  <2> DEFINE f == [i \in 0 .. 0 |-> zero]
  <2>1. IsRecursion(f, 0, S, zero, step)
    BY DEF IsRecursion
  <2>. QED BY <2>1
<1>2. ASSUME NEW n \in T PROVE n + 1 \in T
  <2>1. n \in Nat
    OBVIOUS
  <2>2. PICK f : IsRecursion(f, n, S, zero, step)
    OBVIOUS
  <2> DEFINE g == [i \in 0 .. n + 1 |-> IF i = n + 1 THEN step[n][f[n]] ELSE f[i]]
  <2>3. f[n] \in S
    BY <2>1, <2>2 DEF IsRecursion
  <2>4. step[n][f[n]] \in S
    BY <2>3
  <2>5. g \in [0 .. n + 1 -> S]
    BY <2>1, <2>2, <2>4 DEF IsRecursion
  <2>6. g[0] = zero
    BY <2>1, <2>2 DEF IsRecursion
  <2>7. ASSUME NEW i \in 0 .. n PROVE g[i + 1] = step[i][g[i]]
    <3>1. g[i] = f[i]
      BY <2>1
    <3>2. CASE i = n
      <4>1. g[n + 1] = step[n][f[n]] /\ g[n] = f[n]
        BY <2>1
      <4>. HIDE DEF g
      <4>. QED BY <3>2, <4>1
    <3>3. CASE i # n
      <4>1. i \in 0 .. n - 1 /\ i + 1 \in 0 .. n + 1 /\ i + 1 # n + 1
        BY <2>1, <3>3
      <4>2. f[i + 1] = step[i][f[i]]
        BY <2>2, <4>1 DEF IsRecursion
      <4>. QED BY <3>1, <4>1, <4>2
    <3>. QED BY <3>2, <3>3
  <2>8. (n + 1) - 1 = n
    BY <2>1
  <2>9. IsRecursion(g, n + 1, S, zero, step)
    <3>. HIDE DEF g
    <3>. QED BY <2>5, <2>6, <2>7, <2>8 DEF IsRecursion
  <2>. QED BY <2>1, <2>9
<1>3. T = Nat
  <2>1. T \in SUBSET Nat
    OBVIOUS
  <2>. HIDE DEF T
  <2>. QED BY <1>1, <1>2, <2>1, InductiveSet
<1>. QED BY <1>3

LEMMA RecursionsAgree ==
  ASSUME NEW S, NEW zero \in S, NEW step \in [Nat -> [S -> S]],
         NEW m \in Nat, NEW n \in Nat, NEW f, NEW g,
         IsRecursion(f, m, S, zero, step), IsRecursion(g, n, S, zero, step)
  PROVE  \A i \in Nat : i <= m /\ i <= n => f[i] = g[i]
<1> DEFINE T == { i \in Nat : i <= m /\ i <= n => f[i] = g[i] }
<1>1. 0 \in T
  BY DEF IsRecursion
<1>2. ASSUME NEW i \in T PROVE i + 1 \in T
  <2>1. i \in Nat /\ (i <= m /\ i <= n => f[i] = g[i])
    OBVIOUS
  <2>2. SUFFICES ASSUME i + 1 <= m, i + 1 <= n PROVE f[i + 1] = g[i + 1]
    BY <2>1
  <2>3. i <= m /\ i <= n /\ i \in 0 .. m - 1 /\ i \in 0 .. n - 1
    BY <2>1, <2>2
  <2>. QED BY <2>1, <2>3 DEF IsRecursion
<1>3. T = Nat
  <2>1. T \in SUBSET Nat
    OBVIOUS
  <2>. HIDE DEF T
  <2>. QED BY <1>1, <1>2, <2>1, InductiveSet
<1>. QED BY <1>3

Recurses(f, zero, step) == f[0] = zero /\ \A n \in Nat : f[n + 1] = step[n][f[n]]

LEMMA RecursiveFunction ==
  ASSUME NEW S, NEW zero \in S, NEW step \in [Nat -> [S -> S]]
  PROVE  \E f \in [Nat -> S] : Recurses(f, zero, step)
<1> DEFINE some == [n \in Nat |-> CHOOSE f : IsRecursion(f, n, S, zero, step)]
           h == [n \in Nat |-> some[n][n]]
<1>1. ASSUME NEW n \in Nat PROVE IsRecursion(some[n], n, S, zero, step)
  <2>1. \E f : IsRecursion(f, n, S, zero, step)
    BY RecursionExists
  <2>2. some[n] = CHOOSE f : IsRecursion(f, n, S, zero, step)
    OBVIOUS
  <2>. HIDE DEF some
  <2>. QED BY <2>1, <2>2, Zenon
<1>. HIDE DEF some
<1>2. h \in [Nat -> S]
  <2>1. ASSUME NEW n \in Nat PROVE some[n][n] \in S
    BY <1>1 DEF IsRecursion
  <2>. QED BY <2>1
<1>3. h[0] = zero
  BY <1>1 DEF IsRecursion
<1>4. ASSUME NEW n \in Nat PROVE h[n + 1] = step[n][h[n]]
  <2>1. n + 1 \in Nat /\ n \in 0 .. (n + 1) - 1 /\ n <= n + 1
    OBVIOUS
  <2>2. some[n + 1][n + 1] = step[n][some[n + 1][n]]
    BY <1>1, <2>1 DEF IsRecursion
  <2>3. some[n + 1][n] = some[n][n]
    <3>1. IsRecursion(some[n], n, S, zero, step) /\ IsRecursion(some[n + 1], n + 1, S, zero, step)
      BY <1>1, <2>1
    <3>2. n <= n /\ n <= n + 1
      OBVIOUS
    <3> DEFINE a == some[n]
               b == some[n + 1]
               m == n + 1
    <3>3. m \in Nat /\ IsRecursion(a, n, S, zero, step) /\ IsRecursion(b, m, S, zero, step)
      BY <2>1, <3>1
    <3>. HIDE DEF a, b, m
    <3>4. \A i \in Nat : i <= n /\ i <= m => a[i] = b[i]
      BY <3>3, RecursionsAgree
    <3>5. a[n] = b[n]
      BY <3>2, <3>4 DEF m
    <3>. QED BY <3>5 DEF a, b
  <2>. QED BY <2>1, <2>2, <2>3
<1>. QED BY <1>2, <1>3, <1>4 DEF Recurses
=============================================================================
