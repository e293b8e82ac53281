----------------------------- MODULE RsumProofs -----------------------------
(***************************************************************************)
(* What the rolling update computes, for every block size, every seed and  *)
(* every width of the checksum words.                                      *)
(***************************************************************************)
EXTENDS Rsum, InductiveSets

(***************************************************************************)
(* A function that satisfies the recursion of RunningSum exists ...        *)
(***************************************************************************)
LEMMA RunningSumExists ==
  ASSUME NEW n \in Nat, NEW f \in [1 .. n -> Int]
  PROVE  \E s \in [0 .. n -> Int] :
           \A k \in 0 .. n : s[k] = IF k = 0 THEN 0 ELSE s[k - 1] + f[k]
<1> DEFINE Sums(m, s) == \A k \in 0 .. m : s[k] = IF k = 0 THEN 0 ELSE s[k - 1] + f[k]
           P(m) == \E s \in [0 .. m -> Int] : Sums(m, s)
           Good == { m \in Nat : m <= n => P(m) }
<1>1. P(0)
  <2>1. /\ [k \in 0 .. 0 |-> 0] \in [0 .. 0 -> Int]
        /\ Sums(0, [k \in 0 .. 0 |-> 0])
    OBVIOUS
  <2>. QED BY <2>1
<1>2. ASSUME NEW m \in Nat, m + 1 <= n, P(m) PROVE P(m + 1)
  <2>1. PICK s \in [0 .. m -> Int] : Sums(m, s)
    BY <1>2
  <2> DEFINE t == [k \in 0 .. m + 1 |-> IF k = m + 1 THEN s[m] + f[k] ELSE s[k]]
  <2>2. t \in [0 .. m + 1 -> Int]
    BY <1>2
  <2>3. Sums(m + 1, t)
    <3>. TAKE k \in 0 .. m + 1
    <3>1. CASE k = m + 1
      BY <3>1
    <3>2. CASE k # m + 1
      BY <3>2, <2>1
    <3>. QED BY <3>1, <3>2
  <2>. HIDE DEF t
  <2>. QED BY <2>2, <2>3
<1>3. P(n)
  <2>. HIDE DEF P
  <2>1. 0 \in Good
    BY <1>1
  <2>2. \A m \in Good : m + 1 \in Good
    BY <1>2
  <2>3. Good = Nat
    BY <2>1, <2>2, InductiveSet
  <2>. QED BY <2>3
<1>. QED BY <1>3

(***************************************************************************)
(* ... so RunningSum does what its definition says.                        *)
(***************************************************************************)
LEMMA RunningSumDef ==
  ASSUME NEW n \in Nat, NEW f \in [1 .. n -> Int]
  PROVE  /\ RunningSum(n, f) \in [0 .. n -> Int]
         /\ RunningSum(n, f)[0] = 0
         /\ \A k \in 1 .. n : RunningSum(n, f)[k] = RunningSum(n, f)[k - 1] + f[k]
<1> DEFINE r == RunningSum(n, f)
<1>1. PICK s \in [0 .. n -> Int] :
        \A k \in 0 .. n : s[k] = IF k = 0 THEN 0 ELSE s[k - 1] + f[k]
  BY RunningSumExists
<1>2. s = [k \in 0 .. n |-> IF k = 0 THEN 0 ELSE s[k - 1] + f[k]]
  BY <1>1
<1>3. r = CHOOSE q : q = [k \in 0 .. n |-> IF k = 0 THEN 0 ELSE q[k - 1] + f[k]]
  BY DEF RunningSum
<1>4. r = [k \in 0 .. n |-> IF k = 0 THEN 0 ELSE r[k - 1] + f[k]]
  BY <1>2, <1>3, Zenon
<1>. HIDE DEF r
<1>5. r[0] = 0 /\ \A k \in 1 .. n : r[k] = r[k - 1] + f[k]
  BY <1>4
<1>6. \A k \in 0 .. n : r[k] = s[k]
  <2> DEFINE T == { k \in Nat : k <= n => r[k] = s[k] }
  <2>1. 0 \in T
    BY <1>5, <1>1
  <2>2. \A k \in T : k + 1 \in T
    BY <1>5, <1>1
  <2>3. T \in SUBSET Nat
    OBVIOUS
  <2>4. T = Nat
    <3>. HIDE DEF T
    <3>. QED BY <2>1, <2>2, <2>3, InductiveSet
  <2>. QED BY <2>4
<1>7. r = s
  BY <1>4, <1>6
<1>. QED BY <1>5, <1>7 DEF r

(***************************************************************************)
(* Reducing a term of a sum modulo m does not change the reduced sum.      *)
(***************************************************************************)
LEMMA ModUnique ==
  ASSUME NEW m \in Nat \ {0}, NEW q \in Int, NEW r \in 0 .. m - 1
  PROVE  (q * m + r) % m = r
  OBVIOUS

LEMMA ModSum ==
  ASSUME NEW m \in Nat \ {0}, NEW a \in Int, NEW b \in Int
  PROVE  /\ a % m \in 0 .. m - 1
         /\ ((a % m) + b) % m = (a + b) % m
<1> DEFINE q == a \div m
           c == (a % m) + b
           d == q + (c \div m)
           e == c % m
<1>1. a % m \in 0 .. m - 1 /\ q \in Int /\ a = q * m + (a % m)
  OBVIOUS
<1>2. c % m \in 0 .. m - 1 /\ c \div m \in Int /\ c = (c \div m) * m + (c % m)
  BY <1>1
<1>3. a + b = (q + (c \div m)) * m + (c % m)
  BY <1>1, <1>2
<1>4. (d * m + e) % m = e
  <2>1. d \in Int /\ e \in 0 .. m - 1
    BY <1>1, <1>2
  <2>. HIDE DEF d, e
  <2>. QED BY <2>1, ModUnique
<1>. QED BY <1>1, <1>3, <1>4

LEMMA WrapSum ==
  ASSUME NEW a \in Int, NEW b \in Int
  PROVE  /\ Modulus \in Nat \ {0}
         /\ Wrap(a) \in Word
         /\ Wrap(Wrap(a) + b) = Wrap(a + b)
<1>1. Modulus \in Nat \ {0}
  BY RadixAssumption DEF Modulus
<1>. QED BY <1>1, ModSum DEF Wrap, Word

LEMMA WeightedType ==
  ASSUME NEW n \in Nat, NEW f \in [1 .. n -> Int]
  PROVE  Weighted(n, f) \in [1 .. n -> Int]
<1>1. \A a \in Int, b \in Int : a * b \in Int
  OBVIOUS
<1>2. \A k \in 1 .. n : n - k + 1 \in Int /\ f[k] \in Int
  OBVIOUS
<1>3. \A k \in 1 .. n : (n - k + 1) * f[k] \in Int
  BY <1>1, <1>2
<1>. QED BY <1>3 DEF Weighted

(***************************************************************************)
(* Two windows, v one place to the right of u: how their sums differ.      *)
(***************************************************************************)
LEMMA RollingSums ==
  ASSUME NEW n \in Nat, NEW u \in [1 .. n -> Int], NEW v \in [1 .. n -> Int],
         NEW new \in Int, n >= 1, v[n] = new,
         \A k \in 1 .. n - 1 : v[k] = u[k + 1]
  PROVE  /\ Total(n, u) \in Int /\ Total(n, v) \in Int
         /\ Total(n, Weighted(n, u)) \in Int /\ Total(n, Weighted(n, v)) \in Int
         /\ Total(n, v) = Total(n, u) + new - u[1]
         /\ Total(n, Weighted(n, v)) = Total(n, Weighted(n, u)) + Total(n, v) - n * u[1]
<1> DEFINE su == RunningSum(n, u)
           sv == RunningSum(n, v)
           tu == RunningSum(n, Weighted(n, u))
           tv == RunningSum(n, Weighted(n, v))
           wu == Weighted(n, u)
           wv == Weighted(n, v)
<1>1. wu \in [1 .. n -> Int] /\ wv \in [1 .. n -> Int]
  BY WeightedType
<1>2. \A k \in 1 .. n : wu[k] = (n - k + 1) * u[k] /\ wv[k] = (n - k + 1) * v[k]
  BY DEF Weighted
<1>3. /\ su \in [0 .. n -> Int] /\ su[0] = 0
      /\ \A k \in 1 .. n : su[k] = su[k - 1] + u[k]
  BY RunningSumDef
<1>4. /\ sv \in [0 .. n -> Int] /\ sv[0] = 0
      /\ \A k \in 1 .. n : sv[k] = sv[k - 1] + v[k]
  BY RunningSumDef
<1>5. /\ tu \in [0 .. n -> Int] /\ tu[0] = 0
      /\ \A k \in 1 .. n : tu[k] = tu[k - 1] + wu[k]
  BY <1>1, RunningSumDef
<1>6. /\ tv \in [0 .. n -> Int] /\ tv[0] = 0
      /\ \A k \in 1 .. n : tv[k] = tv[k - 1] + wv[k]
  BY <1>1, RunningSumDef
<1> HIDE DEF su, sv, tu, tv, wu, wv
<1>7. PICK c \in Int : c = n * u[1]
  OBVIOUS
<1> DEFINE T == { k \in Nat : k + 1 <= n =>
                    sv[k] = su[k + 1] - u[1] /\ tv[k] = tu[k + 1] - c + sv[k] }
<1>8. 0 \in T
  <2>1. su[1] = u[1]
    BY <1>3
  <2>2. wu[1] = c
    BY <1>2, <1>7
  <2>3. tu[1] = c
    BY <1>5, <2>2
  <2>4. sv[0] = su[0 + 1] - u[1] /\ tv[0] = tu[0 + 1] - c + sv[0]
    <3>. HIDE DEF T
    <3>. QED BY <2>1, <2>3, <1>4, <1>6
  <2>. QED BY <2>4
<1>9. \A k \in T : k + 1 \in T
  <2>1. SUFFICES ASSUME NEW k \in Nat, k + 2 <= n,
                        sv[k] = su[k + 1] - u[1],
                        tv[k] = tu[k + 1] - c + sv[k]
                 PROVE  /\ sv[k + 1] = su[k + 2] - u[1]
                        /\ tv[k + 1] = tu[k + 2] - c + sv[k + 1]
    OBVIOUS
  <2>2. /\ k + 1 \in 1 .. n /\ k + 2 \in 1 .. n
        /\ su[k + 1] \in Int /\ tu[k + 1] \in Int /\ sv[k] \in Int /\ tv[k] \in Int
        /\ wu[k + 2] \in Int /\ u[k + 2] \in Int
    BY <2>1, <1>1, <1>3, <1>4, <1>5, <1>6
  <2>3. /\ su[k + 2] = su[k + 1] + u[k + 2]
        /\ tu[k + 2] = tu[k + 1] + wu[k + 2]
    BY <2>2, <1>3, <1>5
  <2>4. v[k + 1] = u[k + 2]
    BY <2>1
  <2>5. /\ sv[k + 1] = sv[k] + u[k + 2]
        /\ tv[k + 1] = tv[k] + wv[k + 1]
    BY <2>2, <2>4, <1>4, <1>6
  <2>6. /\ wu[k + 2] = (n - (k + 2) + 1) * u[k + 2]
        /\ wv[k + 1] = (n - (k + 1) + 1) * u[k + 2]
    BY <2>2, <2>4, <1>2
  <2>7. wv[k + 1] = wu[k + 2] + u[k + 2]
    <3>1. \A a, b \in Int : (a + 1) * b = a * b + b
      OBVIOUS
    <3>2. n - (k + 2) + 1 \in Int /\ n - (k + 1) + 1 = (n - (k + 2) + 1) + 1
      BY <2>1
    <3>. QED BY <3>1, <3>2, <2>2, <2>6
  <2>8. /\ sv[k + 1] = (su[k + 1] - u[1]) + u[k + 2]
        /\ tv[k + 1] = (tu[k + 1] - c + sv[k]) + (wu[k + 2] + u[k + 2])
    BY <2>1, <2>5, <2>7
  <2>. HIDE DEF T
  <2>9. u[1] \in Int
    OBVIOUS
  <2>10. sv[k + 1] = su[k + 2] - u[1]
    BY <2>2, <2>3, <2>8, <2>9
  <2>11. tv[k + 1] = tu[k + 2] - c + sv[k + 1]
    <3>1. tv[k + 1] = (tu[k + 1] - c + sv[k]) + (wu[k + 2] + u[k + 2])
      BY <2>8
    <3>2. /\ tu[k + 2] = tu[k + 1] + wu[k + 2]
          /\ sv[k + 1] = sv[k] + u[k + 2]
      BY <2>3, <2>5
    <3>3. PICK p, q, w, e \in Int :
            p = tu[k + 1] /\ q = sv[k] /\ w = wu[k + 2] /\ e = u[k + 2]
      BY <2>2
    <3>4. (p - c + q) + (w + e) = (p + w) - c + (q + e)
      OBVIOUS
    <3>5. /\ tv[k + 1] = (p - c + q) + (w + e)
          /\ tu[k + 2] = p + w /\ sv[k + 1] = q + e
      BY <3>1, <3>2, <3>3
    <3>. QED BY <3>4, <3>5
  <2>. QED BY <2>10, <2>11
<1>10. n - 1 \in T
  <2>1. T \in SUBSET Nat /\ n - 1 \in Nat
    OBVIOUS
  <2>2. T = Nat
    <3>. HIDE DEF T
    <3>. QED BY <1>8, <1>9, <2>1, InductiveSet
  <2>. QED BY <2>1, <2>2
<1>11. /\ sv[n - 1] = su[n] - u[1]
       /\ tv[n - 1] = tu[n] - c + sv[n - 1]
  <2>. QED BY <1>10
<1>12. /\ sv[n] = sv[n - 1] + new
       /\ tv[n] = tv[n - 1] + new
  BY <1>4, <1>6, <1>2
<1>13. /\ sv[n] = su[n] + new - u[1]
       /\ tv[n] = tu[n] + sv[n] - c
  <2>1. /\ n - 1 \in 0 .. n /\ n \in 0 .. n
        /\ su[n] \in Int /\ tu[n] \in Int /\ sv[n - 1] \in Int /\ tv[n - 1] \in Int
    BY <1>3, <1>4, <1>5, <1>6
  <2>2. /\ sv[n] = (su[n] - u[1]) + new
        /\ tv[n] = (tu[n] - c + sv[n - 1]) + new
    BY <1>11, <1>12
  <2>. HIDE DEF T
  <2>3. u[1] \in Int
    OBVIOUS
  <2>4. sv[n] = su[n] + new - u[1]
    BY <2>1, <2>2, <2>3
  <2>5. tv[n] = tu[n] + sv[n] - c
    <3>1. tv[n] = (tu[n] - c + sv[n - 1]) + new
      BY <2>2
    <3>2. sv[n] = sv[n - 1] + new
      BY <1>12
    <3>. QED BY <2>1, <3>1, <3>2
  <2>. QED BY <2>4, <2>5
<1>14. su[n] \in Int /\ sv[n] \in Int /\ tu[n] \in Int /\ tv[n] \in Int
  BY <1>3, <1>4, <1>5, <1>6
<1>. QED
  BY <1>7, <1>13, <1>14 DEF Total, su, sv, tu, tv

LEMMA CalcRsumType ==
  ASSUME NEW n \in Nat, NEW u \in [1 .. n -> Int]
  PROVE  /\ CalcRsum(u) \in Rsums
         /\ CalcRsum(u) = [A |-> Wrap(Total(n, u)), B |-> Wrap(Total(n, Weighted(n, u)))]
<1>1. Len(u) = n
  OBVIOUS
<1>2. Weighted(n, u) \in [1 .. n -> Int]
  BY WeightedType
<1>3. Total(n, u) \in Int /\ Total(n, Weighted(n, u)) \in Int
  BY <1>2, RunningSumDef DEF Total
<1>. QED BY <1>1, <1>3, WrapSum DEF CalcRsum, Rsums

(***************************************************************************)
(* THE ROLLING CHECKSUM IS EXACT: sliding the window over s from offset y  *)
(* to y + 1 with Roll gives the checksum CalcRsum computes afresh for the  *)
(* new window, for every block size n and word size.  The update never     *)
(* looks at the bytes in the middle of the window (FeedSeed, the slide).   *)
(***************************************************************************)
THEOREM RollIsCalcRsum ==
  ASSUME NEW n \in Nat \ {0}, NEW s \in Seq(Int), NEW y \in Nat, y + n + 1 <= Len(s)
  PROVE  Roll(CalcRsum([k \in 1 .. n |-> s[y + k]]), s[y + 1], s[y + n + 1], n)
           = CalcRsum([k \in 1 .. n |-> s[(y + 1) + k]])
<1> DEFINE u == [k \in 1 .. n |-> s[y + k]]
           v == [k \in 1 .. n |-> s[(y + 1) + k]]
           old == s[y + 1]
           new == s[y + n + 1]
<1>1. u \in [1 .. n -> Int] /\ v \in [1 .. n -> Int] /\ old \in Int /\ new \in Int
  OBVIOUS
<1>2. u[1] = old /\ v[n] = new /\ \A k \in 1 .. n - 1 : v[k] = u[k + 1]
  <2>1. (y + 1) + n = y + n + 1
    OBVIOUS
  <2>2. \A k \in 1 .. n - 1 : (y + 1) + k = y + (k + 1) /\ k + 1 \in 1 .. n
    OBVIOUS
  <2>. QED BY <2>1, <2>2
<1>. HIDE DEF u, v, old, new
<1> DEFINE a == Total(n, u)
           b == Total(n, Weighted(n, u))
           c == Total(n, v)
           d == Total(n, Weighted(n, v))
<1>3. /\ a \in Int /\ b \in Int /\ c \in Int /\ d \in Int
      /\ c = a + new - old /\ d = b + c - n * old
  <2>1. n \in Nat /\ n >= 1
    OBVIOUS
  <2>. QED BY <2>1, <1>1, <1>2, RollingSums
<1>4. /\ CalcRsum(u) = [A |-> Wrap(a), B |-> Wrap(b)]
      /\ CalcRsum(v) = [A |-> Wrap(c), B |-> Wrap(d)]
  BY <1>1, CalcRsumType
<1>. HIDE DEF a, b, c, d
<1>5. Wrap(Wrap(a) + new - old) = Wrap(c)
  <2>1. Wrap(Wrap(a) + (new - old)) = Wrap(a + (new - old))
    BY <1>1, <1>3, WrapSum
  <2>2. Wrap(a) + (new - old) = Wrap(a) + new - old /\ a + (new - old) = c
    BY <1>1, <1>3, WrapSum DEF Word
  <2>. QED BY <2>1, <2>2
<1>6. Wrap(Wrap(b) + Wrap(c) - old * n) = Wrap(d)
  <2>1. PICK m \in Int : m = n * old /\ m = old * n
    BY <1>1
  <2>2. Wrap(b) \in Int /\ Wrap(c) \in Int
    BY <1>3, WrapSum DEF Word
  <2>3. Wrap(Wrap(b) + (Wrap(c) - m)) = Wrap(b + (Wrap(c) - m))
    <3>1. PICK e \in Int : e = Wrap(c) - m
      BY <2>2
    <3>2. Wrap(Wrap(b) + e) = Wrap(b + e)
      BY <1>3, WrapSum
    <3>. QED BY <3>1, <3>2
  <2>4. Wrap(Wrap(c) + (b - m)) = Wrap(c + (b - m))
    BY <2>1, <1>3, WrapSum
  <2>5. /\ Wrap(b) + (Wrap(c) - m) = Wrap(b) + Wrap(c) - m
        /\ b + (Wrap(c) - m) = Wrap(c) + (b - m)
    BY <2>1, <2>2, <1>3
  <2>6. c + (b - m) = d
    BY <2>1, <1>3
  <2>. QED BY <2>1, <2>3, <2>4, <2>5, <2>6
<1>7. Roll(CalcRsum(u), old, new, n) = CalcRsum(v)
  BY <1>4, <1>5, <1>6 DEF Roll
<1>. QED BY <1>7 DEF u, v, old, new
=============================================================================
