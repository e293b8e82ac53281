-------------------------------- MODULE Rsum --------------------------------
(***************************************************************************)
(* The weak rolling checksum of internal/zsync/rsum.go, with the hash the  *)
(* matcher derives from it.  Both halves of an Rsum are unsigned machine   *)
(* words of two bytes: every sum below wraps.  The number of values of a   *)
(* byte of the checksum is a parameter so that a small instance can make   *)
(* blocks of a few bytes wrap and collide the way real blocks of thousands *)
(* of bytes do.                                                            *)
(***************************************************************************)
EXTENDS Integers, Sequences

CONSTANT Radix   \* values of one byte of a checksum word (256 in the code)

ASSUME RadixAssumption == Radix \in Nat \ {0}

Modulus == Radix * Radix
Word    == 0 .. Modulus - 1
Rsums   == [A : Word, B : Word]

Wrap(n) == n % Modulus

(***************************************************************************)
(* The running sums of the first n values of f; the last one is the total. *)
(***************************************************************************)
RunningSum(n, f) ==
  LET s[k \in 0 .. n] == IF k = 0 THEN 0 ELSE s[k - 1] + f[k]
  IN  s

Total(n, f) == RunningSum(n, f)[n]

(***************************************************************************)
(* CalcRsum: A is the sum of the bytes, B weighs byte i (from 0) by n - i. *)
(***************************************************************************)
Weighted(n, data) == [k \in 1 .. n |-> (n - k + 1) * data[k]]

CalcRsum(data) ==
  LET n == Len(data)
  IN  [A |-> Wrap(Total(n, data)), B |-> Wrap(Total(n, Weighted(n, data)))]

(***************************************************************************)
(* One byte of slide: oldc leaves the window of bs bytes, newc enters.     *)
(* The new A enters B, and the byte that leaves is taken out of B with the *)
(* weight bs it had reached.                                               *)
(***************************************************************************)
\* Mutant: the old A enters B.
RollOldA(r, oldc, newc, bs) ==
  [A |-> Wrap(r.A + newc - oldc), B |-> Wrap(r.B + r.A - oldc * bs)]

Roll(r, oldc, newc, bs) ==
  LET a == Wrap(r.A + newc - oldc)
  IN  [A |-> a, B |-> Wrap(r.B + a - oldc * bs)]

(***************************************************************************)
(* r.A & RsumAMask(rsumBytes): nothing of A, its low byte, or all of it.   *)
(***************************************************************************)
MaskA(rsumBytes, a) ==
  CASE rsumBytes < 3 -> 0
    [] rsumBytes = 3 -> a % Radix
    [] OTHER         -> a

(***************************************************************************)
(* What a block table holds of an Rsum: the trailing rsumBytes bytes of    *)
(* A followed by B.                                                        *)
(***************************************************************************)
OnWire(rsumBytes, r) ==
  [A |-> MaskA(rsumBytes, r.A),
   B |-> IF rsumBytes = 1 THEN r.B % Radix ELSE r.B]

Xor[a \in Nat, b \in Nat] ==
  IF a = 0 /\ b = 0
  THEN 0
  ELSE ((a + b) % 2) + 2 * Xor[a \div 2, b \div 2]

(***************************************************************************)
(* hashRsum: the key of the matcher's table (BITHASHBITS is 3).            *)
(***************************************************************************)
hashRsum(rsumBytes, r) == Xor[r.B, MaskA(rsumBytes, r.A) * 8]
=============================================================================
