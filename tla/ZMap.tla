-------------------------------- MODULE ZMap --------------------------------
(***************************************************************************)
(* Restart points in a deflate stream and their form in a control file:    *)
(* EncodeZMap2 (internal/zsync/deflate_walker.go) and its inverse in       *)
(* applyHeader (control.go).  On the wire a restart point is two words,    *)
(* each the distance from the one before; the top bit of the second tells  *)
(* checkpoints within a block from starts of a block.                      *)
(***************************************************************************)
EXTENDS Integers, Sequences

CONSTANTS
  InField,    \* values of a distance in bits, 2^16 in the code
  OutField    \* values of a distance in bytes without its flag, 2^15

ASSUME WireAssumption == InField \in Nat \ {0} /\ OutField \in Nat \ {0}

Entry(inflated, compressed, start, count) ==
  [Inflated |-> inflated, Compressed |-> compressed,
   IsBlockStart |-> start, BlockCount |-> count]

ZMapEntries == [Inflated : Nat, Compressed : Nat, IsBlockStart : BOOLEAN, BlockCount : Nat]
WireEntries == [in : 0 .. InField - 1, ob : 0 .. 2 * OutField - 1]

-----------------------------------------------------------------------------
InDelta(es, i)  == es[i].Compressed - (IF i = 1 THEN 0 ELSE es[i - 1].Compressed)
OutDelta(es, i) == es[i].Inflated - (IF i = 1 THEN 0 ELSE es[i - 1].Inflated)

(***************************************************************************)
(* EncodeZMap2 fails for a distance that does not fit in its field.        *)
(***************************************************************************)
\* Mutant: a distance of OutField passes.
EncodableUpTo(es) ==
  \A i \in DOMAIN es : InDelta(es, i) < InField /\ OutDelta(es, i) <= OutField

Encodable(es) ==
  \A i \in DOMAIN es : InDelta(es, i) < InField /\ OutDelta(es, i) < OutField

EncodeZMap2(es) ==
  [i \in DOMAIN es |->
     [in |-> InDelta(es, i),
      ob |-> OutDelta(es, i) + (IF es[i].IsBlockStart THEN 0 ELSE OutField)]]

(***************************************************************************)
(* What applyHeader makes of the payload of a Z-Map2 header.               *)
(***************************************************************************)
After(e, w) ==
  Entry(e.Inflated + (w.ob % OutField), e.Compressed + w.in, w.ob < OutField,
        IF w.ob < OutField THEN 0 ELSE e.BlockCount + 1)

UpTo(raw) ==
  LET u[i \in 0 .. Len(raw)] ==
        IF i = 0 THEN Entry(0, 0, TRUE, 0) ELSE After(u[i - 1], raw[i])
  IN  u

DecodeZMap2(raw) == [i \in 1 .. Len(raw) |-> UpTo(raw)[i]]
=============================================================================
