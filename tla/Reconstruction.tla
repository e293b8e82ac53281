--------------------------- MODULE Reconstruction ---------------------------
(***************************************************************************)
(* What every part of the client that touches the buffer promises: blocks  *)
(* of the target appear in it, each with exactly the target's bytes, and a *)
(* block that is there stays there unchanged.  How blocks are found - in a *)
(* seed, over HTTP, in which order, with which retries - is not said here. *)
(***************************************************************************)
EXTENDS Integers, Sequences

CONSTANTS Blocksize, Targets

VARIABLES
  target,   \* the file to rebuild, a sequence of bytes
  have,     \* the blocks that are in place
  buf       \* the buffer, a function on the target's offsets

vars == <<target, have, buf>>

Blocks == 0 .. ((Len(target) + Blocksize - 1) \div Blocksize) - 1

Init ==
  /\ target \in Targets
  /\ have \in SUBSET Blocks
  /\ buf = [p \in 0 .. Len(target) - 1 |->
              IF p \div Blocksize \in have THEN target[p + 1] ELSE 0]

(***************************************************************************)
(* The blocks of S are put in place.                                       *)
(***************************************************************************)
Fill(S) ==
  /\ have' = have \cup S
  /\ buf' = [p \in 0 .. Len(target) - 1 |->
               IF p \div Blocksize \in S THEN target[p + 1] ELSE buf[p]]
  /\ target' = target

Next == \E S \in SUBSET (Blocks \ have) : Fill(S)

Spec == Init /\ [][Next]_vars
=============================================================================
