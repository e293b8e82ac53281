------------------------------ MODULE MCMatcher ------------------------------
(***************************************************************************)
(* Instances of Matcher for TLC: blocks of two bytes with values 0 and 2   *)
(* (or 0, 1 and 3), checksum words of two or three bits, and the identity  *)
(* as a strong hash without collisions.                                    *)
(***************************************************************************)
EXTENDS Matcher, SequencesExt

CONSTANTS MaxTarget, MaxSeed, SeqMatchesSet, RsumBytesSet

MCStrong(d) == d

MCControlFiles ==
  [target : BoundedSeq(Byte, MaxTarget),
   SeqMatches : SeqMatchesSet, RsumBytes : RsumBytesSet]

MCSeeds == BoundedSeq(Byte, MaxSeed)

\* The longer seeds only.
MCOwnSeeds == { s \in MCSeeds : Len(s) >= MaxSeed - 1 }

MCNoPayloads == {}

\* Whole blocks, right or wrong, and two that have the wrong size.
MCPayloads == TupleOf(Byte, Blocksize) \cup { << >>, <<0>> }
=============================================================================
