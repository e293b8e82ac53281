------------------------------- MODULE MCFetch -------------------------------
(***************************************************************************)
(* Instances of Fetch for TLC: targets of up to five blocks of two bytes,  *)
(* the last one short, and two mirrors of which each keeps to one mode or  *)
(* wavers between that mode and being down.                                *)
(***************************************************************************)
EXTENDS Fetch

CONSTANT MirrorModes   \* the modes of the mirrors of this instance

MCStrong(d) == d

\* A short last block equal to the first one; two equal blocks; one block.
MCControlFiles ==
  [target : { <<1, 0, 0, 1, 1, 1, 0, 0, 1>>, <<0, 1, 0, 1, 1, 0>>, <<1>> },
   SeqMatches : {1}, RsumBytes : {4}]

Steady  == { {m} : m \in MirrorModes }
Flaky   == { {m, "down"} : m \in MirrorModes }
MCFarms == [1 .. NumURLs -> Steady \cup Flaky]

MCSteadyFarms == [1 .. NumURLs -> Steady]
=============================================================================
