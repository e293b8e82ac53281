------------------------------ MODULE MCClient ------------------------------
(***************************************************************************)
(* Instances of Client for TLC: three versions that share blocks, moved    *)
(* and in place, and differ in length.                                     *)
(***************************************************************************)
EXTENDS Client

MCTargets == << <<1, 2>>, <<3, 1, 4>>, <<1, 3>> >>

\* No seed, an older file with blocks of every version, and the same file
\* touched after the first publication.
MCNoInput   == { Absent }
MCOldInputs == { Absent, File(<<4, 9, 1>>, 1) }
MCInputs    == MCOldInputs \cup { File(<<4, 9, 1>>, 3) }
=============================================================================
