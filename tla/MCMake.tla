------------------------------- MODULE MCMake -------------------------------
(***************************************************************************)
(* The model of Make for TLC.  The fields, intervals and margins of the    *)
(* walk are those of the code on a small scale, in their order: a match    *)
(* gives less than Interval bytes, and Margin and one chunk fill a field   *)
(* of bits.                                                                *)
(***************************************************************************)
EXTENDS Make

MCSymbols == { [bits |-> 1, bytes |-> 1], [bits |-> 2, bytes |-> 3] }

\* A call on a file "target", or on "target.gz".
Call(algo, zmap, blocksize) ==
  [algo |-> algo, zmap |-> zmap, blocksize |-> blocksize,
   input |-> IF zmap THEN "target.gz" ELSE "target", base |-> "target",
   filename |-> None, urls |-> << >>, zurls |-> << >>]

\* Without flags, with a block size, and with names and URLs of which some are empty.
MCJobs ==
  { Call("MD4", FALSE, 0), Call("MD4", TRUE, 0), Call("BLAKE3", TRUE, 0),
    Call("BLAKE3", FALSE, 3), [Call("BLAKE3", FALSE, 0) EXCEPT !.urls = << "a", "b" >>],
    [Call("MD4", FALSE, 1024) EXCEPT !.urls = << "a", Empty >>],
    [Call("BLAKE3", FALSE, 0) EXCEPT !.filename = Empty, !.urls = << "a" >>],
    [Call("MD4", TRUE, 0) EXCEPT !.filename = "a", !.zurls = << "b", Empty >>],
    [Call("MD4", TRUE, 0) EXCEPT !.input = ".gz", !.base = None, !.zurls = << "b", "a" >>] }

MCSizes     == {0, 1, 5000, 2 ^ 27}
MCReadSizes == {0, 1, 5000}

-----------------------------------------------------------------------------
\* Files of other programs: the sizes, and up to three headers in any order.  Two
\* rows of the default widths take 40 bytes.
Widths(rsum, cs) == [SeqMatches |-> 1, RsumBytes |-> rsum, ChecksumBytes |-> cs]
Hash(algo, raw)  == [algo |-> algo, raw |-> raw]
Raw              == << [in |-> 3, ob |-> 0], [in |-> 1, ob |-> 6], [in |-> 2, ob |-> 1] >>

Headers ==
  { Line("Hash-Algorithm", "MD4"), Line("Hash-Algorithm", "BLAKE3"),
    Line("Hash-Algorithm", "SHA-256"),
    Line("File-Hash", Hash("MD4", "MD4")), Line("File-Hash", Hash("BLAKE3", "BLAKE3")),
    Line("File-Hash", Hash("BLAKE3", "MD4")),
    Line("Hash-Lengths", Widths(2, 3)), Line("Hash-Lengths", Widths(4, 32)),
    Line("Safe", {"X"}), Line("X", "x"), Line("Z-Map2", Raw), Line("MTime", Bad),
    Line("Blocksize", 3), Line("Z-Filename", "z"), Line("zsync2", "version") }

MCOtherFiles ==
  { [lines |-> << Line(magic, "version"), Line("Blocksize", 2), Line("Length", 3) >> \o hs,
     ended |-> TRUE, body |-> body] :
       magic \in Formats \cup {"URL"}, hs \in UNION { [1 .. n -> Headers] : n \in 0 .. 3 },
       body \in {39, 100} }
=============================================================================
