-------------------------------- MODULE Make --------------------------------
(***************************************************************************)
(* A control file from its making to its reading: gozsyncmake              *)
(* (cmd/gozsyncmake/main.go) takes the size of its input, walks it if it   *)
(* is gzip, hashes what it then reads (MakeWithAlgo, MakeWithZMap2) and    *)
(* writes the control file in place, a piece at a time; a client reads     *)
(* what is there when it asks.  It may also read a control file made by    *)
(* some other program, and write what it has read to a file of its own.    *)
(***************************************************************************)
EXTENDS Deflate, ControlFile, FiniteSetsExt

CONSTANTS
  Jobs,        \* calls of gozsyncmake
  Sizes,       \* what Stat may say
  ReadSizes,   \* how many bytes there may be by the time they are read
  OtherFiles   \* control files made by other programs

Logs == 0 .. 62   \* of the lengths an int64 holds

HasLog(n, k) == PowerOfTwo[k] <= n /\ n < PowerOfTwo[k + 1]

(***************************************************************************)
(* A call has the flags it was given, and the name of its input (input)    *)
(* and what is left of that without .gz (base), which may be nothing.      *)
(* Without --filename there is None; a name or a URL of blanks only is     *)
(* Empty, which is what Read makes of it.                                  *)
(***************************************************************************)
Names == Words \cup {Empty}
Calls == [algo : Algorithms, zmap : BOOLEAN, blocksize : Nat, input : Names, base : Names,
          filename : Names, urls : Seq(Names), zurls : Seq(Names)]

ASSUME MakeAssumption ==
  /\ \A n \in Sizes : n \in Nat /\ (n = 0 \/ \E k \in Logs : HasLog(n, k))
  /\ ReadSizes \subseteq Nat
  /\ Jobs \subseteq Calls
  /\ \A j \in Jobs : IsPowerOfTwo(j.blocksize) => \E k \in Logs : j.blocksize = PowerOfTwo[k]
  /\ OtherFiles \subseteq Files

VARIABLES
  mk,       \* "start", "walk", "make", "write", "done", "failed", or "other"
            \* when the file read is not of gozsyncmake
  job,      \* the call
  size,     \* what Stat said
  made,     \* the ControlFile it makes
  written,  \* how many pieces of it are in the file, -1 before Create
  before    \* the ControlFile a reader wrote again

makeVars == <<mk, job, size, made, written, before>>
vars == <<walkVars, readVars, makeVars>>

NoJob == [algo |-> None, zmap |-> FALSE, blocksize |-> 0, input |-> None, base |-> None,
          filename |-> None, urls |-> << >>, zurls |-> << >>]

Init ==
  /\ WalkInit /\ ReadInit
  /\ mk = "start" /\ job = NoJob /\ size = 0
  /\ made = Defaults /\ written = -1 /\ before = Defaults

-----------------------------------------------------------------------------
(***************************************************************************)
(* ComputeHashLengthsAlgo: what it may come to.  The logarithm of a length *)
(* lies between two whole numbers, l and l + 1, and so does that of the    *)
(* number of blocks; whichever they are, floating point stays between.     *)
(***************************************************************************)
Log2(n)       == CHOOSE k \in Logs : HasLog(n, k)
CeilDiv(n, d) == -((-n) \div d)

ComputeHashLengthsAlgo(length, blocksize, algo) ==
  LET l     == Log2(length)
      b     == Log2(blocksize)
      seq   == IF length > blocksize THEN 2 ELSE 1
      nlo   == IF l < b THEN 0 ELSE l - b       \* of the number of blocks
      nhi   == IF l < b THEN 0 ELSE l - b + 1
      rsum  == { Min({4, Max({2, CeilDiv(10 * (m + b) - 86, 80 * seq)})}) : m \in {l, l + 1} }
      cs1   == CeilDiv(20 + l + nlo, 8 * seq) .. (21 + l + nhi) \div (8 * seq) + 1
      cs2   == {(27 + nlo) \div 8, (27 + nhi) \div 8}
      floor == IF algo = "BLAKE3" THEN 16 ELSE 0
  IN  IF length = 0
      THEN { [SeqMatches |-> 1, RsumBytes |-> 2, ChecksumBytes |-> 3] }
      ELSE [SeqMatches : {seq}, RsumBytes : rsum,
            ChecksumBytes : { Max({c1, c2, floor}) : c1 \in cs1, c2 \in cs2 }]

BlocksizeFor(total) ==
  IF job.blocksize # 0 THEN job.blocksize
  ELSE IF total < 100000000 THEN 2048 ELSE 4096

(***************************************************************************)
(* The name of the target and the URLs, as run finds them: without --url   *)
(* and --z-url the files are taken to lie next to the control file.  A     *)
(* name of which nothing is left makes no Filename line, and an empty URL. *)
(***************************************************************************)
target   == IF job.filename # None THEN job.filename
            ELSE IF job.zmap THEN job.base ELSE job.input
URLsFor  == IF job.urls # << >> THEN job.urls
            ELSE << IF target = None THEN Empty ELSE target >>
ZURLsFor == IF job.zurls # << >> THEN job.zurls ELSE << job.input >>

(***************************************************************************)
(* MakeWithAlgo, of total bytes by Stat and n by reading, with hash        *)
(* lengths hl.                                                             *)
(***************************************************************************)
\* Mutant: the length is what Stat said.
MakeFromStat(total, n, hl) ==
  [Defaults EXCEPT
     !.Format = IF job.algo = "MD4" THEN "zsync" ELSE "zsync2",
     !.HashAlgorithm = job.algo,
     !.FileHash = IF job.algo = "MD4" THEN None ELSE job.algo,
     !.text["SHA-1"] = IF job.algo = "MD4" THEN "sha1" ELSE None,
     !.text["Filename"] = target, !.MTime = "mtime",
     !.Blocksize = BlocksizeFor(total), !.Length = total, !.HashLengths = hl,
     !.URLs = URLsFor, !.Blocks = CeilDiv(n, BlocksizeFor(total))]

MakeWithAlgo(total, n, hl) ==
  [Defaults EXCEPT
     !.Format = IF job.algo = "MD4" THEN "zsync" ELSE "zsync2",
     !.HashAlgorithm = job.algo,
     !.FileHash = IF job.algo = "MD4" THEN None ELSE job.algo,
     !.text["SHA-1"] = IF job.algo = "MD4" THEN "sha1" ELSE None,
     !.text["Filename"] = target, !.MTime = "mtime",
     !.Blocksize = BlocksizeFor(total), !.Length = n, !.HashLengths = hl,
     !.URLs = URLsFor, !.Blocks = CeilDiv(n, BlocksizeFor(total))]

(***************************************************************************)
(* The front of run: restart points are for classic control files only.    *)
(***************************************************************************)
Start ==
  /\ mk = "start" /\ phase = "idle"
  /\ job' \in Jobs /\ size' \in Sizes
  /\ mk' = IF ~job'.zmap THEN "make" ELSE IF job'.algo = "BLAKE3" THEN "failed" ELSE "walk"
  /\ UNCHANGED <<walkVars, readVars, made, written, before>>

WalkStep == mk = "walk" /\ Walk /\ UNCHANGED <<readVars, makeVars>>

MakePlain ==
  /\ mk = "make"
  /\ \E n \in ReadSizes :
       IF IsPowerOfTwo(BlocksizeFor(size))
       THEN /\ \E hl \in ComputeHashLengthsAlgo(size, BlocksizeFor(size), job.algo) :
                 made' = MakeWithAlgo(size, n, hl)
            /\ mk' = "write"
       ELSE made' = made /\ mk' = "failed"
  /\ UNCHANGED <<walkVars, readVars, job, size, written, before>>

(***************************************************************************)
(* MakeWithZMap2, after the walk.  The payload is longer than what was     *)
(* walked if the file has more members than one.  When the restart points  *)
(* have no encoding there are none in the file.                            *)
(***************************************************************************)
MakeGz ==
  /\ mk = "walk" /\ stage = "ended"
  /\ \E n \in { m \in Sizes : m >= inflated } :
       IF IsPowerOfTwo(BlocksizeFor(n))
       THEN /\ \E hl \in ComputeHashLengthsAlgo(n, BlocksizeFor(n), job.algo) :
                 made' = [MakeWithAlgo(n, n, hl) EXCEPT
                            !.ZURLs = ZURLsFor,
                            !.ZMap2Raw = IF Encodable(entries) THEN EncodeZMap2(entries)
                                                               ELSE << >>,
                            !.ZMap = entries]
            /\ mk' = "write"
       ELSE made' = made /\ mk' = "failed"
  /\ UNCHANGED <<walkVars, readVars, job, size, written, before>>

\* The input cannot be read, is not gzip, or has a wrong CRC.
MakeFails ==
  /\ mk \in {"walk", "make"} /\ mk' = "failed"
  /\ UNCHANGED <<walkVars, readVars, job, size, made, written, before>>

-----------------------------------------------------------------------------
(***************************************************************************)
(* The control file is written in place.  A piece is a line, the blank     *)
(* line, the block table but for its last byte, or that byte; a reader     *)
(* finds the first so many of them.                                        *)
(***************************************************************************)
Pieces(f) == Len(f.lines) + 3

FirstPieces(f, k) ==
  LET n == Len(f.lines) IN
  [lines |-> SubSeq(f.lines, 1, Min({k, n})),
   ended |-> k > n,
   body  |-> IF k < n + 2 \/ f.body = 0 THEN 0 ELSE IF k = n + 2 THEN f.body - 1 ELSE f.body]

Create ==
  /\ mk = "write" /\ written = -1 /\ written' = 0
  /\ UNCHANGED <<walkVars, readVars, mk, job, size, made, before>>

\* A reader that has its copy is not concerned with what is written later.
Flush ==
  /\ mk = "write" /\ written >= 0 /\ phase = "idle"
  /\ written' \in written + 1 .. Pieces(Write(made))
  /\ mk' = IF written' = Pieces(Write(made)) THEN "done" ELSE mk
  /\ UNCHANGED <<walkVars, readVars, job, size, made, before>>

\* The disk is full, or the process dies: what is written stays.
WriteFails ==
  /\ mk = "write" /\ phase = "idle" /\ mk' = "failed"
  /\ UNCHANGED <<walkVars, readVars, job, size, made, written, before>>

-----------------------------------------------------------------------------
ReadMade ==
  /\ phase = "idle" /\ written >= 0
  /\ Read(FirstPieces(Write(made), written))
  /\ UNCHANGED <<walkVars, makeVars>>

ReadOther ==
  /\ phase = "idle" /\ mk = "start"
  /\ \E f \in OtherFiles : Read(f)
  /\ mk' = "other"
  /\ UNCHANGED <<walkVars, job, size, made, written, before>>

ReadStep == Reading /\ UNCHANGED <<walkVars, makeVars>>

\* What was read is written to another file, and that one read.
Rewrite ==
  /\ phase = "accepted" /\ before = Defaults
  /\ before' = cf /\ Read(Write(cf))
  /\ UNCHANGED <<walkVars, mk, job, size, made, written>>

Next ==
  \/ Start \/ WalkStep \/ MakePlain \/ MakeGz \/ MakeFails
  \/ Create \/ Flush \/ WriteFails
  \/ ReadMade \/ ReadOther \/ ReadStep \/ Rewrite

Spec == Init /\ [][Next]_vars

-----------------------------------------------------------------------------
MakeTypeOK ==
  /\ WalkTypeOK
  /\ phase \in {"idle", "magic", "headers", "accepted", "rejected"}
  /\ next \in 1 .. Len(file.lines) + 1
  /\ mk \in {"start", "walk", "make", "write", "done", "failed", "other"}
  /\ job \in Jobs \cup {NoJob} /\ size \in Sizes \cup {0}
  /\ written \in -1 .. Pieces(Write(made))
  /\ file \in Files
  /\ cf \in ControlFiles /\ made \in ControlFiles /\ before \in ControlFiles

(***************************************************************************)
(* A reader that comes while the control file is being written, or after   *)
(* its writing failed, does not take part of it for the whole; and what    *)
(* gozsyncmake has finished writing reads back as it was made, also when   *)
(* its input grew or shrank after Stat and when it is empty: but for       *)
(* restart points that have no encoding, and unless a name or a URL it was *)
(* called with is empty, whose line has no value then.                     *)
(***************************************************************************)
ReadsBackWhatWasMade ==
  mk # "other" /\ before = Defaults =>
    /\ phase = "accepted" =>
         /\ file = Write(made)
         /\ cf = IF Encodable(made.ZMap) THEN made ELSE [made EXCEPT !.ZMap = << >>]
    /\ phase = "rejected" => file # Write(made) \/ ~HasValues(made)

(***************************************************************************)
(* What is accepted can be written again and is accepted again, and is the *)
(* same but for Z-Filename and Safe, which Write leaves out; unless its    *)
(* File-Hash goes by another algorithm than its blocks, which Write cannot *)
(* express.                                                                *)
(***************************************************************************)
RewriteReadsBack ==
  before # Defaults /\ VerifyFileHash(before) =>
    /\ phase # "rejected"
    /\ phase = "accepted" =>
         cf = [before EXCEPT !.text["Z-Filename"] = None, !.Safe = {}]
=============================================================================
