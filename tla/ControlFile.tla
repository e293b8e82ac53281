----------------------------- MODULE ControlFile ----------------------------
(***************************************************************************)
(* The control file, read and written (internal/zsync/control.go): Read    *)
(* applies the header one line at a time, the later of two lines with the  *)
(* same key counting, and takes the block table that follows in the widths *)
(* the header ends up with.                                                *)
(*                                                                         *)
(* A file is its header lines, whether the blank line after them is there, *)
(* and how many bytes follow.  A line cut short in the middle counts as    *)
(* not there: whatever Read makes of it, it then finds the end of the file *)
(* instead of the next line.                                               *)
(***************************************************************************)
EXTENDS ZMap

CONSTANTS
  Bad,     \* a value that does not parse
  Empty    \* no value: nothing after the colon

Formats    == {"zsync", "zsync2"}
Algorithms == {"MD4", "BLAKE3"}
None       == "none"

StrongHashFullLen(algo) == IF algo = "MD4" THEN 16 ELSE 32

Line(key, val) == [key |-> key, val |-> val]

\* Headers whose value is kept as it is.
Texts == {"Min-Version", "Filename", "Z-Filename", "SHA-1", "Recompress"}

(***************************************************************************)
(* The names of headers and the values that are words.  STRING has all of  *)
(* them; that those of Write and of gozsyncmake are words is spelled out   *)
(* because the provers do not know of any literal that it is a string.  A  *)
(* word is on one line and has no blank at its end, which Read would trim. *)
(***************************************************************************)
Words ==
  STRING \cup Texts \cup Formats \cup Algorithms
  \cup {None, "URL", "Z-URL", "MTime", "Hash-Algorithm", "version",
        "target", "target.gz", "mtime", "sha1"}

(***************************************************************************)
(* What a line may have after its colon: nothing, what does not parse, or  *)
(* a value of the type its key calls for.                                  *)
(***************************************************************************)
HashLengths == [SeqMatches : Int, RsumBytes : Int, ChecksumBytes : Int]
FileHashes  == [algo : Words, raw : Words]

ASSUME ValueAssumption ==
  /\ Bad # Empty
  /\ \A v \in {Bad, Empty} :
       v \notin Int /\ v \notin Words /\ v \notin HashLengths /\ v \notin FileHashes
         /\ v \notin Seq(WireEntries)

NoValue == {Bad, Empty}

Lines ==
  [key : {"Length", "Blocksize"}, val : NoValue \cup Int]
  \cup [key : {"Hash-Lengths"}, val : NoValue \cup HashLengths]
  \cup [key : {"File-Hash"}, val : NoValue \cup FileHashes]
  \cup [key : {"Safe"}, val : {Empty} \cup SUBSET Words]
  \cup [key : {"Z-Map2"}, val : NoValue \cup Seq(WireEntries)]
  \cup [key : Words \ {"Length", "Blocksize", "Hash-Lengths", "File-Hash", "Safe", "Z-Map2"},
        val : NoValue \cup Words]

Files == [lines : Seq(Lines), ended : BOOLEAN, body : Nat]

(***************************************************************************)
(* A digest stands as the name of the algorithm it was computed with,      *)
(* which gives its width; Safe is the set of keys named in it; of a block  *)
(* table only the number of rows is kept.                                  *)
(***************************************************************************)
ControlFiles ==
  [Format : Formats, HashAlgorithm : Algorithms, FileHash : Algorithms \cup {None},
   text : [Texts -> Words \cup NoValue], MTime : Words \cup NoValue,
   Blocksize : Int, Length : Int, HashLengths : HashLengths,
   URLs : Seq(Words \cup NoValue), ZURLs : Seq(Words \cup NoValue), Safe : SUBSET Words,
   ZMap2Raw : Seq(WireEntries), ZMap : Seq(ZMapEntries), Blocks : Int]

Defaults ==
  [Format |-> "zsync", HashAlgorithm |-> "MD4", FileHash |-> None,
   text |-> [k \in Texts |-> None], MTime |-> None,
   Blocksize |-> 0, Length |-> 0,
   HashLengths |-> [SeqMatches |-> 1, RsumBytes |-> 4, ChecksumBytes |-> 16],
   URLs |-> << >>, ZURLs |-> << >>, Safe |-> {}, ZMap2Raw |-> << >>, ZMap |-> << >>,
   Blocks |-> 0]

NumBlocks(c) ==
  IF c.Blocksize <= 0 THEN 0 ELSE (c.Length + c.Blocksize - 1) \div c.Blocksize

RowBytes(c) == c.HashLengths.RsumBytes + c.HashLengths.ChecksumBytes

PowerOfTwo[k \in Nat] == IF k = 0 THEN 1 ELSE 2 * PowerOfTwo[k - 1]
IsPowerOfTwo(n)        == \E k \in 0 .. n : PowerOfTwo[k] = n

-----------------------------------------------------------------------------
VARIABLES
  phase,  \* "idle", "magic", "headers", "accepted" or "rejected"
  file,   \* the file being read
  next,   \* the header line it is at
  cf      \* the ControlFile so far

readVars == <<phase, file, next, cf>>

EmptyFile == [lines |-> << >>, ended |-> FALSE, body |-> 0]

ReadInit == phase = "idle" /\ file = EmptyFile /\ next = 1 /\ cf = Defaults

Read(f) ==
  /\ phase' = "magic" /\ file' = f /\ next' = 1 /\ cf' = Defaults

Current == file.lines[next]

(***************************************************************************)
(* The first line says which format it is.                                 *)
(***************************************************************************)
Magic ==
  /\ phase = "magic" /\ next \in DOMAIN file.lines
  /\ IF Current.key \in Formats /\ Current.val # Empty
     THEN /\ cf' = [cf EXCEPT !.Format = Current.key,
                              !.HashAlgorithm = IF Current.key = "zsync" THEN "MD4"
                                                                         ELSE "BLAKE3"]
          /\ phase' = "headers"
     ELSE phase' = "rejected" /\ cf' = cf
  /\ next' = next + 1
  /\ UNCHANGED file

(***************************************************************************)
(* applyHeader: which lines it admits, and what they do.  A header nobody  *)
(* knows is admitted if a Safe line before it names it.                    *)
(***************************************************************************)
Numbers == {"Length", "Blocksize", "Hash-Lengths"}
Known   == Texts \cup Numbers \cup Formats \cup
             {"URL", "Z-URL", "Hash-Algorithm", "File-Hash", "Safe", "MTime", "Z-Map2"}

admits(c, l) ==
  /\ l.val # Empty
  /\ l.key \notin Formats
  /\ l.key \in Numbers \cup {"Z-Map2", "File-Hash", "Hash-Algorithm"} => l.val # Bad
  /\ l.key = "Z-Map2" => c.Format = "zsync"
  /\ l.key \in {"Hash-Algorithm", "File-Hash"} => c.Format = "zsync2"
  /\ l.key = "Hash-Algorithm" => l.val \in Algorithms
  /\ l.key = "File-Hash" => l.val.algo \in Algorithms /\ l.val.raw = l.val.algo
  /\ l.key \notin Known => l.key \in c.Safe

(***************************************************************************)
(* A File-Hash sets the algorithm too, unless that would be a step down.   *)
(***************************************************************************)
aligned(c, algo) ==
  IF c.HashAlgorithm = "BLAKE3" /\ algo = "MD4" THEN "BLAKE3" ELSE algo

applyHeader(c, l) ==
  CASE l.key \in Texts          -> [c EXCEPT !.text[l.key] = l.val]
    [] l.key = "Length"         -> [c EXCEPT !.Length = l.val]
    [] l.key = "Blocksize"      -> [c EXCEPT !.Blocksize = l.val]
    [] l.key = "Hash-Lengths"   -> [c EXCEPT !.HashLengths = l.val]
    [] l.key = "URL"            -> [c EXCEPT !.URLs = Append(@, l.val)]
    [] l.key = "Z-URL"          -> [c EXCEPT !.ZURLs = Append(@, l.val)]
    [] l.key = "Hash-Algorithm" -> [c EXCEPT !.HashAlgorithm = l.val]
    [] l.key = "File-Hash"      -> [c EXCEPT !.FileHash = l.val.raw,
                                             !.HashAlgorithm = aligned(c, l.val.algo)]
    [] l.key = "Safe"           -> [c EXCEPT !.Safe = l.val]
    [] l.key = "MTime"          -> IF l.val = Bad THEN c ELSE [c EXCEPT !.MTime = l.val]
    [] l.key = "Z-Map2"         -> [c EXCEPT !.ZMap2Raw = l.val, !.ZMap = DecodeZMap2(l.val)]
    [] OTHER                    -> c

ApplyLine ==
  /\ phase = "headers" /\ next \in DOMAIN file.lines
  /\ IF admits(cf, Current)
     THEN cf' = applyHeader(cf, Current) /\ phase' = phase
     ELSE cf' = cf /\ phase' = "rejected"
  /\ next' = next + 1
  /\ UNCHANGED file

(***************************************************************************)
(* The end of the header: the checks, and the block table.  What follows   *)
(* the table is not looked at.                                             *)
(***************************************************************************)
\* Mutant: the bound on checksum_bytes goes by the format.
soundByFormat(c) ==
  /\ c.Blocksize > 0 /\ IsPowerOfTwo(c.Blocksize) /\ c.Length >= 0
  /\ c.HashLengths.RsumBytes \in 1 .. 4
  /\ c.HashLengths.ChecksumBytes \in 3 .. (IF c.Format = "zsync" THEN 16 ELSE 32)

sound(c) ==
  /\ c.Blocksize > 0 /\ IsPowerOfTwo(c.Blocksize) /\ c.Length >= 0
  /\ c.HashLengths.RsumBytes \in 1 .. 4
  /\ c.HashLengths.ChecksumBytes \in 3 .. StrongHashFullLen(c.HashAlgorithm)

BlockTable ==
  /\ phase \in {"magic", "headers"} /\ next \notin DOMAIN file.lines
  /\ IF /\ phase = "headers" /\ file.ended
        /\ sound(cf) /\ file.body >= NumBlocks(cf) * RowBytes(cf)
     THEN phase' = "accepted" /\ cf' = [cf EXCEPT !.Blocks = NumBlocks(cf)]
     ELSE phase' = "rejected" /\ cf' = cf
  /\ UNCHANGED <<file, next>>

Reading == Magic \/ ApplyLine \/ BlockTable

-----------------------------------------------------------------------------
(***************************************************************************)
(* Write.  Z-Filename and Safe are not written, and the digest of the file *)
(* gets the name of the algorithm of the blocks.                           *)
(***************************************************************************)
Opt(cond, line) == IF cond THEN << line >> ELSE << >>
Text(c, k)      == Opt(c.text[k] # None, Line(k, c.text[k]))
Each(k, vals)   == [i \in DOMAIN vals |-> Line(k, vals[i])]

\* The lines before the URLs, and after them.
Front(c) ==
  Text(c, "Min-Version") \o Text(c, "Filename") \o Opt(c.MTime # None, Line("MTime", c.MTime))
  \o << Line("Blocksize", c.Blocksize), Line("Length", c.Length),
        Line("Hash-Lengths", c.HashLengths) >>
  \o Opt(c.Format = "zsync2", Line("Hash-Algorithm", c.HashAlgorithm))

Back(c) ==
  Opt(c.Format = "zsync2" /\ c.FileHash # None,
      Line("File-Hash", [algo |-> c.HashAlgorithm, raw |-> c.FileHash]))
  \o Text(c, "SHA-1") \o Text(c, "Recompress")
  \o Opt(c.ZMap2Raw # << >>, Line("Z-Map2", c.ZMap2Raw))

Header(c) ==
  << Line(c.Format, "version") >> \o Front(c)
  \o Each("URL", c.URLs) \o Each("Z-URL", c.ZURLs) \o Back(c)

\* Mutant: no row for a short last block.
WriteFull(c) ==
  [lines |-> Header(c), ended |-> TRUE,
   body |-> (c.Length \div c.Blocksize) * RowBytes(c)]

Write(c) ==
  [lines |-> Header(c), ended |-> TRUE, body |-> c.Blocks * RowBytes(c)]

\* Every line has something after its colon.
HasValues(c) == \A i \in DOMAIN Header(c) : Header(c)[i].val # Empty

\* VerifyFileHash, and VerifySHA1, of data that is what the digest was made of.
VerifyFileHash(c) == c.FileHash = None \/ c.FileHash = c.HashAlgorithm

-----------------------------------------------------------------------------
(***************************************************************************)
(* What is accepted makes sense as a whole, in whatever order its lines    *)
(* came: the strong hash is as wide as the prefix the matcher cuts off it, *)
(* a classic file is all MD4 and SHA-1, and only classic files have        *)
(* restart points.                                                         *)
(***************************************************************************)
AcceptedIsCoherent ==
  phase = "accepted" =>
    /\ cf.HashLengths.ChecksumBytes <= StrongHashFullLen(cf.HashAlgorithm)
    /\ cf.Format = "zsync" => cf.HashAlgorithm = "MD4" /\ cf.FileHash = None
    /\ cf.Format = "zsync2" => cf.ZMap = << >>
    /\ cf.ZMap = DecodeZMap2(cf.ZMap2Raw)

(***************************************************************************)
(* "If the file didn't carry an explicit Hash-Algorithm yet, align it to   *)
(* whatever the File-Hash declares": a file that is intact passes the      *)
(* check with which its download ends.                                     *)
(***************************************************************************)
IntactPasses == phase = "accepted" => VerifyFileHash(cf)
=============================================================================
