----------------------------- MODULE MakeProofs -----------------------------
(***************************************************************************)
(* The walk as gozsyncmake runs it, and the reading of a control file:     *)
(* for every stream, every file, and all constants.                        *)
(***************************************************************************)
EXTENDS Make, DeflateProofs

\* Every step of the program is a step of the walk, or leaves it alone.
LEMMA NextWalks == [Next]_vars => [Walk]_walkVars
<1>. SUFFICES ASSUME Next PROVE Walk \/ UNCHANGED walkVars
  BY DEF vars
<1>1. CASE Start
  BY <1>1 DEF Start
<1>2. CASE WalkStep
  BY <1>2 DEF WalkStep
<1>3. CASE MakePlain \/ MakeGz \/ MakeFails
  BY <1>3 DEF MakePlain, MakeGz, MakeFails
<1>4. CASE Create \/ Flush \/ WriteFails
  BY <1>4 DEF Create, Flush, WriteFails
<1>5. CASE ReadMade \/ ReadOther \/ ReadStep \/ Rewrite
  BY <1>5 DEF ReadMade, ReadOther, ReadStep, Rewrite
<1>. QED BY <1>1, <1>2, <1>3, <1>4, <1>5 DEF Next

(***************************************************************************)
(* The restart points gozsyncmake puts in a control file are in time, and  *)
(* those that have an encoding are read back.                              *)
(***************************************************************************)
THEOREM MakeInTime == Spec => []CheckpointsInTime
<1>1. Init => PaceInv
  BY PaceInitially DEF Init
<1>2. PaceInv /\ [Next]_vars => PaceInv'
  BY PaceStep, NextWalks
<1>3. PaceInv => CheckpointsInTime
  BY DEF PaceInv
<1>. QED BY <1>1, <1>2, <1>3, PTL DEF Spec

THEOREM MakeReadsBack == Spec => []MapReadsBack
<1>1. Init => PaceInv /\ Counting
  BY PaceInitially, CountInitially DEF Init
<1>2. PaceInv /\ Counting /\ [Next]_vars => (PaceInv /\ Counting)'
  BY PaceStep, CountStep, NextWalks
<1>. QED BY <1>1, <1>2, ReadsBack, PTL DEF Spec

-----------------------------------------------------------------------------
(***************************************************************************)
(* What holds of a control file while its lines are applied: the magic is  *)
(* first, so the format is fixed before any line that depends on it.       *)
(***************************************************************************)
Coherent(c) ==
  /\ {"Format", "HashAlgorithm", "FileHash", "text", "MTime", "Blocksize", "Length",
      "HashLengths", "URLs", "ZURLs", "Safe", "ZMap2Raw", "ZMap", "Blocks"} \subseteq DOMAIN c
  /\ c.Format \in Formats
  /\ c.Format = "zsync" => c.HashAlgorithm = "MD4" /\ c.FileHash = None
  /\ c.Format = "zsync2" => c.ZMap = << >>
  /\ c.ZMap = DecodeZMap2(c.ZMap2Raw)

ReadInv ==
  /\ Coherent(cf)
  /\ phase = "magic" => cf = Defaults
  /\ phase = "accepted" => cf.HashLengths.ChecksumBytes <= StrongHashFullLen(cf.HashAlgorithm)

LEMMA DefaultsCoherent == Coherent(Defaults)
<1>1. DecodeZMap2(<< >>) = << >>
  BY EmptySeq DEF DecodeZMap2
<1>. QED BY <1>1 DEF Coherent, Defaults, Formats

LEMMA LineCoherent ==
  ASSUME NEW c, NEW l, Coherent(c), admits(c, l)
  PROVE  Coherent(applyHeader(c, l))
<1>1. CASE l.key \in Texts
  BY <1>1 DEF applyHeader, Coherent, Texts
<1>2. CASE l.key \in {"Length", "Blocksize", "Hash-Lengths", "URL", "Z-URL", "Safe", "MTime"}
  BY <1>2 DEF applyHeader, Coherent, Texts
<1>3. CASE l.key = "Hash-Algorithm"
  BY <1>3 DEF applyHeader, admits, Coherent, Texts, Formats
<1>4. CASE l.key = "File-Hash"
  BY <1>4 DEF applyHeader, admits, Coherent, Texts, Formats
<1>5. CASE l.key = "Z-Map2"
  BY <1>5 DEF applyHeader, admits, Coherent, Texts, Formats
<1>6. CASE l.key \notin Known
  BY <1>6 DEF applyHeader, Known, Numbers, Texts, Formats
<1>7. l.key \notin Formats
  BY DEF admits
<1>. QED BY <1>1, <1>2, <1>3, <1>4, <1>5, <1>6, <1>7 DEF Known, Numbers

LEMMA ReadingCoherent ==
  ASSUME ReadInv, Reading
  PROVE  ReadInv'
<1>1. CASE Magic
  <2>1. cf = Defaults /\ phase' \in {"headers", "rejected"}
    BY <1>1 DEF Magic, ReadInv
  <2>2. CASE cf' = cf
    BY <2>1, <2>2, DefaultsCoherent DEF ReadInv
  <2>3. CASE cf' # cf
    <3>1. /\ Current.key \in Formats
          /\ cf' = [cf EXCEPT !.Format = Current.key,
                              !.HashAlgorithm = IF Current.key = "zsync" THEN "MD4" ELSE "BLAKE3"]
      BY <1>1, <2>3 DEF Magic
    <3>2. Coherent(cf')
      <4>1. DecodeZMap2(<< >>) = << >>
        BY EmptySeq DEF DecodeZMap2
      <4>. QED BY <2>1, <3>1, <4>1 DEF Coherent, Defaults, Formats
    <3>. QED BY <2>1, <3>2 DEF ReadInv
  <2>. QED BY <2>2, <2>3
<1>2. CASE ApplyLine
  <2>1. phase' \in {"headers", "rejected"}
    BY <1>2 DEF ApplyLine
  <2>2. Coherent(cf')
    BY <1>2, LineCoherent DEF ApplyLine, ReadInv
  <2>. QED BY <2>1, <2>2 DEF ReadInv
<1>3. CASE BlockTable
  <2>1. CASE phase' = "accepted"
    <3>1. sound(cf) /\ cf' = [cf EXCEPT !.Blocks = NumBlocks(cf)]
      BY <1>3, <2>1 DEF BlockTable
    <3>2. Coherent(cf')
      BY <3>1 DEF ReadInv, Coherent
    <3>3. cf'.HashLengths = cf.HashLengths /\ cf'.HashAlgorithm = cf.HashAlgorithm
      BY <3>1 DEF ReadInv, Coherent
    <3>4. cf.HashLengths.ChecksumBytes <= StrongHashFullLen(cf.HashAlgorithm)
      BY <3>1 DEF sound, StrongHashFullLen
    <3>. QED BY <2>1, <3>2, <3>3, <3>4 DEF ReadInv
  <2>2. CASE phase' # "accepted"
    BY <1>3, <2>2 DEF BlockTable, ReadInv
  <2>. QED BY <2>1, <2>2
<1>. QED BY <1>1, <1>2, <1>3 DEF Reading

LEMMA ReadStepCoherent == ReadInv /\ [Next]_vars => ReadInv'
<1>. SUFFICES ASSUME ReadInv, [Next]_vars PROVE ReadInv'
  OBVIOUS
<1>1. CASE UNCHANGED readVars
  BY <1>1 DEF ReadInv, readVars
<1>2. CASE \E f : Read(f)
  <2>1. phase' = "magic" /\ cf' = Defaults
    BY <1>2 DEF Read
  <2>. QED BY <2>1, DefaultsCoherent DEF ReadInv
<1>3. CASE Reading
  BY <1>3, ReadingCoherent
<1>4. UNCHANGED readVars \/ (\E f : Read(f)) \/ Reading
  <2>1. CASE UNCHANGED vars
    BY <2>1 DEF vars
  <2>2. CASE Start \/ WalkStep \/ MakePlain \/ MakeGz \/ MakeFails
    BY <2>2 DEF Start, WalkStep, MakePlain, MakeGz, MakeFails
  <2>3. CASE Create \/ Flush \/ WriteFails
    BY <2>3 DEF Create, Flush, WriteFails
  <2>4. CASE ReadMade \/ ReadOther \/ ReadStep \/ Rewrite
    BY <2>4 DEF ReadMade, ReadOther, ReadStep, Rewrite
  <2>. QED BY <2>1, <2>2, <2>3, <2>4 DEF Next
<1>. QED BY <1>1, <1>2, <1>3, <1>4

(***************************************************************************)
(* Every control file Read accepts is coherent, whatever lines it has and  *)
(* in whatever order.                                                      *)
(***************************************************************************)
THEOREM AcceptedCoherent == Spec => []AcceptedIsCoherent
<1>1. Init => ReadInv
  BY DefaultsCoherent DEF Init, ReadInit, ReadInv
<1>2. ReadInv => AcceptedIsCoherent
  BY DEF ReadInv, Coherent, AcceptedIsCoherent
<1>. QED BY <1>1, <1>2, ReadStepCoherent, PTL DEF Spec
(***************************************************************************)
(* What a control file is after every line that is admitted: of its type,  *)
(* classic or not all through, and with the restart points its payload     *)
(* stands for; and what holds besides of one that was read, with no value  *)
(* missing.                                                                *)
(***************************************************************************)
Wellformed(c) ==
  /\ c \in ControlFiles
  /\ c.Format = "zsync" => c.HashAlgorithm = "MD4" /\ c.FileHash = None
  /\ c.Format = "zsync2" => c.ZMap2Raw = << >>
  /\ c.MTime \notin NoValue

NoEmpty(c) ==
  /\ \A k \in Texts : c.text[k] # Empty
  /\ Empty \notin Range(c.URLs)
  /\ Empty \notin Range(c.ZURLs)

\* What Write may be given: all of this, and sound sizes.
Writable(c) ==
  Wellformed(c) /\ sound(c) /\ c.Blocks = NumBlocks(c) /\ VerifyFileHash(c)

\* What comes back of it.
Kept(c) ==
  [c EXCEPT !.text["Z-Filename"] = None, !.Safe = {}, !.ZMap = DecodeZMap2(c.ZMap2Raw)]

(***************************************************************************)
(* Where the URLs are in what Write makes, and what has come of them when  *)
(* m of their lines are read.                                              *)
(***************************************************************************)
URLsFrom(c)  == 1 + Len(Front(c))
ZURLsFrom(c) == URLsFrom(c) + Len(c.URLs)

IsTaken(us, m, vals) ==
  /\ Len(us) = IF m < 0 THEN 0 ELSE IF m > Len(vals) THEN Len(vals) ELSE m
  /\ \A i \in 1 .. Len(us) : us[i] = vals[i]

\* The line l has had its effect on d.
HasCome(d, l) ==
  CASE l.key \in Texts          -> d.text[l.key] = l.val
    [] l.key = "MTime"          -> d.MTime = l.val
    [] l.key = "Blocksize"      -> d.Blocksize = l.val
    [] l.key = "Length"         -> d.Length = l.val
    [] l.key = "Hash-Lengths"   -> d.HashLengths = l.val
    [] l.key = "Hash-Algorithm" -> d.HashAlgorithm = l.val
    [] l.key = "File-Hash"      -> d.FileHash = l.val.raw
    [] l.key = "Z-Map2"         -> d.ZMap2Raw = l.val
    [] OTHER                    -> TRUE

(***************************************************************************)
(* Between two lines of what Write made of c: the lines that were read     *)
(* have had their effect, and whatever is not as it is in c is as it is by *)
(* default.                                                                *)
(***************************************************************************)
SoFar(c, d, n) ==
  /\ n \in 2 .. Len(Header(c)) + 1
  /\ d.Format = c.Format
  /\ d.HashAlgorithm \in {c.HashAlgorithm, IF c.Format = "zsync" THEN "MD4" ELSE "BLAKE3"}
  /\ d.FileHash \in {None, c.FileHash}
  /\ \A k \in Texts : d.text[k] \in {None, Kept(c).text[k]}
  /\ d.MTime \in {None, c.MTime}
  /\ d.ZMap2Raw \in {<< >>, c.ZMap2Raw} /\ d.ZMap = DecodeZMap2(d.ZMap2Raw)
  /\ d.Safe = {} /\ d.Blocks = 0
  /\ IsTaken(d.URLs, n - 1 - URLsFrom(c), c.URLs)
  /\ IsTaken(d.ZURLs, n - 1 - ZURLsFrom(c), c.ZURLs)
  /\ \A j \in 2 .. n - 1 : HasCome(d, Header(c)[j])

(***************************************************************************)
(* The reading of what Write made of c, or of the first part of it.        *)
(***************************************************************************)
Rereads(c, p, f, n, d) ==
  /\ p \in {"magic", "headers", "accepted", "rejected"}
  /\ p = "magic" => n = 1 /\ d = Defaults
  /\ p = "headers" /\ f.lines = Header(c) => SoFar(c, d, n)
  /\ p = "accepted" => f = Write(c) /\ d = Kept(c)
  /\ p = "rejected" => f # Write(c) \/ ~HasValues(c)

(***************************************************************************)
(* The invariant.  What is being read is well formed whatever file it is   *)
(* of; what is made and written can be written; the file a reader has of   *)
(* it is its first so many pieces; and the file of a reader that wrote     *)
(* what it had read is all of that.                                        *)
(***************************************************************************)
ReaderInv ==
  /\ Wellformed(cf) /\ NoEmpty(cf)
  /\ phase \in {"idle", "magic"} => cf = Defaults /\ next = 1
  /\ phase = "accepted" => sound(cf) /\ cf.Blocks = NumBlocks(cf)

IsMade(c) ==
  /\ Writable(c)
  /\ Kept(c) = IF Encodable(c.ZMap) THEN c ELSE [c EXCEPT !.ZMap = << >>]

MakerInv ==
  /\ mk \in {"walk", "make"} => job \in Jobs
  /\ mk = "walk" => job.algo = "MD4"
  /\ mk = "write" \/ written >= 0 => IsMade(made)
  /\ written >= 0 => mk \in {"write", "done", "failed"}
  /\ mk = "other" => phase # "idle"

OfMadeInv ==
  phase # "idle" /\ mk # "other" /\ before = Defaults =>
    /\ written >= 0
    /\ \E k \in 0 .. Pieces(Write(made)) : file = FirstPieces(Write(made), k)
    /\ Rereads(made, phase, file, next, cf)

OfBeforeInv ==
  /\ before # Defaults => phase # "idle" /\ before.ZMap = DecodeZMap2(before.ZMap2Raw)
  /\ before # Defaults /\ VerifyFileHash(before) =>
       /\ Writable(before) /\ NoEmpty(before)
       /\ file = Write(before)
       /\ Rereads(before, phase, file, next, cf)

FilesInv == ReaderInv /\ MakerInv /\ OfMadeInv /\ OfBeforeInv

-----------------------------------------------------------------------------
(***************************************************************************)
(* The header Write makes: what lines it has, and where the URLs are.      *)
(***************************************************************************)
\* Lines by what they may carry.
LEMMA StringLine ==
  ASSUME NEW k \in Words, NEW v \in Words \cup NoValue,
         k \notin {"Length", "Blocksize", "Hash-Lengths", "File-Hash", "Safe", "Z-Map2"}
  PROVE  Line(k, v) \in Lines
<1> DEFINE L == [key : Words \ {"Length", "Blocksize", "Hash-Lengths", "File-Hash", "Safe",
                                 "Z-Map2"}, val : NoValue \cup Words]
<1>1. L \subseteq Lines
  BY Zenon DEF Lines
<1>2. Line(k, v) \in L
  BY DEF Line
<1>. QED BY <1>1, <1>2

LEMMA TypedLine ==
  /\ \A v \in Int : Line("Length", v) \in Lines /\ Line("Blocksize", v) \in Lines
  /\ \A v \in HashLengths : Line("Hash-Lengths", v) \in Lines
  /\ \A v \in FileHashes : Line("File-Hash", v) \in Lines
  /\ \A v \in Seq(WireEntries) : Line("Z-Map2", v) \in Lines
<1> DEFINE A == [key : {"Length", "Blocksize"}, val : NoValue \cup Int]
           B == [key : {"Hash-Lengths"}, val : NoValue \cup HashLengths]
           C == [key : {"File-Hash"}, val : NoValue \cup FileHashes]
           D == [key : {"Z-Map2"}, val : NoValue \cup Seq(WireEntries)]
<1>1. A \subseteq Lines /\ B \subseteq Lines /\ C \subseteq Lines /\ D \subseteq Lines
  BY Zenon DEF Lines
<1>2. \A v \in Int : Line("Length", v) \in A /\ Line("Blocksize", v) \in A
  BY DEF Line
<1>3. \A v \in HashLengths : Line("Hash-Lengths", v) \in B
  BY DEF Line
<1>4. \A v \in FileHashes : Line("File-Hash", v) \in C
  BY DEF Line
<1>5. \A v \in Seq(WireEntries) : Line("Z-Map2", v) \in D
  BY DEF Line
<1>. HIDE DEF A, B, C, D
<1>. QED BY <1>1, <1>2, <1>3, <1>4, <1>5

LEMMA OptLine ==
  ASSUME NEW P \in BOOLEAN, NEW l \in Lines
  PROVE  /\ Opt(P, l) \in Seq(Lines)
         /\ Range(Opt(P, l)) = IF P THEN {l} ELSE {}
<1>1. Range(<< >>) = {} /\ Range(<< l >>) = {l}
  BY DEF Range
<1>2. << >> \in Seq(Lines) /\ << l >> \in Seq(Lines)
  OBVIOUS
<1>3. CASE P
  BY <1>1, <1>2, <1>3 DEF Opt
<1>4. CASE ~P
  BY <1>1, <1>2, <1>4 DEF Opt
<1>. QED BY <1>3, <1>4

LEMMA EachLine ==
  ASSUME NEW k \in {"URL", "Z-URL"}, NEW vals \in Seq(Words \cup NoValue)
  PROVE  /\ Each(k, vals) \in Seq(Lines)
         /\ Len(Each(k, vals)) = Len(vals)
         /\ \A i \in 1 .. Len(vals) : Each(k, vals)[i] = Line(k, vals[i])
<1>1. Len(vals) \in Nat /\ DOMAIN vals = 1 .. Len(vals)
  BY LenProperties
<1>2. \A i \in 1 .. Len(vals) : Line(k, vals[i]) \in Lines
  <2>. TAKE i \in 1 .. Len(vals)
  <2>1. vals[i] \in Words \cup NoValue
    BY ElementOfSeq
  <2>2. k \in Words
          /\ k \notin {"Length", "Blocksize", "Hash-Lengths", "File-Hash", "Safe", "Z-Map2"}
    BY DEF Words
  <2>. QED BY <2>1, <2>2, StringLine
<1>3. Each(k, vals) \in [1 .. Len(vals) -> Lines]
  BY <1>1, <1>2 DEF Each
<1>4. Each(k, vals) \in Seq(Lines) /\ Len(Each(k, vals)) = Len(vals)
  BY <1>1, <1>3
<1>. QED BY <1>1, <1>4 DEF Each

LEMMA Joined ==
  ASSUME NEW s \in Seq(Lines), NEW t \in Seq(Lines)
  PROVE  /\ s \o t \in Seq(Lines)
         /\ Range(s \o t) = Range(s) \cup Range(t)
BY ConcatProperties, RangeConcatenation

LEMMA FileLines ==
  ASSUME NEW c \in ControlFiles
  PROVE  /\ \A k \in Texts : Line(k, c.text[k]) \in Lines
         /\ Line("MTime", c.MTime) \in Lines
         /\ Line("Blocksize", c.Blocksize) \in Lines
         /\ Line("Length", c.Length) \in Lines
         /\ Line("Hash-Lengths", c.HashLengths) \in Lines
         /\ Line("Hash-Algorithm", c.HashAlgorithm) \in Lines
         /\ Line("File-Hash", [algo |-> c.HashAlgorithm, raw |-> c.FileHash]) \in Lines
         /\ Line("Z-Map2", c.ZMap2Raw) \in Lines
         /\ Line(c.Format, "version") \in Lines
<1>1. /\ c.text \in [Texts -> Words \cup NoValue] /\ c.MTime \in Words \cup NoValue
      /\ c.Blocksize \in Int /\ c.Length \in Int /\ c.HashLengths \in HashLengths
      /\ c.HashAlgorithm \in Algorithms /\ c.FileHash \in Algorithms \cup {None}
      /\ c.Format \in Formats /\ c.ZMap2Raw \in Seq(WireEntries)
  BY DEF ControlFiles
<1>2. c.HashAlgorithm \in Words /\ c.FileHash \in Words
  BY <1>1 DEF Words
<1>3. [algo |-> c.HashAlgorithm, raw |-> c.FileHash] \in FileHashes
  BY <1>2 DEF FileHashes
<1>4. \A k \in Texts : Line(k, c.text[k]) \in Lines
  <2>. TAKE k \in Texts
  <2>1. c.text[k] \in Words \cup NoValue /\ k \in Words
           /\ k \notin {"Length", "Blocksize", "Hash-Lengths", "File-Hash", "Safe", "Z-Map2"}
    BY <1>1 DEF Texts, Words
  <2>. QED BY <2>1, StringLine
<1>5. /\ Line("MTime", c.MTime) \in Lines
      /\ Line("Hash-Algorithm", c.HashAlgorithm) \in Lines
  <2>1. "MTime" \in Words /\ "Hash-Algorithm" \in Words
    BY DEF Words
  <2>. QED BY <1>1, <1>2, <2>1, StringLine
<1>6. Line(c.Format, "version") \in Lines
  <2>1. c.Format \in Words
          /\ c.Format \notin {"Length", "Blocksize", "Hash-Lengths", "File-Hash", "Safe", "Z-Map2"}
    BY <1>1 DEF Formats, Words
  <2>2. "version" \in Words \cup NoValue
    BY DEF Words
  <2>. QED BY <2>1, <2>2, StringLine
<1>. QED BY <1>1, <1>3, <1>4, <1>5, <1>6, TypedLine

TextLine(c, k) == IF c.text[k] # None THEN {Line(k, c.text[k])} ELSE {}

FrontLines(c) ==
  TextLine(c, "Min-Version") \cup TextLine(c, "Filename")
  \cup (IF c.MTime # None THEN {Line("MTime", c.MTime)} ELSE {})
  \cup { Line("Blocksize", c.Blocksize), Line("Length", c.Length),
         Line("Hash-Lengths", c.HashLengths) }
  \cup (IF c.Format = "zsync2" THEN {Line("Hash-Algorithm", c.HashAlgorithm)} ELSE {})

BackLines(c) ==
  (IF c.Format = "zsync2" /\ c.FileHash # None
   THEN {Line("File-Hash", [algo |-> c.HashAlgorithm, raw |-> c.FileHash])} ELSE {})
  \cup TextLine(c, "SHA-1") \cup TextLine(c, "Recompress")
  \cup (IF c.ZMap2Raw # << >> THEN {Line("Z-Map2", c.ZMap2Raw)} ELSE {})

LEMMA TextOpt ==
  ASSUME NEW c \in ControlFiles, NEW k \in Texts
  PROVE  Text(c, k) \in Seq(Lines) /\ Range(Text(c, k)) = TextLine(c, k)
BY FileLines, OptLine DEF Text, TextLine

LEMMA FrontHas ==
  ASSUME NEW c \in ControlFiles
  PROVE  Front(c) \in Seq(Lines) /\ Range(Front(c)) = FrontLines(c)
<1> DEFINE a == Text(c, "Min-Version")
           b == Text(c, "Filename")
           m == Opt(c.MTime # None, Line("MTime", c.MTime))
           s == << Line("Blocksize", c.Blocksize), Line("Length", c.Length),
                   Line("Hash-Lengths", c.HashLengths) >>
           h == Opt(c.Format = "zsync2", Line("Hash-Algorithm", c.HashAlgorithm))
<1>1. /\ a \in Seq(Lines) /\ Range(a) = TextLine(c, "Min-Version")
      /\ b \in Seq(Lines) /\ Range(b) = TextLine(c, "Filename")
  BY TextOpt DEF Texts, Words
<1>2. /\ m \in Seq(Lines)
      /\ Range(m) = IF c.MTime # None THEN {Line("MTime", c.MTime)} ELSE {}
  BY FileLines, OptLine
<1>3. /\ s \in Seq(Lines)
      /\ Range(s) = { Line("Blocksize", c.Blocksize), Line("Length", c.Length),
                      Line("Hash-Lengths", c.HashLengths) }
  <2>1. \A p \in Lines, q \in Lines, r \in Lines :
          << p, q, r >> \in Seq(Lines) /\ Range(<< p, q, r >>) = {p, q, r}
    BY DEF Range
  <2>. QED BY <2>1, FileLines
<1>4. /\ h \in Seq(Lines)
      /\ Range(h) = IF c.Format = "zsync2"
                    THEN {Line("Hash-Algorithm", c.HashAlgorithm)} ELSE {}
  BY FileLines, OptLine
<1>5. Front(c) = a \o b \o m \o s \o h
  BY DEF Front
<1>. HIDE DEF a, b, m, s, h
<1>6. a \o b \in Seq(Lines) /\ Range(a \o b) = Range(a) \cup Range(b)
  BY <1>1, Joined
<1>7. a \o b \o m \in Seq(Lines) /\ Range(a \o b \o m) = Range(a \o b) \cup Range(m)
  BY <1>2, <1>6, Joined
<1>8. /\ a \o b \o m \o s \in Seq(Lines)
      /\ Range(a \o b \o m \o s) = Range(a \o b \o m) \cup Range(s)
  BY <1>3, <1>7, Joined
<1>9. /\ a \o b \o m \o s \o h \in Seq(Lines)
      /\ Range(a \o b \o m \o s \o h) = Range(a \o b \o m \o s) \cup Range(h)
  BY <1>4, <1>8, Joined
<1>. QED BY <1>1, <1>2, <1>3, <1>4, <1>5, <1>6, <1>7, <1>8, <1>9 DEF FrontLines

LEMMA BackHas ==
  ASSUME NEW c \in ControlFiles
  PROVE  Back(c) \in Seq(Lines) /\ Range(Back(c)) = BackLines(c)
<1> DEFINE d == Line("File-Hash", [algo |-> c.HashAlgorithm, raw |-> c.FileHash])
           f == Opt(c.Format = "zsync2" /\ c.FileHash # None, d)
           a == Text(c, "SHA-1")
           b == Text(c, "Recompress")
           z == Opt(c.ZMap2Raw # << >>, Line("Z-Map2", c.ZMap2Raw))
<1>1. /\ a \in Seq(Lines) /\ Range(a) = TextLine(c, "SHA-1")
      /\ b \in Seq(Lines) /\ Range(b) = TextLine(c, "Recompress")
  BY TextOpt DEF Texts, Words
<1>2. /\ f \in Seq(Lines)
      /\ Range(f) = IF c.Format = "zsync2" /\ c.FileHash # None THEN {d} ELSE {}
  BY FileLines, OptLine
<1>3. /\ z \in Seq(Lines)
      /\ Range(z) = IF c.ZMap2Raw # << >> THEN {Line("Z-Map2", c.ZMap2Raw)} ELSE {}
  BY FileLines, OptLine
<1>4. Back(c) = f \o a \o b \o z
  BY DEF Back
<1>. HIDE DEF d, f, a, b, z
<1>5. f \o a \in Seq(Lines) /\ Range(f \o a) = Range(f) \cup Range(a)
  BY <1>1, <1>2, Joined
<1>6. f \o a \o b \in Seq(Lines) /\ Range(f \o a \o b) = Range(f \o a) \cup Range(b)
  BY <1>1, <1>5, Joined
<1>7. /\ f \o a \o b \o z \in Seq(Lines)
      /\ Range(f \o a \o b \o z) = Range(f \o a \o b) \cup Range(z)
  BY <1>3, <1>6, Joined
<1>. QED BY <1>1, <1>2, <1>3, <1>4, <1>5, <1>6, <1>7 DEF BackLines, d

\* One sequence after another: which place is in which.
LEMMA TwoJoined ==
  ASSUME NEW S, NEW s \in Seq(S), NEW t \in Seq(S)
  PROVE  /\ Len(s) \in Nat /\ Len(t) \in Nat
         /\ s \o t \in Seq(S) /\ Len(s \o t) = Len(s) + Len(t)
         /\ \A i \in 1 .. Len(s) : (s \o t)[i] = s[i]
         /\ \A i \in 1 .. Len(t) : (s \o t)[Len(s) + i] = t[i]
<1>1. /\ s \o t \in Seq(S) /\ Len(s \o t) = Len(s) + Len(t)
      /\ \A i \in 1 .. Len(s) + Len(t) :
           (s \o t)[i] = IF i <= Len(s) THEN s[i] ELSE t[i - Len(s)]
  BY ConcatProperties
<1>2. Len(s) \in Nat /\ Len(t) \in Nat
  BY LenProperties
<1>3. ASSUME NEW i \in 1 .. Len(s) PROVE (s \o t)[i] = s[i]
  <2>1. i \in 1 .. Len(s) + Len(t) /\ i <= Len(s)
    BY <1>2
  <2>. QED BY <1>1, <2>1
<1>4. ASSUME NEW i \in 1 .. Len(t) PROVE (s \o t)[Len(s) + i] = t[i]
  <2> DEFINE j == Len(s) + i
  <2>1. j \in 1 .. Len(s) + Len(t) /\ ~ j <= Len(s) /\ j - Len(s) = i
    BY <1>2
  <2>. HIDE DEF j
  <2>2. (s \o t)[j] = t[j - Len(s)]
    BY <1>1, <2>1
  <2>. QED BY <2>1, <2>2 DEF j
<1>. QED BY <1>1, <1>2, <1>3, <1>4

\* The sequence s stands in h behind the place at.
IsPart(h, at, s) == \A i \in 1 .. Len(s) : h[at + i] = s[i]

LEMMA JoinedParts ==
  ASSUME NEW S, NEW s \in Seq(S), NEW t \in Seq(S)
  PROVE  /\ Len(s) \in Nat /\ Len(t) \in Nat
         /\ s \o t \in Seq(S) /\ Len(s \o t) = Len(s) + Len(t)
         /\ IsPart(s \o t, 0, s) /\ IsPart(s \o t, Len(s), t)
         /\ \A k \in Nat, w \in Seq(S) :
              k + Len(w) <= Len(s) /\ IsPart(s, k, w) => IsPart(s \o t, k, w)
<1>1. /\ Len(s) \in Nat /\ Len(t) \in Nat
      /\ s \o t \in Seq(S) /\ Len(s \o t) = Len(s) + Len(t)
      /\ \A i \in 1 .. Len(s) : (s \o t)[i] = s[i]
      /\ \A i \in 1 .. Len(t) : (s \o t)[Len(s) + i] = t[i]
  BY TwoJoined
<1>2. IsPart(s \o t, 0, s) /\ IsPart(s \o t, Len(s), t)
  BY <1>1 DEF IsPart
<1>3. ASSUME NEW k \in Nat, NEW w \in Seq(S), k + Len(w) <= Len(s), IsPart(s, k, w),
             NEW i \in 1 .. Len(w)
      PROVE  (s \o t)[k + i] = w[i]
  <2>1. Len(w) \in Nat
    BY LenProperties
  <2>2. k + i \in 1 .. Len(s)
    BY <1>1, <1>3, <2>1
  <2>3. s[k + i] = w[i]
    BY <1>3 DEF IsPart
  <2>. QED BY <1>1, <2>2, <2>3
<1>. QED BY <1>1, <1>2, <1>3 DEF IsPart

AreJoined(h, m, f, u, z, b) ==
  /\ Len(h) = Len(m) + Len(f) + Len(u) + Len(z) + Len(b)
  /\ IsPart(h, 0, m) /\ IsPart(h, Len(m), f) /\ IsPart(h, Len(m) + Len(f), u)
  /\ IsPart(h, Len(m) + Len(f) + Len(u), z)
  /\ IsPart(h, Len(m) + Len(f) + Len(u) + Len(z), b)

LEMMA FiveJoined ==
  ASSUME NEW S, NEW m \in Seq(S), NEW f \in Seq(S), NEW u \in Seq(S), NEW z \in Seq(S),
         NEW b \in Seq(S), NEW h, h = m \o f \o u \o z \o b
  PROVE  h \in Seq(S) /\ AreJoined(h, m, f, u, z, b)
<1>0. Len(m) \in Nat /\ Len(f) \in Nat /\ Len(u) \in Nat /\ Len(z) \in Nat /\ Len(b) \in Nat
  BY LenProperties
<1>1. /\ m \o f \in Seq(S) /\ Len(m \o f) = Len(m) + Len(f)
      /\ IsPart(m \o f, 0, m) /\ IsPart(m \o f, Len(m), f)
  BY JoinedParts
<1> DEFINE A == m \o f
<1>. HIDE DEF A
<1>2. /\ A \o u \in Seq(S) /\ Len(A \o u) = Len(m) + Len(f) + Len(u)
      /\ IsPart(A \o u, 0, m) /\ IsPart(A \o u, Len(m), f)
      /\ IsPart(A \o u, Len(m) + Len(f), u)
  <2>1. A \in Seq(S) /\ Len(A) = Len(m) + Len(f) /\ IsPart(A, 0, m) /\ IsPart(A, Len(m), f)
    BY <1>1 DEF A
  <2>2. /\ A \o u \in Seq(S) /\ Len(A \o u) = Len(A) + Len(u)
        /\ IsPart(A \o u, Len(A), u)
        /\ \A k \in Nat, w \in Seq(S) :
             k + Len(w) <= Len(A) /\ IsPart(A, k, w) => IsPart(A \o u, k, w)
    BY <2>1, JoinedParts, Zenon
  <2>. QED BY <1>0, <2>1, <2>2
<1> DEFINE B == A \o u
<1>. HIDE DEF B
<1>3. /\ B \o z \in Seq(S) /\ Len(B \o z) = Len(m) + Len(f) + Len(u) + Len(z)
      /\ IsPart(B \o z, 0, m) /\ IsPart(B \o z, Len(m), f)
      /\ IsPart(B \o z, Len(m) + Len(f), u) /\ IsPart(B \o z, Len(m) + Len(f) + Len(u), z)
  <2>1. /\ B \in Seq(S) /\ Len(B) = Len(m) + Len(f) + Len(u)
        /\ IsPart(B, 0, m) /\ IsPart(B, Len(m), f) /\ IsPart(B, Len(m) + Len(f), u)
    BY <1>2 DEF B
  <2>2. /\ B \o z \in Seq(S) /\ Len(B \o z) = Len(B) + Len(z)
        /\ IsPart(B \o z, Len(B), z)
        /\ \A k \in Nat, w \in Seq(S) :
             k + Len(w) <= Len(B) /\ IsPart(B, k, w) => IsPart(B \o z, k, w)
    BY <2>1, JoinedParts, Zenon
  <2>. QED BY <1>0, <2>1, <2>2
<1> DEFINE C == B \o z
<1>. HIDE DEF C
<1>4. h = C \o b
  BY DEF A, B, C
<1>5. /\ C \in Seq(S) /\ Len(C) = Len(m) + Len(f) + Len(u) + Len(z)
      /\ IsPart(C, 0, m) /\ IsPart(C, Len(m), f) /\ IsPart(C, Len(m) + Len(f), u)
      /\ IsPart(C, Len(m) + Len(f) + Len(u), z)
  BY <1>3 DEF C
<1>6. /\ C \o b \in Seq(S) /\ Len(C \o b) = Len(C) + Len(b)
      /\ IsPart(C \o b, Len(C), b)
      /\ \A k \in Nat, w \in Seq(S) :
           k + Len(w) <= Len(C) /\ IsPart(C, k, w) => IsPart(C \o b, k, w)
  BY <1>5, JoinedParts, Zenon
<1>. QED BY <1>0, <1>4, <1>5, <1>6 DEF AreJoined

LEMMA InRange ==
  ASSUME NEW S, NEW s \in Seq(S)
  PROVE  /\ \A i \in 1 .. Len(s) : s[i] \in Range(s)
         /\ \A x \in Range(s) : \E i \in 1 .. Len(s) : s[i] = x
BY RangeEquality

(***************************************************************************)
(* The places in the header.                                               *)
(***************************************************************************)
LEMMA HeaderPlaces ==
  ASSUME NEW c \in ControlFiles, NEW h, h = Header(c)
  PROVE  /\ h \in Seq(Lines) /\ Len(h) \in Nat
         /\ URLsFrom(c) \in Nat /\ URLsFrom(c) >= 1
         /\ Len(c.URLs) \in Nat /\ Len(c.ZURLs) \in Nat
         /\ ZURLsFrom(c) = URLsFrom(c) + Len(c.URLs)
         /\ Len(h) >= ZURLsFrom(c) + Len(c.ZURLs)
         /\ h[1] = Line(c.Format, "version")
         /\ \A j \in 2 .. URLsFrom(c) : h[j] \in FrontLines(c)
         /\ \A i \in 1 .. Len(c.URLs) : h[URLsFrom(c) + i] = Line("URL", c.URLs[i])
         /\ \A i \in 1 .. Len(c.ZURLs) : h[ZURLsFrom(c) + i] = Line("Z-URL", c.ZURLs[i])
         /\ \A j \in ZURLsFrom(c) + Len(c.ZURLs) + 1 .. Len(h) : h[j] \in BackLines(c)
         /\ \A l \in FrontLines(c) \cup BackLines(c) : \E j \in 2 .. Len(h) : h[j] = l
<1> DEFINE m == << Line(c.Format, "version") >>
           f == Front(c)
           u == Each("URL", c.URLs)
           z == Each("Z-URL", c.ZURLs)
           b == Back(c)
           p == 1 + Len(f)
           q == p + Len(u)
           r == q + Len(z)
<1>1. c.URLs \in Seq(Words \cup NoValue) /\ c.ZURLs \in Seq(Words \cup NoValue)
  BY DEF ControlFiles
<1>2. m \in Seq(Lines) /\ Len(m) = 1 /\ m[1] = Line(c.Format, "version")
  <2>1. \A x \in Lines : << x >> \in Seq(Lines) /\ Len(<< x >>) = 1 /\ << x >>[1] = x
    OBVIOUS
  <2>. QED BY <2>1, FileLines
<1>3. f \in Seq(Lines) /\ Range(f) = FrontLines(c)
  BY FrontHas
<1>4. /\ u \in Seq(Lines) /\ Len(u) = Len(c.URLs)
      /\ \A i \in 1 .. Len(u) : u[i] = Line("URL", c.URLs[i])
  BY <1>1, EachLine
<1>5. /\ z \in Seq(Lines) /\ Len(z) = Len(c.ZURLs)
      /\ \A i \in 1 .. Len(z) : z[i] = Line("Z-URL", c.ZURLs[i])
  BY <1>1, EachLine
<1>6. b \in Seq(Lines) /\ Range(b) = BackLines(c)
  BY BackHas
<1>7. h = m \o f \o u \o z \o b
  BY DEF Header
<1>8. URLsFrom(c) = p /\ ZURLsFrom(c) = q
  BY <1>4 DEF URLsFrom, ZURLsFrom
<1>9. Len(m) + Len(f) = p
  BY <1>2
<1>. HIDE DEF m, f, u, z, b
<1>10. /\ Len(f) \in Nat /\ Len(u) \in Nat /\ Len(z) \in Nat /\ Len(b) \in Nat
       /\ p \in Nat /\ q \in Nat /\ r \in Nat
       /\ h \in Seq(Lines) /\ Len(h) = r + Len(b)
       /\ \A i \in 1 .. Len(m) : h[i] = m[i]
       /\ \A i \in 1 .. Len(f) : h[1 + i] = f[i]
       /\ \A i \in 1 .. Len(u) : h[p + i] = u[i]
       /\ \A i \in 1 .. Len(z) : h[q + i] = z[i]
       /\ \A i \in 1 .. Len(b) : h[r + i] = b[i]
  <2>1. /\ h \in Seq(Lines)
        /\ Len(h) = Len(m) + Len(f) + Len(u) + Len(z) + Len(b)
        /\ IsPart(h, 0, m) /\ IsPart(h, Len(m), f) /\ IsPart(h, Len(m) + Len(f), u)
        /\ IsPart(h, Len(m) + Len(f) + Len(u), z)
        /\ IsPart(h, Len(m) + Len(f) + Len(u) + Len(z), b)
    <3>1. m \in Seq(Lines) /\ f \in Seq(Lines) /\ u \in Seq(Lines) /\ z \in Seq(Lines)
             /\ b \in Seq(Lines)
      BY <1>2, <1>3, <1>4, <1>5, <1>6
    <3>2. h \in Seq(Lines) /\ AreJoined(h, m, f, u, z, b)
      BY <1>7, <3>1, FiveJoined, Zenon
    <3>. QED BY <3>2 DEF AreJoined
  <2>2. Len(f) \in Nat /\ Len(u) \in Nat /\ Len(z) \in Nat /\ Len(b) \in Nat
    BY <1>3, <1>4, <1>5, <1>6, LenProperties
  <2>3. /\ Len(m) = 1 /\ Len(m) + Len(f) = p /\ Len(m) + Len(f) + Len(u) = q
        /\ Len(m) + Len(f) + Len(u) + Len(z) = r
    BY <1>2
  <2>4. p \in Nat /\ q \in Nat /\ r \in Nat
    BY <2>2
  <2>. HIDE DEF p, q, r
  <2>5. /\ IsPart(h, 0, m) /\ IsPart(h, 1, f) /\ IsPart(h, p, u) /\ IsPart(h, q, z)
        /\ IsPart(h, r, b) /\ Len(h) = r + Len(b)
    BY <2>1, <2>3
  <2>6. \A i \in 1 .. Len(m) : h[i] = m[i]
    BY <2>5 DEF IsPart
  <2>. QED BY <2>1, <2>2, <2>4, <2>5, <2>6 DEF IsPart
<1>11. h[1] = Line(c.Format, "version")
  BY <1>2, <1>10
<1>12. ASSUME NEW j \in 2 .. p PROVE h[j] \in FrontLines(c)
  <2>1. j - 1 \in 1 .. Len(f) /\ 1 + (j - 1) = j
    BY <1>10
  <2>2. h[j] = f[j - 1]
    BY <1>2, <1>10, <2>1
  <2>. QED BY <1>3, <2>1, <2>2, InRange
<1>13. ASSUME NEW j \in r + 1 .. Len(h) PROVE h[j] \in BackLines(c)
  <2>1. j - r \in 1 .. Len(b) /\ r + (j - r) = j
    BY <1>10
  <2>2. h[j] = b[j - r]
    BY <1>10, <2>1
  <2>. QED BY <1>6, <2>1, <2>2, InRange
<1>14. ASSUME NEW l \in FrontLines(c) PROVE \E j \in 2 .. Len(h) : h[j] = l
  <2>1. PICK i \in 1 .. Len(f) : f[i] = l
    BY <1>3, InRange
  <2>2. 1 + i \in 2 .. Len(h)
    BY <1>10
  <2>3. h[1 + i] = l
    BY <1>2, <1>10, <2>1
  <2>. QED BY <2>2, <2>3
<1>15. ASSUME NEW l \in BackLines(c) PROVE \E j \in 2 .. Len(h) : h[j] = l
  <2>1. PICK i \in 1 .. Len(b) : b[i] = l
    BY <1>6, InRange
  <2>2. r + i \in 2 .. Len(h)
    BY <1>10
  <2>3. h[r + i] = l
    BY <1>10, <2>1
  <2>. QED BY <2>2, <2>3
<1>16. \A i \in 1 .. Len(u) : h[p + i] = Line("URL", c.URLs[i])
  BY <1>4, <1>10
<1>17. \A i \in 1 .. Len(z) : h[q + i] = Line("Z-URL", c.ZURLs[i])
  BY <1>5, <1>10
<1>18. p >= 1 /\ Len(h) \in Nat /\ Len(h) >= q + Len(z) /\ r = q + Len(z) /\ q = p + Len(u)
  BY <1>10
<1>. HIDE DEF p, q, r
<1>. QED BY <1>4, <1>5, <1>8, <1>10, <1>11, <1>12, <1>13, <1>14, <1>15, <1>16, <1>17, <1>18

-----------------------------------------------------------------------------
(***************************************************************************)
(* A payload decodes to restart points, and an empty one to none.          *)
(***************************************************************************)
LEMMA DecodedType ==
  ASSUME NEW raw \in Seq(WireEntries)
  PROVE  DecodeZMap2(raw) \in Seq(ZMapEntries)
<1> DEFINE n == Len(raw)
           zero == Entry(0, 0, TRUE, 0)
           step == [i \in Nat |-> [e \in ZMapEntries |->
                      IF i < n THEN After(e, raw[i + 1]) ELSE e]]
           u == UpTo(raw)
<1>1. n \in Nat
  BY LenProperties
<1>2. OutField \in Nat \ {0} /\ InField \in Nat \ {0}
  BY WireAssumption
<1>3. zero \in ZMapEntries
  BY DEF Entry, ZMapEntries
<1>4. ASSUME NEW e \in ZMapEntries, NEW w \in WireEntries PROVE After(e, w) \in ZMapEntries
  <2>1. e.Inflated \in Nat /\ e.Compressed \in Nat /\ e.BlockCount \in Nat
    BY DEF ZMapEntries
  <2>2. w.ob \in Nat /\ w.in \in Nat
    BY <1>2 DEF WireEntries
  <2>3. w.ob % OutField \in Nat
    BY <1>2, <2>2
  <2>4. /\ e.Inflated + (w.ob % OutField) \in Nat /\ e.Compressed + w.in \in Nat
        /\ (w.ob < OutField) \in BOOLEAN
        /\ (IF w.ob < OutField THEN 0 ELSE e.BlockCount + 1) \in Nat
    BY <1>2, <2>1, <2>2, <2>3
  <2>. QED BY <2>4 DEF After, Entry, ZMapEntries
<1>5. u = CHOOSE q : q = [i \in 0 .. n |-> IF i = 0 THEN zero ELSE After(q[i - 1], raw[i])]
  BY DEF UpTo
<1>6. step \in [Nat -> [ZMapEntries -> ZMapEntries]]
  <2>1. ASSUME NEW i \in Nat, NEW e \in ZMapEntries
        PROVE  (IF i < n THEN After(e, raw[i + 1]) ELSE e) \in ZMapEntries
    <3>1. CASE i < n
      <4>1. i + 1 \in 1 .. n
        BY <1>1, <3>1
      <4>2. raw[i + 1] \in WireEntries
        BY <4>1, ElementOfSeq
      <4>. QED BY <1>4, <3>1, <4>2
    <3>. QED BY <3>1
  <2>. QED BY <2>1
<1>. HIDE DEF zero, u
<1>7. PICK f \in [Nat -> ZMapEntries] : Recurses(f, zero, step)
  <2>. HIDE DEF step
  <2>. QED BY <1>3, <1>6, RecursiveFunction, Zenon
<1> DEFINE s == [i \in 0 .. n |-> f[i]]
<1>8. s = [i \in 0 .. n |-> IF i = 0 THEN zero ELSE After(s[i - 1], raw[i])]
  <2>1. ASSUME NEW i \in 0 .. n PROVE f[i] = IF i = 0 THEN zero ELSE After(s[i - 1], raw[i])
    <3>1. CASE i = 0
      BY <1>7, <3>1 DEF Recurses
    <3>2. CASE i # 0
      <4>1. i - 1 \in Nat /\ i - 1 < n /\ i - 1 \in 0 .. n /\ (i - 1) + 1 = i
        BY <1>1, <3>2
      <4>2. f[i] = step[i - 1][f[i - 1]]
        <5>. HIDE DEF step
        <5>. QED BY <1>7, <4>1 DEF Recurses
      <4>3. f[i - 1] \in ZMapEntries
        BY <1>7, <4>1
      <4>4. step[i - 1][f[i - 1]] = After(f[i - 1], raw[i])
        BY <4>1, <4>3
      <4>. QED BY <3>2, <4>1, <4>2, <4>4
    <3>. QED BY <3>1, <3>2
  <2>. QED BY <2>1
<1>. HIDE DEF s
<1>9. u = [i \in 0 .. n |-> IF i = 0 THEN zero ELSE After(u[i - 1], raw[i])]
  BY <1>5, <1>8, Zenon
<1>10. \A i \in 0 .. n : u[i] \in ZMapEntries
  <2> DEFINE T == { i \in Nat : i <= n => u[i] \in ZMapEntries }
  <2>1. 0 \in T
    BY <1>1, <1>3, <1>9
  <2>2. ASSUME NEW i \in T PROVE i + 1 \in T
    <3>1. i \in Nat /\ (i <= n => u[i] \in ZMapEntries)
      OBVIOUS
    <3>2. SUFFICES ASSUME i + 1 <= n PROVE u[i + 1] \in ZMapEntries
      BY <3>1
    <3>3. i <= n /\ i + 1 \in 0 .. n /\ i + 1 \in 1 .. n /\ i + 1 # 0 /\ (i + 1) - 1 = i
      BY <1>1, <3>1, <3>2
    <3>4. u[i + 1] = After(u[i], raw[i + 1])
      BY <1>9, <3>3
    <3>5. raw[i + 1] \in WireEntries
      BY <3>3, ElementOfSeq
    <3>. QED BY <1>4, <3>1, <3>3, <3>4, <3>5
  <2>3. T \in SUBSET Nat
    OBVIOUS
  <2>4. T = Nat
    <3>. HIDE DEF T
    <3>. QED BY <2>1, <2>2, <2>3, InductiveSet
  <2>. QED BY <2>4, <1>1
<1>11. DecodeZMap2(raw) = [i \in 1 .. n |-> u[i]]
  BY DEF DecodeZMap2, u
<1>12. \A i \in 1 .. n : u[i] \in ZMapEntries
  BY <1>1, <1>10
<1>. HIDE DEF n
<1>13. [i \in 1 .. n |-> u[i]] \in [1 .. n -> ZMapEntries]
  BY <1>12
<1>. QED BY <1>1, <1>11, <1>13

LEMMA DecodeNone == DecodeZMap2(<< >>) = << >>
  BY EmptySeq DEF DecodeZMap2

-----------------------------------------------------------------------------
(***************************************************************************)
(* What an admitted line carries, and what it changes.                     *)
(***************************************************************************)
LEMMA LineCarries ==
  ASSUME NEW l \in Lines
  PROVE  /\ l.key \in {"Length", "Blocksize"} => l.val \in NoValue \cup Int
         /\ l.key = "Hash-Lengths" => l.val \in NoValue \cup HashLengths
         /\ l.key = "File-Hash" => l.val \in NoValue \cup FileHashes
         /\ l.key = "Safe" => l.val \in {Empty} \cup SUBSET Words
         /\ l.key = "Z-Map2" => l.val \in NoValue \cup Seq(WireEntries)
         /\ l.key \notin {"Length", "Blocksize", "Hash-Lengths", "File-Hash", "Safe", "Z-Map2"}
              => l.val \in NoValue \cup Words
<1> DEFINE A == [key : {"Length", "Blocksize"}, val : NoValue \cup Int]
           B == [key : {"Hash-Lengths"}, val : NoValue \cup HashLengths]
           C == [key : {"File-Hash"}, val : NoValue \cup FileHashes]
           D == [key : {"Safe"}, val : {Empty} \cup SUBSET Words]
           E == [key : {"Z-Map2"}, val : NoValue \cup Seq(WireEntries)]
           F == [key : Words \ {"Length", "Blocksize", "Hash-Lengths", "File-Hash", "Safe",
                                "Z-Map2"}, val : NoValue \cup Words]
<1>1. l \in A \/ l \in B \/ l \in C \/ l \in D \/ l \in E \/ l \in F
  BY Zenon DEF Lines
<1>2. l \in A => l.key \in {"Length", "Blocksize"} /\ l.val \in NoValue \cup Int
  OBVIOUS
<1>3. l \in B => l.key = "Hash-Lengths" /\ l.val \in NoValue \cup HashLengths
  OBVIOUS
<1>4. l \in C => l.key = "File-Hash" /\ l.val \in NoValue \cup FileHashes
  OBVIOUS
<1>5. l \in D => l.key = "Safe" /\ l.val \in {Empty} \cup SUBSET Words
  OBVIOUS
<1>6. l \in E => l.key = "Z-Map2" /\ l.val \in NoValue \cup Seq(WireEntries)
  OBVIOUS
<1>7. l \in F => /\ l.val \in NoValue \cup Words
                 /\ l.key \notin {"Length", "Blocksize", "Hash-Lengths", "File-Hash", "Safe",
                                  "Z-Map2"}
  OBVIOUS
<1>. HIDE DEF A, B, C, D, E, F
<1>. QED BY <1>1, <1>2, <1>3, <1>4, <1>5, <1>6, <1>7

LEMMA AdmittedCarries ==
  ASSUME NEW c, NEW l \in Lines, admits(c, l)
  PROVE  /\ l.val # Empty /\ l.key \notin Formats
         /\ l.key \in {"Length", "Blocksize"} => l.val \in Int
         /\ l.key = "Hash-Lengths" => l.val \in HashLengths
         /\ l.key = "File-Hash" => c.Format = "zsync2" /\ l.val.algo \in Algorithms
                                     /\ l.val.raw = l.val.algo
         /\ l.key = "Hash-Algorithm" => c.Format = "zsync2" /\ l.val \in Algorithms
         /\ l.key = "Safe" => l.val \in SUBSET Words
         /\ l.key = "Z-Map2" => c.Format = "zsync" /\ l.val \in Seq(WireEntries)
         /\ l.key \in Texts \cup {"MTime", "URL", "Z-URL"} =>
              l.val \in (Words \cup NoValue) \ {Empty}
<1>1. l.val # Empty /\ l.key \notin Formats
  BY DEF admits
<1>2. l.key \in {"Length", "Blocksize", "Hash-Lengths", "Z-Map2"} => l.val # Bad
  BY DEF admits, Numbers
<1>3. l.key = "Z-Map2" => c.Format = "zsync"
  BY DEF admits
<1>4. l.key = "Hash-Algorithm" => c.Format = "zsync2" /\ l.val \in Algorithms
  BY DEF admits
<1>5. l.key = "File-Hash" => /\ c.Format = "zsync2" /\ l.val.algo \in Algorithms
                             /\ l.val.raw = l.val.algo
  BY DEF admits
<1>6. l.key \in Texts \cup {"MTime", "URL", "Z-URL"} => l.val \in Words \cup NoValue
  BY LineCarries DEF Texts
<1>. QED BY <1>1, <1>2, <1>3, <1>4, <1>5, <1>6, LineCarries DEF NoValue

\* What is as it was, and what is as the line says.
Applied(c, l, d) ==
  /\ d \in ControlFiles
  /\ d.text = IF l.key \in Texts THEN [c.text EXCEPT ![l.key] = l.val] ELSE c.text
  /\ d.MTime = IF l.key = "MTime" /\ l.val # Bad THEN l.val ELSE c.MTime
  /\ d.Blocksize = IF l.key = "Blocksize" THEN l.val ELSE c.Blocksize
  /\ d.Length = IF l.key = "Length" THEN l.val ELSE c.Length
  /\ d.HashLengths = IF l.key = "Hash-Lengths" THEN l.val ELSE c.HashLengths
  /\ d.URLs = IF l.key = "URL" THEN Append(c.URLs, l.val) ELSE c.URLs
  /\ d.ZURLs = IF l.key = "Z-URL" THEN Append(c.ZURLs, l.val) ELSE c.ZURLs
  /\ d.FileHash = IF l.key = "File-Hash" THEN l.val.raw ELSE c.FileHash
  /\ d.HashAlgorithm = IF l.key = "Hash-Algorithm" THEN l.val
                       ELSE IF l.key = "File-Hash" THEN aligned(c, l.val.algo)
                       ELSE c.HashAlgorithm
  /\ d.Safe = IF l.key = "Safe" THEN l.val ELSE c.Safe
  /\ d.ZMap2Raw = IF l.key = "Z-Map2" THEN l.val ELSE c.ZMap2Raw
  /\ d.ZMap = IF l.key = "Z-Map2" THEN DecodeZMap2(l.val) ELSE c.ZMap
  /\ d.Format = c.Format /\ d.Blocks = c.Blocks

LEMMA LineApplied ==
  ASSUME NEW c \in ControlFiles, NEW l \in Lines, admits(c, l)
  PROVE  Applied(c, l, applyHeader(c, l))
<1>1. CASE l.key \in Texts
  <2>1. applyHeader(c, l) = [c EXCEPT !.text[l.key] = l.val]
    BY <1>1 DEF applyHeader, Texts
  <2>2. l.val \in Words \cup NoValue
    BY <1>1, AdmittedCarries
  <2>4. c.text \in [Texts -> Words \cup NoValue]
    BY DEF ControlFiles
  <2>5. [c.text EXCEPT ![l.key] = l.val] \in [Texts -> Words \cup NoValue]
    BY <1>1, <2>2, <2>4
  <2>6. [c EXCEPT !.text[l.key] = l.val] = [c EXCEPT !.text = [c.text EXCEPT ![l.key] = l.val]]
    BY DEF ControlFiles
  <2>3. l.key \notin {"MTime", "Blocksize", "Length", "Hash-Lengths", "URL", "Z-URL",
                      "File-Hash", "Hash-Algorithm", "Safe", "Z-Map2"}
    BY <1>1 DEF Texts
  <2>. QED BY <1>1, <2>1, <2>3, <2>5, <2>6 DEF Applied, ControlFiles
<1>2. CASE l.key = "Length"
  <2>1. applyHeader(c, l) = [c EXCEPT !.Length = l.val]
    BY <1>2 DEF applyHeader, Texts
  <2>2. l.val \in Int
    BY <1>2, AdmittedCarries
  <2>. QED BY <1>2, <2>1, <2>2 DEF Applied, ControlFiles, Texts
<1>3. CASE l.key = "Blocksize"
  <2>1. applyHeader(c, l) = [c EXCEPT !.Blocksize = l.val]
    BY <1>3 DEF applyHeader, Texts
  <2>2. l.val \in Int
    BY <1>3, AdmittedCarries
  <2>. QED BY <1>3, <2>1, <2>2 DEF Applied, ControlFiles, Texts
<1>4. CASE l.key = "Hash-Lengths"
  <2>1. applyHeader(c, l) = [c EXCEPT !.HashLengths = l.val]
    BY <1>4 DEF applyHeader, Texts
  <2>2. l.val \in HashLengths
    BY <1>4, AdmittedCarries
  <2>. QED BY <1>4, <2>1, <2>2 DEF Applied, ControlFiles, Texts
<1>5. CASE l.key \in {"URL", "Z-URL"}
  <2>1. applyHeader(c, l) = IF l.key = "URL" THEN [c EXCEPT !.URLs = Append(@, l.val)]
                                             ELSE [c EXCEPT !.ZURLs = Append(@, l.val)]
    BY <1>5 DEF applyHeader, Texts
  <2>2. l.val \in Words \cup NoValue
    BY <1>5, AdmittedCarries
  <2>3. c.URLs \in Seq(Words \cup NoValue) /\ c.ZURLs \in Seq(Words \cup NoValue)
    BY DEF ControlFiles
  <2>4. /\ Append(c.URLs, l.val) \in Seq(Words \cup NoValue)
        /\ Append(c.ZURLs, l.val) \in Seq(Words \cup NoValue)
    BY <2>2, <2>3, AppendProperties
  <2>. QED BY <1>5, <2>1, <2>4 DEF Applied, ControlFiles, Texts
<1>6. CASE l.key = "Hash-Algorithm"
  <2>1. applyHeader(c, l) = [c EXCEPT !.HashAlgorithm = l.val]
    BY <1>6 DEF applyHeader, Texts
  <2>2. l.val \in Algorithms
    BY <1>6, AdmittedCarries
  <2>. QED BY <1>6, <2>1, <2>2 DEF Applied, ControlFiles, Texts
<1>7. CASE l.key = "File-Hash"
  <2>1. applyHeader(c, l) = [c EXCEPT !.FileHash = l.val.raw,
                                      !.HashAlgorithm = aligned(c, l.val.algo)]
    BY <1>7 DEF applyHeader, Texts
  <2>2. l.val.raw \in Algorithms /\ aligned(c, l.val.algo) \in Algorithms
    BY <1>7, AdmittedCarries DEF aligned, Algorithms
  <2>. QED BY <1>7, <2>1, <2>2 DEF Applied, ControlFiles, Texts
<1>8. CASE l.key = "Safe"
  <2>1. applyHeader(c, l) = [c EXCEPT !.Safe = l.val]
    BY <1>8 DEF applyHeader, Texts
  <2>2. l.val \in SUBSET Words
    BY <1>8, AdmittedCarries
  <2>. QED BY <1>8, <2>1, <2>2 DEF Applied, ControlFiles, Texts
<1>9. CASE l.key = "MTime"
  <2>1. applyHeader(c, l) = IF l.val = Bad THEN c ELSE [c EXCEPT !.MTime = l.val]
    BY <1>9 DEF applyHeader, Texts
  <2>2. l.val \in Words \cup NoValue
    BY <1>9, AdmittedCarries
  <2>. QED BY <1>9, <2>1, <2>2 DEF Applied, ControlFiles, Texts
<1>10. CASE l.key = "Z-Map2"
  <2>1. applyHeader(c, l) = [c EXCEPT !.ZMap2Raw = l.val, !.ZMap = DecodeZMap2(l.val)]
    BY <1>10 DEF applyHeader, Texts
  <2>2. l.val \in Seq(WireEntries) /\ DecodeZMap2(l.val) \in Seq(ZMapEntries)
    BY <1>10, AdmittedCarries, DecodedType
  <2>. QED BY <1>10, <2>1, <2>2 DEF Applied, ControlFiles, Texts
<1>11. CASE l.key \notin Known
  <2>1. applyHeader(c, l) = c
    BY <1>11 DEF applyHeader, Known, Numbers
  <2>2. l.key \notin Texts \cup {"MTime", "Blocksize", "Length", "Hash-Lengths", "URL", "Z-URL",
                      "File-Hash", "Hash-Algorithm", "Safe", "Z-Map2"}
    BY <1>11 DEF Known, Numbers
  <2>. QED BY <2>1, <2>2 DEF Applied, ControlFiles
<1>12. l.key \notin Formats
  BY AdmittedCarries
<1>. QED BY <1>1, <1>2, <1>3, <1>4, <1>5, <1>6, <1>7, <1>8, <1>9, <1>10, <1>11, <1>12
     DEF Known, Numbers

LEMMA NotAppended ==
  ASSUME NEW S, NEW s \in Seq(S), NEW e \in S, NEW x, x \notin Range(s), e # x
  PROVE  x \notin Range(Append(s, e))
<1>1. /\ Append(s, e) \in Seq(S) /\ Len(Append(s, e)) = Len(s) + 1 /\ Len(s) \in Nat
      /\ \A i \in 1 .. Len(s) : Append(s, e)[i] = s[i]
      /\ Append(s, e)[Len(s) + 1] = e
  BY AppendProperties, LenProperties
<1>2. SUFFICES ASSUME x \in Range(Append(s, e)) PROVE FALSE
  OBVIOUS
<1>3. PICK i \in 1 .. Len(s) + 1 : Append(s, e)[i] = x
  <2>1. \E i \in 1 .. Len(Append(s, e)) : Append(s, e)[i] = x
    BY <1>1, <1>2, InRange
  <2>. QED BY <1>1, <2>1
<1>4. i \in 1 .. Len(s)
  BY <1>1, <1>3
<1>5. s[i] = x
  BY <1>1, <1>3, <1>4
<1>. QED BY <1>4, <1>5, InRange

LEMMA StaysWellformed ==
  ASSUME NEW c, Wellformed(c), NEW l \in Lines, admits(c, l),
         NEW d, d = applyHeader(c, l)
  PROVE  /\ Wellformed(d) /\ Applied(c, l, d)
         /\ NoEmpty(c) => NoEmpty(d)
<1>1. c \in ControlFiles
  BY DEF Wellformed
<1>2. Applied(c, l, d)
  BY <1>1, LineApplied
<1>3. /\ c.text \in [Texts -> Words \cup NoValue]
      /\ c.URLs \in Seq(Words \cup NoValue) /\ c.ZURLs \in Seq(Words \cup NoValue)
      /\ c.Format \in {"zsync", "zsync2"}
  BY <1>1 DEF ControlFiles, Formats
<1>4. d.Format = "zsync" => d.HashAlgorithm = "MD4" /\ d.FileHash = None
  BY <1>2, AdmittedCarries DEF Wellformed, Applied
<1>5. d.Format = "zsync2" => d.ZMap2Raw = << >>
  BY <1>2, AdmittedCarries DEF Wellformed, Applied
<1>7. d.MTime \notin NoValue
  <2>1. l.val # Empty /\ c.MTime \notin NoValue
    BY AdmittedCarries DEF Wellformed
  <2>2. d.MTime = IF l.key = "MTime" /\ l.val # Bad THEN l.val ELSE c.MTime
    BY <1>2 DEF Applied
  <2>. QED BY <2>1, <2>2 DEF NoValue
<1>8. l.key \in {"URL", "Z-URL"} => l.val \in Words \cup NoValue /\ l.val # Empty
  BY AdmittedCarries
<1>9. ASSUME NoEmpty(c) PROVE NoEmpty(d)
  <2>1. d.ZURLs = IF l.key = "Z-URL" THEN Append(c.ZURLs, l.val) ELSE c.ZURLs
    BY <1>2 DEF Applied
  <2>2. d.URLs = IF l.key = "URL" THEN Append(c.URLs, l.val) ELSE c.URLs
    BY <1>2 DEF Applied
  <2>3. d.text = IF l.key \in Texts THEN [c.text EXCEPT ![l.key] = l.val] ELSE c.text
    BY <1>2 DEF Applied
  <2>4. l.val # Empty
    BY AdmittedCarries
  <2>5. \A k \in Texts : d.text[k] # Empty
    BY <1>3, <1>9, <2>3, <2>4 DEF NoEmpty
  <2>6. Empty \notin Range(d.URLs)
    BY <1>3, <1>8, <1>9, <2>2, NotAppended DEF NoEmpty
  <2>7. Empty \notin Range(d.ZURLs)
    BY <1>3, <1>8, <1>9, <2>1, NotAppended DEF NoEmpty
  <2>. QED BY <2>5, <2>6, <2>7 DEF NoEmpty
<1>10. d \in ControlFiles
  BY <1>2 DEF Applied
<1>. QED BY <1>2, <1>4, <1>5, <1>7, <1>9, <1>10 DEF Wellformed

-----------------------------------------------------------------------------
(***************************************************************************)
(* Reading what Write made: every line that has a value is admitted, and   *)
(* has its effect.                                                         *)
(***************************************************************************)
LEMMA LinesOfFile ==
  ASSUME NEW c, Wellformed(c), NEW l \in FrontLines(c) \cup BackLines(c)
  PROVE  /\ l \in Lines
         /\ l.key \in Texts => /\ l.key # "Z-Filename" /\ l.val = c.text[l.key]
                               /\ c.text[l.key] # None
         /\ l.key = "MTime" => l.val = c.MTime
         /\ l.key = "Blocksize" => l.val = c.Blocksize
         /\ l.key = "Length" => l.val = c.Length
         /\ l.key = "Hash-Lengths" => l.val = c.HashLengths
         /\ l.key = "Hash-Algorithm" => l.val = c.HashAlgorithm /\ c.Format = "zsync2"
         /\ l.key = "File-Hash" => /\ l.val = [algo |-> c.HashAlgorithm, raw |-> c.FileHash]
                                   /\ c.Format = "zsync2" /\ c.FileHash # None
         /\ l.key = "Z-Map2" => l.val = c.ZMap2Raw /\ c.ZMap2Raw # << >>
         /\ l.key \in Texts \cup {"MTime", "Blocksize", "Length", "Hash-Lengths",
                                  "Hash-Algorithm", "File-Hash", "Z-Map2"}
<1>1. c \in ControlFiles
  BY DEF Wellformed
<1> DEFINE K == {"Min-Version", "Filename", "SHA-1", "Recompress"}
<1>2. \/ \E k \in K : l = Line(k, c.text[k]) /\ c.text[k] # None
      \/ l = Line("MTime", c.MTime)
      \/ l = Line("Blocksize", c.Blocksize)
      \/ l = Line("Length", c.Length)
      \/ l = Line("Hash-Lengths", c.HashLengths)
      \/ l = Line("Hash-Algorithm", c.HashAlgorithm) /\ c.Format = "zsync2"
      \/ l = Line("File-Hash", [algo |-> c.HashAlgorithm, raw |-> c.FileHash])
           /\ c.Format = "zsync2" /\ c.FileHash # None
      \/ l = Line("Z-Map2", c.ZMap2Raw) /\ c.ZMap2Raw # << >>
  <2>1. \A k \in K : l \in TextLine(c, k) => l = Line(k, c.text[k]) /\ c.text[k] # None
    BY DEF TextLine
  <2>. QED BY <2>1 DEF FrontLines, BackLines
<1>3. l \in Lines
  BY <1>1, <1>2, FileLines DEF Texts
<1>4. CASE \E k \in K : l = Line(k, c.text[k]) /\ c.text[k] # None
  <2>1. PICK k \in K : l = Line(k, c.text[k]) /\ c.text[k] # None
    BY <1>4
  <2>2. l.key = k /\ l.val = c.text[k]
    BY <2>1 DEF Line
  <2>. QED BY <1>3, <2>1, <2>2 DEF Texts
<1>5. CASE l = Line("MTime", c.MTime)
  BY <1>3, <1>5 DEF Line, Texts
<1>6. CASE l = Line("Blocksize", c.Blocksize)
  BY <1>3, <1>6 DEF Line, Texts
<1>7. CASE l = Line("Length", c.Length)
  BY <1>3, <1>7 DEF Line, Texts
<1>8. CASE l = Line("Hash-Lengths", c.HashLengths)
  BY <1>3, <1>8 DEF Line, Texts
<1>9. CASE l = Line("Hash-Algorithm", c.HashAlgorithm) /\ c.Format = "zsync2"
  BY <1>3, <1>9 DEF Line, Texts
<1>10. CASE l = Line("File-Hash", [algo |-> c.HashAlgorithm, raw |-> c.FileHash])
              /\ c.Format = "zsync2" /\ c.FileHash # None
  BY <1>3, <1>10 DEF Line, Texts
<1>11. CASE l = Line("Z-Map2", c.ZMap2Raw) /\ c.ZMap2Raw # << >>
  BY <1>3, <1>11 DEF Line, Texts
<1>. QED BY <1>2, <1>4, <1>5, <1>6, <1>7, <1>8, <1>9, <1>10, <1>11

LEMMA FileLineAdmitted ==
  ASSUME NEW c, Wellformed(c), VerifyFileHash(c), NEW d, d.Format = c.Format,
         NEW l \in FrontLines(c) \cup BackLines(c), l.val # Empty
  PROVE  admits(d, l)
<1>1. c \in ControlFiles
  BY DEF Wellformed
<1>2. /\ c.text \in [Texts -> Words \cup NoValue] /\ c.Blocksize \in Int /\ c.Length \in Int
      /\ c.HashLengths \in HashLengths /\ c.HashAlgorithm \in Algorithms
      /\ c.FileHash \in Algorithms \cup {None} /\ c.ZMap2Raw \in Seq(WireEntries)
      /\ c.Format \in Formats
  BY <1>1 DEF ControlFiles
<1>3. \A v \in NoValue : v \notin Int /\ v \notin HashLengths /\ v \notin FileHashes
        /\ v \notin Seq(WireEntries) /\ v \notin Algorithms
  BY ValueAssumption DEF NoValue, Words
<1>4. l.key \in Texts \cup {"MTime", "Blocksize", "Length", "Hash-Lengths",
                            "Hash-Algorithm", "File-Hash", "Z-Map2"}
  BY LinesOfFile
<1>5. CASE l.key \in Texts
  BY <1>5 DEF admits, Texts, Numbers, Formats, Known
<1>6. CASE l.key = "MTime"
  <2>1. l.val = c.MTime /\ c.MTime # Empty
    BY <1>6, LinesOfFile DEF Wellformed, NoValue
  <2>. QED BY <1>6, <2>1 DEF admits, Numbers, Formats, Known
<1>7. CASE l.key \in {"Blocksize", "Length", "Hash-Lengths"}
  <2>1. l.val \in Int \cup HashLengths
    BY <1>2, <1>7, LinesOfFile
  <2>2. l.val # Bad /\ l.val # Empty
    BY <1>3, <2>1 DEF NoValue
  <2>. QED BY <1>7, <2>2 DEF admits, Numbers, Formats, Known
<1>8. CASE l.key = "Hash-Algorithm"
  <2>1. l.val \in Algorithms /\ d.Format = "zsync2"
    BY <1>2, <1>8, LinesOfFile
  <2>2. l.val # Bad /\ l.val # Empty
    BY <1>3, <2>1 DEF NoValue
  <2>. QED BY <1>8, <2>1, <2>2 DEF admits, Numbers, Formats, Known
<1>9. CASE l.key = "File-Hash"
  <2>1. /\ l.val = [algo |-> c.HashAlgorithm, raw |-> c.FileHash]
        /\ d.Format = "zsync2" /\ c.FileHash # None
    BY <1>9, LinesOfFile
  <2>2. l.val \in FileHashes
    BY <1>2, <2>1 DEF FileHashes, Words
  <2>3. l.val # Bad /\ l.val # Empty
    BY <1>3, <2>2 DEF NoValue
  <2>4. l.val.algo \in Algorithms /\ l.val.raw = l.val.algo
    BY <1>2, <2>1 DEF VerifyFileHash
  <2>. QED BY <1>9, <2>1, <2>3, <2>4 DEF admits, Numbers, Formats, Known
<1>10. CASE l.key = "Z-Map2"
  <2>1. l.val = c.ZMap2Raw /\ c.ZMap2Raw # << >>
    BY <1>10, LinesOfFile
  <2>2. l.val # Bad /\ l.val # Empty
    BY <1>2, <1>3, <2>1 DEF NoValue
  <2>3. d.Format = "zsync"
    BY <1>2, <2>1 DEF Wellformed, Formats
  <2>. QED BY <1>10, <2>2, <2>3 DEF admits, Numbers, Formats, Known
<1>. QED BY <1>4, <1>5, <1>6, <1>7, <1>8, <1>9, <1>10

LEMMA URLAdmitted ==
  ASSUME NEW d, NEW k \in {"URL", "Z-URL"}, NEW v, v # Empty
  PROVE  admits(d, Line(k, v))
BY DEF admits, Line, Numbers, Formats, Known

\* A further line of the file leaves what the others did.
LEMMA EffectsStay ==
  ASSUME NEW c, Wellformed(c), NEW d \in ControlFiles, NEW e,
         NEW l, Applied(d, l, e), NEW m \in FrontLines(c) \cup BackLines(c), HasCome(d, m),
         l \in FrontLines(c) \cup BackLines(c) \/ l.key \in {"URL", "Z-URL"}
  PROVE  HasCome(e, m)
<1>1. m.key \in Texts \cup {"MTime", "Blocksize", "Length", "Hash-Lengths",
                            "Hash-Algorithm", "File-Hash", "Z-Map2"}
  BY LinesOfFile
<1>2. CASE m.key \in Texts
  <2>1. m.val = c.text[m.key] /\ (l.key = m.key => l.val = c.text[m.key])
    <3>1. m.val = c.text[m.key] /\ m.key \notin {"URL", "Z-URL"}
      BY <1>2, LinesOfFile DEF Texts
    <3>2. ASSUME l.key = m.key PROVE l.val = c.text[m.key]
      <4>1. l \in FrontLines(c) \cup BackLines(c)
        BY <3>1, <3>2
      <4>2. l.key \in Texts => l.val = c.text[l.key]
        BY <4>1, LinesOfFile
      <4>. QED BY <1>2, <3>2, <4>2
    <3>. QED BY <3>1, <3>2
  <2>2. d.text \in [Texts -> Words \cup NoValue] /\ d.text[m.key] = m.val
    BY <1>2 DEF ControlFiles, HasCome, Texts
  <2>3. e.text = IF l.key \in Texts THEN [d.text EXCEPT ![l.key] = l.val] ELSE d.text
    BY DEF Applied
  <2>4. e.text[m.key] = m.val
    BY <1>2, <2>1, <2>2, <2>3
  <2>. QED BY <1>2, <2>4 DEF HasCome, Texts
<1>3. CASE m.key = "MTime"
  <2>1. m.val = c.MTime /\ (l.key = "MTime" => l.val = c.MTime)
    BY <1>3, LinesOfFile
  <2>2. d.MTime = m.val
    BY <1>3 DEF HasCome, Texts
  <2>3. e.MTime = m.val
    BY <2>1, <2>2 DEF Applied
  <2>. QED BY <1>3, <2>3 DEF HasCome, Texts
<1>4. CASE m.key = "Blocksize"
  <2>1. m.val = c.Blocksize /\ (l.key = "Blocksize" => l.val = c.Blocksize)
    BY <1>4, LinesOfFile
  <2>2. d.Blocksize = m.val
    BY <1>4 DEF HasCome, Texts
  <2>3. e.Blocksize = m.val
    BY <2>1, <2>2 DEF Applied
  <2>. QED BY <1>4, <2>3 DEF HasCome, Texts
<1>5. CASE m.key = "Length"
  <2>1. m.val = c.Length /\ (l.key = "Length" => l.val = c.Length)
    BY <1>5, LinesOfFile
  <2>2. d.Length = m.val
    BY <1>5 DEF HasCome, Texts
  <2>3. e.Length = m.val
    BY <2>1, <2>2 DEF Applied
  <2>. QED BY <1>5, <2>3 DEF HasCome, Texts
<1>6. CASE m.key = "Hash-Lengths"
  <2>1. m.val = c.HashLengths /\ (l.key = "Hash-Lengths" => l.val = c.HashLengths)
    BY <1>6, LinesOfFile
  <2>2. d.HashLengths = m.val
    BY <1>6 DEF HasCome, Texts
  <2>3. e.HashLengths = m.val
    BY <2>1, <2>2 DEF Applied
  <2>. QED BY <1>6, <2>3 DEF HasCome, Texts
<1>7. CASE m.key = "Hash-Algorithm"
  <2>1. /\ m.val = c.HashAlgorithm /\ (l.key = "Hash-Algorithm" => l.val = c.HashAlgorithm)
        /\ l.key = "File-Hash" => l.val = [algo |-> c.HashAlgorithm, raw |-> c.FileHash]
    BY <1>7, LinesOfFile
  <2>2. d.HashAlgorithm = m.val
    BY <1>7 DEF HasCome, Texts
  <2>3. l.key = "File-Hash" => aligned(d, l.val.algo) = m.val
    BY <2>1, <2>2 DEF aligned
  <2>4. e.HashAlgorithm = m.val
    BY <2>1, <2>2, <2>3 DEF Applied
  <2>. QED BY <1>7, <2>4 DEF HasCome, Texts
<1>8. CASE m.key = "File-Hash"
  <2>1. /\ m.val = [algo |-> c.HashAlgorithm, raw |-> c.FileHash]
        /\ l.key = "File-Hash" => l.val = [algo |-> c.HashAlgorithm, raw |-> c.FileHash]
    BY <1>8, LinesOfFile
  <2>2. d.FileHash = m.val.raw
    BY <1>8 DEF HasCome, Texts
  <2>3. e.FileHash = m.val.raw
    BY <2>1, <2>2 DEF Applied
  <2>. QED BY <1>8, <2>3 DEF HasCome, Texts
<1>9. CASE m.key = "Z-Map2"
  <2>1. m.val = c.ZMap2Raw /\ (l.key = "Z-Map2" => l.val = c.ZMap2Raw)
    BY <1>9, LinesOfFile
  <2>2. d.ZMap2Raw = m.val
    BY <1>9 DEF HasCome, Texts
  <2>3. e.ZMap2Raw = m.val
    BY <2>1, <2>2 DEF Applied
  <2>. QED BY <1>9, <2>3 DEF HasCome, Texts
<1>. QED BY <1>1, <1>2, <1>3, <1>4, <1>5, <1>6, <1>7, <1>8, <1>9

LEMMA EffectComes ==
  ASSUME NEW c, Wellformed(c), NEW d \in ControlFiles, NEW e,
         NEW l \in FrontLines(c) \cup BackLines(c), Applied(d, l, e)
  PROVE  HasCome(e, l)
<1>1. l.key \in Texts \cup {"MTime", "Blocksize", "Length", "Hash-Lengths",
                            "Hash-Algorithm", "File-Hash", "Z-Map2"}
  BY LinesOfFile
<1>2. CASE l.key \in Texts
  <2>1. d.text \in [Texts -> Words \cup NoValue]
    BY DEF ControlFiles
  <2>2. e.text = [d.text EXCEPT ![l.key] = l.val]
    BY <1>2 DEF Applied
  <2>3. e.text[l.key] = l.val
    BY <1>2, <2>1, <2>2
  <2>. QED BY <1>2, <2>3 DEF HasCome, Texts
<1>3. CASE l.key = "MTime"
  <2>1. l.val = c.MTime /\ c.MTime # Bad
    BY <1>3, LinesOfFile DEF Wellformed, NoValue
  <2>2. e.MTime = l.val
    BY <1>3, <2>1 DEF Applied
  <2>. QED BY <1>3, <2>2 DEF HasCome, Texts
<1>4. CASE l.key \in {"Blocksize", "Length", "Hash-Lengths"}
  BY <1>4 DEF HasCome, Texts, Applied
<1>5. CASE l.key \in {"Hash-Algorithm", "File-Hash", "Z-Map2"}
  BY <1>5 DEF HasCome, Texts, Applied
<1>. QED BY <1>1, <1>2, <1>3, <1>4, <1>5

LEMMA TakenSame ==
  ASSUME NEW us, NEW S, NEW vals \in Seq(S), NEW m \in Int, IsTaken(us, m, vals),
         m + 1 <= 0 \/ m >= Len(vals)
  PROVE  IsTaken(us, m + 1, vals)
<1>1. Len(vals) \in Nat
  BY LenProperties
<1>. QED BY <1>1 DEF IsTaken

LEMMA TakenMore ==
  ASSUME NEW S, NEW us \in Seq(S), NEW vals \in Seq(S), NEW i \in 1 .. Len(vals),
         IsTaken(us, i - 1, vals)
  PROVE  IsTaken(Append(us, vals[i]), i, vals)
<1>1. Len(vals) \in Nat /\ vals[i] \in S
  BY LenProperties, ElementOfSeq
<1>2. Len(us) = i - 1 /\ \A k \in 1 .. Len(us) : us[k] = vals[k]
  BY <1>1 DEF IsTaken
<1> DEFINE ws == Append(us, vals[i])
<1>3. /\ Len(ws) = Len(us) + 1 /\ ws[Len(us) + 1] = vals[i]
      /\ \A k \in 1 .. Len(us) : ws[k] = us[k]
  BY <1>1, AppendProperties
<1>. HIDE DEF ws
<1>4. Len(ws) = i /\ ws[i] = vals[i]
  BY <1>2, <1>3
<1>5. \A k \in 1 .. i : ws[k] = vals[k]
  <2>. TAKE k \in 1 .. i
  <2>1. k = i \/ k \in 1 .. Len(us)
    BY <1>2
  <2>. QED BY <1>2, <1>3, <1>4, <2>1
<1>6. IsTaken(ws, i, vals)
  BY <1>1, <1>4, <1>5 DEF IsTaken
<1>. QED BY <1>6 DEF ws

\* The lines of a header after the first, and how many URLs came before them.
LEMMA LinePlace ==
  ASSUME NEW c \in ControlFiles, NEW n \in 2 .. Len(Header(c)), NEW l, l = Header(c)[n]
  PROVE  \/ /\ l \in FrontLines(c) \cup BackLines(c)
            /\ n - URLsFrom(c) <= 0 \/ n - 1 - URLsFrom(c) >= Len(c.URLs)
            /\ n - ZURLsFrom(c) <= 0 \/ n - 1 - ZURLsFrom(c) >= Len(c.ZURLs)
         \/ \E i \in 1 .. Len(c.URLs) :
              /\ l = Line("URL", c.URLs[i])
              /\ n - URLsFrom(c) = i /\ n - ZURLsFrom(c) <= 0
         \/ \E i \in 1 .. Len(c.ZURLs) :
              /\ l = Line("Z-URL", c.ZURLs[i])
              /\ n - ZURLsFrom(c) = i /\ n - 1 - URLsFrom(c) >= Len(c.URLs)
<1> DEFINE p == URLsFrom(c)
           q == ZURLsFrom(c)
           u == Len(c.URLs)
           z == Len(c.ZURLs)
           h == Header(c)
<1>1. /\ Len(h) \in Nat /\ p \in Nat /\ p >= 1 /\ u \in Nat /\ z \in Nat /\ q = p + u
      /\ \A j \in 2 .. p : h[j] \in FrontLines(c)
      /\ \A i \in 1 .. u : h[p + i] = Line("URL", c.URLs[i])
      /\ \A i \in 1 .. z : h[q + i] = Line("Z-URL", c.ZURLs[i])
      /\ \A j \in q + z + 1 .. Len(h) : h[j] \in BackLines(c)
  BY HeaderPlaces
<1>. HIDE DEF p, q, u, z, h
<1>2. n \in Nat /\ n >= 2 /\ n <= Len(h) /\ l = h[n]
  BY <1>1 DEF h
<1>3. CASE n <= p
  <2>1. n \in 2 .. p
    BY <1>1, <1>2, <1>3
  <2>2. n - p <= 0 /\ n - q <= 0
    BY <1>1, <1>2, <1>3
  <2>. QED BY <1>1, <1>2, <2>1, <2>2 DEF p, q
<1>4. CASE p < n /\ n <= q
  <2>1. n - p \in 1 .. u /\ p + (n - p) = n /\ n - q <= 0
    BY <1>1, <1>2, <1>4
  <2>2. l = Line("URL", c.URLs[n - p])
    BY <1>1, <1>2, <2>1
  <2>. QED BY <2>1, <2>2 DEF p, q, u
<1>5. CASE q < n /\ n <= q + z
  <2>1. n - q \in 1 .. z /\ q + (n - q) = n /\ n - 1 - p >= u
    BY <1>1, <1>2, <1>5
  <2>2. l = Line("Z-URL", c.ZURLs[n - q])
    BY <1>1, <1>2, <2>1
  <2>. QED BY <2>1, <2>2 DEF p, q, u, z
<1>6. CASE q + z < n
  <2>1. n \in q + z + 1 .. Len(h)
    BY <1>1, <1>2, <1>6
  <2>2. n - 1 - p >= u /\ n - 1 - q >= z
    BY <1>1, <1>2, <1>6
  <2>. QED BY <1>1, <1>2, <2>1, <2>2 DEF p, q, u, z
<1>. QED BY <1>1, <1>2, <1>3, <1>4, <1>5, <1>6

(***************************************************************************)
(* One more line.                                                          *)
(***************************************************************************)
LEMMA SoFarStep ==
  ASSUME NEW c, Writable(c), NEW d \in ControlFiles, NEW n \in 2 .. Len(Header(c)),
         SoFar(c, d, n), NEW l, l = Header(c)[n], NEW e, e = applyHeader(d, l),
         admits(d, l)
  PROVE  SoFar(c, e, n + 1)
<1>0. Wellformed(c) /\ c \in ControlFiles
  BY DEF Writable, Wellformed
<1>1. Header(c) \in Seq(Lines) /\ Len(Header(c)) \in Nat /\ URLsFrom(c) \in Nat
        /\ ZURLsFrom(c) \in Nat /\ Len(c.URLs) \in Nat /\ Len(c.ZURLs) \in Nat
  BY <1>0, HeaderPlaces
<1>2. n \in Nat /\ n \in 1 .. Len(Header(c)) /\ n + 1 \in 2 .. Len(Header(c)) + 1 /\ (n + 1) - 1 = n
  BY <1>1
<1>3. l \in Lines
  BY <1>1, <1>2, ElementOfSeq
<1>4. Applied(d, l, e)
  BY <1>3, LineApplied
<1> DEFINE F == FrontLines(c) \cup BackLines(c)
<1>5. l \in F \/ l.key \in {"URL", "Z-URL"}
  BY <1>0, LinePlace DEF Line
<1>6. \A j \in 2 .. n : HasCome(e, Header(c)[j])
  <2>. TAKE j \in 2 .. n
  <2> DEFINE m == Header(c)[j]
  <2>1. j \in 2 .. Len(Header(c))
    BY <1>1, <1>2
  <2>2. m \in F \/ m.key \in {"URL", "Z-URL"}
    BY <1>0, <2>1, LinePlace DEF Line
  <2>3. CASE m.key \in {"URL", "Z-URL"}
    BY <2>3 DEF HasCome, Texts
  <2>4. CASE m \in F /\ j = n
    BY <1>0, <1>4, <2>4, EffectComes
  <2>5. CASE m \in F /\ j # n
    <3>1. j \in 2 .. n - 1
      BY <1>2, <2>5
    <3>2. HasCome(d, m)
      BY <3>1 DEF SoFar
    <3>. HIDE DEF m, F
    <3>3. m \in FrontLines(c) \cup BackLines(c)
            /\ (l \in FrontLines(c) \cup BackLines(c) \/ l.key \in {"URL", "Z-URL"})
      BY <1>5, <2>5 DEF F
    <3>4. HasCome(e, m)
      BY <1>0, <1>4, <3>2, <3>3, EffectsStay
    <3>. QED BY <3>4 DEF m
  <2>. QED BY <2>2, <2>3, <2>4, <2>5
<1>7. IsTaken(e.URLs, n - URLsFrom(c), c.URLs) /\ IsTaken(e.ZURLs, n - ZURLsFrom(c), c.ZURLs)
  <2>1. /\ d.URLs \in Seq(Words \cup NoValue) /\ d.ZURLs \in Seq(Words \cup NoValue)
        /\ c.URLs \in Seq(Words \cup NoValue) /\ c.ZURLs \in Seq(Words \cup NoValue)
    BY <1>0 DEF ControlFiles
  <2>2. /\ e.URLs = IF l.key = "URL" THEN Append(d.URLs, l.val) ELSE d.URLs
        /\ e.ZURLs = IF l.key = "Z-URL" THEN Append(d.ZURLs, l.val) ELSE d.ZURLs
    BY <1>4 DEF Applied
  <2> DEFINE a == n - 1 - URLsFrom(c)
             b == n - 1 - ZURLsFrom(c)
  <2>3. a \in Int /\ b \in Int /\ a + 1 = n - URLsFrom(c) /\ b + 1 = n - ZURLsFrom(c)
    BY <1>1, <1>2
  <2>4. IsTaken(d.URLs, a, c.URLs) /\ IsTaken(d.ZURLs, b, c.ZURLs)
    BY DEF SoFar
  <2>. HIDE DEF a, b
  <2>5. CASE /\ l \in F
             /\ n - URLsFrom(c) <= 0 \/ n - 1 - URLsFrom(c) >= Len(c.URLs)
             /\ n - ZURLsFrom(c) <= 0 \/ n - 1 - ZURLsFrom(c) >= Len(c.ZURLs)
    <3>1. l.key \notin {"URL", "Z-URL"}
      BY <1>0, <2>5, LinesOfFile DEF Texts
    <3>2. e.URLs = d.URLs /\ e.ZURLs = d.ZURLs
      BY <2>2, <3>1
    <3>3. (a + 1 <= 0 \/ a >= Len(c.URLs)) /\ (b + 1 <= 0 \/ b >= Len(c.ZURLs))
      BY <2>3, <2>5 DEF a, b
    <3>. QED BY <2>1, <2>3, <2>4, <3>2, <3>3, TakenSame
  <2>6. ASSUME NEW i \in 1 .. Len(c.URLs), l = Line("URL", c.URLs[i]),
               n - URLsFrom(c) = i, n - ZURLsFrom(c) <= 0
        PROVE  IsTaken(e.URLs, n - URLsFrom(c), c.URLs)
                 /\ IsTaken(e.ZURLs, n - ZURLsFrom(c), c.ZURLs)
    <3>1. e.URLs = Append(d.URLs, c.URLs[i]) /\ e.ZURLs = d.ZURLs
      BY <2>2, <2>6 DEF Line
    <3>2. a = i - 1 /\ b + 1 <= 0
      BY <1>1, <1>2, <2>3, <2>6
    <3>3. IsTaken(e.URLs, i, c.URLs)
      BY <2>1, <2>4, <3>1, <3>2, TakenMore
    <3>4. IsTaken(e.ZURLs, b + 1, c.ZURLs)
      BY <2>1, <2>3, <2>4, <3>1, <3>2, TakenSame
    <3>. QED BY <2>3, <2>6, <3>3, <3>4
  <2>7. ASSUME NEW i \in 1 .. Len(c.ZURLs), l = Line("Z-URL", c.ZURLs[i]),
               n - ZURLsFrom(c) = i, n - 1 - URLsFrom(c) >= Len(c.URLs)
        PROVE  IsTaken(e.URLs, n - URLsFrom(c), c.URLs)
                 /\ IsTaken(e.ZURLs, n - ZURLsFrom(c), c.ZURLs)
    <3>1. e.ZURLs = Append(d.ZURLs, c.ZURLs[i]) /\ e.URLs = d.URLs
      BY <2>2, <2>7 DEF Line
    <3>2. b = i - 1 /\ a >= Len(c.URLs)
      BY <1>1, <1>2, <2>3, <2>7 DEF a
    <3>3. IsTaken(e.ZURLs, i, c.ZURLs)
      BY <2>1, <2>4, <3>1, <3>2, TakenMore
    <3>4. IsTaken(e.URLs, a + 1, c.URLs)
      BY <2>1, <2>3, <2>4, <3>1, <3>2, TakenSame
    <3>. QED BY <2>3, <2>7, <3>3, <3>4
  <2>. QED BY <1>0, <2>5, <2>6, <2>7, LinePlace
<1>8. \A k \in Texts : e.text[k] \in {None, Kept(c).text[k]}
  <2>1. /\ d.text \in [Texts -> Words \cup NoValue] /\ c.text \in [Texts -> Words \cup NoValue]
    BY <1>0 DEF ControlFiles
  <2>2. \A k \in Texts : Kept(c).text[k] = IF k = "Z-Filename" THEN None ELSE c.text[k]
    BY <1>0, <2>1 DEF Kept, ControlFiles
  <2>3. e.text = IF l.key \in Texts THEN [d.text EXCEPT ![l.key] = l.val] ELSE d.text
    BY <1>4 DEF Applied
  <2>4. l.key \in Texts => l.key # "Z-Filename" /\ l.val = c.text[l.key]
    BY <1>0, <1>5, LinesOfFile DEF Texts
  <2>5. \A k \in Texts : d.text[k] \in {None, Kept(c).text[k]}
    BY DEF SoFar
  <2>. QED BY <2>1, <2>2, <2>3, <2>4, <2>5
<1>9. e.MTime \in {None, c.MTime}
  <2>1. l.key = "MTime" => l.val = c.MTime
    BY <1>0, <1>5, LinesOfFile
  <2>2. d.MTime \in {None, c.MTime}
    BY DEF SoFar
  <2>. QED BY <1>4, <2>1, <2>2 DEF Applied
<1>10. e.Format = c.Format /\ e.Blocks = 0 /\ e.Safe = {}
  <2>1. l.key # "Safe"
    BY <1>0, <1>5, LinesOfFile DEF Texts
  <2>. QED BY <1>4, <2>1 DEF Applied, SoFar
<1>11. /\ e.HashAlgorithm \in {c.HashAlgorithm, IF c.Format = "zsync" THEN "MD4" ELSE "BLAKE3"}
       /\ e.FileHash \in {None, c.FileHash}
  <2>1. l.key = "Hash-Algorithm" => l.val = c.HashAlgorithm
    BY <1>0, <1>5, LinesOfFile
  <2>2. l.key = "File-Hash" => /\ l.val = [algo |-> c.HashAlgorithm, raw |-> c.FileHash]
                               /\ c.Format = "zsync2"
    BY <1>0, <1>5, LinesOfFile
  <2>3. /\ d.HashAlgorithm \in {c.HashAlgorithm, IF c.Format = "zsync" THEN "MD4" ELSE "BLAKE3"}
        /\ d.FileHash \in {None, c.FileHash}
    BY DEF SoFar
  <2>4. l.key = "File-Hash" => aligned(d, l.val.algo) \in {c.HashAlgorithm, "BLAKE3"}
    BY <2>2 DEF aligned
  <2>. QED BY <1>4, <2>1, <2>2, <2>3, <2>4 DEF Applied
<1>12. e.ZMap2Raw \in {<< >>, c.ZMap2Raw} /\ e.ZMap = DecodeZMap2(e.ZMap2Raw)
  <2>1. l.key = "Z-Map2" => l.val = c.ZMap2Raw
    BY <1>0, <1>5, LinesOfFile
  <2>2. d.ZMap2Raw \in {<< >>, c.ZMap2Raw} /\ d.ZMap = DecodeZMap2(d.ZMap2Raw)
    BY DEF SoFar
  <2>. QED BY <1>4, <2>1, <2>2 DEF Applied
<1>. HIDE DEF F
<1>. QED BY <1>2, <1>6, <1>7, <1>8, <1>9, <1>10, <1>11, <1>12 DEF SoFar

-----------------------------------------------------------------------------
(***************************************************************************)
(* The first line, and the end of the header.                              *)
(***************************************************************************)
LEMMA DefaultsWellformed ==
  Wellformed(Defaults) /\ Defaults \in ControlFiles /\ NoEmpty(Defaults)
<1>1. Range(<< >>) = {}
  BY DEF Range
<1>2. /\ << >> \in Seq(Words \cup NoValue) /\ << >> \in Seq(WireEntries)
      /\ << >> \in Seq(ZMapEntries)
  BY EmptySeq
<1>3. None \in Words /\ None \notin NoValue
  BY ValueAssumption DEF Words, NoValue
<1>4. [SeqMatches |-> 1, RsumBytes |-> 4, ChecksumBytes |-> 16] \in HashLengths
  BY DEF HashLengths
<1>5. [k \in Texts |-> None] \in [Texts -> Words \cup NoValue]
  BY <1>3
<1>6. Defaults \in ControlFiles
  <2>. HIDE DEF None
  <2>. QED BY <1>2, <1>3, <1>4, <1>5 DEF Defaults, ControlFiles, Formats, Algorithms
<1>7. \A k \in Texts : Defaults.text[k] = None
  BY DEF Defaults
<1>8. /\ Defaults.Format = "zsync" /\ Defaults.HashAlgorithm = "MD4" /\ Defaults.FileHash = None
      /\ Defaults.MTime = None /\ Defaults.URLs = << >> /\ Defaults.ZURLs = << >>
  BY DEF Defaults
<1>9. None # Empty
  BY <1>3 DEF NoValue
<1>. QED BY <1>1, <1>3, <1>6, <1>7, <1>8, <1>9 DEF Wellformed, NoEmpty

LEMMA MagicWellformed ==
  ASSUME NEW k \in Formats, NEW d,
         d = [Defaults EXCEPT !.Format = k,
                              !.HashAlgorithm = IF k = "zsync" THEN "MD4" ELSE "BLAKE3"]
  PROVE  /\ Wellformed(d) /\ NoEmpty(d) /\ d.Format = k
         /\ d.HashAlgorithm = IF k = "zsync" THEN "MD4" ELSE "BLAKE3"
         /\ d.text = Defaults.text /\ d.MTime = None /\ d.FileHash = None
         /\ d.URLs = << >> /\ d.ZURLs = << >> /\ d.Safe = {} /\ d.Blocks = 0
         /\ d.ZMap2Raw = << >> /\ d.ZMap = << >>
<1>1. /\ d.Format = k /\ d.HashAlgorithm = IF k = "zsync" THEN "MD4" ELSE "BLAKE3"
      /\ d.text = Defaults.text /\ d.MTime = None /\ d.FileHash = None
      /\ d.URLs = << >> /\ d.ZURLs = << >> /\ d.Safe = {} /\ d.Blocks = 0
      /\ d.ZMap2Raw = << >> /\ d.ZMap = << >>
  BY DEF Defaults
<1>2. d \in ControlFiles
  <2>1. (IF k = "zsync" THEN "MD4" ELSE "BLAKE3") \in Algorithms
    BY DEF Algorithms
  <2>. QED BY <2>1, DefaultsWellformed DEF ControlFiles
<1>3. /\ \A t \in Texts : Defaults.text[t] # Empty
      /\ None \notin NoValue /\ Empty \notin Range(<< >>)
  BY DefaultsWellformed DEF Wellformed, NoEmpty, Defaults
<1>. QED BY <1>1, <1>2, <1>3 DEF Wellformed, NoEmpty, Formats

LEMMA SoFarStart ==
  ASSUME NEW c, Writable(c), NEW d,
         d = [Defaults EXCEPT !.Format = c.Format,
                              !.HashAlgorithm = IF c.Format = "zsync" THEN "MD4" ELSE "BLAKE3"]
  PROVE  SoFar(c, d, 2)
<1>0. Wellformed(c) /\ c \in ControlFiles /\ c.Format \in Formats
  BY DEF Writable, Wellformed, ControlFiles
<1>1. /\ d.Format = c.Format
      /\ d.HashAlgorithm = IF c.Format = "zsync" THEN "MD4" ELSE "BLAKE3"
      /\ d.text = Defaults.text /\ d.MTime = None /\ d.FileHash = None
      /\ d.URLs = << >> /\ d.ZURLs = << >> /\ d.Safe = {} /\ d.Blocks = 0
      /\ d.ZMap2Raw = << >> /\ d.ZMap = << >>
  BY <1>0 DEF Defaults
<1>2. /\ Len(Header(c)) \in Nat /\ URLsFrom(c) \in Nat /\ URLsFrom(c) >= 1
      /\ ZURLsFrom(c) = URLsFrom(c) + Len(c.URLs)
      /\ Len(Header(c)) >= ZURLsFrom(c) + Len(c.ZURLs)
      /\ Len(c.URLs) \in Nat /\ Len(c.ZURLs) \in Nat
  BY <1>0, HeaderPlaces
<1>3. 2 \in 2 .. Len(Header(c)) + 1 /\ 2 - 1 - URLsFrom(c) <= 0 /\ 2 - 1 - ZURLsFrom(c) <= 0
      /\ 2 - 1 - URLsFrom(c) \in Int /\ 2 - 1 - ZURLsFrom(c) \in Int
  BY <1>2
<1>4. \A m \in Int : \A vals : m <= 0 /\ Len(vals) \in Nat => IsTaken(<< >>, m, vals)
  BY EmptySeq DEF IsTaken
<1>5. /\ IsTaken(d.URLs, 2 - 1 - URLsFrom(c), c.URLs)
      /\ IsTaken(d.ZURLs, 2 - 1 - ZURLsFrom(c), c.ZURLs)
  BY <1>1, <1>2, <1>3, <1>4
<1>6. \A k \in Texts : d.text[k] = None
  BY <1>1 DEF Defaults
<1>7. \A j \in 2 .. 2 - 1 : HasCome(d, Header(c)[j])
  OBVIOUS
<1>. QED BY <1>1, <1>3, <1>5, <1>6, <1>7, DecodeNone DEF SoFar

LEMMA SameFile ==
  ASSUME NEW c \in ControlFiles, NEW d \in ControlFiles,
         c.Format = d.Format, c.HashAlgorithm = d.HashAlgorithm, c.FileHash = d.FileHash,
         \A k \in Texts : c.text[k] = d.text[k], c.MTime = d.MTime,
         c.Blocksize = d.Blocksize, c.Length = d.Length, c.HashLengths = d.HashLengths,
         c.URLs = d.URLs, c.ZURLs = d.ZURLs, c.Safe = d.Safe, c.ZMap2Raw = d.ZMap2Raw,
         c.ZMap = d.ZMap, c.Blocks = d.Blocks
  PROVE  c = d
<1>1. c.text = d.text
  <2>1. c.text \in [Texts -> Words \cup NoValue] /\ d.text \in [Texts -> Words \cup NoValue]
    BY DEF ControlFiles
  <2>. QED BY <2>1
<1>2. \A x \in ControlFiles :
        x = [Format |-> x.Format, HashAlgorithm |-> x.HashAlgorithm, FileHash |-> x.FileHash,
             text |-> x.text, MTime |-> x.MTime, Blocksize |-> x.Blocksize,
             Length |-> x.Length, HashLengths |-> x.HashLengths, URLs |-> x.URLs,
             ZURLs |-> x.ZURLs, Safe |-> x.Safe, ZMap2Raw |-> x.ZMap2Raw, ZMap |-> x.ZMap,
             Blocks |-> x.Blocks]
  BY DEF ControlFiles
<1>. QED BY <1>1, <1>2

LEMMA KeptFields ==
  ASSUME NEW c \in ControlFiles
  PROVE  /\ Kept(c) \in ControlFiles
         /\ Kept(c).Format = c.Format /\ Kept(c).HashAlgorithm = c.HashAlgorithm
         /\ Kept(c).FileHash = c.FileHash /\ Kept(c).MTime = c.MTime
         /\ Kept(c).Blocksize = c.Blocksize /\ Kept(c).Length = c.Length
         /\ Kept(c).HashLengths = c.HashLengths /\ Kept(c).URLs = c.URLs
         /\ Kept(c).ZURLs = c.ZURLs /\ Kept(c).Safe = {} /\ Kept(c).ZMap2Raw = c.ZMap2Raw
         /\ Kept(c).ZMap = DecodeZMap2(c.ZMap2Raw) /\ Kept(c).Blocks = c.Blocks
         /\ \A k \in Texts : Kept(c).text[k] = IF k = "Z-Filename" THEN None ELSE c.text[k]
<1>1. /\ c.text \in [Texts -> Words \cup NoValue] /\ None \in Words
      /\ DecodeZMap2(c.ZMap2Raw) \in Seq(ZMapEntries)
  BY DecodedType DEF ControlFiles, Words
<1> DEFINE t == [c.text EXCEPT !["Z-Filename"] = None]
<1>2. /\ t \in [Texts -> Words \cup NoValue]
      /\ \A k \in Texts : t[k] = IF k = "Z-Filename" THEN None ELSE c.text[k]
  BY <1>1
<1>3. Kept(c) = [c EXCEPT !.text = t, !.Safe = {}, !.ZMap = DecodeZMap2(c.ZMap2Raw)]
  BY DEF Kept, ControlFiles
<1>. HIDE DEF t
<1>4. Kept(c) \in ControlFiles
  BY <1>1, <1>2, <1>3 DEF ControlFiles
<1>5. Kept(c).text = t
  BY <1>3 DEF ControlFiles
<1>. QED BY <1>2, <1>3, <1>4, <1>5 DEF ControlFiles

\* When all lines are read everything that is kept is there.
LEMMA SoFarEnd ==
  ASSUME NEW c, Writable(c), NEW d \in ControlFiles, SoFar(c, d, Len(Header(c)) + 1)
  PROVE  sound(d) /\ NumBlocks(d) = c.Blocks /\ RowBytes(d) = RowBytes(c)
         /\ [d EXCEPT !.Blocks = NumBlocks(d)] = Kept(c)
<1> DEFINE h == Header(c)
           F == FrontLines(c) \cup BackLines(c)
           e == [d EXCEPT !.Blocks = NumBlocks(d)]
<1>0. Wellformed(c) /\ c \in ControlFiles /\ sound(c) /\ c.Blocks = NumBlocks(c)
  BY DEF Writable, Wellformed
<1>1. /\ Len(h) \in Nat /\ URLsFrom(c) \in Nat
      /\ ZURLsFrom(c) = URLsFrom(c) + Len(c.URLs)
      /\ Len(h) >= ZURLsFrom(c) + Len(c.ZURLs)
      /\ Len(c.URLs) \in Nat /\ Len(c.ZURLs) \in Nat
      /\ \A l \in F : \E j \in 2 .. Len(h) : h[j] = l
  BY <1>0, HeaderPlaces
<1>2. \A l \in F : HasCome(d, l)
  <2>. TAKE l \in F
  <2>1. PICK j \in 2 .. Len(h) : h[j] = l
    BY <1>1
  <2>2. j \in 2 .. (Len(h) + 1) - 1
    BY <1>1
  <2>3. HasCome(d, h[j])
    BY <2>2 DEF SoFar
  <2>. QED BY <2>1, <2>3
<1>3. d.Blocksize = c.Blocksize /\ d.Length = c.Length /\ d.HashLengths = c.HashLengths
  <2>1. /\ Line("Blocksize", c.Blocksize) \in F /\ Line("Length", c.Length) \in F
        /\ Line("Hash-Lengths", c.HashLengths) \in F
    BY DEF FrontLines
  <2>2. /\ HasCome(d, Line("Blocksize", c.Blocksize)) /\ HasCome(d, Line("Length", c.Length))
        /\ HasCome(d, Line("Hash-Lengths", c.HashLengths))
    BY <1>2, <2>1
  <2>. QED BY <2>2 DEF HasCome, Line, Texts
<1>4. \A k \in Texts : d.text[k] = Kept(c).text[k]
  <2>. TAKE k \in Texts
  <2>1. d.text[k] \in {None, Kept(c).text[k]}
    BY DEF SoFar
  <2>2. CASE k = "Z-Filename"
    BY <1>0, <2>1, <2>2, KeptFields
  <2>3. CASE k # "Z-Filename" /\ c.text[k] = None
    BY <1>0, <2>1, <2>3, KeptFields
  <2>4. CASE k # "Z-Filename" /\ c.text[k] # None
    <3>1. Line(k, c.text[k]) \in F
      BY <2>4 DEF FrontLines, BackLines, TextLine, Texts
    <3>2. HasCome(d, Line(k, c.text[k]))
      BY <1>2, <3>1
    <3>3. d.text[k] = c.text[k]
      BY <3>2 DEF HasCome, Line, Texts
    <3>. QED BY <1>0, <2>4, <3>3, KeptFields
  <2>. QED BY <2>2, <2>3, <2>4
<1>5. d.MTime = c.MTime
  <2>1. d.MTime \in {None, c.MTime}
    BY DEF SoFar
  <2>2. CASE c.MTime # None
    <3>1. Line("MTime", c.MTime) \in F
      BY <2>2 DEF FrontLines
    <3>2. HasCome(d, Line("MTime", c.MTime))
      BY <1>2, <3>1
    <3>. QED BY <3>2 DEF HasCome, Line, Texts
  <2>. QED BY <2>1, <2>2
<1>6. d.HashAlgorithm = c.HashAlgorithm
  <2>1. /\ d.HashAlgorithm \in {c.HashAlgorithm, IF c.Format = "zsync" THEN "MD4" ELSE "BLAKE3"}
        /\ c.Format \in {"zsync", "zsync2"}
    BY <1>0 DEF SoFar, ControlFiles, Formats
  <2>2. CASE c.Format = "zsync"
    BY <1>0, <2>1, <2>2 DEF Wellformed
  <2>3. CASE c.Format = "zsync2"
    <3>1. Line("Hash-Algorithm", c.HashAlgorithm) \in F
      BY <2>3 DEF FrontLines
    <3>2. HasCome(d, Line("Hash-Algorithm", c.HashAlgorithm))
      BY <1>2, <3>1
    <3>. QED BY <3>2 DEF HasCome, Line, Texts
  <2>. QED BY <2>1, <2>2, <2>3
<1>7. d.FileHash = c.FileHash
  <2>1. d.FileHash \in {None, c.FileHash} /\ c.Format \in {"zsync", "zsync2"}
    BY <1>0 DEF SoFar, ControlFiles, Formats
  <2>2. CASE c.FileHash # None
    <3> DEFINE l == Line("File-Hash", [algo |-> c.HashAlgorithm, raw |-> c.FileHash])
    <3>1. c.Format = "zsync2"
      BY <1>0, <2>1, <2>2 DEF Wellformed
    <3>2. l \in F
      BY <2>2, <3>1 DEF BackLines
    <3>3. HasCome(d, l)
      BY <1>2, <3>2
    <3>. QED BY <3>3 DEF HasCome, Line, Texts
  <2>. QED BY <2>1, <2>2
<1>8. d.ZMap2Raw = c.ZMap2Raw /\ d.ZMap = DecodeZMap2(c.ZMap2Raw)
  <2>1. d.ZMap2Raw \in {<< >>, c.ZMap2Raw} /\ d.ZMap = DecodeZMap2(d.ZMap2Raw)
    BY DEF SoFar
  <2>2. CASE c.ZMap2Raw # << >>
    <3>1. Line("Z-Map2", c.ZMap2Raw) \in F
      BY <2>2 DEF BackLines
    <3>2. HasCome(d, Line("Z-Map2", c.ZMap2Raw))
      BY <1>2, <3>1
    <3>3. d.ZMap2Raw = c.ZMap2Raw
      BY <3>2 DEF HasCome, Line, Texts
    <3>. QED BY <2>1, <3>3
  <2>. QED BY <2>1, <2>2
<1>9. \A us, vals, m : us \in Seq(Words \cup NoValue) /\ vals \in Seq(Words \cup NoValue)
        /\ m \in Int /\ m >= Len(vals) /\ IsTaken(us, m, vals) => us = vals
  <2>. TAKE us, vals, m
  <2>. HAVE us \in Seq(Words \cup NoValue) /\ vals \in Seq(Words \cup NoValue)
              /\ m \in Int /\ m >= Len(vals) /\ IsTaken(us, m, vals)
  <2>1. Len(vals) \in Nat
    BY LenProperties
  <2>2. Len(us) = Len(vals) /\ \A i \in 1 .. Len(us) : us[i] = vals[i]
    BY <2>1 DEF IsTaken
  <2>. QED BY <2>2, SeqEqual
<1>10. d.URLs = c.URLs /\ d.ZURLs = c.ZURLs
  <2>1. /\ d.URLs \in Seq(Words \cup NoValue) /\ c.URLs \in Seq(Words \cup NoValue)
        /\ d.ZURLs \in Seq(Words \cup NoValue) /\ c.ZURLs \in Seq(Words \cup NoValue)
    BY <1>0 DEF ControlFiles
  <2> DEFINE a == (Len(h) + 1) - 1 - URLsFrom(c)
             b == (Len(h) + 1) - 1 - ZURLsFrom(c)
  <2>2. IsTaken(d.URLs, a, c.URLs) /\ IsTaken(d.ZURLs, b, c.ZURLs)
    BY DEF SoFar
  <2>3. a \in Int /\ a >= Len(c.URLs) /\ b \in Int /\ b >= Len(c.ZURLs)
    <3> DEFINE n == Len(h)
               u == URLsFrom(c)
               z == ZURLsFrom(c)
               k == Len(c.URLs)
               m == Len(c.ZURLs)
    <3>1. n \in Nat /\ u \in Nat /\ k \in Nat /\ m \in Nat /\ z = u + k /\ n >= z + m
      BY <1>1
    <3>2. a = (n + 1) - 1 - u /\ b = (n + 1) - 1 - z
      OBVIOUS
    <3>. HIDE DEF a, b, n, u, z, k, m
    <3>3. a \in Int /\ a >= k /\ b \in Int /\ b >= m
      BY <3>1, <3>2
    <3>. QED BY <3>3 DEF k, m
  <2>. HIDE DEF a, b
  <2>. QED BY <1>9, <2>1, <2>2, <2>3
<1>11. d.Format = c.Format /\ d.Safe = {}
  BY DEF SoFar
<1>12. sound(d) /\ NumBlocks(d) = c.Blocks /\ RowBytes(d) = RowBytes(c)
  BY <1>0, <1>3, <1>6, <1>11 DEF sound, NumBlocks, RowBytes
<1>13. /\ e.Format = d.Format /\ e.HashAlgorithm = d.HashAlgorithm /\ e.FileHash = d.FileHash
       /\ e.text = d.text /\ e.MTime = d.MTime /\ e.Blocksize = d.Blocksize
       /\ e.Length = d.Length /\ e.HashLengths = d.HashLengths /\ e.URLs = d.URLs
       /\ e.ZURLs = d.ZURLs /\ e.Safe = d.Safe /\ e.ZMap2Raw = d.ZMap2Raw /\ e.ZMap = d.ZMap
       /\ e.Blocks = NumBlocks(d)
  BY DEF ControlFiles
<1>14. e \in ControlFiles
  <2>1. NumBlocks(d) \in Int
    BY <1>0, <1>12 DEF ControlFiles
  <2>. QED BY <2>1 DEF ControlFiles
<1>15. /\ Kept(c) \in ControlFiles
       /\ Kept(c).Format = c.Format /\ Kept(c).HashAlgorithm = c.HashAlgorithm
       /\ Kept(c).FileHash = c.FileHash /\ Kept(c).MTime = c.MTime
       /\ Kept(c).Blocksize = c.Blocksize /\ Kept(c).Length = c.Length
       /\ Kept(c).HashLengths = c.HashLengths /\ Kept(c).URLs = c.URLs
       /\ Kept(c).ZURLs = c.ZURLs /\ Kept(c).Safe = {} /\ Kept(c).ZMap2Raw = c.ZMap2Raw
       /\ Kept(c).ZMap = DecodeZMap2(c.ZMap2Raw) /\ Kept(c).Blocks = c.Blocks
  BY <1>0, KeptFields
<1>. HIDE DEF e
<1>16. e = Kept(c)
  <2>1. /\ e.Format = Kept(c).Format /\ e.HashAlgorithm = Kept(c).HashAlgorithm
        /\ e.FileHash = Kept(c).FileHash /\ \A k \in Texts : e.text[k] = Kept(c).text[k]
        /\ e.MTime = Kept(c).MTime /\ e.Blocksize = Kept(c).Blocksize
        /\ e.Length = Kept(c).Length /\ e.HashLengths = Kept(c).HashLengths
        /\ e.URLs = Kept(c).URLs /\ e.ZURLs = Kept(c).ZURLs /\ e.Safe = Kept(c).Safe
        /\ e.ZMap2Raw = Kept(c).ZMap2Raw /\ e.ZMap = Kept(c).ZMap /\ e.Blocks = Kept(c).Blocks
    BY <1>3, <1>4, <1>5, <1>6, <1>7, <1>8, <1>10, <1>11, <1>12, <1>13, <1>15
  <2>. QED BY <1>14, <1>15, <2>1, SameFile, Zenon
<1>. QED BY <1>12, <1>16 DEF e

-----------------------------------------------------------------------------
(***************************************************************************)
(* The file that is written, and its first pieces: only when nothing but   *)
(* an empty table is missing is it taken for the whole.                    *)
(***************************************************************************)
LEMMA MinOfTwo ==
  ASSUME NEW a \in Int, NEW b \in Int
  PROVE  Min({a, b}) = IF a <= b THEN a ELSE b
<1> DEFINE m == IF a <= b THEN a ELSE b
<1>1. m \in {a, b} /\ \A y \in {a, b} : m <= y
  OBVIOUS
<1>2. \A x \in {a, b} : (\A y \in {a, b} : x <= y) => x = m
  OBVIOUS
<1>. HIDE DEF m
<1>3. Min({a, b}) = CHOOSE x \in {a, b} : \A y \in {a, b} : x <= y
  BY Zenon DEF Min
<1>4. Min({a, b}) \in {a, b} /\ \A y \in {a, b} : Min({a, b}) <= y
  BY <1>1, <1>3
<1>5. Min({a, b}) = m
  BY <1>2, <1>4
<1>. QED BY <1>5 DEF m

LEMMA Rows ==
  ASSUME NEW c \in ControlFiles, sound(c)
  PROVE  /\ NumBlocks(c) \in Nat /\ RowBytes(c) \in Nat
         /\ c.Blocks = NumBlocks(c) => c.Blocks * RowBytes(c) \in Nat
<1>1. /\ c.Length \in Int /\ c.Blocksize \in Int /\ c.Blocksize > 0 /\ c.Length >= 0
      /\ c.HashLengths.RsumBytes \in 1 .. 4
      /\ c.HashLengths.ChecksumBytes \in 3 .. StrongHashFullLen(c.HashAlgorithm)
  BY DEF ControlFiles, sound
<1>2. c.HashLengths.ChecksumBytes \in Nat
  BY <1>1 DEF StrongHashFullLen
<1>3. c.Length + c.Blocksize - 1 \in Nat /\ c.Blocksize \in Nat \ {0}
  BY <1>1
<1>4. (c.Length + c.Blocksize - 1) \div c.Blocksize \in Nat
  BY <1>3, Divides
<1>5. NumBlocks(c) \in Nat
  BY <1>1, <1>4 DEF NumBlocks
<1>6. RowBytes(c) \in Nat
  BY <1>1, <1>2 DEF RowBytes
<1>7. \A a \in Nat, b \in Nat : a * b \in Nat
  OBVIOUS
<1>. QED BY <1>5, <1>6, <1>7

LEMMA WriteType ==
  ASSUME NEW c, Writable(c)
  PROVE  /\ Write(c) \in Files /\ Write(c).lines = Header(c) /\ Write(c).ended
         /\ Write(c).body = NumBlocks(c) * RowBytes(c) /\ Write(c).body \in Nat
         /\ Header(c) \in Seq(Lines) /\ Len(Header(c)) \in Nat /\ Len(Header(c)) >= 1
         /\ Pieces(Write(c)) = Len(Header(c)) + 3
<1>1. c \in ControlFiles /\ sound(c) /\ c.Blocks = NumBlocks(c)
  BY DEF Writable, Wellformed
<1>2. c.Blocks * RowBytes(c) \in Nat
  BY <1>1, Rows
<1>3. Header(c) \in Seq(Lines) /\ Len(Header(c)) \in Nat /\ Len(Header(c)) >= 1
  BY <1>1, HeaderPlaces
<1>. HIDE DEF Files
<1>4. Write(c).lines = Header(c) /\ Write(c).ended /\ Write(c).body = c.Blocks * RowBytes(c)
  BY DEF Write
<1>5. Write(c) \in Files
  BY <1>2, <1>3 DEF Write, Files
<1>. QED BY <1>1, <1>2, <1>3, <1>4, <1>5 DEF Pieces

LEMMA PiecesOfFile ==
  ASSUME NEW c, Writable(c), NEW k \in 0 .. Pieces(Write(c)),
         NEW f, f = FirstPieces(Write(c), k)
  PROVE  /\ f \in Files
         /\ f.ended => f.lines = Header(c)
         /\ f.ended /\ f.body >= NumBlocks(c) * RowBytes(c) => f = Write(c)
         /\ k = Pieces(Write(c)) => f = Write(c)
<1> DEFINE w == Write(c)
           n == Len(w.lines)
           s == SubSeq(w.lines, 1, Min({k, n}))
           b == IF k < n + 2 \/ w.body = 0 THEN 0 ELSE IF k = n + 2 THEN w.body - 1 ELSE w.body
<1>1. /\ w \in Files /\ w.lines = Header(c) /\ w.ended
      /\ w.body = NumBlocks(c) * RowBytes(c) /\ w.body \in Nat
      /\ w.lines \in Seq(Lines) /\ n \in Nat /\ Pieces(w) = n + 3
  BY WriteType
<1>2. f = [lines |-> s, ended |-> k > n, body |-> b]
  BY DEF FirstPieces
<1>3. w = [lines |-> w.lines, ended |-> TRUE, body |-> w.body]
  <2> DEFINE h == Header(c)
             r == c.Blocks * RowBytes(c)
  <2>1. w = [lines |-> h, ended |-> TRUE, body |-> r]
    BY DEF Write
  <2>. HIDE DEF h, r, w
  <2>. QED BY <2>1
<1>4. k \in Nat /\ k <= n + 3
  BY <1>1
<1>. HIDE DEF w
<1>5. Min({k, n}) = IF k <= n THEN k ELSE n
  BY <1>1, <1>4, MinOfTwo
<1>6. s \in Seq(Lines)
  <2> DEFINE j == Min({k, n})
             ls == w.lines
  <2>1. j \in Nat /\ j <= n
    BY <1>1, <1>4, <1>5
  <2>2. ls \in Seq(Lines) /\ n = Len(ls)
    BY <1>1
  <2>. HIDE DEF j, n
  <2>3. ASSUME NEW i \in 1 .. j PROVE ls[i] \in Lines
    <3>1. i \in 1 .. Len(ls)
      BY <1>1, <2>1, <2>2
    <3>. HIDE DEF ls
    <3>. QED BY <2>2, <3>1, ElementOfSeq
  <2>4. 1 \in Int /\ j \in Int
    BY <2>1
  <2>5. SubSeq(ls, 1, j) \in Seq(Lines)
    <3>. HIDE DEF ls
    <3>. QED BY <2>3, <2>4, SubSeqProperties
  <2>. QED BY <2>5 DEF j, n
<1>7. k > n => s = w.lines
  BY <1>1, <1>4, <1>5, SubSeqFull
<1>8. b \in Nat
  BY <1>1, <1>4
<1>. HIDE DEF s
<1>9. k > n /\ b >= w.body => b = w.body
  BY <1>1, <1>4
<1>10. k = n + 3 => b = w.body /\ k > n
  BY <1>1, <1>4
<1>11. (k > n) \in BOOLEAN
  BY <1>1, <1>4
<1>. HIDE DEF b, n
<1>12. f \in Files
  BY <1>2, <1>6, <1>8, <1>11 DEF Files
<1>13. f.lines = s /\ f.ended = (k > n) /\ f.body = b
  BY <1>2
<1>14. (k > n) /\ b = w.body => f = w
  BY <1>2, <1>3, <1>7
<1>. QED BY <1>1, <1>7, <1>9, <1>10, <1>12, <1>13, <1>14 DEF w

\* What was read is written without a line that has no value.
LEMMA WrittenHasValues ==
  ASSUME NEW c, Wellformed(c), NoEmpty(c)
  PROVE  HasValues(c)
<1>0. c \in ControlFiles /\ c.Format \in Formats
  BY DEF Wellformed, ControlFiles
<1>1. /\ Header(c) \in Seq(Lines) /\ Len(Header(c)) \in Nat
      /\ DOMAIN Header(c) = 1 .. Len(Header(c)) /\ Header(c)[1] = Line(c.Format, "version")
  BY <1>0, HeaderPlaces, LenProperties
<1>2. Header(c)[1].val # Empty
  BY <1>1, ValueAssumption DEF Words, Line
<1>3. ASSUME NEW l \in FrontLines(c) \cup BackLines(c) PROVE l.val # Empty
  <2>1. /\ c.text \in [Texts -> Words \cup NoValue] /\ c.Blocksize \in Int /\ c.Length \in Int
        /\ c.HashLengths \in HashLengths /\ c.HashAlgorithm \in Algorithms
        /\ c.FileHash \in Algorithms \cup {None} /\ c.ZMap2Raw \in Seq(WireEntries)
    BY <1>0 DEF ControlFiles
  <2>2. /\ Empty \notin Int /\ Empty \notin HashLengths /\ Empty \notin FileHashes
        /\ Empty \notin Seq(WireEntries) /\ Empty \notin Algorithms
    BY ValueAssumption DEF Words
  <2>3. l.key \in Texts \cup {"MTime", "Blocksize", "Length", "Hash-Lengths",
                              "Hash-Algorithm", "File-Hash", "Z-Map2"}
    BY LinesOfFile
  <2>4. CASE l.key \in Texts
    BY <2>4, LinesOfFile DEF NoEmpty
  <2>5. CASE l.key = "MTime"
    BY <2>5, LinesOfFile DEF Wellformed, NoValue
  <2>6. CASE l.key \in {"Blocksize", "Length", "Hash-Lengths", "Hash-Algorithm", "Z-Map2"}
    <3>1. l.val \in Int \cup HashLengths \cup Algorithms \cup Seq(WireEntries)
      BY <2>1, <2>6, LinesOfFile
    <3>. QED BY <2>2, <3>1
  <2>7. CASE l.key = "File-Hash"
    <3>1. l.val = [algo |-> c.HashAlgorithm, raw |-> c.FileHash] /\ c.FileHash # None
      BY <2>7, LinesOfFile
    <3>2. l.val \in FileHashes
      BY <2>1, <3>1 DEF FileHashes, Words
    <3>. QED BY <2>2, <3>2
  <2>. QED BY <2>3, <2>4, <2>5, <2>6, <2>7
<1>4. ASSUME NEW n \in 2 .. Len(Header(c)) PROVE Header(c)[n].val # Empty
  <2> DEFINE l == Header(c)[n]
  <2>1. \/ l \in FrontLines(c) \cup BackLines(c)
        \/ \E i \in 1 .. Len(c.URLs) : l = Line("URL", c.URLs[i])
        \/ \E i \in 1 .. Len(c.ZURLs) : l = Line("Z-URL", c.ZURLs[i])
    BY <1>0, LinePlace
  <2>2. /\ \A i \in 1 .. Len(c.URLs) : c.URLs[i] # Empty
        /\ \A i \in 1 .. Len(c.ZURLs) : c.ZURLs[i] # Empty
    <3>1. c.URLs \in Seq(Words \cup NoValue) /\ c.ZURLs \in Seq(Words \cup NoValue)
      BY <1>0 DEF ControlFiles
    <3>. QED BY <3>1, InRange DEF NoEmpty
  <2>3. CASE l \in FrontLines(c) \cup BackLines(c)
    BY <1>3, <2>3
  <2>4. CASE \E i \in 1 .. Len(c.URLs) : l = Line("URL", c.URLs[i])
    BY <2>2, <2>4 DEF Line
  <2>5. CASE \E i \in 1 .. Len(c.ZURLs) : l = Line("Z-URL", c.ZURLs[i])
    BY <2>2, <2>5 DEF Line
  <2>. QED BY <2>1, <2>3, <2>4, <2>5
<1>5. \A n \in 1 .. Len(Header(c)) : n = 1 \/ n \in 2 .. Len(Header(c))
  BY <1>1
<1>. QED BY <1>1, <1>2, <1>4, <1>5 DEF HasValues

(***************************************************************************)
(* A step of the reading.                                                  *)
(***************************************************************************)
LEMMA RereadStep ==
  ASSUME NEW c, Writable(c), NEW k \in 0 .. Pieces(Write(c)),
         file = FirstPieces(Write(c), k), cf \in ControlFiles,
         next \in 1 .. Len(file.lines) + 1,
         Rereads(c, phase, file, next, cf), Reading
  PROVE  Rereads(c, phase', file, next', cf')
<1>0. /\ Wellformed(c) /\ c \in ControlFiles /\ VerifyFileHash(c) /\ sound(c)
      /\ c.Blocks = NumBlocks(c) /\ c.Format \in Formats
  BY DEF Writable, Wellformed, ControlFiles
<1>1. /\ file \in Files
      /\ file.ended => file.lines = Header(c)
      /\ file.ended /\ file.body >= NumBlocks(c) * RowBytes(c) => file = Write(c)
  BY PiecesOfFile
<1>2. /\ Write(c).lines = Header(c) /\ Write(c).ended
      /\ Write(c).body = NumBlocks(c) * RowBytes(c) /\ Write(c).body \in Nat
      /\ Header(c) \in Seq(Lines) /\ Len(Header(c)) \in Nat /\ Len(Header(c)) >= 1
  BY WriteType
<1>3. DOMAIN Header(c) = 1 .. Len(Header(c)) /\ Header(c)[1] = Line(c.Format, "version")
  BY <1>0, <1>2, HeaderPlaces, LenProperties
<1>4. Empty # "version"
  BY ValueAssumption DEF Words
<1>5. CASE Magic
  <2>1. phase = "magic" /\ next = 1 /\ cf = Defaults /\ next' = 2
    BY <1>5 DEF Magic, Rereads
  <2>2. CASE file.lines = Header(c)
    <3>1. Current.key = c.Format /\ Current.val = "version"
      BY <1>3, <2>1, <2>2 DEF Current, Line
    <3>2. /\ cf' = [Defaults EXCEPT !.Format = c.Format,
                      !.HashAlgorithm = IF c.Format = "zsync" THEN "MD4" ELSE "BLAKE3"]
          /\ phase' = "headers"
      BY <1>0, <1>4, <1>5, <2>1, <3>1 DEF Magic
    <3>3. SoFar(c, cf', 2)
      BY <3>2, SoFarStart
    <3>. QED BY <2>1, <3>2, <3>3 DEF Rereads
  <2>3. CASE file.lines # Header(c)
    <3>1. file # Write(c) /\ phase' \in {"headers", "rejected"}
      BY <1>2, <1>5, <2>3 DEF Magic
    <3>. QED BY <2>3, <3>1 DEF Rereads
  <2>. QED BY <2>2, <2>3
<1>6. CASE ApplyLine
  <2>1. phase = "headers" /\ next' = next + 1 /\ phase' \in {"headers", "rejected"}
    BY <1>6 DEF ApplyLine
  <2>2. CASE file.lines = Header(c)
    <3>1. SoFar(c, cf, next)
      BY <2>1, <2>2 DEF Rereads
    <3>2. next \in 2 .. Len(Header(c))
      BY <1>2, <1>3, <1>6, <2>2, <3>1 DEF ApplyLine, SoFar
    <3>3. Current = Header(c)[next]
      BY <2>2 DEF Current
    <3>4. CASE admits(cf, Current)
      <4>1. cf' = applyHeader(cf, Current) /\ phase' = "headers"
        BY <1>6, <2>1, <3>4 DEF ApplyLine
      <4>2. SoFar(c, cf', next + 1)
        BY <3>1, <3>2, <3>3, <3>4, <4>1, SoFarStep
      <4>. QED BY <2>1, <4>1, <4>2 DEF Rereads
    <3>5. CASE ~admits(cf, Current)
      <4>1. phase' = "rejected"
        BY <1>6, <3>5 DEF ApplyLine
      <4>2. cf.Format = c.Format
        BY <3>1 DEF SoFar
      <4>3. Current.val = Empty
        <5>1. SUFFICES ASSUME Current.val # Empty PROVE FALSE
          OBVIOUS
        <5>2. ASSUME NEW u \in {"URL", "Z-URL"}, NEW v, Current = Line(u, v) PROVE FALSE
          <6>1. v # Empty
            BY <5>1, <5>2 DEF Line
          <6>. QED BY <3>5, <5>2, <6>1, URLAdmitted
        <5>3. Current \in FrontLines(c) \cup BackLines(c)
          BY <1>0, <3>2, <3>3, <5>2, LinePlace
        <5>. QED BY <1>0, <3>5, <4>2, <5>1, <5>3, FileLineAdmitted
      <4>4. ~HasValues(c)
        BY <1>3, <3>2, <3>3, <4>3 DEF HasValues
      <4>. QED BY <4>1, <4>4 DEF Rereads
    <3>. QED BY <3>4, <3>5
  <2>3. CASE file.lines # Header(c)
    <3>1. file # Write(c)
      BY <1>2, <2>3
    <3>. QED BY <2>1, <2>3, <3>1 DEF Rereads
  <2>. QED BY <2>2, <2>3
<1>7. CASE BlockTable
  <2>1. phase' \in {"accepted", "rejected"} /\ next \notin DOMAIN file.lines
    BY <1>7 DEF BlockTable
  <2>2. ASSUME phase = "headers", file.lines = Header(c)
        PROVE  /\ sound(cf) /\ NumBlocks(cf) = NumBlocks(c) /\ RowBytes(cf) = RowBytes(c)
               /\ [cf EXCEPT !.Blocks = NumBlocks(cf)] = Kept(c)
    <3>1. SoFar(c, cf, next)
      BY <2>2 DEF Rereads
    <3>2. next = Len(Header(c)) + 1
      BY <1>2, <1>3, <2>1, <2>2, <3>1 DEF SoFar
    <3>. QED BY <1>0, <3>1, <3>2, SoFarEnd
  <2>3. CASE phase' = "accepted"
    <3>1. /\ phase = "headers" /\ file.ended /\ file.body >= NumBlocks(cf) * RowBytes(cf)
          /\ cf' = [cf EXCEPT !.Blocks = NumBlocks(cf)]
      BY <1>7, <2>3 DEF BlockTable
    <3>2. file = Write(c) /\ cf' = Kept(c)
      BY <1>1, <2>2, <3>1
    <3>. QED BY <2>3, <3>2 DEF Rereads
  <2>4. CASE phase' = "rejected"
    <3>1. SUFFICES ASSUME file = Write(c) PROVE FALSE
      BY <2>4 DEF Rereads
    <3>2. file.lines = Header(c) /\ file.ended /\ file.body = NumBlocks(c) * RowBytes(c)
            /\ file.body \in Nat
      BY <1>2, <3>1
    <3>3. phase = "headers"
      <4>1. CASE phase = "magic"
        <5>1. next = 1 /\ 1 \in DOMAIN file.lines
          BY <1>2, <1>3, <3>2, <4>1 DEF Rereads
        <5>. QED BY <2>1, <5>1
      <4>. QED BY <1>7, <4>1 DEF BlockTable
    <3>4. sound(cf) /\ file.body >= NumBlocks(cf) * RowBytes(cf)
      BY <2>2, <3>2, <3>3
    <3>. QED BY <1>7, <2>4, <3>2, <3>3, <3>4 DEF BlockTable
  <2>. QED BY <2>1, <2>3, <2>4
<1>. QED BY <1>5, <1>6, <1>7 DEF Reading

-----------------------------------------------------------------------------
(***************************************************************************)
(* The lengths ComputeHashLengthsAlgo comes to are within the bounds Read  *)
(* has for them, of every algorithm.                                       *)
(***************************************************************************)
LEMMA PowersOfTwo ==
  /\ \A n \in Nat : PowerOfTwo[n] \in Nat \ {0}
  /\ PowerOfTwo[0] = 1
  /\ \A n \in Nat : PowerOfTwo[n + 1] = 2 * PowerOfTwo[n]
<1> DEFINE p == PowerOfTwo
           zero == 1
           S == Nat \ {0}
           step == [i \in Nat |-> [x \in S |-> 2 * x]]
<1>1. p = CHOOSE q : q = [k \in Nat |-> IF k = 0 THEN 1 ELSE 2 * q[k - 1]]
  BY DEF PowerOfTwo
<1>2. zero \in S /\ step \in [Nat -> [S -> S]]
  OBVIOUS
<1>3. PICK f \in [Nat -> S] : Recurses(f, zero, step)
  <2>. HIDE DEF step, zero, S
  <2>. QED BY <1>2, RecursiveFunction, Zenon
<1>4. f[0] = 1 /\ \A i \in Nat : f[i + 1] = 2 * f[i]
  <2>1. \A i \in Nat : f[i] \in S
    BY <1>3
  <2>2. \A i \in Nat : f[i + 1] = step[i][f[i]]
    <3>. HIDE DEF step
    <3>. QED BY <1>3 DEF Recurses
  <2>3. \A i \in Nat : step[i][f[i]] = 2 * f[i]
    <3>. HIDE DEF S
    <3>. QED BY <2>1
  <2>. QED BY <1>3, <2>2, <2>3 DEF Recurses
<1>5. f = [k \in Nat |-> IF k = 0 THEN 1 ELSE 2 * f[k - 1]]
  <2>1. ASSUME NEW k \in Nat PROVE f[k] = IF k = 0 THEN 1 ELSE 2 * f[k - 1]
    <3>1. CASE k = 0
      BY <1>4, <3>1
    <3>2. CASE k # 0
      <4>1. k - 1 \in Nat /\ (k - 1) + 1 = k
        BY <3>2
      <4>2. f[(k - 1) + 1] = 2 * f[k - 1]
        BY <1>4, <4>1
      <4>. QED BY <3>2, <4>1, <4>2
    <3>. QED BY <3>1, <3>2
  <2>. QED BY <1>3, <2>1
<1>. HIDE DEF p
<1>6. p = [k \in Nat |-> IF k = 0 THEN 1 ELSE 2 * p[k - 1]]
  BY <1>1, <1>5, Zenon
<1>7. p[0] = 1
  BY <1>6
<1>8. ASSUME NEW n \in Nat PROVE p[n + 1] = 2 * p[n]
  <2>1. n + 1 \in Nat /\ n + 1 # 0 /\ (n + 1) - 1 = n
    OBVIOUS
  <2>. QED BY <1>6, <2>1
<1> DEFINE T == { n \in Nat : p[n] \in Nat \ {0} }
<1>9. 0 \in T
  BY <1>7
<1>10. ASSUME NEW n \in T PROVE n + 1 \in T
  BY <1>8
<1>11. T = Nat
  <2>1. T \in SUBSET Nat
    OBVIOUS
  <2>. HIDE DEF T
  <2>. QED BY <1>9, <1>10, <2>1, InductiveSet
<1>. QED BY <1>7, <1>8, <1>11 DEF p

LEMMA PowersGrow ==
  ASSUME NEW b \in Nat, NEW l \in Nat, l > b
  PROVE  PowerOfTwo[l] > PowerOfTwo[b]
<1> DEFINE T == { n \in Nat : PowerOfTwo[b + 1 + n] > PowerOfTwo[b] }
<1>1. 0 \in T
  <2>1. PowerOfTwo[b + 1] = 2 * PowerOfTwo[b] /\ PowerOfTwo[b] \in Nat \ {0}
    BY PowersOfTwo
  <2>2. 2 * PowerOfTwo[b] > PowerOfTwo[b]
    BY <2>1
  <2>3. b + 1 + 0 = b + 1
    OBVIOUS
  <2>. QED BY <2>1, <2>2, <2>3
<1>2. ASSUME NEW n \in T PROVE n + 1 \in T
  <2>1. n \in Nat /\ b + 1 + n \in Nat /\ b + 1 + (n + 1) = (b + 1 + n) + 1
    OBVIOUS
  <2>2. /\ PowerOfTwo[(b + 1 + n) + 1] = 2 * PowerOfTwo[b + 1 + n]
        /\ PowerOfTwo[b + 1 + n] \in Nat /\ PowerOfTwo[b] \in Nat
    BY <2>1, PowersOfTwo
  <2>3. PowerOfTwo[b + 1 + n] > PowerOfTwo[b]
    OBVIOUS
  <2>4. 2 * PowerOfTwo[b + 1 + n] > PowerOfTwo[b]
    BY <2>2, <2>3
  <2>. QED BY <2>1, <2>2, <2>4
<1>3. T = Nat
  <2>1. T \in SUBSET Nat
    OBVIOUS
  <2>. HIDE DEF T
  <2>. QED BY <1>1, <1>2, <2>1, InductiveSet
<1>4. l - b - 1 \in Nat /\ b + 1 + (l - b - 1) = l
  OBVIOUS
<1>5. \A n \in Nat : PowerOfTwo[b + 1 + n] > PowerOfTwo[b]
  BY <1>3
<1>6. PowerOfTwo[b + 1 + (l - b - 1)] > PowerOfTwo[b]
  BY <1>4, <1>5
<1>. QED BY <1>4, <1>6

LEMMA Logarithm ==
  ASSUME NEW k \in Logs, NEW n, HasLog(n, k)
  PROVE  Log2(n) \in Logs /\ PowerOfTwo[Log2(n)] <= n /\ n < PowerOfTwo[Log2(n) + 1]
<1>1. Log2(n) \in Logs /\ HasLog(n, Log2(n))
  BY Zenon DEF Log2
<1>. QED BY <1>1 DEF HasLog

LEMMA PowerHasLog ==
  ASSUME NEW k \in Logs
  PROVE  HasLog(PowerOfTwo[k], k) /\ PowerOfTwo[k] \in Nat \ {0}
<1>1. k \in Nat
  BY DEF Logs
<1>2. PowerOfTwo[k] \in Nat \ {0} /\ PowerOfTwo[k + 1] = 2 * PowerOfTwo[k]
  BY <1>1, PowersOfTwo
<1>. QED BY <1>2 DEF HasLog

LEMMA MaxOf ==
  ASSUME NEW S, NEW a \in S, S \subseteq Int, \A y \in S : a >= y
  PROVE  Max(S) = a
<1>1. \A x \in S : (\A y \in S : x >= y) => x = a
  OBVIOUS
<1>2. Max(S) = CHOOSE x \in S : \A y \in S : x >= y
  BY Zenon DEF Max
<1>3. Max(S) \in S /\ \A y \in S : Max(S) >= y
  BY <1>2, Zenon
<1>. QED BY <1>1, <1>3

LEMMA MaxOfTwo ==
  ASSUME NEW a \in Int, NEW b \in Int
  PROVE  Max({a, b}) \in {a, b} /\ Max({a, b}) >= a /\ Max({a, b}) >= b
<1>1. CASE a >= b
  <2>1. Max({a, b}) = a
    BY <1>1, MaxOf
  <2>. QED BY <1>1, <2>1
<1>2. CASE b > a
  <2>1. Max({a, b}) = b
    BY <1>2, MaxOf
  <2>. QED BY <1>2, <2>1
<1>. QED BY <1>1, <1>2

LEMMA MaxOfThree ==
  ASSUME NEW a \in Int, NEW b \in Int, NEW c \in Int
  PROVE  /\ Max({a, b, c}) \in {a, b, c}
         /\ Max({a, b, c}) >= a /\ Max({a, b, c}) >= b /\ Max({a, b, c}) >= c
<1>1. PICK m \in {a, b, c} : m >= a /\ m >= b /\ m >= c
  <2>1. CASE a >= b /\ a >= c
    BY <2>1
  <2>2. CASE b >= a /\ b >= c
    BY <2>2
  <2>3. CASE c >= a /\ c >= b
    BY <2>3
  <2>. QED BY <2>1, <2>2, <2>3
<1>2. Max({a, b, c}) = m
  <2> DEFINE S == {a, b, c}
  <2>1. m \in S /\ S \subseteq Int /\ \A y \in S : m >= y
    BY <1>1
  <2>. HIDE DEF S
  <2>2. Max(S) = m
    BY <2>1, MaxOf
  <2>. QED BY <2>2 DEF S
<1>. QED BY <1>1, <1>2

(***************************************************************************)
(* "With int64 inputs neither bound can actually fire": for every length   *)
(* and every block of a power of two, the widths that                      *)
(* ComputeHashLengthsAlgo comes to are ones that Read admits, though       *)
(* nothing clamps checksum_bytes.  Two matches in a row halve what is      *)
(* needed as soon as there is a second block; without that, a long file of *)
(* small blocks would need 19 bytes.                                       *)
(***************************************************************************)
THEOREM HashLengthsSound ==
  ASSUME NEW length \in Nat, length = 0 \/ \E k \in Logs : HasLog(length, k),
         NEW bs, \E k \in Logs : bs = PowerOfTwo[k],
         NEW algo \in Algorithms,
         NEW h \in ComputeHashLengthsAlgo(length, bs, algo)
  PROVE  /\ h \in HashLengths /\ h.RsumBytes \in 1 .. 4
         /\ h.ChecksumBytes \in 3 .. StrongHashFullLen(algo)
<1>1. StrongHashFullLen(algo) \in {16, 32} /\ (algo = "BLAKE3" => StrongHashFullLen(algo) = 32)
  BY DEF StrongHashFullLen, Algorithms
<1>2. CASE length = 0
  <2>1. h = [SeqMatches |-> 1, RsumBytes |-> 2, ChecksumBytes |-> 3]
    BY <1>2 DEF ComputeHashLengthsAlgo
  <2>. QED BY <1>1, <2>1 DEF HashLengths
<1>3. CASE length # 0
  <2> DEFINE l == Log2(length)
             b == Log2(bs)
             seq == IF length > bs THEN 2 ELSE 1
             nlo == IF l < b THEN 0 ELSE l - b
             nhi == IF l < b THEN 0 ELSE l - b + 1
             rsum(m) == CeilDiv(10 * (m + b) - 86, 80 * seq)
             first == CeilDiv(20 + l + nlo, 8 * seq)
             last == (21 + l + nhi) \div (8 * seq) + 1
             Cs2 == {(27 + nlo) \div 8, (27 + nhi) \div 8}
             floor == IF algo = "BLAKE3" THEN 16 ELSE 0
  <2> DEFINE Rs == { Min({4, Max({2, rsum(m)})}) : m \in {l, l + 1} }
             widest(c1, c2) == Max({c1, c2, floor})
             Cs == { widest(c1, c2) : c1 \in first .. last, c2 \in Cs2 }
             H == [SeqMatches : {seq}, RsumBytes : Rs, ChecksumBytes : Cs]
  <2>1. h.SeqMatches = seq /\ h.RsumBytes \in Rs /\ h.ChecksumBytes \in Cs /\ h \in H
    <3>1. ComputeHashLengthsAlgo(length, bs, algo) =
            IF length = 0 THEN { [SeqMatches |-> 1, RsumBytes |-> 2, ChecksumBytes |-> 3] } ELSE H
      BY DEF ComputeHashLengthsAlgo
    <3>2. h \in H
      <4>. HIDE DEF H
      <4>. QED BY <1>3, <3>1
    <3>. HIDE DEF seq, Rs, Cs
    <3>. QED BY <3>2
  <2>2. l \in Logs /\ PowerOfTwo[l] <= length
    <3>. HIDE DEF l
    <3>. QED BY <1>3, Logarithm DEF l
  <2>3. b \in Logs /\ bs < PowerOfTwo[b + 1] /\ bs \in Nat
    <3>1. PICK k \in Logs : bs = PowerOfTwo[k]
      OBVIOUS
    <3>2. HasLog(bs, k) /\ bs \in Nat
      BY <3>1, PowerHasLog
    <3>. HIDE DEF b
    <3>. QED BY <3>2, Logarithm DEF b
  <2>4. l \in 0 .. 62 /\ b \in 0 .. 62
    BY <2>2, <2>3 DEF Logs
  <2>. HIDE DEF l, b
  <2>5. seq \in {1, 2} /\ (l > b => seq = 2)
    <3>1. CASE l > b
      <4>1. PowerOfTwo[b + 1] <= PowerOfTwo[l]
        <5>1. CASE l = b + 1
          BY <2>4, <5>1, PowersOfTwo
        <5>2. CASE l > b + 1
          <6>1. b + 1 \in Nat /\ l \in Nat
            BY <2>4
          <6>2. PowerOfTwo[l] > PowerOfTwo[b + 1]
            BY <5>2, <6>1, PowersGrow
          <6>3. PowerOfTwo[l] \in Nat /\ PowerOfTwo[b + 1] \in Nat
            BY <6>1, PowersOfTwo
          <6>. QED BY <6>2, <6>3
        <5>. QED BY <2>4, <3>1, <5>1, <5>2
      <4>2. PowerOfTwo[l] \in Nat /\ PowerOfTwo[b + 1] \in Nat
        BY <2>4, PowersOfTwo
      <4>3. length > bs
        BY <2>2, <2>3, <4>1, <4>2
      <4>. QED BY <4>3
    <3>. QED BY <3>1
  <2>. HIDE DEF seq
  <2>6. \A m \in {l, l + 1} : rsum(m) \in Int
    BY <2>4, <2>5 DEF CeilDiv
  <2>7. first .. last \subseteq 0 .. 11
    <3>1. first \in Nat
      <4>1. \A t \in 20 .. 144 : CeilDiv(t, 8) \in Nat /\ CeilDiv(t, 16) \in Nat
        BY DEF CeilDiv
      <4>2. 20 + l + nlo \in 20 .. 144
        BY <2>4
      <4>. HIDE DEF nlo
      <4>3. CASE seq = 1
        BY <4>1, <4>2, <4>3
      <4>4. CASE seq = 2
        BY <4>1, <4>2, <4>4
      <4>. QED BY <2>5, <4>3, <4>4
    <3>2. last \in 0 .. 11
      <4>1. \A t \in 21 .. 146 : t \div 16 + 1 \in 0 .. 11
        OBVIOUS
      <4>2. \A t \in 21 .. 84 : t \div 8 + 1 \in 0 .. 11
        OBVIOUS
      <4>3. 21 + l + nhi \in 21 .. 146 /\ (l <= b => 21 + l + nhi \in 21 .. 84)
        BY <2>4
      <4>. HIDE DEF nhi
      <4>4. CASE seq = 2
        BY <4>1, <4>3, <4>4
      <4>5. CASE seq = 1
        <5>1. l <= b
          BY <2>4, <2>5, <4>5
        <5>. QED BY <4>2, <4>3, <4>5, <5>1
      <4>. QED BY <2>5, <4>4, <4>5
    <3>. HIDE DEF first, last
    <3>. QED BY <3>1, <3>2
  <2>8. Cs2 \subseteq 3 .. 11
    <3>1. \A t \in 27 .. 90 : t \div 8 \in 3 .. 11
      OBVIOUS
    <3>2. 27 + nlo \in 27 .. 90 /\ 27 + nhi \in 27 .. 90
      BY <2>4
    <3>. HIDE DEF nlo, nhi
    <3>. QED BY <3>1, <3>2
  <2>9. floor \in {0, 16} /\ floor <= StrongHashFullLen(algo)
    BY <1>1
  <2>. HIDE DEF rsum, first, last, Cs2, floor
  <2>10. h.ChecksumBytes \in 3 .. StrongHashFullLen(algo)
    <3>1. PICK c1 \in first .. last, c2 \in Cs2 : h.ChecksumBytes = widest(c1, c2)
      <4>1. h.ChecksumBytes \in Cs
        BY <2>1
      <4>. HIDE DEF widest
      <4>. QED BY <4>1
    <3>2. c1 \in 0 .. 11 /\ c2 \in 3 .. 11 /\ c1 \in Int /\ c2 \in Int /\ floor \in Int
      BY <2>7, <2>8, <2>9, <3>1
    <3> DEFINE c == widest(c1, c2)
    <3>3. c \in {c1, c2, floor} /\ c >= c2
      BY <3>2, MaxOfThree
    <3>4. h.ChecksumBytes = c
      BY <3>1
    <3>. HIDE DEF c
    <3>. QED BY <1>1, <2>9, <3>2, <3>3, <3>4
  <2>11. h.RsumBytes \in 2 .. 4
    <3>1. PICK m \in {l, l + 1} : h.RsumBytes = Min({4, Max({2, rsum(m)})})
      BY <2>1
    <3> DEFINE r == Max({2, rsum(m)})
    <3>2. rsum(m) \in Int
      BY <2>6, <3>1
    <3>3. r \in {2, rsum(m)} /\ r >= 2
      BY <3>2, MaxOfTwo
    <3>4. r \in Int /\ r >= 2
      BY <3>2, <3>3
    <3>5. h.RsumBytes = Min({4, r})
      BY <3>1
    <3>. HIDE DEF r
    <3>6. Min({4, r}) = IF 4 <= r THEN 4 ELSE r
      BY <3>4, MinOfTwo
    <3>. QED BY <3>4, <3>5, <3>6
  <2>12. h.SeqMatches \in Int
    BY <2>1, <2>5
  <2>13. h = [SeqMatches |-> h.SeqMatches, RsumBytes |-> h.RsumBytes,
              ChecksumBytes |-> h.ChecksumBytes]
    BY <2>1
  <2>14. h.RsumBytes \in Int /\ h.ChecksumBytes \in Int
    BY <1>1, <2>10, <2>11
  <2>15. h \in HashLengths
    BY <2>12, <2>13, <2>14 DEF HashLengths
  <2>. QED BY <2>10, <2>11, <2>15
<1>. QED BY <1>2, <1>3

-----------------------------------------------------------------------------
(***************************************************************************)
(* What gozsyncmake makes can be written, and comes back as it is, but for *)
(* restart points without an encoding.                                     *)
(***************************************************************************)
LEMMA DefaultBlocks == 2048 = PowerOfTwo[11] /\ 4096 = PowerOfTwo[12]
<1>1. PowerOfTwo[1] = 2 /\ PowerOfTwo[2] = 4 /\ PowerOfTwo[3] = 8
  BY PowersOfTwo
<1>2. PowerOfTwo[4] = 16 /\ PowerOfTwo[5] = 32 /\ PowerOfTwo[6] = 64
  BY <1>1, PowersOfTwo
<1>3. PowerOfTwo[7] = 128 /\ PowerOfTwo[8] = 256 /\ PowerOfTwo[9] = 512
  BY <1>2, PowersOfTwo
<1>4. PowerOfTwo[10] = 1024 /\ PowerOfTwo[11] = 2048 /\ PowerOfTwo[12] = 4096
  BY <1>3, PowersOfTwo
<1>. QED BY <1>4

LEMMA BlocksizeLog ==
  ASSUME job \in Jobs, NEW total, IsPowerOfTwo(BlocksizeFor(total))
  PROVE  \E k \in Logs : BlocksizeFor(total) = PowerOfTwo[k]
<1>1. CASE job.blocksize # 0
  BY <1>1, MakeAssumption DEF BlocksizeFor
<1>2. CASE job.blocksize = 0
  <2>1. BlocksizeFor(total) \in {2048, 4096}
    BY <1>2 DEF BlocksizeFor
  <2>2. 11 \in Logs /\ 12 \in Logs
    BY DEF Logs
  <2>. QED BY <2>1, <2>2, DefaultBlocks
<1>. QED BY <1>1, <1>2

LEMMA SizeTypes ==
  ASSUME NEW n \in Sizes \cup {0}
  PROVE  n \in Nat /\ (n = 0 \/ \E k \in Logs : HasLog(n, k))
BY MakeAssumption

LEMMA NaturalProduct ==
  ASSUME NEW a \in Nat, NEW b \in Nat
  PROVE  a * b \in Nat
OBVIOUS

LEMMA Rounding ==
  ASSUME NEW n \in Nat, NEW d \in Nat \ {0}
  PROVE  CeilDiv(n, d) = (n + d - 1) \div d
<1> DEFINE q == (n + d - 1) \div d
           r == (-n) \div d
<1>1. /\ q \in Int /\ (n + d - 1) % d \in 0 .. d - 1
      /\ n + d - 1 = d * q + ((n + d - 1) % d)
  OBVIOUS
<1>2. /\ r \in Int /\ (-n) % d \in 0 .. d - 1 /\ -n = d * r + ((-n) % d)
  OBVIOUS
<1> DEFINE x == (n + d - 1) % d
           y == (-n) % d
<1>3. x \in 0 .. d - 1 /\ y \in 0 .. d - 1 /\ d * q + x = n + d - 1 /\ d * r + y = -n
  BY <1>1, <1>2
<1>. HIDE DEF q, r, x, y
<1>4. d * (q + r) = d - 1 - x - y
  <2>1. d * (q + r) = d * q + d * r
    BY <1>1, <1>2
  <2>. QED BY <1>1, <1>2, <1>3, <2>1
<1>5. d * (q + r) <= d - 1 /\ d * (q + r) >= 1 - d
  BY <1>3, <1>4
<1>6. q + r = 0
  <2>1. ~ q + r >= 1
    <3>. SUFFICES ASSUME q + r >= 1 PROVE FALSE
      OBVIOUS
    <3>1. q + r - 1 \in Nat
      BY <1>1, <1>2
    <3>2. d * (q + r - 1) \in Nat
      BY <3>1, NaturalProduct
    <3>3. d * (q + r - 1) = d * (q + r) - d
      BY <1>1, <1>2
    <3>. QED BY <1>1, <1>2, <1>5, <3>2, <3>3
  <2>2. ~ q + r <= -1
    <3>. SUFFICES ASSUME q + r <= -1 PROVE FALSE
      OBVIOUS
    <3>1. -1 - (q + r) \in Nat
      BY <1>1, <1>2
    <3>2. d * (-1 - (q + r)) \in Nat
      BY <3>1, NaturalProduct
    <3>3. d * (-1 - (q + r)) = -d - d * (q + r)
      BY <1>1, <1>2
    <3>. QED BY <1>1, <1>2, <1>5, <3>2, <3>3
  <2>. QED BY <1>1, <1>2, <2>1, <2>2
<1>7. q = -r
  BY <1>1, <1>2, <1>6
<1>. QED BY <1>7 DEF q, r, CeilDiv

LEMMA MadeFields ==
  ASSUME job \in Jobs, NEW total \in Sizes \cup {0}, NEW n \in Nat,
         IsPowerOfTwo(BlocksizeFor(total)),
         NEW hl \in ComputeHashLengthsAlgo(total, BlocksizeFor(total), job.algo),
         NEW c, c = MakeWithAlgo(total, n, hl)
  PROVE  /\ Writable(c) /\ c.Safe = {} /\ c.text["Z-Filename"] = None
         /\ c.ZMap = << >> /\ c.ZMap2Raw = << >>
         /\ c.Format = IF job.algo = "MD4" THEN "zsync" ELSE "zsync2"
<1> DEFINE md4 == job.algo = "MD4"
           bs == BlocksizeFor(total)
           us == URLsFor
           tg == target
           tx == [Defaults.text EXCEPT !["SHA-1"] = IF md4 THEN "sha1" ELSE None,
                                       !["Filename"] = tg]
           nb == CeilDiv(n, bs)
<1> DEFINE fm == IF md4 THEN "zsync" ELSE "zsync2"
           al == job.algo
           fh == IF md4 THEN None ELSE job.algo
           sh == IF md4 THEN "sha1" ELSE None
<1>1. c = [Format |-> fm, HashAlgorithm |-> al, FileHash |-> fh, text |-> tx,
           MTime |-> "mtime", Blocksize |-> bs, Length |-> n, HashLengths |-> hl,
           URLs |-> us, ZURLs |-> << >>, Safe |-> {}, ZMap2Raw |-> << >>, ZMap |-> << >>,
           Blocks |-> nb]
  <2> DEFINE t == [k \in Texts |-> None]
             h == [SeqMatches |-> 1, RsumBytes |-> 4, ChecksumBytes |-> 16]
             u == [t EXCEPT !["SHA-1"] = sh]
             x == [Defaults EXCEPT !.Format = fm, !.HashAlgorithm = al, !.FileHash = fh,
                                   !.text["SHA-1"] = sh]
             g == x
  <2>1. Defaults = [Format |-> "zsync", HashAlgorithm |-> "MD4", FileHash |-> None,
          text |-> t, MTime |-> None, Blocksize |-> 0, Length |-> 0,
          HashLengths |-> h, URLs |-> << >>, ZURLs |-> << >>, Safe |-> {},
          ZMap2Raw |-> << >>, ZMap |-> << >>, Blocks |-> 0]
    BY DEF Defaults
  <2>2. tx = [Defaults.text EXCEPT !["SHA-1"] = sh, !["Filename"] = tg]
    OBVIOUS
  <2>3. c = [g EXCEPT !.text["Filename"] = tg, !.MTime = "mtime",
               !.Blocksize = bs, !.Length = n, !.HashLengths = hl, !.URLs = us,
               !.Blocks = nb]
    BY DEF MakeWithAlgo
  <2>. HIDE DEF fm, al, fh, sh, bs, us, tg, nb, tx, t, h, None
  <2>4. g = x
    OBVIOUS
  <2>. HIDE DEF g
  <2>5. g = [Format |-> fm, HashAlgorithm |-> al, FileHash |-> fh,
          text |-> u, MTime |-> None, Blocksize |-> 0, Length |-> 0,
          HashLengths |-> h, URLs |-> << >>, ZURLs |-> << >>, Safe |-> {},
          ZMap2Raw |-> << >>, ZMap |-> << >>, Blocks |-> 0]
    BY <2>1, <2>4
  <2>6. tx = [u EXCEPT !["Filename"] = tg]
    BY <2>1, <2>2
  <2>. HIDE DEF x, u
  <2>. QED BY <2>3, <2>5, <2>6
<1>2. /\ job.algo \in Algorithms /\ job.urls \in Seq(Names)
      /\ job.filename \in Names /\ job.base \in Names /\ job.input \in Names
      /\ {"mtime", "sha1", None} \subseteq Words /\ Names \subseteq Words \cup NoValue
  BY MakeAssumption DEF Words, Calls, Names, NoValue
<1>20. tg \in Names
  BY <1>2 DEF target
<1>3. \E k \in Logs : bs = PowerOfTwo[k]
  BY BlocksizeLog
<1>4. bs \in Nat \ {0}
  BY <1>3, PowersOfTwo DEF Logs
<1>5. /\ hl \in HashLengths /\ hl.RsumBytes \in 1 .. 4
      /\ hl.ChecksumBytes \in 3 .. StrongHashFullLen(job.algo)
  BY <1>2, <1>3, SizeTypes, HashLengthsSound
<1>6. nb = (n + bs - 1) \div bs
  BY <1>4, Rounding
<1>7. nb \in Int
  BY <1>4, <1>6
<1>8. us \in Seq(Words \cup NoValue)
  <2>1. (IF tg = None THEN Empty ELSE tg) \in Words \cup NoValue
    BY <1>2, <1>20 DEF NoValue
  <2>2. job.urls \in Seq(Words \cup NoValue)
    <3>1. \A S, T : S \subseteq T => Seq(S) \subseteq Seq(T)
      OBVIOUS
    <3>. QED BY <1>2, <3>1
  <2>3. << IF tg = None THEN Empty ELSE tg >> \in Seq(Words \cup NoValue)
    <3>1. \A t : t \in Words \cup NoValue => << t >> \in Seq(Words \cup NoValue)
      OBVIOUS
    <3>. QED BY <2>1, <3>1, Zenon
  <2>4. us = IF job.urls # << >> THEN job.urls ELSE << IF tg = None THEN Empty ELSE tg >>
    BY DEF URLsFor
  <2>. QED BY <2>2, <2>3, <2>4
<1>9. /\ tx \in [Texts -> Words \cup NoValue]
      /\ tx["Z-Filename"] = None
  <2>1. Defaults.text = [k \in Texts |-> None]
    BY DEF Defaults
  <2>2. \A k \in Texts : tx[k] \in {"sha1", tg, None}
    BY <2>1
  <2>3. tx["Z-Filename"] = None /\ tx = [k \in Texts |-> tx[k]]
    BY <2>1 DEF Texts
  <2>. HIDE DEF tx, tg
  <2>. QED BY <1>2, <1>20, <2>2, <2>3
<1>. HIDE DEF bs, us, tg, tx, nb
<1>10. /\ c.Format = (IF md4 THEN "zsync" ELSE "zsync2") /\ c.HashAlgorithm = job.algo
       /\ c.FileHash = (IF md4 THEN None ELSE job.algo) /\ c.text = tx /\ c.MTime = "mtime"
       /\ c.Blocksize = bs /\ c.Length = n /\ c.HashLengths = hl /\ c.URLs = us
       /\ c.Blocks = nb /\ c.ZURLs = << >> /\ c.Safe = {} /\ c.ZMap2Raw = << >>
       /\ c.ZMap = << >>
  BY <1>1
<1>11. c \in ControlFiles
  <2>1. /\ (IF md4 THEN "zsync" ELSE "zsync2") \in Formats
        /\ (IF md4 THEN None ELSE job.algo) \in Algorithms \cup {None}
    BY <1>2 DEF Formats
  <2>2. "mtime" \in Words \cup NoValue /\ bs \in Int /\ n \in Int /\ al \in Algorithms
    BY <1>2, <1>4
  <2>3. /\ << >> \in Seq(Words \cup NoValue) /\ << >> \in Seq(WireEntries)
        /\ << >> \in Seq(ZMapEntries) /\ {} \in SUBSET Words
    BY EmptySeq
  <2>4. hl \in HashLengths /\ tx \in [Texts -> Words \cup NoValue]
    BY <1>5, <1>9
  <2>5. fm \in Formats /\ fh \in Algorithms \cup {None}
    BY <2>1
  <2>. HIDE DEF fm, fh, al
  <2>. QED BY <1>1, <1>7, <1>8, <2>2, <2>3, <2>4, <2>5 DEF ControlFiles
<1>12. sound(c)
  <2>1. IsPowerOfTwo(bs) /\ bs > 0 /\ n >= 0
    BY <1>4 DEF bs
  <2>. QED BY <1>5, <1>10, <2>1 DEF sound
<1>13. Wellformed(c)
  <2>1. "mtime" \notin NoValue
    BY <1>2, ValueAssumption DEF NoValue
  <2>2. "zsync" # "zsync2"
    OBVIOUS
  <2>. QED BY <1>9, <1>10, <1>11, <2>1, <2>2 DEF Wellformed
<1>14. c.Blocks = NumBlocks(c)
  BY <1>4, <1>6, <1>10 DEF NumBlocks
<1>15. VerifyFileHash(c)
  BY <1>10 DEF VerifyFileHash
<1>. QED BY <1>9, <1>10, <1>12, <1>13, <1>14, <1>15 DEF Writable

LEMMA MadePlain ==
  ASSUME NEW c, Writable(c), c.Safe = {}, c.text["Z-Filename"] = None,
         c.ZMap = DecodeZMap2(c.ZMap2Raw)
  PROVE  Kept(c) = c
<1> DEFINE d == Kept(c)
<1>1. c \in ControlFiles
  BY DEF Writable, Wellformed
<1>2. /\ d \in ControlFiles
      /\ d.Format = c.Format /\ d.HashAlgorithm = c.HashAlgorithm
      /\ d.FileHash = c.FileHash /\ d.MTime = c.MTime
      /\ d.Blocksize = c.Blocksize /\ d.Length = c.Length
      /\ d.HashLengths = c.HashLengths /\ d.URLs = c.URLs
      /\ d.ZURLs = c.ZURLs /\ d.Safe = c.Safe /\ d.ZMap2Raw = c.ZMap2Raw
      /\ d.ZMap = c.ZMap /\ d.Blocks = c.Blocks
      /\ \A k \in Texts : d.text[k] = IF k = "Z-Filename" THEN None ELSE c.text[k]
  BY <1>1, KeptFields
<1>. HIDE DEF d
<1>3. \A k \in Texts : d.text[k] = c.text[k]
  BY <1>2
<1>4. d = c
  BY <1>1, <1>2, <1>3, SameFile
<1>. QED BY <1>4 DEF d

\* The restart points of a walk that has ended.
LEMMA MadeGz ==
  ASSUME NEW c, Writable(c), c.Format = "zsync", c.Safe = {}, c.text["Z-Filename"] = None,
         WalkTypeOK, CheckpointsInTime, MapReadsBack, NEW zu \in Seq(Words \cup NoValue),
         NEW d, d = [c EXCEPT !.ZURLs = zu,
                              !.ZMap2Raw = IF Encodable(entries) THEN EncodeZMap2(entries)
                                                                 ELSE << >>,
                              !.ZMap = entries]
  PROVE  /\ Writable(d)
         /\ Kept(d) = IF Encodable(d.ZMap) THEN d ELSE [d EXCEPT !.ZMap = << >>]
<1> DEFINE raw == IF Encodable(entries) THEN EncodeZMap2(entries) ELSE << >>
<1>0. c \in ControlFiles /\ Wellformed(c) /\ sound(c) /\ c.Blocks = NumBlocks(c)
        /\ VerifyFileHash(c)
  BY DEF Writable, Wellformed
<1>2. raw \in Seq(WireEntries)
  <2>1. CASE ~Encodable(entries)
    BY <2>1, EmptySeq
  <2>2. CASE Encodable(entries)
    <3>1. entries \in Seq(ZMapEntries) /\ DOMAIN entries = 1 .. Len(entries)
            /\ Len(entries) \in Nat
      BY LenProperties DEF WalkTypeOK
    <3>2. ASSUME NEW i \in 1 .. Len(entries) PROVE EncodeZMap2(entries)[i] \in WireEntries
      <4>1. InDelta(entries, i) \in 0 .. InField - 1 /\ OutDelta(entries, i) >= 0
        BY <3>1 DEF CheckpointsInTime
      <4>2. OutDelta(entries, i) < OutField /\ OutDelta(entries, i) \in Int
        BY <2>2, <3>1, OutDeltaType DEF Encodable
      <4>3. OutDelta(entries, i) + (IF entries[i].IsBlockStart THEN 0 ELSE OutField)
              \in 0 .. 2 * OutField - 1
        BY <4>1, <4>2, WireAssumption
      <4>4. EncodeZMap2(entries)[i] =
              [in |-> InDelta(entries, i),
               ob |-> OutDelta(entries, i) + (IF entries[i].IsBlockStart THEN 0 ELSE OutField)]
        BY <3>1 DEF EncodeZMap2
      <4>. QED BY <4>1, <4>3, <4>4 DEF WireEntries
    <3>3. EncodeZMap2(entries) \in [1 .. Len(entries) -> WireEntries]
      <4>1. EncodeZMap2(entries) = [i \in 1 .. Len(entries) |-> EncodeZMap2(entries)[i]]
        BY <3>1 DEF EncodeZMap2
      <4>. QED BY <3>2, <4>1
    <3>. QED BY <2>2, <3>1, <3>3
  <2>. QED BY <2>1, <2>2
<1>3. entries \in Seq(ZMapEntries)
  BY DEF WalkTypeOK
<1>4. d = [c EXCEPT !.ZURLs = zu, !.ZMap2Raw = raw, !.ZMap = entries]
  OBVIOUS
<1>5. DecodeZMap2(raw) = IF Encodable(entries) THEN entries ELSE << >>
  BY DecodeNone DEF MapReadsBack
<1>. HIDE DEF raw
<1>6. /\ d \in ControlFiles /\ d.Format = c.Format /\ d.HashAlgorithm = c.HashAlgorithm
      /\ d.FileHash = c.FileHash /\ d.text = c.text /\ d.MTime = c.MTime
      /\ d.Blocksize = c.Blocksize /\ d.Length = c.Length /\ d.HashLengths = c.HashLengths
      /\ d.URLs = c.URLs /\ d.ZURLs = zu /\ d.Safe = c.Safe /\ d.ZMap2Raw = raw
      /\ d.ZMap = entries /\ d.Blocks = c.Blocks
  BY <1>0, <1>2, <1>3, <1>4 DEF ControlFiles
<1>7. Wellformed(d)
  BY <1>0, <1>6 DEF Wellformed
<1>8. sound(d) /\ NumBlocks(d) = NumBlocks(c) /\ VerifyFileHash(d)
  BY <1>0, <1>6 DEF sound, NumBlocks, VerifyFileHash
<1>9. Writable(d)
  BY <1>0, <1>6, <1>7, <1>8 DEF Writable
<1>10. CASE Encodable(entries)
  <2>1. d.ZMap = DecodeZMap2(d.ZMap2Raw)
    BY <1>5, <1>6, <1>10
  <2>2. Kept(d) = d
    BY <1>6, <1>9, <2>1, MadePlain
  <2>. QED BY <1>6, <1>9, <1>10, <2>2
<1>11. CASE ~Encodable(entries)
  <2> DEFINE e == [d EXCEPT !.ZMap = << >>]
  <2>1. << >> \in Seq(ZMapEntries) /\ DecodeZMap2(raw) = << >>
    BY <1>5, <1>11, EmptySeq
  <2>2. /\ e \in ControlFiles /\ e.Format = d.Format /\ e.HashAlgorithm = d.HashAlgorithm
        /\ e.FileHash = d.FileHash /\ e.text = d.text /\ e.MTime = d.MTime
        /\ e.Blocksize = d.Blocksize /\ e.Length = d.Length /\ e.HashLengths = d.HashLengths
        /\ e.URLs = d.URLs /\ e.ZURLs = d.ZURLs /\ e.Safe = d.Safe
        /\ e.ZMap2Raw = d.ZMap2Raw /\ e.ZMap = << >> /\ e.Blocks = d.Blocks
    BY <1>6, <2>1 DEF ControlFiles
  <2>. HIDE DEF e
  <2>3. Kept(d) = e
    <3> DEFINE k == Kept(d)
    <3>1. /\ k \in ControlFiles
          /\ k.Format = d.Format /\ k.HashAlgorithm = d.HashAlgorithm
          /\ k.FileHash = d.FileHash /\ k.MTime = d.MTime
          /\ k.Blocksize = d.Blocksize /\ k.Length = d.Length
          /\ k.HashLengths = d.HashLengths /\ k.URLs = d.URLs
          /\ k.ZURLs = d.ZURLs /\ k.Safe = {} /\ k.ZMap2Raw = d.ZMap2Raw
          /\ k.ZMap = DecodeZMap2(d.ZMap2Raw) /\ k.Blocks = d.Blocks
          /\ \A t \in Texts : k.text[t] = IF t = "Z-Filename" THEN None ELSE d.text[t]
      BY <1>6, KeptFields
    <3>. HIDE DEF k
    <3>2. \A t \in Texts : k.text[t] = e.text[t]
      BY <1>6, <2>2, <3>1
    <3>3. k.ZMap = e.ZMap /\ k.Safe = e.Safe
      BY <1>6, <2>1, <2>2, <3>1
    <3>4. k = e
      BY <2>2, <3>1, <3>2, <3>3, SameFile
    <3>. QED BY <3>4 DEF k
  <2>. QED BY <1>6, <1>9, <1>11, <2>3 DEF e
<1>. QED BY <1>10, <1>11

-----------------------------------------------------------------------------
(***************************************************************************)
(* The invariant is kept by every step.                                    *)
(***************************************************************************)
Inv == MakeTypeOK /\ PaceInv /\ Counting /\ ReadInv /\ FilesInv

LEMMA PiecesType ==
  ASSUME NEW c \in ControlFiles
  PROVE  Pieces(Write(c)) \in Nat
<1>1. Len(Header(c)) \in Nat
  BY HeaderPlaces
<1>2. Write(c).lines = Header(c)
  BY DEF Write
<1>. QED BY <1>1, <1>2 DEF Pieces

LEMMA WriteInFiles ==
  ASSUME NEW c \in ControlFiles, sound(c), c.Blocks = NumBlocks(c)
  PROVE  Write(c) \in Files
<1>1. c.Blocks * RowBytes(c) \in Nat
  BY Rows
<1>2. Header(c) \in Seq(Lines)
  BY HeaderPlaces
<1>. QED BY <1>1, <1>2 DEF Write, Files

LEMMA FilesInitially == Init => MakeTypeOK /\ FilesInv
<1>. SUFFICES ASSUME Init PROVE MakeTypeOK /\ FilesInv
  OBVIOUS
<1>1. /\ phase = "idle" /\ file = EmptyFile /\ next = 1 /\ cf = Defaults
      /\ mk = "start" /\ job = NoJob /\ size = 0
      /\ made = Defaults /\ written = -1 /\ before = Defaults
  BY DEF Init, ReadInit
<1>2. WalkTypeOK
  BY PaceInitially DEF Init, PaceInv
<1>3. EmptyFile \in Files /\ Len(EmptyFile.lines) = 0
  <2>1. << >> \in Seq(Lines) /\ Len(<< >>) = 0
    BY EmptySeq
  <2>. QED BY <2>1 DEF EmptyFile, Files
<1>4. Pieces(Write(Defaults)) \in Nat
  BY DefaultsWellformed, PiecesType
<1>5. MakeTypeOK
  BY <1>1, <1>2, <1>3, <1>4, DefaultsWellformed DEF MakeTypeOK
<1>6. FilesInv
  BY <1>1, DefaultsWellformed DEF FilesInv, ReaderInv, MakerInv, OfMadeInv, OfBeforeInv
<1>. QED BY <1>5, <1>6

(***************************************************************************)
(* Reading.                                                                *)
(***************************************************************************)
LEMMA ReadingTypes ==
  ASSUME ReaderInv, file \in Files, next \in 1 .. Len(file.lines) + 1, Reading
  PROVE  /\ ReaderInv' /\ file' = file /\ next' \in 1 .. Len(file.lines) + 1
         /\ phase' \in {"headers", "accepted", "rejected"}
<1>1. file.lines \in Seq(Lines) /\ Len(file.lines) \in Nat
        /\ DOMAIN file.lines = 1 .. Len(file.lines)
  BY LenProperties DEF Files
<1>2. Wellformed(cf) /\ NoEmpty(cf)
  BY DEF ReaderInv
<1>3. CASE Magic
  <2>1. /\ phase' \in {"headers", "rejected"} /\ next' = next + 1 /\ file' = file
        /\ next \in 1 .. Len(file.lines) /\ cf = Defaults
    BY <1>1, <1>3 DEF Magic, ReaderInv
  <2>2. CASE Current.key \in Formats /\ Current.val # Empty
    <3>1. cf' = [Defaults EXCEPT !.Format = Current.key,
                   !.HashAlgorithm = IF Current.key = "zsync" THEN "MD4" ELSE "BLAKE3"]
      BY <1>3, <2>1, <2>2 DEF Magic
    <3>2. Wellformed(cf') /\ NoEmpty(cf')
      BY <2>2, <3>1, MagicWellformed
    <3>. QED BY <1>1, <2>1, <3>2 DEF ReaderInv
  <2>3. CASE ~(Current.key \in Formats /\ Current.val # Empty)
    <3>1. cf' = cf
      BY <1>3, <2>3 DEF Magic
    <3>. QED BY <1>1, <1>2, <2>1, <3>1 DEF ReaderInv
  <2>. QED BY <2>2, <2>3
<1>4. CASE ApplyLine
  <2>1. /\ phase' \in {"headers", "rejected"} /\ next' = next + 1 /\ file' = file
        /\ next \in 1 .. Len(file.lines)
    BY <1>1, <1>4 DEF ApplyLine
  <2>2. CASE admits(cf, Current)
    <3>1. cf' = applyHeader(cf, Current)
      BY <1>4, <2>2 DEF ApplyLine
    <3>2. Current \in Lines
      BY <1>1, <2>1, ElementOfSeq DEF Current
    <3>3. Wellformed(cf') /\ NoEmpty(cf')
      BY <1>2, <2>2, <3>1, <3>2, StaysWellformed
    <3>. QED BY <1>1, <2>1, <3>3 DEF ReaderInv
  <2>3. CASE ~admits(cf, Current)
    <3>1. cf' = cf
      BY <1>4, <2>3 DEF ApplyLine
    <3>. QED BY <1>1, <1>2, <2>1, <3>1 DEF ReaderInv
  <2>. QED BY <2>2, <2>3
<1>5. CASE BlockTable
  <2>1. phase' \in {"accepted", "rejected"} /\ next' = next /\ file' = file
    BY <1>5 DEF BlockTable
  <2>2. CASE phase' = "accepted"
    <3>1. sound(cf) /\ cf' = [cf EXCEPT !.Blocks = NumBlocks(cf)]
      BY <1>5, <2>2 DEF BlockTable
    <3>2. cf \in ControlFiles
      BY <1>2 DEF Wellformed
    <3>3. NumBlocks(cf) \in Int
      BY <3>1, <3>2, Rows
    <3>4. /\ cf' \in ControlFiles /\ cf'.Blocks = NumBlocks(cf)
          /\ cf'.Format = cf.Format /\ cf'.HashAlgorithm = cf.HashAlgorithm
          /\ cf'.FileHash = cf.FileHash /\ cf'.text = cf.text /\ cf'.MTime = cf.MTime
          /\ cf'.Blocksize = cf.Blocksize /\ cf'.Length = cf.Length
          /\ cf'.HashLengths = cf.HashLengths /\ cf'.URLs = cf.URLs
          /\ cf'.ZURLs = cf.ZURLs /\ cf'.ZMap2Raw = cf.ZMap2Raw
      BY <3>1, <3>2, <3>3 DEF ControlFiles
    <3>5. Wellformed(cf') /\ NoEmpty(cf')
      BY <1>2, <3>4 DEF Wellformed, NoEmpty
    <3>6. sound(cf') /\ NumBlocks(cf') = NumBlocks(cf)
      BY <3>1, <3>4 DEF sound, NumBlocks
    <3>. QED BY <2>1, <2>2, <3>4, <3>5, <3>6 DEF ReaderInv
  <2>3. CASE phase' = "rejected"
    <3>1. cf' = cf
      BY <1>5, <2>3 DEF BlockTable
    <3>. QED BY <1>2, <2>1, <2>3, <3>1 DEF ReaderInv
  <2>. QED BY <2>1, <2>2, <2>3
<1>. QED BY <1>3, <1>4, <1>5 DEF Reading

LEMMA AllPieces ==
  ASSUME NEW c, Writable(c)
  PROVE  /\ Pieces(Write(c)) \in 0 .. Pieces(Write(c))
         /\ FirstPieces(Write(c), Pieces(Write(c))) = Write(c)
<1> DEFINE k == Pieces(Write(c))
           f == FirstPieces(Write(c), k)
<1>1. c \in ControlFiles
  BY DEF Writable, Wellformed
<1>2. k \in 0 .. Pieces(Write(c))
  BY <1>1, PiecesType
<1>3. f = Write(c)
  <2>1. f = FirstPieces(Write(c), k) /\ k = Pieces(Write(c))
    OBVIOUS
  <2>. HIDE DEF f, k
  <2>. QED BY <1>2, <2>1, PiecesOfFile
<1>. QED BY <1>2, <1>3

LEMMA ReadStepFiles ==
  ASSUME Inv, ReadStep
  PROVE  FilesInv'
<1>1. /\ Reading /\ mk' = mk /\ job' = job /\ made' = made
      /\ written' = written /\ before' = before
  BY DEF ReadStep, makeVars
<1>2. /\ ReaderInv' /\ file' = file /\ phase' \in {"headers", "accepted", "rejected"}
      /\ next' \in 1 .. Len(file.lines) + 1
  BY <1>1, ReadingTypes DEF Inv, MakeTypeOK, FilesInv
<1>3. /\ cf \in ControlFiles /\ next \in 1 .. Len(file.lines) + 1
      /\ MakerInv /\ OfMadeInv /\ OfBeforeInv
  BY DEF Inv, MakeTypeOK, FilesInv
<1>4. MakerInv'
  BY <1>1, <1>2, <1>3 DEF MakerInv
<1>5. phase # "idle"
  BY <1>1 DEF Reading, Magic, ApplyLine, BlockTable
<1>6. OfMadeInv'
  <2>. SUFFICES ASSUME mk # "other", before = Defaults
                PROVE  /\ written >= 0
                       /\ \E k \in 0 .. Pieces(Write(made)) : file = FirstPieces(Write(made), k)
                       /\ Rereads(made, phase', file, next', cf')
    BY <1>1, <1>2 DEF OfMadeInv
  <2>1. /\ written >= 0
        /\ \E k \in 0 .. Pieces(Write(made)) : file = FirstPieces(Write(made), k)
        /\ Rereads(made, phase, file, next, cf)
    BY <1>3, <1>5 DEF OfMadeInv
  <2>2. Writable(made)
    BY <1>3, <2>1 DEF MakerInv, IsMade
  <2>3. Rereads(made, phase', file, next', cf')
    BY <1>1, <1>3, <2>1, <2>2, RereadStep
  <2>. QED BY <2>1, <2>3
<1>7. OfBeforeInv'
  <2>1. before # Defaults => before.ZMap = DecodeZMap2(before.ZMap2Raw)
    BY <1>3 DEF OfBeforeInv
  <2>2. ASSUME before # Defaults, VerifyFileHash(before)
        PROVE  /\ Writable(before) /\ NoEmpty(before)
               /\ file = Write(before)
               /\ Rereads(before, phase', file, next', cf')
    <3>1. /\ Writable(before) /\ NoEmpty(before)
          /\ file = Write(before) /\ Rereads(before, phase, file, next, cf)
      BY <1>3, <2>2 DEF OfBeforeInv
    <3>2. PICK k \in 0 .. Pieces(Write(before)) : file = FirstPieces(Write(before), k)
      BY <3>1, AllPieces
    <3>3. Rereads(before, phase', file, next', cf')
      BY <1>1, <1>3, <3>1, <3>2, RereadStep
    <3>. QED BY <3>1, <3>3
  <2>. QED BY <1>1, <1>2, <2>1, <2>2 DEF OfBeforeInv
<1>. QED BY <1>2, <1>4, <1>6, <1>7 DEF FilesInv

LEMMA ReadStarts ==
  ASSUME NEW f, Read(f)
  PROVE  ReaderInv' /\ (\A c : Rereads(c, phase', file', next', cf'))
         /\ phase' = "magic" /\ file' = f /\ next' = 1 /\ cf' = Defaults
<1>1. phase' = "magic" /\ file' = f /\ next' = 1 /\ cf' = Defaults
  BY DEF Read
<1>2. ReaderInv'
  BY <1>1, DefaultsWellformed DEF ReaderInv
<1>3. ASSUME NEW c PROVE Rereads(c, phase', file', next', cf')
  BY <1>1 DEF Rereads
<1>. QED BY <1>1, <1>2, <1>3

(***************************************************************************)
(* Making.                                                                 *)
(***************************************************************************)
LEMMA MakesWritable ==
  ASSUME Inv, MakePlain \/ MakeGz
  PROVE  mk' \in {"write", "failed"} /\ (mk' = "write" => IsMade(made'))
           /\ made' \in ControlFiles
<1>0. /\ PaceInv /\ Counting /\ made \in ControlFiles /\ size \in Sizes \cup {0}
      /\ mk \in {"walk", "make"} => job \in Jobs
      /\ mk = "walk" => job.algo = "MD4"
  BY DEF Inv, MakeTypeOK, FilesInv, MakerInv
<1>1. CASE MakePlain
  <2>1. PICK n \in ReadSizes :
          IF IsPowerOfTwo(BlocksizeFor(size))
          THEN /\ \E hl \in ComputeHashLengthsAlgo(size, BlocksizeFor(size), job.algo) :
                    made' = MakeWithAlgo(size, n, hl)
               /\ mk' = "write"
          ELSE made' = made /\ mk' = "failed"
    BY <1>1 DEF MakePlain
  <2>2. CASE IsPowerOfTwo(BlocksizeFor(size))
    <3>1. job \in Jobs /\ n \in Nat
      BY <1>0, <1>1, MakeAssumption DEF MakePlain
    <3>2. /\ Writable(made') /\ made'.Safe = {} /\ made'.text["Z-Filename"] = None
          /\ made'.ZMap = << >> /\ made'.ZMap2Raw = << >>
      <4>1. PICK hl \in ComputeHashLengthsAlgo(size, BlocksizeFor(size), job.algo) :
              made' = MakeWithAlgo(size, n, hl)
        BY <2>1, <2>2
      <4>. QED BY <1>0, <2>2, <3>1, <4>1, MadeFields
    <3>3. Kept(made') = made'
      BY <3>2, DecodeNone, MadePlain
    <3>4. Encodable(made'.ZMap)
      BY <3>2 DEF Encodable
    <3>5. made' \in ControlFiles
      BY <3>2 DEF Writable, Wellformed
    <3>. QED BY <2>1, <2>2, <3>2, <3>3, <3>4, <3>5 DEF IsMade
  <2>3. CASE ~IsPowerOfTwo(BlocksizeFor(size))
    BY <1>0, <2>1, <2>3
  <2>. QED BY <2>2, <2>3
<1>2. CASE MakeGz
  <2>1. PICK n \in Sizes :
          IF IsPowerOfTwo(BlocksizeFor(n))
          THEN /\ \E hl \in ComputeHashLengthsAlgo(n, BlocksizeFor(n), job.algo) :
                    made' = [MakeWithAlgo(n, n, hl) EXCEPT
                               !.ZURLs = ZURLsFor,
                               !.ZMap2Raw = IF Encodable(entries) THEN EncodeZMap2(entries)
                                                                  ELSE << >>,
                               !.ZMap = entries]
               /\ mk' = "write"
          ELSE made' = made /\ mk' = "failed"
    BY <1>2 DEF MakeGz
  <2>2. CASE IsPowerOfTwo(BlocksizeFor(n))
    <3>1. job \in Jobs /\ job.algo = "MD4" /\ n \in Nat
      BY <1>0, <1>2, SizeTypes DEF MakeGz
    <3>10. PICK hl \in ComputeHashLengthsAlgo(n, BlocksizeFor(n), job.algo) :
             made' = [MakeWithAlgo(n, n, hl) EXCEPT
                        !.ZURLs = ZURLsFor,
                        !.ZMap2Raw = IF Encodable(entries) THEN EncodeZMap2(entries)
                                                           ELSE << >>,
                        !.ZMap = entries]
      BY <2>1, <2>2
    <3> DEFINE c == MakeWithAlgo(n, n, hl)
    <3>2. /\ Writable(c) /\ c.Safe = {} /\ c.text["Z-Filename"] = None
          /\ c.Format = "zsync"
      <4>1. c = MakeWithAlgo(n, n, hl) /\ n \in Sizes \cup {0}
        OBVIOUS
      <4>. HIDE DEF c
      <4>. QED BY <2>2, <3>1, <4>1, MadeFields
    <3>3. made' = [c EXCEPT !.ZURLs = ZURLsFor,
                            !.ZMap2Raw = IF Encodable(entries) THEN EncodeZMap2(entries)
                                                               ELSE << >>,
                            !.ZMap = entries]
      BY <3>10
    <3>4. WalkTypeOK /\ CheckpointsInTime /\ MapReadsBack
      BY <1>0, ReadsBack DEF PaceInv
    <3>. HIDE DEF c
    <3>5. IsMade(made')
      <4>1. ZURLsFor \in Seq(Words \cup NoValue)
        <5>1. job.zurls \in Seq(Names) /\ job.input \in Names
          BY <3>1, MakeAssumption DEF Calls
        <5>2. Names \subseteq Words \cup NoValue
          BY DEF Names, NoValue
        <5>3. \A S, T : S \subseteq T => Seq(S) \subseteq Seq(T)
          OBVIOUS
        <5>4. job.zurls \in Seq(Words \cup NoValue)
          BY <5>1, <5>2, <5>3
        <5>5. << job.input >> \in Seq(Words \cup NoValue)
          BY <5>1, <5>2
        <5>. QED BY <5>4, <5>5 DEF ZURLsFor
      <4>. QED BY <3>2, <3>3, <3>4, <4>1, MadeGz DEF IsMade
    <3>6. made' \in ControlFiles
      BY <3>5 DEF IsMade, Writable, Wellformed
    <3>. QED BY <2>1, <2>2, <3>5, <3>6
  <2>3. CASE ~IsPowerOfTwo(BlocksizeFor(n))
    BY <1>0, <2>1, <2>3
  <2>. QED BY <2>2, <2>3
<1>. QED BY <1>1, <1>2

(***************************************************************************)
(* A step of the writer, which leaves every reader alone.                  *)
(***************************************************************************)
LEMMA StartFiles ==
  ASSUME Inv, Start
  PROVE  FilesInv'
<1>1. /\ mk = "start" /\ phase = "idle" /\ job' \in Jobs
      /\ phase' = phase /\ file' = file /\ next' = next /\ cf' = cf
      /\ made' = made /\ written' = written /\ before' = before
      /\ mk' = IF ~job'.zmap THEN "make" ELSE IF job'.algo = "BLAKE3" THEN "failed" ELSE "walk"
  BY DEF Start, readVars
<1>2. ReaderInv /\ MakerInv /\ OfMadeInv /\ OfBeforeInv /\ written \in Int
  BY DEF Inv, FilesInv, MakeTypeOK
<1>3. ~(written >= 0)
  BY <1>1, <1>2 DEF MakerInv
<1>4. job'.algo \in Algorithms
  BY <1>1, MakeAssumption DEF Calls
<1>5. mk' \in {"make", "failed", "walk"} /\ (mk' = "walk" => job'.algo = "MD4")
  BY <1>1, <1>4 DEF Algorithms
<1>6. MakerInv'
  BY <1>1, <1>3, <1>5 DEF MakerInv
<1>7. ReaderInv'
  BY <1>1, <1>2 DEF ReaderInv
<1>8. OfMadeInv' /\ OfBeforeInv'
  BY <1>1, <1>2 DEF OfMadeInv, OfBeforeInv
<1>. QED BY <1>6, <1>7, <1>8 DEF FilesInv

\* The reader has nothing to do with what is made until it is written.
LEMMA MakeFiles ==
  ASSUME Inv, MakePlain \/ MakeGz \/ MakeFails
  PROVE  FilesInv'
<1>1. /\ mk \in {"walk", "make"} /\ job' = job
      /\ phase' = phase /\ file' = file /\ next' = next /\ cf' = cf
      /\ written' = written /\ before' = before
  BY DEF MakePlain, MakeGz, MakeFails, readVars
<1>2. ReaderInv /\ MakerInv /\ OfMadeInv /\ OfBeforeInv /\ written \in Int
  BY DEF Inv, FilesInv, MakeTypeOK
<1>3. ~(written >= 0)
  BY <1>1, <1>2 DEF MakerInv
<1>4. mk' \in {"write", "failed"} /\ (mk' = "write" => IsMade(made'))
  <2>1. CASE MakePlain \/ MakeGz
    BY <2>1, MakesWritable
  <2>2. CASE MakeFails
    BY <2>2 DEF MakeFails
  <2>. QED BY <2>1, <2>2
<1>5. MakerInv'
  BY <1>1, <1>3, <1>4 DEF MakerInv
<1>6. ReaderInv'
  BY <1>1, <1>2 DEF ReaderInv
<1>7. OfMadeInv'
  BY <1>1, <1>2, <1>3 DEF OfMadeInv
<1>8. OfBeforeInv'
  BY <1>1, <1>2 DEF OfBeforeInv
<1>. QED BY <1>5, <1>6, <1>7, <1>8 DEF FilesInv

LEMMA WriterFiles ==
  ASSUME Inv, Create \/ Flush \/ WriteFails
  PROVE  FilesInv'
<1>1. /\ mk = "write" /\ mk' \in {"write", "done", "failed"} /\ job' = job /\ made' = made
      /\ phase' = phase /\ file' = file /\ next' = next /\ cf' = cf /\ before' = before
      /\ phase = "idle" \/ ~(written >= 0)
  BY DEF Create, Flush, WriteFails, readVars
<1>2. ReaderInv /\ MakerInv /\ OfMadeInv /\ OfBeforeInv
  BY DEF Inv, FilesInv
<1>3. MakerInv'
  BY <1>1, <1>2 DEF MakerInv
<1>4. ReaderInv'
  BY <1>1, <1>2 DEF ReaderInv
<1>5. OfMadeInv'
  BY <1>1, <1>2 DEF OfMadeInv
<1>6. OfBeforeInv'
  BY <1>1, <1>2 DEF OfBeforeInv
<1>. QED BY <1>3, <1>4, <1>5, <1>6 DEF FilesInv

(***************************************************************************)
(* A reader takes a file up.                                               *)
(***************************************************************************)
LEMMA ReadMadeFiles ==
  ASSUME Inv, ReadMade
  PROVE  FilesInv' /\ file' \in Files
<1>1. /\ phase = "idle" /\ written >= 0 /\ Read(FirstPieces(Write(made), written))
      /\ mk' = mk /\ job' = job /\ made' = made /\ written' = written /\ before' = before
  BY DEF ReadMade, makeVars
<1>2. MakerInv /\ OfBeforeInv /\ written \in -1 .. Pieces(Write(made)) /\ made \in ControlFiles
  BY DEF Inv, FilesInv, MakeTypeOK
<1>3. before = Defaults
  BY <1>1, <1>2 DEF OfBeforeInv
<1>4. Writable(made) /\ written \in 0 .. Pieces(Write(made))
  <2>1. Pieces(Write(made)) \in Nat
    BY <1>2, PiecesType
  <2>. QED BY <1>1, <1>2, <2>1 DEF MakerInv, IsMade
<1>5. /\ ReaderInv' /\ Rereads(made, phase', file', next', cf')
      /\ phase' = "magic" /\ file' = FirstPieces(Write(made), written)
  BY <1>1, ReadStarts
<1>6. file' \in Files
  BY <1>4, <1>5, PiecesOfFile
<1>7. MakerInv'
  BY <1>1, <1>2, <1>5 DEF MakerInv
<1>8. OfMadeInv'
  BY <1>1, <1>4, <1>5 DEF OfMadeInv
<1>9. OfBeforeInv'
  BY <1>1, <1>3 DEF OfBeforeInv
<1>. QED BY <1>5, <1>6, <1>7, <1>8, <1>9 DEF FilesInv

LEMMA ReadOtherFiles ==
  ASSUME Inv, ReadOther
  PROVE  FilesInv' /\ file' \in Files
<1>1. /\ phase = "idle" /\ mk = "start" /\ mk' = "other"
      /\ job' = job /\ made' = made /\ written' = written /\ before' = before
  BY DEF ReadOther
<1>2. PICK f \in OtherFiles : Read(f)
  BY DEF ReadOther
<1>3. MakerInv /\ OfBeforeInv /\ written \in Int
  BY DEF Inv, FilesInv, MakeTypeOK
<1>4. ReaderInv' /\ phase' = "magic" /\ file' = f
  BY <1>2, ReadStarts
<1>5. file' \in Files
  BY <1>4, MakeAssumption
<1>6. MakerInv'
  BY <1>1, <1>3, <1>4 DEF MakerInv
<1>7. OfMadeInv'
  BY <1>1 DEF OfMadeInv
<1>8. before = Defaults
  BY <1>1, <1>3 DEF OfBeforeInv
<1>9. OfBeforeInv'
  BY <1>1, <1>8 DEF OfBeforeInv
<1>. QED BY <1>4, <1>5, <1>6, <1>7, <1>9 DEF FilesInv

LEMMA RewriteFiles ==
  ASSUME Inv, Rewrite
  PROVE  FilesInv' /\ file' \in Files
<1>1. /\ phase = "accepted" /\ before = Defaults /\ before' = cf /\ Read(Write(cf))
      /\ mk' = mk /\ job' = job /\ made' = made /\ written' = written
  BY DEF Rewrite
<1>2. /\ Wellformed(cf) /\ NoEmpty(cf) /\ sound(cf)
      /\ cf.Blocks = NumBlocks(cf) /\ cf \in ControlFiles /\ MakerInv
  BY <1>1 DEF Inv, FilesInv, ReaderInv, MakeTypeOK
<1>3. cf.ZMap = DecodeZMap2(cf.ZMap2Raw)
  BY DEF Inv, ReadInv, Coherent
<1>4. /\ ReaderInv' /\ phase' = "magic" /\ file' = Write(cf)
      /\ Rereads(cf, phase', file', next', cf')
  BY <1>1, ReadStarts
<1>5. file' \in Files
  BY <1>2, <1>4, WriteInFiles
<1>6. cf # Defaults
  BY <1>2 DEF sound, Defaults
<1>7. MakerInv'
  BY <1>1, <1>2, <1>4 DEF MakerInv
<1>8. OfMadeInv'
  BY <1>1, <1>6 DEF OfMadeInv
<1>9. VerifyFileHash(cf) => Writable(cf)
  BY <1>2 DEF Writable
<1>10. OfBeforeInv'
  BY <1>1, <1>2, <1>3, <1>4, <1>9 DEF OfBeforeInv
<1>. QED BY <1>4, <1>5, <1>7, <1>8, <1>10 DEF FilesInv

-----------------------------------------------------------------------------
LEMMA FilesStep == Inv /\ [Next]_vars => FilesInv'
<1>. SUFFICES ASSUME Inv, [Next]_vars PROVE FilesInv'
  OBVIOUS
<1>1. CASE UNCHANGED <<readVars, makeVars>>
  BY <1>1 DEF Inv, FilesInv, ReaderInv, MakerInv, OfMadeInv, OfBeforeInv, readVars, makeVars
<1>2. CASE UNCHANGED vars
  BY <1>1, <1>2 DEF vars
<1>3. CASE WalkStep
  BY <1>1, <1>3 DEF WalkStep
<1>4. CASE Start
  BY <1>4, StartFiles
<1>5. CASE MakePlain \/ MakeGz \/ MakeFails
  BY <1>5, MakeFiles
<1>6. CASE Create \/ Flush \/ WriteFails
  BY <1>6, WriterFiles
<1>7. CASE ReadMade
  BY <1>7, ReadMadeFiles
<1>8. CASE ReadOther
  BY <1>8, ReadOtherFiles
<1>9. CASE ReadStep
  BY <1>9, ReadStepFiles
<1>10. CASE Rewrite
  BY <1>10, RewriteFiles
<1>. QED BY <1>2, <1>3, <1>4, <1>5, <1>6, <1>7, <1>8, <1>9, <1>10 DEF Next

(***************************************************************************)
(* The types, each variable in turn.                                       *)
(***************************************************************************)
LEMMA ReaderTypes ==
  ASSUME Inv, [Next]_vars
  PROVE  /\ phase' \in {"idle", "magic", "headers", "accepted", "rejected"}
         /\ file' \in Files /\ next' \in 1 .. Len(file'.lines) + 1 /\ before' \in ControlFiles
<1>0. /\ phase \in {"idle", "magic", "headers", "accepted", "rejected"}
      /\ file \in Files /\ next \in 1 .. Len(file.lines) + 1
      /\ before \in ControlFiles /\ cf \in ControlFiles
  BY DEF Inv, MakeTypeOK
<1>1. \A f \in Files : 1 \in 1 .. Len(f.lines) + 1
  <2>. TAKE f \in Files
  <2>1. Len(f.lines) \in Nat
    BY LenProperties DEF Files
  <2>. QED BY <2>1
<1>2. CASE UNCHANGED <<readVars, before>>
  BY <1>0, <1>2 DEF readVars
<1>3. CASE Start \/ WalkStep \/ MakePlain \/ MakeGz \/ MakeFails
  BY <1>2, <1>3 DEF Start, WalkStep, MakePlain, MakeGz, MakeFails, makeVars
<1>4. CASE Create \/ Flush \/ WriteFails
  BY <1>2, <1>4 DEF Create, Flush, WriteFails
<1>5. CASE ReadMade
  <2>1. file' \in Files
    BY <1>5, ReadMadeFiles
  <2>2. phase' = "magic" /\ next' = 1 /\ before' = before
    BY <1>5 DEF ReadMade, Read, makeVars
  <2>. QED BY <1>0, <1>1, <2>1, <2>2
<1>6. CASE ReadOther
  <2>1. file' \in Files
    BY <1>6, ReadOtherFiles
  <2>2. phase' = "magic" /\ next' = 1 /\ before' = before
    BY <1>6 DEF ReadOther, Read
  <2>. QED BY <1>0, <1>1, <2>1, <2>2
<1>7. CASE Rewrite
  <2>1. file' \in Files
    BY <1>7, RewriteFiles
  <2>2. phase' = "magic" /\ next' = 1 /\ before' = cf
    BY <1>7 DEF Rewrite, Read
  <2>. QED BY <1>0, <1>1, <2>1, <2>2
<1>8. CASE ReadStep
  <2>1. /\ file' = file /\ next' \in 1 .. Len(file.lines) + 1
        /\ phase' \in {"headers", "accepted", "rejected"}
    BY <1>0, <1>8, ReadingTypes DEF ReadStep, Inv, FilesInv
  <2>2. before' = before
    BY <1>8 DEF ReadStep, makeVars
  <2>. QED BY <1>0, <2>1, <2>2
<1>9. CASE UNCHANGED vars
  BY <1>2, <1>9 DEF vars, makeVars
<1>. QED BY <1>3, <1>4, <1>5, <1>6, <1>7, <1>8, <1>9 DEF Next

LEMMA MakerTypes ==
  ASSUME Inv, [Next]_vars
  PROVE  /\ mk' \in {"start", "walk", "make", "write", "done", "failed", "other"}
         /\ job' \in Jobs \cup {NoJob} /\ size' \in Sizes \cup {0}
         /\ made' \in ControlFiles /\ written' \in -1 .. Pieces(Write(made'))
<1>0. /\ mk \in {"start", "walk", "make", "write", "done", "failed", "other"}
      /\ job \in Jobs \cup {NoJob} /\ size \in Sizes \cup {0}
      /\ made \in ControlFiles /\ written \in -1 .. Pieces(Write(made)) /\ MakerInv
  BY DEF Inv, MakeTypeOK, FilesInv
<1>1. \A c \in ControlFiles : Pieces(Write(c)) \in Nat
  BY PiecesType
<1>2. CASE UNCHANGED <<mk, job, size, made, written>>
  BY <1>0, <1>2
<1>3. CASE Start
  BY <1>0, <1>3 DEF Start
<1>4. CASE MakePlain \/ MakeGz
  <2>1. mk' \in {"write", "failed"} /\ made' \in ControlFiles
    BY <1>4, MakesWritable
  <2>2. mk \in {"walk", "make"} /\ job' = job /\ size' = size /\ written' = written
    BY <1>4 DEF MakePlain, MakeGz
  <2>3. written = -1
    <3>1. ~(written >= 0)
      BY <1>0, <2>2 DEF MakerInv
    <3>2. written \in Int /\ written >= -1
      BY <1>0, <1>1
    <3>. QED BY <3>1, <3>2
  <2>. QED BY <1>0, <1>1, <2>1, <2>2, <2>3
<1>5. CASE MakeFails \/ WriteFails
  BY <1>0, <1>5 DEF MakeFails, WriteFails
<1>6. CASE Create
  BY <1>0, <1>1, <1>6 DEF Create
<1>7. CASE Flush
  <2>1. /\ mk' \in {"write", "done"} /\ job' = job /\ size' = size /\ made' = made
        /\ written >= 0 /\ written' \in written + 1 .. Pieces(Write(made))
    BY <1>7 DEF Flush
  <2>2. Pieces(Write(made)) \in Nat
    BY <1>0, <1>1
  <2>3. written' \in -1 .. Pieces(Write(made))
    BY <1>0, <2>1, <2>2
  <2>. QED BY <1>0, <2>1, <2>3
<1>8. CASE ReadOther
  BY <1>0, <1>8 DEF ReadOther
<1>9. CASE WalkStep \/ ReadMade \/ ReadStep \/ Rewrite
  BY <1>2, <1>9 DEF WalkStep, ReadMade, ReadStep, Rewrite, makeVars
<1>10. CASE UNCHANGED vars
  BY <1>2, <1>10 DEF vars, makeVars
<1>. QED BY <1>3, <1>4, <1>5, <1>6, <1>7, <1>8, <1>9, <1>10 DEF Next

LEMMA InvStep == Inv /\ [Next]_vars => Inv'
<1>. SUFFICES ASSUME Inv, [Next]_vars PROVE Inv'
  OBVIOUS
<1>1. PaceInv' /\ Counting'
  BY PaceStep, CountStep, NextWalks DEF Inv
<1>2. ReadInv'
  BY ReadStepCoherent DEF Inv
<1>3. FilesInv'
  BY FilesStep
<1>4. MakeTypeOK'
  <2>1. WalkTypeOK'
    BY <1>1 DEF PaceInv
  <2>2. cf' \in ControlFiles
    BY <1>3 DEF FilesInv, ReaderInv, Wellformed
  <2>. QED BY <2>1, <2>2, ReaderTypes, MakerTypes DEF MakeTypeOK
<1>. QED BY <1>1, <1>2, <1>3, <1>4 DEF Inv

THEOREM MakeInvariant == Spec => []Inv
<1>1. Init => Inv
  <2>1. Init => PaceInv /\ Counting
    BY PaceInitially, CountInitially DEF Init
  <2>2. Init => ReadInv
    BY DefaultsCoherent DEF Init, ReadInit, ReadInv
  <2>. QED BY <2>1, <2>2, FilesInitially DEF Inv
<1>. QED BY <1>1, InvStep, PTL DEF Spec

(***************************************************************************)
(* Every control file made, read or written again has the types its        *)
(* readers expect, and no reader is beyond the end of its file.            *)
(***************************************************************************)
THEOREM MakeTypes == Spec => []MakeTypeOK
<1>1. Inv => MakeTypeOK
  BY DEF Inv
<1>. QED BY <1>1, MakeInvariant, PTL

(***************************************************************************)
(* A reader of the control file never takes part of it for the whole, at   *)
(* whatever piece its writing stopped; and the whole reads back as it was  *)
(* made, whatever the call of gozsyncmake and whatever became of its input *)
(* after Stat, unless the call leaves a line without a value.              *)
(***************************************************************************)
THEOREM MadeReadsBack == Spec => []ReadsBackWhatWasMade
<1>1. Inv => ReadsBackWhatWasMade
  <2>. SUFFICES ASSUME Inv, mk # "other", before = Defaults, phase \in {"accepted", "rejected"}
       PROVE  /\ phase = "accepted" =>
                   /\ file = Write(made)
                   /\ cf = IF Encodable(made.ZMap) THEN made ELSE [made EXCEPT !.ZMap = << >>]
              /\ phase = "rejected" => file # Write(made) \/ ~HasValues(made)
    BY DEF ReadsBackWhatWasMade
  <2>1. OfMadeInv /\ MakerInv
    BY DEF Inv, FilesInv
  <2>2. written >= 0 /\ Rereads(made, phase, file, next, cf)
    BY <2>1 DEF OfMadeInv
  <2>3. Kept(made) = IF Encodable(made.ZMap) THEN made ELSE [made EXCEPT !.ZMap = << >>]
    BY <2>1, <2>2 DEF MakerInv, IsMade
  <2>. QED BY <2>2, <2>3 DEF Rereads
<1>. QED BY <1>1, MakeInvariant, PTL

(***************************************************************************)
(* Whatever Read accepts, of whatever program, Write writes as a file that *)
(* Read accepts again and as the same, but for Z-Filename and Safe.        *)
(***************************************************************************)
THEOREM RewrittenReadsBack == Spec => []RewriteReadsBack
<1>1. Inv => RewriteReadsBack
  <2>. SUFFICES ASSUME Inv, before # Defaults, VerifyFileHash(before)
       PROVE  /\ phase # "rejected"
              /\ phase = "accepted" =>
                   cf = [before EXCEPT !.text["Z-Filename"] = None, !.Safe = {}]
    BY DEF RewriteReadsBack
  <2>1. OfBeforeInv
    BY DEF Inv, FilesInv
  <2>2. /\ Writable(before) /\ NoEmpty(before) /\ file = Write(before)
        /\ Rereads(before, phase, file, next, cf)
        /\ before.ZMap = DecodeZMap2(before.ZMap2Raw)
    BY <2>1 DEF OfBeforeInv
  <2>3. phase # "rejected" /\ (phase = "accepted" => cf = Kept(before))
    <3>1. HasValues(before)
      BY <2>2, WrittenHasValues DEF Writable
    <3>. QED BY <2>2, <3>1 DEF Rereads
  <2>4. Kept(before) = [before EXCEPT !.text["Z-Filename"] = None, !.Safe = {}]
    <3>1. before \in ControlFiles
      BY <2>2 DEF Writable, Wellformed
    <3>. QED BY <2>2, <3>1 DEF Kept, ControlFiles
  <2>. QED BY <2>3, <2>4
<1>. QED BY <1>1, MakeInvariant, PTL
=============================================================================
