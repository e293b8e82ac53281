----------------------------- MODULE BlockStore -----------------------------
(***************************************************************************)
(* The target of a transfer as a control file describes it, and the        *)
(* buffer in which a Matcher rebuilds it (internal/zsync/matcher.go).      *)
(* Seed scanning (Matcher.tla) and HTTP fetching (Fetch.tla) both write    *)
(* the buffer through the operations of this module.                       *)
(*                                                                         *)
(* The program knows the target only by the checksums of its blocks.  The  *)
(* field "target" of a control file is the file those checksums were made  *)
(* from; only Length, Block and what is derived from them look at it.      *)
(***************************************************************************)
EXTENDS Integers, Sequences, FiniteSets

CONSTANTS
  Byte,           \* the values of a byte, zero among them
  Blocksize,      \* bytes in a block
  ControlFiles,   \* the control files a run may be given
  Strong(_)       \* the stored prefix of the strong hash of a block

ASSUME StoreAssumption ==
  /\ Blocksize \in Nat \ {0}
  /\ Byte \subseteq Nat /\ 0 \in Byte
  /\ \A f \in ControlFiles :
       /\ f.target \in Seq(Byte)
       /\ f.SeqMatches \in Int
       /\ f.RsumBytes \in 1 .. 4

VARIABLES
  cf,     \* the control file
  out,    \* the reconstructed file: a function on the target's offsets
  got,    \* the blocks recorded as filled
  nGot    \* their count, as the program keeps it

storeVars == <<cf, out, got, nGot>>

Length    == Len(cf.target)
NumBlocks == (Length + Blocksize - 1) \div Blocksize
BlockIdx  == 0 .. NumBlocks - 1
Offsets   == 0 .. Length - 1
Window    == [1 .. Blocksize -> Byte]   \* the contents of one whole block

(***************************************************************************)
(* Block i of the target as it is hashed: a short last block is padded     *)
(* with zeros to a whole one.                                              *)
(***************************************************************************)
Block(i) ==
  [k \in 1 .. Blocksize |->
     IF i * Blocksize + k <= Length THEN cf.target[i * Blocksize + k] ELSE 0]

Checksum(i) == Strong(Block(i))

(***************************************************************************)
(* NewMatcher: an empty buffer, no block filled.                           *)
(***************************************************************************)
NewStore ==
  /\ cf \in ControlFiles
  /\ out = [p \in Offsets |-> 0]
  /\ got = {}
  /\ nGot = 0

(***************************************************************************)
(* acceptBlock for every block in the domain of data: the live bytes of    *)
(* the block are copied, and the block is counted unless it already was.   *)
(***************************************************************************)
\* Mutant: a block that was already there is counted again.
acceptBlockAgain(data) ==
  /\ out' = [p \in Offsets |->
               IF p \div Blocksize \in DOMAIN data
               THEN data[p \div Blocksize][(p % Blocksize) + 1]
               ELSE out[p]]
  /\ got' = got \cup DOMAIN data
  /\ nGot' = nGot + Cardinality(DOMAIN data)
  /\ cf' = cf

acceptBlock(data) ==
  /\ out' = [p \in Offsets |->
               IF p \div Blocksize \in DOMAIN data
               THEN data[p \div Blocksize][(p % Blocksize) + 1]
               ELSE out[p]]
  /\ got' = got \cup DOMAIN data
  /\ nGot' = nGot + Cardinality(DOMAIN data \ got)
  /\ cf' = cf

(***************************************************************************)
(* The checks AcceptDownloadedBlock makes, in order: "" when data is       *)
(* accepted as block i.                                                    *)
(***************************************************************************)
\* Mutant: the strong hash is not compared.
VerdictBySize(i, data) ==
  IF i \notin BlockIdx THEN "index"
  ELSE IF Len(data) # Blocksize THEN "size"
  ELSE ""

Verdict(i, data) ==
  IF i \notin BlockIdx THEN "index"
  ELSE IF Len(data) # Blocksize THEN "size"
  ELSE IF Strong(data) # Checksum(i) THEN "hash"
  ELSE ""

AcceptDownloadedBlock(i, data) ==
  IF Verdict(i, data) = ""
  THEN acceptBlock([b \in {i} |-> data])
  ELSE UNCHANGED storeVars

(***************************************************************************)
(* MissingRanges: one scan of the blocks that skips the filled ones and    *)
(* pairs the start of each gap with the first filled block after it.       *)
(***************************************************************************)
FirstFrom(i, S) ==   \* the least member of S from i on, NumBlocks if none
  CHOOSE j \in i .. NumBlocks :
    /\ j \in S \cup {NumBlocks}
    /\ \A k \in i .. j - 1 : k \notin S

\* Mutant: a gap that is still open at the end of the scan is forgotten.
MissingRangesClosed ==
  LET scan[i \in 0 .. NumBlocks] ==
        LET s == FirstFrom(i, BlockIdx \ got)
            e == FirstFrom(s, got)
        IN  IF e = NumBlocks THEN << >> ELSE << <<s, e>> >> \o scan[e]
  IN  scan[0]

MissingRanges ==
  LET scan[i \in 0 .. NumBlocks] ==
        LET s == FirstFrom(i, BlockIdx \ got)
            e == FirstFrom(s, got)
        IN  IF s = NumBlocks THEN << >> ELSE << <<s, e>> >> \o scan[e]
  IN  scan[0]

(***************************************************************************)
(* The same ranges as a set: the maximal runs of missing blocks.           *)
(***************************************************************************)
MissingRuns ==
  { r \in (0 .. NumBlocks) \X (0 .. NumBlocks) :
      /\ r[1] < r[2]
      /\ \A i \in r[1] .. r[2] - 1 : i \notin got
      /\ r[1] - 1 \notin BlockIdx \ got
      /\ r[2] \notin BlockIdx \ got }

-----------------------------------------------------------------------------
(***************************************************************************)
(* The type of the store, and what it owes its users.                      *)
(***************************************************************************)
StoreTypeOK ==
  /\ cf \in ControlFiles
  /\ out \in [Offsets -> Byte]
  /\ got \subseteq BlockIdx
  /\ nGot \in Nat

(***************************************************************************)
(* A filled block holds the target's own bytes: neither a block of a seed  *)
(* that merely looked alike nor the padding of a short block gets in, and  *)
(* no later write of a neighbour disturbs it.                              *)
(***************************************************************************)
GotIsTarget ==
  \A p \in Offsets : p \div Blocksize \in got => out[p] = cf.target[p + 1]

(***************************************************************************)
(* The count of filled blocks that AcceptedBlocks reports is the number of *)
(* blocks that are filled, however often one block is found or fetched.    *)
(***************************************************************************)
CountExact == nGot = Cardinality(got)

(***************************************************************************)
(* What GotIsTarget rests on: no two blocks share a stored checksum.       *)
(***************************************************************************)
StrongInjective == \A d, e \in Window : Strong(d) = Strong(e) => d = e

(***************************************************************************)
(* Whoever writes the buffer only ever puts blocks of the target in it,    *)
(* each with the target's bytes, and disturbs none that is there: when a   *)
(* scan or a download succeeds, and when it fails half way.                *)
(***************************************************************************)
R == INSTANCE Reconstruction WITH
       Targets <- { f.target : f \in ControlFiles },
       target <- cf.target, have <- got, buf <- out

ImplementsReconstruction == R!Spec
=============================================================================
