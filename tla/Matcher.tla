------------------------------- MODULE Matcher -------------------------------
(***************************************************************************)
(* Matcher.FeedSeed (internal/zsync/matcher.go): the rolling search of a   *)
(* seed for blocks of the target.  A window of one block slides over the   *)
(* seed byte by byte; its weak checksum selects candidate blocks from a    *)
(* table, and a candidate whose strong hash agrees is copied into the      *)
(* buffer.  With two sequential matches (SeqMatches = 2) a candidate must  *)
(* also be followed, in the seed, by a window whose weak checksum is that  *)
(* of the next block.                                                      *)
(*                                                                         *)
(* The caller may feed several seeds, and accept downloaded blocks before, *)
(* between and after them, as cmd/gozsync/main.go does.                    *)
(***************************************************************************)
EXTENDS BlockStore, Rsum

CONSTANTS
  Seeds,      \* contents of the seed files that may be fed
  Payloads,   \* byte strings a download may hand over as a block
  MaxFeeds    \* bound: how many seeds are fed to one matcher

ASSUME MatcherAssumption ==
  /\ Seeds \subseteq Seq(Byte)
  /\ Payloads \subseteq Seq(Byte)
  /\ MaxFeeds \in Nat

VARIABLES
  phase,    \* "scan" while FeedSeed runs, "idle" otherwise
  seed,     \* the seed being scanned, or last scanned, padded
  x,        \* offset of the window in the seed
  r0,       \* weak checksum of the window
  r1,       \* weak checksum of the window after it ...
  haveR1,   \* ... when there is one
  cands,    \* candidates still to be tried at this window
  feeds     \* number of seeds fed

scanVars == <<phase, seed, x, r0, r1, haveR1, cands, feeds>>
vars     == <<storeVars, scanVars>>

seq == IF cf.SeqMatches = 2 THEN 2 ELSE 1   \* NewMatcher clamps

(***************************************************************************)
(* The seed with the padding that aligns its tail to a block boundary.     *)
(***************************************************************************)
\* Mutant: only a seed of less than a block is padded.
PaddedToOne(s) ==
  LET needed == IF Len(s) > Blocksize THEN Len(s) ELSE Blocksize
  IN  [k \in 1 .. needed |-> IF k <= Len(s) THEN s[k] ELSE 0]

Padded(s) ==
  LET needed == IF Len(s) > Blocksize
                THEN ((Len(s) + Blocksize - 1) \div Blocksize) * Blocksize
                ELSE Blocksize
  IN  [k \in 1 .. needed |-> IF k <= Len(s) THEN s[k] ELSE 0]

WindowOf(s, y) == [k \in 1 .. Blocksize |-> s[y + k]]
WindowAt(y)    == WindowOf(seed, y)

(***************************************************************************)
(* The block table, as the control file delivers it, and the lookup.       *)
(***************************************************************************)
BlockRsum(i)     == OnWire(cf.RsumBytes, CalcRsum(Block(i)))
RsumMatches(r, i) ==
  /\ MaskA(cf.RsumBytes, r.A) = BlockRsum(i).A
  /\ r.B = BlockRsum(i).B

\* Mutants: A is not masked; the table has an entry past the last block.
LookupUnmasked(r) ==
  { i \in BlockIdx : hashRsum(cf.RsumBytes, BlockRsum(i)) = hashRsum(4, r) }

LookupPastEnd(r) ==
  { i \in 0 .. NumBlocks :
      hashRsum(cf.RsumBytes, BlockRsum(i)) = hashRsum(cf.RsumBytes, r) }

Lookup(r) ==
  { i \in BlockIdx : hashRsum(cf.RsumBytes, BlockRsum(i)) = hashRsum(cf.RsumBytes, r) }

-----------------------------------------------------------------------------
Init ==
  /\ NewStore
  /\ phase = "idle" /\ seed = << >> /\ x = 0
  /\ r0 = [A |-> 0, B |-> 0] /\ r1 = [A |-> 0, B |-> 0] /\ haveR1 = FALSE
  /\ cands = {} /\ feeds = 0

(***************************************************************************)
(* FeedSeed up to its loop.  For an empty target the seed is drained and   *)
(* nothing else happens.                                                   *)
(***************************************************************************)
FeedSeed(s) ==
  /\ phase = "idle" /\ feeds < MaxFeeds
  /\ feeds' = feeds + 1
  /\ IF NumBlocks = 0
     THEN UNCHANGED <<phase, seed, x, r0, r1, haveR1, cands>>
     ELSE /\ phase' = "scan" /\ seed' = Padded(s) /\ x' = 0
          /\ r0' = CalcRsum(WindowOf(seed', 0))
          /\ haveR1' = (seq = 2 /\ Len(seed') >= 2 * Blocksize)
          /\ r1' = IF haveR1' THEN CalcRsum(WindowOf(seed', Blocksize))
                              ELSE [A |-> 0, B |-> 0]
          /\ cands' = Lookup(r0')
  /\ UNCHANGED storeVars

(***************************************************************************)
(* The loop over the candidates of one window, lowest index first.         *)
(***************************************************************************)
Paired(i) == seq = 2 /\ i + 1 \in BlockIdx /\ haveR1

Accepts(i) ==
  /\ RsumMatches(r0, i)
  /\ i \notin got
  /\ Paired(i) => RsumMatches(r1, i + 1)
  /\ Strong(WindowAt(x)) = Checksum(i)

AcceptsNextByRsum(i) ==   \* mutant: the weak checksum is believed
  /\ Paired(i)
  /\ i + 1 \notin got
  /\ x + 2 * Blocksize <= Len(seed)

\* The next block too, when its window is in hand and hashes right.
AcceptsNext(i) ==
  /\ Paired(i)
  /\ i + 1 \notin got
  /\ x + 2 * Blocksize <= Len(seed)
  /\ Strong(WindowAt(x + Blocksize)) = Checksum(i + 1)

Matched(i) == {i} \cup { j \in {i + 1} : AcceptsNext(i) }

TryCandidate ==
  /\ phase = "scan"
  /\ \E i \in cands :
       /\ \A j \in cands : i <= j
       /\ cands' = cands \ {i}
       /\ IF Accepts(i)
          THEN acceptBlock([b \in Matched(i) |-> WindowAt(x + (b - i) * Blocksize)])
          ELSE UNCHANGED storeVars
  /\ UNCHANGED <<phase, seed, x, r0, r1, haveR1, feeds>>

(***************************************************************************)
(* No candidate is left: slide both windows by one byte, or stop at the    *)
(* end of the seed.                                                        *)
(***************************************************************************)
SlideNext ==
  LET end == x + Blocksize
      fits == end + Blocksize < Len(seed)
  IN  IF seq = 2
      THEN /\ haveR1' = fits
           /\ r1' = IF fits
                    THEN Roll(r1, seed[end + 1], seed[end + Blocksize + 1], Blocksize)
                    ELSE r1
      ELSE UNCHANGED <<r1, haveR1>>

Slide ==
  /\ phase = "scan" /\ cands = {}
  /\ x + Blocksize < Len(seed)
  /\ r0' = Roll(r0, seed[x + 1], seed[x + Blocksize + 1], Blocksize)
  /\ SlideNext
  /\ x' = x + 1
  /\ cands' = Lookup(r0')
  /\ UNCHANGED <<phase, seed, feeds, storeVars>>

\* Mutant: the last window of the seed may be left out.
EndOfSeedEarly ==
  /\ phase = "scan" /\ cands = {}
  /\ x + Blocksize + 1 >= Len(seed)
  /\ phase' = "idle"
  /\ UNCHANGED <<seed, x, r0, r1, haveR1, cands, feeds, storeVars>>

EndOfSeed ==
  /\ phase = "scan" /\ cands = {}
  /\ x + Blocksize >= Len(seed)
  /\ phase' = "idle"
  /\ UNCHANGED <<seed, x, r0, r1, haveR1, cands, feeds, storeVars>>

(***************************************************************************)
(* The caller hands over a downloaded block, right or wrong.               *)
(***************************************************************************)
Download ==
  /\ phase = "idle"
  /\ \E i \in -1 .. NumBlocks, data \in Payloads : AcceptDownloadedBlock(i, data)
  /\ UNCHANGED scanVars

Scan == TryCandidate \/ Slide \/ EndOfSeed

Next == (\E s \in Seeds : FeedSeed(s)) \/ Scan \/ Download

\* A call of FeedSeed runs to its end; nobody is bound to make one.
Spec == Init /\ [][Next]_vars /\ WF_vars(Scan)

-----------------------------------------------------------------------------
TypeOK ==
  /\ StoreTypeOK
  /\ phase \in {"idle", "scan"}
  /\ seed \in Seq(Byte)
  /\ x \in Nat
  /\ r0 \in Rsums /\ r1 \in Rsums
  /\ haveR1 \in BOOLEAN
  /\ cands \subseteq BlockIdx
  /\ feeds \in 0 .. MaxFeeds

(***************************************************************************)
(* The incremental checksums are those of the windows they stand for, at   *)
(* every offset and whatever wrapped on the way; and r1 is used only while *)
(* the seed still holds a whole next window.                               *)
(***************************************************************************)
RollingIsExact ==
  phase = "scan" =>
    /\ r0 = CalcRsum(WindowAt(x))
    /\ haveR1 <=> (seq = 2 /\ x + 2 * Blocksize <= Len(seed))
    /\ haveR1 => r1 = CalcRsum(WindowAt(x + Blocksize))

\* The offsets of the current or last seed whose candidates are all tried.
Tried ==
  IF seed = << >> THEN {}
  ELSE { y \in 0 .. x : phase = "idle" \/ y < x \/ cands = {} }

(***************************************************************************)
(* The scan loses nothing it is meant to find: a window that equals block  *)
(* i of the target has put block i in the buffer by the time the window    *)
(* moves on, if i is the last block, if the seed ends before a whole next  *)
(* window, if one match is enough, or if the next window is block i + 1.   *)
(* Neither the table's hash nor the mask nor the rolling update hides it.  *)
(***************************************************************************)
WindowsTaken ==
  \A y \in Tried, i \in BlockIdx :
    /\ WindowAt(y) = Block(i)
    /\ \/ seq = 1
       \/ i + 1 \notin BlockIdx
       \/ y + 2 * Blocksize > Len(seed)
       \/ WindowAt(y + Blocksize) = Block(i + 1)
    => i \in got

(***************************************************************************)
(* When a scan has ended and its seed has the whole target somewhere in    *)
(* it, at whatever offset and between whatever bytes, nothing is left to   *)
(* download, however blocks repeat and wherever the seed ends: bytes put   *)
(* in front of a file cost nothing.                                        *)
(***************************************************************************)
WholeTargetFound ==
  phase = "idle" /\ seed # << >> =>
    \A o \in 0 .. Len(seed) - NumBlocks * Blocksize :
      (\A i \in BlockIdx : WindowAt(o + i * Blocksize) = Block(i)) => got = BlockIdx

(***************************************************************************)
(* "Searching for any blocks that also occur in the target": whatever      *)
(* occurs in the seed is taken, with no condition on what follows it.      *)
(***************************************************************************)
EveryOccurrenceTaken ==
  \A y \in Tried, i \in BlockIdx : WindowAt(y) = Block(i) => i \in got

(***************************************************************************)
(* The ranges handed to the fetcher are the gaps: they are in order, apart *)
(* from each other (so no two could be merged), and cover what is missing  *)
(* exactly.  They are also the runs of MissingRuns.                        *)
(***************************************************************************)
MissingRangesExact ==
  LET rs == MissingRanges
  IN  /\ \A k \in 1 .. Len(rs) : rs[k][1] < rs[k][2]
      /\ \A k \in 1 .. Len(rs) - 1 : rs[k][2] < rs[k + 1][1]
      /\ UNION { rs[k][1] .. rs[k][2] - 1 : k \in DOMAIN rs } = BlockIdx \ got
      /\ { rs[k] : k \in DOMAIN rs } = MissingRuns

(***************************************************************************)
(* A scan of the target's own bytes ends, and leaves nothing to download:  *)
(* not even the short last block, nor a block that occurs twice.           *)
(***************************************************************************)
OwnBytesSuffice ==
  (phase = "scan" /\ seed = Padded(cf.target)) ~> (got = BlockIdx)
=============================================================================
