------------------------------ MODULE Deflate -------------------------------
(***************************************************************************)
(* The DeflateWalker of internal/zsync/deflate_walker.go: it reads a gzip  *)
(* stream block by block and symbol by symbol, counts the bits it takes    *)
(* and the bytes they inflate to, and records a restart point at each      *)
(* start of a block and, in long blocks, whenever it has come Interval     *)
(* bytes or Margin bits from the last one.                                 *)
(*                                                                         *)
(* The stream is an input: its blocks and symbols are chosen as they are   *)
(* read.  Which symbol it is does not matter here, only what it takes and  *)
(* gives.                                                                  *)
(***************************************************************************)
EXTENDS ZMap

CONSTANTS
  ByteBits,    \* bits of a byte, 8
  Interval,    \* gzbCheckpointInterval, 32768
  Margin,      \* gzbWireDeltaMargin, 60000
  Chunk,       \* bytes of a stored block read at a time, 256
  StoredLens,  \* the lengths of stored blocks
  Tables,      \* bits of the code tables in front of a Huffman block's symbols
  Symbols,     \* literals and matches: bits taken, bytes given
  EndBits,     \* bits of an end-of-block symbol
  MaxBits      \* bound: where a stream must be near its end

StoredHeader == 3 + (ByteBits - 1) + 4 * ByteBits   \* with the padding to a byte

ASSUME DeflateAssumption ==
  /\ ByteBits \in Nat \ {0} /\ Interval \in Nat \ {0} /\ Margin \in Nat
  /\ Chunk \in Nat \ {0} /\ MaxBits \in Nat
  /\ StoredLens \subseteq Nat /\ Tables \subseteq Nat /\ EndBits \subseteq Nat \ {0}
  /\ Symbols \subseteq [bits : Nat \ {0}, bytes : Nat \ {0}]
  /\ StoredHeader < Margin /\ \A t \in Tables : 3 + t < Margin

\* Margin leaves room in the field for whatever is read between two looks at it.
ASSUME MarginAssumption ==
  /\ Margin + Chunk * ByteBits <= InField
  /\ \A s \in Symbols : Margin + s.bits <= InField
  /\ \A e \in EndBits : Margin + e <= InField

VARIABLES
  stage,       \* "gzip", "header", "stored", "symbols", "ended" or "corrupt"
  bitPos,      \* bits read
  inflated,    \* bytes they inflate to
  entries,     \* the restart points
  blockCount,  \* checkpoints in this block
  left,        \* bytes of a stored block still to read
  final        \* BFINAL of this block

walkVars == <<stage, bitPos, inflated, entries, blockCount, left, final>>

-----------------------------------------------------------------------------
WalkInit ==
  /\ stage = "gzip" /\ bitPos = 0 /\ inflated = 0 /\ entries = << >>
  /\ blockCount = 0 /\ left = 0 /\ final = FALSE

\* lastCheckpointInflated and lastCheckpointBitPos are set by emit only.
Latest == entries[Len(entries)]

(***************************************************************************)
(* maybeCheckpoint, when the walker has come to these offsets.             *)
(***************************************************************************)
maybeCheckpoint(bytes, bits) ==
  IF bytes - Latest.Inflated >= Interval \/ bits - Latest.Compressed >= Margin
  THEN /\ blockCount' = blockCount + 1
       /\ entries' = Append(entries, Entry(bytes, bits, FALSE, blockCount + 1))
  ELSE UNCHANGED <<entries, blockCount>>

AfterBlock(last) == IF last THEN "ended" ELSE "header"

(***************************************************************************)
(* skipGzipHeader; the walker's offsets start behind it.                   *)
(***************************************************************************)
GzipHeader ==
  /\ stage = "gzip" /\ stage' = "header"
  /\ UNCHANGED <<bitPos, inflated, entries, blockCount, left, final>>

AlignToByte(bits) == ((bits + ByteBits - 1) \div ByteBits) * ByteBits

(***************************************************************************)
(* The start of a block, and its header up to the first byte or symbol.    *)
(* A stored block is padded to a byte and has four bytes of length; one of *)
(* no bytes is over at once.                                               *)
(***************************************************************************)
BlockStart(last) ==
  /\ stage = "header" /\ bitPos < MaxBits
  /\ entries' = Append(entries, Entry(inflated, bitPos, TRUE, 0))
  /\ final' = last
  /\ UNCHANGED inflated

\* Mutant: blockCount is not reset at the start of a block.
StoredBlockCounting ==
  \E last \in BOOLEAN, n \in StoredLens :
    /\ BlockStart(last)
    /\ bitPos' = AlignToByte(bitPos + 3) + 4 * ByteBits
    /\ left' = n
    /\ stage' = IF n = 0 THEN AfterBlock(last) ELSE "stored"
    /\ UNCHANGED blockCount

StoredBlock ==
  \E last \in BOOLEAN, n \in StoredLens :
    /\ BlockStart(last)
    /\ bitPos' = AlignToByte(bitPos + 3) + 4 * ByteBits
    /\ left' = n
    /\ stage' = IF n = 0 THEN AfterBlock(last) ELSE "stored"
    /\ blockCount' = 0

HuffmanBlock ==
  \E last \in BOOLEAN, t \in Tables :
    /\ BlockStart(last)
    /\ bitPos' = bitPos + 3 + t
    /\ stage' = "symbols" /\ blockCount' = 0
    /\ UNCHANGED left

(***************************************************************************)
(* walkStored: the payload, a chunk at a time.                             *)
(***************************************************************************)
\* Mutant: the payload at once.
StoredAtOnce ==
  /\ stage = "stored"
  /\ inflated' = inflated + left /\ bitPos' = bitPos + left * ByteBits /\ left' = 0
  /\ maybeCheckpoint(inflated', bitPos')
  /\ stage' = AfterBlock(final)
  /\ UNCHANGED final

StoredChunk ==
  LET k == IF left > Chunk THEN Chunk ELSE left
  IN  /\ stage = "stored"
      /\ inflated' = inflated + k /\ bitPos' = bitPos + k * ByteBits /\ left' = left - k
      /\ maybeCheckpoint(inflated', bitPos')
      /\ stage' = IF left = k THEN AfterBlock(final) ELSE "stored"
      /\ UNCHANGED final

(***************************************************************************)
(* decodeBlockBody: a literal or a match, and the end of the block.        *)
(***************************************************************************)
BodySymbol ==
  /\ stage = "symbols" /\ bitPos < MaxBits
  /\ \E s \in Symbols :
       /\ inflated' = inflated + s.bytes /\ bitPos' = bitPos + s.bits
       /\ maybeCheckpoint(inflated', bitPos')
  /\ UNCHANGED <<stage, left, final>>

EndOfBlock ==
  /\ stage = "symbols"
  /\ \E e \in EndBits : bitPos' = bitPos + e
  /\ stage' = AfterBlock(final)
  /\ UNCHANGED <<inflated, entries, blockCount, left, final>>

(***************************************************************************)
(* The stream stops short or is not gzip, or not deflate: Walk fails.      *)
(***************************************************************************)
Corrupt ==
  /\ stage \in {"gzip", "header", "stored", "symbols"}
  /\ stage' = "corrupt"
  /\ UNCHANGED <<bitPos, inflated, entries, blockCount, left, final>>

Walk == GzipHeader \/ StoredBlock \/ HuffmanBlock \/ StoredChunk \/ BodySymbol
          \/ EndOfBlock \/ Corrupt

WalkSpec == WalkInit /\ [][Walk]_walkVars

-----------------------------------------------------------------------------
WalkTypeOK ==
  /\ stage \in {"gzip", "header", "stored", "symbols", "ended", "corrupt"}
  /\ bitPos \in Nat /\ inflated \in Nat
  /\ entries \in Seq(ZMapEntries)
  /\ blockCount \in Nat /\ left \in Nat /\ final \in BOOLEAN

(***************************************************************************)
(* Consecutive restart points are never so far apart that the distance in  *)
(* bits overflows its field, whatever the stream; and a client that starts *)
(* at one has less than Interval bytes to inflate, and what is read in one *)
(* go, before it comes to the next.                                        *)
(***************************************************************************)
Gives == {Chunk} \cup { s.bytes : s \in Symbols }

CheckpointsInTime ==
  \A i \in DOMAIN entries :
    /\ InDelta(entries, i) \in 0 .. InField - 1
    /\ OutDelta(entries, i) >= 0
    /\ \E g \in Gives : OutDelta(entries, i) < Interval + g

(***************************************************************************)
(* A reader of the control file gets the restart points of the walker      *)
(* back, with the places of the checkpoints in their blocks, which are not *)
(* in the file.                                                            *)
(***************************************************************************)
MapReadsBack == Encodable(entries) => DecodeZMap2(EncodeZMap2(entries)) = entries

(***************************************************************************)
(* "Over a walker-emitted entry list the encode is total".                 *)
(***************************************************************************)
EncodeIsTotal == stage = "ended" => Encodable(entries)
=============================================================================
