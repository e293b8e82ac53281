--------------------------- MODULE DeflateProofs ----------------------------
(***************************************************************************)
(* The walk of a deflate stream, for every stream and all sizes of fields, *)
(* intervals and chunks that MarginAssumption allows.                      *)
(***************************************************************************)
EXTENDS Deflate, SequenceTheorems, InductiveSets

(***************************************************************************)
(* The start of a block, and the latest restart point: it is nearer than   *)
(* Interval and Margin while a block is read, and between blocks still     *)
(* near enough for the field of bits.                                      *)
(***************************************************************************)
Pace ==
  /\ stage \in {"stored", "symbols"} => entries # << >>
  /\ stage = "gzip" => entries = << >>
  /\ entries = << >> => bitPos = 0 /\ inflated = 0
  /\ entries # << >> =>
       /\ inflated - Latest.Inflated \in 0 .. Interval - 1
       /\ bitPos - Latest.Compressed >= 0
       /\ stage \in {"stored", "symbols"} => bitPos - Latest.Compressed < Margin
       /\ stage = "header" => bitPos - Latest.Compressed < InField

PaceInv == WalkTypeOK /\ Pace /\ CheckpointsInTime

-----------------------------------------------------------------------------
(***************************************************************************)
(* Bits and bytes.                                                         *)
(***************************************************************************)
LEMMA Divides ==
  ASSUME NEW m \in Nat, NEW d \in Nat \ {0}
  PROVE  /\ m \div d \in Nat
         /\ (m \div d) * d \in Nat
         /\ (m \div d) * d <= m /\ m < (m \div d) * d + d
<1>1. m \div d \in Int /\ m % d \in 0 .. d - 1 /\ m = d * (m \div d) + (m % d)
  OBVIOUS
<1> DEFINE q == m \div d
<1>2. d * q = q * d
  BY <1>1
<1>3. q >= 0
  BY <1>1
<1>. QED BY <1>1, <1>2, <1>3

LEMMA Aligned ==
  ASSUME NEW b \in Nat
  PROVE  /\ AlignToByte(b) \in Nat
         /\ AlignToByte(b) >= b /\ AlignToByte(b) <= b + ByteBits - 1
<1>1. b + ByteBits - 1 \in Nat /\ ByteBits \in Nat \ {0}
  BY DeflateAssumption
<1>. QED BY <1>1, Divides DEF AlignToByte

LEMMA ChunkBits ==
  ASSUME NEW k \in Nat, k <= Chunk
  PROVE  /\ k * ByteBits \in Nat
         /\ k * ByteBits <= Chunk * ByteBits
         /\ Margin + k * ByteBits <= InField
<1>1. /\ Chunk \in Nat /\ ByteBits \in Nat /\ Margin \in Nat /\ InField \in Nat
      /\ Margin + Chunk * ByteBits <= InField
  BY DeflateAssumption, MarginAssumption, WireAssumption
<1>2. k * ByteBits \in Nat /\ Chunk * ByteBits \in Nat
  BY <1>1
<1>3. (Chunk - k) * ByteBits >= 0
  BY <1>1
<1>4. Chunk * ByteBits = k * ByteBits + (Chunk - k) * ByteBits
  BY <1>1
<1>. QED BY <1>1, <1>2, <1>3, <1>4

-----------------------------------------------------------------------------
(***************************************************************************)
(* One more restart point.                                                 *)
(***************************************************************************)
LEMMA OneMore ==
  ASSUME NEW es \in Seq(ZMapEntries), NEW e \in ZMapEntries
  PROVE  /\ Append(es, e) \in Seq(ZMapEntries)
         /\ Len(Append(es, e)) = Len(es) + 1
         /\ Append(es, e) # << >>
         /\ Append(es, e)[Len(es) + 1] = e
         /\ \A i \in 1 .. Len(es) : Append(es, e)[i] = es[i]
         /\ DOMAIN es = 1 .. Len(es)
         /\ DOMAIN Append(es, e) = 1 .. Len(es) + 1
  BY AppendProperties, LenProperties, EmptySeq

LEMMA OneMoreDeltas ==
  ASSUME NEW es \in Seq(ZMapEntries), NEW e \in ZMapEntries
  PROVE  /\ \A i \in 1 .. Len(es) :
              /\ InDelta(Append(es, e), i) = InDelta(es, i)
              /\ OutDelta(Append(es, e), i) = OutDelta(es, i)
         /\ InDelta(Append(es, e), Len(es) + 1) =
              e.Compressed - (IF es = << >> THEN 0 ELSE es[Len(es)].Compressed)
         /\ OutDelta(Append(es, e), Len(es) + 1) =
              e.Inflated - (IF es = << >> THEN 0 ELSE es[Len(es)].Inflated)
<1>1. Len(es) \in Nat /\ (es = << >> <=> Len(es) = 0)
  BY LenProperties, EmptySeq
<1>. QED BY <1>1, OneMore DEF InDelta, OutDelta

LEMMA ConstantTypes ==
  /\ ByteBits \in Nat /\ ByteBits >= 1 /\ Interval \in Nat /\ Interval >= 1 /\ Margin \in Nat
  /\ Chunk \in Nat /\ Chunk >= 1 /\ InField \in Nat /\ InField >= 1 /\ Margin <= InField
<1>1. 0 <= Chunk /\ Margin + Chunk * ByteBits <= InField /\ Chunk * ByteBits \in Nat
  BY DeflateAssumption, MarginAssumption
<1>2. Margin <= InField
  BY <1>1, DeflateAssumption, WireAssumption
<1>. QED BY <1>2, DeflateAssumption, WireAssumption

LEMMA GivesType == Gives \subseteq Nat \ {0} /\ Chunk \in Gives
  BY DeflateAssumption DEF Gives

LEMMA LastType ==
  ASSUME NEW es \in Seq(ZMapEntries), es # << >>
  PROVE  /\ Len(es) \in Nat \ {0} /\ es[Len(es)] \in ZMapEntries
         /\ es[Len(es)].Compressed \in Nat /\ es[Len(es)].Inflated \in Nat
<1>1. Len(es) \in Nat \ {0}
  BY LenProperties, EmptySeq
<1>2. es[Len(es)] \in ZMapEntries
  BY <1>1, ElementOfSeq
<1>. QED BY <1>1, <1>2 DEF ZMapEntries

LEMMA LatestType ==
  ASSUME entries \in Seq(ZMapEntries), entries # << >>
  PROVE  /\ Len(entries) \in Nat \ {0} /\ Latest \in ZMapEntries
         /\ Latest.Compressed \in Nat /\ Latest.Inflated \in Nat
  BY LastType DEF Latest

LEMMA StillInTime ==
  ASSUME entries \in Seq(ZMapEntries), CheckpointsInTime,
         NEW e \in ZMapEntries, entries' = Append(entries, e), NEW g \in Gives,
         e.Compressed - (IF entries = << >> THEN 0 ELSE Latest.Compressed) \in 0 .. InField - 1,
         e.Inflated - (IF entries = << >> THEN 0 ELSE Latest.Inflated) >= 0,
         e.Inflated - (IF entries = << >> THEN 0 ELSE Latest.Inflated) < Interval + g
  PROVE  CheckpointsInTime'
<1> DEFINE es == Append(entries, e)
<1>1. DOMAIN es = 1 .. Len(entries) + 1 /\ DOMAIN entries = 1 .. Len(entries)
      /\ Len(entries) \in Nat
  BY OneMore, LenProperties
<1>2. \A i \in 1 .. Len(entries) :
        /\ InDelta(es, i) \in 0 .. InField - 1
        /\ OutDelta(es, i) >= 0
        /\ \E h \in Gives : OutDelta(es, i) < Interval + h
  BY <1>1, OneMoreDeltas DEF CheckpointsInTime
<1>3. /\ InDelta(es, Len(entries) + 1) \in 0 .. InField - 1
      /\ OutDelta(es, Len(entries) + 1) >= 0
      /\ OutDelta(es, Len(entries) + 1) < Interval + g
  BY OneMoreDeltas DEF Latest
<1>. HIDE DEF es
<1>4. \A i \in DOMAIN es :
        /\ InDelta(es, i) \in 0 .. InField - 1
        /\ OutDelta(es, i) >= 0
        /\ \E h \in Gives : OutDelta(es, i) < Interval + h
  <2>. TAKE i \in DOMAIN es
  <2>1. CASE i = Len(entries) + 1
    BY <2>1, <1>3
  <2>2. CASE i # Len(entries) + 1
    <3>1. i \in 1 .. Len(entries)
      BY <2>2, <1>1
    <3>. QED BY <3>1, <1>2
  <2>. QED BY <2>1, <2>2
<1>5. entries' = es
  BY DEF es
<1>. QED BY <1>4, <1>5 DEF CheckpointsInTime, InDelta, OutDelta

-----------------------------------------------------------------------------
(***************************************************************************)
(* maybeCheckpoint: a step inside a block, of k bytes and n bits.          *)
(***************************************************************************)
LEMMA CheckpointStep ==
  ASSUME PaceInv, stage \in {"stored", "symbols"},
         NEW k \in Nat, NEW n \in Nat, NEW g \in Gives, k <= g, Margin + n <= InField,
         inflated' = inflated + k, bitPos' = bitPos + n,
         maybeCheckpoint(inflated', bitPos')
  PROVE  /\ entries' \in Seq(ZMapEntries) /\ blockCount' \in Nat
         /\ entries' # << >>
         /\ inflated' - Latest'.Inflated \in 0 .. Interval - 1
         /\ bitPos' - Latest'.Compressed >= 0
         /\ bitPos' - Latest'.Compressed < Margin
         /\ CheckpointsInTime'
<1>1. /\ bitPos \in Nat /\ inflated \in Nat /\ blockCount \in Nat
      /\ entries \in Seq(ZMapEntries) /\ entries # << >> /\ CheckpointsInTime
      /\ inflated - Latest.Inflated \in 0 .. Interval - 1
      /\ bitPos - Latest.Compressed >= 0 /\ bitPos - Latest.Compressed < Margin
  BY ConstantTypes DEF PaceInv, WalkTypeOK, Pace
<1>2. Latest.Compressed \in Nat /\ Latest.Inflated \in Nat
  BY <1>1, LatestType
<1>3. bitPos' \in Nat /\ inflated' \in Nat
  BY <1>1
<1>4. /\ bitPos' - Latest.Compressed \in 0 .. InField - 1
      /\ inflated' - Latest.Inflated \in Nat /\ inflated' - Latest.Inflated < Interval + g
  <2> DEFINE c == Latest.Compressed
             o == Latest.Inflated
  <2>1. g \in Nat
    BY GivesType
  <2>2. c \in Nat /\ o \in Nat /\ bitPos - c >= 0 /\ bitPos - c < Margin
        /\ inflated - o \in 0 .. Interval - 1
    BY <1>1, <1>2
  <2>. HIDE DEF c, o
  <2>3. /\ (bitPos + n) - c \in 0 .. InField - 1
        /\ (inflated + k) - o \in Nat /\ (inflated + k) - o < Interval + g
    BY <1>1, <2>1, <2>2, ConstantTypes
  <2>. QED BY <2>3 DEF c, o
<1>5. CASE inflated' - Latest.Inflated >= Interval \/ bitPos' - Latest.Compressed >= Margin
  <2> DEFINE e == Entry(inflated', bitPos', FALSE, blockCount + 1)
  <2>1. entries' = Append(entries, e) /\ blockCount' = blockCount + 1
    BY <1>5 DEF maybeCheckpoint
  <2>2. e \in ZMapEntries /\ e.Compressed = bitPos' /\ e.Inflated = inflated'
    BY <1>1, <1>3 DEF Entry, ZMapEntries
  <2>. HIDE DEF e
  <2>3. Latest' = e /\ entries' # << >> /\ entries' \in Seq(ZMapEntries)
    BY <2>1, <2>2, <1>1, OneMore DEF Latest
  <2>4. CheckpointsInTime'
    BY <1>1, <2>1, <2>2, <1>4, StillInTime
  <2>5. inflated' - Latest'.Inflated = 0 /\ bitPos' - Latest'.Compressed = 0
    BY <1>3, <2>2, <2>3
  <2>6. 0 < Margin
    BY DeflateAssumption, ConstantTypes DEF StoredHeader
  <2>. QED BY <1>1, <2>1, <2>3, <2>4, <2>5, <2>6, ConstantTypes
<1>6. CASE ~ (inflated' - Latest.Inflated >= Interval \/ bitPos' - Latest.Compressed >= Margin)
  <2>1. entries' = entries /\ blockCount' = blockCount
    BY <1>6 DEF maybeCheckpoint
  <2>2. Latest' = Latest
    BY <2>1 DEF Latest
  <2>3. CheckpointsInTime'
    BY <1>1, <2>1 DEF CheckpointsInTime, InDelta, OutDelta
  <2>4. inflated' - Latest.Inflated < Interval /\ bitPos' - Latest.Compressed < Margin
    BY <1>6, <1>4, <1>1, ConstantTypes
  <2>5. inflated' - Latest.Inflated \in 0 .. Interval - 1 /\ bitPos' - Latest.Compressed >= 0
    BY <2>4, <1>4, ConstantTypes
  <2>. QED BY <1>1, <2>1, <2>2, <2>3, <2>4, <2>5
<1>. QED BY <1>5, <1>6

(***************************************************************************)
(* The start of a block, whose header takes n bits.                        *)
(***************************************************************************)
LEMMA BlockStartStep ==
  ASSUME PaceInv, NEW last \in BOOLEAN, BlockStart(last),
         NEW n \in Nat, n < Margin, bitPos' = bitPos + n
  PROVE  /\ entries' \in Seq(ZMapEntries) /\ bitPos' \in Nat /\ inflated' \in Nat
         /\ final' \in BOOLEAN
         /\ entries' # << >>
         /\ inflated' - Latest'.Inflated \in 0 .. Interval - 1
         /\ bitPos' - Latest'.Compressed >= 0
         /\ bitPos' - Latest'.Compressed < Margin
         /\ CheckpointsInTime'
<1> DEFINE e == Entry(inflated, bitPos, TRUE, 0)
<1>1. /\ bitPos \in Nat /\ inflated \in Nat /\ stage = "header"
      /\ entries \in Seq(ZMapEntries) /\ CheckpointsInTime
      /\ inflated' = inflated /\ final' = last /\ entries' = Append(entries, e)
  BY DEF PaceInv, WalkTypeOK, BlockStart
<1>2. e \in ZMapEntries /\ e.Compressed = bitPos /\ e.Inflated = inflated
  BY <1>1 DEF Entry, ZMapEntries
<1>. HIDE DEF e
<1>3. Latest' = e /\ entries' # << >> /\ entries' \in Seq(ZMapEntries)
  BY <1>1, <1>2, OneMore DEF Latest
<1>4. /\ bitPos - (IF entries = << >> THEN 0 ELSE Latest.Compressed) \in 0 .. InField - 1
      /\ inflated - (IF entries = << >> THEN 0 ELSE Latest.Inflated) >= 0
      /\ inflated - (IF entries = << >> THEN 0 ELSE Latest.Inflated) < Interval + Chunk
  <2>1. CASE entries = << >>
    BY <2>1, <1>1, ConstantTypes DEF PaceInv, Pace
  <2>2. CASE entries # << >>
    <3>1. /\ inflated - Latest.Inflated \in 0 .. Interval - 1
          /\ bitPos - Latest.Compressed >= 0 /\ bitPos - Latest.Compressed < InField
      BY <2>2, <1>1 DEF PaceInv, Pace
    <3>2. Latest.Compressed \in Nat /\ Latest.Inflated \in Nat
      BY <2>2, <1>1, LatestType
    <3> DEFINE c == Latest.Compressed
               o == Latest.Inflated
    <3>. HIDE DEF c, o
    <3>3. /\ bitPos - c \in 0 .. InField - 1
          /\ inflated - o >= 0 /\ inflated - o < Interval + Chunk
      BY <3>1, <3>2, <1>1, ConstantTypes DEF c, o
    <3>. QED BY <2>2, <3>3 DEF c, o
  <2>. QED BY <2>1, <2>2
<1>5. CheckpointsInTime'
  BY <1>1, <1>2, <1>4, GivesType, StillInTime
<1>. QED BY <1>1, <1>2, <1>3, <1>5, ConstantTypes

-----------------------------------------------------------------------------
LEMMA PaceInitially == WalkInit => PaceInv
<1>. SUFFICES ASSUME WalkInit PROVE PaceInv
  OBVIOUS
<1>1. WalkTypeOK
  BY EmptySeq DEF WalkInit, WalkTypeOK
<1>2. Pace
  BY DEF WalkInit, Pace
<1>3. CheckpointsInTime
  <2>1. DOMAIN entries = {}
    BY EmptySeq DEF WalkInit
  <2>. QED BY <2>1 DEF CheckpointsInTime
<1>. QED BY <1>1, <1>2, <1>3 DEF PaceInv

\* A step in which bits are read, and at most the stage changes.
LEMMA SameEntries ==
  ASSUME PaceInv, entries' = entries, inflated' = inflated, blockCount' = blockCount,
         left' = left, final' = final, bitPos' \in Nat, bitPos' >= bitPos,
         stage' \in {"header", "ended", "corrupt"},
         entries = << >> => bitPos' = 0,
         entries # << >> /\ stage' = "header" => bitPos' - Latest.Compressed < InField
  PROVE  PaceInv'
<1>1. Latest' = Latest
  BY DEF Latest
<1>2. CheckpointsInTime'
  BY DEF PaceInv, CheckpointsInTime, InDelta, OutDelta
<1>3. WalkTypeOK'
  BY DEF PaceInv, WalkTypeOK
<1>4. ASSUME entries # << >>
      PROVE  inflated - Latest.Inflated \in 0 .. Interval - 1 /\ bitPos' - Latest.Compressed >= 0
  <2>1. /\ bitPos \in Nat /\ bitPos - Latest.Compressed >= 0
        /\ inflated - Latest.Inflated \in 0 .. Interval - 1
    BY <1>4 DEF PaceInv, WalkTypeOK, Pace
  <2>2. Latest.Compressed \in Nat
    BY <1>4, LatestType DEF PaceInv, WalkTypeOK
  <2>. QED BY <2>1, <2>2
<1>5. Pace'
  BY <1>1, <1>4 DEF Pace, PaceInv
<1>. QED BY <1>2, <1>3, <1>5 DEF PaceInv

LEMMA PaceStep == PaceInv /\ [Walk]_walkVars => PaceInv'
<1>. SUFFICES ASSUME PaceInv, [Walk]_walkVars PROVE PaceInv'
  OBVIOUS
<1>0. /\ stage \in {"gzip", "header", "stored", "symbols", "ended", "corrupt"}
      /\ bitPos \in Nat /\ inflated \in Nat /\ entries \in Seq(ZMapEntries)
      /\ blockCount \in Nat /\ left \in Nat /\ final \in BOOLEAN
  BY DEF PaceInv, WalkTypeOK
<1>1. CASE GzipHeader
  <2>1. entries = << >> /\ bitPos = 0 /\ bitPos' = 0
    BY <1>1 DEF GzipHeader, PaceInv, Pace
  <2>. QED BY <1>1, <2>1, <1>0, SameEntries DEF GzipHeader
<1>2. CASE StoredBlock
  <2>1. PICK last \in BOOLEAN, n \in StoredLens :
          /\ BlockStart(last)
          /\ bitPos' = AlignToByte(bitPos + 3) + 4 * ByteBits
          /\ left' = n
          /\ stage' = IF n = 0 THEN AfterBlock(last) ELSE "stored"
          /\ blockCount' = 0
    BY <1>2 DEF StoredBlock
  <2> DEFINE k == bitPos' - bitPos
  <2>2. k \in Nat /\ k < Margin /\ bitPos' = bitPos + k
    <3>1. /\ AlignToByte(bitPos + 3) \in Nat /\ AlignToByte(bitPos + 3) >= bitPos + 3
          /\ AlignToByte(bitPos + 3) <= bitPos + 3 + ByteBits - 1
      BY <1>0, Aligned
    <3>2. 3 + (ByteBits - 1) + 4 * ByteBits < Margin
      BY DeflateAssumption DEF StoredHeader
    <3>. QED BY <1>0, <2>1, <3>1, <3>2, ConstantTypes
  <2>. HIDE DEF k
  <2>3. /\ entries' \in Seq(ZMapEntries) /\ bitPos' \in Nat /\ inflated' \in Nat
        /\ final' \in BOOLEAN /\ entries' # << >> /\ CheckpointsInTime'
        /\ inflated' - Latest'.Inflated \in 0 .. Interval - 1
        /\ bitPos' - Latest'.Compressed >= 0 /\ bitPos' - Latest'.Compressed < Margin
    BY <2>1, <2>2, BlockStartStep
  <2>4. WalkTypeOK'
    BY <2>1, <2>3, DeflateAssumption DEF WalkTypeOK, AfterBlock
  <2>5. stage' \in {"header", "ended", "stored"}
    BY <2>1 DEF AfterBlock
  <2>6. Pace'
    <3>1. bitPos' - Latest'.Compressed < InField
      <4>1. Latest'.Compressed \in Nat
        BY <2>3, LastType DEF Latest
      <4>. QED BY <2>3, <4>1, ConstantTypes
    <3>. QED BY <2>3, <2>5, <3>1 DEF Pace
  <2>. QED BY <2>3, <2>4, <2>6 DEF PaceInv
<1>3. CASE HuffmanBlock
  <2>1. PICK last \in BOOLEAN, t \in Tables :
          /\ BlockStart(last)
          /\ bitPos' = bitPos + 3 + t
          /\ stage' = "symbols" /\ blockCount' = 0 /\ left' = left
    BY <1>3 DEF HuffmanBlock
  <2>2. 3 + t \in Nat /\ 3 + t < Margin /\ bitPos' = bitPos + (3 + t)
    BY <1>0, <2>1, DeflateAssumption
  <2>3. /\ entries' \in Seq(ZMapEntries) /\ bitPos' \in Nat /\ inflated' \in Nat
        /\ final' \in BOOLEAN /\ entries' # << >> /\ CheckpointsInTime'
        /\ inflated' - Latest'.Inflated \in 0 .. Interval - 1
        /\ bitPos' - Latest'.Compressed >= 0 /\ bitPos' - Latest'.Compressed < Margin
    BY <2>1, <2>2, BlockStartStep
  <2>4. WalkTypeOK'
    BY <1>0, <2>1, <2>3 DEF WalkTypeOK
  <2>. QED BY <2>1, <2>3, <2>4 DEF PaceInv, Pace
<1>4. CASE StoredChunk
  <2> DEFINE k == IF left > Chunk THEN Chunk ELSE left
  <2>1. /\ stage = "stored" /\ final' = final
        /\ inflated' = inflated + k /\ bitPos' = bitPos + k * ByteBits /\ left' = left - k
        /\ maybeCheckpoint(inflated', bitPos')
        /\ stage' = IF left = k THEN AfterBlock(final) ELSE "stored"
    BY <1>4 DEF StoredChunk
  <2>2. k \in Nat /\ k <= Chunk /\ k <= left
    BY <1>0, ConstantTypes
  <2>. HIDE DEF k
  <2>3. k * ByteBits \in Nat /\ Margin + k * ByteBits <= InField
    BY <2>2, ChunkBits
  <2>4. /\ entries' \in Seq(ZMapEntries) /\ blockCount' \in Nat
        /\ entries' # << >> /\ CheckpointsInTime'
        /\ inflated' - Latest'.Inflated \in 0 .. Interval - 1
        /\ bitPos' - Latest'.Compressed >= 0 /\ bitPos' - Latest'.Compressed < Margin
    BY <2>1, <2>2, <2>3, GivesType, CheckpointStep
  <2>5. WalkTypeOK'
    BY <1>0, <2>1, <2>2, <2>3, <2>4 DEF WalkTypeOK, AfterBlock
  <2>6. stage' \in {"header", "ended", "stored"}
    BY <2>1 DEF AfterBlock
  <2>7. Pace'
    <3>1. bitPos' - Latest'.Compressed < InField
      <4>1. Latest'.Compressed \in Nat
        BY <2>4, LastType DEF Latest
      <4>. QED BY <2>4, <2>5, <4>1, ConstantTypes DEF WalkTypeOK
    <3>. QED BY <2>4, <2>6, <3>1 DEF Pace
  <2>. QED BY <2>4, <2>5, <2>7 DEF PaceInv
<1>5. CASE BodySymbol
  <2>1. PICK s \in Symbols :
          /\ inflated' = inflated + s.bytes /\ bitPos' = bitPos + s.bits
          /\ maybeCheckpoint(inflated', bitPos')
    BY <1>5 DEF BodySymbol
  <2>2. /\ stage = "symbols" /\ stage' = stage /\ left' = left /\ final' = final
    BY <1>5 DEF BodySymbol
  <2>3. s.bits \in Nat /\ s.bytes \in Nat /\ Margin + s.bits <= InField /\ s.bytes \in Gives
    BY DeflateAssumption, MarginAssumption DEF Gives
  <2>4. /\ entries' \in Seq(ZMapEntries) /\ blockCount' \in Nat
        /\ entries' # << >> /\ CheckpointsInTime'
        /\ inflated' - Latest'.Inflated \in 0 .. Interval - 1
        /\ bitPos' - Latest'.Compressed >= 0 /\ bitPos' - Latest'.Compressed < Margin
    BY <2>1, <2>2, <2>3, CheckpointStep
  <2>5. WalkTypeOK'
    BY <1>0, <2>1, <2>2, <2>3, <2>4 DEF WalkTypeOK
  <2>. QED BY <2>2, <2>4, <2>5 DEF PaceInv, Pace
<1>6. CASE EndOfBlock
  <2>1. PICK e \in EndBits : bitPos' = bitPos + e
    BY <1>6 DEF EndOfBlock
  <2>2. /\ stage = "symbols" /\ stage' \in {"header", "ended"}
        /\ entries' = entries /\ inflated' = inflated /\ blockCount' = blockCount
        /\ left' = left /\ final' = final
    BY <1>6 DEF EndOfBlock, AfterBlock
  <2>3. e \in Nat /\ Margin + e <= InField
    BY DeflateAssumption, MarginAssumption
  <2>4. entries # << >> /\ bitPos - Latest.Compressed < Margin
    BY <2>2 DEF PaceInv, Pace
  <2>5. Latest.Compressed \in Nat
    BY <1>0, <2>4, LatestType
  <2>6. bitPos' - Latest.Compressed < InField /\ bitPos' \in Nat /\ bitPos' >= bitPos
    BY <1>0, <2>1, <2>3, <2>4, <2>5, ConstantTypes
  <2>. QED BY <2>2, <2>4, <2>6, SameEntries
<1>7. CASE Corrupt
  <2>1. entries = << >> => bitPos = 0
    BY DEF PaceInv, Pace
  <2>. QED BY <1>0, <1>7, <2>1, SameEntries DEF Corrupt
<1>8. CASE UNCHANGED walkVars
  BY <1>8 DEF PaceInv, WalkTypeOK, Pace, CheckpointsInTime, InDelta, OutDelta, Latest, walkVars
<1>. QED BY <1>1, <1>2, <1>3, <1>4, <1>5, <1>6, <1>7, <1>8 DEF Walk

(***************************************************************************)
(* Whatever the stream, the distances in bits fit their field, and a       *)
(* client that starts at a restart point has less than Interval bytes and  *)
(* what is read in one go before it comes to the next.                     *)
(***************************************************************************)
THEOREM WalkInTime == WalkSpec => [](WalkTypeOK /\ CheckpointsInTime)
<1>1. PaceInv => WalkTypeOK /\ CheckpointsInTime
  BY DEF PaceInv
<1>. QED BY <1>1, PaceInitially, PaceStep, PTL DEF WalkSpec

-----------------------------------------------------------------------------
(***************************************************************************)
(* Restart points, encoded and decoded.  Checkpoints count from the start  *)
(* of their block, which is why the count need not be in the file.         *)
(***************************************************************************)
Counted(es) ==
  \A i \in DOMAIN es :
    IF es[i].IsBlockStart THEN es[i].BlockCount = 0
    ELSE i - 1 \in DOMAIN es /\ es[i].BlockCount = es[i - 1].BlockCount + 1

Counting ==
  /\ Counted(entries)
  /\ stage \in {"stored", "symbols"} => blockCount = Latest.BlockCount

LEMMA SameInterval ==
  ASSUME NEW a \in Nat, NEW b \in Nat, 1 .. a = 1 .. b
  PROVE  a = b
<1>1. ~ a < b
  <2>. SUFFICES ASSUME a < b PROVE FALSE
    OBVIOUS
  <2>1. b \in 1 .. b /\ b \notin 1 .. a
    OBVIOUS
  <2>. QED BY <2>1
<1>2. ~ b < a
  <2>. SUFFICES ASSUME b < a PROVE FALSE
    OBVIOUS
  <2>1. a \in 1 .. a /\ a \notin 1 .. b
    OBVIOUS
  <2>. QED BY <2>1
<1>. QED BY <1>1, <1>2

LEMMA EncodedLen ==
  ASSUME NEW es \in Seq(ZMapEntries)
  PROVE  /\ Len(EncodeZMap2(es)) = Len(es)
         /\ \A i \in 1 .. Len(es) :
              EncodeZMap2(es)[i] =
                [in |-> InDelta(es, i),
                 ob |-> OutDelta(es, i) + (IF es[i].IsBlockStart THEN 0 ELSE OutField)]
<1>1. DOMAIN es = 1 .. Len(es) /\ Len(es) \in Nat
  BY LenProperties
<1>2. DOMAIN EncodeZMap2(es) = 1 .. Len(es)
  BY <1>1 DEF EncodeZMap2
<1>3. Len(EncodeZMap2(es)) = Len(es)
  <2> DEFINE n == Len(es)
             r == EncodeZMap2(es)
  <2>1. r \in [1 .. n -> { r[i] : i \in 1 .. n }]
    BY <1>1, <1>2 DEF EncodeZMap2
  <2>2. r \in Seq({ r[i] : i \in 1 .. n })
    <3>. HIDE DEF r, n
    <3>1. n \in Nat
      BY <1>1 DEF n
    <3>. QED BY <2>1, <3>1
  <2>3. n \in Nat /\ DOMAIN r = 1 .. n
    BY <1>1, <1>2
  <2>. HIDE DEF r, n
  <2>4. Len(r) \in Nat /\ DOMAIN r = 1 .. Len(r)
    BY <2>2, LenProperties
  <2>5. Len(r) = n
    BY <2>3, <2>4, SameInterval
  <2>. QED BY <2>5 DEF r, n
<1>. QED BY <1>1, <1>3 DEF EncodeZMap2

LEMMA WordBack ==
  ASSUME NEW d \in 0 .. OutField - 1, NEW start \in BOOLEAN
  PROVE  LET ob == d + (IF start THEN 0 ELSE OutField)
         IN  ob % OutField = d /\ (ob < OutField <=> start)
<1>1. OutField \in Nat \ {0} /\ d \in Nat /\ d < OutField
  BY WireAssumption
<1>2. CASE start
  BY <1>1, <1>2
<1>3. CASE ~start
  BY <1>1, <1>3
<1>. QED BY <1>2, <1>3

\* One entry is decoded from the one before and its own word.
LEMMA EntryBack ==
  ASSUME NEW es \in Seq(ZMapEntries), Counted(es), NEW i \in 1 .. Len(es),
         InDelta(es, i) \in 0 .. InField - 1, OutDelta(es, i) \in 0 .. OutField - 1,
         NEW w, w = EncodeZMap2(es)[i]
  PROVE  es[i] = After(IF i = 1 THEN Entry(0, 0, TRUE, 0) ELSE es[i - 1], w)
<1> DEFINE e == es[i]
           p == IF i = 1 THEN Entry(0, 0, TRUE, 0) ELSE es[i - 1]
<1>0. Len(es) \in Nat /\ i \in Nat /\ DOMAIN es = 1 .. Len(es)
  BY LenProperties
<1>1. e \in ZMapEntries
  BY ElementOfSeq
<1>2. p \in ZMapEntries
  <2>1. CASE i = 1
    BY <2>1 DEF Entry, ZMapEntries
  <2>2. CASE i # 1
    <3>1. i - 1 \in 1 .. Len(es)
      BY <1>0, <2>2
    <3>. QED BY <2>2, <3>1, ElementOfSeq
  <2>. QED BY <2>1, <2>2
<1>3. /\ InDelta(es, i) = e.Compressed - p.Compressed
      /\ OutDelta(es, i) = e.Inflated - p.Inflated
  BY DEF InDelta, OutDelta, Entry
<1>4. /\ w.in = e.Compressed - p.Compressed
      /\ w.ob = (e.Inflated - p.Inflated) + (IF e.IsBlockStart THEN 0 ELSE OutField)
  <2>1. w = [in |-> InDelta(es, i),
             ob |-> OutDelta(es, i) + (IF es[i].IsBlockStart THEN 0 ELSE OutField)]
    BY EncodedLen
  <2>2. /\ w.in = InDelta(es, i)
        /\ w.ob = OutDelta(es, i) + (IF es[i].IsBlockStart THEN 0 ELSE OutField)
    BY <2>1
  <2>. QED BY <2>2, <1>3
<1>5. /\ w.ob % OutField = e.Inflated - p.Inflated
      /\ w.ob < OutField <=> e.IsBlockStart
  <2>1. e.IsBlockStart \in BOOLEAN
    BY <1>1 DEF ZMapEntries
  <2>2. e.Inflated - p.Inflated \in 0 .. OutField - 1
    BY <1>3
  <2>. QED BY <1>4, <2>1, <2>2, WordBack
<1>6. e.BlockCount = IF e.IsBlockStart THEN 0 ELSE p.BlockCount + 1
  <2>1. CASE e.IsBlockStart
    BY <1>0, <2>1 DEF Counted
  <2>2. CASE ~e.IsBlockStart
    <3>1. i - 1 \in DOMAIN es /\ e.BlockCount = es[i - 1].BlockCount + 1
      BY <1>0, <2>2 DEF Counted
    <3>2. i # 1
      BY <3>1, <1>0
    <3>. QED BY <2>2, <3>1, <3>2
  <2>. QED BY <2>1, <2>2
<1>. HIDE DEF e, p
<1>7. e = Entry(e.Inflated, e.Compressed, e.IsBlockStart, e.BlockCount)
  BY <1>1 DEF Entry, ZMapEntries
<1>8. p.Inflated + (w.ob % OutField) = e.Inflated /\ p.Compressed + w.in = e.Compressed
  <2>1. e.Inflated \in Nat /\ p.Inflated \in Nat /\ e.Compressed \in Nat /\ p.Compressed \in Nat
    BY <1>1, <1>2 DEF ZMapEntries
  <2>. QED BY <2>1, <1>4, <1>5
<1>9. (w.ob < OutField) = e.IsBlockStart
  BY <1>1, <1>5 DEF ZMapEntries
<1>10. (IF w.ob < OutField THEN 0 ELSE p.BlockCount + 1) = e.BlockCount
  BY <1>5, <1>6
<1>11. After(p, w) = Entry(e.Inflated, e.Compressed, e.IsBlockStart, e.BlockCount)
  BY <1>8, <1>9, <1>10 DEF After, Entry
<1>12. e = After(p, w)
  BY <1>7, <1>11
<1>. QED BY <1>12 DEF e, p

LEMMA DecodeEncode ==
  ASSUME NEW es \in Seq(ZMapEntries), Counted(es),
         \A i \in 1 .. Len(es) : /\ InDelta(es, i) \in 0 .. InField - 1
                                 /\ OutDelta(es, i) \in 0 .. OutField - 1
  PROVE  DecodeZMap2(EncodeZMap2(es)) = es
<1> DEFINE n == Len(es)
           raw == EncodeZMap2(es)
           zero == Entry(0, 0, TRUE, 0)
           u == UpTo(raw)
           s == [i \in 0 .. n |-> IF i = 0 THEN zero ELSE es[i]]
<1>1. n \in Nat /\ Len(raw) = n /\ DOMAIN es = 1 .. n
  BY EncodedLen, LenProperties
<1>2. \A i \in 1 .. n : es[i] = After(IF i = 1 THEN zero ELSE es[i - 1], raw[i])
  <2>. TAKE i \in 1 .. n
  <2>1. InDelta(es, i) \in 0 .. InField - 1 /\ OutDelta(es, i) \in 0 .. OutField - 1
    OBVIOUS
  <2>2. \A w : w = EncodeZMap2(es)[i] =>
                 es[i] = After(IF i = 1 THEN Entry(0, 0, TRUE, 0) ELSE es[i - 1], w)
    BY <2>1, EntryBack
  <2>. QED BY <2>2
<1>3. u = CHOOSE q : q = [i \in 0 .. Len(raw) |-> IF i = 0 THEN zero ELSE After(q[i - 1], raw[i])]
  BY DEF UpTo
<1>. HIDE DEF raw, zero, u
<1>4. s = [i \in 0 .. n |-> IF i = 0 THEN zero ELSE After(s[i - 1], raw[i])]
  <2> DEFINE t == [i \in 0 .. n |-> IF i = 0 THEN zero ELSE After(s[i - 1], raw[i])]
  <2>1. \A i \in 0 .. n : s[i] = t[i]
    <3>. TAKE i \in 0 .. n
    <3>1. CASE i = 0
      BY <3>1
    <3>2. CASE i = 1
      BY <3>2, <1>1, <1>2
    <3>3. CASE i > 1
      <4>1. i - 1 \in 0 .. n /\ i \in 1 .. n /\ i # 1 /\ i - 1 # 0
        BY <3>3, <1>1
      <4>2. s[i - 1] = es[i - 1] /\ s[i] = es[i]
        BY <4>1
      <4>. QED BY <4>1, <4>2, <1>2
    <3>. QED BY <3>1, <3>2, <3>3, <1>1
  <2>. QED BY <2>1
<1>. HIDE DEF s
<1>5. u = [i \in 0 .. n |-> IF i = 0 THEN zero ELSE After(u[i - 1], raw[i])]
  BY <1>1, <1>3, <1>4, Zenon
<1>6. \A i \in 0 .. n : u[i] = s[i]
  <2> DEFINE T == { i \in Nat : i <= n => u[i] = s[i] }
  <2>1. 0 \in T
    BY <1>1, <1>4, <1>5
  <2>2. ASSUME NEW i \in T PROVE i + 1 \in T
    <3>1. SUFFICES ASSUME i + 1 <= n PROVE u[i + 1] = s[i + 1]
      OBVIOUS
    <3>2. i \in Nat /\ (i <= n => u[i] = s[i])
      OBVIOUS
    <3>3. /\ i + 1 \in 0 .. n /\ i + 1 # 0 /\ (i + 1) - 1 = i /\ u[i] = s[i]
      <4>1. \A a \in Nat, b \in Nat : a + 1 <= b =>
              a <= b /\ a + 1 \in 0 .. b /\ a + 1 # 0 /\ (a + 1) - 1 = a
        OBVIOUS
      <4>2. i \in Nat /\ n \in Nat /\ i + 1 <= n
        BY <3>1, <3>2, <1>1
      <4>. HIDE DEF T, n
      <4>3. i <= n /\ i + 1 \in 0 .. n /\ i + 1 # 0 /\ (i + 1) - 1 = i
        BY <4>1, <4>2
      <4>. QED BY <3>2, <4>3, Zenon
    <3>4. u[i + 1] = After(u[i], raw[i + 1])
      BY <1>5, <3>3
    <3>5. s[i + 1] = After(s[i], raw[i + 1])
      BY <1>4, <3>3
    <3>. QED BY <3>3, <3>4, <3>5
  <2>3. T \in SUBSET Nat
    OBVIOUS
  <2>4. T = Nat
    <3>. HIDE DEF T
    <3>. QED BY <2>1, <2>2, <2>3, InductiveSet
  <2>. QED BY <2>4, <1>1
<1>7. DecodeZMap2(raw) = [i \in 1 .. n |-> u[i]]
  BY <1>1 DEF DecodeZMap2, u
<1>8. \A i \in 1 .. n : u[i] = es[i]
  <2>. TAKE i \in 1 .. n
  <2>1. i \in 0 .. n /\ i # 0
    BY <1>1
  <2>2. s[i] = es[i]
    BY <2>1 DEF s
  <2>. QED BY <2>1, <2>2, <1>6
<1>9. es = [i \in 1 .. n |-> es[i]]
  BY <1>1, LenProperties
<1>. QED BY <1>7, <1>8, <1>9 DEF raw

-----------------------------------------------------------------------------
LEMMA OneMoreCounted ==
  ASSUME NEW es \in Seq(ZMapEntries), Counted(es), NEW e \in ZMapEntries,
         IF e.IsBlockStart THEN e.BlockCount = 0
         ELSE es # << >> /\ e.BlockCount = es[Len(es)].BlockCount + 1
  PROVE  Counted(Append(es, e))
<1> DEFINE fs == Append(es, e)
<1>1. /\ Len(es) \in Nat /\ (es # << >> => Len(es) # 0)
      /\ DOMAIN es = 1 .. Len(es) /\ DOMAIN fs = 1 .. Len(es) + 1
      /\ fs[Len(es) + 1] = e /\ \A i \in 1 .. Len(es) : fs[i] = es[i]
  BY OneMore, LenProperties, EmptySeq
<1>. HIDE DEF fs
<1>2. ASSUME NEW i \in DOMAIN fs
      PROVE  IF fs[i].IsBlockStart THEN fs[i].BlockCount = 0
             ELSE i - 1 \in DOMAIN fs /\ fs[i].BlockCount = fs[i - 1].BlockCount + 1
  <2>1. CASE i = Len(es) + 1
    <3>1. fs[i] = e /\ i - 1 = Len(es)
      BY <2>1, <1>1
    <3>2. CASE e.IsBlockStart
      BY <3>1, <3>2
    <3>3. CASE ~e.IsBlockStart
      <4>1. i - 1 \in 1 .. Len(es)
        BY <3>1, <3>3, <1>1
      <4>2. fs[i - 1] = es[Len(es)]
        BY <4>1, <3>1, <1>1
      <4>. QED BY <3>1, <3>3, <4>1, <4>2, <1>1
    <3>. QED BY <3>2, <3>3
  <2>2. CASE i # Len(es) + 1
    <3>1. i \in 1 .. Len(es) /\ fs[i] = es[i]
      BY <2>2, <1>1
    <3>2. CASE es[i].IsBlockStart
      BY <3>1, <3>2, <1>1 DEF Counted
    <3>3. CASE ~es[i].IsBlockStart
      <4>1. i - 1 \in 1 .. Len(es) /\ es[i].BlockCount = es[i - 1].BlockCount + 1
        BY <3>1, <3>3, <1>1 DEF Counted
      <4>. QED BY <3>1, <3>3, <4>1, <1>1
    <3>. QED BY <3>2, <3>3
  <2>. QED BY <2>1, <2>2
<1>3. Counted(fs)
  BY <1>2 DEF Counted
<1>. QED BY <1>3 DEF fs

LEMMA CountInitially == WalkInit => Counting
<1>. SUFFICES ASSUME WalkInit PROVE Counting
  OBVIOUS
<1>1. DOMAIN entries = {} /\ stage = "gzip"
  BY DEF WalkInit
<1>. QED BY <1>1 DEF Counting, Counted

LEMMA CountedCheckpoint ==
  ASSUME PaceInv, Counting, stage \in {"stored", "symbols"},
         bitPos' \in Nat, inflated' \in Nat, maybeCheckpoint(inflated', bitPos')
  PROVE  Counted(entries)' /\ blockCount' = Latest'.BlockCount
<1>1. /\ entries \in Seq(ZMapEntries) /\ entries # << >> /\ blockCount \in Nat
      /\ blockCount = Latest.BlockCount /\ Counted(entries)
  BY DEF PaceInv, WalkTypeOK, Pace, Counting
<1>2. CASE inflated' - Latest.Inflated >= Interval \/ bitPos' - Latest.Compressed >= Margin
  <2> DEFINE e == Entry(inflated', bitPos', FALSE, blockCount + 1)
  <2>1. entries' = Append(entries, e) /\ blockCount' = blockCount + 1
    BY <1>2 DEF maybeCheckpoint
  <2>2. e \in ZMapEntries /\ ~e.IsBlockStart /\ e.BlockCount = blockCount + 1
    BY <1>1 DEF Entry, ZMapEntries
  <2>. HIDE DEF e
  <2>3. Latest' = e
    BY <1>1, <2>1, <2>2, OneMore DEF Latest
  <2>4. Counted(Append(entries, e))
    BY <1>1, <2>2, OneMoreCounted DEF Latest
  <2>. QED BY <2>1, <2>2, <2>3, <2>4
<1>3. CASE ~ (inflated' - Latest.Inflated >= Interval \/ bitPos' - Latest.Compressed >= Margin)
  BY <1>1, <1>3 DEF maybeCheckpoint, Latest
<1>. QED BY <1>2, <1>3

LEMMA CountedBlockStart ==
  ASSUME PaceInv, Counting, NEW last, BlockStart(last)
  PROVE  Counted(entries)' /\ Latest'.BlockCount = 0
<1> DEFINE e == Entry(inflated, bitPos, TRUE, 0)
<1>1. /\ entries \in Seq(ZMapEntries) /\ Counted(entries)
      /\ entries' = Append(entries, e) /\ bitPos \in Nat /\ inflated \in Nat
  BY DEF PaceInv, WalkTypeOK, Counting, BlockStart
<1>2. e \in ZMapEntries /\ e.IsBlockStart /\ e.BlockCount = 0
  BY <1>1 DEF Entry, ZMapEntries
<1>. HIDE DEF e
<1>3. Latest' = e
  BY <1>1, <1>2, OneMore DEF Latest
<1>4. Counted(Append(entries, e))
  BY <1>1, <1>2, OneMoreCounted
<1>. QED BY <1>1, <1>2, <1>3, <1>4

LEMMA CountStep == PaceInv /\ PaceInv' /\ Counting /\ [Walk]_walkVars => Counting'
<1>. SUFFICES ASSUME PaceInv, PaceInv', Counting, [Walk]_walkVars PROVE Counting'
  OBVIOUS
<1>0. bitPos' \in Nat /\ inflated' \in Nat
  BY DEF PaceInv, WalkTypeOK
<1>1. CASE GzipHeader \/ EndOfBlock \/ Corrupt
  <2>1. entries' = entries /\ stage' \notin {"stored", "symbols"}
    BY <1>1 DEF GzipHeader, EndOfBlock, Corrupt, AfterBlock
  <2>. QED BY <2>1 DEF Counting
<1>2. CASE StoredBlock \/ HuffmanBlock
  <2>1. blockCount' = 0 /\ \E last \in BOOLEAN : BlockStart(last)
    BY <1>2 DEF StoredBlock, HuffmanBlock
  <2>. QED BY <2>1, CountedBlockStart DEF Counting
<1>3. CASE StoredChunk \/ BodySymbol
  <2>1. stage \in {"stored", "symbols"} /\ maybeCheckpoint(inflated', bitPos')
    BY <1>3 DEF StoredChunk, BodySymbol
  <2>. QED BY <1>0, <2>1, CountedCheckpoint DEF Counting
<1>4. CASE UNCHANGED walkVars
  BY <1>4 DEF Counting, Counted, Latest, walkVars
<1>. QED BY <1>1, <1>2, <1>3, <1>4 DEF Walk

LEMMA OutDeltaType ==
  ASSUME NEW es \in Seq(ZMapEntries), NEW i \in 1 .. Len(es)
  PROVE  OutDelta(es, i) \in Int
<1>1. ASSUME NEW j \in 1 .. Len(es) PROVE es[j].Inflated \in Nat
  <2>1. es[j] \in ZMapEntries
    BY ElementOfSeq
  <2>. QED BY <2>1 DEF ZMapEntries
<1>2. i # 1 => i - 1 \in 1 .. Len(es)
  BY LenProperties
<1>. QED BY <1>1, <1>2 DEF OutDelta

LEMMA ReadsBack == PaceInv /\ Counting => MapReadsBack
<1>. SUFFICES ASSUME PaceInv, Counting, Encodable(entries)
     PROVE  DecodeZMap2(EncodeZMap2(entries)) = entries
  BY DEF MapReadsBack
<1>1. entries \in Seq(ZMapEntries) /\ Counted(entries)
  BY DEF PaceInv, WalkTypeOK, Counting
<1>2. DOMAIN entries = 1 .. Len(entries) /\ Len(entries) \in Nat
  BY <1>1, LenProperties
<1>3. ASSUME NEW i \in 1 .. Len(entries)
      PROVE  /\ InDelta(entries, i) \in 0 .. InField - 1
             /\ OutDelta(entries, i) \in 0 .. OutField - 1
  <2>1. /\ InDelta(entries, i) \in 0 .. InField - 1 /\ OutDelta(entries, i) >= 0
    BY <1>2 DEF PaceInv, CheckpointsInTime
  <2>2. OutDelta(entries, i) < OutField
    BY <1>2 DEF Encodable
  <2>3. OutDelta(entries, i) \in Int
    BY <1>1, OutDeltaType
  <2>. QED BY <2>1, <2>2, <2>3, WireAssumption
<1>. QED BY <1>1, <1>3, DecodeEncode

(***************************************************************************)
(* The restart points of any stream that have an encoding are what a       *)
(* reader decodes from it, the places of checkpoints included.             *)
(***************************************************************************)
THEOREM WalkReadsBack == WalkSpec => []MapReadsBack
<1>1. WalkInit => PaceInv /\ Counting
  BY PaceInitially, CountInitially
<1>2. PaceInv /\ Counting /\ [Walk]_walkVars => (PaceInv /\ Counting)'
  BY PaceStep, CountStep
<1>. QED BY <1>1, <1>2, ReadsBack, PTL DEF WalkSpec

(***************************************************************************)
(* What it would take for the encoding never to fail: a field with room    *)
(* for Interval and what is read in one go after it.                       *)
(***************************************************************************)
THEOREM RoomMakesItTotal ==
  ASSUME \A g \in Gives : Interval + g <= OutField
  PROVE  WalkSpec => []EncodeIsTotal
<1>1. ASSUME PaceInv PROVE EncodeIsTotal
  <2>1. entries \in Seq(ZMapEntries) /\ CheckpointsInTime
    BY <1>1 DEF PaceInv, WalkTypeOK
  <2>2. DOMAIN entries = 1 .. Len(entries) /\ Len(entries) \in Nat
    BY <2>1, LenProperties
  <2>3. ASSUME NEW i \in DOMAIN entries
        PROVE  InDelta(entries, i) < InField /\ OutDelta(entries, i) < OutField
    <3>1. PICK g \in Gives : OutDelta(entries, i) < Interval + g
      BY <2>1 DEF CheckpointsInTime
    <3>2. InDelta(entries, i) < InField
      BY <2>1, WireAssumption DEF CheckpointsInTime
    <3>3. OutDelta(entries, i) \in Int
      BY <2>1, <2>2, OutDeltaType
    <3>4. Interval + g <= OutField /\ g \in Nat
      BY GivesType
    <3>. QED BY <3>1, <3>2, <3>3, <3>4, ConstantTypes, WireAssumption
  <2>. QED BY <2>3 DEF EncodeIsTotal, Encodable
<1>. QED BY <1>1, PaceInitially, PaceStep, PTL DEF WalkSpec
=============================================================================
