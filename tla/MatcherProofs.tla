---------------------------- MODULE MatcherProofs ----------------------------
(***************************************************************************)
(* What holds of every scan, for every block size, every set of control    *)
(* files, seeds and downloads, and every width of the weak checksum.       *)
(***************************************************************************)
EXTENDS Matcher, BlockStoreProofs, RsumProofs, SequenceTheorems

(***************************************************************************)
(* The inductive invariant: the types, the exact count, a window that lies *)
(* inside the padded seed, and the checksums that belong to it.            *)
(***************************************************************************)
SeedFits == phase = "scan" => x + Blocksize <= Len(seed)

IInv == TypeOK /\ CountExact /\ SeedFits /\ RollingIsExact

-----------------------------------------------------------------------------
LEMMA PaddedSeed ==
  ASSUME NEW s \in Seq(Byte)
  PROVE  /\ Padded(s) \in Seq(Byte)
         /\ Len(Padded(s)) \in Nat /\ Len(Padded(s)) >= Blocksize
<1>1. /\ Blocksize \in Nat \ {0} /\ Len(s) \in Nat /\ 0 \in Byte
      /\ \A k \in 1 .. Len(s) : s[k] \in Byte
  BY StoreAssumption
<1> DEFINE needed == IF Len(s) > Blocksize
                     THEN ((Len(s) + Blocksize - 1) \div Blocksize) * Blocksize
                     ELSE Blocksize
<1>2. needed \in Nat /\ needed >= Blocksize
  <2>1. ASSUME Len(s) > Blocksize
        PROVE  /\ (Len(s) + Blocksize - 1) \div Blocksize \in Nat \ {0}
    BY <1>1, <2>1
  <2>2. \A q \in Nat \ {0}, b \in Nat \ {0} : q * b \in Nat /\ q * b >= b
    OBVIOUS
  <2>. QED BY <1>1, <2>1, <2>2
<1>3. Padded(s) = [k \in 1 .. needed |-> IF k <= Len(s) THEN s[k] ELSE 0]
  BY DEF Padded
<1>. HIDE DEF needed
<1>4. \A k \in 1 .. needed : (IF k <= Len(s) THEN s[k] ELSE 0) \in Byte
  BY <1>1, <1>2
<1>5. Padded(s) \in [1 .. needed -> Byte]
  BY <1>3, <1>4
<1>. QED BY <1>2, <1>5

LEMMA WindowInSeed ==
  ASSUME NEW s \in Seq(Byte), NEW y \in Nat, y + Blocksize <= Len(s)
  PROVE  /\ WindowOf(s, y) \in Window
         /\ WindowOf(s, y) \in [1 .. Blocksize -> Int]
<1>1. Blocksize \in Nat \ {0} /\ Byte \subseteq Int
  BY StoreAssumption
<1>2. \A k \in 1 .. Blocksize : s[y + k] \in Byte
  BY <1>1
<1>. QED BY <1>1, <1>2 DEF WindowOf, Window

LEMMA RollWindow ==
  ASSUME NEW s \in Seq(Byte), NEW y \in Nat, y + Blocksize + 1 <= Len(s)
  PROVE  Roll(CalcRsum(WindowOf(s, y)), s[y + 1], s[y + Blocksize + 1], Blocksize)
           = CalcRsum(WindowOf(s, y + 1))
<1>1. Blocksize \in Nat \ {0} /\ s \in Seq(Int)
  <2>1. s \in [1 .. Len(s) -> Byte] /\ Len(s) \in Nat /\ Byte \subseteq Int
    BY StoreAssumption
  <2>2. s \in [1 .. Len(s) -> Int]
    BY <2>1
  <2>. QED BY <2>1, <2>2, StoreAssumption
<1>. QED BY <1>1, RollIsCalcRsum DEF WindowOf

LEMMA RollType ==
  ASSUME NEW r \in Rsums, NEW a \in Int, NEW b \in Int
  PROVE  Roll(r, a, b, Blocksize) \in Rsums
<1>1. Blocksize \in Nat \ {0} /\ r.A \in Int /\ r.B \in Int
  BY StoreAssumption, WrapSum DEF Rsums, Word
<1>2. r.A + b - a \in Int
  BY <1>1
<1>3. Wrap(r.A + b - a) \in Word /\ Wrap(r.A + b - a) \in Int
  BY <1>2, WrapSum DEF Word
<1>4. r.B + Wrap(r.A + b - a) - a * Blocksize \in Int
  BY <1>1, <1>3
<1>. QED BY <1>3, <1>4, WrapSum DEF Roll, Rsums

-----------------------------------------------------------------------------
LEMMA InitIInv == Init => IInv
<1>. SUFFICES ASSUME Init PROVE IInv
  OBVIOUS
<1>1. /\ cf \in ControlFiles /\ 0 \in Byte /\ 0 \in Word
  BY StoreAssumption, RadixAssumption DEF Init, NewStore, Word, Modulus
<1>2. StoreTypeOK /\ CountExact
  <2>1. /\ out = [p \in Offsets |-> 0] /\ got = {} /\ nGot = 0
    BY DEF Init, NewStore
  <2>2. out \in [Offsets -> Byte]
    BY <1>1, <2>1
  <2>. QED BY <1>1, <2>1, <2>2, FS_EmptySet DEF StoreTypeOK, CountExact
<1>3. TypeOK
  <2>1. /\ phase = "idle" /\ seed = << >> /\ x = 0 /\ haveR1 = FALSE
        /\ r0 = [A |-> 0, B |-> 0] /\ r1 = [A |-> 0, B |-> 0]
        /\ cands = {} /\ feeds = 0
    BY DEF Init
  <2>2. seed \in Seq(Byte) /\ feeds \in 0 .. MaxFeeds /\ haveR1 \in BOOLEAN
    <3>1. << >> \in Seq(Byte)
      OBVIOUS
    <3>2. 0 \in 0 .. MaxFeeds
      BY MatcherAssumption
    <3>. QED BY <2>1, <3>1, <3>2
  <2>3. r0 \in Rsums /\ r1 \in Rsums
    BY <1>1, <2>1 DEF Rsums
  <2>. QED BY <1>2, <2>1, <2>2, <2>3 DEF TypeOK
<1>. QED BY <1>2, <1>3 DEF Init, IInv, SeedFits, RollingIsExact

(***************************************************************************)
(* One step lemma per action.                                              *)
(***************************************************************************)
LEMMA StoreUnchanged ==
  ASSUME StoreTypeOK, CountExact, UNCHANGED storeVars
  PROVE  StoreTypeOK' /\ CountExact'
  BY DEF StoreTypeOK, CountExact, storeVars, Offsets, BlockIdx, NumBlocks, Length

LEMMA FeedSeedStep ==
  ASSUME IInv, NEW s \in Seeds, FeedSeed(s)
  PROVE  IInv'
<1>1. /\ UNCHANGED storeVars /\ StoreTypeOK' /\ CountExact'
      /\ cf' = cf /\ BlockIdx' = BlockIdx /\ seq' = seq
      /\ feeds' \in 0 .. MaxFeeds
  BY StoreUnchanged, MatcherAssumption
     DEF IInv, TypeOK, FeedSeed, storeVars, BlockIdx, NumBlocks, Length, seq
<1>2. CASE NumBlocks = 0
  BY <1>1, <1>2
     DEF FeedSeed, IInv, TypeOK, SeedFits, RollingIsExact, WindowAt, WindowOf
<1>3. CASE NumBlocks # 0
  <2>1. /\ phase' = "scan" /\ seed' = Padded(s) /\ x' = 0
        /\ r0' = CalcRsum(WindowOf(seed', 0))
        /\ haveR1' = (seq = 2 /\ Len(seed') >= 2 * Blocksize)
        /\ r1' = IF haveR1' THEN CalcRsum(WindowOf(seed', Blocksize))
                            ELSE [A |-> 0, B |-> 0]
        /\ cands' = Lookup(r0')
    BY <1>3 DEF FeedSeed
  <2>2. /\ seed' \in Seq(Byte) /\ Len(seed') \in Nat /\ Len(seed') >= Blocksize
        /\ Blocksize \in Nat
    BY <2>1, PaddedSeed, MatcherAssumption, StoreAssumption
  <2>3. r0' \in Rsums
    BY <2>1, <2>2, WindowInSeed, CalcRsumType
  <2>4. r1' \in Rsums
    <3>1. CASE haveR1'
      <4>1. Blocksize + Blocksize <= Len(seed')
        <5>1. Len(seed') >= 2 * Blocksize
          BY <3>1, <2>1
        <5>. QED BY <5>1, <2>2
      <4>2. WindowOf(seed', Blocksize) \in [1 .. Blocksize -> Int]
        BY <4>1, <2>2, WindowInSeed
      <4>. QED BY <3>1, <4>2, <2>1, <2>2, CalcRsumType
    <3>2. CASE ~ haveR1'
      BY <3>2, <2>1, RadixAssumption DEF Rsums, Word, Modulus
    <3>. QED BY <3>1, <3>2
  <2>5. TypeOK'
    BY <1>1, <2>1, <2>2, <2>3, <2>4 DEF TypeOK, Lookup
  <2>6. SeedFits'
    BY <2>1, <2>2 DEF SeedFits
  <2>7. RollingIsExact'
    <3>1. r0' = CalcRsum(WindowAt(x)')
      BY <2>1 DEF WindowAt
    <3>2. haveR1' <=> (seq' = 2 /\ x' + 2 * Blocksize <= Len(seed'))
      <4>1. Len(seed') >= 2 * Blocksize <=> x' + 2 * Blocksize <= Len(seed')
        BY <2>1, <2>2
      <4>. QED BY <1>1, <2>1, <4>1
    <3>3. haveR1' => r1' = CalcRsum(WindowAt(x + Blocksize)')
      BY <2>1, <2>2 DEF WindowAt
    <3>. QED BY <3>1, <3>2, <3>3 DEF RollingIsExact
  <2>. QED BY <1>1, <2>5, <2>6, <2>7 DEF IInv
<1>. QED BY <1>2, <1>3

(***************************************************************************)
(* What a candidate that is accepted writes.                               *)
(***************************************************************************)
LEMMA MatchedBlocks ==
  ASSUME IInv, phase = "scan", NEW i \in BlockIdx
  PROVE  /\ Matched(i) \in SUBSET BlockIdx
         /\ [b \in Matched(i) |-> WindowAt(x + (b - i) * Blocksize)]
                \in [Matched(i) -> Window]
<1>1. /\ x \in Nat /\ Blocksize \in Nat /\ seed \in Seq(Byte)
      /\ x + Blocksize <= Len(seed) /\ i \in Int
      /\ cf \in ControlFiles
  BY StoreAssumption, BlockFacts DEF IInv, TypeOK, SeedFits, BlockIdx, StoreTypeOK
<1>2. ASSUME NEW b \in Matched(i)
      PROVE  b \in BlockIdx /\ WindowAt(x + (b - i) * Blocksize) \in Window
  <2>1. CASE b = i
    <3>1. x + (b - i) * Blocksize = x
      BY <1>1, <2>1
    <3>. QED BY <1>1, <2>1, <3>1, WindowInSeed DEF WindowAt
  <2>2. CASE b = i + 1 /\ AcceptsNext(i)
    <3>1. x + (b - i) * Blocksize = x + Blocksize
      BY <1>1, <2>2
    <3>2. x + Blocksize \in Nat /\ (x + Blocksize) + Blocksize <= Len(seed)
      BY <1>1, <2>2 DEF AcceptsNext
    <3>. QED BY <1>1, <2>2, <3>1, <3>2, WindowInSeed DEF WindowAt, AcceptsNext, Paired
  <2>. QED BY <2>1, <2>2 DEF Matched
<1>. QED BY <1>2

LEMMA TryCandidateStep ==
  ASSUME IInv, TryCandidate
  PROVE  IInv'
<1>1. PICK i \in cands :
        /\ cands' = cands \ {i}
        /\ IF Accepts(i)
           THEN acceptBlock([b \in Matched(i) |-> WindowAt(x + (b - i) * Blocksize)])
           ELSE UNCHANGED storeVars
  BY DEF TryCandidate
<1>2. i \in BlockIdx /\ phase = "scan" /\ StoreTypeOK /\ CountExact
  BY DEF IInv, TypeOK, TryCandidate
<1>3. StoreTypeOK' /\ CountExact' /\ cf' = cf
  <2>1. CASE Accepts(i)
    <3> DEFINE data == [b \in Matched(i) |-> WindowAt(x + (b - i) * Blocksize)]
    <3>1. acceptBlock(data)
      BY <1>1, <2>1
    <3>2. Matched(i) \in SUBSET BlockIdx /\ data \in [Matched(i) -> Window]
      BY <1>2, MatchedBlocks
    <3>. HIDE DEF data
    <3>. QED BY <1>2, <3>1, <3>2, AcceptKeepsCount
  <2>2. CASE ~ Accepts(i)
    BY <1>1, <1>2, <2>2, StoreUnchanged DEF storeVars
  <2>. QED BY <2>1, <2>2
<1>4. UNCHANGED <<phase, seed, x, r0, r1, haveR1, feeds>>
  BY DEF TryCandidate
<1>5. BlockIdx' = BlockIdx /\ seq' = seq
  BY <1>3 DEF BlockIdx, NumBlocks, Length, seq
<1>. QED
  BY <1>1, <1>3, <1>4, <1>5
     DEF IInv, TypeOK, SeedFits, RollingIsExact, WindowAt, WindowOf

(***************************************************************************)
(* The facts a step of the scan starts from.                               *)
(***************************************************************************)
LEMMA ScanFacts ==
  ASSUME IInv, phase = "scan"
  PROVE  /\ x \in Nat /\ Blocksize \in Nat \ {0}
         /\ seed \in Seq(Byte) /\ Len(seed) \in Nat
         /\ \A k \in 1 .. Len(seed) : seed[k] \in Int
         /\ r0 \in Rsums /\ r1 \in Rsums
         /\ r0 = CalcRsum(WindowOf(seed, x))
         /\ haveR1 => /\ seq = 2 /\ x + 2 * Blocksize <= Len(seed)
                      /\ r1 = CalcRsum(WindowOf(seed, x + Blocksize))
<1>1. /\ x \in Nat /\ Blocksize \in Nat \ {0} /\ seed \in Seq(Byte)
      /\ r0 \in Rsums /\ r1 \in Rsums
  BY StoreAssumption DEF IInv, TypeOK
<1>2. Len(seed) \in Nat /\ \A k \in 1 .. Len(seed) : seed[k] \in Int
  <2>1. seed \in [1 .. Len(seed) -> Byte] /\ Len(seed) \in Nat /\ Byte \subseteq Int
    BY <1>1, StoreAssumption
  <2>. QED BY <2>1
<1>3. /\ r0 = CalcRsum(WindowOf(seed, x))
      /\ haveR1 => /\ seq = 2 /\ x + 2 * Blocksize <= Len(seed)
                   /\ r1 = CalcRsum(WindowOf(seed, x + Blocksize))
  BY DEF IInv, RollingIsExact, WindowAt
<1>. QED BY <1>1, <1>2, <1>3

LEMMA SlideStep ==
  ASSUME IInv, Slide
  PROVE  IInv'
<1>1. /\ phase = "scan" /\ UNCHANGED <<phase, seed, feeds, storeVars>>
      /\ x + Blocksize < Len(seed) /\ x' = x + 1 /\ cands' = Lookup(r0')
      /\ r0' = Roll(r0, seed[x + 1], seed[x + Blocksize + 1], Blocksize)
      /\ SlideNext
  BY DEF Slide
<1>2. /\ StoreTypeOK' /\ CountExact' /\ cf' = cf
      /\ BlockIdx' = BlockIdx /\ seq' = seq
  BY <1>1, StoreUnchanged
     DEF IInv, TypeOK, storeVars, BlockIdx, NumBlocks, Length, seq
<1>3. /\ x + 1 \in Nat /\ x + Blocksize + 1 <= Len(seed)
      /\ (x + 1) + Blocksize <= Len(seed)
      /\ seed[x + 1] \in Int /\ seed[x + Blocksize + 1] \in Int
  <2>1. x + 1 \in 1 .. Len(seed) /\ x + Blocksize + 1 \in 1 .. Len(seed)
    BY <1>1, ScanFacts
  <2>. QED BY <1>1, <2>1, ScanFacts
<1>4. r0' \in Rsums /\ r0' = CalcRsum(WindowOf(seed', x'))
  <2>1. r0' \in Rsums
    BY <1>1, <1>3, ScanFacts, RollType
  <2>2. r0' = CalcRsum(WindowOf(seed, x + 1))
    BY <1>1, <1>3, ScanFacts, RollWindow
  <2>. QED BY <1>1, <2>1, <2>2
<1>5. CASE seq = 2
  <2>1. PICK e \in Nat : e = x + Blocksize
    BY <1>1, ScanFacts
  <2>2. /\ haveR1' = (e + Blocksize < Len(seed))
        /\ r1' = IF haveR1'
                 THEN Roll(r1, seed[e + 1], seed[e + Blocksize + 1], Blocksize)
                 ELSE r1
    BY <1>1, <1>5, <2>1 DEF SlideNext
  <2>3. haveR1' <=> x' + 2 * Blocksize <= Len(seed')
    <3>1. \A a \in Nat, b \in Nat, n \in Nat :
            (a + b) + b < n <=> (a + 1) + 2 * b <= n
      OBVIOUS
    <3>2. (x + Blocksize) + Blocksize < Len(seed)
             <=> (x + 1) + 2 * Blocksize <= Len(seed)
      BY <1>1, <3>1, ScanFacts
    <3>. QED BY <1>1, <2>1, <2>2, <3>2
  <2>4. ASSUME haveR1'
        PROVE  r1' \in Rsums /\ r1' = CalcRsum(WindowOf(seed', x' + Blocksize))
    <3>1. /\ x + 2 * Blocksize <= Len(seed)
          /\ e + Blocksize + 1 <= Len(seed) /\ e + 1 = x' + Blocksize
      <4>1. \A a \in Nat, b \in Nat, n \in Nat : (a + b) + b < n =>
               /\ a + 2 * b <= n /\ (a + b) + b + 1 <= n
               /\ (a + b) + 1 = (a + 1) + b
        OBVIOUS
      <4>2. (x + Blocksize) + Blocksize < Len(seed)
        BY <2>1, <2>2, <2>4
      <4>3. x \in Nat /\ Blocksize \in Nat /\ Len(seed) \in Nat
        BY <1>1, ScanFacts
      <4>. QED BY <1>1, <2>1, <4>1, <4>2, <4>3
    <3>2. haveR1
      BY <1>1, <1>5, <3>1 DEF IInv, RollingIsExact
    <3>3. seed[e + 1] \in Int /\ seed[e + Blocksize + 1] \in Int
      <4>1. e + 1 \in 1 .. Len(seed) /\ e + Blocksize + 1 \in 1 .. Len(seed)
        BY <1>1, <3>1, ScanFacts
      <4>. QED BY <1>1, <4>1, ScanFacts
    <3>4. r1 = CalcRsum(WindowOf(seed, e)) /\ r1 \in Rsums
      BY <1>1, <2>1, <3>2, ScanFacts
    <3>5. r1' = Roll(r1, seed[e + 1], seed[e + Blocksize + 1], Blocksize)
      BY <2>2, <2>4
    <3>6. r1' = CalcRsum(WindowOf(seed, e + 1))
      BY <1>1, <2>1, <3>1, <3>4, <3>5, ScanFacts, RollWindow
    <3>. QED BY <1>1, <3>1, <3>3, <3>4, <3>5, <3>6, RollType
  <2>5. r1' \in Rsums /\ haveR1' \in BOOLEAN
    BY <1>1, <2>2, <2>4, ScanFacts
  <2>. QED
    BY <1>1, <1>2, <1>3, <1>4, <1>5, <2>3, <2>4, <2>5
       DEF IInv, TypeOK, SeedFits, RollingIsExact, WindowAt, Lookup
<1>6. CASE seq # 2
  <2>1. r1' = r1 /\ haveR1' = haveR1 /\ ~ haveR1
    BY <1>1, <1>6, ScanFacts DEF SlideNext
  <2>. QED
    BY <1>1, <1>2, <1>3, <1>4, <1>6, <2>1
       DEF IInv, TypeOK, SeedFits, RollingIsExact, WindowAt, Lookup
<1>. QED BY <1>5, <1>6

LEMMA EndOfSeedStep ==
  ASSUME IInv, EndOfSeed
  PROVE  IInv'
<1>1. /\ phase' = "idle"
      /\ UNCHANGED <<seed, x, r0, r1, haveR1, cands, feeds, storeVars>>
  BY DEF EndOfSeed
<1>2. StoreTypeOK' /\ CountExact' /\ BlockIdx' = BlockIdx
  BY <1>1, StoreUnchanged
     DEF IInv, TypeOK, storeVars, BlockIdx, NumBlocks, Length
<1>. QED BY <1>1, <1>2 DEF IInv, TypeOK, SeedFits, RollingIsExact

LEMMA DownloadStep ==
  ASSUME IInv, Download
  PROVE  IInv'
<1>1. PICK i \in -1 .. NumBlocks, data \in Payloads : AcceptDownloadedBlock(i, data)
  BY DEF Download
<1>2. StoreTypeOK /\ CountExact /\ phase = "idle" /\ UNCHANGED scanVars
  BY DEF IInv, TypeOK, Download
<1>3. StoreTypeOK' /\ CountExact' /\ cf' = cf
  <2>1. CASE Verdict(i, data) = ""
    <3>1. i \in BlockIdx /\ data \in Window
      <4>1. i \in BlockIdx /\ Len(data) = Blocksize
        BY <2>1 DEF Verdict
      <4>. QED BY <4>1, MatcherAssumption DEF Window
    <3> DEFINE one == [b \in {i} |-> data]
    <3>2. acceptBlock(one)
      BY <1>1, <2>1 DEF AcceptDownloadedBlock
    <3>3. {i} \in SUBSET BlockIdx /\ one \in [{i} -> Window]
      BY <3>1
    <3>. HIDE DEF one
    <3>. QED BY <1>2, <3>2, <3>3, AcceptKeepsCount
  <2>2. CASE Verdict(i, data) # ""
    BY <1>1, <1>2, <2>2, StoreUnchanged DEF AcceptDownloadedBlock, storeVars
  <2>. QED BY <2>1, <2>2
<1>4. BlockIdx' = BlockIdx /\ seq' = seq
  BY <1>3 DEF BlockIdx, NumBlocks, Length, seq
<1>. QED
  BY <1>2, <1>3, <1>4 DEF IInv, TypeOK, SeedFits, RollingIsExact, scanVars

LEMMA StutterStep ==
  ASSUME IInv, UNCHANGED vars
  PROVE  IInv'
<1>1. UNCHANGED storeVars /\ UNCHANGED scanVars
  BY DEF vars
<1>2. /\ StoreTypeOK' /\ CountExact' /\ cf' = cf
      /\ BlockIdx' = BlockIdx /\ seq' = seq
  BY <1>1, StoreUnchanged
     DEF IInv, TypeOK, storeVars, BlockIdx, NumBlocks, Length, seq
<1>. QED
  BY <1>1, <1>2
     DEF scanVars, IInv, TypeOK, SeedFits, RollingIsExact, WindowAt, WindowOf

-----------------------------------------------------------------------------
(***************************************************************************)
(* The invariant of every matcher: it is inductive.                        *)
(***************************************************************************)
THEOREM Invariance == Spec => []IInv
<1>1. Init => IInv
  BY InitIInv
<1>2. IInv /\ [Next]_vars => IInv'
  <2>. SUFFICES ASSUME IInv, [Next]_vars PROVE IInv'
    OBVIOUS
  <2>1. CASE \E s \in Seeds : FeedSeed(s)
    BY <2>1, FeedSeedStep
  <2>2. CASE TryCandidate
    BY <2>2, TryCandidateStep
  <2>3. CASE Slide
    BY <2>3, SlideStep
  <2>4. CASE EndOfSeed
    BY <2>4, EndOfSeedStep
  <2>5. CASE Download
    BY <2>5, DownloadStep
  <2>6. CASE UNCHANGED vars
    BY <2>6, StutterStep
  <2>. QED BY <2>1, <2>2, <2>3, <2>4, <2>5, <2>6 DEF Next, Scan
<1>. QED BY <1>1, <1>2, PTL DEF Spec

(***************************************************************************)
(* Every variable of a matcher keeps its type; in particular the window    *)
(* never leaves the block table and the buffer never leaves the target.    *)
(***************************************************************************)
THEOREM TypeCorrect == Spec => []TypeOK
<1>1. IInv => TypeOK
  BY DEF IInv
<1>. QED BY <1>1, Invariance, PTL

(***************************************************************************)
(* The count of accepted blocks is exact: a block found twice, or fetched  *)
(* after it was found, counts once.                                        *)
(***************************************************************************)
THEOREM CountIsExact == Spec => []CountExact
<1>1. IInv => CountExact
  BY DEF IInv
<1>. QED BY <1>1, Invariance, PTL

(***************************************************************************)
(* Both incremental checksums are, at every offset of every seed, those of *)
(* the windows they stand for, and the look-ahead is on exactly while a    *)
(* whole next window is left.                                              *)
(***************************************************************************)
THEOREM RollingStaysExact == Spec => []RollingIsExact
<1>1. IInv => RollingIsExact
  BY DEF IInv
<1>. QED BY <1>1, Invariance, PTL

-----------------------------------------------------------------------------
(***************************************************************************)
(* What one step does to the buffer when no two blocks share a hash.       *)
(***************************************************************************)
LEMMA CandidatePuts ==
  ASSUME StrongInjective, IInv, TryCandidate
  PROVE  \E S \in SUBSET BlockIdx : PutsInPlace(S)
<1>1. PICK i \in cands :
        IF Accepts(i)
        THEN acceptBlock([b \in Matched(i) |-> WindowAt(x + (b - i) * Blocksize)])
        ELSE UNCHANGED storeVars
  BY DEF TryCandidate
<1>2. /\ i \in BlockIdx /\ phase = "scan" /\ StoreTypeOK /\ cf \in ControlFiles
      /\ i \in Int /\ x \in Int /\ Blocksize \in Int
  <2>1. i \in BlockIdx /\ phase = "scan" /\ StoreTypeOK /\ cf \in ControlFiles
    BY DEF IInv, TypeOK, StoreTypeOK, TryCandidate
  <2>. QED BY <2>1, ScanFacts, BlockFacts DEF BlockIdx
<1>3. CASE Accepts(i)
  <2> DEFINE data == [b \in Matched(i) |-> WindowAt(x + (b - i) * Blocksize)]
  <2>1. Matched(i) \in SUBSET BlockIdx /\ data \in [Matched(i) -> Window]
    BY <1>2, MatchedBlocks
  <2>2. ASSUME NEW b \in Matched(i) PROVE Strong(data[b]) = Checksum(b)
    <3>1. CASE b = i
      <4>1. x + (b - i) * Blocksize = x
        BY <1>2, <3>1
      <4>. QED BY <1>3, <3>1, <4>1 DEF Accepts
    <3>2. CASE b = i + 1 /\ AcceptsNext(i)
      <4>1. x + (b - i) * Blocksize = x + Blocksize
        BY <1>2, <3>2
      <4>. QED BY <3>2, <4>1 DEF AcceptsNext
    <3>. QED BY <3>1, <3>2 DEF Matched
  <2>3. acceptBlock(data)
    BY <1>1, <1>3
  <2>. HIDE DEF data
  <2>4. PutsInPlace(Matched(i))
    BY <1>2, <2>1, <2>2, <2>3, CheckedBlocksPut
  <2>. QED BY <2>1, <2>4
<1>4. CASE ~ Accepts(i)
  BY <1>1, <1>2, <1>4, NothingPut
<1>. QED BY <1>3, <1>4

LEMMA DownloadPuts ==
  ASSUME StrongInjective, IInv, Download
  PROVE  \E S \in SUBSET BlockIdx : PutsInPlace(S)
<1>1. PICK i \in -1 .. NumBlocks, data \in Payloads : AcceptDownloadedBlock(i, data)
  BY DEF Download
<1>2. StoreTypeOK /\ cf \in ControlFiles
  BY DEF IInv, TypeOK, StoreTypeOK
<1>3. CASE Verdict(i, data) = ""
  <2>1. i \in BlockIdx /\ data \in Window /\ Strong(data) = Checksum(i)
    <3>1. i \in BlockIdx /\ Len(data) = Blocksize /\ Strong(data) = Checksum(i)
      BY <1>3 DEF Verdict
    <3>. QED BY <3>1, MatcherAssumption DEF Window
  <2> DEFINE one == [b \in {i} |-> data]
  <2>2. acceptBlock(one)
    BY <1>1, <1>3 DEF AcceptDownloadedBlock
  <2>3. {i} \in SUBSET BlockIdx /\ one \in [{i} -> Window] /\ one[i] = data
    BY <2>1
  <2>. HIDE DEF one
  <2>4. PutsInPlace({i})
    BY <1>2, <2>1, <2>2, <2>3, CheckedBlocksPut
  <2>. QED BY <2>3, <2>4
<1>4. CASE Verdict(i, data) # ""
  BY <1>1, <1>2, <1>4, NothingPut DEF AcceptDownloadedBlock
<1>. QED BY <1>3, <1>4

LEMMA StepPuts ==
  ASSUME StrongInjective, IInv, [Next]_vars
  PROVE  \E S \in SUBSET BlockIdx : PutsInPlace(S)
<1>1. CASE UNCHANGED storeVars
  BY <1>1, NothingPut DEF IInv, TypeOK
<1>2. CASE TryCandidate
  BY <1>2, CandidatePuts
<1>3. CASE Download
  BY <1>3, DownloadPuts
<1>4. CASE (\E s \in Seeds : FeedSeed(s)) \/ Slide \/ EndOfSeed \/ UNCHANGED vars
  <2>1. UNCHANGED storeVars
    BY <1>4 DEF FeedSeed, Slide, EndOfSeed, vars, storeVars
  <2>. QED BY <2>1, <1>1
<1>. QED BY <1>2, <1>3, <1>4 DEF Next, Scan

(***************************************************************************)
(* A filled block holds the target's bytes, for ever: provided only that   *)
(* the stored hashes tell the blocks of the target from every other        *)
(* string of a block's size.                                               *)
(***************************************************************************)
THEOREM GotStaysTarget ==
  ASSUME StrongInjective
  PROVE  Spec => []GotIsTarget
<1>1. Init => GotIsTarget
  BY DEF Init, NewStore, GotIsTarget
<1>2. GotIsTarget /\ IInv /\ [Next]_vars => GotIsTarget'
  <2>. SUFFICES ASSUME GotIsTarget, IInv, [Next]_vars PROVE GotIsTarget'
    OBVIOUS
  <2>1. PICK S \in SUBSET BlockIdx : PutsInPlace(S)
    BY StepPuts
  <2>. QED BY <2>1, PutKeepsTarget
<1>. QED BY <1>1, <1>2, Invariance, PTL DEF Spec

(***************************************************************************)
(* Whatever the seeds hold and the downloads deliver, the matcher          *)
(* implements the reconstruction of the target.                            *)
(***************************************************************************)
THEOREM Refinement ==
  ASSUME StrongInjective
  PROVE  Spec => ImplementsReconstruction
<1>1. Init => R!Init
  <2>. SUFFICES ASSUME Init PROVE R!Init
    OBVIOUS
  <2>1. /\ cf \in ControlFiles /\ got = {} /\ out = [p \in Offsets |-> 0]
    BY DEF Init, NewStore
  <2>2. out = [p \in 0 .. Len(cf.target) - 1 |->
                 IF p \div Blocksize \in got THEN cf.target[p + 1] ELSE 0]
    BY <2>1 DEF Offsets, Length
  <2>. QED BY <2>1, <2>2 DEF R!Init
<1>2. GotIsTarget /\ IInv /\ [Next]_vars => [R!Next]_(R!vars)
  <2>. SUFFICES ASSUME GotIsTarget, IInv, [Next]_vars PROVE R!Next
    OBVIOUS
  <2>1. PICK S \in SUBSET BlockIdx : PutsInPlace(S)
    BY StepPuts
  <2>. QED BY <2>1, PutRefines
<1>. QED BY <1>1, <1>2, Invariance, GotStaysTarget, PTL DEF Spec, ImplementsReconstruction, R!Spec
-----------------------------------------------------------------------------
(***************************************************************************)
(* Nothing is lost.  An offset wants block i when its window is that block *)
(* and what follows it satisfies the second match; while an offset is at   *)
(* work, what it wants is filled or still a candidate.                     *)
(***************************************************************************)
Wants(y, i) ==
  /\ WindowAt(y) = Block(i)
  /\ \/ seq = 1
     \/ i + 1 \notin BlockIdx
     \/ y + 2 * Blocksize > Len(seed)
     \/ WindowAt(y + Blocksize) = Block(i + 1)

InHand == phase = "scan" => \A i \in BlockIdx : Wants(x, i) => i \in got \cup cands

FullWidth == \A f \in ControlFiles : f.RsumBytes # 1

LEMMA SameRsum ==
  ASSUME FullWidth, NEW i \in Int, NEW r, cf \in ControlFiles, r = CalcRsum(Block(i)),
         r \in Rsums
  PROVE  /\ RsumMatches(r, i)
         /\ hashRsum(cf.RsumBytes, BlockRsum(i)) = hashRsum(cf.RsumBytes, r)
<1> DEFINE n == cf.RsumBytes
<1>1. n \in 2 .. 4
  BY StoreAssumption DEF FullWidth
<1>2. r.A \in Nat /\ Radix \in Nat \ {0}
  BY RadixAssumption DEF Rsums, Word
<1>3. BlockRsum(i).A = MaskA(n, r.A) /\ BlockRsum(i).B = r.B
  BY <1>1 DEF BlockRsum, OnWire
<1>4. MaskA(n, MaskA(n, r.A)) = MaskA(n, r.A)
  <2>1. (r.A % Radix) % Radix = r.A % Radix
    BY <1>2
  <2>. HIDE DEF n
  <2>2. CASE n = 2
    BY <2>2 DEF MaskA
  <2>3. CASE n = 3
    BY <2>1, <2>3 DEF MaskA
  <2>4. CASE n = 4
    BY <2>4 DEF MaskA
  <2>. QED BY <1>1, <2>2, <2>3, <2>4
<1>. QED BY <1>3, <1>4 DEF RsumMatches, hashRsum

LEMMA LookupFinds ==
  ASSUME FullWidth, NEW i \in BlockIdx, cf \in ControlFiles,
         CalcRsum(Block(i)) \in Rsums
  PROVE  i \in Lookup(CalcRsum(Block(i)))
<1>1. i \in Int
  BY BlockFacts DEF BlockIdx
<1>. QED BY <1>1, SameRsum DEF Lookup

\* A candidate that is tried is taken if its offset wants it.
LEMMA TriedIsTaken ==
  ASSUME FullWidth, IInv, phase = "scan", NEW i \in BlockIdx, Wants(x, i), i \notin got
  PROVE  Accepts(i)
<1>1. /\ x \in Nat /\ Blocksize \in Nat /\ i \in Int /\ cf \in ControlFiles
      /\ r0 \in Rsums /\ r1 \in Rsums /\ r0 = CalcRsum(WindowAt(x))
      /\ Len(seed) \in Nat
  BY ScanFacts, BlockFacts DEF IInv, TypeOK, StoreTypeOK, BlockIdx, WindowAt
<1>2. RsumMatches(r0, i)
  BY <1>1, SameRsum DEF Wants
<1>3. ASSUME Paired(i) PROVE RsumMatches(r1, i + 1)
  <2>1. seq = 2 /\ i + 1 \in BlockIdx /\ haveR1
    BY <1>3 DEF Paired
  <2>2. x + 2 * Blocksize <= Len(seed) /\ r1 = CalcRsum(WindowAt(x + Blocksize))
    BY <2>1, ScanFacts DEF WindowAt
  <2>3. WindowAt(x + Blocksize) = Block(i + 1)
    BY <1>1, <2>1, <2>2 DEF Wants
  <2>. QED BY <1>1, <2>2, <2>3, SameRsum
<1>. QED BY <1>2, <1>3 DEF Accepts, Wants, Checksum

\* The offset the scan comes to: all it wants is looked up.
LEMMA FreshOffset ==
  FullWidth /\ IInv /\ phase = "scan" /\ cands = Lookup(r0) => InHand
<1>. SUFFICES ASSUME FullWidth, IInv, phase = "scan", cands = Lookup(r0),
                     NEW i \in BlockIdx, Wants(x, i)
              PROVE  i \in cands
  BY DEF InHand
<1>1. r0 = CalcRsum(Block(i)) /\ r0 \in Rsums /\ cf \in ControlFiles
  BY ScanFacts DEF IInv, TypeOK, StoreTypeOK, Wants, WindowAt
<1>. QED BY <1>1, LookupFinds

\* What is gone through and what is at work account for all that is tried.
LEMMA TakenSoFar ==
  ASSUME InHand', got \subseteq got', cf' = cf, WindowsTaken,
         \A y \in Tried' : \/ y \in Tried /\ seed' = seed
                           \/ y = x' /\ phase' = "scan" /\ cands' = {}
  PROVE  WindowsTaken'
<1>1. BlockIdx' = BlockIdx
  BY DEF BlockIdx, NumBlocks, Length
<1>. SUFFICES ASSUME NEW y \in Tried', NEW i \in BlockIdx', Wants(y, i)'
              PROVE  i \in got'
  BY DEF WindowsTaken, Wants
<1>2. CASE y \in Tried /\ seed' = seed
  <2>1. Wants(y, i)
    BY <1>1, <1>2
       DEF Wants, WindowAt, WindowOf, Block, Length, seq, BlockIdx, NumBlocks
  <2>2. i \in got
    BY <1>1, <1>2, <2>1 DEF WindowsTaken, Wants
  <2>. QED BY <2>2
<1>3. CASE y = x' /\ phase' = "scan" /\ cands' = {}
  <2>1. Wants(x, i)'
    BY <1>3
  <2>2. i \in (got \cup cands)'
    BY <1>3, <2>1 DEF InHand
  <2>. QED BY <1>3, <2>2
<1>. QED BY <1>2, <1>3

LEMMA CandidateTakes ==
  ASSUME FullWidth, IInv, InHand, WindowsTaken, TryCandidate
  PROVE  InHand' /\ WindowsTaken'
<1>1. PICK i \in cands :
        /\ cands' = cands \ {i}
        /\ IF Accepts(i)
           THEN acceptBlock([b \in Matched(i) |-> WindowAt(x + (b - i) * Blocksize)])
           ELSE UNCHANGED storeVars
  BY DEF TryCandidate
<1>2. /\ phase = "scan" /\ phase' = phase /\ seed' = seed /\ x' = x /\ i \in BlockIdx
  BY DEF IInv, TypeOK, TryCandidate
<1>3. cf' = cf /\ got \subseteq got' /\ (Accepts(i) => i \in got')
  BY <1>1 DEF acceptBlock, storeVars, Matched
<1>4. BlockIdx' = BlockIdx
  BY <1>3 DEF BlockIdx, NumBlocks, Length
<1>5. InHand'
  <2>. SUFFICES ASSUME NEW j \in BlockIdx', Wants(x, j)' PROVE j \in got' \cup cands'
    BY DEF InHand
  <2>1. Wants(x, j)
    BY <1>2, <1>3 DEF Wants, WindowAt, WindowOf, Block, Length, seq, BlockIdx, NumBlocks
  <2>2. j \in got \cup cands
    BY <1>2, <1>4, <2>1 DEF InHand
  <2>3. CASE j = i /\ i \notin got
    BY <1>2, <1>3, <2>1, <2>3, TriedIsTaken
  <2>. QED BY <1>1, <1>3, <2>2, <2>3
<1>6. \A y \in Tried' : \/ y \in Tried /\ seed' = seed
                        \/ y = x' /\ phase' = "scan" /\ cands' = {}
  <2>1. x \in Nat
    BY DEF IInv, TypeOK
  <2>. QED BY <1>2, <2>1 DEF Tried
<1>. QED BY <1>3, <1>5, <1>6, TakenSoFar

LEMMA SlideTakes ==
  ASSUME FullWidth, IInv, InHand, WindowsTaken, Slide
  PROVE  InHand' /\ WindowsTaken'
<1>1. /\ phase = "scan" /\ phase' = "scan" /\ seed' = seed /\ x' = x + 1 /\ cands = {}
      /\ cf' = cf /\ got' = got /\ cands' = Lookup(r0') /\ x \in Nat
  BY DEF Slide, storeVars, IInv, TypeOK
<1>2. IInv'
  BY SlideStep
<1>3. cands' = Lookup(r0)'
  BY <1>1 DEF Lookup, BlockIdx, NumBlocks, Length, BlockRsum, Block
<1>4. (FullWidth /\ IInv /\ phase = "scan" /\ cands = Lookup(r0) => InHand)'
  BY FreshOffset, PTL
<1>5. InHand'
  BY <1>1, <1>2, <1>3, <1>4 DEF FullWidth
<1>6. \A y \in Tried' : \/ y \in Tried /\ seed' = seed
                        \/ y = x' /\ phase' = "scan" /\ cands' = {}
  BY <1>1 DEF Tried
<1>. QED BY <1>1, <1>5, <1>6, TakenSoFar

LEMMA FeedSeedTakes ==
  ASSUME FullWidth, IInv, InHand, WindowsTaken, NEW s \in Seeds, FeedSeed(s)
  PROVE  InHand' /\ WindowsTaken'
<1>1. phase = "idle" /\ cf' = cf /\ got' = got /\ IInv'
  BY FeedSeedStep DEF FeedSeed, storeVars
<1>2. BlockIdx' = BlockIdx
  BY <1>1 DEF BlockIdx, NumBlocks, Length
<1>3. CASE NumBlocks = 0
  <2>1. BlockIdx = {}
    BY <1>3 DEF BlockIdx
  <2>. QED BY <1>2, <2>1 DEF InHand, WindowsTaken
<1>4. CASE NumBlocks # 0
  <2>1. phase' = "scan" /\ x' = 0 /\ cands' = Lookup(r0')
    BY <1>4 DEF FeedSeed
  <2>2. cands' = Lookup(r0)'
    BY <1>1, <2>1 DEF Lookup, BlockIdx, NumBlocks, Length, BlockRsum, Block
  <2>3. (FullWidth /\ IInv /\ phase = "scan" /\ cands = Lookup(r0) => InHand)'
    BY FreshOffset, PTL
  <2>4. InHand'
    BY <1>1, <2>1, <2>2, <2>3 DEF FullWidth
  <2>5. \A y \in Tried' : y = x' /\ phase' = "scan" /\ cands' = {}
    BY <2>1 DEF Tried
  <2>. QED BY <1>1, <2>4, <2>5, TakenSoFar
<1>. QED BY <1>3, <1>4

LEMMA RestTakes ==
  ASSUME IInv, InHand, WindowsTaken, EndOfSeed \/ Download \/ UNCHANGED vars
  PROVE  InHand' /\ WindowsTaken'
<1>1. /\ seed' = seed /\ x' = x /\ cands' = cands /\ cf' = cf /\ got \subseteq got'
      /\ \/ phase' = "idle" /\ (phase = "idle" \/ cands = {})
         \/ phase' = phase
  BY DEF EndOfSeed, Download, AcceptDownloadedBlock, acceptBlock, vars, storeVars, scanVars
<1>2. BlockIdx' = BlockIdx
  BY <1>1 DEF BlockIdx, NumBlocks, Length
<1>3. InHand'
  <2>. SUFFICES ASSUME phase' = "scan", NEW j \in BlockIdx', Wants(x, j)'
                PROVE j \in got' \cup cands'
    BY DEF InHand
  <2>1. Wants(x, j)
    BY <1>1 DEF Wants, WindowAt, WindowOf, Block, Length, seq, BlockIdx, NumBlocks
  <2>. QED BY <1>1, <1>2, <2>1 DEF InHand
<1>4. \A y \in Tried' : y \in Tried /\ seed' = seed
  <2>1. x \in Nat
    BY DEF IInv, TypeOK
  <2>. QED BY <1>1, <2>1 DEF Tried
<1>. QED BY <1>1, <1>3, <1>4, TakenSoFar

(***************************************************************************)
(* No window is lost, with any seeds and downloads, when the control file  *)
(* has more than one byte of the weak checksum: the table, its mask, the   *)
(* rolling sums and the order of the candidates never hide a block that is *)
(* to be taken.                                                            *)
(***************************************************************************)
THEOREM NoWindowLost ==
  ASSUME FullWidth
  PROVE  Spec => []WindowsTaken
<1>1. Init => InHand /\ WindowsTaken
  BY DEF Init, InHand, WindowsTaken, Tried
<1>2. IInv /\ InHand /\ WindowsTaken /\ [Next]_vars => (InHand /\ WindowsTaken)'
  <2>. SUFFICES ASSUME IInv, InHand, WindowsTaken, [Next]_vars
                PROVE  InHand' /\ WindowsTaken'
    OBVIOUS
  <2>1. CASE \E s \in Seeds : FeedSeed(s)
    BY <2>1, FeedSeedTakes
  <2>2. CASE TryCandidate
    BY <2>2, CandidateTakes
  <2>3. CASE Slide
    BY <2>3, SlideTakes
  <2>4. CASE EndOfSeed \/ Download \/ UNCHANGED vars
    BY <2>4, RestTakes
  <2>. QED BY <2>1, <2>2, <2>3, <2>4 DEF Next, Scan
<1>. QED BY <1>1, <1>2, Invariance, PTL DEF Spec

(***************************************************************************)
(* A scan ends with the last window of its seed.                           *)
(***************************************************************************)
SeedDone == phase = "idle" /\ seed # << >> => x + Blocksize >= Len(seed)

LEMMA ScansToTheEnd == Spec => []SeedDone
<1>1. Init => SeedDone
  BY DEF Init, SeedDone
<1>2. SeedDone /\ [Next]_vars => SeedDone'
  <2>. SUFFICES ASSUME SeedDone, [Next]_vars PROVE SeedDone'
    OBVIOUS
  <2>1. CASE \E s \in Seeds : FeedSeed(s)
    BY <2>1 DEF FeedSeed, SeedDone
  <2>2. CASE TryCandidate \/ Slide
    BY <2>2 DEF TryCandidate, Slide, SeedDone
  <2>3. CASE EndOfSeed
    BY <2>3 DEF EndOfSeed, SeedDone
  <2>4. CASE Download \/ UNCHANGED vars
    BY <2>4 DEF Download, vars, scanVars, SeedDone
  <2>. QED BY <2>1, <2>2, <2>3, <2>4 DEF Next, Scan
<1>. QED BY <1>1, <1>2, PTL DEF Spec

\* Where the blocks of a target that lies at offset o of a seed of n bytes are.
LEMMA BlockPlaces ==
  ASSUME NEW o \in Nat, NEW n \in Nat, cf \in ControlFiles, o + NumBlocks * Blocksize <= n,
         NEW i \in BlockIdx
  PROVE  /\ o + i * Blocksize \in Nat
         /\ o + i * Blocksize + Blocksize = o + (i + 1) * Blocksize
         /\ o + i * Blocksize + Blocksize <= n
<1> DEFINE b == Blocksize
           m == NumBlocks
<1>1. b \in Nat \ {0} /\ m \in Nat /\ i \in Nat /\ i + 1 <= m
  BY BlockFacts, StoreAssumption DEF BlockIdx
<1>2. \A p \in Nat, q \in Nat, c \in Nat : p <= q => p * c <= q * c /\ p * c \in Nat /\ q * c \in Nat
  OBVIOUS
<1>3. (i + 1) * b = i * b + b /\ i * b \in Nat
  BY <1>1
<1>4. (i + 1) * b <= m * b /\ m * b \in Nat
  BY <1>1, <1>2
<1>5. o + m * b <= n
  OBVIOUS
<1>. HIDE DEF b, m
<1>6. o + i * b \in Nat /\ o + i * b + b = o + (i + 1) * b /\ o + i * b + b <= n
  BY <1>1, <1>3, <1>4, <1>5
<1>. QED BY <1>6 DEF b

(***************************************************************************)
(* A seed that has the whole target in it, wherever that lies, leaves      *)
(* nothing to download: each window of it is followed by the next one, so  *)
(* the two-match filter lets every block through.                          *)
(***************************************************************************)
THEOREM WholeTargetIsFound ==
  ASSUME FullWidth
  PROVE  Spec => []WholeTargetFound
<1>1. IInv /\ WindowsTaken /\ SeedDone => WholeTargetFound
  <2>. SUFFICES ASSUME IInv, WindowsTaken, SeedDone, phase = "idle", seed # << >>,
                       NEW o \in 0 .. Len(seed) - NumBlocks * Blocksize,
                       \A i \in BlockIdx : WindowAt(o + i * Blocksize) = Block(i)
                PROVE  got = BlockIdx
    BY DEF WholeTargetFound
  <2>1. /\ cf \in ControlFiles /\ got \subseteq BlockIdx /\ x \in Nat
        /\ Len(seed) \in Nat /\ x + Blocksize >= Len(seed)
        /\ Blocksize \in Nat \ {0} /\ NumBlocks \in Nat
    BY BlockFacts, StoreAssumption, LenProperties DEF IInv, TypeOK, StoreTypeOK, SeedDone
  <2>2. o \in Nat /\ o + NumBlocks * Blocksize <= Len(seed)
    <3>1. \A a \in Nat, c \in Nat : a * c \in Nat
      OBVIOUS
    <3>2. PICK m \in Nat : m = NumBlocks * Blocksize
      BY <2>1, <3>1
    <3>3. o \in 0 .. Len(seed) - m
      BY <3>2
    <3>. QED BY <2>1, <3>2, <3>3
  <2>3. Tried = 0 .. x
    BY DEF Tried
  <2>4. ASSUME NEW i \in BlockIdx PROVE i \in got
    <3>1. PICK y \in Nat : y = o + i * Blocksize
      BY <2>1, <2>2, BlockPlaces
    <3>2. y + Blocksize = o + (i + 1) * Blocksize /\ y + Blocksize <= Len(seed)
      BY <2>1, <2>2, <3>1, BlockPlaces
    <3>3. y \in Tried
      BY <2>1, <2>3, <3>2
    <3>4. WindowAt(y) = Block(i)
      BY <3>1
    <3>5. i + 1 \in BlockIdx => WindowAt(y + Blocksize) = Block(i + 1)
      BY <3>2
    <3>. QED BY <3>3, <3>4, <3>5 DEF WindowsTaken
  <2>. QED BY <2>1, <2>4
<1>. QED BY <1>1, Invariance, NoWindowLost, ScansToTheEnd, PTL

LEMMA PaddedTarget ==
  ASSUME cf \in ControlFiles
  PROVE  /\ Padded(cf.target) # << >>
         /\ NumBlocks * Blocksize <= Len(Padded(cf.target)) /\ NumBlocks * Blocksize \in Nat
         /\ \A i \in BlockIdx : WindowOf(Padded(cf.target), 0 + i * Blocksize) = Block(i)
<1> DEFINE b == Blocksize
           m == NumBlocks
           t == cf.target
           n == IF Length > b THEN m * b ELSE b
<1>1. /\ b \in Nat \ {0} /\ m \in Nat /\ Length \in Nat /\ Len(t) = Length
      /\ m = (Length + b - 1) \div b
  BY BlockFacts, StoreAssumption DEF Length, NumBlocks
<1>2. Padded(t) = [k \in 1 .. n |-> IF k <= Length THEN t[k] ELSE 0]
  BY DEF Padded, Length, NumBlocks
<1>3. m * b \in Nat
  <2>1. \A p \in Nat, q \in Nat : p * q \in Nat
    OBVIOUS
  <2>. HIDE DEF b, m
  <2>. QED BY <1>1, <2>1
<1>4. Length <= b => m <= 1
  BY <1>1
<1>5. n \in Nat /\ m * b <= n /\ n >= 1
  <2>1. CASE Length <= b
    <3>1. m = 0 \/ m = 1
      BY <1>1, <1>4, <2>1
    <3>2. m * b <= b
      BY <1>1, <3>1
    <3>. QED BY <1>1, <2>1, <3>2
  <2>2. CASE Length > b
    <3>1. m >= 1
      BY <1>1, <2>2
    <3>2. \A p \in Nat \ {0}, q \in Nat \ {0} : p * q >= 1
      OBVIOUS
    <3>3. m * b >= 1
      BY <1>1, <3>1, <3>2
    <3>. QED BY <1>1, <1>3, <2>2, <3>3
  <2>. QED BY <1>1, <2>1, <2>2
<1>. HIDE DEF n
<1>6. Len(Padded(t)) = n /\ Padded(t) # << >>
  <2>1. Padded(t) \in Seq(Byte)
    BY <1>1, BlockFacts, PaddedSeed
  <2>2. DOMAIN Padded(t) = 1 .. n
    BY <1>2
  <2>. QED BY <1>5, <2>1, <2>2, LenProperties
<1>7. ASSUME NEW i \in BlockIdx
      PROVE  WindowOf(Padded(t), 0 + i * b) = Block(i)
  <2>1. PICK y \in Nat : y = i * b /\ y = 0 + i * b /\ y + b <= m * b
    <3>1. 0 + m * b <= m * b /\ m * b \in Nat
      BY <1>3
    <3>2. /\ 0 + i * b \in Nat /\ 0 + i * b + b <= m * b
      BY <3>1, BlockPlaces
    <3>3. i * b \in Int
      BY <1>1 DEF BlockIdx
    <3>. QED BY <3>2, <3>3
  <2>2. ASSUME NEW k \in 1 .. b
        PROVE  Padded(t)[y + k] = IF y + k <= Length THEN t[y + k] ELSE 0
    <3>1. y + k \in 1 .. n
      BY <1>1, <1>3, <1>5, <2>1
    <3>. QED BY <1>2, <3>1
  <2>. QED BY <2>1, <2>2 DEF WindowOf, Block
<1>. QED BY <1>3, <1>5, <1>6, <1>7

(***************************************************************************)
(* In particular a seed that is the target leaves nothing to download once *)
(* it is scanned, the short last block and repeated blocks included: what  *)
(* OwnBytesSuffice says apart from the scan coming to its end.             *)
(***************************************************************************)
THEOREM OwnBytesLeaveNothing ==
  ASSUME FullWidth
  PROVE  Spec => [](phase = "idle" /\ seed = Padded(cf.target) => got = BlockIdx)
<1>1. IInv /\ WholeTargetFound => (phase = "idle" /\ seed = Padded(cf.target) => got = BlockIdx)
  <2>. SUFFICES ASSUME IInv, WholeTargetFound, phase = "idle", seed = Padded(cf.target)
                PROVE  got = BlockIdx
    OBVIOUS
  <2>1. cf \in ControlFiles /\ Len(seed) \in Nat
    BY LenProperties DEF IInv, TypeOK, StoreTypeOK
  <2>2. /\ seed # << >> /\ NumBlocks * Blocksize <= Len(seed) /\ NumBlocks * Blocksize \in Nat
        /\ \A i \in BlockIdx : WindowAt(0 + i * Blocksize) = Block(i)
    BY <2>1, PaddedTarget DEF WindowAt
  <2>3. 0 \in 0 .. Len(seed) - NumBlocks * Blocksize
    BY <2>1, <2>2
  <2>. QED BY <2>2, <2>3 DEF WholeTargetFound
<1>. QED BY <1>1, Invariance, WholeTargetIsFound, PTL
-----------------------------------------------------------------------------
(***************************************************************************)
(* MissingRanges is what its recursion says, and lists the runs of missing *)
(* blocks.  From block i on the scan finds the next gap, and its end.      *)
(***************************************************************************)
GapStart(i) == FirstFrom(i, BlockIdx \ got)
GapEnd(i)   == FirstFrom(GapStart(i), got)

GapsFrom(f, i) ==
  IF GapStart(i) = NumBlocks THEN << >>
  ELSE << <<GapStart(i), GapEnd(i)>> >> \o f[GapEnd(i)]

LEMMA FirstIsFirst ==
  ASSUME cf \in ControlFiles, NEW i \in 0 .. NumBlocks, NEW S
  PROVE  /\ FirstFrom(i, S) \in i .. NumBlocks
         /\ FirstFrom(i, S) \in S \cup {NumBlocks}
         /\ \A k \in i .. FirstFrom(i, S) - 1 : k \notin S
<1> DEFINE n == NumBlocks
           J == { j \in i .. n : j \in S \cup {n} }
           First(j) == j \in S \cup {n} /\ \A k \in i .. j - 1 : k \notin S
<1>1. n \in Nat /\ i \in Nat /\ i <= n
  BY BlockFacts
<1>2. PICK j \in J : \A k \in J : j <= k
  <2>1. n \in J /\ J \in SUBSET Nat
    BY <1>1
  <2>. HIDE DEF J
  <2>. QED BY <2>1, LeastNatural
<1>3. j \in i .. n /\ j \in S \cup {n}
  OBVIOUS
<1>4. ASSUME NEW k \in i .. j - 1 PROVE k \notin S
  <2>1. SUFFICES ASSUME k \in S PROVE FALSE
    OBVIOUS
  <2>2. k \in J
    BY <1>1, <1>3, <2>1
  <2>3. j <= k
    BY <1>2, <2>2
  <2>. QED BY <1>1, <1>3, <2>3
<1>5. \E m \in i .. n : First(m)
  BY <1>3, <1>4
<1>6. FirstFrom(i, S) = CHOOSE m \in i .. n : First(m)
  BY DEF FirstFrom
<1>. HIDE DEF First, n
<1>7. FirstFrom(i, S) \in i .. n /\ First(FirstFrom(i, S))
  BY <1>5, <1>6
<1>. QED BY <1>7 DEF First, n

LEMMA GapFacts ==
  ASSUME cf \in ControlFiles, NEW i \in 0 .. NumBlocks, GapStart(i) # NumBlocks
  PROVE  /\ NumBlocks \in Nat
         /\ GapStart(i) \in i .. NumBlocks - 1 /\ GapEnd(i) \in GapStart(i) + 1 .. NumBlocks
         /\ \A k \in i .. GapStart(i) - 1 : k \notin BlockIdx \ got
         /\ \A k \in GapStart(i) .. GapEnd(i) - 1 : k \notin got
         /\ GapEnd(i) \notin BlockIdx \ got
<1>1. PICK n \in Nat : n = NumBlocks
  BY BlockFacts
<1>2. PICK s \in i .. n : /\ s = GapStart(i) /\ s \in BlockIdx \ got
                          /\ \A k \in i .. s - 1 : k \notin BlockIdx \ got
  BY <1>1, FirstIsFirst DEF GapStart
<1>3. s \in 0 .. n
  BY <1>1, <1>2
<1>4. PICK e \in s .. n : /\ e = GapEnd(i) /\ e \in got \cup {n}
                          /\ \A k \in s .. e - 1 : k \notin got
  BY <1>1, <1>2, <1>3, FirstIsFirst DEF GapEnd
<1>5. s # n /\ e # s
  BY <1>1, <1>2, <1>4
<1>6. n \notin BlockIdx
  BY <1>1 DEF BlockIdx
<1>7. s \in i .. n - 1 /\ e \in s + 1 .. n
  BY <1>1, <1>2, <1>4, <1>5
<1>8. e \notin BlockIdx \ got
  BY <1>4, <1>6
<1>. QED BY <1>1, <1>2, <1>4, <1>7, <1>8

(***************************************************************************)
(* The recursion has a solution, found from the last block downwards.      *)
(***************************************************************************)
LEMMA ScanExists ==
  ASSUME cf \in ControlFiles
  PROVE  \E f : f = [i \in 0 .. NumBlocks |-> GapsFrom(f, i)]
<1>1. PICK n \in Nat : n = NumBlocks
  BY BlockFacts
<1> DEFINE Solves(m, f) == /\ DOMAIN f = n - m .. n
                           /\ \A i \in n - m .. n : f[i] = GapsFrom(f, i)
           Solvable(m) == \E f : Solves(m, f)
           Good == { m \in Nat : m <= n => Solvable(m) }
<1>2. 0 \in Good
  <2> DEFINE f == [i \in n - 0 .. n |-> << >>]
  <2>1. \A i \in n - 0 .. n : i = n
    BY <1>1
  <2>2. GapStart(n) = n
    BY <1>1, FirstIsFirst DEF GapStart
  <2>3. Solves(0, f)
    BY <1>1, <2>1, <2>2 DEF GapsFrom
  <2>. QED BY <2>3
<1>3. ASSUME NEW m \in Good PROVE m + 1 \in Good
  <2>1. SUFFICES ASSUME m + 1 <= n PROVE Solvable(m + 1)
    OBVIOUS
  <2>2. PICK f : Solves(m, f)
    <3>1. Solvable(m)
      BY <1>1, <2>1
    <3>. QED BY <3>1
  <2> DEFINE a == n - (m + 1)
             g == [i \in a .. n |-> IF i = a THEN GapsFrom(f, a) ELSE f[i]]
  <2>3. /\ a \in 0 .. n /\ \A i \in a .. n : i \in 0 .. n /\ (i = a \/ i \in n - m .. n)
        /\ a + 1 = n - m
    BY <1>1, <2>1
  <2>4. ASSUME NEW i \in a .. n PROVE GapsFrom(g, i) = GapsFrom(f, i)
    <3>1. CASE GapStart(i) = NumBlocks
      BY <3>1 DEF GapsFrom
    <3>2. CASE GapStart(i) # NumBlocks
      <4>1. GapStart(i) \in i .. n - 1 /\ GapEnd(i) \in GapStart(i) + 1 .. n
        BY <1>1, <2>3, <3>2, GapFacts
      <4>2. GapEnd(i) \in a .. n /\ GapEnd(i) # a
        BY <1>1, <2>3, <4>1
      <4>3. g[GapEnd(i)] = f[GapEnd(i)]
        BY <4>2
      <4>. QED BY <4>3 DEF GapsFrom
    <3>. QED BY <3>1, <3>2
  <2>5. \A i \in a .. n : g[i] = GapsFrom(f, i)
    BY <2>2, <2>3
  <2>6. DOMAIN g = a .. n
    OBVIOUS
  <2>. HIDE DEF g
  <2>7. Solves(m + 1, g)
    BY <2>4, <2>5, <2>6
  <2>. QED BY <2>7
<1>4. Good = Nat
  <2>1. Good \in SUBSET Nat
    OBVIOUS
  <2>. HIDE DEF Good
  <2>. QED BY <1>2, <1>3, <2>1, InductiveSet
<1>5. PICK f : Solves(n, f)
  <2>1. n \in Good
    BY <1>4
  <2>2. n <= n
    OBVIOUS
  <2>3. Solvable(n)
    <3>. HIDE DEF Solvable
    <3>. QED BY <2>1, <2>2
  <2>. QED BY <2>3
<1>6. n - n = 0
  BY <1>1
<1> DEFINE g == [i \in 0 .. n |-> f[i]]
<1>7. g = [i \in 0 .. n |-> GapsFrom(g, i)]
  <2>1. ASSUME NEW i \in 0 .. n PROVE GapsFrom(g, i) = GapsFrom(f, i)
    <3>1. CASE GapStart(i) = NumBlocks
      BY <3>1 DEF GapsFrom
    <3>2. CASE GapStart(i) # NumBlocks
      <4>1. GapEnd(i) \in 0 .. n
        BY <1>1, <3>2, GapFacts
      <4>2. g[GapEnd(i)] = f[GapEnd(i)]
        BY <4>1
      <4>. QED BY <4>2 DEF GapsFrom
    <3>. QED BY <3>1, <3>2
  <2>2. \A i \in 0 .. n : f[i] = GapsFrom(g, i)
    BY <1>5, <1>6, <2>1
  <2>. QED BY <2>2
<1>. QED BY <1>1, <1>7

LEMMA ScanDef ==
  ASSUME cf \in ControlFiles
  PROVE  \E f : /\ MissingRanges = f[0]
                /\ \A i \in 0 .. NumBlocks : f[i] = GapsFrom(f, i)
<1> DEFINE u == CHOOSE f : f = [i \in 0 .. NumBlocks |-> GapsFrom(f, i)]
<1>1. u = [i \in 0 .. NumBlocks |-> GapsFrom(u, i)]
  <2>1. \E f : f = [i \in 0 .. NumBlocks |-> GapsFrom(f, i)]
    BY ScanExists
  <2>. QED BY <2>1, Zenon
<1>2. MissingRanges = u[0]
  BY Zenon DEF MissingRanges, GapsFrom, GapStart, GapEnd
<1>. HIDE DEF u
<1>. QED BY <1>1, <1>2

(***************************************************************************)
(* What the scan from block i on has to list, and that it does: by         *)
(* induction on how far i is from the end.  It starts outside a gap, or on *)
(* the first block of one.                                                 *)
(***************************************************************************)
AtEdge(i) == i - 1 \notin BlockIdx \ got \/ i \notin BlockIdx \ got

Lists(i, rs) ==
  /\ rs \in Seq(Nat \X Nat)
  /\ \A k \in 1 .. Len(rs) : rs[k] \in MissingRuns /\ i <= rs[k][1]
  /\ \A k \in 1 .. Len(rs) - 1 : rs[k][2] < rs[k + 1][1]
  /\ \A j \in i .. NumBlocks - 1 :
       j \notin got => \E k \in 1 .. Len(rs) : rs[k][1] <= j /\ j < rs[k][2]

LEMMA NoGapLeft ==
  ASSUME cf \in ControlFiles, NEW i \in 0 .. NumBlocks, GapStart(i) = NumBlocks
  PROVE  Lists(i, << >>)
<1>1. PICK n \in Nat : n = NumBlocks
  BY BlockFacts
<1>2. \A j \in i .. n - 1 : j \notin BlockIdx \ got
  BY <1>1, FirstIsFirst DEF GapStart
<1>3. \A j \in i .. n - 1 : j \in got
  BY <1>1, <1>2 DEF BlockIdx
<1>4. << >> \in Seq(Nat \X Nat) /\ Len(<< >>) = 0
  OBVIOUS
<1>. QED BY <1>1, <1>3, <1>4 DEF Lists

LEMMA GapIsRun ==
  ASSUME cf \in ControlFiles, NEW i \in 0 .. NumBlocks, GapStart(i) # NumBlocks, AtEdge(i)
  PROVE  <<GapStart(i), GapEnd(i)>> \in MissingRuns
<1>1. PICK n \in Nat : n = NumBlocks
  BY BlockFacts
<1>2. PICK s \in i .. n - 1 : s = GapStart(i)
  BY <1>1, GapFacts
<1>3. PICK e \in s + 1 .. n : e = GapEnd(i)
  BY <1>1, <1>2, GapFacts
<1>4. /\ \A k \in i .. s - 1 : k \notin BlockIdx \ got
      /\ \A k \in s .. e - 1 : k \notin got
      /\ e \notin BlockIdx \ got
  BY <1>2, <1>3, GapFacts
<1>5. s - 1 \notin BlockIdx \ got
  <2>1. CASE s = i
    <3>1. s \in BlockIdx \ got
      BY <1>1, <1>2, <1>3, <1>4 DEF BlockIdx
    <3>. QED BY <2>1, <3>1 DEF AtEdge
  <2>2. CASE s # i
    <3>1. s - 1 \in i .. s - 1
      BY <1>1, <1>2, <2>2
    <3>. QED BY <1>4, <3>1
  <2>. QED BY <2>1, <2>2
<1>6. <<s, e>> \in (0 .. n) \X (0 .. n) /\ s < e
  BY <1>1, <1>2, <1>3
<1>7. <<s, e>> \in MissingRuns
  BY <1>1, <1>4, <1>5, <1>6 DEF MissingRuns
<1>. QED BY <1>2, <1>3, <1>7

LEMMA GapListed ==
  ASSUME cf \in ControlFiles, NEW i \in 0 .. NumBlocks, GapStart(i) # NumBlocks, AtEdge(i),
         NEW q, Lists(GapEnd(i), q)
  PROVE  Lists(i, << <<GapStart(i), GapEnd(i)>> >> \o q)
<1>1. PICK n \in Nat : n = NumBlocks
  BY BlockFacts
<1>2. PICK s \in i .. n - 1 : s = GapStart(i)
  BY <1>1, GapFacts
<1>3. PICK e \in s + 1 .. n : e = GapEnd(i)
  BY <1>1, <1>2, GapFacts
<1>4. /\ \A k \in i .. s - 1 : k \notin BlockIdx \ got
      /\ e \notin BlockIdx \ got
  BY <1>2, <1>3, GapFacts
<1>5. <<s, e>> \in MissingRuns
  BY <1>2, <1>3, GapIsRun
<1>6. PICK l \in Nat : l = Len(q)
  BY DEF Lists
<1>7. /\ q \in Seq(Nat \X Nat)
      /\ \A k \in 1 .. l : q[k] \in MissingRuns /\ e <= q[k][1]
      /\ \A k \in 1 .. l - 1 : q[k][2] < q[k + 1][1]
      /\ \A j \in e .. n - 1 :
           j \notin got => \E k \in 1 .. l : q[k][1] <= j /\ j < q[k][2]
  BY <1>1, <1>3, <1>6 DEF Lists
<1> DEFINE rs == << <<s, e>> >> \o q
<1>8. << <<s, e>> >> \in Seq(Nat \X Nat) /\ Len(<< <<s, e>> >>) = 1
  BY <1>1, <1>2, <1>3
<1>9. /\ rs \in Seq(Nat \X Nat) /\ Len(rs) = l + 1
      /\ rs[1] = <<s, e>> /\ \A k \in 1 .. l : rs[k + 1] = q[k]
  <2>1. /\ rs \in Seq(Nat \X Nat) /\ Len(rs) = 1 + l
        /\ \A k \in 1 .. 1 + l : rs[k] = IF k <= 1 THEN << <<s, e>> >>[k] ELSE q[k - 1]
    BY <1>6, <1>7, <1>8, ConcatProperties
  <2>. HIDE DEF rs
  <2>2. rs[1] = <<s, e>>
    BY <2>1
  <2>3. ASSUME NEW k \in 1 .. l PROVE rs[k + 1] = q[k]
    <3>1. k + 1 \in 1 .. 1 + l /\ ~ (k + 1 <= 1) /\ (k + 1) - 1 = k
      OBVIOUS
    <3>. QED BY <2>1, <3>1
  <2>4. Len(rs) = l + 1
    BY <1>6, <2>1
  <2>. QED BY <2>1, <2>2, <2>3, <2>4
<1>. HIDE DEF rs
<1>10. \A k \in 1 .. l + 1 : k = 1 \/ (k - 1 \in 1 .. l /\ rs[k] = q[k - 1])
  <2>. SUFFICES ASSUME NEW k \in 1 .. l + 1, k # 1 PROVE k - 1 \in 1 .. l /\ rs[k] = q[k - 1]
    OBVIOUS
  <2>1. k - 1 \in 1 .. l /\ (k - 1) + 1 = k
    OBVIOUS
  <2>. QED BY <1>9, <2>1
<1>11. ASSUME NEW k \in 1 .. l + 1 PROVE rs[k] \in MissingRuns /\ i <= rs[k][1]
  <2>1. CASE k = 1
    <3>1. <<s, e>>[1] = s /\ i <= s
      BY <1>1, <1>2
    <3>. QED BY <1>5, <1>9, <2>1, <3>1
  <2>2. CASE k # 1
    <3>1. q[k - 1] \in MissingRuns /\ e <= q[k - 1][1] /\ rs[k] = q[k - 1]
      BY <1>7, <1>10, <2>2
    <3>2. q[k - 1][1] \in Nat
      BY <1>1, <3>1 DEF MissingRuns
    <3>. QED BY <1>1, <1>2, <1>3, <3>1, <3>2
  <2>. QED BY <2>1, <2>2
<1>12. ASSUME NEW k \in 1 .. l PROVE rs[k][2] < rs[k + 1][1]
  <2>1. CASE k = 1
    <3>1. PICK r : r = q[1] /\ r \in MissingRuns /\ e <= r[1]
      BY <1>7, <2>1
    <3>2. r[1] \in 0 .. n - 1 /\ r[1] \notin got
      BY <1>1, <3>1 DEF MissingRuns
    <3>3. r[1] # e
      BY <1>1, <1>4, <3>2 DEF BlockIdx
    <3>. QED BY <1>1, <1>2, <1>3, <1>9, <2>1, <3>1, <3>2, <3>3
  <2>2. CASE k # 1
    <3>1. k - 1 \in 1 .. l - 1 /\ k - 1 \in 1 .. l /\ (k - 1) + 1 = k
      BY <2>2
    <3>2. q[k - 1][2] < q[k][1]
      BY <1>7, <3>1
    <3>3. rs[k] = q[k - 1] /\ rs[k + 1] = q[k]
      BY <1>9, <3>1
    <3>. QED BY <3>2, <3>3
  <2>. QED BY <2>1, <2>2
<1>13. ASSUME NEW j \in i .. n - 1, j \notin got
       PROVE  \E k \in 1 .. l + 1 : rs[k][1] <= j /\ j < rs[k][2]
  <2>1. j \in BlockIdx \ got
    BY <1>1, <1>13 DEF BlockIdx
  <2>2. ~ (j < s)
    <3>1. SUFFICES ASSUME j < s PROVE FALSE
      OBVIOUS
    <3>2. j \in i .. s - 1
      BY <1>1, <1>2, <3>1
    <3>. QED BY <1>4, <2>1, <3>2
  <2>3. CASE j < e
    <3>1. s <= j /\ 1 \in 1 .. l + 1
      BY <1>1, <1>2, <2>2
    <3>2. rs[1][1] = s /\ rs[1][2] = e
      BY <1>9
    <3>. QED BY <2>3, <3>1, <3>2
  <2>4. CASE ~ (j < e)
    <3>1. j \in e .. n - 1
      BY <1>1, <1>2, <1>3, <2>4
    <3>2. PICK k \in 1 .. l : q[k][1] <= j /\ j < q[k][2]
      BY <1>7, <1>13, <3>1
    <3>3. k + 1 \in 1 .. l + 1
      OBVIOUS
    <3>4. rs[k + 1] = q[k]
      BY <1>9
    <3>. QED BY <3>2, <3>3, <3>4
  <2>. QED BY <2>3, <2>4
<1>14. Lists(i, rs)
  BY <1>1, <1>9, <1>11, <1>12, <1>13 DEF Lists
<1>. QED BY <1>2, <1>3, <1>14 DEF rs

LEMMA ScanLists ==
  ASSUME cf \in ControlFiles
  PROVE  Lists(0, MissingRanges)
<1>1. PICK n \in Nat : n = NumBlocks
  BY BlockFacts
<1>2. PICK f : /\ MissingRanges = f[0]
               /\ \A i \in 0 .. n : f[i] = GapsFrom(f, i)
  BY <1>1, ScanDef
<1> DEFINE Done(m) == \A i \in 0 .. n : n - i <= m /\ AtEdge(i) => Lists(i, f[i])
           Good == { m \in Nat : Done(m) }
<1>3. ASSUME NEW i \in 0 .. n, AtEdge(i),
             \A e \in i + 1 .. n : AtEdge(e) => Lists(e, f[e])
      PROVE  Lists(i, f[i])
  <2>1. CASE GapStart(i) = NumBlocks
    BY <1>1, <1>2, <2>1, NoGapLeft DEF GapsFrom
  <2>2. CASE GapStart(i) # NumBlocks
    <3>1. PICK e \in i + 1 .. n : e = GapEnd(i) /\ e \notin BlockIdx \ got
      BY <1>1, <2>2, GapFacts
    <3>2. Lists(e, f[e])
      BY <1>3, <3>1 DEF AtEdge
    <3>3. f[i] = << <<GapStart(i), GapEnd(i)>> >> \o f[GapEnd(i)]
      BY <1>2, <2>2 DEF GapsFrom
    <3>. QED BY <1>1, <1>3, <2>2, <3>1, <3>2, <3>3, GapListed
  <2>. QED BY <2>1, <2>2
<1>4. 0 \in Good
  <2>1. ASSUME NEW i \in 0 .. n, n - i <= 0, AtEdge(i) PROVE Lists(i, f[i])
    <3>1. i + 1 .. n = {}
      BY <1>1, <2>1
    <3>. QED BY <1>3, <2>1, <3>1
  <2>. QED BY <2>1
<1>5. ASSUME NEW m \in Good PROVE m + 1 \in Good
  <2>1. ASSUME NEW i \in 0 .. n, n - i <= m + 1, AtEdge(i) PROVE Lists(i, f[i])
    <3>1. \A e \in i + 1 .. n : e \in 0 .. n /\ n - e <= m
      BY <1>1, <2>1
    <3>. QED BY <1>3, <2>1, <3>1
  <2>. QED BY <2>1
<1>6. n \in Good
  <2>1. Good \in SUBSET Nat
    OBVIOUS
  <2>. HIDE DEF Good
  <2>. QED BY <1>4, <1>5, <2>1, InductiveSet
<1>7. 0 \in 0 .. n /\ n - 0 <= n /\ AtEdge(0)
  BY <1>1 DEF AtEdge, BlockIdx
<1>8. Done(n)
  BY <1>6
<1>. QED BY <1>2, <1>7, <1>8

LEMMA RangesAreExact ==
  ASSUME cf \in ControlFiles
  PROVE  MissingRangesExact
<1>1. PICK n \in Nat : n = NumBlocks
  BY BlockFacts
<1>2. PICK rs : rs = MissingRanges
  OBVIOUS
<1>3. /\ rs \in Seq(Nat \X Nat)
      /\ \A k \in 1 .. Len(rs) : rs[k] \in MissingRuns
      /\ \A k \in 1 .. Len(rs) - 1 : rs[k][2] < rs[k + 1][1]
      /\ \A j \in 0 .. n - 1 :
           j \notin got => \E k \in 1 .. Len(rs) : rs[k][1] <= j /\ j < rs[k][2]
  BY <1>1, <1>2, ScanLists DEF Lists
<1>4. DOMAIN rs = 1 .. Len(rs) /\ Len(rs) \in Nat
  BY <1>3
<1>5. ASSUME NEW r \in MissingRuns
      PROVE  /\ r[1] \in 0 .. n /\ r[2] \in 0 .. n /\ r[1] < r[2]
             /\ \A j \in r[1] .. r[2] - 1 : j \in BlockIdx \ got
  BY <1>1 DEF MissingRuns, BlockIdx
<1>6. \A k \in 1 .. Len(rs) : rs[k][1] < rs[k][2]
  BY <1>3, <1>5
<1>7. UNION { rs[k][1] .. rs[k][2] - 1 : k \in DOMAIN rs } = BlockIdx \ got
  <2>1. ASSUME NEW j \in BlockIdx \ got
        PROVE  \E k \in DOMAIN rs : j \in rs[k][1] .. rs[k][2] - 1
    <3>1. j \in 0 .. n - 1
      BY <1>1 DEF BlockIdx
    <3>2. PICK k \in 1 .. Len(rs) : rs[k][1] <= j /\ j < rs[k][2]
      BY <1>3, <2>1, <3>1
    <3>3. rs[k][1] \in 0 .. n /\ rs[k][2] \in 0 .. n
      BY <1>3, <1>5
    <3>. QED BY <1>1, <1>4, <3>1, <3>2, <3>3
  <2>2. ASSUME NEW k \in DOMAIN rs, NEW j \in rs[k][1] .. rs[k][2] - 1
        PROVE  j \in BlockIdx \ got
    BY <1>3, <1>4, <1>5
  <2>. QED BY <2>1, <2>2
<1>8. { rs[k] : k \in DOMAIN rs } = MissingRuns
  <2>1. ASSUME NEW r \in MissingRuns PROVE \E k \in DOMAIN rs : r = rs[k]
    <3>1. /\ r[1] \in 0 .. n - 1 /\ r[1] \notin got /\ r[2] \in 0 .. n /\ r[1] < r[2]
      <4>1. r[1] \in r[1] .. r[2] - 1
        BY <1>5
      <4>. QED BY <1>1, <1>5, <4>1
    <3>2. PICK k \in 1 .. Len(rs) : rs[k][1] <= r[1] /\ r[1] < rs[k][2]
      BY <1>3, <3>1
    <3>3. rs[k] \in MissingRuns
      BY <1>3
    <3>4. PICK q \in MissingRuns : q = rs[k]
      BY <3>3
    <3>5. r[1] = q[1]
      <4>1. SUFFICES ASSUME q[1] < r[1] PROVE FALSE
        BY <1>5, <3>1, <3>2, <3>4
      <4>2. r[1] - 1 \in q[1] .. q[2] - 1
        BY <1>5, <3>1, <3>2, <3>4, <4>1
      <4>3. r[1] - 1 \notin BlockIdx \ got
        BY DEF MissingRuns
      <4>. QED BY <1>5, <4>2, <4>3
    <3>. QED BY <1>4, <3>4, <3>5, RunsApart
  <2>. QED BY <1>3, <1>4, <2>1
<1>. QED BY <1>2, <1>3, <1>4, <1>6, <1>7, <1>8 DEF MissingRangesExact

(***************************************************************************)
(* MatchRanges: whatever blocks are filled, the ranges are in order,       *)
(* disjoint, not adjacent, and exactly the maximal runs of missing blocks. *)
(***************************************************************************)
THEOREM RangesExact == Spec => []MissingRangesExact
<1>1. IInv => MissingRangesExact
  BY RangesAreExact DEF IInv, TypeOK, StoreTypeOK
<1>. QED BY <1>1, Invariance, PTL
=============================================================================
