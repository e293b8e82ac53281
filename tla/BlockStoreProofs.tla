-------------------------- MODULE BlockStoreProofs --------------------------
(***************************************************************************)
(* Facts about the buffer and its one writer, acceptBlock, that the proofs *)
(* about seed scanning and about fetching both rest on.                    *)
(***************************************************************************)
EXTENDS BlockStore, FiniteSetTheorems, TLAPS, InductiveSets

LEMMA BlockFacts ==
  ASSUME cf \in ControlFiles
  PROVE  /\ cf.target \in Seq(Byte) /\ Length \in Nat /\ NumBlocks \in Nat
         /\ IsFiniteSet(BlockIdx)
         /\ \A p \in Offsets : /\ p \div Blocksize \in BlockIdx
                               /\ (p % Blocksize) + 1 \in 1 .. Blocksize
                               /\ (p \div Blocksize) * Blocksize + (p % Blocksize) = p
         /\ \A i \in BlockIdx : Block(i) \in Window
<1>1. cf.target \in Seq(Byte) /\ Length \in Nat /\ Blocksize \in Nat \ {0}
  BY StoreAssumption DEF Length
<1>2. NumBlocks \in Nat
  BY <1>1 DEF NumBlocks
<1>3. IsFiniteSet(BlockIdx)
  BY <1>2, FS_Interval DEF BlockIdx
<1>4. ASSUME NEW p \in Offsets
      PROVE  /\ p \div Blocksize \in BlockIdx
             /\ (p % Blocksize) + 1 \in 1 .. Blocksize
             /\ (p \div Blocksize) * Blocksize + (p % Blocksize) = p
  BY <1>1 DEF Offsets, BlockIdx, NumBlocks
<1>5. ASSUME NEW i \in BlockIdx PROVE Block(i) \in Window
  <2>1. i \in Nat /\ 0 \in Byte
    BY <1>2, StoreAssumption DEF BlockIdx
  <2>2. ASSUME NEW k \in 1 .. Blocksize, i * Blocksize + k <= Length
        PROVE  cf.target[i * Blocksize + k] \in Byte
    <3>1. i * Blocksize + k \in 1 .. Length
      BY <1>1, <2>1, <2>2
    <3>. QED BY <1>1, <3>1 DEF Length
  <2>. QED BY <2>1, <2>2 DEF Block, Window
<1>. QED BY <1>1, <1>2, <1>3, <1>4, <1>5

(***************************************************************************)
(* The byte of a block at the place of an offset is the target's.          *)
(***************************************************************************)
LEMMA BlockByte ==
  ASSUME cf \in ControlFiles, NEW p \in Offsets
  PROVE  Block(p \div Blocksize)[(p % Blocksize) + 1] = cf.target[p + 1]
<1>1. /\ (p % Blocksize) + 1 \in 1 .. Blocksize
      /\ (p \div Blocksize) * Blocksize + (p % Blocksize) = p
      /\ p \in 0 .. Length - 1 /\ Length \in Nat
  BY BlockFacts DEF Offsets
<1>2. Blocksize \in Nat \ {0} /\ p \div Blocksize \in Int /\ p % Blocksize \in Int
  BY <1>1, StoreAssumption
<1>3. (p \div Blocksize) * Blocksize + ((p % Blocksize) + 1) = p + 1
  BY <1>1, <1>2
<1>4. p + 1 <= Length
  BY <1>1
<1>. QED BY <1>1, <1>3, <1>4 DEF Block

(***************************************************************************)
(* Accepting blocks keeps the types and the count.                         *)
(***************************************************************************)
LEMMA AcceptKeepsCount ==
  ASSUME StoreTypeOK, CountExact,
         NEW D \in SUBSET BlockIdx, NEW data \in [D -> Window], acceptBlock(data)
  PROVE  StoreTypeOK' /\ CountExact' /\ got' = got \cup D /\ cf' = cf
<1>1. /\ cf' = cf /\ DOMAIN data = D
      /\ got' = got \cup D
      /\ nGot' = nGot + Cardinality(D \ got)
  BY DEF acceptBlock
<1>2. /\ cf \in ControlFiles /\ got \subseteq BlockIdx
      /\ nGot = Cardinality(got) /\ out \in [Offsets -> Byte]
  BY DEF StoreTypeOK, CountExact
<1>3. Offsets' = Offsets /\ BlockIdx' = BlockIdx
  BY <1>1 DEF Offsets, BlockIdx, NumBlocks, Length
<1>4. out' \in [Offsets -> Byte]
  <2>1. ASSUME NEW p \in Offsets, p \div Blocksize \in D
        PROVE  data[p \div Blocksize][(p % Blocksize) + 1] \in Byte
    BY <1>2, <2>1, BlockFacts DEF Window
  <2>2. out' = [p \in Offsets |->
                  IF p \div Blocksize \in D
                  THEN data[p \div Blocksize][(p % Blocksize) + 1] ELSE out[p]]
    BY <1>1 DEF acceptBlock
  <2>. QED BY <1>2, <2>1, <2>2
<1>5. IsFiniteSet(got) /\ IsFiniteSet(D \ got)
  BY <1>2, BlockFacts, FS_Subset
<1>6. Cardinality(got \cup D) = Cardinality(got) + Cardinality(D \ got)
  <2>1. got \cup D = got \cup (D \ got) /\ got \cap (D \ got) = {}
    OBVIOUS
  <2>2. Cardinality(got \cup (D \ got)) =
          Cardinality(got) + Cardinality(D \ got) - Cardinality(got \cap (D \ got))
    BY <1>5, FS_Union
  <2>3. Cardinality(got) \in Nat /\ Cardinality(D \ got) \in Nat
    BY <1>5, FS_CardinalityType
  <2>4. Cardinality(got \cap (D \ got)) = 0
    BY <2>1, FS_EmptySet
  <2>5. Cardinality(got \cup D) = Cardinality(got \cup (D \ got))
    BY <2>1, Zenon
  <2>6. \A a, b \in Nat : a + b - 0 = a + b
    OBVIOUS
  <2>. QED BY <2>2, <2>3, <2>4, <2>5, <2>6
<1>7. nGot' = Cardinality(got') /\ nGot' \in Nat
  <2>1. IsFiniteSet(got \cup D)
    BY <1>2, BlockFacts, FS_Subset
  <2>. QED BY <1>1, <1>2, <1>6, <2>1, FS_CardinalityType
<1>. QED BY <1>1, <1>2, <1>3, <1>4, <1>7 DEF StoreTypeOK, CountExact

(***************************************************************************)
(* Accepting blocks of the target writes the target's bytes, and these     *)
(* only.                                                                   *)
(***************************************************************************)
LEMMA AcceptWritesTarget ==
  ASSUME StoreTypeOK,
         NEW D \in SUBSET BlockIdx, NEW data \in [D -> Window], acceptBlock(data),
         \A i \in D : data[i] = Block(i)
  PROVE  /\ out' = [p \in Offsets |->
                      IF p \div Blocksize \in D THEN cf.target[p + 1] ELSE out[p]]
         /\ GotIsTarget => GotIsTarget'
<1>1. /\ cf' = cf /\ DOMAIN data = D /\ got' = got \cup D
      /\ cf \in ControlFiles
  BY DEF acceptBlock, StoreTypeOK
<1>2. \A p \in Offsets : p \div Blocksize \in D =>
         data[p \div Blocksize][(p % Blocksize) + 1] = cf.target[p + 1]
  BY <1>1, BlockByte
<1>3. out' = [p \in Offsets |->
                IF p \div Blocksize \in D THEN cf.target[p + 1] ELSE out[p]]
  BY <1>1, <1>2 DEF acceptBlock
<1>4. Offsets' = Offsets
  BY <1>1 DEF Offsets, Length
<1>5. GotIsTarget => GotIsTarget'
  BY <1>1, <1>3, <1>4 DEF GotIsTarget
<1>. QED BY <1>3, <1>5

(***************************************************************************)
(* With a hash that separates blocks, a window whose hash is block i's is  *)
(* block i.                                                                *)
(***************************************************************************)
LEMMA HashDecides ==
  ASSUME StrongInjective, cf \in ControlFiles,
         NEW i \in BlockIdx, NEW d \in Window, Strong(d) = Checksum(i)
  PROVE  d = Block(i)
  BY BlockFacts DEF StrongInjective, Checksum

(***************************************************************************)
(* Some blocks, perhaps none, take the target's bytes.                     *)
(***************************************************************************)
PutsInPlace(S) ==
  /\ cf' = cf
  /\ got' = got \cup S
  /\ out' = [p \in Offsets |-> IF p \div Blocksize \in S
                               THEN cf.target[p + 1] ELSE out[p]]

LEMMA NothingPut ==
  ASSUME StoreTypeOK, UNCHANGED storeVars
  PROVE  PutsInPlace({})
BY DEF StoreTypeOK, PutsInPlace, storeVars

LEMMA CheckedBlocksPut ==
  ASSUME StrongInjective, StoreTypeOK,
         NEW D \in SUBSET BlockIdx, NEW data \in [D -> Window], acceptBlock(data),
         \A i \in D : Strong(data[i]) = Checksum(i)
  PROVE  PutsInPlace(D)
<1>1. cf \in ControlFiles /\ DOMAIN data = D
  BY DEF StoreTypeOK
<1>2. \A i \in D : data[i] = Block(i)
  BY <1>1, HashDecides
<1>3. cf' = cf /\ got' = got \cup D
  BY <1>1 DEF acceptBlock
<1>. QED BY <1>2, <1>3, AcceptWritesTarget DEF PutsInPlace

LEMMA PutKeepsTarget ==
  ASSUME GotIsTarget, NEW S \in SUBSET BlockIdx, PutsInPlace(S)
  PROVE  GotIsTarget'
<1>1. Offsets' = Offsets
  BY DEF PutsInPlace, Offsets, Length
<1>. QED BY <1>1 DEF GotIsTarget, PutsInPlace

LEMMA PutRefines ==
  ASSUME GotIsTarget, NEW S \in SUBSET BlockIdx, PutsInPlace(S)
  PROVE  R!Next
<1>1. out' = [p \in Offsets |-> IF p \div Blocksize \in S \ got
                               THEN cf.target[p + 1] ELSE out[p]]
  BY DEF PutsInPlace, GotIsTarget
<1>2. S \ got \in SUBSET (R!Blocks \ got)
  BY DEF R!Blocks, BlockIdx, NumBlocks, Length
<1>3. R!Fill(S \ got)
  BY <1>1 DEF R!Fill, PutsInPlace, Offsets, Length
<1>. QED BY <1>2, <1>3 DEF R!Next

-----------------------------------------------------------------------------
(***************************************************************************)
(* The runs of missing blocks: no two start at the same block, and every   *)
(* missing block lies in one.                                              *)
(***************************************************************************)
LEMMA RunsApart ==
  ASSUME cf \in ControlFiles,
         NEW r \in MissingRuns, NEW q \in MissingRuns, r[1] = q[1]
  PROVE  r = q
<1>1. PICK a \in Nat, b \in Nat, c \in Nat, n \in Nat :
        r = <<a, b>> /\ q = <<a, c>> /\ b <= n /\ c <= n /\ a < b /\ a < c /\ n = NumBlocks
  BY BlockFacts DEF MissingRuns
<1>2. b \notin BlockIdx \ got /\ c \notin BlockIdx \ got
  BY <1>1 DEF MissingRuns
<1>3. /\ \A i \in a .. b - 1 : i \notin got
      /\ \A i \in a .. c - 1 : i \notin got
  BY <1>1 DEF MissingRuns
<1>4. ~ b < c
  <2>1. SUFFICES ASSUME b < c PROVE FALSE
    OBVIOUS
  <2>2. b \in a .. c - 1 /\ b \in BlockIdx
    BY <1>1, <2>1 DEF BlockIdx
  <2>. QED BY <1>2, <1>3, <2>2
<1>5. ~ c < b
  <2>1. SUFFICES ASSUME c < b PROVE FALSE
    OBVIOUS
  <2>2. c \in a .. b - 1 /\ c \in BlockIdx
    BY <1>1, <2>1 DEF BlockIdx
  <2>. QED BY <1>2, <1>3, <2>2
<1>. QED BY <1>1, <1>4, <1>5

LEMMA RunsCover ==
  ASSUME cf \in ControlFiles, NEW i \in BlockIdx \ got
  PROVE  \E r \in MissingRuns : r[1] <= i /\ i < r[2]
<1>1. PICK n \in Nat : n = NumBlocks
  BY BlockFacts
<1>2. i \in Nat /\ i < n
  BY <1>1 DEF BlockIdx
<1> DEFINE A == { a \in 0 .. i : \A j \in a .. i : j \notin got }
           B == { b \in i + 1 .. n : \A j \in i .. b - 1 : j \notin got }
<1>3. PICK a \in A : \A k \in A : a <= k
  <2>1. i \in A /\ A \in SUBSET Nat
    BY <1>2
  <2>. HIDE DEF A
  <2>. QED BY <2>1, LeastNatural
<1>4. PICK b \in B : \A k \in B : k <= b
  <2>1. i + 1 \in B /\ B \in SUBSET Nat /\ \A k \in B : k <= n
    BY <1>2
  <2>. HIDE DEF B
  <2>. QED BY <1>1, <2>1, GreatestNatural
<1>5. a \in 0 .. i /\ b \in i + 1 .. n /\ \A j \in a .. b - 1 : j \notin got
  <2>1. a \in 0 .. i /\ b \in i + 1 .. n
    OBVIOUS
  <2>2. \A j \in a .. b - 1 : j \in a .. i \/ j \in i .. b - 1
    BY <1>2, <2>1
  <2>. QED BY <2>1, <2>2
<1>6. a - 1 \notin BlockIdx \ got
  <2>1. SUFFICES ASSUME a - 1 \in BlockIdx, a - 1 \notin got PROVE FALSE
    OBVIOUS
  <2>2. a - 1 \in 0 .. i
    BY <1>1, <1>2, <1>5, <2>1 DEF BlockIdx
  <2>3. \A j \in a - 1 .. i : j = a - 1 \/ j \in a .. i
    BY <1>2, <1>5
  <2>4. a - 1 \in A
    BY <2>1, <2>2, <2>3
  <2>. QED BY <1>3, <1>5, <2>4
<1>7. b \notin BlockIdx \ got
  <2>1. SUFFICES ASSUME b \in BlockIdx, b \notin got PROVE FALSE
    OBVIOUS
  <2>2. b + 1 \in i + 1 .. n
    BY <1>1, <1>2, <1>5, <2>1 DEF BlockIdx
  <2>3. \A j \in i .. (b + 1) - 1 : j = b \/ j \in i .. b - 1
    BY <1>2, <1>5
  <2>4. b + 1 \in B
    BY <2>1, <2>2, <2>3
  <2>. QED BY <1>4, <1>5, <2>4
<1>. HIDE DEF A, B
<1>8. <<a, b>> \in MissingRuns
  <2>1. /\ <<a, b>> \in (0 .. NumBlocks) \X (0 .. NumBlocks) /\ a < b
    BY <1>1, <1>2, <1>5
  <2>. QED BY <1>5, <1>6, <1>7, <2>1 DEF MissingRuns
<1>9. a <= i /\ i < b
  BY <1>2, <1>5
<1>. QED BY <1>8, <1>9
=============================================================================
