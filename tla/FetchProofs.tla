----------------------------- MODULE FetchProofs -----------------------------
(***************************************************************************)
(* What holds of every download, whatever the mirrors answer.              *)
(***************************************************************************)
EXTENDS Fetch, BlockStoreProofs, SequenceTheorems

(***************************************************************************)
(* The inductive invariant: the types, the exact count, what the second    *)
(* pass has served, and where runs may be asked for at all.                *)
(***************************************************************************)
Bookkeeping ==
  /\ NumURLs = 0 => pc \in {"call", "err"}
  /\ pc \in {"call", "ask"} => asked = {}
  /\ pc = "feed" => pass = "batch"
  /\ pass = "loop" => \A q, r \in asked : q = r

IInv == TypeOK /\ CountExact /\ Bookkeeping /\ ServedRunsFilled

-----------------------------------------------------------------------------
(***************************************************************************)
(* Whatever a mirror answers is made of bytes.                             *)
(***************************************************************************)
PartSet == [start : Nat, body : Seq(Byte)]

LEMMA SliceType ==
  ASSUME NEW f \in Seq(Byte), NEW a \in Nat, NEW b \in Nat
  PROVE  Slice(f, <<a, b>>) \in Seq(Byte)
<1>1. Blocksize \in Nat \ {0} /\ Len(f) \in Nat
  BY StoreAssumption
<1>2. a * Blocksize \in Nat /\ b * Blocksize \in Nat
  BY <1>1
<1>3. PICK m \in Nat : m = a * Blocksize
  BY <1>2
<1>4. PICK n \in Nat : n = EndByte(f, <<a, b>>) /\ n <= Len(f)
  BY <1>1, <1>2 DEF EndByte
<1>5. Slice(f, <<a, b>>) = SubSeq(f, m + 1, n)
  BY <1>3, <1>4 DEF Slice, StartByte
<1>6. \A i \in m + 1 .. n : i \in 1 .. Len(f)
  BY <1>1, <1>3, <1>4
<1>7. \A i \in m + 1 .. n : f[i] \in Byte
  BY <1>6
<1>8. m + 1 \in Int /\ n \in Int
  BY <1>3, <1>4
<1>9. SubSeq(f, m + 1, n) \in Seq(Byte)
  BY <1>7, <1>8, SubSeqProperties
<1>. QED BY <1>5, <1>9

LEMMA ButLastType ==
  ASSUME NEW f \in Seq(Byte)
  PROVE  ButLast(f) \in Seq(Byte)
<1>1. \A i \in 1 .. Len(f) - 1 : i \in 1 .. Len(f)
  BY LenProperties
<1>. QED BY <1>1, SubSeqProperties, LenProperties DEF ButLast

LEMMA ChangedType ==
  ASSUME NEW f \in Seq(Byte)
  PROVE  Changed(f) \in Seq(Byte)
<1>1. \A v : \E b \in Byte : b # v
  BY StoreAssumption, FetchAssumption
<1>2. \A v : (CHOOSE b \in Byte : b # v) \in Byte
  BY <1>1
<1>3. Changed(f) \in [1 .. Len(f) -> Byte] /\ Len(f) \in Nat
  BY <1>2 DEF Changed
<1>. QED BY <1>3

LEMMA OrdersType ==
  ASSUME NEW f \in Seq(Byte), NEW S \in SUBSET (Nat \X Nat), IsFiniteSet(S),
         NEW ps \in Orders(f, S)
  PROVE  ps \in Seq(PartSet) /\ Len(ps) = Cardinality(S)
<1>1. PICK n \in Nat : n = Cardinality(S)
  BY FS_CardinalityType
<1>2. PICK s \in [1 .. n -> S] : ps = [k \in 1 .. n |-> Part(f, s[k])]
  BY <1>1 DEF Orders
<1>3. ASSUME NEW r \in S PROVE Part(f, r) \in PartSet
  <2>1. PICK a \in Nat, b \in Nat : r = <<a, b>>
    OBVIOUS
  <2>2. StartByte(r) \in Nat
    BY <2>1, StoreAssumption DEF StartByte
  <2>. QED BY <2>1, <2>2, SliceType DEF Part, PartSet
<1>4. ps \in [1 .. n -> PartSet]
  BY <1>2, <1>3
<1>. QED BY <1>1, <1>4

LEMMA CoalescedType ==
  ASSUME NEW f \in Seq(Byte), NEW S \in SUBSET (Nat \X Nat), IsFiniteSet(S),
         NEW ps \in Coalesced(f, S)
  PROVE  ps \in Seq(PartSet)
<1>1. PICK r \in S, q \in S : \E rest \in Orders(f, S \ {r, q}) :
        ps = << Part(f, <<r[1], q[2]>>) >> \o rest
  <2>1. PICK p \in S \X S : \E rest \in Orders(f, S \ {p[1], p[2]}) :
          ps = << Part(f, <<p[1][1], p[2][2]>>) >> \o rest
    BY DEF Coalesced
  <2>2. p[1] \in S /\ p[2] \in S
    OBVIOUS
  <2>. QED BY <2>1, <2>2
<1>0. PICK rest \in Orders(f, S \ {r, q}) :
        ps = << Part(f, <<r[1], q[2]>>) >> \o rest
  BY <1>1
<1>2. IsFiniteSet(S \ {r, q}) /\ S \ {r, q} \in SUBSET (Nat \X Nat)
  BY FS_Subset
<1>3. rest \in Seq(PartSet)
  BY <1>2, OrdersType
<1>4. r[1] \in Nat /\ q[2] \in Nat
  OBVIOUS
<1>5. Part(f, <<r[1], q[2]>>) \in PartSet
  <2>1. StartByte(<<r[1], q[2]>>) \in Nat
    BY <1>4, StoreAssumption DEF StartByte
  <2>. QED BY <1>4, <2>1, SliceType DEF Part, PartSet
<1>6. << Part(f, <<r[1], q[2]>>) >> \in Seq(PartSet)
  BY <1>5
<1>. QED BY <1>0, <1>3, <1>6, ConcatProperties

LEMMA PartListsType ==
  ASSUME cf \in ControlFiles, NEW mode,
         NEW S \in SUBSET (Nat \X Nat), IsFiniteSet(S), S # {},
         NEW ps \in PartLists(mode, S)
  PROVE  ps \in Seq(PartSet)
<1>1. cf.target \in Seq(Byte) /\ Changed(cf.target) \in Seq(Byte)
  BY BlockFacts, ChangedType
<1>2. \A os \in Orders(cf.target, S) :
        /\ os \in Seq(PartSet) /\ os # << >> /\ 1 \in 1 .. Len(os)
        /\ os[1] \in PartSet
  <2>1. SUFFICES ASSUME NEW os \in Orders(cf.target, S)
                 PROVE  /\ os \in Seq(PartSet) /\ os # << >> /\ 1 \in 1 .. Len(os)
                        /\ os[1] \in PartSet
    OBVIOUS
  <2>2. os \in Seq(PartSet) /\ Len(os) = Cardinality(S)
    BY <1>1, OrdersType
  <2>3. Cardinality(S) \in Nat /\ Cardinality(S) # 0
    BY FS_CardinalityType, FS_EmptySet
  <2>. QED BY <2>2, <2>3
<1>3. CASE mode = "stale"
  BY <1>1, <1>3, OrdersType DEF PartLists
<1>4. CASE mode = "dup"
  <2>1. PICK os \in Orders(cf.target, S) : ps = Append(os, os[1])
    BY <1>4 DEF PartLists
  <2>. QED BY <1>2, <2>1, AppendProperties
<1>5. CASE mode = "drop"
  <2>1. PICK os \in Orders(cf.target, S) : ps = Tail(os)
    BY <1>5 DEF PartLists
  <2>. QED BY <1>2, <2>1, HeadTailProperties
<1>6. CASE mode = "short"
  <2>1. PICK os \in Orders(cf.target, S) : ps = [os EXCEPT ![1].body = ButLast(@)]
    BY <1>6 DEF PartLists
  <2>2. [os[1] EXCEPT !.body = ButLast(@)] \in PartSet
    BY <1>2, ButLastType DEF PartSet
  <2>3. ps = [os EXCEPT ![1] = [os[1] EXCEPT !.body = ButLast(@)]]
    BY <1>2, <2>1
  <2>. QED BY <1>2, <2>2, <2>3, ExceptSeq
<1>7. CASE mode = "shift"
  <2>1. PICK os \in Orders(cf.target, S) : ps = [os EXCEPT ![1].start = @ + 1]
    BY <1>7 DEF PartLists
  <2>2. [os[1] EXCEPT !.start = @ + 1] \in PartSet
    <3>1. os[1] \in [start : Nat, body : Seq(Byte)] /\ os[1].start + 1 \in Nat
      BY <1>2 DEF PartSet
    <3>. QED BY <3>1 DEF PartSet
  <2>3. ps = [os EXCEPT ![1] = [os[1] EXCEPT !.start = @ + 1]]
    BY <1>2, <2>1
  <2>. QED BY <1>2, <2>2, <2>3, ExceptSeq
<1>8. CASE mode = "coalesce"
  BY <1>1, <1>8, CoalescedType DEF PartLists
<1>9. CASE mode \notin {"stale", "dup", "drop", "short", "shift", "coalesce"}
  BY <1>2, <1>9 DEF PartLists
<1>. QED BY <1>3, <1>4, <1>5, <1>6, <1>7, <1>8, <1>9

LEMMA AnswerType ==
  ASSUME cf \in ControlFiles, NEW mode,
         NEW S \in SUBSET (Nat \X Nat), IsFiniteSet(S), S # {},
         NEW rep \in Answers(mode, S)
  PROVE  rep.body \in Seq(Byte) /\ rep.parts \in Seq(PartSet)
<1>1. cf.target \in Seq(Byte) /\ ButLast(cf.target) \in Seq(Byte)
  BY BlockFacts, ButLastType
<1>2. ASSUME NEW r \in S PROVE Body(mode, r) \in Seq(Byte)
  <2>1. PICK a \in Nat, b \in Nat : r = <<a, b>>
    OBVIOUS
  <2>. QED BY <1>1, <2>1, SliceType, ChangedType, ButLastType DEF Body
<1>3. << >> \in Seq(Byte) /\ << >> \in Seq(PartSet)
  OBVIOUS
<1>4. CASE mode \in {"down", "forbidden", "plain", "cut"}
  <2>1. rep = Plainly(mode)
    BY <1>4 DEF Answers
  <2>2. CASE mode = "down"
    BY <1>3, <2>1, <2>2 DEF Plainly, Reply
  <2>3. CASE mode = "forbidden"
    BY <1>3, <2>1, <2>3 DEF Plainly, Reply
  <2>4. CASE mode = "plain"
    BY <1>1, <1>3, <2>1, <2>4 DEF Plainly, Reply
  <2>5. CASE mode = "cut"
    BY <1>1, <1>3, <2>1, <2>5 DEF Plainly, Reply
  <2>. QED BY <1>4, <2>2, <2>3, <2>4, <2>5
<1>5. CASE /\ mode \notin {"down", "forbidden", "plain", "cut"}
           /\ mode = "single" \/ Cardinality(S) = 1
  <2>1. PICK r \in S : rep = Reply("single", Body(mode, r), << >>)
    BY <1>5 DEF Answers
  <2>. QED BY <1>2, <1>3, <2>1 DEF Reply
<1>6. CASE /\ mode \notin {"down", "forbidden", "plain", "cut", "single"}
           /\ Cardinality(S) # 1
  <2>1. CASE mode = "malformed"
    <3>1. rep = Reply("malformed", << >>, << >>)
      BY <1>6, <2>1 DEF Answers
    <3>. QED BY <1>3, <3>1 DEF Reply
  <2>2. CASE mode # "malformed"
    <3>1. PICK ps \in PartLists(mode, S) : rep = Reply("multi", << >>, ps)
      BY <1>6, <2>2 DEF Answers
    <3>. QED BY <1>3, <3>1, PartListsType DEF Reply
  <2>. QED BY <2>1, <2>2
<1>. QED BY <1>4, <1>5, <1>6

LEMMA RunFacts ==
  ASSUME TypeOK
  PROVE  /\ cf \in ControlFiles /\ NumBlocks \in Nat
         /\ ranges \subseteq Runs /\ todo \subseteq ranges /\ asked \subseteq ranges
         /\ \A S \in SUBSET ranges : IsFiniteSet(S) /\ S \in SUBSET (Nat \X Nat)
         /\ \A r \in ranges : /\ Run(r) \subseteq BlockIdx
                             /\ r[1] \in Nat /\ r[2] \in Nat
<1>1. /\ cf \in ControlFiles /\ NumBlocks \in Nat
      /\ ranges \subseteq Runs /\ todo \subseteq ranges /\ asked \subseteq ranges
  BY BlockFacts DEF TypeOK, StoreTypeOK
<1>2. IsFiniteSet(Runs)
  <2>1. IsFiniteSet(0 .. NumBlocks)
    BY <1>1, FS_Interval
  <2>2. IsFiniteSet((0 .. NumBlocks) \X (0 .. NumBlocks))
    BY <2>1, FS_Product
  <2>. QED BY <2>2, FS_Subset DEF Runs
<1>3. \A S \in SUBSET ranges : IsFiniteSet(S) /\ S \in SUBSET (Nat \X Nat)
  <2>1. Runs \subseteq Nat \X Nat
    BY <1>1 DEF Runs
  <2>. QED BY <1>1, <1>2, <2>1, FS_Subset
<1>4. ASSUME NEW r \in ranges
      PROVE  Run(r) \subseteq BlockIdx /\ r[1] \in Nat /\ r[2] \in Nat
  <2>1. PICK a \in 0 .. NumBlocks, b \in 0 .. NumBlocks : r = <<a, b>>
    BY <1>1 DEF Runs
  <2>. QED BY <1>1, <2>1 DEF Run, BlockIdx
<1>. QED BY <1>1, <1>3, <1>4

LEMMA ArrivalType ==
  ASSUME TypeOK, NEW rep \in Arrivals
  PROVE  /\ pc = "wait" /\ asked # {} /\ untried # << >>
         /\ Head(untried) \in 1 .. NumURLs
         /\ rep.body \in Seq(Byte) /\ rep.parts \in Seq(PartSet)
<1>1. pc = "wait"
  BY DEF Arrivals
<1>2. asked # {} /\ untried # << >> /\ untried \in Seq(1 .. NumURLs)
  BY <1>1 DEF TypeOK
<1>3. PICK mode \in server[Head(untried)] : rep \in Answers(mode, asked)
  BY <1>1 DEF Arrivals
<1>4. IsFiniteSet(asked) /\ asked \in SUBSET (Nat \X Nat) /\ cf \in ControlFiles
  BY RunFacts
<1>. QED BY <1>1, <1>2, <1>3, <1>4, AnswerType, HeadTailProperties

(***************************************************************************)
(* Feeding a run writes checked blocks of the run only, and all of them    *)
(* when none is rejected.                                                  *)
(***************************************************************************)
LEMMA FeedRunFacts ==
  ASSUME StoreTypeOK, CountExact, NEW r, Run(r) \subseteq BlockIdx,
         NEW body \in Seq(Byte), NEW first \in Nat, r[1] \in Nat, r[2] \in Nat,
         first <= r[1],
         FeedRun(r, body, first)
  PROVE  /\ StoreTypeOK' /\ CountExact' /\ cf' = cf
         /\ got \subseteq got' /\ got' \subseteq got \cup Run(r)
         /\ Rejected(r, body, first) = {} => Run(r) \subseteq got'
         /\ \E D \in SUBSET BlockIdx : \E data \in [D -> Window] :
              /\ acceptBlock(data)
              /\ \A i \in D : Strong(data[i]) = Checksum(i)
<1> DEFINE good == { i \in Run(r) : \A j \in Rejected(r, body, first) : i < j }
           data == [i \in good |-> Payload(body, (i - first) * Blocksize)]
<1>1. acceptBlock(data)
  BY DEF FeedRun
<1>2. \A i \in Run(r) : i \in Nat /\ i - first \in Nat
  BY DEF Run
<1>3. ASSUME NEW i \in good
      PROVE  data[i] \in Window /\ Strong(data[i]) = Checksum(i)
  <2>1. PICK off \in Nat : off = (i - first) * Blocksize
    BY <1>2, StoreAssumption
  <2>2. data[i] = Payload(body, off)
    BY <2>1
  <2>3. \A k \in 1 .. Blocksize : off + k <= Len(body) => off + k \in 1 .. Len(body)
    BY StoreAssumption, LenProperties
  <2>4. Payload(body, off) \in Window
    BY <2>3, StoreAssumption, ElementOfSeq DEF Payload, Window
  <2>5. i \notin Rejected(r, body, first)
    BY <1>2
  <2>6. Verdict(i, Payload(body, off)) = ""
    BY <2>1, <2>5 DEF Rejected
  <2>7. Strong(Payload(body, off)) = Checksum(i)
    BY <2>6 DEF Verdict
  <2>. QED BY <2>2, <2>4, <2>7
<1>4. good \in SUBSET BlockIdx /\ good \subseteq Run(r)
  OBVIOUS
<1>5. data \in [good -> Window]
  BY <1>3
<1>6. Rejected(r, body, first) = {} => good = Run(r)
  OBVIOUS
<1>. HIDE DEF data, good
<1>7. StoreTypeOK' /\ CountExact' /\ cf' = cf /\ got' = got \cup good
  BY <1>1, <1>4, <1>5, AcceptKeepsCount
<1>. QED BY <1>1, <1>3, <1>4, <1>5, <1>6, <1>7

-----------------------------------------------------------------------------
(***************************************************************************)
(* One step lemma per action.  Those that leave the buffer alone share     *)
(* what follows from that.                                                 *)
(***************************************************************************)
LEMMA StoreUnchanged ==
  ASSUME StoreTypeOK, CountExact, UNCHANGED storeVars
  PROVE  /\ StoreTypeOK' /\ CountExact' /\ BlockIdx' = BlockIdx /\ Runs' = Runs
         /\ got' = got
  BY DEF StoreTypeOK, CountExact, storeVars, Offsets, BlockIdx, NumBlocks, Length,
         Runs

LEMMA InitIInv == Init => IInv
<1>. SUFFICES ASSUME Init PROVE IInv
  OBVIOUS
<1>1. /\ cf \in ControlFiles /\ got \subseteq BlockIdx /\ nGot = Cardinality(got)
      /\ out = [p \in Offsets |->
                  IF p \div Blocksize \in got THEN cf.target[p + 1] ELSE 0]
  BY DEF Init
<1>2. out \in [Offsets -> Byte]
  <2>1. \A p \in Offsets : p + 1 \in 1 .. Len(cf.target)
    BY <1>1, BlockFacts DEF Offsets, Length
  <2>2. \A p \in Offsets : cf.target[p + 1] \in Byte
    BY <1>1, <2>1, BlockFacts, ElementOfSeq
  <2>. QED BY <1>1, <2>2, StoreAssumption
<1>3. nGot \in Nat
  BY <1>1, BlockFacts, FS_Subset, FS_CardinalityType
<1>4. StoreTypeOK /\ CountExact
  BY <1>1, <1>2, <1>3 DEF StoreTypeOK, CountExact
<1>5. MissingRuns \subseteq Runs
  BY DEF MissingRuns, Runs
<1>6. << >> \in Seq(1 .. NumURLs) /\ << >> \in Seq(PartSet)
  OBVIOUS
<1>7. TypeOK
  BY <1>4, <1>5, <1>6, FetchAssumption DEF Init, TypeOK, PartSet
<1>. QED BY <1>4, <1>7 DEF Init, IInv, Bookkeeping, ServedRunsFilled

LEMMA CallStep ==
  ASSUME IInv, Call
  PROVE  IInv'
<1>1. StoreTypeOK' /\ CountExact' /\ Runs' = Runs /\ got' = got
  BY StoreUnchanged DEF IInv, TypeOK, Call
<1>2. /\ pc' \in {"err", "ok", "ask"} /\ (NumURLs = 0 => pc' = "err")
      /\ pass' \in {"batch", "loop"}
      /\ todo' = ranges /\ asked = {}
      /\ UNCHANGED <<server, ranges, asked, untried, sticky, parts, sent>>
  BY DEF Call, IInv, Bookkeeping
<1>. QED
  BY <1>1, <1>2 DEF IInv, TypeOK, Bookkeeping, ServedRunsFilled

LEMMA AskStep ==
  ASSUME IInv, Ask
  PROVE  IInv'
<1>1. /\ StoreTypeOK' /\ CountExact' /\ Runs' = Runs /\ got' = got
      /\ UNCHANGED <<server, ranges, pass, sticky, parts, sent>>
      /\ pc = "ask" /\ pc' = "wait" /\ untried' = Mirrors /\ asked = {}
  BY StoreUnchanged DEF IInv, TypeOK, Bookkeeping, Ask
<1>2. PICK c \in SUBSET todo : IsNextChunk(c) /\ asked' = c /\ todo' = todo \ c
  BY DEF Ask
<1>3. c # {} /\ c \subseteq ranges /\ todo' \subseteq ranges /\ todo' \cup asked' = todo
  BY <1>2 DEF IsNextChunk, IInv, TypeOK
<1>4. untried' \in Seq(1 .. NumURLs) /\ untried' # << >>
  <2>1. sticky \in 0 .. NumURLs /\ NumURLs \in Nat
    BY FetchAssumption DEF IInv, TypeOK
  <2>2. CASE sticky = 0
    <3>1. untried' = [i \in 1 .. NumURLs |-> i] /\ NumURLs # 0
      BY <1>1, <2>2 DEF Mirrors, IInv, Bookkeeping
    <3>2. untried' \in [1 .. NumURLs -> 1 .. NumURLs] /\ untried' \in Seq(1 .. NumURLs)
      BY <2>1, <3>1
    <3>3. Len(untried') = NumURLs
      BY <2>1, <3>2, LenProperties
    <3>. QED BY <3>1, <3>2, <3>3
  <2>3. CASE sticky # 0
    BY <1>1, <2>1, <2>3 DEF Mirrors
  <2>. QED BY <2>2, <2>3
<1>5. pass = "loop" => \A q, r \in c : q = r
  <2>. SUFFICES ASSUME pass = "loop" PROVE \A q, r \in c : q = r
    OBVIOUS
  <2>1. IsFiniteSet(c) /\ Cardinality(c) <= 1
    BY <1>2, <1>3, RunFacts DEF IInv, IsNextChunk, MaxAsked
  <2>2. Cardinality(c) \in Nat /\ Cardinality(c) # 0
    BY <1>3, <2>1, FS_CardinalityType, FS_EmptySet
  <2>3. \E e : c = {e}
    BY <2>1, <2>2, FS_Singleton
  <2>. QED BY <2>3
<1>. QED
  BY <1>1, <1>2, <1>3, <1>4, <1>5 DEF IInv, TypeOK, Bookkeeping, ServedRunsFilled

(***************************************************************************)
(* The steps that touch neither the buffer nor the bookkeeping of a pass.  *)
(***************************************************************************)
LEMMA PassDoneStep ==
  ASSUME IInv, PassDone
  PROVE  IInv'
<1>1. StoreTypeOK' /\ CountExact' /\ Runs' = Runs /\ got' = got
  BY StoreUnchanged DEF IInv, TypeOK, PassDone
<1>2. /\ pc = "ask" /\ pc' = "ok"
      /\ UNCHANGED <<server, ranges, pass, todo, asked, untried, sticky, parts, sent>>
  BY DEF PassDone
<1>. QED
  BY <1>1, <1>2 DEF IInv, TypeOK, Bookkeeping, ServedRunsFilled

LEMMA PartsFedStep ==
  ASSUME IInv, PartsFed
  PROVE  IInv'
<1>1. StoreTypeOK' /\ CountExact' /\ Runs' = Runs /\ got' = got
  BY StoreUnchanged DEF IInv, TypeOK, PartsFed
<1>2. /\ pc = "feed" /\ pass = "batch" /\ pc' = "ask" /\ asked' = {}
      /\ UNCHANGED <<server, ranges, pass, todo, untried, sticky, parts, sent>>
  BY DEF PartsFed, IInv, Bookkeeping
<1>. QED
  BY <1>1, <1>2 DEF IInv, TypeOK, Bookkeeping, ServedRunsFilled

LEMMA FailoverStep ==
  ASSUME IInv, NEW rep \in Arrivals, Failover(rep)
  PROVE  IInv'
<1>1. StoreTypeOK' /\ CountExact' /\ Runs' = Runs /\ got' = got
  BY StoreUnchanged DEF IInv, TypeOK, Failover
<1>2. /\ untried' = Tail(untried) /\ sent' = sent + 1
      /\ pc' = IF untried' = << >> THEN "err" ELSE "wait"
      /\ UNCHANGED <<server, ranges, pass, todo, asked, sticky, parts>>
  BY DEF Failover
<1>3. pc = "wait" /\ asked # {} /\ untried' \in Seq(1 .. NumURLs)
  <2>1. pc = "wait" /\ asked # {} /\ untried # << >> /\ untried \in Seq(1 .. NumURLs)
    BY ArrivalType DEF IInv, TypeOK
  <2>. QED BY <1>2, <2>1, HeadTailProperties
<1>. QED
  BY <1>1, <1>2, <1>3 DEF IInv, TypeOK, Bookkeeping, ServedRunsFilled

LEMMA RefusedStep ==
  ASSUME IInv, NEW rep \in Arrivals, Refused(rep)
  PROVE  IInv'
<1>1. StoreTypeOK' /\ CountExact' /\ Runs' = Runs /\ got' = got
  BY StoreUnchanged DEF IInv, TypeOK, Refused
<1>2. /\ pc = "wait" /\ pc' = "err" /\ sent' = sent + 1
      /\ UNCHANGED <<server, ranges, pass, todo, asked, untried, sticky, parts>>
  BY ArrivalType DEF Refused, IInv
<1>. QED
  BY <1>1, <1>2 DEF IInv, TypeOK, Bookkeeping, ServedRunsFilled

LEMMA InPartsStep ==
  ASSUME IInv, NEW rep \in Arrivals, InParts(rep)
  PROVE  IInv'
<1>1. StoreTypeOK' /\ CountExact' /\ Runs' = Runs /\ got' = got
  BY StoreUnchanged DEF IInv, TypeOK, InParts
<1>2. /\ pass = "batch" /\ pc' = "feed" /\ sent' = sent + 1
      /\ sticky' = Head(untried) /\ parts' = rep.parts
      /\ UNCHANGED <<server, ranges, pass, todo, asked, untried>>
  BY DEF InParts
<1>3. pc = "wait" /\ sticky' \in 0 .. NumURLs /\ parts' \in Seq(PartSet)
  BY <1>2, ArrivalType, FetchAssumption DEF IInv
<1>. QED
  BY <1>1, <1>2, <1>3 DEF IInv, TypeOK, Bookkeeping, ServedRunsFilled, PartSet

LEMMA FallBackStep ==
  ASSUME IInv, NEW rep \in Arrivals, FallBack(rep)
  PROVE  IInv'
<1>1. StoreTypeOK' /\ CountExact' /\ Runs' = Runs /\ got' = got
  BY StoreUnchanged DEF IInv, TypeOK, FallBack
<1>2. /\ pc = "wait" /\ pass' = "loop" /\ pc' = "ask" /\ sticky' = 0
      /\ todo' = ranges /\ asked' = {} /\ sent' = sent + 1
      /\ UNCHANGED <<server, ranges, untried, parts>>
  BY ArrivalType DEF FallBack, IInv
<1>3. sticky' \in 0 .. NumURLs
  BY <1>2, FetchAssumption
<1>. QED
  BY <1>1, <1>2, <1>3 DEF IInv, TypeOK, Bookkeeping, ServedRunsFilled

(***************************************************************************)
(* The steps that feed blocks.                                             *)
(***************************************************************************)
LEMMA FeedPartStep ==
  ASSUME IInv, FeedPart
  PROVE  IInv'
<1> DEFINE p    == Head(parts)
           want == { r \in asked : StartByte(r) = p.start }
<1>1. /\ pc = "feed" /\ pass = "batch" /\ parts # << >> /\ parts \in Seq(PartSet)
      /\ parts' = Tail(parts)
      /\ UNCHANGED <<server, ranges, pass, todo, asked, untried, sticky, sent>>
      /\ StoreTypeOK /\ CountExact
  BY DEF FeedPart, IInv, TypeOK, Bookkeeping, PartSet
<1>2. p \in PartSet /\ parts' \in Seq(PartSet)
  BY <1>1, HeadTailProperties
<1>3. StoreTypeOK' /\ CountExact' /\ cf' = cf /\ pc' \in {"feed", "err"}
  <2>1. CASE want = {}
    BY <1>1, <2>1, StoreUnchanged DEF FeedPart, storeVars
  <2>2. CASE want # {}
    <3>1. PICK r \in want :
            /\ FeedRun(r, p.body, r[1])
            /\ pc' = IF Rejected(r, p.body, r[1]) = {} THEN pc ELSE "err"
      BY <2>2 DEF FeedPart
    <3>2. Run(r) \subseteq BlockIdx /\ r[1] \in Nat /\ r[2] \in Nat
      BY RunFacts DEF IInv
    <3>3. p.body \in Seq(Byte)
      BY <1>2 DEF PartSet
    <3>. QED BY <1>1, <3>1, <3>2, <3>3, FeedRunFacts
  <2>. QED BY <2>1, <2>2
<1>4. Runs' = Runs
  BY <1>3 DEF Runs, NumBlocks, Length
<1>. QED
  BY <1>1, <1>2, <1>3, <1>4
     DEF IInv, TypeOK, Bookkeeping, ServedRunsFilled, PartSet

LEMMA OneRunStep ==
  ASSUME IInv, NEW rep \in Arrivals, OneRun(rep)
  PROVE  IInv'
<1>1. /\ pc = "wait" /\ pass = "loop" /\ sent' = sent + 1
      /\ sticky' \in 0 .. NumURLs
      /\ UNCHANGED <<server, ranges, pass, todo, untried, parts>>
      /\ StoreTypeOK /\ CountExact /\ rep.body \in Seq(Byte)
  BY ArrivalType, FetchAssumption DEF OneRun, IInv, TypeOK
<1>0. PICK r \in asked : \E first \in {0, r[1]} :
        /\ FeedRun(r, rep.body, first)
        /\ pc' = IF Rejected(r, rep.body, first) = {} THEN "ask" ELSE "err"
        /\ asked' = IF Rejected(r, rep.body, first) = {} THEN {} ELSE asked
  BY DEF OneRun
<1>2. PICK first \in {0, r[1]} :
        /\ FeedRun(r, rep.body, first)
        /\ pc' = IF Rejected(r, rep.body, first) = {} THEN "ask" ELSE "err"
        /\ asked' = IF Rejected(r, rep.body, first) = {} THEN {} ELSE asked
  BY <1>0
<1>3. /\ Run(r) \subseteq BlockIdx /\ r[1] \in Nat /\ r[2] \in Nat
      /\ first \in Nat /\ first <= r[1]
  BY RunFacts DEF IInv
<1>4. /\ StoreTypeOK' /\ CountExact' /\ cf' = cf
      /\ got \subseteq got'
      /\ Rejected(r, rep.body, first) = {} => Run(r) \subseteq got'
  BY <1>1, <1>2, <1>3, FeedRunFacts
<1>5. Runs' = Runs
  BY <1>4 DEF Runs, NumBlocks, Length
<1>6. ServedRunsFilled'
  <2>1. CASE Rejected(r, rep.body, first) = {}
    <3>1. asked' = {} /\ Run(r) \subseteq got' /\ \A q \in asked : q = r
      BY <1>1, <1>2, <1>4, <2>1 DEF IInv, Bookkeeping
    <3>2. \A q \in ranges \ (todo \cup asked) : Run(q) \subseteq got
      BY <1>1 DEF IInv, ServedRunsFilled
    <3>. QED BY <1>1, <1>4, <3>1, <3>2 DEF ServedRunsFilled
  <2>2. CASE Rejected(r, rep.body, first) # {}
    BY <1>1, <1>2, <1>4, <2>2 DEF IInv, ServedRunsFilled
  <2>. QED BY <2>1, <2>2
<1>. QED
  BY <1>1, <1>2, <1>4, <1>5, <1>6 DEF IInv, TypeOK, Bookkeeping

LEMMA StutterStep ==
  ASSUME IInv, UNCHANGED vars
  PROVE  IInv'
<1>1. UNCHANGED storeVars /\ UNCHANGED fetchVars
  BY DEF vars
<1>2. StoreTypeOK' /\ CountExact' /\ Runs' = Runs /\ got' = got
  BY <1>1, StoreUnchanged DEF IInv, TypeOK
<1>. QED
  BY <1>1, <1>2 DEF fetchVars, IInv, TypeOK, Bookkeeping, ServedRunsFilled

-----------------------------------------------------------------------------
(***************************************************************************)
(* The invariant of every download: it is inductive.                       *)
(***************************************************************************)
THEOREM Invariance == Spec => []IInv
<1>1. Init => IInv
  BY InitIInv
<1>2. IInv /\ [Next]_vars => IInv'
  <2>. SUFFICES ASSUME IInv, [Next]_vars PROVE IInv'
    OBVIOUS
  <2>1. CASE Call
    BY <2>1, CallStep
  <2>2. CASE Ask
    BY <2>2, AskStep
  <2>3. CASE PassDone
    BY <2>3, PassDoneStep
  <2>4. CASE FeedPart
    BY <2>4, FeedPartStep
  <2>5. CASE PartsFed
    BY <2>5, PartsFedStep
  <2>6. CASE \E rep \in Arrivals : Receive(rep)
    BY <2>6, FailoverStep, RefusedStep, InPartsStep, FallBackStep, OneRunStep
       DEF Receive
  <2>7. CASE UNCHANGED vars
    BY <2>7, StutterStep
  <2>. QED BY <2>1, <2>2, <2>3, <2>4, <2>5, <2>6, <2>7 DEF Next
<1>. QED BY <1>1, <1>2, PTL DEF Spec

(***************************************************************************)
(* Every variable of a download keeps its type, whatever the mirrors send: *)
(* in particular no answer makes it write outside the target.              *)
(***************************************************************************)
THEOREM TypeCorrect == Spec => []TypeOK
<1>1. IInv => TypeOK
  BY DEF IInv
<1>. QED BY <1>1, Invariance, PTL

(***************************************************************************)
(* The count of accepted blocks stays exact though the second pass fetches *)
(* again what the first one delivered.                                     *)
(***************************************************************************)
THEOREM CountIsExact == Spec => []CountExact
<1>1. IInv => CountExact
  BY DEF IInv
<1>. QED BY <1>1, Invariance, PTL

(***************************************************************************)
(* In the second pass a run that is neither waiting nor being asked for is *)
(* completely in the buffer.                                               *)
(***************************************************************************)
THEOREM ServedRunsAreFilled == Spec => []ServedRunsFilled
<1>1. IInv => ServedRunsFilled
  BY DEF IInv
<1>. QED BY <1>1, Invariance, PTL

-----------------------------------------------------------------------------
(***************************************************************************)
(* What one step does to the buffer when no two blocks share a hash.       *)
(***************************************************************************)
LEMMA StepPuts ==
  ASSUME StrongInjective, IInv, [Next]_vars
  PROVE  \E S \in SUBSET BlockIdx : PutsInPlace(S)
<1>1. StoreTypeOK /\ CountExact
  BY DEF IInv, TypeOK
<1>2. ASSUME UNCHANGED storeVars
      PROVE  \E S \in SUBSET BlockIdx : PutsInPlace(S)
  BY <1>1, <1>2, NothingPut
<1>3. ASSUME NEW r \in asked, NEW body \in Seq(Byte), NEW first \in {0, r[1]},
             FeedRun(r, body, first)
      PROVE  \E S \in SUBSET BlockIdx : PutsInPlace(S)
  <2>1. /\ Run(r) \subseteq BlockIdx /\ r[1] \in Nat /\ r[2] \in Nat
        /\ first \in Nat /\ first <= r[1]
    BY RunFacts DEF IInv
  <2>2. PICK D \in SUBSET BlockIdx : \E data \in [D -> Window] :
          acceptBlock(data) /\ \A i \in D : Strong(data[i]) = Checksum(i)
    BY <1>1, <1>3, <2>1, FeedRunFacts
  <2>. QED BY <1>1, <2>2, CheckedBlocksPut
<1>4. CASE FeedPart
  <2> DEFINE p == Head(parts)
  <2>1. p \in PartSet
    <3>1. parts # << >> /\ parts \in Seq(PartSet)
      BY <1>4 DEF FeedPart, IInv, TypeOK, PartSet
    <3>. QED BY <3>1, HeadTailProperties
  <2>2. p.body \in Seq(Byte)
    BY <2>1 DEF PartSet
  <2>3. CASE { r \in asked : StartByte(r) = p.start } = {}
    BY <1>2, <1>4, <2>3 DEF FeedPart
  <2>4. CASE { r \in asked : StartByte(r) = p.start } # {}
    <3>1. PICK r \in asked : FeedRun(r, p.body, r[1])
      BY <1>4, <2>4 DEF FeedPart
    <3>. QED BY <1>3, <2>2, <3>1
  <2>. QED BY <2>3, <2>4
<1>5. CASE \E rep \in Arrivals : OneRun(rep)
  <2>1. PICK rep \in Arrivals : OneRun(rep)
    BY <1>5
  <2>2. rep.body \in Seq(Byte)
    BY ArrivalType DEF IInv
  <2>3. PICK r \in asked : \E first \in {0, r[1]} : FeedRun(r, rep.body, first)
    BY <2>1 DEF OneRun
  <2>. QED BY <1>3, <2>2, <2>3
<1>6. CASE \/ Call \/ Ask \/ PassDone \/ PartsFed \/ UNCHANGED vars
           \/ \E rep \in Arrivals :
                Failover(rep) \/ Refused(rep) \/ InParts(rep) \/ FallBack(rep)
  <2>1. UNCHANGED storeVars
    BY <1>6 DEF Call, Ask, PassDone, PartsFed, Failover, Refused, InParts, FallBack,
                vars, storeVars
  <2>. QED BY <1>2, <2>1
<1>. QED BY <1>4, <1>5, <1>6 DEF Next, Receive

(***************************************************************************)
(* However wrong the answers are - short, from another file, in the wrong  *)
(* order, repeated - a filled block holds the target's bytes.              *)
(***************************************************************************)
THEOREM GotStaysTarget ==
  ASSUME StrongInjective
  PROVE  Spec => []GotIsTarget
<1>1. Init => GotIsTarget
  BY DEF Init, GotIsTarget
<1>2. GotIsTarget /\ IInv /\ [Next]_vars => GotIsTarget'
  <2>. SUFFICES ASSUME GotIsTarget, IInv, [Next]_vars PROVE GotIsTarget'
    OBVIOUS
  <2>1. PICK S \in SUBSET BlockIdx : PutsInPlace(S)
    BY StepPuts
  <2>. QED BY <2>1, PutKeepsTarget
<1>. QED BY <1>1, <1>2, Invariance, PTL DEF Spec

(***************************************************************************)
(* The download implements the reconstruction of the target.               *)
(***************************************************************************)
THEOREM Refinement ==
  ASSUME StrongInjective
  PROVE  Spec => ImplementsReconstruction
<1>1. Init => R!Init
  BY DEF Init, R!Init, R!Blocks, BlockIdx, NumBlocks, Offsets, Length
<1>2. GotIsTarget /\ IInv /\ [Next]_vars => [R!Next]_(R!vars)
  <2>. SUFFICES ASSUME GotIsTarget, IInv, [Next]_vars PROVE R!Next
    OBVIOUS
  <2>1. PICK S \in SUBSET BlockIdx : PutsInPlace(S)
    BY StepPuts
  <2>. QED BY <2>1, PutRefines
<1>. QED
  BY <1>1, <1>2, Invariance, GotStaysTarget, PTL
     DEF Spec, ImplementsReconstruction, R!Spec
-----------------------------------------------------------------------------
(***************************************************************************)
(* A download that ends well is complete when no mirror leaves parts out.  *)
(* The runs cover what is missing and no two start at the same block; a    *)
(* run that is neither waiting nor being asked for is in the buffer, in    *)
(* the first pass too; and while the parts of an answer are fed, each run  *)
(* asked for is in the buffer or has a part to come.                       *)
(***************************************************************************)
Honest == \A u \in 1 .. NumURLs : server[u] \cap Omitting = {}

Covered ==
  /\ \A r, q \in ranges : r[1] = q[1] => r = q
  /\ \A i \in BlockIdx \ got : \E r \in ranges : i \in Run(r)

HasPart(r, ps) == \E k \in 1 .. Len(ps) : ps[k].start = StartByte(r)

Served ==
  /\ pc # "call" => \A r \in ranges \ (todo \cup asked) : Run(r) \subseteq got
  /\ pc = "feed" => \A r \in asked : Run(r) \subseteq got \/ HasPart(r, parts)
  /\ pc = "ok" => todo \cup asked = {}

HInv == Covered /\ (Honest => Served)

LEMMA InitHInv == Init => HInv
<1>. SUFFICES ASSUME Init PROVE HInv
  OBVIOUS
<1>1. ranges = MissingRuns /\ pc = "call" /\ cf \in ControlFiles
  BY DEF Init
<1>2. ASSUME NEW i \in BlockIdx \ got PROVE \E r \in ranges : i \in Run(r)
  <2>1. PICK r \in MissingRuns : r[1] <= i /\ i < r[2]
    BY <1>1, RunsCover
  <2>2. i \in Int /\ r[1] \in Int /\ r[2] \in Int
    BY <1>1, BlockFacts DEF BlockIdx, MissingRuns
  <2>. QED BY <1>1, <2>1, <2>2 DEF Run
<1>3. \A r, q \in ranges : r[1] = q[1] => r = q
  BY <1>1, RunsApart
<1>. QED BY <1>1, <1>2, <1>3 DEF HInv, Covered, Served

\* In an answer in parts that omits none there is one for each run asked for.
LEMMA OrdersComplete ==
  ASSUME NEW f, NEW S, IsFiniteSet(S), NEW ps \in Orders(f, S), NEW r \in S
  PROVE  \E k \in 1 .. Cardinality(S) : ps[k] = Part(f, r)
<1>1. PICK n \in Nat : n = Cardinality(S)
  BY FS_CardinalityType
<1>2. PICK s \in [1 .. n -> S] :
        /\ ps = [k \in 1 .. n |-> Part(f, s[k])]
        /\ \A i, j \in DOMAIN s : s[i] = s[j] => i = j
  BY <1>1 DEF Orders
<1>3. s \in Injection(1 .. n, S)
  BY <1>2 DEF Injection, IsInjective
<1>4. Cardinality(1 .. n) = n
  BY FS_Interval
<1>5. s \in Surjection(1 .. n, S)
  BY <1>1, <1>3, <1>4, FS_Injection
<1>6. PICK k \in 1 .. n : s[k] = r
  BY <1>5 DEF Surjection
<1>. QED BY <1>1, <1>2, <1>6

LEMMA NothingOmitted ==
  ASSUME TypeOK, Honest, NEW rep \in Arrivals, rep.class = "multi", NEW r \in asked
  PROVE  HasPart(r, rep.parts)
<1>1. /\ pc = "wait" /\ Head(untried) \in 1 .. NumURLs
      /\ IsFiniteSet(asked) /\ asked \in SUBSET (Nat \X Nat) /\ cf \in ControlFiles
  BY ArrivalType, RunFacts
<1>2. PICK mode \in server[Head(untried)] : rep \in Answers(mode, asked)
  BY <1>1 DEF Arrivals
<1>3. mode \notin Omitting
  BY <1>1, <1>2 DEF Honest
<1>4. PICK ps \in PartLists(mode, asked) : rep = Reply("multi", << >>, ps)
  BY <1>2 DEF Answers, Plainly, Reply
<1>5. cf.target \in Seq(Byte) /\ Changed(cf.target) \in Seq(Byte)
  BY <1>1, BlockFacts, ChangedType
<1>6. ASSUME NEW f \in Seq(Byte), NEW os \in Orders(f, asked)
      PROVE  /\ os \in Seq(PartSet) /\ HasPart(r, os)
             /\ 1 \in 1 .. Len(os) /\ os[1] \in PartSet
  <2>1. os \in Seq(PartSet) /\ Len(os) = Cardinality(asked)
    BY <1>1, <1>6, OrdersType
  <2>2. PICK k \in 1 .. Len(os) : os[k] = Part(f, r)
    BY <1>1, <2>1, OrdersComplete
  <2>3. os[k].start = StartByte(r)
    BY <2>2 DEF Part
  <2>. QED BY <2>1, <2>3, ElementOfSeq, LenProperties DEF HasPart
<1>7. HasPart(r, ps)
  <2>1. CASE mode = "stale"
    BY <1>4, <1>5, <1>6, <2>1 DEF PartLists
  <2>2. CASE mode = "dup"
    <3>1. PICK os \in Orders(cf.target, asked) : ps = Append(os, os[1])
      BY <1>4, <2>2 DEF PartLists
    <3>2. os \in Seq(PartSet) /\ HasPart(r, os) /\ os[1] \in PartSet
      BY <1>5, <1>6
    <3>3. /\ Len(ps) = Len(os) + 1 /\ Len(os) \in Nat
          /\ \A k \in 1 .. Len(os) : ps[k] = os[k]
      BY <3>1, <3>2, AppendProperties, LenProperties
    <3>. QED BY <3>2, <3>3 DEF HasPart
  <2>3. CASE mode = "short"
    <3>1. PICK os \in Orders(cf.target, asked) : ps = [os EXCEPT ![1].body = ButLast(@)]
      BY <1>4, <2>3 DEF PartLists
    <3>2. os \in Seq(PartSet) /\ HasPart(r, os) /\ os[1] \in PartSet /\ 1 \in 1 .. Len(os)
      BY <1>5, <1>6
    <3>3. DOMAIN os = 1 .. Len(os) /\ Len(os) \in Nat
      BY <3>2, LenProperties
    <3>4. DOMAIN ps = 1 .. Len(os) /\ Len(ps) = Len(os)
      BY <3>1, <3>3
    <3>5. \A k \in 1 .. Len(os) : ps[k].start = os[k].start
      <4>1. \A k \in 1 .. Len(os) : os[k] \in PartSet
        BY <3>2, ElementOfSeq
      <4>. QED BY <3>1, <3>3, <4>1 DEF PartSet
    <3>. QED BY <3>2, <3>4, <3>5 DEF HasPart
  <2>4. CASE mode \notin {"stale", "dup", "short"}
    <3>1. PartLists(mode, asked) = Orders(cf.target, asked)
      BY <1>3, <2>4 DEF PartLists, Omitting
    <3>. QED BY <1>4, <1>5, <1>6, <3>1
  <2>. QED BY <2>1, <2>2, <2>3, <2>4
<1>. QED BY <1>4, <1>7 DEF Reply

(***************************************************************************)
(* The steps, those that leave the buffer alone first.                     *)
(***************************************************************************)
LEMMA CoveredStays ==
  ASSUME Covered, ranges' = ranges, cf' = cf, got \subseteq got'
  PROVE  Covered'
<1>1. BlockIdx' = BlockIdx
  BY DEF BlockIdx, NumBlocks, Length
<1>. QED BY <1>1 DEF Covered, Run

LEMMA HonestKeeping ==
  ASSUME IInv, HInv, Honest,
         Call \/ Ask \/ PassDone \/ PartsFed \/ UNCHANGED vars
  PROVE  Served'
<1>1. got' = got /\ cf' = cf /\ ranges' = ranges /\ Served /\ Covered
  BY DEF Call, Ask, PassDone, PartsFed, vars, storeVars, fetchVars, HInv
<1>2. CASE Call
  BY <1>1, <1>2 DEF Call, Served, IInv, Bookkeeping
<1>3. CASE Ask
  <2>1. PICK c \in SUBSET todo : asked' = c /\ todo' = todo \ c
    BY <1>3 DEF Ask
  <2>2. pc = "ask" /\ pc' = "wait" /\ asked = {}
    BY <1>3 DEF Ask, IInv, Bookkeeping
  <2>3. todo' \cup asked' = todo \cup asked
    BY <2>1, <2>2
  <2>. QED BY <1>1, <2>2, <2>3 DEF Served, Run
<1>4. CASE PassDone
  BY <1>1, <1>4 DEF PassDone, Served, IInv, Bookkeeping
<1>5. CASE PartsFed
  <2>1. \A r \in asked : Run(r) \subseteq got
    BY <1>1, <1>5, LenProperties DEF PartsFed, Served, HasPart
  <2>. QED BY <1>1, <1>5, <2>1 DEF PartsFed, Served
<1>6. CASE UNCHANGED vars
  BY <1>1, <1>6 DEF vars, fetchVars, storeVars, Served, HasPart
<1>. QED BY <1>2, <1>3, <1>4, <1>5, <1>6

LEMMA HonestAnswers ==
  ASSUME IInv, HInv, Honest, IInv', NEW rep \in Arrivals, Receive(rep)
  PROVE  Served'
<1>1. pc = "wait" /\ ranges' = ranges /\ Served /\ asked # {}
  BY ArrivalType DEF Receive, Failover, Refused, InParts, FallBack, OneRun, HInv, IInv
<1>2. CASE Failover(rep) \/ Refused(rep)
  BY <1>1, <1>2 DEF Failover, Refused, storeVars, Served
<1>3. CASE InParts(rep)
  <2>1. \A r \in asked : HasPart(r, rep.parts)
    BY <1>3, NothingOmitted DEF InParts, IInv
  <2>. QED BY <1>1, <1>3, <2>1 DEF InParts, storeVars, Served
<1>4. CASE FallBack(rep)
  BY <1>1, <1>4 DEF FallBack, Served
<1>5. CASE OneRun(rep)
  BY <1>1, <1>5 DEF OneRun, IInv, ServedRunsFilled, Served
<1>. QED BY <1>2, <1>3, <1>4, <1>5 DEF Receive

LEMMA HonestFeeding ==
  ASSUME IInv, HInv, Honest, FeedPart
  PROVE  Served'
<1> DEFINE p    == Head(parts)
           want == { r \in asked : StartByte(r) = p.start }
<1>1. /\ pc = "feed" /\ parts # << >> /\ parts \in Seq(PartSet)
      /\ parts' = Tail(parts) /\ pc' \in {"feed", "err"}
      /\ UNCHANGED <<ranges, todo, asked>>
      /\ StoreTypeOK /\ CountExact /\ Served /\ Covered /\ asked \subseteq ranges
  BY DEF FeedPart, IInv, TypeOK, PartSet, HInv
<1>2. p = parts[1] /\ p \in PartSet /\ Len(parts) \in Nat /\ Len(parts') = Len(parts) - 1
      /\ \A k \in 1 .. Len(parts) - 1 : parts'[k] = parts[k + 1]
  BY <1>1, HeadTailProperties, LenProperties
<1>3. CASE want = {}
  <2>1. got' = got /\ pc' = pc /\ \A r \in asked : StartByte(r) # p.start
    BY <1>3 DEF FeedPart, storeVars
  <2>2. ASSUME NEW r \in asked, HasPart(r, parts) PROVE HasPart(r, parts')
    <3>1. PICK k \in 1 .. Len(parts) : parts[k].start = StartByte(r)
      BY <2>2 DEF HasPart
    <3>2. k # 1
      BY <1>2, <2>1, <3>1
    <3>3. k - 1 \in 1 .. Len(parts') /\ parts'[k - 1] = parts[k]
      BY <1>2, <3>2
    <3>. QED BY <3>1, <3>3 DEF HasPart
  <2>. QED BY <1>1, <2>1, <2>2 DEF Served, HasPart
<1>4. CASE want # {}
  <2>1. PICK r \in want :
          /\ FeedRun(r, p.body, r[1])
          /\ pc' = IF Rejected(r, p.body, r[1]) = {} THEN pc ELSE "err"
    BY <1>4 DEF FeedPart
  <2>2. Run(r) \subseteq BlockIdx /\ r[1] \in Nat /\ r[2] \in Nat
    BY RunFacts DEF IInv
  <2>3. p.body \in Seq(Byte)
    BY <1>2 DEF PartSet
  <2>4. /\ got \subseteq got'
        /\ pc' = "feed" => Run(r) \subseteq got'
    BY <1>1, <2>1, <2>2, <2>3, FeedRunFacts
  <2>5. ASSUME pc' = "feed", NEW q \in asked, HasPart(q, parts)
        PROVE  Run(q) \subseteq got' \/ HasPart(q, parts')
    <3>1. PICK k \in 1 .. Len(parts) : parts[k].start = StartByte(q)
      BY <2>5 DEF HasPart
    <3>2. CASE k = 1
      <4>1. q[1] * Blocksize = r[1] * Blocksize /\ q[1] \in Nat
        BY <1>2, <3>1, <3>2, RunFacts DEF StartByte, IInv
      <4>2. \A a \in Nat, b \in Nat, c \in Nat \ {0} : a * c = b * c => a = b
        OBVIOUS
      <4>3. q[1] = r[1]
        BY <2>2, <4>1, <4>2, StoreAssumption
      <4>4. q = r
        BY <1>1, <4>3 DEF Covered
      <4>. QED BY <2>4, <2>5, <4>4
    <3>3. CASE k # 1
      <4>1. k - 1 \in 1 .. Len(parts') /\ parts'[k - 1] = parts[k]
        BY <1>2, <3>3
      <4>. QED BY <3>1, <4>1 DEF HasPart
    <3>. QED BY <3>2, <3>3
  <2>6. \A q \in asked : pc' = "feed" => Run(q) \subseteq got' \/ HasPart(q, parts')
    BY <1>1, <2>4, <2>5 DEF Served
  <2>7. \A q \in ranges \ (todo \cup asked) : Run(q) \subseteq got'
    BY <1>1, <2>4 DEF Served
  <2>. QED BY <1>1, <2>6, <2>7 DEF Served, HasPart, Run, StartByte
<1>. QED BY <1>3, <1>4

LEMMA RunsServed == Spec => []HInv
<1>1. Init => HInv
  BY InitHInv
<1>2. IInv /\ IInv' /\ HInv /\ [Next]_vars => HInv'
  <2>. SUFFICES ASSUME IInv, IInv', HInv, [Next]_vars PROVE HInv'
    OBVIOUS
  <2>1. ranges' = ranges /\ server' = server /\ cf' = cf /\ got \subseteq got'
    BY DEF Next, Call, Ask, PassDone, PartsFed, FeedPart, Receive, Failover, Refused,
           InParts, FallBack, OneRun, FeedRun, acceptBlock, vars, storeVars, fetchVars
  <2>2. Covered'
    BY <2>1, CoveredStays DEF HInv
  <2>3. Honest' => Honest
    BY <2>1 DEF Honest
  <2>4. Honest => Served'
    BY HonestKeeping, HonestAnswers, HonestFeeding DEF Next
  <2>. QED BY <2>2, <2>3, <2>4 DEF HInv
<1>. QED BY <1>1, <1>2, Invariance, PTL DEF Spec

(***************************************************************************)
(* If no mirror leaves out parts, a download that succeeds leaves nothing  *)
(* missing: whatever else the mirrors do wrong, with any number of runs    *)
(* and mirrors, in either pass.                                            *)
(***************************************************************************)
THEOREM HonestSuccess == Spec => []HonestSuccessIsComplete
<1>1. IInv /\ HInv => HonestSuccessIsComplete
  <2>. SUFFICES ASSUME IInv, HInv, Honest, pc = "ok" PROVE got = BlockIdx
    BY DEF HonestSuccessIsComplete, SuccessIsComplete, Honest
  <2>1. \A r \in ranges : Run(r) \subseteq got
    BY DEF HInv, Served
  <2>2. BlockIdx \subseteq got
    BY <2>1 DEF HInv, Covered
  <2>. QED BY <2>2 DEF IInv, TypeOK, StoreTypeOK
<1>. QED BY <1>1, Invariance, RunsServed, PTL
-----------------------------------------------------------------------------
(***************************************************************************)
(* A good mirror is enough.  The bytes of the target that are asked for    *)
(* pass every check, whether they come as a slice or in a whole file.      *)
(***************************************************************************)
LEMMA BlockPasses ==
  ASSUME cf \in ControlFiles, NEW i \in BlockIdx
  PROVE  Verdict(i, Block(i)) = ""
<1>1. Len(Block(i)) = Blocksize
  BY StoreAssumption DEF Block
<1>. QED BY <1>1 DEF Verdict, Checksum

\* Block i starts in the target, and ends within any run that it is in.
LEMMA BlockStarts ==
  ASSUME cf \in ControlFiles, NEW i \in BlockIdx
  PROVE  i * Blocksize \in Nat /\ i * Blocksize < Length
<1> DEFINE b == Blocksize
           n == NumBlocks
<1>1. b \in Nat \ {0} /\ n \in Nat /\ Length \in Nat /\ n = (Length + b - 1) \div b
      /\ i \in Nat /\ i + 1 <= n
  BY BlockFacts, StoreAssumption DEF BlockIdx, NumBlocks
<1>2. n * b <= Length + b - 1
  <2>. HIDE DEF b
  <2>1. \A l \in Nat, c \in Nat \ {0} : ((l + c - 1) \div c) * c <= l + c - 1
    OBVIOUS
  <2>. QED BY <1>1, <2>1
<1>3. \A p \in Nat, q \in Nat, c \in Nat : p <= q => p * c <= q * c /\ p * c \in Nat /\ q * c \in Nat
  OBVIOUS
<1>4. (i + 1) * b = i * b + b /\ i * b \in Nat
  BY <1>1
<1>5. (i + 1) * b <= n * b /\ n * b \in Nat
  BY <1>1, <1>3
<1>. HIDE DEF b, n
<1>6. i * b \in Nat /\ i * b < Length
  BY <1>1, <1>2, <1>4, <1>5
<1>. QED BY <1>6 DEF b

\* Block i passes its checks when it is read off bytes into body.
Passes(i, body, off) == off < Len(body) /\ Verdict(i, Payload(body, off)) = ""

LEMMA NoneRejected ==
  ASSUME NEW r, NEW body \in Seq(Byte), NEW first \in Nat,
         \A i \in Run(r) : \E off \in Nat :
           off = (i - first) * Blocksize /\ Passes(i, body, off)
  PROVE  Rejected(r, body, first) = {}
<1>1. ASSUME NEW i \in Rejected(r, body, first) PROVE FALSE
  <2>1. /\ i \in Run(r)
        /\ \/ (i - first) * Blocksize >= Len(body)
           \/ Verdict(i, Payload(body, (i - first) * Blocksize)) # ""
    BY Zenon DEF Rejected
  <2>2. PICK off \in Nat : off = (i - first) * Blocksize /\ Passes(i, body, off)
    BY <2>1
  <2>3. off >= Len(body) /\ off < Len(body)
    BY <2>1, <2>2, Zenon DEF Passes
  <2>. QED BY <2>3, LenProperties
<1>. QED BY <1>1, Zenon

LEMMA WholeFilePasses ==
  ASSUME cf \in ControlFiles, NEW r, Run(r) \subseteq BlockIdx
  PROVE  Rejected(r, cf.target, 0) = {}
<1>1. cf.target \in Seq(Byte)
  BY BlockFacts
<1>2. ASSUME NEW i \in Run(r)
      PROVE  \E off \in Nat : off = (i - 0) * Blocksize /\ Passes(i, cf.target, off)
  <2>1. i \in BlockIdx /\ i \in Nat
    BY BlockFacts DEF BlockIdx
  <2>2. PICK off \in Nat : off = i * Blocksize /\ off < Length
    BY <2>1, BlockStarts
  <2>3. Payload(cf.target, off) = Block(i)
    BY <2>2 DEF Payload, Block, Length
  <2>4. i - 0 = i
    BY <2>1
  <2>5. Passes(i, cf.target, off)
    BY <2>1, <2>2, <2>3, BlockPasses DEF Length, Passes
  <2>. QED BY <2>2, <2>4, <2>5
<1>. QED BY <1>1, <1>2, NoneRejected

LEMMA SlicePasses ==
  ASSUME cf \in ControlFiles, NEW a \in Nat, NEW e \in Nat, Run(<<a, e>>) \subseteq BlockIdx
  PROVE  Rejected(<<a, e>>, Slice(cf.target, <<a, e>>), a) = {}
<1> DEFINE b == Blocksize
           t == cf.target
           s == Slice(t, <<a, e>>)
<1>1. b \in Nat \ {0} /\ Length \in Nat /\ Len(t) = Length /\ t \in Seq(Byte)
  BY BlockFacts, StoreAssumption DEF Length
<1>2. PICK m \in Nat : m = a * b
  BY <1>1
<1>3. PICK n \in Nat : n = e * b
  BY <1>1
<1>4. PICK l \in Nat : l = IF n < Length THEN n ELSE Length
  BY <1>1, <1>3
<1>5. s = SubSeq(t, m + 1, l)
  BY <1>1, <1>2, <1>3, <1>4 DEF Slice, StartByte, EndByte
<1>6. ASSUME NEW i \in Run(<<a, e>>)
      PROVE  \E off \in Nat : off = (i - a) * Blocksize /\ Passes(i, s, off)
  <2>1. i \in BlockIdx /\ i \in Nat /\ a <= i /\ i + 1 <= e
    BY BlockFacts DEF BlockIdx, Run
  <2>2. PICK y \in Nat : y = i * b /\ y < Length
    BY <2>1, BlockStarts
  <2>3. m <= y /\ y + b <= n
    <3>1. \A p \in Nat, q \in Nat, c \in Nat : p <= q => p * c <= q * c
      OBVIOUS
    <3>2. (i + 1) * b = i * b + b
      BY <1>1, <2>1
    <3>3. a * b <= i * b /\ (i + 1) * b <= e * b
      <4>. HIDE DEF b
      <4>. QED BY <1>1, <2>1, <3>1
    <3>. HIDE DEF b
    <3>. QED BY <1>1, <1>2, <1>3, <2>2, <3>2, <3>3
  <2>4. (i - a) * b = y - m
    <3>1. (i - a) * b = i * b - a * b
      BY <1>1, <2>1
    <3>. HIDE DEF b
    <3>. QED BY <1>2, <2>2, <3>1
  <2>5. y < l /\ m <= l /\ l <= Length
    BY <1>1, <1>4, <2>2, <2>3
  <2>6. /\ Len(s) = l - m
        /\ \A k \in 1 .. l - m : s[k] = t[m + k]
    <3>1. \A k \in m + 1 .. l : t[k] \in Byte
      BY <1>1, <2>5
    <3>2. /\ Len(SubSeq(t, m + 1, l)) = l - m
          /\ \A k \in 1 .. l - m : SubSeq(t, m + 1, l)[k] = t[m + k]
      <4>1. \A k \in 1 .. l - m : (m + 1) + k - 1 = m + k
        BY <2>5
      <4>2. Len(SubSeq(t, m + 1, l)) = l - (m + 1) + 1
        BY <2>5, <3>1, SubSeqProperties
      <4>. QED BY <2>5, <4>1, <4>2
    <3>. HIDE DEF s
    <3>. QED BY <1>5, <3>2
  <2>7. Payload(s, y - m) = Block(i)
    <3>. HIDE DEF s
    <3>1. ASSUME NEW k \in 1 .. b
          PROVE  (IF (y - m) + k <= Len(s) THEN s[(y - m) + k] ELSE 0)
                   = IF y + k <= Length THEN t[y + k] ELSE 0
      <4>1. y + k <= Length <=> (y - m) + k <= l - m
        BY <1>1, <1>4, <2>3, <2>5
      <4>2. ASSUME (y - m) + k <= l - m PROVE s[(y - m) + k] = t[y + k]
        <5>1. PICK j \in 1 .. l - m : j = (y - m) + k
          BY <1>1, <2>3, <2>5, <4>2
        <5>2. m + j = y + k
          BY <1>1, <5>1
        <5>. QED BY <2>6, <5>1, <5>2
      <4>. QED BY <2>6, <4>1, <4>2
    <3>. QED BY <2>2, <3>1 DEF Payload, Block
  <2>8. y - m \in Nat /\ y - m < Len(s)
    <3>. HIDE DEF s
    <3>. QED BY <2>3, <2>5, <2>6
  <2>9. Passes(i, s, y - m)
    <3>. HIDE DEF s
    <3>. QED BY <2>1, <2>7, <2>8, BlockPasses DEF Passes
  <2>. HIDE DEF s
  <2>. QED BY <2>4, <2>8, <2>9
<1>7. s \in Seq(Byte)
  BY <1>1, SliceType
<1>. HIDE DEF s
<1>8. Rejected(<<a, e>>, s, a) = {}
  BY <1>6, <1>7, NoneRejected
<1>. QED BY <1>8 DEF s


(***************************************************************************)
(* What makes up an answer of a good mirror: the target, a run asked for,  *)
(* or parts each of which is a run asked for.                              *)
(***************************************************************************)
TargetParts(ps) == \A k \in 1 .. Len(ps) : \E r \in asked : ps[k] = Part(cf.target, r)

LEMMA GoodParts ==
  ASSUME TypeOK, asked # {}, NEW mode \in {"multi", "dup"},
         NEW ps \in PartLists(mode, asked)
  PROVE  TargetParts(ps)
<1>1. /\ IsFiniteSet(asked) /\ asked \in SUBSET (Nat \X Nat)
      /\ cf.target \in Seq(Byte)
  BY RunFacts, BlockFacts
<1>2. PICK n \in Nat : n = Cardinality(asked) /\ n # 0
  BY <1>1, FS_CardinalityType, FS_EmptySet
<1>3. ASSUME NEW os \in Orders(cf.target, asked)
      PROVE  /\ os \in Seq(PartSet) /\ Len(os) = n
             /\ \A k \in 1 .. n : \E r \in asked : os[k] = Part(cf.target, r)
  <2>1. os \in Seq(PartSet) /\ Len(os) = n
    BY <1>1, <1>2, <1>3, OrdersType
  <2>2. PICK s \in [1 .. n -> asked] : os = [k \in 1 .. n |-> Part(cf.target, s[k])]
    BY <1>2, <1>3 DEF Orders
  <2>. QED BY <2>1, <2>2
<1>4. CASE mode = "multi"
  BY <1>3, <1>4 DEF PartLists, TargetParts
<1>5. CASE mode = "dup"
  <2>1. PICK os \in Orders(cf.target, asked) : ps = Append(os, os[1])
    BY <1>5 DEF PartLists
  <2>2. /\ os \in Seq(PartSet) /\ Len(os) = n
        /\ \A k \in 1 .. n : \E r \in asked : os[k] = Part(cf.target, r)
    BY <1>3
  <2>3. os[1] \in PartSet
    BY <1>2, <2>2, ElementOfSeq
  <2>4. /\ Len(ps) = n + 1 /\ ps[n + 1] = os[1]
        /\ \A k \in 1 .. n : ps[k] = os[k]
    BY <2>1, <2>2, <2>3, AppendProperties
  <2>5. \A k \in 1 .. n + 1 : k \in 1 .. n \/ k = n + 1
    OBVIOUS
  <2>6. 1 \in 1 .. n
    BY <1>2
  <2>. QED BY <2>2, <2>4, <2>5, <2>6 DEF TargetParts
<1>. QED BY <1>4, <1>5

LEMMA GoodAnswer ==
  ASSUME TypeOK, asked # {}, NEW mode \in Good, NEW rep \in Answers(mode, asked)
  PROVE  /\ rep.class \in {"whole", "single", "multi"}
         /\ rep.class = "whole" => rep.body = cf.target
         /\ rep.class = "single" => \E r \in asked : rep.body = Slice(cf.target, r)
         /\ rep.class = "multi" => TargetParts(rep.parts)
<1>1. CASE mode = "plain"
  <2>1. rep = Reply("whole", cf.target, << >>)
    BY <1>1 DEF Answers, Plainly
  <2>. QED BY <2>1 DEF Reply
<1>2. CASE mode # "plain" /\ (mode = "single" \/ Cardinality(asked) = 1)
  <2>1. PICK r \in asked : rep = Reply("single", Body(mode, r), << >>)
    BY <1>2 DEF Answers, Good
  <2>2. Body(mode, r) = Slice(cf.target, r)
    BY DEF Body, Good
  <2>. QED BY <2>1, <2>2 DEF Reply
<1>3. CASE mode \notin {"plain", "single"} /\ Cardinality(asked) # 1
  <2>1. mode \in {"multi", "dup"}
    BY <1>3 DEF Good
  <2>2. PICK ps \in PartLists(mode, asked) : rep = Reply("multi", << >>, ps)
    BY <1>3, <2>1 DEF Answers
  <2>. QED BY <2>1, <2>2, GoodParts DEF Reply
<1>. QED BY <1>1, <1>2, <1>3

(***************************************************************************)
(* While an answer is awaited a good mirror is left to ask; the one that a *)
(* pass has settled on is good; and the parts still to be fed are runs of  *)
(* the target that were asked for.                                         *)
(***************************************************************************)
GoodLeft == \E k \in 1 .. Len(untried) : server[untried[k]] \subseteq Good

GoodSoFar ==
  /\ pc # "err"
  /\ pc = "wait" => GoodLeft
  /\ sticky # 0 => server[sticky] \subseteq Good
  /\ pc = "feed" => TargetParts(parts)

GInv == GoodFarm => GoodSoFar

LEMMA GoodArrival ==
  ASSUME IInv, GoodFarm, NEW rep \in Arrivals
  PROVE  \/ rep.class = "fail" /\ ~ server[Head(untried)] \subseteq Good
         \/ /\ server[Head(untried)] \subseteq Good
            /\ rep.class \in {"whole", "single", "multi"}
            /\ rep.class = "whole" => rep.body = cf.target
            /\ rep.class = "single" => \E r \in asked : rep.body = Slice(cf.target, r)
            /\ rep.class = "multi" => TargetParts(rep.parts)
<1>1. pc = "wait" /\ asked # {} /\ Head(untried) \in 1 .. NumURLs
  BY ArrivalType DEF IInv
<1>2. PICK mode \in server[Head(untried)] : rep \in Answers(mode, asked)
  BY <1>1 DEF Arrivals
<1>3. CASE server[Head(untried)] \subseteq Good
  BY <1>1, <1>2, <1>3, GoodAnswer DEF IInv
<1>4. CASE server[Head(untried)] = {"down"}
  <2>1. rep = Reply("fail", << >>, << >>)
    BY <1>2, <1>4 DEF Answers, Plainly
  <2>. QED BY <1>4, <2>1 DEF Reply, Good
<1>. QED BY <1>1, <1>3, <1>4 DEF GoodFarm

(***************************************************************************)
(* The steps, those that ask first.                                        *)
(***************************************************************************)
LEMMA GoodKeeping ==
  ASSUME IInv, GoodFarm, GoodSoFar, Call \/ PassDone \/ PartsFed \/ UNCHANGED vars
  PROVE  GoodSoFar'
<1>1. CASE Call
  <2>1. NumURLs # 0
    BY DEF GoodFarm
  <2>. QED BY <1>1, <2>1 DEF Call, GoodSoFar
<1>2. CASE PassDone \/ PartsFed
  BY <1>2 DEF PassDone, PartsFed, GoodSoFar
<1>3. CASE UNCHANGED vars
  BY <1>3 DEF vars, fetchVars, storeVars, GoodSoFar, GoodLeft, TargetParts, Part, Slice,
              StartByte, EndByte
<1>. QED BY <1>1, <1>2, <1>3

LEMMA GoodAsking ==
  ASSUME IInv, GoodFarm, GoodSoFar, Ask
  PROVE  GoodSoFar'
<1>1. /\ pc' = "wait" /\ untried' = Mirrors /\ server' = server /\ sticky' = sticky
      /\ sticky \in 0 .. NumURLs /\ NumURLs \in Nat
  BY FetchAssumption DEF Ask, IInv, TypeOK
<1>2. GoodLeft'
  <2>1. CASE sticky = 0
    <3>1. PICK u \in 1 .. NumURLs : server[u] \subseteq Good
      BY DEF GoodFarm
    <3>2. untried' = [i \in 1 .. NumURLs |-> i]
      BY <1>1, <2>1 DEF Mirrors
    <3>3. untried' \in [1 .. NumURLs -> 1 .. NumURLs] /\ untried' \in Seq(1 .. NumURLs)
      BY <1>1, <3>2
    <3>4. Len(untried') = NumURLs
      BY <1>1, <3>3, LenProperties
    <3>5. untried'[u] = u
      BY <3>2
    <3>. QED BY <1>1, <3>1, <3>4, <3>5 DEF GoodLeft
  <2>2. CASE sticky # 0
    <3>1. untried' = <<sticky>>
      BY <1>1, <2>2 DEF Mirrors
    <3>2. Len(untried') = 1 /\ untried'[1] = sticky /\ 1 \in 1 .. 1
      BY <3>1
    <3>. QED BY <1>1, <2>2, <3>2 DEF GoodLeft, GoodSoFar
  <2>. QED BY <2>1, <2>2
<1>. QED BY <1>1, <1>2 DEF GoodSoFar

LEMMA GoodFeeding ==
  ASSUME IInv, HInv, GoodFarm, GoodSoFar, FeedPart
  PROVE  GoodSoFar'
<1> DEFINE p    == Head(parts)
           want == { r \in asked : StartByte(r) = p.start }
<1>1. /\ pc = "feed" /\ parts # << >> /\ parts \in Seq(PartSet)
      /\ parts' = Tail(parts) /\ asked' = asked /\ server' = server /\ sticky' = sticky
      /\ StoreTypeOK /\ Covered /\ asked \subseteq ranges /\ TargetParts(parts)
      /\ cf \in ControlFiles /\ cf' = cf
  BY DEF FeedPart, FeedRun, acceptBlock, storeVars, IInv, TypeOK, StoreTypeOK, PartSet,
         HInv, GoodSoFar
<1>2. p = parts[1] /\ Len(parts) \in Nat /\ Len(parts) # 0 /\ Len(parts') = Len(parts) - 1
      /\ \A k \in 1 .. Len(parts) - 1 : parts'[k] = parts[k + 1]
  BY <1>1, HeadTailProperties, LenProperties
<1>3. TargetParts(parts)'
  <2>1. \A k \in 1 .. Len(parts') : k + 1 \in 1 .. Len(parts) /\ parts'[k] = parts[k + 1]
    BY <1>2
  <2>2. \A k \in 1 .. Len(parts') : \E r \in asked : parts'[k] = Part(cf.target, r)
    BY <1>1, <2>1, Zenon DEF TargetParts
  <2>. QED BY <1>1, <2>2 DEF TargetParts, Part, Slice, StartByte, EndByte
<1>4. pc' = "feed"
  <2>1. CASE want = {}
    BY <1>1, <2>1 DEF FeedPart
  <2>2. CASE want # {}
    <3>1. PICK r \in want : pc' = IF Rejected(r, p.body, r[1]) = {} THEN pc ELSE "err"
      BY <2>2 DEF FeedPart
    <3>2. PICK q \in asked : p = Part(cf.target, q)
      <4>1. 1 \in 1 .. Len(parts)
        BY <1>2
      <4>. QED BY <1>1, <1>2, <4>1 DEF TargetParts
    <3>3. /\ \A x \in asked : x[1] \in Nat /\ x[2] \in Nat /\ Run(x) \subseteq BlockIdx
          /\ asked \subseteq Nat \X Nat
      BY <1>1, RunFacts DEF IInv
    <3>4. q = r
      <4>1. q[1] * Blocksize = r[1] * Blocksize
        BY <3>2 DEF Part, StartByte
      <4>2. \A a \in Nat, b \in Nat, c \in Nat \ {0} : a * c = b * c => a = b
        OBVIOUS
      <4>3. q[1] = r[1]
        BY <3>3, <4>1, <4>2, StoreAssumption
      <4>. QED BY <1>1, <4>3 DEF Covered
    <3>5. PICK a \in Nat, e \in Nat : r = <<a, e>>
      BY <3>3
    <3>6. Rejected(r, p.body, r[1]) = {}
      BY <1>1, <3>2, <3>3, <3>4, <3>5, SlicePasses DEF Part
    <3>. QED BY <1>1, <3>1, <3>6
  <2>. QED BY <2>1, <2>2
<1>. QED BY <1>1, <1>3, <1>4 DEF GoodSoFar

LEMMA GoodAnswers ==
  ASSUME IInv, GoodFarm, GoodSoFar, NEW rep \in Arrivals, Receive(rep)
  PROVE  GoodSoFar'
<1>1. /\ pc = "wait" /\ asked # {} /\ untried # << >> /\ untried \in Seq(1 .. NumURLs)
      /\ server' = server /\ GoodLeft /\ StoreTypeOK /\ cf \in ControlFiles
      /\ sticky # 0 => server[sticky] \subseteq Good
  BY ArrivalType DEF Receive, Failover, Refused, InParts, FallBack, OneRun, IInv, TypeOK,
                     StoreTypeOK, GoodSoFar
<1>2. /\ Head(untried) = untried[1] /\ Len(untried) \in Nat
      /\ Tail(untried) \in Seq(1 .. NumURLs) /\ Len(Tail(untried)) = Len(untried) - 1
      /\ \A k \in 1 .. Len(untried) - 1 : Tail(untried)[k] = untried[k + 1]
  BY <1>1, HeadTailProperties, LenProperties
<1>3. CASE Failover(rep)
  <2>1. ~ server[untried[1]] \subseteq Good
    BY <1>2, <1>3, GoodArrival DEF Failover
  <2>2. PICK k \in 1 .. Len(untried) : server[untried[k]] \subseteq Good
    BY <1>1 DEF GoodLeft
  <2>3. k - 1 \in 1 .. Len(Tail(untried)) /\ server[Tail(untried)[k - 1]] \subseteq Good
    BY <1>2, <2>1, <2>2
  <2>4. untried' = Tail(untried) /\ Tail(untried) # << >>
    <3>1. Len(Tail(untried)) # 0
      BY <1>2, <2>3
    <3>2. Len(<< >>) = 0
      OBVIOUS
    <3>. QED BY <1>3, <3>1, <3>2, Zenon DEF Failover
  <2>5. GoodLeft'
    BY <1>1, <2>3, <2>4 DEF GoodLeft
  <2>6. pc' = "wait" /\ sticky' = sticky
    BY <1>3, <2>4 DEF Failover
  <2>. QED BY <1>1, <2>5, <2>6 DEF GoodSoFar
<1>4. CASE Refused(rep)
  BY <1>4, GoodArrival DEF Refused
<1>5. CASE InParts(rep)
  <2>1. server[Head(untried)] \subseteq Good /\ TargetParts(rep.parts)
    BY <1>5, GoodArrival DEF InParts
  <2>2. /\ sticky' = Head(untried) /\ parts' = rep.parts /\ pc' = "feed"
        /\ asked' = asked /\ cf' = cf
    BY <1>5 DEF InParts, storeVars
  <2>3. TargetParts(parts)'
    BY <2>1, <2>2 DEF TargetParts, Part, Slice, StartByte, EndByte
  <2>. QED BY <1>1, <2>1, <2>2, <2>3 DEF GoodSoFar
<1>6. CASE FallBack(rep)
  BY <1>6 DEF FallBack, GoodSoFar
<1>7. CASE OneRun(rep)
  <2>1. /\ server[Head(untried)] \subseteq Good /\ sticky' = Head(untried)
        /\ rep.class \in {"whole", "single"} /\ \A q, r \in asked : q = r
        /\ rep.class = "whole" => rep.body = cf.target
        /\ rep.class = "single" => \E r \in asked : rep.body = Slice(cf.target, r)
    BY <1>7, GoodArrival DEF OneRun, IInv, Bookkeeping
  <2>2. PICK r \in asked :
          pc' = IF Rejected(r, rep.body,
                     IF rep.class = "whole" /\ Len(rep.body) = Length THEN 0 ELSE r[1]) = {}
                THEN "ask" ELSE "err"
    BY <1>7 DEF OneRun
  <2>3. Run(r) \subseteq BlockIdx /\ asked \subseteq Nat \X Nat
    BY RunFacts DEF IInv
  <2>4. pc' = "ask"
    <3>1. CASE rep.class = "whole"
      <4>1. rep.body = cf.target /\ Len(rep.body) = Length
        BY <2>1, <3>1 DEF Length
      <4>2. Rejected(r, cf.target, 0) = {}
        BY <1>1, <2>3, WholeFilePasses
      <4>. QED BY <2>2, <3>1, <4>1, <4>2
    <3>2. CASE rep.class = "single"
      <4>1. rep.body = Slice(cf.target, r)
        BY <2>1, <3>2
      <4>2. PICK a \in Nat, e \in Nat : r = <<a, e>>
        BY <2>3
      <4>3. Rejected(r, rep.body, r[1]) = {}
        BY <1>1, <2>3, <4>1, <4>2, SlicePasses
      <4>. QED BY <2>2, <3>2, <4>3
    <3>. QED BY <2>1, <3>1, <3>2
  <2>. QED BY <1>1, <2>1, <2>4 DEF GoodSoFar
<1>. QED BY <1>3, <1>4, <1>5, <1>6, <1>7 DEF Receive

(***************************************************************************)
(* With mirrors that are good or down, at least one of them good, a        *)
(* download never gives up: in whatever order the list has them, whatever  *)
(* runs are missing, and whichever of the forms it may choose from a good  *)
(* mirror answers in, another one each time if it likes.                   *)
(***************************************************************************)
THEOREM GoodMirrorIsEnough == Spec => []GoodMirrorNoError
<1>1. Init => GInv
  BY DEF Init, GInv, GoodSoFar
<1>2. IInv /\ HInv /\ GInv /\ [Next]_vars => GInv'
  <2>. SUFFICES ASSUME IInv, HInv, GInv, [Next]_vars, GoodFarm' PROVE GoodSoFar'
    BY DEF GInv
  <2>1. server' = server
    BY DEF Next, Call, Ask, PassDone, PartsFed, FeedPart, Receive, Failover, Refused,
           InParts, FallBack, OneRun, vars, fetchVars
  <2>2. GoodFarm /\ GoodSoFar
    BY <2>1 DEF GoodFarm, GInv
  <2>. QED BY <2>2, GoodKeeping, GoodAsking, GoodFeeding, GoodAnswers DEF Next
<1>3. GInv => GoodMirrorNoError
  BY DEF GInv, GoodSoFar, GoodMirrorNoError
<1>. QED BY <1>1, <1>2, <1>3, Invariance, RunsServed, PTL DEF Spec
-----------------------------------------------------------------------------
(***************************************************************************)
(* The number of requests.  What may still be sent in this pass: one       *)
(* request for each chunk that is left (in the second pass, for each run), *)
(* and one for each mirror but the last that may turn out to be down while *)
(* the pass has not settled on one.  A first pass may have a second one    *)
(* after it.  What is sent and what may still be never exceed the budget.  *)
(***************************************************************************)
Chunks(n) == (n + MaxRanges - 1) \div MaxRanges

Units(n) == IF pass = "batch" THEN Chunks(n) ELSE n

Ahead ==
  CASE pc = "ask"  -> (IF sticky = 0 THEN NumURLs - 1 ELSE 0) + Units(Cardinality(todo))
    [] pc = "wait" -> Len(untried) + Units(Cardinality(todo))
    [] pc = "feed" -> Units(Cardinality(todo))
    [] OTHER       -> 0

SecondPass == IF pass = "batch" THEN NumURLs - 1 + Cardinality(ranges) ELSE 0

Budget ==
  LET n == Cardinality(ranges)
  IN  IF n > 1 THEN 2 * (NumURLs - 1) + Chunks(n) + n ELSE NumURLs - 1 + n

BInv ==
  /\ pc = "call" => sticky = 0 /\ sent = 0
  /\ pc = "feed" => sticky # 0
  /\ pc # "call" => sent + Ahead + SecondPass <= Budget

LEMMA QuotientUnique ==
  ASSUME NEW m \in Nat \ {0}, NEW q \in Int, NEW r \in 0 .. m - 1
  PROVE  (q * m + r) \div m = q
  OBVIOUS

\* A whole chunk, or the rest, is one unit less.
LEMMA ChunkCounts ==
  ASSUME NEW t \in Nat, NEW c \in Nat, c > 0, c <= t, c <= MaxRanges,
         c = MaxRanges \/ c = t
  PROVE  Chunks(t) = Chunks(t - c) + 1
<1> DEFINE m == MaxRanges
<1>1. m \in Nat \ {0}
  BY FetchAssumption
<1>. HIDE DEF m
<1>2. CASE c = m
  <2> DEFINE a == t - c + m - 1
             q == a \div m
             r == a % m
  <2>1. a \in Nat
    BY <1>1, <1>2
  <2>2. q \in Int /\ r \in 0 .. m - 1 /\ a = q * m + r
    BY <1>1, <2>1
  <2>3. t + m - 1 = a + m
    BY <1>1, <1>2
  <2>. HIDE DEF a, q, r
  <2>4. a + m = (q + 1) * m + r
    BY <1>1, <2>1, <2>2
  <2>5. (a + m) \div m = q + 1
    BY <1>1, <2>2, <2>4, QuotientUnique
  <2>. QED BY <2>3, <2>5 DEF Chunks, m, a, q
<1>3. CASE c = t
  <2>1. (0 * m + (m - 1)) \div m = 0
    BY <1>1, QuotientUnique
  <2>2. (1 * m + (t - 1)) \div m = 1
    <3>1. t - 1 \in 0 .. m - 1
      BY <1>1, <1>3 DEF m
    <3>. QED BY <1>1, <3>1, QuotientUnique
  <2>3. Chunks(t) = 1
    <3>1. t + m - 1 = 1 * m + (t - 1)
      BY <1>1
    <3>. QED BY <2>2, <3>1 DEF Chunks, m
  <2>4. Chunks(t - c) = 0
    <3>1. (t - c) + m - 1 = 0 * m + (m - 1)
      BY <1>1, <1>3
    <3>. QED BY <2>1, <3>1 DEF Chunks, m
  <2>. QED BY <2>3, <2>4
<1>. QED BY <1>2, <1>3 DEF m

LEMMA ChunksType ==
  ASSUME NEW t \in Nat
  PROVE  Chunks(t) \in Nat
<1>1. \A a \in Nat, m \in Nat \ {0} : a \div m \in Nat
  OBVIOUS
<1>2. t + MaxRanges - 1 \in Nat
  BY FetchAssumption
<1>. QED BY <1>1, <1>2, FetchAssumption DEF Chunks

LEMMA Countable ==
  ASSUME TypeOK, NumURLs # 0
  PROVE  /\ Cardinality(todo) \in Nat /\ Cardinality(ranges) \in Nat
         /\ Chunks(Cardinality(todo)) \in Nat /\ Units(Cardinality(todo)) \in Nat
         /\ Chunks(Cardinality(ranges)) \in Nat
         /\ NumURLs \in Nat /\ NumURLs >= 1 /\ sticky \in Nat /\ sent \in Nat
         /\ pass \in {"batch", "loop"}
         /\ pc = "wait" => Len(untried) \in Nat /\ Len(untried) >= 1
<1>1. IsFiniteSet(todo) /\ IsFiniteSet(ranges)
  BY RunFacts
<1>2. Cardinality(todo) \in Nat /\ Cardinality(ranges) \in Nat
  BY <1>1, FS_CardinalityType
<1>3. Chunks(Cardinality(todo)) \in Nat /\ Chunks(Cardinality(ranges)) \in Nat
  BY <1>2, ChunksType
<1>4. pc = "wait" => Len(untried) \in Nat /\ Len(untried) >= 1
  BY LenProperties DEF TypeOK
<1>5. NumURLs \in Nat /\ sticky \in 0 .. NumURLs
  BY FetchAssumption DEF TypeOK
<1>. QED BY <1>2, <1>3, <1>4, <1>5 DEF Units, TypeOK

LEMMA SumsType ==
  ASSUME TypeOK, NumURLs # 0
  PROVE  Budget \in Nat /\ SecondPass \in Nat /\ Ahead \in Nat /\ sent \in Nat
<1> DEFINE n == Cardinality(ranges)
           k == Chunks(n)
           u == Units(Cardinality(todo))
           l == Len(untried)
<1>1. /\ n \in Nat /\ k \in Nat /\ u \in Nat /\ sent \in Nat
      /\ NumURLs \in Nat /\ NumURLs >= 1
      /\ pc = "wait" => l \in Nat
  BY Countable
<1>2. Budget = IF n > 1 THEN 2 * (NumURLs - 1) + k + n ELSE NumURLs - 1 + n
  BY DEF Budget
<1>3. SecondPass = IF pass = "batch" THEN NumURLs - 1 + n ELSE 0
  BY DEF SecondPass
<1>4. Ahead = CASE pc = "ask"  -> (IF sticky = 0 THEN NumURLs - 1 ELSE 0) + u
                [] pc = "wait" -> l + u
                [] pc = "feed" -> u
                [] OTHER       -> 0
  BY DEF Ahead
<1>. HIDE DEF n, k, u, l
<1>5. Budget \in Nat
  BY <1>1, <1>2
<1>6. SecondPass \in Nat
  BY <1>1, <1>3
<1>7. Ahead \in Nat
  BY <1>1, <1>4
<1>. QED BY <1>1, <1>5, <1>6, <1>7

LEMMA CallSpends ==
  ASSUME NumURLs # 0, IInv, BInv, Call
  PROVE  BInv'
<1> DEFINE n == Cardinality(ranges)
<1>1. /\ sticky = 0 /\ sent = 0 /\ sticky' = 0 /\ sent' = 0
      /\ ranges' = ranges /\ todo' = ranges
      /\ pass' = IF n > 1 THEN "batch" ELSE "loop"
      /\ pc' = IF ranges = {} THEN "ok" ELSE "ask"
  BY DEF BInv, Call
<1>2. n \in Nat /\ Chunks(n) \in Nat /\ NumURLs \in Nat /\ NumURLs >= 1
  BY Countable DEF IInv
<1>3. Budget' = Budget
  BY <1>1 DEF Budget, Chunks
<1>4. Ahead' <= NumURLs - 1 + (IF n > 1 THEN Chunks(n) ELSE n)
  <2>1. Units(Cardinality(todo))' = IF n > 1 THEN Chunks(n) ELSE n
    BY <1>1 DEF Units, Chunks
  <2>2. CASE ranges = {}
    <3>1. Ahead' = 0
      BY <1>1, <2>2 DEF Ahead
    <3>. QED BY <1>2, <3>1
  <2>3. CASE ranges # {}
    <3>1. Ahead' = (NumURLs - 1) + Units(Cardinality(todo))'
      BY <1>1, <2>3 DEF Ahead
    <3>. QED BY <1>2, <2>1, <3>1
  <2>. QED BY <2>2, <2>3
<1>5. SecondPass' = IF n > 1 THEN NumURLs - 1 + n ELSE 0
  BY <1>1 DEF SecondPass
<1>6. Ahead' \in Int
  <2>1. Units(Cardinality(todo))' \in Nat
    BY <1>1, <1>2 DEF Units, Chunks
  <2>. QED BY <1>1, <1>2, <2>1 DEF Ahead
<1>7. sent' + Ahead' + SecondPass' <= Budget
  BY <1>1, <1>2, <1>4, <1>5, <1>6 DEF Budget
<1>. QED BY <1>1, <1>3, <1>7 DEF BInv

LEMMA AskSpends ==
  ASSUME NumURLs # 0, IInv, IInv', BInv, Ask
  PROVE  BInv'
<1>1. PICK c \in SUBSET todo : IsNextChunk(c) /\ todo' = todo \ c
  BY DEF Ask
<1>2. /\ pc = "ask" /\ pc' = "wait" /\ untried' = Mirrors
      /\ UNCHANGED <<ranges, pass, sticky, sent>>
  BY DEF Ask
<1> DEFINE t == Cardinality(todo)
           d == Cardinality(c)
<1>3. /\ d \in Nat /\ d > 0 /\ d <= t /\ Cardinality(todo') = t - d
      /\ d <= MaxAsked /\ (d = MaxAsked \/ d = t)
  <2>1. IsFiniteSet(todo) /\ IsFiniteSet(c)
    BY <1>1, RunFacts, FS_Subset DEF IInv
  <2>2. d \in Nat /\ d # 0
    BY <1>1, <2>1, FS_CardinalityType, FS_EmptySet DEF IsNextChunk
  <2>3. todo \cap c = c /\ d <= t
    BY <1>1, <2>1, FS_Subset
  <2>4. Cardinality(todo \ c) = t - d
    BY <2>1, <2>3, FS_Difference
  <2>. QED BY <1>1, <2>2, <2>3, <2>4 DEF IsNextChunk
<1>4. t \in Nat /\ NumURLs \in Nat /\ NumURLs >= 1 /\ pass \in {"batch", "loop"}
      /\ sticky \in Nat /\ sent \in Nat /\ Units(t) \in Nat
  BY Countable DEF IInv
<1>. HIDE DEF t, d
<1>5. Units(t) = Units(t - d) + 1
  <2>1. CASE pass = "batch"
    BY <1>3, <1>4, <2>1, ChunkCounts DEF MaxAsked, Units
  <2>2. CASE pass = "loop"
    BY <1>3, <1>4, <2>2 DEF MaxAsked, Units
  <2>. QED BY <1>4, <2>1, <2>2
<1>6. Len(untried') = IF sticky = 0 THEN NumURLs ELSE 1
  <2>1. CASE sticky = 0
    <3>1. untried' = [i \in 1 .. NumURLs |-> i]
      BY <1>2, <2>1 DEF Mirrors
    <3>. QED BY <1>4, <2>1, <3>1
  <2>2. CASE sticky # 0
    BY <1>2, <2>2 DEF Mirrors
  <2>. QED BY <2>1, <2>2
<1>7. Ahead = (IF sticky = 0 THEN NumURLs - 1 ELSE 0) + Units(t)
  BY <1>2 DEF Ahead, t
<1>8. Ahead' = Len(untried') + Units(t - d)
  <2>1. Ahead' = Len(untried') + Units(Cardinality(todo))'
    BY <1>2 DEF Ahead
  <2>2. Units(Cardinality(todo))' = Units(t - d)
    BY <1>2, <1>3 DEF Units, Chunks
  <2>. QED BY <2>1, <2>2
<1>9. Units(t - d) \in Int
  <2>1. t - d \in Nat
    BY <1>3, <1>4
  <2>. QED BY <2>1, ChunksType DEF Units
<1>10. Ahead' = Ahead
  BY <1>4, <1>5, <1>6, <1>7, <1>8, <1>9
<1>11. SecondPass' = SecondPass /\ Budget' = Budget
  BY <1>2 DEF SecondPass, Budget, Chunks
<1>. QED BY <1>2, <1>10, <1>11 DEF BInv

\* A step that sends at most one request, within the same pass.
LEMMA PassSpends ==
  ASSUME NumURLs # 0, IInv, BInv, pc # "call", pc' # "call",
         pass' = pass, ranges' = ranges,
         sent' + Ahead' <= sent + Ahead, sent' \in Nat, Ahead \in Int, Ahead' \in Int,
         pc' = "feed" => sticky' # 0
  PROVE  BInv'
<1>1. SecondPass' = SecondPass /\ Budget' = Budget
  BY DEF SecondPass, Budget, Chunks
<1>2. SecondPass \in Nat /\ Budget \in Nat /\ sent \in Nat
  BY SumsType DEF IInv
<1>3. sent + Ahead + SecondPass <= Budget
  BY DEF BInv
<1>4. sent' + Ahead' + SecondPass <= Budget
  <2>1. PICK b \in Int : b = Ahead'
    OBVIOUS
  <2>2. PICK s \in Int : s = sent'
    OBVIOUS
  <2>3. s + b <= sent + Ahead
    BY <2>1, <2>2
  <2>4. s + b + SecondPass <= Budget
    BY <1>2, <1>3, <2>3
  <2>. QED BY <2>1, <2>2, <2>4
<1>. QED BY <1>1, <1>4 DEF BInv

LEMMA AddSame ==
  ASSUME NEW s \in Nat, NEW a \in Nat, NEW b \in Nat, b <= a
  PROVE  s + b <= s + a
  OBVIOUS

LEMMA QuietSpends ==
  ASSUME NumURLs # 0, IInv, BInv, PassDone \/ FeedPart \/ PartsFed
  PROVE  BInv'
<1>1. /\ UNCHANGED <<ranges, pass, todo, untried, sticky, sent>>
      /\ pc \in {"ask", "feed"}
      /\ pc' \in {"ok", "feed", "err", "ask"}
      /\ pc' = "feed" => pc = "feed"
      /\ pc' = "ask" => pc = "feed"
  BY DEF PassDone, FeedPart, PartsFed
<1>2. /\ NumURLs \in Nat /\ NumURLs >= 1 /\ sent \in Nat
      /\ Units(Cardinality(todo)) \in Nat
  BY Countable DEF IInv
<1>3. Units(Cardinality(todo))' = Units(Cardinality(todo))
  BY <1>1 DEF Units, Chunks
<1>4. pc = "feed" => sticky # 0
  BY DEF BInv
<1>5. Ahead \in Nat
  BY SumsType DEF IInv
<1>6. Ahead' \in Nat /\ Ahead' <= Ahead
  <2>1. CASE pc' \in {"ok", "err"}
    <3>1. Ahead' = 0
      BY <2>1 DEF Ahead
    <3>. QED BY <1>5, <3>1
  <2>2. CASE pc' \in {"ask", "feed"}
    <3>1. pc = "feed" /\ sticky # 0 /\ sticky' # 0
      BY <1>1, <1>4, <2>2
    <3>2. Ahead = Units(Cardinality(todo))
      BY <3>1 DEF Ahead
    <3>3. Ahead' = Units(Cardinality(todo))'
      BY <1>2, <1>3, <2>2, <3>1 DEF Ahead
    <3>. QED BY <1>2, <1>3, <3>2, <3>3
  <2>. QED BY <1>1, <2>1, <2>2
<1>7. sent' + Ahead' <= sent + Ahead
  <2>1. sent' = sent
    BY <1>1
  <2>2. sent + Ahead' <= sent + Ahead
    BY <1>2, <1>5, <1>6, AddSame
  <2>. QED BY <2>1, <2>2, Zenon
<1>8. pc # "call" /\ pc' # "call" /\ (pc' = "feed" => sticky' # 0)
  BY <1>1, <1>4
<1>9. sent' \in Nat /\ Ahead \in Int /\ Ahead' \in Int
  BY <1>1, <1>2, <1>5, <1>6
<1>. QED BY <1>1, <1>7, <1>8, <1>9, PassSpends

LEMMA AnswerSpends ==
  ASSUME NumURLs # 0, IInv, BInv, NEW rep \in Arrivals, Receive(rep)
  PROVE  BInv'
<1>1. /\ pc = "wait" /\ ranges' = ranges /\ sent' = sent + 1
      /\ Head(untried) \in 1 .. NumURLs
  BY ArrivalType DEF IInv, Receive, Failover, Refused, InParts, FallBack, OneRun
<1> DEFINE u == Units(Cardinality(todo))
<1>2. /\ NumURLs \in Nat /\ NumURLs >= 1 /\ sent \in Nat /\ u \in Nat
      /\ Len(untried) \in Nat /\ Len(untried) >= 1
      /\ Cardinality(ranges) \in Nat
  BY <1>1, Countable DEF IInv
<1>3. Ahead = Len(untried) + u
  BY <1>1 DEF Ahead
<1>4. CASE Failover(rep) \/ Refused(rep) \/ InParts(rep) \/ OneRun(rep)
  <2>1. pass' = pass /\ todo' = todo /\ u' = u
    BY <1>4 DEF Failover, Refused, InParts, OneRun, Units, Chunks
  <2>. HIDE DEF u
  <2>2. /\ pc' \in {"err", "wait", "feed", "ask"} /\ (pc' = "feed" => sticky' # 0)
        /\ Ahead' \in Nat /\ Ahead' <= Len(untried) + u - 1
    <3>1. CASE pc' = "err"
      <4>1. Ahead' = 0
        BY <3>1 DEF Ahead
      <4>. QED BY <1>2, <3>1, <4>1
    <3>2. CASE Failover(rep) /\ pc' # "err"
      <4>1. pc' = "wait" /\ untried' = Tail(untried)
        BY <3>2 DEF Failover
      <4>2. Len(untried') = Len(untried) - 1
        <5>1. untried \in Seq(1 .. NumURLs) /\ untried # << >>
          BY <1>1 DEF IInv, TypeOK
        <5>. QED BY <4>1, <5>1, HeadTailProperties
      <4>3. Ahead' = Len(untried') + u'
        BY <4>1 DEF Ahead, u
      <4>. QED BY <1>2, <2>1, <4>1, <4>2, <4>3
    <3>3. CASE InParts(rep)
      <4>1. pc' = "feed" /\ sticky' # 0
        BY <1>1, <3>3 DEF InParts
      <4>2. Ahead' = u'
        BY <4>1 DEF Ahead, u
      <4>. QED BY <1>2, <2>1, <4>1, <4>2
    <3>4. CASE OneRun(rep) /\ pc' # "err"
      <4>1. pc' = "ask" /\ sticky' # 0
        BY <1>1, <3>4 DEF OneRun
      <4>2. Ahead' = 0 + u'
        BY <4>1 DEF Ahead, u
      <4>. QED BY <1>2, <2>1, <4>1, <4>2
    <3>5. CASE Refused(rep)
      BY <3>1, <3>5 DEF Refused
    <3>. QED BY <1>4, <3>1, <3>2, <3>3, <3>4, <3>5
  <2>3. sent' + Ahead' <= sent + Ahead /\ Ahead \in Int /\ sent' \in Nat
    BY <1>1, <1>2, <1>3, <2>2
  <2>. QED BY <1>1, <2>1, <2>2, <2>3, PassSpends
<1>5. CASE FallBack(rep)
  <2>1. /\ pass = "batch" /\ pass' = "loop" /\ pc' = "ask" /\ sticky' = 0
        /\ todo' = ranges
    BY <1>5 DEF FallBack
  <2>2. SecondPass = NumURLs - 1 + Cardinality(ranges) /\ SecondPass' = 0
    BY <2>1 DEF SecondPass
  <2>3. Ahead' = NumURLs - 1 + Cardinality(ranges)
    BY <2>1 DEF Ahead, Units
  <2>4. Budget' = Budget /\ Budget \in Int
    BY <1>1, Countable DEF Budget, Chunks, IInv
  <2>5. sent + Ahead + SecondPass <= Budget
    BY <1>1 DEF BInv
  <2>. HIDE DEF u
  <2>6. sent' + Ahead' + SecondPass' <= Budget
    BY <1>1, <1>2, <1>3, <2>2, <2>3, <2>4, <2>5
  <2>. QED BY <2>1, <2>4, <2>6 DEF BInv
<1>. QED BY <1>4, <1>5 DEF Receive

(***************************************************************************)
(* The requests of a download are bounded, for any list of mirrors, number *)
(* of runs and size of a batch: failing over costs each pass one request   *)
(* for each mirror but one, since a pass stays with the mirror that        *)
(* answers.                                                                *)
(***************************************************************************)
THEOREM RequestsBounded ==
  ASSUME NumURLs # 0
  PROVE  Spec => []RequestBudget
<1>1. Init => BInv
  BY DEF Init, BInv
<1>2. IInv /\ IInv' /\ BInv /\ [Next]_vars => BInv'
  <2>. SUFFICES ASSUME IInv, IInv', BInv, [Next]_vars PROVE BInv'
    OBVIOUS
  <2>1. CASE UNCHANGED vars
    BY <2>1 DEF vars, fetchVars, BInv, Ahead, Units, Chunks, SecondPass, Budget
  <2>. QED BY <2>1, CallSpends, AskSpends, QuietSpends, AnswerSpends DEF Next
<1>3. IInv /\ BInv => RequestBudget
  <2>. SUFFICES ASSUME IInv, BInv PROVE RequestBudget
    OBVIOUS
  <2>1. Budget \in Int /\ sent \in Nat /\ Ahead \in Nat /\ SecondPass \in Nat
    BY SumsType DEF IInv
  <2>2. sent <= Budget
    <3>1. CASE pc = "call"
      <4>1. sent = 0 /\ 0 <= Budget
        BY <3>1, Countable DEF BInv, Budget, IInv
      <4>. QED BY <4>1
    <3>2. CASE pc # "call"
      BY <2>1, <3>2 DEF BInv
    <3>. QED BY <3>1, <3>2
  <2>. QED BY <2>2 DEF RequestBudget, Budget, Chunks
<1>. QED BY <1>1, <1>2, <1>3, Invariance, PTL DEF Spec
=============================================================================
