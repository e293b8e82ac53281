-------------------------------- MODULE Fetch --------------------------------
(***************************************************************************)
(* FetchClient.FetchBlocksMulti (internal/zsync/fetch.go): the download of *)
(* the missing runs of blocks from a list of mirrors.  With more than one  *)
(* run a first pass asks for many runs per request and takes the answer    *)
(* apart; when a server will not do that, a second pass asks for one run   *)
(* at a time.  Each pass fails over along the list until a mirror answers, *)
(* and then stays with that mirror.                                        *)
(*                                                                         *)
(* A mirror is known by its place in the list.  What it may answer is the  *)
(* environment's choice, within the modes the run gives it.                *)
(***************************************************************************)
EXTENDS BlockStore

CONSTANTS
  NumURLs,     \* length of the list of mirrors
  Farms,       \* for each mirror, the set of modes it may answer in
  MaxRanges    \* MaxRangesPerRequest, 50 in the program

Modes == { "down", "forbidden",           \* transport error, 5xx or 404; other 4xx
           "plain", "cut",                \* 200: the file, a shorter file
           "single", "multi",             \* 206: one range, as many as asked
           "short", "stale", "malformed", \* 206: bytes missing, changed, garbled
           "dup", "drop", "coalesce", "shift" }   \* 206: the wrong set of parts

ASSUME FetchAssumption ==
  /\ NumURLs \in Nat
  /\ MaxRanges \in Nat \ {0}
  /\ Farms \subseteq [1 .. NumURLs -> SUBSET Modes \ {{}}]
  /\ \E b \in Byte : b # 0

VARIABLES
  server,   \* what the mirrors are like, a member of Farms
  ranges,   \* the runs of missing blocks the caller passes
  pass,     \* "batch": tryBatchedRanges; "loop": one request for each run
  pc,       \* "call", "ask", "wait", "feed", then "ok" or "err"
  todo,     \* runs this pass has yet to ask for
  asked,    \* runs of the request underway
  untried,  \* mirrors left for that request, the one being asked first
  sticky,   \* the mirror this pass has settled on, 0 for none
  parts,    \* parts of the answer yet to be fed
  sent      \* requests sent so far

fetchVars == <<server, ranges, pass, pc, todo, asked, untried, sticky, parts, sent>>
vars      == <<storeVars, fetchVars>>

Run(r)       == r[1] .. r[2] - 1
StartByte(r) == r[1] * Blocksize

-----------------------------------------------------------------------------
(***************************************************************************)
(* The network.  The bytes of a file that lie in a run, and the files a    *)
(* mirror may hold in place of the target.                                 *)
(***************************************************************************)
EndByte(f, r) == IF r[2] * Blocksize < Len(f) THEN r[2] * Blocksize ELSE Len(f)
Slice(f, r)   == SubSeq(f, StartByte(r) + 1, EndByte(f, r))
ButLast(f)    == SubSeq(f, 1, Len(f) - 1)
Changed(f)    == [k \in 1 .. Len(f) |-> CHOOSE b \in Byte : b # f[k]]

Reply(class, body, ps) == [class |-> class, body |-> body, parts |-> ps]
Part(f, r)             == [start |-> StartByte(r), body |-> Slice(f, r)]

\* The parts of a multipart answer, in any order.
Orders(f, S) ==
  { [k \in 1 .. Cardinality(S) |-> Part(f, s[k])] :
      s \in { t \in [1 .. Cardinality(S) -> S] :
                \A i, j \in DOMAIN t : t[i] = t[j] => i = j } }

\* Two runs, and what lies between them, in one part.
Coalesced(f, S) ==
  UNION { { << Part(f, <<p[1][1], p[2][2]>>) >> \o ps :
              ps \in Orders(f, S \ {p[1], p[2]}) } :
            p \in { rq \in S \X S : rq[1][1] < rq[2][1] } }

PartLists(mode, S) ==
  LET os == Orders(cf.target, S) IN
  CASE mode = "stale"    -> Orders(Changed(cf.target), S)
    [] mode = "dup"      -> { Append(ps, ps[1]) : ps \in os }
    [] mode = "drop"     -> { Tail(ps) : ps \in os }
    [] mode = "short"    -> { [ps EXCEPT ![1].body = ButLast(@)] : ps \in os }
    [] mode = "shift"    -> { [ps EXCEPT ![1].start = @ + 1] : ps \in os }
    [] mode = "coalesce" -> Coalesced(cf.target, S)
    [] OTHER             -> os

\* A request for a single run is never answered in parts.
Body(mode, r) ==
  CASE mode = "stale" -> Slice(Changed(cf.target), r)
    [] mode = "short" -> ButLast(Slice(cf.target, r))
    [] OTHER          -> Slice(cf.target, r)

\* The answers in which the ranges asked for play no part.
Plainly(mode) ==
  CASE mode = "down"      -> Reply("fail", << >>, << >>)
    [] mode = "forbidden" -> Reply("fatal", << >>, << >>)
    [] mode = "plain"     -> Reply("whole", cf.target, << >>)
    [] mode = "cut"       -> Reply("whole", ButLast(cf.target), << >>)

Answers(mode, S) ==
  IF mode \in {"down", "forbidden", "plain", "cut"}
  THEN { Plainly(mode) }
  ELSE IF mode = "single" \/ Cardinality(S) = 1
  THEN { Reply("single", Body(mode, r), << >>) : r \in S }
  ELSE IF mode = "malformed"
  THEN { Reply("malformed", << >>, << >>) }
  ELSE { Reply("multi", << >>, ps) : ps \in PartLists(mode, S) }

Arrivals ==
  IF pc = "wait"
  THEN UNION { Answers(mode, asked) : mode \in server[Head(untried)] }
  ELSE {}

-----------------------------------------------------------------------------
(***************************************************************************)
(* A body is fed block by block, the tail of the last one padded with      *)
(* zeros, up to the first block that is short of bytes or fails its hash.  *)
(* first is the block with which the body starts.                          *)
(***************************************************************************)
Payload(body, off) ==
  [k \in 1 .. Blocksize |-> IF off + k <= Len(body) THEN body[off + k] ELSE 0]

Rejected(r, body, first) ==
  { i \in Run(r) : LET off == (i - first) * Blocksize
                   IN  off >= Len(body) \/ Verdict(i, Payload(body, off)) # "" }

\* Mutant: only the first block of a run is checked.
FeedRunUnchecked(r, body, first) ==
  LET good == IF r[1] \in Rejected(r, body, first) THEN {} ELSE Run(r)
  IN  acceptBlock([i \in good |-> Payload(body, (i - first) * Blocksize)])

FeedRun(r, body, first) ==
  LET good == { i \in Run(r) : \A j \in Rejected(r, body, first) : i < j }
  IN  acceptBlock([i \in good |-> Payload(body, (i - first) * Blocksize)])

-----------------------------------------------------------------------------
(***************************************************************************)
(* The buffer is as seed scanning leaves it, and the caller asks for all   *)
(* of what it misses, as cmd/gozsync does.                                 *)
(***************************************************************************)
Init ==
  /\ cf \in ControlFiles
  /\ got \in SUBSET BlockIdx
  /\ out = [p \in Offsets |-> IF p \div Blocksize \in got THEN cf.target[p + 1] ELSE 0]
  /\ nGot = Cardinality(got)
  /\ server \in Farms
  /\ ranges = MissingRuns
  /\ pass = "batch" /\ pc = "call" /\ todo = {} /\ asked = {}
  /\ untried = << >> /\ sticky = 0 /\ parts = << >> /\ sent = 0

(***************************************************************************)
(* FetchBlocksMulti: an empty list of mirrors is an error even when there  *)
(* is nothing to fetch; one run alone is not worth a batch.                *)
(***************************************************************************)
Call ==
  /\ pc = "call"
  /\ pc' = IF NumURLs = 0 THEN "err" ELSE IF ranges = {} THEN "ok" ELSE "ask"
  /\ pass' = IF Cardinality(ranges) > 1 THEN "batch" ELSE "loop"
  /\ todo' = ranges
  /\ UNCHANGED <<storeVars, server, ranges, asked, untried, sticky, parts, sent>>

(***************************************************************************)
(* The next request: the first runs not asked for yet, as many as go in    *)
(* one request of this pass, to every mirror in turn or to the one it has  *)
(* settled on.                                                             *)
(***************************************************************************)
MaxAsked == IF pass = "batch" THEN MaxRanges ELSE 1

IsNextChunk(c) ==
  /\ c # {}
  /\ \A r \in c, q \in todo \ c : r[1] < q[1]
  /\ Cardinality(c) <= MaxAsked
  /\ Cardinality(c) = MaxAsked \/ c = todo

MirrorsFirst == IF sticky = 0 THEN <<1>> ELSE <<sticky>>   \* mutant: no failover

Mirrors == IF sticky = 0 THEN [i \in 1 .. NumURLs |-> i] ELSE <<sticky>>

Ask ==
  /\ pc = "ask"
  /\ \E c \in SUBSET todo : IsNextChunk(c) /\ asked' = c /\ todo' = todo \ c
  /\ untried' = Mirrors
  /\ pc' = "wait"
  /\ UNCHANGED <<storeVars, server, ranges, pass, sticky, parts, sent>>

PassDone ==
  /\ pc = "ask" /\ todo = {}
  /\ pc' = "ok"
  /\ UNCHANGED <<storeVars, server, ranges, pass, todo, asked, untried, sticky, parts, sent>>

(***************************************************************************)
(* getRangeFailover and getMultiRangeFailover: the next mirror after a     *)
(* transport error, a 5xx or a 404; no other mirror after any other        *)
(* failure.                                                                *)
(***************************************************************************)
\* Mutant: the end of the list goes unnoticed.
FailoverOn(rep) ==
  /\ rep.class = "fail"
  /\ untried' = Tail(untried)
  /\ pc' = "wait"
  /\ sent' = sent + 1
  /\ UNCHANGED <<storeVars, server, ranges, pass, todo, asked, sticky, parts>>

Failover(rep) ==
  /\ rep.class = "fail"
  /\ untried' = Tail(untried)
  /\ pc' = IF untried' = << >> THEN "err" ELSE "wait"
  /\ sent' = sent + 1
  /\ UNCHANGED <<storeVars, server, ranges, pass, todo, asked, sticky, parts>>

Refused(rep) ==
  /\ rep.class \in {"fatal", "malformed"}
  /\ pc' = "err"
  /\ sent' = sent + 1
  /\ UNCHANGED <<storeVars, server, ranges, pass, todo, asked, untried, sticky, parts>>

(***************************************************************************)
(* tryBatchedRanges on a multipart answer, and on any other, which starts  *)
(* the second pass over all the runs and forgets the mirror.               *)
(***************************************************************************)
InParts(rep) ==
  /\ pass = "batch" /\ rep.class = "multi"
  /\ sticky' = Head(untried)
  /\ parts' = rep.parts
  /\ pc' = "feed"
  /\ sent' = sent + 1
  /\ UNCHANGED <<storeVars, server, ranges, pass, todo, asked, untried>>

FallBack(rep) ==
  /\ pass = "batch" /\ rep.class \in {"whole", "single"}
  /\ pass' = "loop" /\ pc' = "ask" /\ sticky' = 0
  /\ todo' = ranges /\ asked' = {}
  /\ sent' = sent + 1
  /\ UNCHANGED <<storeVars, server, ranges, untried, parts>>

(***************************************************************************)
(* One part of a multipart answer is fed as the run that starts where it   *)
(* does, and ignored when there is none.                                   *)
(***************************************************************************)
\* Mutant: the parts after one that is rejected are fed, and the error is lost.
FeedPartOn ==
  /\ pc = "feed" /\ parts # << >>
  /\ LET p    == Head(parts)
         want == { r \in asked : StartByte(r) = p.start }
     IN  IF want = {}
         THEN UNCHANGED storeVars
         ELSE \E r \in want : FeedRun(r, p.body, r[1])
  /\ parts' = Tail(parts)
  /\ UNCHANGED <<server, ranges, pass, pc, todo, asked, untried, sticky, sent>>

FeedPart ==
  /\ pc = "feed" /\ parts # << >>
  /\ LET p    == Head(parts)
         want == { r \in asked : StartByte(r) = p.start }
     IN  IF want = {}
         THEN UNCHANGED <<storeVars, pc>>
         ELSE \E r \in want :
                /\ FeedRun(r, p.body, r[1])
                /\ pc' = IF Rejected(r, p.body, r[1]) = {} THEN pc ELSE "err"
  /\ parts' = Tail(parts)
  /\ UNCHANGED <<server, ranges, pass, todo, asked, untried, sticky, sent>>

PartsFed ==
  /\ pc = "feed" /\ parts = << >>
  /\ pc' = "ask" /\ asked' = {}
  /\ UNCHANGED <<storeVars, server, ranges, pass, todo, untried, sticky, parts, sent>>

(***************************************************************************)
(* The answer for one run: the whole file, told by its status and length,  *)
(* or else a body taken to start with the run.                             *)
(***************************************************************************)
\* Mutants: a body that ends early is taken for the end of the run; a whole file is
\* taken to start with the run; the mirror that answered is not remembered.
OneRunToEOF(rep) ==
  /\ pass = "loop" /\ rep.class \in {"whole", "single"}
  /\ sticky' = Head(untried)
  /\ \E r \in asked :
       LET bodyIsFullFile == rep.class = "whole" /\ Len(rep.body) = Length
           first == IF bodyIsFullFile THEN 0 ELSE r[1]
           fits  == \A i \in Rejected(r, rep.body, first) :
                      (i - first) * Blocksize >= Len(rep.body)
       IN  /\ FeedRun(r, rep.body, first)
           /\ pc' = IF fits THEN "ask" ELSE "err"
           /\ asked' = IF fits THEN {} ELSE asked
  /\ sent' = sent + 1
  /\ UNCHANGED <<server, ranges, pass, todo, untried, parts>>

OneRunMisplaced(rep) ==
  /\ pass = "loop" /\ rep.class \in {"whole", "single"}
  /\ sticky' = Head(untried)
  /\ \E r \in asked :
       LET fits == Rejected(r, rep.body, r[1]) = {}
       IN  /\ FeedRun(r, rep.body, r[1])
           /\ pc' = IF fits THEN "ask" ELSE "err"
           /\ asked' = IF fits THEN {} ELSE asked
  /\ sent' = sent + 1
  /\ UNCHANGED <<server, ranges, pass, todo, untried, parts>>

OneRunForgetful(rep) ==
  /\ pass = "loop" /\ rep.class \in {"whole", "single"}
  /\ \E r \in asked :
       LET bodyIsFullFile == rep.class = "whole" /\ Len(rep.body) = Length
           first == IF bodyIsFullFile THEN 0 ELSE r[1]
           fits  == Rejected(r, rep.body, first) = {}
       IN  /\ FeedRun(r, rep.body, first)
           /\ pc' = IF fits THEN "ask" ELSE "err"
           /\ asked' = IF fits THEN {} ELSE asked
  /\ sent' = sent + 1
  /\ UNCHANGED <<server, ranges, pass, todo, untried, sticky, parts>>

OneRun(rep) ==
  /\ pass = "loop" /\ rep.class \in {"whole", "single"}
  /\ sticky' = Head(untried)
  /\ \E r \in asked :
       LET bodyIsFullFile == rep.class = "whole" /\ Len(rep.body) = Length
           first == IF bodyIsFullFile THEN 0 ELSE r[1]
           fits  == Rejected(r, rep.body, first) = {}
       IN  /\ FeedRun(r, rep.body, first)
           /\ pc' = IF fits THEN "ask" ELSE "err"
           /\ asked' = IF fits THEN {} ELSE asked
  /\ sent' = sent + 1
  /\ UNCHANGED <<server, ranges, pass, todo, untried, parts>>

Receive(rep) == Failover(rep) \/ Refused(rep) \/ InParts(rep) \/ FallBack(rep) \/ OneRun(rep)

Next ==
  \/ Call \/ Ask \/ PassDone \/ FeedPart \/ PartsFed
  \/ \E rep \in Arrivals : Receive(rep)

\* The client runs on, and every request is answered or fails.
Spec == Init /\ [][Next]_vars /\ WF_vars(Next)

-----------------------------------------------------------------------------
Runs == { r \in (0 .. NumBlocks) \X (0 .. NumBlocks) : r[1] < r[2] }

TypeOK ==
  /\ StoreTypeOK
  /\ server \in Farms
  /\ ranges \subseteq Runs /\ todo \subseteq ranges /\ asked \subseteq ranges
  /\ pass \in {"batch", "loop"}
  /\ pc \in {"call", "ask", "wait", "feed", "ok", "err"}
  /\ untried \in Seq(1 .. NumURLs)
  /\ pc = "wait" => untried # << >> /\ asked # {}
  /\ sticky \in 0 .. NumURLs
  /\ parts \in Seq([start : Nat, body : Seq(Byte)])
  /\ sent \in Nat

(***************************************************************************)
(* In the second pass a run is either still to be asked for, or being      *)
(* asked for, or completely in the buffer: no answer that is short, from   *)
(* another file, or sliced at the wrong place counts as delivered.  So a   *)
(* second pass that ends well leaves nothing missing.                      *)
(***************************************************************************)
ServedRunsFilled ==
  pass = "loop" /\ pc # "call" =>
    \A r \in ranges \ (todo \cup asked) : Run(r) \subseteq got

(***************************************************************************)
(* FetchBlocksMulti returns nil only when nothing is missing any more.     *)
(***************************************************************************)
SuccessIsComplete == pc = "ok" => got = BlockIdx

(***************************************************************************)
(* It does so whatever mixture of mirrors it meets, as long as a multipart *)
(* answer has a part for each run asked for.                               *)
(***************************************************************************)
Omitting == {"drop", "coalesce", "shift"}

HonestSuccessIsComplete ==
  (\A u \in 1 .. NumURLs : server[u] \cap Omitting = {}) => SuccessIsComplete

(***************************************************************************)
(* Staying with one mirror bounds the requests: each pass tries the list   *)
(* at most once, and after that sends one request for a chunk or a run.    *)
(***************************************************************************)
RequestBudget ==
  LET n      == Cardinality(ranges)
      chunks == (n + MaxRanges - 1) \div MaxRanges
  IN  sent <= IF n > 1 THEN 2 * (NumURLs - 1) + chunks + n ELSE NumURLs - 1 + n

(***************************************************************************)
(* A mirror that is down does no harm while a good one is left: the file   *)
(* is completed, whether the good one serves ranges, many or one at a      *)
(* time, or only whole files.                                              *)
(***************************************************************************)
Good == {"plain", "single", "multi", "dup"}

GoodFarm ==
  /\ \A u \in 1 .. NumURLs : server[u] \subseteq Good \/ server[u] = {"down"}
  /\ \E u \in 1 .. NumURLs : server[u] \subseteq Good

GoodMirrorSuffices == GoodFarm ~> (pc = "ok" /\ got = BlockIdx)

(***************************************************************************)
(* What it needs of the client apart from going on: it does not give up,   *)
(* neither for mirrors that are down, in front of the good one or behind   *)
(* it, nor for an answer of the good one in a form it did not ask for.     *)
(***************************************************************************)
GoodMirrorNoError == GoodFarm => pc # "err"
=============================================================================
