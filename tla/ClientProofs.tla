---------------------------- MODULE ClientProofs ----------------------------
(***************************************************************************)
(* What holds of the files a sequence of gozsync runs leaves behind,       *)
(* wherever runs stop and whatever the publisher and the mirrors do.       *)
(***************************************************************************)
EXTENDS Client, SequenceTheorems, TLAPS

(***************************************************************************)
(* The inductive invariant.  For the output: a run starts with nothing     *)
(* fetched, and its buffer has the target's length; and if there is always *)
(* a digest, then past the check the buffer is the target, before the      *)
(* rename so is the partial file, and after it the output, which is a      *)
(* version at any time.                                                    *)
(***************************************************************************)
Sized ==
  /\ pc = "load" => fetched = {}
  /\ pc \in {"seeds", "fetch", "verify"} => Len(buf) = Len(Target)

Checked ==
  Digested = Versions =>
    /\ pc \in {"stage", "write", "rename"} => buf = Target
    /\ pc = "rename" => partial.exists /\ partial.data = Target
    /\ pc = "chtimes" => out.exists /\ out.data = Target
    /\ DoneIsTarget
    /\ OutIsAVersion

(***************************************************************************)
(* For the conditional GET: publications are ordered, each made before it  *)
(* is put out; and while a run waits for the control file, the time it has *)
(* sent is still that of the output.                                       *)
(***************************************************************************)
Ordered ==
  /\ \A v \in Versions : v <= Current => pubs[v].mtime <= pubs[v].at
  /\ \A v, w \in Versions : v < w /\ w <= Current => pubs[v].at < pubs[w].at

ImsOfOut == pc = "load" /\ OutGiven /\ out.exists => ims = out.mtime

IInv == TypeOK /\ Sized /\ Checked /\ Ordered /\ ImsOfOut

-----------------------------------------------------------------------------
LEMMA ConstantFacts ==
  /\ 1 \in Versions /\ 2 \in Times /\ 3 \in Times /\ 0 \in Times
  /\ \A v \in Versions : Targets[v] \in Seq(Nat)
<1>1. /\ 1 \in Versions /\ 2 \in Times /\ 3 \in Times /\ 0 \in Times
      /\ Len(Targets) \in Nat
  BY ClientAssumption, EmptySeq, LenProperties DEF Versions, Times
<1>3. ASSUME NEW v \in Versions
      PROVE  Targets[v] \in Seq(Nat)
  <2>1. Targets[v] \in Seq(Nat \ {0})
    BY <1>3, ClientAssumption DEF Versions
  <2>. QED BY <2>1
<1>. QED BY <1>1, <1>3

LEMMA FileType ==
  ASSUME NEW d \in Seq(Nat), NEW t \in Times
  PROVE  File(d, t) \in Files
  BY DEF File, Files

LEMMA AbsentType == Absent \in Files
  BY ConstantFacts DEF Absent, Files

(***************************************************************************)
(* Filling blocks keeps the buffer a buffer of the same length.            *)
(***************************************************************************)
LEMMA FilledKeeps ==
  ASSUME TypeOK, Len(buf) = Len(Target), NEW S
  PROVE  /\ Filled(S) \in Seq(Nat)
         /\ Len(Filled(S)) = Len(Target)
         /\ DOMAIN Filled(S) = DOMAIN buf
<1>1. cf \in Versions /\ Current \in Versions
  BY DEF TypeOK, Versions, Current
<1>2. Target \in Seq(Nat) /\ buf \in Seq(Nat)
  BY <1>1, ConstantFacts DEF Target, TypeOK
<1>3. DOMAIN buf = 1 .. Len(buf) /\ Len(buf) \in Nat
  BY <1>2
<1>4. \A i \in 1 .. Len(buf) : Target[i] \in Nat /\ buf[i] \in Nat
  BY <1>2
<1>5. Filled(S) = [i \in 1 .. Len(buf) |-> IF i \in S THEN Target[i] ELSE buf[i]]
  BY <1>3 DEF Filled
<1>. QED BY <1>3, <1>4, <1>5

-----------------------------------------------------------------------------
LEMMA InitIInv == Init => IInv
<1> SUFFICES ASSUME Init PROVE IInv
  OBVIOUS
<1> USE DEF Init
<1>1. /\ pubs \in Seq([at : Times, mtime : Times]) /\ Len(pubs) = 1
  BY ConstantFacts
<1>2. Current = 1
  BY <1>1 DEF Current
<1>3. out \in Files
  BY ConstantFacts, FileType, AbsentType
<1>4. TypeOK
  <2>1. pubs \in Seq([at : Times, mtime : Times]) /\ Current \in Versions
    BY <1>1, <1>2, ConstantFacts
  <2>2. cf \in 1 .. Current /\ ims \in Times /\ now \in Times /\ stops \in 0 .. MaxStops
    BY <1>2, ConstantFacts, ClientAssumption
  <2>3. buf \in Seq(Nat) /\ fetched \subseteq DOMAIN buf
    OBVIOUS
  <2>. QED BY <1>3, <2>1, <2>2, <2>3, AbsentType DEF TypeOK
<1>5. Sized /\ ImsOfOut
  BY DEF Sized, ImsOfOut
<1>6. Checked
  BY <1>2 DEF Checked, OutIsAVersion, DoneIsTarget, IsVersion, Absent, File
<1>7. Ordered
  <2>1. \A v \in Versions : v <= Current => v = 1
    BY <1>2, ClientAssumption, LenProperties DEF Versions
  <2>2. pubs[1].mtime <= pubs[1].at
    OBVIOUS
  <2>. QED BY <2>1, <2>2 DEF Ordered, Versions
<1>. QED BY <1>4, <1>5, <1>6, <1>7 DEF IInv

-----------------------------------------------------------------------------
(***************************************************************************)
(* A version that is out stays out, so a file that is a version stays one. *)
(***************************************************************************)
LEMMA PublishKeepsVersions ==
  ASSUME TypeOK, Publish
  PROVE  /\ pubs' \in Seq([at : Times, mtime : Times])
         /\ Current' \in Versions /\ Current' = Current + 1
<1>1. PICK made \in 1 .. now : pubs' = Append(pubs, [at |-> now, mtime |-> made])
  BY DEF Publish
<1>2. now \in Times /\ made \in Times /\ pubs \in Seq([at : Times, mtime : Times])
  BY ClientAssumption DEF TypeOK, Times
<1>3. [at |-> now, mtime |-> made] \in [at : Times, mtime : Times]
  BY <1>2
<1>4. pubs' \in Seq([at : Times, mtime : Times]) /\ Len(pubs') = Len(pubs) + 1
  BY <1>1, <1>2, <1>3, AppendProperties
<1>. QED BY <1>4 DEF Publish, Current

LEMMA PublishKeepsOrder ==
  ASSUME TypeOK, Ordered, Publish
  PROVE  Ordered'
<1>1. PICK made \in 1 .. now : pubs' = Append(pubs, [at |-> now, mtime |-> made])
  BY DEF Publish
<1>2. now \in Int /\ made \in Int /\ pubs \in Seq([at : Times, mtime : Times])
  BY ClientAssumption DEF TypeOK, Times
<1>3. Current' = Current + 1 /\ Current \in Nat
  BY <1>2, PublishKeepsVersions, LenProperties DEF Current
<1>4. \A v \in Versions : v <= Current => pubs'[v] = pubs[v]
  BY <1>1, <1>2 DEF Current, Versions
<1>5. pubs'[Current + 1] = [at |-> now, mtime |-> made]
  BY <1>1, <1>2 DEF Current
<1>6. \A v \in Versions : v <= Current => v \in 1 .. Len(pubs)
  BY DEF Current, Versions
<1>7. \A v \in Versions : v <= Current => pubs[v] \in [at : Times, mtime : Times]
  BY <1>2, <1>6, ElementOfSeq
<1>8. \A v \in Versions : v <= Current => pubs[v].at \in Int /\ pubs[v].mtime \in Int
  BY <1>7, ClientAssumption DEF Times
<1>9. Current \in Versions /\ now > pubs[Current].at
  BY DEF Publish, TypeOK
<1>10. \A v \in Versions : v <= Current => pubs[v].at <= pubs[Current].at
  <2>1. \A v \in Versions : v < Current => pubs[v].at < pubs[Current].at
    BY <1>9, <1>3 DEF Ordered, Versions
  <2>. QED BY <2>1, <1>8, <1>9, <1>3 DEF Versions
<1>11. ASSUME NEW v \in Versions, v <= Current
       PROVE  pubs[v].at < now
  <2>1. Current <= Current
    BY <1>3
  <2>2. pubs[v].at \in Int /\ pubs[Current].at \in Int
    BY <1>8, <1>9, <1>11, <2>1
  <2>3. pubs[v].at <= pubs[Current].at
    BY <1>10, <1>11
  <2>. QED BY <1>2, <1>9, <2>2, <2>3
<1>12. \A v \in Versions : v <= Current' => v <= Current \/ v = Current + 1
  BY <1>3 DEF Versions
<1>13. \A v \in Versions : v <= Current' => pubs'[v].mtime <= pubs'[v].at
  BY <1>2, <1>4, <1>5, <1>12 DEF Ordered
<1>14. ASSUME NEW v \in Versions, NEW w \in Versions, v < w, w <= Current'
       PROVE  pubs'[v].at < pubs'[w].at
  <2>1. v <= Current
    BY <1>3, <1>14 DEF Versions
  <2>2. CASE w <= Current
    BY <1>4, <1>14, <2>1, <2>2 DEF Ordered
  <2>3. CASE w = Current + 1
    BY <1>4, <1>5, <1>11, <2>1, <2>3
  <2>. QED BY <1>12, <1>14, <2>2, <2>3
<1>. QED BY <1>13, <1>14 DEF Ordered

(***************************************************************************)
(* Every step keeps the inductive invariant.                               *)
(***************************************************************************)
LEMMA StepIInv ==
  ASSUME IInv, [Next]_vars
  PROVE  IInv'
<1> USE DEF IInv
<1>0. /\ TypeOK /\ Sized /\ Checked /\ Ordered /\ ImsOfOut
      /\ pubs \in Seq([at : Times, mtime : Times])
      /\ Current \in Versions /\ cf \in 1 .. Current
      /\ Current \in Nat /\ cf \in Versions
  BY DEF TypeOK, Versions
<1>1. CASE Tick
  <2>1. now' \in Times
    BY <1>1, <1>0, ClientAssumption DEF Tick, TypeOK, Times
  <2>. QED BY <1>1, <1>0, <2>1 DEF Tick, TypeOK, Sized, Checked, Ordered, ImsOfOut,
              OutIsAVersion, DoneIsTarget, IsVersion, Current, Target
<1>2. CASE Publish
  <2>1. /\ pubs' \in Seq([at : Times, mtime : Times])
        /\ Current' \in Versions /\ Current' = Current + 1
    BY <1>0, <1>2, PublishKeepsVersions
  <2>2. cf' \in 1 .. Current'
    BY <1>0, <1>2, <2>1 DEF Publish
  <2>3. TypeOK'
    BY <1>0, <1>2, <2>1, <2>2 DEF Publish, TypeOK
  <2>4. OutIsAVersion => OutIsAVersion'
    BY <1>0, <1>2, <2>1 DEF Publish, OutIsAVersion, IsVersion
  <2>5. Sized' /\ Checked' /\ ImsOfOut'
    BY <1>0, <1>2, <2>4 DEF Publish, Sized, Checked, ImsOfOut, Target, DoneIsTarget
  <2>6. Ordered'
    BY <1>0, <1>2, PublishKeepsOrder
  <2>. QED BY <2>3, <2>5, <2>6
<1>3. CASE Start
  <2>1. out.mtime \in Times /\ input.mtime \in Times
    BY <1>0, ClientAssumption DEF TypeOK, Files, Times
  <2>2. TypeOK'
    BY <1>0, <1>3, <2>1 DEF Start, TypeOK, Current
  <2>. QED BY <1>0, <1>3, <2>2 DEF Start, Sized, Checked, Ordered, ImsOfOut,
              OutIsAVersion, DoneIsTarget, IsVersion, Current, Target
<1>4. CASE UpToDate
  BY <1>0, <1>4 DEF UpToDate, TypeOK, Sized, Checked, Ordered, ImsOfOut,
              OutIsAVersion, DoneIsTarget, IsVersion, Current, Target
<1>5. CASE Load
  <2>1. Targets[Current] \in Seq(Nat)
    BY <1>0, ConstantFacts
  <2>2. buf' \in Seq(Nat) /\ Len(buf') = Len(Targets[Current])
    BY <1>5, <2>1 DEF Load
  <2>3. TypeOK'
    <3>1. cf' \in 1 .. Current'
      BY <1>0, <1>5 DEF Load, Current, Versions
    <3>2. fetched' \subseteq DOMAIN buf'
      BY <1>0, <1>5 DEF Load, Sized
    <3>. QED BY <1>0, <1>5, <2>2, <3>1, <3>2 DEF Load, TypeOK, Current
  <2>. QED BY <1>0, <1>5, <2>2, <2>3 DEF Load, Sized, Checked, Ordered, ImsOfOut,
              OutIsAVersion, DoneIsTarget, IsVersion, Current, Target
<1>6. CASE FeedSeeds
  <2>1. PICK S \in SUBSET (Occurring(input) \cup Occurring(partial)) : buf' = Filled(S)
    BY <1>6 DEF FeedSeeds
  <2>2. Len(buf) = Len(Target)
    BY <1>0, <1>6 DEF FeedSeeds, Sized
  <2>3. /\ buf' \in Seq(Nat) /\ Len(buf') = Len(Target) /\ DOMAIN buf' = DOMAIN buf
    BY <1>0, <2>1, <2>2, FilledKeeps
  <2>4. Target' = Target /\ Current' = Current
    BY <1>6 DEF FeedSeeds, Target, Current
  <2>5. TypeOK'
    BY <1>0, <1>6, <2>3, <2>4 DEF FeedSeeds, TypeOK
  <2>. QED BY <1>0, <1>6, <2>3, <2>4, <2>5 DEF FeedSeeds, Sized, Checked, Ordered, ImsOfOut,
              OutIsAVersion, DoneIsTarget, IsVersion
<1>7. CASE FetchSome
  <2>1. PICK i \in Missing : buf' = Filled({i}) /\ fetched' = fetched \cup {i}
    BY <1>7 DEF FetchSome
  <2>2. Len(buf) = Len(Target)
    BY <1>0, <1>7 DEF FetchSome, Sized
  <2>3. /\ buf' \in Seq(Nat) /\ Len(buf') = Len(Target) /\ DOMAIN buf' = DOMAIN buf
    BY <1>0, <2>1, <2>2, FilledKeeps
  <2>4. fetched' \subseteq DOMAIN buf'
    BY <1>0, <2>1, <2>3 DEF Missing, TypeOK
  <2>5. Target' = Target /\ Current' = Current
    BY <1>7 DEF FetchSome, Target, Current
  <2>6. TypeOK'
    BY <1>0, <1>7, <2>3, <2>4, <2>5 DEF FetchSome, TypeOK
  <2>. QED BY <1>0, <1>7, <2>3, <2>5, <2>6 DEF FetchSome, Sized, Checked, Ordered, ImsOfOut,
              OutIsAVersion, DoneIsTarget, IsVersion
<1>8. CASE FetchFails
  BY <1>0, <1>8 DEF FetchFails, TypeOK, Sized, Checked, Ordered, ImsOfOut,
              OutIsAVersion, DoneIsTarget, IsVersion, Current, Target
<1>9. CASE FetchDone
  BY <1>0, <1>9 DEF FetchDone, TypeOK, Sized, Checked, Ordered, ImsOfOut,
              OutIsAVersion, DoneIsTarget, IsVersion, Current, Target
<1>10. CASE Verify
  <2>1. Digested = Versions => buf = Target
    BY <1>0, <1>10 DEF Verify
  <2>. QED BY <1>0, <1>10, <2>1 DEF Verify, TypeOK, Sized, Checked, Ordered, ImsOfOut,
              OutIsAVersion, DoneIsTarget, IsVersion, Current, Target
<1>11. CASE VerifyFails
  BY <1>0, <1>11 DEF VerifyFails, TypeOK, Sized, Checked, Ordered, ImsOfOut,
              OutIsAVersion, DoneIsTarget, IsVersion, Current, Target
<1>12. CASE Stage
  <2>1. partial' \in Files
    BY <1>0, <1>12, FileType, EmptySeq DEF Stage, TypeOK
  <2>. QED BY <1>0, <1>12, <2>1 DEF Stage, TypeOK, Sized, Checked, Ordered, ImsOfOut,
              OutIsAVersion, DoneIsTarget, IsVersion, Current, Target
<1>13. CASE Write
  <2>1. partial' \in Files /\ partial'.data = buf /\ partial'.exists
    BY <1>0, <1>13, FileType DEF Write, TypeOK, File
  <2>. QED BY <1>0, <1>13, <2>1 DEF Write, TypeOK, Sized, Checked, Ordered, ImsOfOut,
              OutIsAVersion, DoneIsTarget, IsVersion, Current, Target
<1>14. CASE Rename
  <2>1. out' \in Files /\ partial' \in Files
    BY <1>0, <1>14, AbsentType DEF Rename, TypeOK
  <2>2. Digested = Versions => out'.data = Targets[cf]
    BY <1>0, <1>14 DEF Rename, Checked, Target
  <2>. QED BY <1>0, <1>14, <2>1, <2>2 DEF Rename, TypeOK, Sized, Checked, Ordered, ImsOfOut,
              OutIsAVersion, DoneIsTarget, IsVersion, Current, Target
<1>15. CASE Chtimes
  <2>0. cf \in 1 .. Len(pubs)
    BY <1>0 DEF Current
  <2>1. pubs[cf] \in [at : Times, mtime : Times]
    BY <1>0, <2>0, ElementOfSeq
  <2>2. out' \in Files /\ out'.exists = out.exists /\ out'.data = out.data
    BY <1>0, <1>15, <2>1 DEF Chtimes, TypeOK, Files
  <2>. QED BY <1>0, <1>15, <2>2 DEF Chtimes, TypeOK, Sized, Checked, Ordered, ImsOfOut,
              OutIsAVersion, DoneIsTarget, IsVersion, Current, Target
<1>16. CASE Stop
  <2>1. partial' \in Files
    <3>1. CASE pc = "write"
      <4>1. PICK n \in 0 .. Len(buf) : partial' = File(SubSeq(buf, 1, n), now)
        BY <1>16, <3>1 DEF Stop
      <4>2. SubSeq(buf, 1, n) \in Seq(Nat)
        BY <1>0, <4>1, SubSeqProperties DEF TypeOK
      <4>. QED BY <1>0, <4>1, <4>2, FileType DEF TypeOK
    <3>. QED BY <1>0, <1>16, <3>1 DEF Stop, TypeOK
  <2>2. stops' \in 0 .. MaxStops
    BY <1>0, <1>16, ClientAssumption DEF Stop, TypeOK
  <2>. QED BY <1>0, <1>16, <2>1, <2>2 DEF Stop, TypeOK, Sized, Checked, Ordered, ImsOfOut,
              OutIsAVersion, DoneIsTarget, IsVersion, Current, Target
<1>17. CASE UNCHANGED vars
  BY <1>0, <1>17 DEF vars, TypeOK, Sized, Checked, Ordered, ImsOfOut,
              OutIsAVersion, DoneIsTarget, IsVersion, Current, Target
<1>. QED
  BY <1>1, <1>2, <1>3, <1>4, <1>5, <1>6, <1>7, <1>8, <1>9, <1>10, <1>11, <1>12,
     <1>13, <1>14, <1>15, <1>16, <1>17 DEF Next, Run

-----------------------------------------------------------------------------
(***************************************************************************)
(* The inductive invariant holds.                                          *)
(***************************************************************************)
THEOREM Invariance == Spec => []IInv
<1>1. Init => IInv
  BY InitIInv
<1>2. IInv /\ [Next]_vars => IInv'
  BY StepIInv
<1>. QED BY <1>1, <1>2, PTL DEF Spec

(***************************************************************************)
(* The output is absent or a published version, whole and unmixed, at      *)
(* every step of every run and wherever runs stop, if every control file   *)
(* has a digest: the check before the write and the rename after it are    *)
(* all that takes.                                                         *)
(***************************************************************************)
THEOREM OutputIsAVersion ==
  ASSUME Digested = Versions
  PROVE  Spec => []OutIsAVersion
<1>1. IInv => OutIsAVersion
  BY DEF IInv, Checked
<1>. QED BY <1>1, Invariance, PTL

(***************************************************************************)
(* Under the same condition, a run that reports success has put in place   *)
(* the version whose control file it loaded, whatever .partial there was   *)
(* when it started and whatever was published since.                       *)
(***************************************************************************)
THEOREM DoneHasTarget ==
  ASSUME Digested = Versions
  PROVE  Spec => []DoneIsTarget
<1>1. IInv => DoneIsTarget
  BY DEF IInv, Checked
<1>. QED BY <1>1, Invariance, PTL

(***************************************************************************)
(* An output that carries the time its control file gave it is reported up *)
(* to date only if it is what is published: that version was made before   *)
(* it was put out, and put out before any later one.                       *)
(***************************************************************************)
THEOREM StampedUpToDate == Spec => []StampedUpToDateIsTrue
<1>1. IInv => StampedUpToDateIsTrue
  <2> SUFFICES ASSUME IInv, pc = "load", NotModified, OutGiven, out.exists, Stamped(out)
               PROVE  out.data = Targets[Current]
    BY DEF StampedUpToDateIsTrue
  <2>1. PICK v \in 1 .. Current : out.data = Targets[v] /\ out.mtime = pubs[v].mtime
    BY DEF Stamped
  <2>2. pubs[Current].at <= pubs[v].mtime
    BY <2>1 DEF IInv, ImsOfOut, NotModified
  <2>3. /\ v \in Versions /\ Current \in Versions /\ v <= Current
        /\ v \in 1 .. Len(pubs) /\ Current \in 1 .. Len(pubs)
        /\ pubs \in Seq([at : Times, mtime : Times])
    BY <2>1 DEF IInv, TypeOK, Versions, Current
  <2>4. pubs[v] \in [at : Times, mtime : Times]
    BY <2>3, ElementOfSeq
  <2>5. pubs[Current] \in [at : Times, mtime : Times]
    BY <2>3, ElementOfSeq
  <2>6. /\ pubs[v].mtime \in Int /\ pubs[v].at \in Int /\ pubs[Current].at \in Int
    BY <2>4, <2>5, ClientAssumption DEF Times
  <2>7. pubs[v].mtime <= pubs[v].at
    BY <2>3 DEF IInv, Ordered
  <2>8. v < Current => pubs[v].at < pubs[Current].at
    BY <2>3 DEF IInv, Ordered
  <2>9. v = Current
    BY <2>2, <2>3, <2>6, <2>7, <2>8 DEF Versions
  <2>. QED BY <2>1, <2>9
<1>. QED BY <1>1, Invariance, PTL
=============================================================================
