------------------------------- MODULE Client -------------------------------
(***************************************************************************)
(* Runs of gozsync (cmd/gozsync/main.go) against one published .zsync, one *)
(* after another and each of them liable to stop anywhere: the conditional *)
(* GET of the control file, the two seeds, the download, the check of the  *)
(* whole file, and the write to <output>.partial, renamed into place.      *)
(* Meanwhile the publisher puts out new versions.                          *)
(*                                                                         *)
(* A file is the sequence of its blocks here; 0 is a block nobody filled.  *)
(* That seeds and mirrors only supply blocks of the target is what         *)
(* Matcher.tla and Fetch.tla show of them.                                 *)
(***************************************************************************)
EXTENDS Integers, Sequences, FiniteSets

CONSTANTS
  Targets,     \* the versions of the target, oldest first
  Digested,    \* the versions whose control file has a digest of the file
  Dated,       \* the versions whose control file has an MTime
  Inputs,      \* files that may be there as --input
  OutGiven,    \* whether --output names the output
  Omitting,    \* whether a mirror may omit parts it was asked for
  Lag,         \* how many versions a mirror may lag behind
  Stops,       \* the points of a run at which it may stop or fail
  MaxTime,     \* bound: the clock, in seconds
  MaxStops     \* bound: how many runs stop

Versions == 1 .. Len(Targets)

Absent        == [exists |-> FALSE, data |-> << >>, mtime |-> 0]
File(data, t) == [exists |-> TRUE, data |-> data, mtime |-> t]

ASSUME ClientAssumption ==
  /\ Targets \in Seq(Seq(Nat \ {0})) /\ Targets # << >>
  /\ \A v, w \in Versions : Targets[v] = Targets[w] => v = w
  /\ Digested \subseteq Versions /\ Dated \subseteq Versions
  /\ OutGiven \in BOOLEAN /\ Omitting \in BOOLEAN /\ Lag \in Nat
  /\ MaxTime \in Nat /\ MaxTime >= 3 /\ MaxStops \in Nat
  /\ \A f \in Inputs : f.mtime \in 0 .. MaxTime

VARIABLES
  now,       \* the clock
  pubs,      \* the control files published: time of the .zsync, and its MTime
  out,       \* the output file
  partial,   \* <output>.partial
  input,     \* the --input file
  pc,        \* where the run stands, "idle" between runs
  ims,       \* If-Modified-Since of this run, 0 for none
  cf,        \* the version whose control file this run has loaded
  buf,       \* the matcher's buffer
  fetched,   \* blocks this run, or the last one, has downloaded
  result,    \* how the last run ended
  stops      \* how many runs have stopped

vars == <<now, pubs, out, partial, input, pc, ims, cf, buf, fetched, result, stops>>

Current == Len(pubs)       \* the version that is published
Target  == Targets[cf]
Missing == { i \in DOMAIN buf : buf[i] = 0 }

-----------------------------------------------------------------------------
(***************************************************************************)
(* Some version is out, and the output is absent or an earlier download.   *)
(***************************************************************************)
Init ==
  /\ now = 3
  /\ pubs = << [at |-> 2, mtime |-> 2] >>
  /\ out \in { Absent, File(Targets[1], 2) }
  /\ partial = Absent
  /\ input \in Inputs
  /\ pc = "idle" /\ ims = 0 /\ cf = 1 /\ buf = << >> /\ fetched = {}
  /\ result = "none" /\ stops = 0

(***************************************************************************)
(* The publisher: a later version, made at some time up to now.  Two       *)
(* publications are at least a second apart: the dates of HTTP have no     *)
(* smaller unit, and within one second no conditional GET tells the later  *)
(* from the earlier.                                                       *)
(***************************************************************************)
Tick ==
  /\ now < MaxTime
  /\ now' = now + 1
  /\ UNCHANGED <<pubs, out, partial, input, pc, ims, cf, buf, fetched, result, stops>>

Publish ==
  /\ Current + 1 \in Versions /\ now > pubs[Current].at
  /\ \E made \in 1 .. now : pubs' = Append(pubs, [at |-> now, mtime |-> made])
  /\ UNCHANGED <<now, out, partial, input, pc, ims, cf, buf, fetched, result, stops>>

-----------------------------------------------------------------------------
(***************************************************************************)
(* The time of the output, if --output is given and there, and otherwise   *)
(* that of the seed, goes into the conditional GET.                        *)
(***************************************************************************)
\* Mutant: the later of the two times.
StartLater ==
  /\ pc = "idle"
  /\ ims' = IF OutGiven /\ out.mtime > input.mtime THEN out.mtime ELSE input.mtime
  /\ pc' = "load" /\ result' = "none" /\ fetched' = {}
  /\ UNCHANGED <<now, pubs, out, partial, input, cf, buf, stops>>

Start ==
  /\ pc = "idle"
  /\ ims' = IF OutGiven /\ out.exists THEN out.mtime ELSE input.mtime
  /\ pc' = "load" /\ result' = "none" /\ fetched' = {}
  /\ UNCHANGED <<now, pubs, out, partial, input, cf, buf, stops>>

NotModified == ims # 0 /\ pubs[Current].at <= ims   \* what an HTTP server makes of it

UpToDate ==
  /\ pc = "load" /\ NotModified
  /\ pc' = "idle" /\ result' = "uptodate"
  /\ UNCHANGED <<now, pubs, out, partial, input, ims, cf, buf, fetched, stops>>

Load ==
  /\ pc = "load" /\ ~ NotModified
  /\ cf' = Current
  /\ buf' = [i \in DOMAIN Targets[Current] |-> 0]
  /\ pc' = "seeds"
  /\ UNCHANGED <<now, pubs, out, partial, input, ims, fetched, result, stops>>

(***************************************************************************)
(* FeedSeed of --input and of a partial file that is there: some of the    *)
(* blocks of the target that occur in them.                                *)
(***************************************************************************)
Occurring(f) == { i \in DOMAIN buf : \E k \in DOMAIN f.data : f.data[k] = Target[i] }

Filled(S) == [i \in DOMAIN buf |-> IF i \in S THEN Target[i] ELSE buf[i]]

FeedSeeds ==
  /\ pc = "seeds"
  /\ \E S \in SUBSET (Occurring(input) \cup Occurring(partial)) : buf' = Filled(S)
  /\ pc' = "fetch"
  /\ UNCHANGED <<now, pubs, out, partial, input, ims, cf, fetched, result, stops>>

(***************************************************************************)
(* FetchBlocksMulti: of the version a mirror serves, only those blocks     *)
(* pass that are also blocks of the target; at another one the download    *)
(* fails.  It returns when all are in, or when a mirror leaves out parts   *)
(* it was asked for.                                                       *)
(***************************************************************************)
Served == { v \in Versions : Current - Lag <= v /\ v <= Current }

Passes(v, i) == i \in DOMAIN Targets[v] /\ Targets[v][i] = Target[i]

FetchSome ==
  /\ pc = "fetch"
  /\ \E v \in Served, i \in Missing :
       /\ Passes(v, i)
       /\ buf' = Filled({i})
       /\ fetched' = fetched \cup {i}
  /\ UNCHANGED <<now, pubs, out, partial, input, pc, ims, cf, result, stops>>

FetchFails ==
  /\ pc = "fetch"
  /\ \E v \in Served, i \in Missing : ~ Passes(v, i)
  /\ pc' = "idle" /\ result' = "failed"
  /\ UNCHANGED <<now, pubs, out, partial, input, ims, cf, buf, fetched, stops>>

FetchDone ==
  /\ pc = "fetch"
  /\ Missing = {} \/ Omitting
  /\ pc' = "verify"
  /\ UNCHANGED <<now, pubs, out, partial, input, ims, cf, buf, fetched, result, stops>>

(***************************************************************************)
(* VerifyFileHash: without a digest there is nothing to compare.           *)
(***************************************************************************)
\* Mutant: the digest is not compared.
VerifyNothing ==
  /\ pc = "verify"
  /\ pc' = "stage"
  /\ UNCHANGED <<now, pubs, out, partial, input, ims, cf, buf, fetched, result, stops>>

Verify ==
  /\ pc = "verify"
  /\ cf \in Digested => buf = Target
  /\ pc' = "stage"
  /\ UNCHANGED <<now, pubs, out, partial, input, ims, cf, buf, fetched, result, stops>>

VerifyFails ==
  /\ pc = "verify"
  /\ cf \in Digested /\ buf # Target
  /\ pc' = "idle" /\ result' = "failed"
  /\ UNCHANGED <<now, pubs, out, partial, input, ims, cf, buf, fetched, stops>>

(***************************************************************************)
(* os.WriteFile empties the partial file before it writes it; then Rename  *)
(* and, with an MTime, Chtimes, whose failure is only a warning.           *)
(***************************************************************************)
\* Mutant: the partial file is created, never overwritten.
StageExclusive ==
  /\ pc = "stage"
  /\ IF partial.exists
     THEN pc' = "idle" /\ result' = "failed" /\ partial' = partial
     ELSE pc' = "write" /\ result' = result /\ partial' = File(<< >>, now)
  /\ UNCHANGED <<now, pubs, out, input, ims, cf, buf, fetched, stops>>

\* Mutant: a partial file that is there is taken for what was to be written.
StageKept ==
  /\ pc = "stage"
  /\ IF partial.exists
     THEN pc' = "rename" /\ partial' = partial
     ELSE pc' = "write" /\ partial' = File(<< >>, now)
  /\ UNCHANGED <<now, pubs, out, input, ims, cf, buf, fetched, result, stops>>

Stage ==
  /\ pc = "stage"
  /\ partial' = File(<< >>, now)
  /\ pc' = "write"
  /\ UNCHANGED <<now, pubs, out, input, ims, cf, buf, fetched, result, stops>>

Write ==
  /\ pc = "write"
  /\ partial' = File(buf, now)
  /\ pc' = "rename"
  /\ UNCHANGED <<now, pubs, out, input, ims, cf, buf, fetched, result, stops>>

Rename ==
  /\ pc = "rename"
  /\ out' = partial /\ partial' = Absent
  /\ pc' = "chtimes"
  /\ UNCHANGED <<now, pubs, input, ims, cf, buf, fetched, result, stops>>

Chtimes ==
  /\ pc = "chtimes"
  /\ \/ out' = IF cf \in Dated THEN [out EXCEPT !.mtime = pubs[cf].mtime] ELSE out
     \/ "chtimes" \in Stops /\ out' = out
  /\ pc' = "idle" /\ result' = "done"
  /\ UNCHANGED <<now, pubs, partial, input, ims, cf, buf, fetched, stops>>

(***************************************************************************)
(* The run is killed, or a call fails.  Stopped while it writes, it leaves *)
(* the beginning of the file.                                              *)
(***************************************************************************)
Stop ==
  /\ pc \in Stops /\ stops < MaxStops
  /\ pc' = "idle" /\ result' = "failed" /\ stops' = stops + 1
  /\ IF pc = "write"
     THEN \E n \in 0 .. Len(buf) : partial' = File(SubSeq(buf, 1, n), now)
     ELSE partial' = partial
  /\ UNCHANGED <<now, pubs, out, input, ims, cf, buf, fetched>>

Run == UpToDate \/ Load \/ FeedSeeds \/ FetchSome \/ FetchFails \/ FetchDone
         \/ Verify \/ VerifyFails \/ Stage \/ Write \/ Rename \/ Chtimes

Next == Tick \/ Publish \/ Start \/ Run \/ Stop

\* A run goes on until it ends or stops, and gozsync is run again and again.
Spec == Init /\ [][Next]_vars /\ WF_vars(Start) /\ WF_vars(Run)

-----------------------------------------------------------------------------
Times == 0 .. MaxTime
Files == [exists : BOOLEAN, data : Seq(Nat), mtime : Times]

TypeOK ==
  /\ now \in Times
  /\ pubs \in Seq([at : Times, mtime : Times]) /\ Current \in Versions
  /\ out \in Files /\ partial \in Files /\ input \in Inputs
  /\ pc \in {"idle", "load", "seeds", "fetch", "verify",
             "stage", "write", "rename", "chtimes"}
  /\ ims \in Times
  /\ cf \in 1 .. Current
  /\ buf \in Seq(Nat)
  /\ fetched \subseteq DOMAIN buf
  /\ result \in {"none", "uptodate", "done", "failed"}
  /\ stops \in 0 .. MaxStops

(***************************************************************************)
(* The output is never half a file and never a mixture of versions: it is  *)
(* absent, or one of the versions that were published, at every moment of  *)
(* every run and wherever runs stop; a mirror that omits parts cannot      *)
(* change that while the control files carry a digest.                     *)
(***************************************************************************)
IsVersion(f) == \E v \in 1 .. Current : f.data = Targets[v]

OutIsAVersion == out.exists => IsVersion(out)

(***************************************************************************)
(* A run that reports success has put in place the version whose control   *)
(* file it loaded, and no other: not what an earlier run left in .partial, *)
(* be it whole or cut short, nor what was published while it downloaded.   *)
(***************************************************************************)
DoneIsTarget ==
  pc = "idle" /\ result = "done" => out.exists /\ out.data = Targets[cf]

(***************************************************************************)
(* "Already up to date" is true: when the server answers 304, the output   *)
(* is there and is what is published.                                      *)
(***************************************************************************)
UpToDateIsTrue ==
  pc = "load" /\ NotModified => out.exists /\ out.data = Targets[Current]

(***************************************************************************)
(* It is, at least, for an output that still carries the time its control  *)
(* file gave it: a later version, published in a later second, is never    *)
(* taken for this one.  An output that a run left without its stamp has    *)
(* the time of the download, and is not spoken of.                         *)
(***************************************************************************)
Stamped(f) ==
  \E v \in 1 .. Current : f.data = Targets[v] /\ f.mtime = pubs[v].mtime

StampedUpToDateIsTrue ==
  pc = "load" /\ NotModified /\ OutGiven /\ out.exists /\ Stamped(out) =>
    out.data = Targets[Current]

(***************************************************************************)
(* "A crashed or interrupted run leaves a .partial behind": what a run has *)
(* downloaded is there for the next one.                                   *)
(***************************************************************************)
InterruptedLeavesPartial ==
  pc = "idle" /\ result = "failed" /\ fetched # {} => partial.exists

(***************************************************************************)
(* Nothing that a stopped run leaves behind, and nothing published         *)
(* meanwhile, keeps the client from the last version: once that is out,    *)
(* the output becomes it.  This is for mirrors that serve what is          *)
(* published, and for runs that stop at any point but between Rename and   *)
(* Chtimes: the output of one that stops there has the time of the         *)
(* download, and may be taken for a later version for ever.                *)
(***************************************************************************)
Converges ==
  \A v \in Versions :
    <>[](Current = v) => <>[](out.exists /\ out.data = Targets[v])
=============================================================================
