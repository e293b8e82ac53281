# A verification project for zsync2

TLA+ modules that model `github.com/go-deltasync/zsync2`, configurations that
model-check them with TLC, and proofs checked by TLAPS. Paths below are relative
to the repository; `zsync/` stands for `internal/zsync/`.

## The system

A publisher makes a `.zsync` control file of a target: its length, block size
and, for each block, a truncated weak checksum and a prefix of a strong hash. A
client that has an older file rebuilds the target from the blocks it finds
there, and fetches the others with HTTP range requests. For a gzip target the
control file may also list restart points in the compressed stream (Z-Map2).

| Component | State | Operations | Source |
|---|---|---|---|
| Weak checksum | none (two 16-bit sums) | `CalcRsum`, the rolling update, mask, truncation | `zsync/rsum.go`, `matcher.go:199-224` |
| Matcher | hash table, `out`, `got`, `nGot`; inside `FeedSeed`: the seed, `x`, `r0`, `r1`, `haveR1` | `NewMatcher`, `FeedSeed`, `AcceptDownloadedBlock`, `MissingRanges`, `HaveBlock` | `zsync/matcher.go` |
| Fetch client | per call: the pass, the chunk underway, the sticky mirror | `FetchBlocksMulti`, `tryBatchedRanges`, `feedMultipartParts`, the failover loops | `zsync/fetch.go` |
| File-wide check | none | `VerifyFileHash`, `VerifySHA1` | `zsync/fetch.go:488-525` |
| `gozsync` | the output, `<output>.partial`, the seed, their times | one `run`, again and again | `cmd/gozsync/main.go` |
| Control file codec | the `ControlFile` so far and the place in the header | `Read`, `applyHeader`, `Write` | `zsync/control.go` |
| Make, hash lengths | none | `MakeWithAlgo`, `ComputeHashLengthsAlgo` | `zsync/control.go`, `rsum.go` |
| Deflate walker, Z-Map2 | offsets in bits and bytes, place in the block, restart points | `Walk`, `EncodeZMap2`, `MakeWithZMap2` | `zsync/deflate_walker.go` |
| `gozsyncmake` | the control file underway | one call of Make, one write in place | `cmd/gozsyncmake/main.go` |
| Public API | none | re-exports | `zsync2.go` |

How they interact. `gozsyncmake` takes the size of its input, walks it if it is
gzip, hashes what it then reads, and writes the control file in place; from then
on anybody may read it. `gozsync` reads the control file (a conditional GET),
builds a matcher from it, feeds it the `--input` file and a left-over
`.partial`, asks it for the missing ranges, hands these to the fetch client,
which calls back into `AcceptDownloadedBlock` of the same matcher, checks the
whole buffer, writes it to `.partial`, and renames that. Each program is
synchronous and in one goroutine: the interleavings that matter are with the
servers, the publisher, readers of what is being written, and the end of the
process.

What is hard, and what makes each component correct:

- *Checksum and matcher.* Incremental sums that wrap, a second window kept in
  lockstep, a filter that must not lose blocks at either edge, a table key that
  mixes masked and unmasked words, two blocks filled by one loop step, padding
  that may be read and never written. Correct means: what is filled is the
  target's, nothing that should be found is lost, the count and the ranges are
  exact.
- *Fetch client.* Answers of eight shapes, two passes over the same runs,
  failover that ends in a commitment to one mirror, parts in any order and
  number. Correct means: no byte of another file gets in, nil means complete,
  requests are bounded, a good mirror is enough.
- *gozsync.* Truncate, write, rename, set the time, and a stop between any two;
  the target replaced while a run is on; mirrors that lag; the file times that
  decide whether anything is downloaded at all. Correct means: the output is a
  published version at every moment, "up to date" is true, a stopped run does
  no lasting harm.
- *Codec.* Header lines whose effect depends on their order; widths that are only
  sound for the algorithm in force after the last line. Correct means: what is
  accepted is coherent, and survives being written again.
- *Deflate walker.* Restart points are only looked for between symbols and
  chunks, and their distances must fit in fields of 16 and 15 bits; the place in
  a block is not on the wire, so writer and reader count it separately. Correct
  means: the distances fit, and the reader gets back what the walker recorded.
- *gozsyncmake.* Widths and block size from the size `Stat` gave, blocks from what
  is read later; a file written in place under the eyes of its readers. Correct
  means: a part is never taken for the whole, and what is finished reads back.

## The modules

| Module | Models | Extends |
|---|---|---|
| `Rsum` | the weak checksum, parameterised by the values of a byte (`Radix`, 256 in the code) | |
| `Reconstruction` | abstract: blocks appear in a buffer with the target's bytes and stay | |
| `BlockStore` | the matcher's buffer and the operations on it | |
| `Matcher` | `FeedSeed`, one candidate or one byte of slide per step | `BlockStore`, `Rsum` |
| `Fetch` | `FetchBlocksMulti`, one request or one part of an answer per step | `BlockStore` |
| `Client` | runs of `gozsync` and the publisher, one call per step | |
| `ZMap` | restart points and their form on the wire, both ways | |
| `Deflate` | the walk, one block header, chunk or symbol per step | `ZMap` |
| `ControlFile` | `Read` line by line, and `Write` | `ZMap` |
| `Make` | `gozsyncmake`, its output file, and readers of it and of other control files | `Deflate`, `ControlFile` |
| `MC*` | instances for TLC | |
| `InductiveSets` | induction, least and greatest members, for sets of naturals | |
| `*Proofs` | theorems about the module they are named after | |

`Matcher` and `Fetch` share `BlockStore` and implement `Reconstruction`; `Client`
uses what they promise; `Make` composes the walk, the codec and the file.

State and actions against the code:

- `BlockStore`: `out`, `got` and `nGot` are the fields of the same names; `got`
  is the set of indices that are true, `out` a function on offsets. `cf.target`
  is the file the control file was made from; the program knows it only through
  `CalcRsum` and `Strong` of its blocks, and so do the operations here.
  `acceptBlock` takes a function from blocks to data, because `FeedSeed` may
  fill two blocks at a candidate and a body several; the order of the copies
  does not matter, the blocks being distinct. `MissingRanges` is the scan of the
  code, `MissingRuns` its meaning as a set.
- `Matcher`: `FeedSeed` is the code up to the loop, `TryCandidate` one pass of
  the inner loop (it always takes the lowest index left, as the table lists
  them), `Slide` the rest of the outer loop with the lookup at the new offset,
  `EndOfSeed` the break. `Download` is `AcceptDownloadedBlock` with any payload.
- `Fetch`: `Call`, `Ask`, `PassDone` are `FetchBlocksMulti` and
  `tryBatchedRanges` between requests; an answer in `Arrivals` is received by
  `Failover`, `Refused`, `InParts`, `FallBack` or `OneRun`, which is the
  classification of status, length and content type; `FeedPart` is one turn of
  the loop in `feedMultipartParts`. `FeedRun` and `Rejected` are the block loop
  that occurs in both passes: blocks go in up to the first that is short or fails.
  A mirror has a set of modes (`Modes`), and each request gets an answer of one
  of them. A mirror asked for one range never answers in parts.
- `Client`: files are sequences of blocks with a time. `Start` computes
  `If-Modified-Since`; `UpToDate` and `Load` are `loadControlFile` for 304 and
  200; `FeedSeeds`, `FetchSome`, `FetchFails`, `FetchDone` are the two callees
  reduced to what `Matcher` and `Fetch` establish of them (only blocks of the
  target go in; some that occur in a seed are found; success may leave blocks
  missing if a server omits parts); `Verify`, `Stage`, `Write`, `Rename`,
  `Chtimes` are the calls at the end of `run`, of which `os.WriteFile` is two
  steps because it truncates first. `Stop` ends a run anywhere.
- `ZMap`: an entry has the fields of `ZMapEntry`; on the wire it is two words
  (`in`, `ob`), the flag in the second being its upper half. `UpTo` is the
  decoding loop of `applyHeader` with its three running values.
- `Deflate`: `bitPos`, `inflated`, `entries`, `blockCount` are the walker's; its
  `lastCheckpoint*` fields are those of the last entry. `StoredBlock` and
  `HuffmanBlock` are a turn of the loop in `Walk` up to the first byte or symbol,
  `StoredChunk` a turn of `walkStored`, `BodySymbol` and `EndOfBlock` turns of
  `decodeBlockBody`. The stream is chosen as it is read: what a symbol takes and
  gives is an input, as is the length of the tables in front of the symbols.
- `ControlFile`: a file is its header lines, whether the blank line is there, and
  the number of bytes after it. `Magic`, `ApplyLine` and `BlockTable` are the
  parts of `Read`; `admits` has the error returns of `applyHeader`, `applyHeader`
  its assignments, `sound` the checks after the header. A digest stands as the
  name of its algorithm.
- `Make`: a call is a record of its flags and of the names of its input, and
  `target`, `URLsFor` and `ZURLsFor` are what `run` makes of those. `Start` is the
  front of `run`, `WalkStep` and `MakeGz` are
  `MakeWithZMap2`, `MakePlain` is `MakeWithAlgo` with the two sizes that may
  differ; `Create`, `Flush`, `WriteFails` are the writing, a reader finding the
  first so many pieces of the file. `ReadMade`, `ReadOther` and `Rewrite` are
  calls of `Read` on that file, on a file of another program, and on what `Write`
  makes of what was read. `ComputeHashLengthsAlgo` is the set of the widths it may
  come to: the code takes logarithms in floating point, the model the whole
  numbers below and above, between which everything the code computes stays.

## The runs

| Run | Properties | What it shows |
|---|---|---|
| `MatcherScan` | `RollingIsExact`, `WindowsTaken`, `WholeTargetFound`, `OwnBytesSuffice` | One seed, every target of up to 5 bytes and seed of up to 6, both filters, 2 and 4 rsum bytes: sums exact, no window lost that should be found, a seed that has the whole target in it at any offset leaves nothing missing, nor does the target itself. |
| `MatcherSession` | `TypeOK`, `GotIsTarget`, `CountExact`, `MissingRangesExact`, `ImplementsReconstruction` | Two seeds and any downloads into one matcher. |
| `FetchFarms` | `TypeOK`, `GotIsTarget`, `CountExact`, `ServedRunsFilled`, `HonestSuccessIsComplete`, `RequestBudget`, `GoodMirrorNoError`, `ImplementsReconstruction`, `GoodMirrorSuffices` | Two mirrors, each in any of 13 modes or wavering between one and being down; any subset of the blocks there before. One good mirror among any that are down is enough: no error, and in the end the file. |
| `ClientFiles` | `OutIsAVersion`, `DoneIsTarget`, `StampedUpToDateIsTrue` | Three versions, two stops anywhere, mirrors one version behind and mirrors that omit parts, one version without MTime: a run that reports success has put the version it loaded in place, and nothing else ever gets there but whole versions. |
| `ClientConverges` | `Converges` | One stop anywhere but between `Rename` and `Chtimes`, mirrors that serve what is published; then the last version ends up in place. |
| `MakeFiles` | `MakeTypeOK`, `CheckpointsInTime`, `MapReadsBack`, `ReadsBackWhatWasMade`, `RewriteReadsBack`, `AcceptedIsCoherent` | Nine calls of `gozsyncmake`, some with an empty name, URL or Z-URL, over plain and gzip inputs that change in between, readers at any moment and after any failure; control files of other programs with up to three more headers in any order. |

Six more runs have TLC exhibit where the code does not do what the text around
it says:

| Run | Property | Disagreement |
|---|---|---|
| `MatcherRsum1` | `EveryOccurrenceTaken` | `Read` admits `rsum_bytes` = 1, and the matcher then compares a whole word with its low byte: most blocks are never found. |
| `FetchOmitted` | `SuccessIsComplete` | `feedMultipartParts` says blocks missed through coalesced parts surface at the strong-hash check; nothing checks them, and the call returns nil. |
| `ClientUpToDate` | `UpToDateIsTrue` | A seed newer than the `.zsync` yields "already up to date" with no output written. |
| `ClientInterrupted` | `InterruptedLeavesPartial` | `.partial` is written only after download and check, so an interrupted download is lost. |
| `MakeEncodes` | `EncodeIsTotal` | A checkpoint that fires at 32768 bytes has a distance the 15-bit field cannot hold, and the whole table is dropped; `deflate_walker.go:742-744` says the encode is total. |
| `MakeDigest` | `IntactPasses` | A `File-Hash` in MD4 on a zsync2 file is accepted, and every intact download then fails its check. |

Smaller disagreements have no run. `zsync/doc.go:103-105` says the two-match
filter is not applied, which `matcher.go:169-174` does, and `doc.go:106-108` that
multipart batching is not driven from the fetch client, which it is. A last batch
of one run makes a conforming server's answer look like a refusal, and every run
is fetched again (`fetch.go:216-218` has batching as the cheaper way). A comment
in `rsum.go` gives 2 4 16 for a target of 1 GB; the code gives 2 3 16. The floor
of 16 for BLAKE3 does not apply when `Stat` says 0. Of a gzip file with several
members the restart points cover only the first.

## Bounds

- *Matcher.* Blocks of two bytes with values 0 and 2, and checksum words of two
  bits (`Radix` = 2). In the code words have 16 bits and blocks thousands of
  bytes, so sums wrap and distinct blocks collide; with these values they do so
  in blocks of two (0 0 and 2 0 have the same B, 0 0 and 2 2 the same A).
  Targets reach three blocks, the last one short, so a block may have a
  successor that is last, equal blocks occur, and a seed of six bytes has a
  next window at three offsets and none at the last ones. `Strong` is the
  identity there: a hash without collisions.
- *Fetch.* Targets of 9, 6 and 1 bytes in blocks of two (five, three and one
  blocks; a short last block equal to the first; equal blocks), any subset
  missing, hence up to three runs; chunks of two, so a batch has a full chunk and
  a last one of one run. Two mirrors are the least with failover and a sticky
  choice.
- *Client.* Three versions that share blocks in place and moved and differ in
  length; a clock to 5, which puts a publication before, at and after every file
  time; one or two stops. `MaxTime` and `MaxStops` are in the guards of `Tick` and
  `Stop`; there is no other bound. Publications stop after the last version.
- *Make.* The walk has the code's proportions on a small scale. `OutField` =
  `Interval` = 4, as both are 2^15 in the code, so that the distance that just
  fails to fit occurs; `Margin` and one chunk of `Chunk` * `ByteBits` bits fill the
  field of bits exactly (14 + 2 = 16), the tightest values the assumption
  `MarginAssumption` admits (60000 + 256 * 8 < 65536 in the code). A byte has two
  bits; a symbol takes one bit for one byte or two bits for three, so that either
  threshold may be the one that is crossed, and by more than one. `MaxBits` = 22 is
  in the guards of `BlockStart` and `BodySymbol`: long enough for a checkpoint in a
  block, a second one, and a block after it. Sizes of 0, 1, 5000 and 2^27 bytes lie
  on both sides of one block and of the threshold for the block size
  (100,000,000), 5000 not being a power of two, with 0, 1 or 5000 bytes by the time they are read. Block sizes are
  the default, 1024, and 3, which `Make` rejects. The calls differ in what they
  leave out and in what they leave empty: one URL of two, one Z-URL of two, the
  name, and an input named `.gz`, of which no name is left. Control files of other programs have
  a magic line, sizes for a table of two rows, up to three of fifteen headers that
  contradict each other in pairs, and one byte too few or enough in the table.
  Three headers are what the interplay of `Hash-Algorithm`, `File-Hash` and
  `Hash-Lengths` takes.

`CHECK_DEADLOCK` is off where the system may stop: a matcher that nobody calls,
a download that has ended, a client after its last run in a 304, a control file
that is written and read.

## Fairness

- `Matcher`: weak fairness of the loop of `FeedSeed`: a call runs to its end.
  Nobody is bound to make one.
- `Fetch`: weak fairness of the next step: the call runs on and every request
  is answered or fails. The second half is an assumption on the network that
  the code does not enforce, `http.DefaultClient` having no timeout.
- `Client`: weak fairness of `Start` and of the steps of a run: `gozsync` is run
  again after it ends, and a run goes on until it ends or stops. `Tick`,
  `Publish` and `Stop` are never forced. `Converges` therefore speaks of the
  version that is published last, whichever it is.
- `Make` states none: nothing there has to happen.

## What is proved

For every value of the constants that satisfies the modules' assumptions, unless
a theorem says more:

- `InductiveSets`: induction, a least and a greatest member, for a set of
  naturals, from the well-foundedness of their order, and that a function defined
  by recursion on the naturals exists and is unique. The library's theorems for
  predicates cannot be instantiated here, so each proof by induction collects
  the numbers for which its claim holds in a set, and cites these.
- `RsumProofs`: `RollIsCalcRsum`: one step of the rolling update gives the
  checksum of the next window, for any radix and block size. The sum over a
  window is a recursive function; the proof compares the running sums of the
  two windows position by position.
- `BlockStoreProofs`: lemmas on the operations: the count stays exact, the
  strong hash decides what is accepted, a block that is put in holds the
  target's bytes, runs of missing blocks that start together are the same, and
  every missing block lies in one.
- `MatcherProofs`: the inductive invariant is `TypeOK`, `CountExact`, `SeedFits`
  (the seed is a whole number of windows long and the window lies in it, without
  which the indices of `Slide` mean nothing) and `RollingIsExact` (which needs
  `SeedFits` to know the bytes that enter). From it: `TypeCorrect`,
  `CountIsExact`, `RollingStaysExact`. Under `StrongInjective` (no two blocks
  share a stored checksum): `GotStaysTarget` and `Refinement`, by which every
  step is a step of `Reconstruction` or a stutter.
  - `NoWindowLost` (`WindowsTaken`) adds `InHand`: a block the current offset
    should yield is filled or still a candidate. It holds when the window arrives
    because exact sums of equal windows have equal hashes, and while candidates
    are tried because the one tried is taken unless it was filled. It assumes
    `FullWidth`, more than one rsum byte; `MatcherRsum1` shows why it must.
  - `RangesExact` (`MissingRangesExact`) is about the recursive function inside
    `MissingRanges`: that it has a solution is shown from the last block
    downwards, and that the solution lists runs, in order, apart and with nothing
    left over, by induction on the distance from the end. It needs nothing of the
    scan but the types.
  - `WholeTargetIsFound` (`WholeTargetFound`) follows from `WindowsTaken` and
    `SeedDone`, by which a scan that has ended has tried every window of its seed:
    where the target lies, each block is followed by the next, which is what the
    two-match filter asks. `OwnBytesLeaveNothing` takes the offset 0 in the padded
    target; it is what `OwnBytesSuffice` says apart from the scan coming to its end.
- `FetchProofs`: the inductive invariant is `TypeOK`, `CountExact`,
  `Bookkeeping` (which request is underway in which state, and that the second
  pass asks for one run at a time) and `ServedRunsFilled`. From it:
  `TypeCorrect`, `CountIsExact`, `ServedRunsAreFilled`; under `StrongInjective`
  again `GotStaysTarget` and `Refinement`, for any set of mirrors and answers.
  - `HonestSuccess` (`HonestSuccessIsComplete`) adds `Covered` (what is missing
    lies in runs still to be asked for, or asked for) and `Served` (each run asked
    for is filled, or a part for it is still to come). An order of the parts of
    an honest answer is injective on a finite set, hence leaves none out.
  - `RequestsBounded` (`RequestBudget`) adds a potential: requests sent, those that
    this pass may still need, and those of the second pass never exceed the
    budget. It assumes at least one mirror.
  - `GoodMirrorIsEnough` (`GoodMirrorNoError`) has the invariant `GoodSoFar`: while an
    answer is awaited a good mirror is left to ask, a pass has settled on none but a
    good one, and the parts still to be fed are runs of the target that were asked
    for. `SlicePasses` and `WholeFilePasses` say that the target's bytes pass the
    checks of every block of a run, as a slice and out of a whole file, the padded
    last block included; `Covered` makes the run a part is fed as the one it was
    made from. With `HonestSuccess` it is the safety half of
    `GoodMirrorSuffices`.
- `ClientProofs`: the inductive invariant is `TypeOK`, `Sized`, `Checked` (past
  the check the buffer is the target, before the rename so is `.partial`),
  `Ordered` (each publication is made before it is put out, and they are put out
  one after another) and `ImsOfOut` (the time sent is still that of the output).
  From it: `StampedUpToDate`, which rests on `Publish` putting out at most one
  version a second; and, if every control file has a digest, `OutputIsAVersion`
  and `DoneHasTarget` (`DoneIsTarget`). For these
  `Checked` follows the target through `.partial` and the rename to the end of the
  run, past what an earlier run may have left there.
- `DeflateProofs`: `WalkInTime` (`CheckpointsInTime`), of every stream and all
  intervals and margins that leave room in the field. The invariant is `Pace`: in a
  block the last restart point is less than `Interval` bytes and `Margin` bits
  back, between blocks less than a field of bits. `WalkReadsBack` (`MapReadsBack`)
  has the invariant `Counting` (the places in blocks go up by one from 0) and,
  without any state, that decoding undoes encoding for tables that are counted so,
  by induction on the entry. `RoomMakesItTotal` says what `MakeEncodes` refutes for
  the code's constants: were `Interval` and the largest gain of a step together at
  most `OutField`, every table would have an encoding.
- `MakeProofs`: `MakeInTime` and `MakeReadsBack`, the same of whole runs of
  `gozsyncmake`, whose other steps leave the walk alone; and `AcceptedCoherent`
  (`AcceptedIsCoherent`), for files with any number of header lines, from `ReadInv`:
  the file so far is coherent after every line, save for the widths, which are
  only checked at the end.
  - `MakeTypes` (`MakeTypeOK`), `MadeReadsBack` (`ReadsBackWhatWasMade`) and
    `RewrittenReadsBack` (`RewriteReadsBack`) rest on one inductive invariant,
    `Inv`, whose new part is `FilesInv`. `ReaderInv`: what is being read is
    well formed after every line, whoever wrote the file, and nothing in it is
    empty (`NoEmpty`), because `Read` rejects a header without a value. `MakerInv`: what is
    made `IsMade`, that is, `Writable` and changed by being read back only as far
    as the property admits. `OfMadeInv`: the file a reader has is a first part of
    the written one, and `Rereads` holds of it. `OfBeforeInv` is the same for a
    reader's own copy of what it read, which is there as a whole.
  - `Rereads` is the round trip, stated about the middle of the header as well:
    `SoFar` says that after the lines up to `next` the reader has exactly the
    values of those lines, the defaults for the others, and as many URLs as have
    come. One line comes in per step (`SoFarStep`): either it is one of the lines
    that occur once, and `HeaderPlaces` says that no later line has its key, or
    it is the next URL. At the end `SoFar` gives `Kept` (`SoFarEnd`): the file that
    was written, without `Z-Filename` and `Safe`. A file cut short has fewer
    lines, no blank line, or fewer rows (`PiecesOfFile`); an accepted one has all
    of them and enough bytes, which leaves the whole. That is why the last byte of
    the table is a piece of its own.
  - What `gozsyncmake` makes is not always without empty values: its names and
    URLs come from the command line. So `IsMade` does not promise `NoEmpty`, and a
    line without a value is followed to the point where `Read` rejects it.
    `MadeReadsBack` says that nothing else makes it reject the whole file
    (`HasValues`).
  - `SoFar` admits two values of `HashAlgorithm` before the line that names it: the
    default of the format is in force until then. `File-Hash` comes after it, and
    does not change it if it goes by the same algorithm, which is what
    `VerifyFileHash` asks for in `RewriteReadsBack`.
  - `HashLengthsSound`, which `MakerInv` needs and which is of interest by itself:
    `ComputeHashLengthsAlgo` does not clamp `checksum_bytes`, and a comment in
    `rsum.go` says it need not. It holds because the length exceeds the block as
    soon as its logarithm does, so that two matches in a row are required. It is
    for every length an `int64` holds, and bounds each width the set has.

Two definitions are written as they are for the sake of these proofs. Powers of
two are a recursive function, `PowerOfTwo`, about which induction can be done,
and `Logs` bounds the logarithms by those of an `int64`. `Words` lists the values
of the code's literals, since no prover here knows that a literal is in `STRING`.

Only model-checked: the liveness properties `OwnBytesSuffice`, `GoodMirrorSuffices`
and `Converges`, which are out of reach of the prover, as is anything about
`ENABLED` (of the first two the safety half is proved: what is left to TLC is that
a scan ends, and that a download does); and the disagreements of the second table, which are about instances.
The refinement theorems say what the runs say of `ImplementsReconstruction`. TLC
found every formula true first; the parts of `FilesInv` were checked with the
constants of `MakeFiles` before they were proved.

## What is not modelled, and why

- The strong hashes: a constant operator, injective where a property needs it.
- I/O errors while a seed is read: `FeedSeed` reads the whole seed before its
  loop, so an error leaves the matcher untouched.
- The text of multipart bodies and headers; URL resolution; output names.
- A local `.zsync`, which skips the conditional GET.
- `HaveBlock`: only tests call it. Called twice for one block it breaks
  `CountExact`.
- Two runs of `gozsync` on one output at a time (see the plan).
- Names and URLs with line breaks or with blanks at their end, which `Write`
  copies and `Read` would split or trim: a value is one line without such blanks,
  or empty.
- Two publications within one second: a file time has whole seconds, the second
  one would have the time of the first, and a conditional GET could not tell them
  apart. `Publish` is a second after the last at least.
- Huffman decoding and gzip headers: which symbol a code stands for is data. The
  walk has what decides about restart points, the bits and bytes of each step.
- Lengths near 2^63, for which `NumBlocks` overflows: no disk holds such a file,
  though a header may claim it.
- The public API: re-exports.

## Plan

Done: `Rsum`, `Reconstruction`, `BlockStore`, `Matcher`, `Fetch`, `Client`, then
`ZMap`, `Deflate`, `ControlFile` and `Make`, each with its runs, and the theorems
above. What is left:

- A second `gozsync` process in `Client`, with files as inodes, so that rename
  and write can interleave.
- A local `.zsync` and `deriveOutputName` in `Client`.
