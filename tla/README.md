# Verification of rDNS-Crawler

TLA+ models of the address generators, the crawler node, its resolver, its
shard and JSONL files and the two batch programs that work on finished passes,
with TLC runs on small instances and TLAPS proofs about every modelled
component. Source paths are relative to the repository.

## The system

rDNS-Crawler asks for the reverse DNS name of every (sampled) IPv4 address. A
fleet of nodes each works on one shard; every node is a systemd service that
runs one process and writes one `.rdnsz` file. Later, a *re-crawl* asks again
for the records of a finished pass whose status is in a mask, *compare* reports
what changed, and *merge* folds the new pass into the old one.

| Component | State | Operations | Hard behaviour | What makes it correct |
|---|---|---|---|---|
| Target generators (`internal/ipgen`, `internal/store/targets.go`) | position in the address space or in the plan, cursor channel of capacity 1, the set of drawn addresses | emit, jump over reserved ranges, skip other shards, checkpoint, stop at limit or cancellation, final cursor | back-pressure, cancellation at any point, scan errors, 32-bit edges, tiny samples | the fleet asks for exactly the sample, and no two nodes for the same address; the cursor never gets ahead of what was handed out |
| Worker pool (`internal/crawler`) | a target per worker, rate-limit tokens, the results channel | take, wait for a token, look up, send or drop | free interleaving; each worker reacts to a cancelled context by itself | nothing vanishes; what a stop drops is bounded; everything ends |
| Resolver (`internal/resolver`, `process`) | a rotation counter shared by all workers | pick, query with retries, classify, forward-confirm | lost, late and soft-failing answers, cancellation | a status is recorded only when a server said so |
| Shard store (`internal/store`) | file, block buffer, bufio buffer, running totals, header | create, resume, add, flush, close, scan | crashes between any two steps, failed writes, torn blocks | the file only grows; the header never overstates it |
| Service (`cmd/rdns-crawler`) | cursor file, process state | start, resume, stop by signal, exit | crash and restart, nobody waits for the cursor goroutine | a finished pass covers every target |
| Merge (`internal/merge`) | the new pass as a table, the baseline as a stream | load, one branch per kind of pair, close or withdraw a shard | duplicates in both passes, missing, truncated, damaged shards | each baseline address gets exactly the record the policy gives it; a merge that fails never looks like one that succeeded |
| Compare (`internal/compare`) | the targets of a shard as a table, the new pass as a stream, one matrix | load, deduplicate, join, count what is missing, finalize | an unstable sort before deduplication, partial passes | every record is counted once; percentages add up |
| JSONL output (`internal/output`) | file, bufio buffer, totals, samples | encode, count, flush, print the summary | ignored write errors, records dropped at a stop | the file is a prefix of what was looked up, the summary counts it |
| Update (`compare`, then `merge`) | both reports and the merged shards | run one after the other | two programs that stream in opposite directions, with different duplicate rules | the published reports agree |
| Fleet scripts, report tools | files | shell, formatting | operator mistakes | not modelled, but what `finish-pass2.sh` and `collect.sh` take a valid header for is checked |

Generator, workers and consumer are goroutines connected by channels
(`ips`, 1024; `results`, 4096); a cursor goroutine writes the cursor file.
The node's file is the input of merge and compare, and the baseline of the next
re-crawl. PROJECT.json lists the hazards, each at its line.

## Modules

| Module | Models |
|---|---|
| `RdnszStore` | one `.rdnsz` file and its Writer |
| `CrawlNode` (extends `RdnszStore`) | one node over several runs of its service |
| `CrawlNodeProofs` | types, cursors and growth of the file of `CrawlNode`, proved |
| `CrawlNodeCountProofs` (extends it) | what has to be counted: one place per target, losses, the header |
| `CrawlNodeCoverageProofs` (extends it) | the rewind covers every target |
| `TargetStream` | abstract specification: targets in order, none left out, over several runs |
| `AddressWalk` | `internal/ipgen` and the commands that run it; refines `TargetStream` |
| `AddressWalkProofs` | theorems about `AddressWalk`, with the refinement |
| `Resolver` | the lookups of several workers |
| `JsonlSink` | one JSONL file and its Writer |
| `JsonlCrawl` (extends `Resolver`, `JsonlSink`) | lookups, results channel, consumer, summary |
| `JsonlProofs` | theorems about `JsonlCrawl`, and so about the lookups |
| `Passes` | two passes as compare and merge read them, and the reference counts |
| `MergePolicy` | abstract specification: what a merge promises per address |
| `Merge` (extends `Passes`) | `internal/merge`; refines `MergePolicy` |
| `Compare` (extends `Passes`) | `internal/compare` |
| `Update` (instantiates `Compare`, `Merge`) | compare, then merge, on the same two passes |
| `MergeProofs` | the merge inside `Update` follows its policy, with the refinement |
| `UpdateProofs` (extends it) | types of both commands and the balance of the merge report |
| `ReportProofs` (extends it) | the report of compare, and that both reports agree |
| `MCNode`, `MCWalk`, `MCJsonl`, `MCUpdate` | instances for TLC |

Definitions introduced as *faulty variant* are never part of a specification.
They are plausible mistakes in the code they stand next to, kept to show that
each property would notice one.

### RdnszStore

`disk` is the sequence of blocks in the file; a block is the set of its
records, a torn fragment is the empty set. `buf` is the block under
construction (`Writer.buf`), `pend` the finished blocks that are not completely
in the file (`bufio.Writer`, 1 MiB), and `cut` says that the file ends with the
first bytes of the first of them. `hdr` and `hTotal` are the header; `werr` is
the sticky error of `bufio.Writer`. `flushBlock` ignores write errors, as the
code does. `Close` is three actions (last block, `Flush`, header), so that a
crash can fall between them. `Scan` stops at the first fragment.
Sorting, delta, template and zstd encoding inside a block are left out, and so
are the per-status counts of the header, which move with the total.

### CrawlNode

A target is its position in the generator's stream. In crawl mode the cursor
is the last address handed out and a resumed run starts behind it
(`CrawlStart`); in recrawl mode it is a count and the run rewinds one
checkpoint (`RecrawlStart`). One action per step of each goroutine: `EmitSharded`,
`EmitTarget`, `GenStops`, `ScanFails`, `FinalCursor` (generators), `RecvCursor`, `WriteCursor`
(cursor goroutine), `Take`, `GetToken`, `AbortToken`, `Lookup`, `Send`,
`Drop`, `Leave` (workers), `Consume`, `EndConsume`, `FlushFile`,
`PatchHeader`, `CloseFails`, `Exit` (consumer and main). Around them, `Start`,
`StartRefused`, `StartFresh`, `Signal`, `Crash` and `DiskFails`. A select with
two ready branches is a choice between two actions. A result remembers whether
the lookup was really made: under a cancelled context it is a `net_error` that
was never asked, and the select may still send it. `lost` and `reach` are
history variables.

`MaxOvertake` states a timing assumption the code relies on and does not
enforce: while one target waits for its result, fewer than `MaxOvertake` later
ones are handed out. In the program every exchange has a deadline, and 131072
targets take minutes. With `MaxOvertake = Checkpoint` a rewind of one checkpoint
repeats everything a stop dropped.

### AddressWalk, TargetStream

The walk of every node of a fleet, the sweep of a block and the random test set,
over a space of `MaxAddr + 1` addresses with reserved ranges at both ends, as
in `ReservedIPv4Ranges`. One action per branch of the loop: `Jump`, `Skip`,
`Emit`, `WalkStopped`, `WalkEnded`, `LimitReached`; `Draw`, `DrawStopped`,
`DrawsDone` for `GenerateRandom`; `Start`, `Signal`, `Crash` and `SaveCursor`
around them. The cursor is only written at checkpoints, and a crash loses the
value still in the channel, so resumed walks begin at every possible address. A
node that is killed and resumed asks again for addresses behind its cursor; what
is shown is that two nodes never ask for the same address.
`mix64` is a pair of constant functions (its low and its high half): the
properties hold for the hash of the instance, which sends every low value to some
address and both shards some of each sample. `Percents` are whole numbers; the
rounding of `SampleThresholdForPercent` is kept, with 1 percent falling below
the resolution of the hash.

`TargetStream` says what the node relies on: a run hands out its targets in
ascending order with none left out, and a run that follows another one begins
where nothing before it is missing. `WalksInOrder` maps each node's walk to it.
`CrawlNode` starts from there: its targets are positions in such a stream.

### Resolver, JsonlSink, JsonlCrawl

Each worker looks up one target: a reverse query, then one forward query per
name. `Ask` takes a server from the shared counter; the answer is a separate
step, so other workers move the counter and the context can be cancelled in
between. When no attempt had a definitive answer, the query returns its last
soft failure (`lastResp`), and `LookupA` reads the A records of that answer whatever
its rcode: `lastHit` says that the address is among them, so a soft failure can
confirm a name. `first`, `heard` and `confirmed` are history variables: the server
of the query's first attempt, and what servers really said. The answers are
external (`miekg/dns`); that an exchange under a cancelled context fails at
once, and one under way may still succeed, follows the library's dialling. The
counter is kept modulo the number of servers.

`JsonlSink` writes a record into a buffer that may spill or fail at any record;
the error is ignored and sticky, as `_ = w.enc.Encode` and `bufio.Writer` have
it. `JsonlCrawl` puts it behind the workers: a finished lookup is tallied
first, then sent, or dropped when the context is done.

### Passes, Merge, MergePolicy, Compare, Update

`Inputs` is the set of pairs of passes, with and without `--allow-partial`, that
the two commands are started on. The modules and the proofs take any such set:
each shard is any sequence of records, repeated addresses included, in a file
that is complete, truncated, damaged, missing, of another fleet size or still
without a header. `MCUpdate` chooses the small ones. `Merge` has
one action per branch of the scan callback, `Compare` one per branch of the
join; `Deduped` is a choice because `slices.SortFunc` is not stable. Names are
compared only by equality (`hashNames`); the forward-confirmation flags travel
with the record.

The failure paths of a merged shard are steps of their own. When the baseline
cannot be read to its end, `BaselineBroken` closes the file, which gives it a valid
header unless the close fails (`"partial"` or `"open"`), and only then is it
removed (`RemoveShard`); the code does not look at the error of the removal
(`RemoveFails`, which also stands for a kill between the two). So a file with a
valid header and a part of the baseline may stay behind, and what is shown of it is
that its records are right as far as they go and that the run has failed. A kill at
any other moment leaves the files as they are in the state before it.

`MergePolicy` is the policy as the package comment states it: a shard grows
address by address, each with its decided record, and is published when no
baseline address is missing. The refinement mapping takes `merged` to the
records written, `decided` to the policy's decision for the first record of
each address, and `published` to the shards that were closed as complete.

`Moves` and `SameNames` in `Passes` count, declaratively, what two passes say.
The reports of merge and compare are published side by side
(`tools/gen-blog-stats.js`); both are checked against the same numbers, and in
`Update` against one another. The script that runs them is outside the
repository; merge is run whatever compare said, because both are also run by hand.

## Runs

Passing runs:

| Run | Question | Instance |
|---|---|---|
| `recrawl_stop` | Does a re-crawl that is stopped and resumed lose anything, and does every run end? | 3 targets, 2 workers, rate limit, checkpoint 2, blocks of 2, 2 runs, one signal or scan error |
| `crawl_stop` | What does stopping a rate-limited crawl cost? | 4 targets, 2 workers, checkpoint 2, blocks of 3, one block buffered, one signal, 2 runs |
| `recrawl_faults` | What survives crashes, write errors and fresh starts? | 3 targets, 1 worker, checkpoint 1, 2 events of all kinds, 3 runs |
| `address_walk` | Does the fleet ask for exactly the sample, in order, over restarts? | 12 addresses (6 routable), 2 nodes, checkpoint 2, 3 starts, samples of 100, 60 and 1 percent, crawl, sweep and test, limits 0 (none), 2 and 6 |
| `resolver_lookup` | Does a record, the file and the summary say what the servers said, and does every lookup end? | 2 workers, 1 server (the local resolver of the deployed service), 2 retries, 2 names, failing writes |
| `update` | Does a merged shard follow the policy whatever fails, is success complete, do both reports balance and agree, and does the merge refine its policy? | 2 names, 3 statuses. One shard with 2 addresses and up to 3 old and 2 new records, 4 together, beside an empty one; and 2 shards with one address each: up to 2 records, all kinds of damage, with and without `--allow-partial`, then 3 records, or 2 with their forward confirmations, in shards that can be read |

The bounds are small but let the cases happen: more targets than the pipeline
holds, more than one block, a block in the buffer, a checkpoint that falls
inside a run, a resumed run, workers that overtake one another, a soft failure
followed by a transport error or by another one that carries the address, an
address two and three times in a baseline and twice in a re-crawl, two re-crawl
records in one or in both shards, a walk that is resumed inside, before and behind a
reserved range, a sweep that ends at its limit and one that reaches the last address.

What the properties say:

* `NothingVanishes`: while the process is up, every target handed out is in a
  channel, a worker, a buffer, the file, or was dropped, and only a
  cancellation or a failed write drops anything.
* `Covered`: a recrawl that ends by itself has a readable record of every
  target, whatever stops came before. Together with the
  rewind this is the point of resuming. It holds for stops, where `Close`
  flushes every buffer. It does not hold for crashes: the unfinished block and
  the bufio buffer are lost too, which can be more than one checkpoint, and a
  torn block hides what is behind it.
* `NoTargetSkipped`: the cursor file never gets ahead of the generators.
* `LossBounded`: a stop drops at most one target per worker and what is in the channel.
* `OncePerRun`: a run has a target in one place at a time.
* `HeaderExact`, `HeaderNeverOverstates`, `FileOnlyGrows`: the header against
  the file, with and without faults, and the file against its past.
* `CursorMonotone` (crawl mode): the cursor never moves back. In recrawl mode
  it can, against `src/internal/store/targets.go:44-45`: a rewound run that is
  stopped early writes a smaller final count. This costs repeated work only and
  has no run of its own.
* `RunEnds`, `WalkEnds`, `LookupEnds`: liveness.
* `FleetCoversSample`, `CountExact`, `WalksInOrder`: the addresses asked for
  against the flags, over stops, crashes and resumed starts; those of different
  nodes are disjoint. In order and
  without gaps means handed out, not stored; see `claim_resume_stored`.
* `SummaryExact`, `LinesArePrefix`: the progress statistics, the summary and the
  file against the lookups.
* `StatusWasHeard`, `MatchWasHeard`: statuses and confirmations against what
  the servers said, in any attempt. A confirmation needs an answer with the
  address; a NOERROR or NXDOMAIN answer with it always confirms, a soft failure
  only as the last one of an exhausted query.
* `FinalShardsFollowPolicy`, `SuccessIsComplete`, `FollowsPolicy`: merge
  against its policy, also for a shard that is closed and not removed.
* `CompareBalances`, `CompareExact`, `HeadlinePartition`, `MergeBalances`: the
  reports against the files.
* `ReportsAgree`: the two reports against each other. Gained, unchanged,
  changed, removed and transient PTRs are the same, and the net movement compare
  prints is the change in the number of PTRs merge writes. Duplicate and
  unexpected new records agree in their sum only: a repeated record outside the
  target set is unexpected twice for compare, and once a duplicate for merge.
* `DuplicatesBounded`: when baseline addresses do have contradicting records,
  `ReportsAgree` does not apply, but no counter of the two reports differs by more
  than there are such addresses.

Runs expected to fail show where a sentence of the repository is not what the
code does (PROJECT.json, findings):

* `claim_resume_stored`: a crawl's cursor is the last address handed out,
  not the last one stored.
* `claim_restart_continues`: a crash of the first run leaves a zero header and
  the restarted service refuses the file.
* `claim_duplicates_harmless`: a lookup cut off by the stop is stored as a
  failure and, being first in the file, hides the resumed run's answer from
  merge and compare.
* `claim_header_complete`: a resumed run keeps the valid header of the stopped
  run until it closes, so a shard that looks finished may still be crawled.
* `claim_retries_elsewhere`: a retry may ask the server of the first attempt
  again. The offset is added to a counter all workers move; the run has the
  built-in pool of eight servers and two retries. A worker alone comes back to the
  first server with its first retry when there are two servers, and with its second
  when there are four.
* `claim_torn_tail`: a resumed run appends behind a torn block.

Two more limits follow from what the passing runs leave out. Merge
decides by the *first* baseline record of an address; when a resumed pass stored
an address first with a status outside the mask and again with one inside,
the re-crawl asks for it and merge counts the answer as unexpected. And compare
filters by the mask before it drops duplicates, so for such an
address its numbers differ from merge's; `CompareExact` and
`ReportsAgree` are therefore stated for baselines in which no address has two
different records, and `DuplicatesBounded` says how far the reports can be apart.

### Fairness

`recrawl_stop`: weak fairness for the generator, the cursor goroutine, main
and each worker. The Go scheduler runs every runnable goroutine; a lookup ends
because each exchange has a deadline, and the ticker of the rate limiter keeps
ticking. No fairness for signals, crashes or write errors, and none that would
prefer one branch of a select. `resolver_lookup`: weak fairness for each
worker, for the same deadline. `address_walk`: weak fairness of each generator,
whose channel the node keeps draining; for the random test set this includes
that the source does not repeat drawn addresses for ever.

### Deadlock

Deadlock checking is on in every run; the states in which the program has
ended, or the bound on service starts is reached, are explicit stuttering
actions (`Halted`, `Ended`, `Closed`, `Idle`).

## Proofs

All theorems are about the specifications the runs check, for *every* value of
the constants that meets the named assumptions. Those say no more than what
the constants stand for: `StoreAssumption`, `NodeAssumption`,
`WorkersAssumption` (positive capacities, a finite, non-empty set of workers),
`WalkAssumption` (ranges within the space, the first and the last address
reserved), `ResolverAssumption`, `SinkAssumption` and `PassesAssumption`
(finitely many shards, a mask of known statuses, any set of passes as `Inputs`). Addresses, names and hashes
are arbitrary, and so are the events and commands. Three theorems have a
hypothesis of their own, the same under which the run checks the property.

**Node** (`CrawlNodeProofs`, `CrawlNodeCountProofs`, `CrawlNodeCoverageProofs`)

* `TypeCorrect`, `NoTargetSkippedHolds`. `NoTargetSkipped` is not inductive: the
  cursor file is written from `curHeld`, which comes from `curCh`.
  `CursorsBehind` bounds all three by `reach`; with `TypeOK` (which has
  `start <= produced <= reach`) it is inductive (`TypeInv`).
* `NothingVanishesHolds`: each action moves a target from one place of
  the pipeline to the next, or into `lost` with its reason.
* `FileOnlyGrowsHolds`: needs that a node that is up has a file.
* `CursorMonotoneHolds`, assuming `Mode = "crawl"` and no `"fresh"` event:
  `CursorsOrdered` keeps file, `curHeld`, `curCh` and generator in ascending order
  while a run is up.
* `OncePerRunHolds`: the pipeline carries as many targets as there are different
  ones in it. `OnceInv` adds that all of them lie between `start` and `produced`,
  so what the generator adds is new; every other step moves one.
* `LossBoundedHolds`: `LossInv` charges every dropped target to a worker that
  has left; what is left in the channel when main ends is bounded by its capacity.
* `HeaderNeverOverstatesHolds`: `HeaderInv` bounds the running total by the records
  in the file, in the pending blocks and in the block under construction; it rests on
  `OnceInv`, because a block is a set and holds a record once.
* `HeaderExactHolds`, assuming no `"crash"` and no `"diskerr"` event.
* `CoveredHolds`, assuming `RewindSuffices`: recrawl mode, `MaxOvertake <=
  Checkpoint`, and stops and scan errors as the only events. `CoverInv` says that no
  block is torn, that every target a run resumed from the cursor file, or from a
  cursor value on its way to it, would skip has a result (`Safe`), that a target still
  waiting for one is less than `MaxOvertake` behind the generator (`Timely`), and that
  closing begins only when the workers have left and every result is stored
  (`Drained`). This is why one checkpoint is enough.

**Lookups and JSONL output** (`JsonlProofs`), stated for `CrawlSpec`, the
lookups with the output behind them

* `LookupTypeCorrect`, `StatusWasHeardHolds`, `MatchWasHeardHolds`: `LookupInv`
  ties the soft failure remembered by a lookup under way, and later its status and
  the names still to confirm, to `heard` and `confirmed`; an address remembered from a
  soft failure is one that was heard.
* `LinesArePrefixHolds`: `FileInv`, until a write fails the lines followed by the
  buffer are what the sink was given.
* `SummaryExactHolds`: `CountInv`, each counter of the summary is the number of such
  records the sink was given, and those with the queue are the lookups that were sent.

**Address generators** (`AddressWalkProofs`)

* `WalkTypeCorrect`, `CountExactHolds`, `FleetCoversSampleHolds`: `WalkInv` says, per
  node, that a run has handed out exactly the node's addresses between its
  first position and the current one (`Walked`), that no run has left a gap
  (`Passed`), and that the counter is the size of that set (`Counted`). Coverage of the
  sample does not depend on the hash: every address belongs to one shard.
* `WalksInOrderHolds`: every step of a node is a step of `TargetStream` or
  stutters, and a resumed walk begins behind nothing that no run has handed out.

**Merge and the commands together** (`MergeProofs`, `UpdateProofs`), stated for `Update`

* `FinalShardsFollowPolicyHolds`, `SuccessIsCompleteHolds`: `MergeInv` describes
  the scan (`ScanInv`: what was written, seen and taken from the table after the first
  `mAt` records) and the shards with a valid header (`PublishedInv`), also one
  that is about to be removed or could not be.
* `FollowsPolicyHolds`: the refinement of `MergePolicy`, one lemma per action.
* `UpdateTypeCorrect`: also for compare (`CompareInv`); no counter gets negative.
* `MergeBalancesHolds`: `BalanceInv` equates every counter of the report with the cardinality
  of a set of (shard, address) pairs: those scanned so far which went through its
  branch, duplicates in either pass not counting again. Between shards the scanned
  pairs are the addresses of the merged shards, so the counters are the declarative
  `Moves` and `SameNames`. TLC checked `BalanceInv` before it was proved.

**Compare and the agreement of both reports** (`ReportProofs`), stated for `Update`

* Sums over the matrix are folds (`SumOver`), and what a fold returns for every input is
  usually shown by induction. Here it is not: the fold is a function on the subsets of a
  finite set, `SumIs` shows that any function which adds one element at a time is that one,
  by a least subset on which they differ, and `ClassSums` supplies such a
  function, the size of a union of disjoint sets. The other lemmas on sums follow from these two.
* `CompareBalancesHold`: in the middle of a shard no row adds up. `AccountInv` completes it
  with the table entries that have not been seen yet (`RowsInv`), ties targets and
  baseline duplicates to the records loaded (`LoadedInv`), and joined, duplicate
  and unexpected ones to the records read so far (`ReadInv`).
* `HeadlinePartitions`: the printed numbers are those of the final matrix (`HeadInv`), whose
  rows the account has balanced.
* `CompareExactHolds`: `ExactInv` is the counterpart of `BalanceInv`. While no baseline
  address of the compared shards has two different records (`Clean`), the table is the set of
  targets of the shard whatever the sort did (`TableInv`), and each cell of the
  matrix is the number of joined (shard, address) pairs with its two statuses (`CellInv`).
* `ReportsAgreeHolds`: when both commands succeed they have gone through the same
  shards (`ShardsInv`: those compare takes for missing have no new record); with the number of
  targets per status (`TargetsInv`) both reports count the same sets of pairs, so `ExactInv` and
  `BalanceInv` give the same numbers. The net movement follows from splitting the
  addresses with a PTR before and after.

TLC checked `AccountInv`, `HeadInv`, `ExactInv`, `ShardsInv` and `TargetsInv` on small
instances before they were proved.

Only model-checked: liveness (`RunEnds`, `WalkEnds`, `LookupEnds`), since
fairness and `ENABLED` are out of the prover's reach, and `DuplicatesBounded`. Every other
invariant, action property and refinement of the passing runs is a theorem. The six runs
that expect a violation are counterexamples, with nothing to prove.

## Not modelled

* Byte encodings: sorting, deltas, varints, host-name templates and zstd inside
  a block. A block is the set of its records; the round trip is string and bit
  manipulation without control, which the repository's tests cover.
* The bits of `mix64`: that its halves are spread evenly is statistics.
* TLD histograms, percentages, layout of the summaries, progress output, `dump`
  and `info`.
* Shard identity checks of `NewWriterResume` and duplicate shard ids in
  `discover` (both refuse to start).
* Deploy scripts and the JavaScript report tools: shell around `hcloud`, `ssh`
  and `rsync`, and formatting.
* Whether one checkpoint is enough after a *crash*. The unfinished block and the
  1 MiB bufio buffer are lost too; how many targets that is depends on how well
  blocks compress, which the model does not know. With small blocks `Covered`
  has counterexamples.
* A merged file of an earlier merge in the same output directory: `out` starts empty.
* Power loss. The code never calls fsync; `Crash` is a killed process or a panic,
  after which what was written to the file stays.
* Torn last lines of a JSONL file, and a last flush that writes some whole blocks and
  then fails: `JsonlSink` counts whole lines, and `CloseFlush` succeeds or fails as a whole.

## Plan

1. `DuplicatesBounded` as a theorem: `ExactInv` with the record compare kept for each
   address, and a bound on the difference of two sets of pairs.
2. The per-status counts of the header, with `HeaderExact` stated for each of them.
3. The safety part of what the liveness runs rely on (who can take the next step in a
   state that is not final), as an invariant that does not mention `ENABLED`.
