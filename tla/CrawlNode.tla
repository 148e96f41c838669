------------------------------- MODULE CrawlNode -------------------------------
(***************************************************************************)
(* One crawler node: the service process in crawl or recrawl mode, its     *)
(* shard file, its cursor file, and the runs that follow one another when  *)
(* the service is stopped, crashes and is started again with --resume      *)
(* (cmd/rdns-crawler/main.go, internal/crawler/crawler.go,                 *)
(* internal/ipgen/ipgen.go, internal/store/targets.go).                    *)
(*                                                                         *)
(*   generator --ips--> workers --results--> consumer (RdnszStore)         *)
(*       \--curCh--> cursor goroutine --> cursor file                      *)
(*                                                                         *)
(* The targets of the node are the positions 0..NTargets-1 of the          *)
(* deterministic stream the generator walks: the shard's addresses in      *)
(* ascending order (crawl), or the matching records of the previous pass   *)
(* in file order (recrawl).                                                *)
(***************************************************************************)
EXTENDS RdnszStore

CONSTANTS
    Mode,         \* "crawl" or "recrawl"
    NTargets,     \* length of the target stream
    Workers,      \* the worker goroutines (--concurrency)
    OutCap,       \* capacity of the generator's channel (1024)
    ResCap,       \* capacity of the results channel (4096)
    Checkpoint,   \* targets between cursor notifications (1 << 17)
    Limit,        \* --limit, 0 for none
    RateLimited,  \* --qps is set: a worker waits for a token per target
    MaxOvertake,  \* timing assumption: how many later targets are handed out
                  \* while a target waits for its result
    MaxRuns,      \* bound on how often the service is started
    MaxFaults,    \* bound on how many events happen
    Events        \* what happens around the process

\* SIGTERM or SIGINT, a crash, a read error on the previous shard, a write error
\* on the output, a start without --resume.
EventKinds == {"signal", "crash", "scanerr", "diskerr", "fresh"}

ASSUME NodeAssumption ==
    /\ Mode \in {"crawl", "recrawl"}
    /\ NTargets \in Nat /\ Limit \in Nat /\ MaxOvertake \in Nat /\ MaxRuns \in Nat
    /\ MaxFaults \in Nat
    /\ OutCap \in Nat \ {0} /\ ResCap \in Nat \ {0} /\ Checkpoint \in Nat \ {0}
    /\ RateLimited \in BOOLEAN
    /\ Events \subseteq EventKinds

ASSUME WorkersAssumption == IsFiniteSet(Workers) /\ Workers # {}

VARIABLES
    svc,        \* the service: "off", "up", "exited" (status 0), "failed"
                \* (status 1), "crashed", "refused" (the output cannot be resumed)
    runs,       \* how often it was started
    faults,     \* how many events have happened
    cancelled,  \* the context of signalCtx is done
    start,      \* first position of this run
    produced,   \* positions below it were skipped or handed out
    genPc,      \* generator: "run", "final" (last cursor value due), "done"
    genErr,     \* the scan of the previous shard failed mid-stream
    ips,        \* the generator's channel
    wpc,        \* worker: "idle", "token", "lookup", "send", "left"
    hand,       \* the target or record a worker holds
    results,    \* the results channel
    mainPc,     \* consumer and main: "run", "flush", "header", "wait"
    curCh,      \* the value in the cursor channel (capacity 1), if any
    curHeld,    \* the value the cursor goroutine is about to write
    curFile,    \* the cursor file
    lost,       \* history: positions dropped by this run
    reach       \* history: positions below it were handed out by some run

genVars    == <<start, produced, genPc, genErr, reach>>
cursorVars == <<curCh, curHeld, curFile>>
workerVars == <<wpc, hand>>
vars == <<storeVars, svc, runs, faults, cancelled, genVars, ips, workerVars, results,
          mainPc, cursorVars, lost>>

-----------------------------------------------------------------------------
Pos == 0..(NTargets - 1)

\* A result: the position it is for, and whether the lookup really was made
\* (a lookup under a cancelled context answers net_error without asking).
Rec == [pos : Pos, real : BOOLEAN]

NoCursor == -1

\* An empty-handed worker.
Empty == [pos |-> NoCursor, real |-> TRUE]

Positions(recs) == {r.pos : r \in recs}

Elems(seq) == {seq[i] : i \in DOMAIN seq}

Larger(a, b) == IF a > b THEN a ELSE b

ServiceTypeOK ==
    /\ svc \in {"off", "up", "exited", "failed", "crashed", "refused"}
    /\ runs \in 0..MaxRuns /\ faults \in 0..MaxFaults
    /\ mainPc \in {"run", "flush", "header", "wait"}
    /\ lost \subseteq Pos

GeneratorTypeOK ==
    /\ start \in 0..NTargets /\ produced \in 0..NTargets /\ reach \in 0..NTargets
    /\ start <= produced /\ produced <= reach
    /\ genPc \in {"run", "final", "done"} /\ (genPc = "final" => Mode = "recrawl")

FlagsTypeOK == cancelled \in BOOLEAN /\ genErr \in BOOLEAN

WorkersTypeOK ==
    /\ wpc \in [Workers -> {"idle", "token", "lookup", "send", "left"}]
    /\ hand \in [Workers -> Rec \cup {Empty}]
    /\ \A w \in Workers : wpc[w] \in {"token", "lookup", "send"} <=> hand[w] # Empty

ChannelsTypeOK ==
    /\ ips \in Seq(Pos) /\ Len(ips) <= OutCap
    /\ results \in Seq(Rec) /\ Len(results) <= ResCap

CursorTypeOK ==
    /\ curCh \in 0..NTargets \cup {NoCursor}
    /\ curHeld \in 0..NTargets \cup {NoCursor}
    /\ curFile \in 0..NTargets \cup {NoCursor}

\* Every variable has its type, and a worker holds a target exactly between
\* taking it and sending or dropping it.
TypeOK ==
    /\ StoreTypeOK(Rec) /\ ServiceTypeOK /\ GeneratorTypeOK
    /\ FlagsTypeOK /\ WorkersTypeOK /\ ChannelsTypeOK /\ CursorTypeOK

Init ==
    /\ StoreInit
    /\ svc = "off" /\ runs = 0 /\ faults = 0 /\ cancelled = FALSE
    /\ start = 0 /\ produced = 0 /\ reach = 0 /\ genPc = "done" /\ genErr = FALSE
    /\ ips = <<>> /\ results = <<>> /\ mainPc = "wait"
    /\ wpc = [w \in Workers |-> "left"] /\ hand = [w \in Workers |-> Empty]
    /\ curCh = NoCursor /\ curHeld = NoCursor /\ curFile = NoCursor
    /\ lost = {}

\* An event of the surroundings, within the bound.
Happens(event) ==
    /\ event \in Events /\ faults < MaxFaults
    /\ faults' = faults + 1

-----------------------------------------------------------------------------
(* Starting the service.                                                   *)

\* Faulty variants: the cursor is not read back; the rewind is forgotten; the
\* rewind has no lower bound.
CrawlStartFromZero(cursor) == 0
RecrawlStartNoRewind(cursor) == IF cursor = NoCursor THEN 0 ELSE cursor
RecrawlStartUnguarded(cursor) == IF cursor = NoCursor THEN 0 ELSE cursor - Checkpoint

\* runCrawl --resume: the cursor is the last address handed out.
CrawlStart(cursor) == IF cursor = NoCursor THEN 0 ELSE cursor + 1

\* runRecrawl --resume: the cursor is a count, rewound by one checkpoint.
RecrawlStart(cursor) == IF cursor > Checkpoint THEN cursor - Checkpoint ELSE 0

ResumePoint(cursor) ==
    IF Mode = "crawl" THEN CrawlStart(cursor) ELSE RecrawlStart(cursor)

\* pipeline and Crawler.Run spawn their goroutines.
Launch(first) ==
    /\ svc' = "up" /\ runs' = runs + 1
    /\ cancelled' = FALSE /\ lost' = {}
    /\ start' = first /\ produced' = first /\ genPc' = "run" /\ genErr' = FALSE
    /\ ips' = <<>> /\ results' = <<>> /\ curCh' = NoCursor /\ curHeld' = NoCursor
    /\ wpc' = [w \in Workers |-> "idle"] /\ hand' = [w \in Workers |-> Empty]
    /\ mainPc' = "run"
    /\ UNCHANGED <<faults, reach, curFile>>

\* The systemd unit starts the process with --resume, again after a failure
\* (Restart=on-failure) and at every boot.
Start ==
    /\ svc # "up" /\ runs < MaxRuns
    /\ NewWriterResume
    /\ Launch(ResumePoint(curFile))

\* NewWriterResume fails: fatal, before anything is crawled.
StartRefused ==
    /\ svc # "up" /\ runs < MaxRuns
    /\ ResumeRefused
    /\ svc' = "refused" /\ runs' = runs + 1
    /\ UNCHANGED <<storeVars, faults, cancelled, genVars, ips, workerVars, results,
                   mainPc, cursorVars, lost>>

\* Started by hand without --resume: the output is truncated, the cursor file
\* is neither read nor removed.
StartFresh ==
    /\ "fresh" \in Events
    /\ svc # "up" /\ runs < MaxRuns
    /\ NewWriter
    /\ Launch(0)

-----------------------------------------------------------------------------
(* The generator.                                                          *)

MoreTargets == produced < NTargets /\ (Limit = 0 \/ produced - start < Limit)

\* What the workers hold.
Held == {hand[w].pos : w \in {v \in Workers : hand[v] # Empty}}

\* Positions handed out and not turned into a result.
Waiting == Elems(ips) \cup Held \cup (IF cancelled THEN lost ELSE {})

\* Put the next target on the channel; when a checkpoint is due, offer the
\* cursor value unless the previous one is still in the channel.
Emit(due, value) ==
    /\ svc = "up" /\ genPc = "run" /\ MoreTargets
    /\ Len(ips) < OutCap
    /\ \A p \in Waiting : produced - p < MaxOvertake
    /\ ips' = Append(ips, produced)
    /\ produced' = produced + 1
    /\ reach' = Larger(reach, produced + 1)
    /\ curCh' = IF due /\ curCh = NoCursor THEN value ELSE curCh
    /\ UNCHANGED <<storeVars, svc, runs, faults, cancelled, start, genPc, genErr,
                   workerVars, results, mainPc, curHeld, curFile, lost>>

\* Faulty variant: the cursor is the next address, not the last one.
EmitShardedOffByOne ==
    /\ Mode = "crawl"
    /\ Emit((produced + 1 - start) % Checkpoint = 0, produced + 1)

\* GenerateShardedFull: every Checkpoint addresses of this run, the address.
EmitSharded ==
    /\ Mode = "crawl"
    /\ Emit((produced + 1 - start) % Checkpoint = 0, produced)

\* StreamTargets: whenever the absolute count is a multiple of Checkpoint.
EmitTarget ==
    /\ Mode = "recrawl"
    /\ Emit((produced + 1) % Checkpoint = 0, produced + 1)

\* Faulty variant: an exhausted stream is left without closing the channels.
GenStopsNoClose ==
    /\ svc = "up" /\ genPc = "run"
    /\ ~MoreTargets \/ cancelled
    /\ genPc' = IF ~MoreTargets THEN "run" ELSE IF Mode = "crawl" THEN "done" ELSE "final"
    /\ UNCHANGED <<storeVars, svc, runs, faults, cancelled, start, produced, genErr, reach,
                   ips, workerVars, results, mainPc, cursorVars, lost>>

\* Both loops end when the targets do, at the limit, or by ctx.Done when they
\* wait to hand out the next target.
GenStops ==
    /\ svc = "up" /\ genPc = "run"
    /\ ~MoreTargets \/ cancelled
    /\ genPc' = IF Mode = "crawl" THEN "done" ELSE "final"
    /\ UNCHANGED <<storeVars, svc, runs, faults, cancelled, start, produced, genErr, reach,
                   ips, workerVars, results, mainPc, cursorVars, lost>>

\* StreamTargets' Scan fails: mid-stream, or while it still skips.
ScanFails ==
    /\ Happens("scanerr")
    /\ Mode = "recrawl"
    /\ svc = "up" /\ genPc = "run"
    /\ \E q \in 0..produced :
          /\ produced # start => q = produced
          /\ produced' = q
          /\ start' = IF produced # start THEN start ELSE q
    /\ genErr' = TRUE /\ genPc' = "final"
    /\ UNCHANGED <<storeVars, svc, runs, cancelled, reach, ips, workerVars,
                   results, mainPc, cursorVars, lost>>

\* Faulty variant: the final value is the size of the stream.
FinalCursorExpected ==
    /\ svc = "up" /\ genPc = "final"
    /\ curCh' = NTargets
    /\ genPc' = "done"
    /\ UNCHANGED <<storeVars, svc, runs, faults, cancelled, start, produced, genErr, reach,
                   ips, workerVars, results, mainPc, curHeld, curFile, lost>>

\* StreamTargets replaces a stale cursor value by the final count, then reports
\* on errch and closes its channels.
FinalCursor ==
    /\ svc = "up" /\ genPc = "final"
    /\ curCh' = produced
    /\ genPc' = "done"
    /\ UNCHANGED <<storeVars, svc, runs, faults, cancelled, start, produced, genErr, reach,
                   ips, workerVars, results, mainPc, curHeld, curFile, lost>>

-----------------------------------------------------------------------------
(* The cursor goroutine.                                                   *)

RecvCursor ==
    /\ svc = "up" /\ curHeld = NoCursor /\ curCh # NoCursor
    /\ curHeld' = curCh /\ curCh' = NoCursor
    /\ UNCHANGED <<storeVars, svc, runs, faults, cancelled, genVars, ips, workerVars,
                   results, mainPc, curFile, lost>>

\* writeCursor, writeCountCursor: a temporary file renamed into place; an
\* error of the write is swallowed and the old file stays.
WriteCursor ==
    /\ svc = "up" /\ curHeld # NoCursor
    /\ curFile' \in {curHeld} \cup (IF werr THEN {curFile} ELSE {})
    /\ curHeld' = NoCursor
    /\ UNCHANGED <<storeVars, svc, runs, faults, cancelled, genVars, ips, workerVars,
                   results, mainPc, curCh, lost>>

-----------------------------------------------------------------------------
(* The workers of Crawler.Run.                                             *)

WorkerStep(w, pc, item) ==
    /\ wpc' = [wpc EXCEPT ![w] = pc]
    /\ hand' = [hand EXCEPT ![w] = item]
    /\ UNCHANGED <<storeVars, svc, runs, faults, cancelled, genVars, mainPc, cursorVars>>

\* for ip := range ips
Take(w) ==
    /\ svc = "up" /\ wpc[w] = "idle" /\ ips # <<>>
    /\ ips' = Tail(ips)
    /\ WorkerStep(w, IF RateLimited THEN "token" ELSE "lookup",
                  [pos |-> Head(ips), real |-> TRUE])
    /\ UNCHANGED <<results, lost>>

\* case <-tokens
GetToken(w) ==
    /\ svc = "up" /\ wpc[w] = "token"
    /\ WorkerStep(w, "lookup", hand[w])
    /\ UNCHANGED <<ips, results, lost>>

\* case <-ctx.Done() while waiting for a token: the target is dropped
AbortToken(w) ==
    /\ svc = "up" /\ wpc[w] = "token" /\ cancelled
    /\ lost' = lost \cup {hand[w].pos}
    /\ WorkerStep(w, "left", Empty)
    /\ UNCHANGED <<ips, results>>

\* process: a lookup the cancellation overtakes fails as net_error.
Lookup(w) ==
    /\ svc = "up" /\ wpc[w] = "lookup"
    /\ \E real \in IF cancelled THEN BOOLEAN ELSE {TRUE} :
          WorkerStep(w, "send", [pos |-> hand[w].pos, real |-> real])
    /\ UNCHANGED <<ips, results, lost>>

\* Faulty variant: a full results channel does not block the worker.
SendOrForget(w) ==
    /\ svc = "up" /\ wpc[w] = "send"
    /\ results' = IF Len(results) < ResCap THEN Append(results, hand[w]) ELSE results
    /\ WorkerStep(w, "idle", Empty)
    /\ UNCHANGED <<ips, lost>>

\* case out <- rec
Send(w) ==
    /\ svc = "up" /\ wpc[w] = "send" /\ Len(results) < ResCap
    /\ results' = Append(results, hand[w])
    /\ WorkerStep(w, "idle", Empty)
    /\ UNCHANGED <<ips, lost>>

\* Faulty variant: the worker goes on with the next target.
DropAndContinue(w) ==
    /\ svc = "up" /\ wpc[w] = "send" /\ cancelled
    /\ lost' = lost \cup {hand[w].pos}
    /\ WorkerStep(w, "idle", Empty)
    /\ UNCHANGED <<ips, results>>

\* case <-ctx.Done(): the result is dropped and the worker returns
Drop(w) ==
    /\ svc = "up" /\ wpc[w] = "send" /\ cancelled
    /\ lost' = lost \cup {hand[w].pos}
    /\ WorkerStep(w, "left", Empty)
    /\ UNCHANGED <<ips, results>>

\* the channel is closed and drained
Leave(w) ==
    /\ svc = "up" /\ wpc[w] = "idle" /\ ips = <<>> /\ genPc = "done"
    /\ WorkerStep(w, "left", Empty)
    /\ UNCHANGED <<ips, results, lost>>

Worker(w) ==
    \/ Take(w) \/ GetToken(w) \/ AbortToken(w) \/ Lookup(w)
    \/ Send(w) \/ Drop(w) \/ Leave(w)

-----------------------------------------------------------------------------
(* The consumer, Close and the end of main.                                *)

\* Everything but the store, mainPc and what a consumer step changes.
MainFrame == UNCHANGED <<svc, runs, faults, cancelled, genVars, ips, workerVars, cursorVars>>

\* Writer.Consume; a full block after a failed write is lost.
Consume ==
    /\ svc = "up" /\ mainPc = "run" /\ results # <<>>
    /\ Add(Head(results))
    /\ results' = Tail(results)
    /\ lost' = IF werr /\ buf' = {}
               THEN lost \cup Positions(buf \cup {Head(results)}) ELSE lost
    /\ MainFrame /\ UNCHANGED mainPc

\* Run has closed results and Consume has drained it.
EndConsume ==
    /\ svc = "up" /\ mainPc = "run"
    /\ results = <<>> /\ \A w \in Workers : wpc[w] = "left"
    /\ CloseBlock
    /\ lost' = IF werr THEN lost \cup Positions(buf) ELSE lost
    /\ mainPc' = "flush"
    /\ MainFrame /\ UNCHANGED results

FlushFile ==
    /\ svc = "up" /\ mainPc = "flush"
    /\ CloseFlush
    /\ mainPc' = "header"
    /\ MainFrame /\ UNCHANGED <<results, lost>>

PatchHeader ==
    /\ svc = "up" /\ mainPc = "header"
    /\ CloseHeader
    /\ mainPc' = "wait"
    /\ MainFrame /\ UNCHANGED <<results, lost>>

\* pipeline only warns when Close fails.
CloseFails ==
    /\ svc = "up" /\ mainPc \in {"flush", "header"} /\ werr
    /\ mainPc' = "wait"
    /\ MainFrame /\ UNCHANGED <<storeVars, results, lost>>

\* The process ends; goroutines and channels go with it.
ProcessGone ==
    /\ Abandon
    /\ genPc' = "done" /\ mainPc' = "wait"
    /\ ips' = <<>> /\ results' = <<>>
    /\ wpc' = [w \in Workers |-> "left"] /\ hand' = [w \in Workers |-> Empty]
    /\ curCh' = NoCursor /\ curHeld' = NoCursor
    /\ UNCHANGED <<runs, cancelled, start, produced, genErr, reach, curFile>>

\* main returns: runRecrawl waits for errch first, nobody waits for the cursor
\* goroutine.
Exit ==
    /\ svc = "up" /\ mainPc = "wait"
    /\ Mode = "recrawl" => genPc = "done"
    /\ svc' = IF genErr THEN "failed" ELSE "exited"
    /\ lost' = lost \cup Elems(ips) \cup Positions(UNION Elems(pend))
    /\ ProcessGone
    /\ UNCHANGED faults

-----------------------------------------------------------------------------
(* The surroundings.                                                       *)

\* SIGTERM or SIGINT.
Signal ==
    /\ Happens("signal")
    /\ svc = "up" /\ ~cancelled
    /\ cancelled' = TRUE
    /\ UNCHANGED <<storeVars, svc, runs, genVars, ips, workerVars, results,
                   mainPc, cursorVars, lost>>

\* The process is killed or panics.
Crash ==
    /\ Happens("crash")
    /\ svc = "up"
    /\ svc' = "crashed"
    /\ lost' = lost
    /\ ProcessGone

DiskFails ==
    /\ Happens("diskerr")
    /\ svc = "up"
    /\ WriteFails
    /\ UNCHANGED <<svc, runs, cancelled, genVars, ips, workerVars, results,
                   mainPc, cursorVars, lost>>

\* No start is left within the bound.
Halted ==
    /\ svc # "up" /\ runs = MaxRuns
    /\ UNCHANGED vars

-----------------------------------------------------------------------------
Generator == EmitSharded \/ EmitTarget \/ GenStops \/ FinalCursor
CursorGoroutine == RecvCursor \/ WriteCursor
Main == Consume \/ EndConsume \/ FlushFile \/ PatchHeader \/ CloseFails \/ Exit
Service == Start \/ StartRefused \/ StartFresh
Faults == ScanFails \/ Signal \/ Crash \/ DiskFails

Next ==
    \/ Service \/ Generator \/ CursorGoroutine \/ (\E w \in Workers : Worker(w))
    \/ Main \/ Faults \/ Halted

Spec == Init /\ [][Next]_vars

\* The Go scheduler runs every goroutine that can run; lookups end because
\* every DNS exchange has a deadline, and the token ticker keeps ticking.
Fairness ==
    /\ WF_vars(Generator) /\ WF_vars(CursorGoroutine) /\ WF_vars(Main)
    /\ \A w \in Workers : WF_vars(Worker(w))

FairSpec == Spec /\ Fairness

-----------------------------------------------------------------------------
(* Properties.                                                             *)

\* Positions this run has handed to the pipeline and not dropped.
InPipeline ==
    Elems(ips) \cup Held \cup Positions(Elems(results)) \cup Positions(buf)
               \cup Positions(UNION Elems(pend))

\* Positions somewhere in the blocks of the file.
OnDisk == Positions(UNION Elems(disk))

\* Nothing a running process has handed out vanishes: as long as the service
\* is up, every position between the run's start and the generator's is in a
\* channel, in a worker, in a buffer, in the file, or was dropped, and only a
\* cancelled context (Run's ctx.Done branches) or a failed write (flushBlock)
\* drops anything.
NothingVanishes ==
    svc = "up" =>
        /\ start..(produced - 1) \subseteq InPipeline \cup OnDisk \cup lost
        /\ ~cancelled /\ ~werr => lost = {}

\* A run handles a position once: at most one channel, worker or buffer holds
\* it, however the workers interleave, so a block never has two records of
\* one address from one run.
OncePerRun ==
    Len(ips) + Cardinality({w \in Workers : hand[w] # Empty}) + Len(results)
      + Cardinality(buf) + RecordCount(pend) = Cardinality(InPipeline)

\* A resumed run never starts behind a target no run has handed out: the
\* cursor file (writeCursor, writeCountCursor) cannot get ahead of the
\* generators, whatever crashes.
NoTargetSkipped == ResumePoint(curFile) <= reach

\* When a run ends by itself at the end of the stream, every target has a
\* record a reader can reach, whatever runs came before it.
Covered ==
    svc = "exited" /\ ~cancelled /\ ~werr /\ produced = NTargets
        => Pos \subseteq Positions(Scan(disk))

\* The total in the header (Writer.header) never promises more records than
\* the blocks of the file hold, whatever crashes and failed writes came before.
HeaderNeverOverstates == hdr = "final" => hTotal <= RecordCount(disk)

\* Without crashes and failed writes, the header of a stopped service counts
\* exactly the records of the file, over all its runs (NewWriterResume).
HeaderExact ==
    svc \in {"exited", "failed"} => hdr = "final" /\ hTotal = RecordCount(disk)

\* What a stop by signal costs: every worker drops at most one target, and at
\* most a channel full is never taken (Run, GenerateShardedFull).
LossBounded ==
    svc # "up" /\ ~werr => Cardinality(lost) <= OutCap + Cardinality(Workers)

\* The file only grows, over crashes, failed writes and resumed runs, unless the
\* operator starts without --resume: what a reader of the shard could read
\* stays readable and stays first (NewWriterResume, flushBlock).
FileOnlyGrows ==
    [][\/ \A i \in DOMAIN disk : i \in DOMAIN disk' /\ disk'[i] = disk[i]
       \/ StartFresh]_vars

\* The cursor file never moves backwards.
CursorMonotone == [][curFile' >= curFile]_vars

\* Every run comes to an end: the generator, the workers, the consumer and
\* main never wait for one another in a circle.
RunEnds == svc = "up" ~> svc # "up"

-----------------------------------------------------------------------------
(* What the repository says of the node, and the code does not keep.       *)

\* ipgen.go: resuming in crawl mode starts behind the last stored address, so
\* nothing before the resume point is missing from the file.
ResumePointStored == svc # "up" => 0..(ResumePoint(curFile) - 1) \subseteq OnDisk

\* deploy/README.md: a restarted unit continues from its cursor and appends.
RestartContinues == svc # "refused"

\* The first record of a position in file order, the one merge and compare
\* keep.
FirstRecord(d, p) ==
    LET has(i) == \E r \in d[i] : r.pos = p
        i == CHOOSE i \in DOMAIN d : has(i) /\ \A j \in 1..(i - 1) : ~has(j)
    IN  CHOOSE r \in d[i] : r.pos = p

\* main.go: what a resumed recrawl crawls again are harmless duplicates, so a
\* position that has a real answer in the file is read with a real answer.
DuplicatesHarmless ==
    \A r \in UNION Elems(disk) : r.real => FirstRecord(disk, r.pos).real

\* reader.go: an interrupted write costs the partial tail of the file and
\* nothing else.
TornOnlyAtTail == \A i \in DOMAIN disk : disk[i] = Torn => i = Len(disk)

\* finish-pass2.sh and collect.sh: a valid header means that the node's crawl is
\* complete, so a node that still crawls and lacks records does not have one.
FinalHeaderMeansComplete ==
    svc = "up" /\ mainPc = "run" /\ hdr = "final" => Pos \subseteq Positions(Scan(disk))
=============================================================================
