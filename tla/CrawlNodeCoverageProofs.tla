------------------------ MODULE CrawlNodeCoverageProofs ------------------------
(***************************************************************************)
(* Coverage: a recrawl that is stopped by signals and failed reads and     *)
(* resumed any number of times leaves no target without a record, provided *)
(* no answer is outstanding for longer than a checkpoint of later targets. *)
(***************************************************************************)
EXTENDS CrawlNodeCountProofs

\* Recrawl mode without crashes, failed writes and fresh starts, and the timing
\* the rewind of runRecrawl relies on: while a target waits for its result, fewer
\* than Checkpoint later ones are handed out.
RewindSuffices ==
    /\ Mode = "recrawl"
    /\ MaxOvertake <= Checkpoint
    /\ Events \subseteq {"signal", "scanerr"}

-----------------------------------------------------------------------------
(* Every block of the file can be read.                                    *)

\* No write is interrupted, so no fragment is torn: the file ends inside a block
\* only while the rest of the block waits in memory.
WholeBlocks ==
    /\ Torn \notin Elems(disk) \cup Elems(pend)
    /\ cut => pend # <<>>

LEMMA WholeSpill ==
    ASSUME StoreTypeOK(Rec), WholeBlocks, NEW block \in SUBSET Rec, flushBlock(block)
    PROVE  WholeBlocks'
<1>1. CASE UNCHANGED <<disk, pend, cut>>
  BY <1>1 DEF WholeBlocks
<1>2. CASE block # {} /\ Spill(Append(pend, block))
  <2> DEFINE q == Append(pend, block)
  <2>1. q \in Seq(SUBSET Rec) /\ disk \in Seq(SUBSET Rec) /\ pend \in Seq(SUBSET Rec)
    BY AppendType DEF StoreTypeOK
  <2>2. Elems(q) = Elems(pend) \cup {block}
    BY <2>1, ElemsAppend
  <2>3. PICK k \in 0..Len(q) :
          /\ disk' = disk \o SubSeq(q, 1, k)
          /\ pend' = SubSeq(q, k + 1, Len(q))
          /\ cut' \in IF k = Len(q) THEN {FALSE}
                      ELSE IF k = 0 THEN {cut, TRUE} ELSE BOOLEAN
    BY <1>2 DEF Spill
  <2> HIDE DEF q
  <2>4. SubSeq(q, 1, k) \in Seq(SUBSET Rec)
    BY <2>1, SplitType
  <2>5. Elems(SubSeq(q, 1, k)) \subseteq Elems(q)
    BY <2>1 DEF Elems
  <2>6. Elems(pend') \subseteq Elems(q)
    BY <2>1, <2>3, SuffixElems
  <2>7. Elems(disk') = Elems(disk) \cup Elems(SubSeq(q, 1, k))
    BY <2>1, <2>3, <2>4, ElemsConcat
  <2>8. Torn \notin Elems(disk') \cup Elems(pend')
    BY <1>2, <2>2, <2>5, <2>6, <2>7 DEF WholeBlocks, Torn
  <2>9. cut' => pend' # <<>>
    <3>1. cut' => k # Len(q)
      BY <2>3
    <3>2. Len(pend') = Len(q) - k
      BY <2>1, <2>3
    <3>3. Len(<<>>) = 0 /\ Len(q) \in Nat
      BY <2>1
    <3> QED BY <3>1, <3>2, <3>3
  <2> QED BY <2>8, <2>9 DEF WholeBlocks
<1> QED BY <1>1, <1>2 DEF flushBlock

LEMMA NextWhole ==
    ASSUME "crash" \notin Events, TypeInv, LossInv, ~werr, WholeBlocks, [Next]_vars
    PROVE  WholeBlocks'
<1> USE DEF TypeInv, TypeOK
<1>1. CASE UNCHANGED <<disk, pend, cut>>
  BY <1>1 DEF WholeBlocks
<1>2. CASE Start \/ StartFresh
  <2>1. pend' = <<>> /\ ~cut' /\ (disk' = disk \/ disk' = <<>>)
    BY <1>2 DEF Start, StartFresh, NewWriterResume, NewWriter, OpenWriter, fileVars
  <2>2. Elems(<<>>) = {}
    BY DEF Elems
  <2> QED BY <2>1, <2>2 DEF WholeBlocks
<1>3. CASE Consume
  <2>1. Head(results) \in Rec
    BY <1>3, HeadTailType DEF Consume, ChannelsTypeOK
  <2>2. buf \cup {Head(results)} \in SUBSET Rec
    BY <2>1 DEF StoreTypeOK
  <2> QED BY <1>1, <1>3, <2>2, WholeSpill DEF Consume, Add
<1>4. CASE EndConsume
  BY <1>4, WholeSpill DEF EndConsume, CloseBlock, StoreTypeOK
<1>5. CASE FlushFile
  <2>1. disk' = disk \o pend /\ pend' = <<>> /\ ~cut'
    BY <1>5 DEF FlushFile, CloseFlush
  <2>2. Elems(disk') = Elems(disk) \cup Elems(pend)
    BY <2>1, ElemsConcat DEF StoreTypeOK
  <2>3. Elems(<<>>) = {}
    BY DEF Elems
  <2> QED BY <2>1, <2>2, <2>3 DEF WholeBlocks
<1>6. CASE Exit
  <2>1. pend = <<>>
    BY <1>6 DEF Exit, LossInv
  <2>2. disk' = disk /\ pend' = pend /\ ~cut'
    BY <1>6, <2>1 DEF Exit, ProcessGone, Abandon, WholeBlocks
  <2> QED BY <2>2 DEF WholeBlocks
<1>7. CASE Crash
  BY <1>7 DEF Crash, Happens
<1>8. CASE DiskFails
  BY <1>8 DEF DiskFails, WriteFails, WholeBlocks, fileVars
<1>9. ASSUME NEW w \in Workers, Worker(w)
      PROVE  UNCHANGED <<disk, pend, cut>>
  BY <1>9 DEF Worker, Take, GetToken, AbortToken, Lookup, Send, Drop, Leave, WorkerStep,
              storeVars, fileVars, writerVars
<1>10. CASE StartRefused \/ Generator \/ CursorGoroutine \/ PatchHeader \/ CloseFails
            \/ ScanFails \/ Signal \/ UNCHANGED vars
  BY <1>1, <1>10 DEF StartRefused, Generator, EmitSharded, EmitTarget, Emit, GenStops,
              FinalCursor, CursorGoroutine, RecvCursor, WriteCursor, PatchHeader,
              CloseHeader, CloseFails, ScanFails, Signal, vars, storeVars, fileVars, writerVars
<1> QED
  BY <1>1, <1>2, <1>3, <1>4, <1>5, <1>6, <1>7, <1>8, <1>9, <1>10
     DEF Next, Service, Main, Faults, Halted

\* A reader reaches every record of such a file.
LEMMA WholeScan ==
    ASSUME disk \in Seq(SUBSET Rec), WholeBlocks
    PROVE  OnDisk = Positions(Scan(disk))
<1>1. DOMAIN disk = 1..Len(disk) /\ \A i \in DOMAIN disk : disk[i] # Torn
  BY DEF WholeBlocks, Elems
<1>2. ReadableBlocks(disk) = DOMAIN disk
  BY <1>1 DEF ReadableBlocks
<1>3. Scan(disk) = UNION Elems(disk)
  BY <1>2, Zenon DEF Scan, Elems
<1> QED BY <1>3 DEF OnDisk

-----------------------------------------------------------------------------
(* Nothing settled gets lost before it is in the file.                     *)

\* The positions that have a result, in a channel, in memory or in the file.
Settled == Positions(Elems(results)) \cup Positions(buf) \cup Positions(InBlocks)

\* A run resumed from this cursor value skips only positions that have a result.
Safe(v) == 0..(ResumePoint(v) - 1) \subseteq Settled

LEMMA DiskSettled == OnDisk \subseteq Settled
<1>1. UNION Elems(disk) \subseteq InBlocks
  BY DEF InBlocks
<1> QED BY <1>1, PositionsUnion DEF OnDisk, Settled

LEMMA SettledSame ==
    ASSUME UNCHANGED storeVars, results' = results
    PROVE  Settled' = Settled
  BY BlocksSame DEF Settled

LEMMA WorkerSettles ==
    ASSUME TypeInv, NEW w \in Workers, Worker(w)
    PROVE  Settled \subseteq Settled'
<1>1. UNCHANGED storeVars
  BY DEF Worker, Take, GetToken, AbortToken, Lookup, Send, Drop, Leave, WorkerStep
<1>2. CASE Send(w)
  <2>1. Elems(results) \subseteq Elems(results')
    BY <1>2, ElemsAppend DEF Send, TypeInv, TypeOK, ChannelsTypeOK
  <2>2. Positions(Elems(results)) \subseteq Positions(Elems(results'))
    BY <2>1, PositionsUnion
  <2> QED BY <1>1, <2>2, BlocksSame DEF Settled
<1>3. CASE results' = results
  BY <1>1, <1>3, SettledSame
<1> QED
  BY <1>2, <1>3 DEF Worker, Take, GetToken, AbortToken, Lookup, Drop, Leave

LEMMA MainSettles ==
    ASSUME TypeInv, ~werr, Consume \/ EndConsume \/ FlushFile \/ PatchHeader
    PROVE  Settled \subseteq Settled'
<1> USE DEF TypeInv, TypeOK
<1>0. Settled' = Positions(Elems(results')) \cup Positions(buf') \cup Positions(InBlocks')
  BY DEF Settled
<1>1. CASE Consume
  <2>1. Head(results) \in Rec
    BY <1>1, HeadTailType DEF Consume, ChannelsTypeOK
  <2>2. Elems(results) = {Head(results)} \cup Elems(results')
    BY <1>1, ElemsTail DEF Consume, ChannelsTypeOK
  <2>3. InBlocks \subseteq InBlocks' /\ buf \cup {Head(results)} \subseteq buf' \cup InBlocks'
    BY <1>1, <2>1, AddKeeps DEF Consume
  <2>4. /\ Positions(InBlocks) \subseteq Positions(InBlocks')
        /\ Positions(buf \cup {Head(results)}) \subseteq Positions(buf') \cup Positions(InBlocks')
        /\ Positions(buf \cup {Head(results)})
             = Positions(buf) \cup Positions({Head(results)})
        /\ Positions(Elems(results))
             = Positions({Head(results)}) \cup Positions(Elems(results'))
    <3>1. Positions(buf \cup {Head(results)}) \subseteq Positions(buf' \cup InBlocks')
      BY <2>3, PositionsUnion
    <3>2. Positions(buf' \cup InBlocks') = Positions(buf') \cup Positions(InBlocks')
      BY PositionsUnion
    <3> QED BY <2>2, <2>3, <3>1, <3>2, PositionsUnion
  <2> QED BY <1>0, <2>4 DEF Settled
<1>2. CASE EndConsume
  <2>1. flushBlock(buf) /\ results' = results
    BY <1>2 DEF EndConsume, CloseBlock
  <2>2. InBlocks \subseteq InBlocks' /\ buf \subseteq InBlocks'
    BY <2>1, FlushKeeps DEF StoreTypeOK
  <2>3. /\ Positions(InBlocks) \subseteq Positions(InBlocks')
        /\ Positions(buf) \subseteq Positions(InBlocks')
    BY <2>2, PositionsUnion
  <2> QED BY <1>0, <2>1, <2>3 DEF Settled
<1>3. CASE FlushFile
  <2>1. disk' = disk \o pend /\ pend' = <<>> /\ buf' = buf /\ results' = results
    BY <1>3 DEF FlushFile, CloseFlush
  <2>2. Elems(disk') = Elems(disk) \cup Elems(pend)
    BY <2>1, ElemsConcat DEF StoreTypeOK
  <2>3. InBlocks \subseteq InBlocks'
    <3>1. Elems(pend) \cup Elems(disk) \subseteq Elems(pend') \cup Elems(disk')
      BY <2>2
    <3>2. InBlocks' = (UNION Elems(pend')) \cup (UNION Elems(disk'))
      BY DEF InBlocks
    <3> QED BY <3>1, <3>2, UnionUnion DEF InBlocks
  <2>4. Positions(InBlocks) \subseteq Positions(InBlocks')
    BY <2>3, PositionsUnion
  <2> QED BY <1>0, <2>1, <2>4 DEF Settled
<1>4. CASE PatchHeader
  <2>1. InBlocks' = InBlocks /\ buf' = buf /\ results' = results
    BY <1>4 DEF PatchHeader, CloseHeader, writerVars, InBlocks
  <2> QED BY <1>0, <2>1 DEF Settled
<1> QED BY <1>1, <1>2, <1>3, <1>4

-----------------------------------------------------------------------------
(* The timing, and the drained pipeline.                                   *)

\* What waits for a result is at most a checkpoint behind the generator.
Timely == \A p \in Waiting : produced - p <= Checkpoint

LEMMA WaitingType ==
    ASSUME TypeInv
    PROVE  Waiting \subseteq Pos
<1> USE DEF TypeInv, TypeOK
<1>1. Elems(ips) \subseteq Pos
  BY DEF ChannelsTypeOK, Elems
<1>2. Held \subseteq Pos
  BY DEF WorkersTypeOK, Held, Rec
<1>3. lost \subseteq Pos
  BY DEF ServiceTypeOK
<1> QED BY <1>1, <1>2, <1>3 DEF Waiting

LEMMA WorkerTimely ==
    ASSUME TypeInv, NEW w \in Workers, Worker(w)
    PROVE  Waiting' \subseteq Waiting
<1> USE DEF TypeInv, TypeOK
<1>1. cancelled' = cancelled
  BY DEF Worker, Take, GetToken, AbortToken, Lookup, Send, Drop, Leave, WorkerStep
<1>2. Waiting = Elems(ips) \cup Held \cup (IF cancelled THEN lost ELSE {})
      /\ Waiting' = Elems(ips') \cup Held' \cup (IF cancelled THEN lost' ELSE {})
  BY <1>1 DEF Waiting
<1>3. wpc[w] \in {"token", "lookup", "send"} => hand[w] # Empty /\ hand[w] \in Rec
  BY DEF WorkersTypeOK
<1>4. wpc[w] = "idle" => hand[w] = Empty
  BY DEF WorkersTypeOK
<1>5. CASE Take(w)
  <2>1. Head(ips) \in Pos
    BY <1>5, HeadTailType DEF Take, ChannelsTypeOK
  <2>2. Elems(ips) = {Head(ips)} \cup Elems(ips')
    BY <1>5, ElemsTail DEF Take, ChannelsTypeOK
  <2>3. [pos |-> Head(ips), real |-> TRUE] # Empty
    <3>1. [pos |-> Head(ips), real |-> TRUE] \in Rec
      BY <2>1 DEF Rec
    <3> QED BY <3>1, EmptyNotRec
  <2>4. Held' = Held \cup {Head(ips)}
    BY <1>4, <1>5, <2>3, HandMoves DEF Take
  <2> QED BY <1>2, <1>5, <2>2, <2>4 DEF Take
<1>6. CASE GetToken(w)
  <2>1. Held' = Held
    BY <1>3, <1>6, HandMoves DEF GetToken
  <2> QED BY <1>2, <1>6, <2>1 DEF GetToken
<1>7. CASE AbortToken(w) \/ Drop(w)
  <2>1. Held' \subseteq Held /\ hand[w].pos \in Held
    BY <1>3, <1>7, HandMoves DEF AbortToken, Drop
  <2>2. lost' = lost \cup {hand[w].pos} /\ ips' = ips
    BY <1>7 DEF AbortToken, Drop
  <2> QED BY <1>2, <2>1, <2>2
<1>8. CASE Lookup(w)
  <2>1. PICK real \in BOOLEAN :
           WorkerStep(w, "send", [pos |-> hand[w].pos, real |-> real])
    BY <1>8 DEF Lookup
  <2>2. [pos |-> hand[w].pos, real |-> real] # Empty
    BY <1>3, <1>8, EmptyNotRec DEF Lookup, Rec
  <2>3. Held' = Held
    BY <1>3, <1>8, <2>1, <2>2, HandMoves DEF Lookup
  <2> QED BY <1>2, <1>8, <2>3 DEF Lookup
<1>9. CASE Send(w)
  <2>1. Held' \subseteq Held
    BY <1>3, <1>9, HandMoves DEF Send
  <2> QED BY <1>2, <1>9, <2>1 DEF Send
<1>10. CASE Leave(w)
  <2>1. Held' = Held
    BY <1>4, <1>10, HandMoves DEF Leave
  <2> QED BY <1>2, <1>10, <2>1 DEF Leave
<1> QED BY <1>5, <1>6, <1>7, <1>8, <1>9, <1>10 DEF Worker

\* Without a signal a worker leaves only a drained and closed channel, and Close
\* begins only when all workers have left and all results are stored.
Drained ==
    /\ ~cancelled => \A w \in Workers : wpc[w] = "left" => ips = <<>> /\ genPc = "done"
    /\ mainPc # "run" => results = <<>> /\ buf = {} /\ \A w \in Workers : wpc[w] = "left"

LEMMA WorkerDrained ==
    ASSUME TypeInv, Drained, NEW w \in Workers, Worker(w)
    PROVE  Drained'
<1>1. /\ UNCHANGED <<cancelled, genPc, mainPc, buf>> /\ wpc[w] # "left"
      /\ \E pc : wpc' = [wpc EXCEPT ![w] = pc]
  BY DEF Worker, Take, GetToken, AbortToken, Lookup, Send, Drop, Leave, WorkerStep,
         storeVars, writerVars, genVars
<1>2. mainPc = "run"
  BY <1>1 DEF Drained
<1>3. CASE AbortToken(w) \/ Drop(w)
  BY <1>1, <1>2, <1>3 DEF AbortToken, Drop, Drained
<1>4. CASE Leave(w)
  BY <1>1, <1>2, <1>4 DEF Leave, Drained
<1>5. CASE Take(w)
  <2>1. wpc' = [wpc EXCEPT ![w] = IF RateLimited THEN "token" ELSE "lookup"] /\ ips # <<>>
    BY <1>5 DEF Take, WorkerStep
  <2> QED BY <1>1, <1>2, <2>1 DEF Drained, TypeInv, TypeOK, WorkersTypeOK
<1>6. CASE GetToken(w) \/ Lookup(w) \/ Send(w)
  <2>1. ips' = ips /\ \E pc \in {"lookup", "send", "idle"} : wpc' = [wpc EXCEPT ![w] = pc]
    BY <1>6 DEF GetToken, Lookup, Send, WorkerStep
  <2> QED BY <1>1, <1>2, <2>1 DEF Drained, TypeInv, TypeOK, WorkersTypeOK
<1> QED BY <1>3, <1>4, <1>5, <1>6 DEF Worker

-----------------------------------------------------------------------------
(* The invariant of a resumed recrawl.                                     *)

\* What holds while the service is up: whatever this run skipped has a result,
\* and so has whatever a run resumed from the cursor file, or from a cursor value
\* on its way to it, would skip.
CoverUp ==
    /\ 0..(start - 1) \subseteq Settled
    /\ Timely
    /\ Safe(curCh) /\ Safe(curHeld) /\ Safe(curFile)
    /\ Drained

CoverInv ==
    /\ ~werr /\ WholeBlocks
    /\ svc = "up" => CoverUp
    /\ svc # "up" => 0..(ResumePoint(curFile) - 1) \subseteq OnDisk
    /\ Covered

LEMMA CoverGrows ==
    ASSUME CoverUp, Settled \subseteq Settled', Waiting' \subseteq Waiting, Drained',
           UNCHANGED <<start, produced, cursorVars>>
    PROVE  CoverUp'
  BY DEF CoverUp, Timely, Safe, ResumePoint, CrawlStart, RecrawlStart, cursorVars

LEMMA WaitingSame ==
    ASSUME UNCHANGED <<ips, hand, cancelled, lost>>
    PROVE  Waiting' = Waiting
<1>1. Held' = Held
  BY DEF Held
<1> QED BY <1>1 DEF Waiting, Elems

\* What has been skipped or handed out has a result or waits for one.
LEMMA HandedOut ==
    ASSUME NothingVanishes, ~werr, svc = "up", TypeInv, 0..(start - 1) \subseteq Settled,
           NEW p \in 0..(produced - 1), p \notin Waiting
    PROVE  p \in Settled
<1>1. start \in Nat /\ produced \in Nat
  BY DEF TypeInv, TypeOK, GeneratorTypeOK
<1>2. CASE p \in start..(produced - 1)
  <2>1. p \in Everywhere
    BY <1>2 DEF NothingVanishes, Everywhere
  <2>2. Everywhere = Elems(ips) \cup Held \cup Settled \cup lost
    BY EverywhereParts DEF Settled
  <2>3. ~cancelled => lost = {}
    BY DEF NothingVanishes
  <2> QED BY <2>1, <2>2, <2>3 DEF Waiting
<1>3. CASE p \in 0..(start - 1)
  BY <1>3
<1> QED BY <1>1, <1>2, <1>3

\* The value of a cursor notification is safe when everything that waits for its
\* result is less than a checkpoint behind it.
LEMMA SafeValue ==
    ASSUME RewindSuffices, NothingVanishes, ~werr, svc = "up", TypeInv,
           0..(start - 1) \subseteq Settled,
           NEW v \in Nat, v <= produced + 1, \A p \in Waiting : v - p <= Checkpoint
    PROVE  Safe(v)
<1>1. produced \in Nat /\ Checkpoint \in Nat \ {0} /\ Mode # "crawl"
  BY NodeAssumption DEF TypeInv, TypeOK, GeneratorTypeOK, RewindSuffices
<1>2. SUFFICES ASSUME NEW p \in 0..(ResumePoint(v) - 1)
               PROVE  p \in Settled
  BY DEF Safe
<1>3. v > Checkpoint /\ p \in 0..(v - Checkpoint - 1)
  BY <1>1, <1>2 DEF ResumePoint, RecrawlStart
<1>4. p \in 0..(produced - 1) /\ v - p > Checkpoint
  BY <1>1, <1>3
<1>5. p \notin Waiting
  BY <1>1, <1>3, <1>4
<1> QED BY <1>4, <1>5, HandedOut

LEMMA EmitCovers ==
    ASSUME RewindSuffices, NothingVanishes, ~werr, TypeInv, CoverUp, EmitTarget
    PROVE  CoverUp'
<1>1. /\ produced \in Nat /\ MaxOvertake \in Nat /\ Checkpoint \in Nat \ {0}
      /\ MaxOvertake <= Checkpoint /\ Pos \subseteq Int
  BY NodeAssumption DEF TypeInv, TypeOK, GeneratorTypeOK, RewindSuffices, Pos
<1>2. /\ svc = "up" /\ genPc = "run" /\ \A p \in Waiting : produced - p < MaxOvertake
      /\ ips' = Append(ips, produced) /\ produced' = produced + 1
      /\ curCh' = curCh \/ curCh' = produced + 1
      /\ UNCHANGED <<storeVars, results, start, curHeld, curFile, hand, wpc, cancelled, lost,
                     mainPc, genPc, buf>>
  BY DEF EmitTarget, Emit, workerVars, storeVars, writerVars
<1>3. Settled' = Settled
  BY <1>2, SettledSame
<1>4. Waiting' = Waiting \cup {produced}
  <2>1. Held' = Held
    BY <1>2 DEF Held
  <2>2. Elems(ips') = Elems(ips) \cup {produced}
    BY <1>2, ElemsAppend DEF TypeInv, TypeOK, ChannelsTypeOK
  <2> QED BY <1>2, <2>1, <2>2 DEF Waiting
<1>5. \A p \in Waiting : p \in Int /\ produced + 1 - p <= Checkpoint
  <2>1. SUFFICES ASSUME NEW p \in Waiting
                 PROVE  p \in Int /\ produced + 1 - p <= Checkpoint
    OBVIOUS
  <2>2. p \in Int
    BY <1>1, WaitingType
  <2>3. produced - p < MaxOvertake
    BY <1>2
  <2> QED BY <1>1, <2>2, <2>3
<1>6. Timely'
  <2>1. SUFFICES ASSUME NEW p \in Waiting'
                 PROVE  produced' - p <= Checkpoint
    BY DEF Timely
  <2> QED BY <1>1, <1>2, <1>4, <1>5
<1>7. Safe(curCh)'
  <2>1. Safe(curCh) /\ 0..(start - 1) \subseteq Settled
    BY DEF CoverUp
  <2>2. Safe(produced + 1)
    BY <1>1, <1>2, <1>5, <2>1, SafeValue
  <2> QED BY <1>2, <1>3, <2>1, <2>2 DEF Safe, ResumePoint, CrawlStart, RecrawlStart
<1>8. Safe(curHeld)' /\ Safe(curFile)' /\ 0..(start' - 1) \subseteq Settled'
  BY <1>2, <1>3 DEF CoverUp, Safe, ResumePoint, CrawlStart, RecrawlStart
<1>9. Drained'
  BY <1>2 DEF CoverUp, Drained
<1> QED BY <1>6, <1>7, <1>8, <1>9 DEF CoverUp

\* The cursor goroutine and the end of StreamTargets only move safe values.
LEMMA CursorCovers ==
    ASSUME RewindSuffices, NothingVanishes, ~werr, TypeInv, CoverUp,
           FinalCursor \/ RecvCursor \/ WriteCursor
    PROVE  CoverUp'
<1>1. /\ UNCHANGED <<storeVars, results, start, produced, ips, hand, wpc, cancelled, lost,
                     mainPc, buf>>
      /\ svc = "up"
  BY DEF FinalCursor, RecvCursor, WriteCursor, genVars, workerVars, storeVars, writerVars
<1>2. Settled' = Settled /\ Waiting' = Waiting
  BY <1>1, SettledSame, WaitingSame
<1>3. Timely' /\ 0..(start' - 1) \subseteq Settled'
  BY <1>1, <1>2 DEF CoverUp, Timely
<1>4. Drained'
  BY <1>1 DEF FinalCursor, RecvCursor, WriteCursor, genVars, CoverUp, Drained
<1>5. Safe(NoCursor) /\ Safe(produced)
  <2>1. Safe(NoCursor)
    <3>1. Mode # "crawl" /\ Checkpoint \in Nat
      BY NodeAssumption DEF RewindSuffices
    <3>2. ResumePoint(NoCursor) = 0
      BY <3>1 DEF ResumePoint, RecrawlStart, NoCursor
    <3> QED BY <3>2 DEF Safe
  <2>2. produced \in Nat /\ \A p \in Waiting : produced - p <= Checkpoint
    BY DEF CoverUp, Timely, TypeInv, TypeOK, GeneratorTypeOK
  <2>3. produced <= produced + 1
    BY <2>2
  <2> QED BY <1>1, <2>1, <2>2, <2>3, SafeValue DEF CoverUp
<1>6. ASSUME NEW v, Safe(v)
      PROVE  0..(ResumePoint(v) - 1) \subseteq Settled'
  BY <1>2, <1>6 DEF Safe
<1>7. /\ curCh' \in {curCh, NoCursor, produced}
      /\ curHeld' \in {curHeld, curCh, NoCursor}
      /\ curFile' \in {curFile, curHeld}
  BY DEF FinalCursor, RecvCursor, WriteCursor
<1>8. \A v \in {curCh, curHeld, curFile, NoCursor, produced} :
         0..(ResumePoint(v) - 1) \subseteq Settled'
  BY <1>5, <1>6 DEF CoverUp
<1>9. Safe(curCh)' /\ Safe(curHeld)' /\ Safe(curFile)'
  BY <1>7, <1>8 DEF Safe, ResumePoint, CrawlStart, RecrawlStart
<1> QED BY <1>3, <1>4, <1>9 DEF CoverUp

\* A run starts behind nothing the file lacks.
LEMMA StartCovers ==
    ASSUME RewindSuffices, TypeInv, FileExists, CoverInv, Start
    PROVE  CoverUp'
<1>1. /\ svc # "up" /\ NewWriterResume
      /\ start' = ResumePoint(curFile) /\ produced' = start'
      /\ ips' = <<>> /\ results' = <<>> /\ hand' = [w \in Workers |-> Empty]
      /\ wpc' = [w \in Workers |-> "idle"] /\ mainPc' = "run" /\ ~cancelled'
      /\ curCh' = NoCursor /\ curHeld' = NoCursor /\ curFile' = curFile
  BY DEF Start, Launch
<1>2. disk' = disk
  BY <1>1 DEF FileExists, NewWriterResume, NewWriter, fileVars
<1>3. OnDisk \subseteq Settled'
  <2>1. OnDisk' \subseteq Settled'
    <3>1. (OnDisk \subseteq Settled)'
      BY DiskSettled, PTL
    <3> QED BY <3>1
  <2> QED BY <1>2, <2>1 DEF OnDisk, Elems
<1>4. 0..(start' - 1) \subseteq Settled'
  BY <1>1, <1>3 DEF CoverInv
<1>5. Waiting' = {}
  <2>1. Held' = {}
    BY <1>1 DEF Held
  <2>2. Elems(ips') = {}
    BY <1>1 DEF Elems
  <2> QED BY <1>1, <2>1, <2>2 DEF Waiting
<1>6. Timely'
  BY <1>5 DEF Timely
<1>7. 0..(ResumePoint(NoCursor) - 1) \subseteq Settled'
  <2>1. Mode # "crawl" /\ Checkpoint \in Nat
    BY NodeAssumption DEF RewindSuffices
  <2>2. ResumePoint(NoCursor) = 0
    BY <2>1 DEF ResumePoint, RecrawlStart, NoCursor
  <2> QED BY <2>2
<1>8. Safe(curCh)' /\ Safe(curHeld)' /\ Safe(curFile)'
  BY <1>1, <1>4, <1>7 DEF Safe, ResumePoint, CrawlStart, RecrawlStart
<1>9. Drained'
  BY <1>1 DEF Drained
<1> QED BY <1>4, <1>6, <1>8, <1>9 DEF CoverUp

\* When main returns, everything that has a result is in the file; without a
\* signal nothing waits for a result any more.
LEMMA ExitCovers ==
    ASSUME NothingVanishes, LossInv, TypeInv, ~werr, WholeBlocks, CoverUp, Exit
    PROVE  /\ 0..(ResumePoint(curFile) - 1) \subseteq OnDisk'
           /\ Covered'
<1>1. /\ svc = "up" /\ mainPc = "wait" /\ Abandon /\ UNCHANGED <<cancelled, produced>>
  BY DEF Exit, ProcessGone
<1>2. pend = <<>> /\ results = <<>> /\ buf = {} /\ \A w \in Workers : wpc[w] = "left"
  BY <1>1 DEF LossInv, CoverUp, Drained
<1>3. disk' = disk
  BY <1>1, <1>2 DEF Abandon, WholeBlocks
<1>4. Settled = OnDisk
  <2>1. InBlocks = UNION Elems(disk)
    BY <1>2, EmptyBlocks DEF InBlocks
  <2>2. Elems(<<>>) = {}
    BY DEF Elems
  <2> QED BY <1>2, <2>1, <2>2, EmptyBlocks DEF Settled, OnDisk
<1>5. OnDisk' = OnDisk
  BY <1>3 DEF OnDisk, Elems
<1>6. ASSUME ~cancelled, produced = NTargets
      PROVE  Pos \subseteq Positions(Scan(disk))
  <2>1. ips = <<>>
    BY <1>2, <1>6, WorkersAssumption DEF CoverUp, Drained
  <2>2. Held = {}
    BY <1>2 DEF Held, TypeInv, TypeOK, WorkersTypeOK
  <2>3. Waiting = {}
    BY <1>6, <2>1, <2>2 DEF Waiting, Elems
  <2>4. 0..(start - 1) \subseteq Settled
    BY DEF CoverUp
  <2>5. Pos \subseteq Settled
    BY <1>1, <1>6, <2>3, <2>4, HandedOut DEF Pos
  <2> QED BY <1>4, <2>5, WholeScan DEF TypeInv, TypeOK, StoreTypeOK
<1> QED BY <1>1, <1>3, <1>4, <1>5, <1>6 DEF CoverUp, Safe, Covered

LEMMA LowerDistance ==
    ASSUME NEW a \in Nat, NEW b \in Nat, NEW p \in Int, NEW c \in Nat, a <= b, b - p <= c
    PROVE  a - p <= c
  OBVIOUS

LEMMA LowerRange ==
    ASSUME NEW a \in Nat, NEW b \in Nat, a <= b
    PROVE  0..(a - 1) \subseteq 0..(b - 1)
  OBVIOUS

LEMMA NextCoverUp ==
    ASSUME RewindSuffices, NothingVanishes, TypeInv, FileExists, CoverInv, [Next]_vars,
           svc' = "up"
    PROVE  CoverUp'
<1> USE DEF CoverInv
<1>1. CASE Start
  BY <1>1, StartCovers
<1>2. CASE StartRefused \/ StartFresh \/ EmitSharded \/ CloseFails \/ Exit \/ Crash \/ DiskFails
  BY <1>2 DEF StartRefused, StartFresh, EmitSharded, CloseFails, Exit, Crash, DiskFails,
              Happens, RewindSuffices
<1>3. CASE EmitTarget
  BY <1>3, EmitCovers DEF EmitTarget, Emit
<1>4. CASE FinalCursor \/ RecvCursor \/ WriteCursor
  BY <1>4, CursorCovers DEF FinalCursor, RecvCursor, WriteCursor
<1>5. CASE GenStops
  <2>1. /\ svc = "up" /\ genPc = "run"
        /\ UNCHANGED <<storeVars, results, start, produced, cursorVars, ips, hand, wpc,
                       cancelled, lost, mainPc, buf>>
    BY <1>5 DEF GenStops, workerVars, storeVars, writerVars
  <2>2. Drained'
    BY <2>1 DEF CoverUp, Drained
  <2> QED BY <2>1, <2>2, SettledSame, WaitingSame, CoverGrows
<1>6. ASSUME NEW w \in Workers, Worker(w)
      PROVE  CoverUp'
  <2>1. svc = "up" /\ UNCHANGED <<start, produced, cursorVars>>
    BY <1>6 DEF Worker, Take, GetToken, AbortToken, Lookup, Send, Drop, Leave, WorkerStep,
                genVars
  <2>2. Drained'
    BY <1>6, <2>1, WorkerDrained DEF CoverUp
  <2> QED BY <1>6, <2>1, <2>2, WorkerSettles, WorkerTimely, CoverGrows
<1>7. CASE Consume \/ EndConsume \/ FlushFile \/ PatchHeader
  <2>1. /\ svc = "up"
        /\ UNCHANGED <<start, produced, cursorVars, ips, hand, wpc, cancelled, genPc>>
    BY <1>7 DEF Consume, EndConsume, FlushFile, PatchHeader, MainFrame, genVars, workerVars
  <2>2. lost' = lost
    BY <1>7, MainKeeps
  <2>3. Drained'
    <3>1. Drained
      BY <2>1 DEF CoverUp
    <3>2. CASE Consume
      BY <2>1, <3>1, <3>2 DEF Consume, Drained
    <3>3. CASE EndConsume
      <4>1. results' = <<>> /\ buf' = {} /\ \A w \in Workers : wpc'[w] = "left"
        BY <2>1, <3>3 DEF EndConsume, CloseBlock, flushBlock
      <4> QED BY <2>1, <3>1, <4>1 DEF Drained
    <3>4. CASE FlushFile \/ PatchHeader
      <4>1. mainPc # "run" /\ UNCHANGED <<results, buf>>
        BY <3>4 DEF FlushFile, CloseFlush, PatchHeader, CloseHeader, writerVars
      <4> QED BY <2>1, <3>1, <4>1 DEF Drained
    <3> QED BY <1>7, <3>2, <3>3, <3>4
  <2> QED BY <1>7, <2>1, <2>2, <2>3, MainSettles, WaitingSame, CoverGrows
<1>8. CASE Signal
  <2>1. /\ svc = "up" /\ ~cancelled /\ cancelled'
        /\ UNCHANGED <<storeVars, results, start, produced, cursorVars, ips, hand, wpc,
                       lost, mainPc, genPc, buf>>
    BY <1>8 DEF Signal, genVars, workerVars, storeVars, writerVars
  <2>2. lost = {}
    BY <2>1 DEF NothingVanishes
  <2>3. Waiting' = Waiting
    <3>1. Held' = Held /\ Elems(ips') = Elems(ips)
      BY <2>1 DEF Held, Elems
    <3> QED BY <2>1, <2>2, <3>1 DEF Waiting
  <2>4. Drained'
    BY <2>1 DEF CoverUp, Drained
  <2> QED BY <2>1, <2>3, <2>4, SettledSame, CoverGrows
<1>9. CASE ScanFails
  <2>1. /\ svc = "up" /\ genPc = "run"
        /\ UNCHANGED <<storeVars, results, cursorVars, ips, hand, wpc, cancelled, lost,
                       mainPc, buf>>
    BY <1>9 DEF ScanFails, workerVars, storeVars, writerVars
  <2>2. /\ start \in Nat /\ produced \in Nat /\ start <= produced
    BY DEF TypeInv, TypeOK, GeneratorTypeOK
  <2>3. /\ start' \in Nat /\ produced' \in Nat /\ start' <= start /\ produced' <= produced
    BY <1>9, <2>2 DEF ScanFails
  <2>4. Settled' = Settled /\ Waiting' = Waiting
    BY <2>1, SettledSame, WaitingSame
  <2>5. Timely'
    <3>1. SUFFICES ASSUME NEW p \in Waiting
                   PROVE  produced' - p <= Checkpoint
      BY <2>4 DEF Timely
    <3>2. p \in Int /\ produced - p <= Checkpoint
      BY <2>1, WaitingType DEF CoverUp, Timely, Pos
    <3>3. Checkpoint \in Nat
      BY NodeAssumption
    <3>4. produced \in Nat /\ produced' \in Nat /\ produced' <= produced
      BY <2>2, <2>3
    <3> HIDE DEF CoverInv
    <3> QED BY <3>2, <3>3, <3>4, LowerDistance, Zenon
  <2>6. 0..(start' - 1) \subseteq Settled'
    <3>1. 0..(start' - 1) \subseteq 0..(start - 1)
      BY <2>2, <2>3, LowerRange
    <3> QED BY <2>1, <2>4, <3>1 DEF CoverUp
  <2>7. Safe(curCh)' /\ Safe(curHeld)' /\ Safe(curFile)'
    BY <2>1, <2>4 DEF CoverUp, cursorVars, Safe, ResumePoint, CrawlStart, RecrawlStart
  <2>8. Drained'
    BY <2>1 DEF CoverUp, Drained
  <2> QED BY <2>5, <2>6, <2>7, <2>8 DEF CoverUp
<1>10. CASE UNCHANGED vars
  <2>1. /\ svc = "up"
        /\ UNCHANGED <<storeVars, results, start, produced, cursorVars, ips, hand, wpc,
                       cancelled, lost, mainPc, genPc, buf>>
    BY <1>10 DEF vars, genVars, workerVars, storeVars, writerVars
  <2>2. Drained'
    BY <2>1 DEF CoverUp, Drained
  <2> QED BY <2>1, <2>2, SettledSame, WaitingSame, CoverGrows
<1> QED
  BY <1>1, <1>2, <1>3, <1>4, <1>5, <1>6, <1>7, <1>8, <1>9, <1>10
     DEF Next, Service, Generator, CursorGoroutine, Main, Faults, Halted

LEMMA NextCoverInv ==
    ASSUME RewindSuffices, NothingVanishes, LossInv, TypeInv, FileExists, CoverInv,
           [Next]_vars
    PROVE  CoverInv'
<1> USE DEF CoverInv
<1>1. "crash" \notin Events /\ "diskerr" \notin Events
  BY DEF RewindSuffices
<1>2. WholeBlocks'
  BY <1>1, NextWhole
<1>3. ~werr'
  <2>1. CASE Start \/ StartFresh
    BY <2>1 DEF Start, StartFresh, NewWriterResume, NewWriter, OpenWriter
  <2>2. CASE DiskFails
    BY <1>1, <2>2 DEF DiskFails, Happens
  <2>3. ASSUME NEW w \in Workers, Worker(w)
        PROVE  werr' = werr
    BY <2>3 DEF Worker, Take, GetToken, AbortToken, Lookup, Send, Drop, Leave, WorkerStep,
                storeVars, writerVars
  <2>4. CASE StartRefused \/ Generator \/ CursorGoroutine \/ Main \/ ScanFails \/ Signal
             \/ Crash \/ UNCHANGED vars
    BY <2>4 DEF StartRefused, Generator, EmitSharded, EmitTarget, Emit, GenStops,
                FinalCursor, CursorGoroutine, RecvCursor, WriteCursor, Main, Consume, Add,
                EndConsume, CloseBlock, FlushFile, CloseFlush, PatchHeader, CloseHeader,
                CloseFails, Exit, ProcessGone, Abandon, ScanFails, Signal, Crash, vars,
                storeVars, writerVars
  <2> QED BY <2>1, <2>2, <2>3, <2>4 DEF Next, Service, Faults, Halted
<1>4. CASE svc' = "up"
  BY <1>2, <1>3, <1>4, NextCoverUp DEF Covered
<1>5. CASE svc' # "up"
  <2>1. CASE Exit
    BY <1>2, <1>3, <1>5, <2>1, ExitCovers DEF Exit, ProcessGone, ResumePoint, CrawlStart,
                RecrawlStart
  <2>2. CASE StartRefused
    <3>1. svc # "up" /\ svc' = "refused" /\ disk' = disk /\ curFile' = curFile
      BY <2>2 DEF StartRefused, storeVars, fileVars, cursorVars
    <3> QED BY <1>2, <1>3, <3>1 DEF Covered, OnDisk, Elems, ResumePoint, CrawlStart,
                RecrawlStart
  <2>3. CASE UNCHANGED vars
    <3>1. UNCHANGED <<svc, disk, curFile, cancelled, werr, produced>>
      BY <2>3 DEF vars, storeVars, fileVars, writerVars, genVars, cursorVars
    <3> QED BY <1>2, <1>3, <1>5, <3>1 DEF Covered, OnDisk, Elems, ResumePoint, CrawlStart,
                RecrawlStart, Scan, ReadableBlocks
  <2>4. ASSUME NEW w \in Workers, Worker(w)
        PROVE  svc' = "up"
    BY <2>4 DEF Worker, Take, GetToken, AbortToken, Lookup, Send, Drop, Leave, WorkerStep
  <2>5. CASE Start \/ StartFresh \/ Generator \/ CursorGoroutine \/ Consume \/ EndConsume
             \/ FlushFile \/ PatchHeader \/ CloseFails \/ ScanFails \/ Signal \/ Crash
             \/ DiskFails
    <3>1. svc' = "up"
      BY <1>1, <2>5 DEF Start, StartFresh, Launch, Generator, EmitSharded, EmitTarget, Emit,
                GenStops, FinalCursor, CursorGoroutine, RecvCursor, WriteCursor, Consume,
                EndConsume, FlushFile, PatchHeader, CloseFails, MainFrame, ScanFails, Signal,
                Crash, DiskFails, Happens
    <3> QED BY <1>5, <3>1
  <2> QED BY <1>5, <2>1, <2>2, <2>3, <2>4, <2>5 DEF Next, Service, Main, Faults, Halted
<1> QED BY <1>4, <1>5

\* The rewind of runRecrawl is enough: however often a recrawl is stopped by a
\* signal or by a failed read of the previous shard and resumed, when a run ends by
\* itself every target has a record a reader of the shard reaches, provided fewer
\* than Checkpoint targets are handed out while one waits for its result
\* (StreamTargets, readCountCursor, Crawler.Run, Close).
THEOREM CoveredHolds ==
    ASSUME RewindSuffices
    PROVE  Spec => []Covered
<1>1. Init => CoverInv
  <2>1. SUFFICES ASSUME Init
                 PROVE  CoverInv
    OBVIOUS
  <2>2. ~werr /\ disk = <<>> /\ pend = <<>> /\ ~cut /\ svc = "off" /\ curFile = NoCursor
    BY <2>1 DEF Init, StoreInit
  <2>3. WholeBlocks
    BY <2>2 DEF WholeBlocks, Elems
  <2>4. Mode # "crawl" /\ Checkpoint \in Nat
    BY NodeAssumption DEF RewindSuffices
  <2>5. ResumePoint(curFile) = 0
    BY <2>2, <2>4 DEF ResumePoint, RecrawlStart, NoCursor
  <2> QED BY <2>2, <2>3, <2>5 DEF CoverInv, Covered
<1>2. NothingVanishes /\ LossInv /\ TypeInv /\ FileExists /\ CoverInv /\ [Next]_vars
        => CoverInv'
  BY NextCoverInv
<1>3. CoverInv => Covered
  BY DEF CoverInv
<1> QED
  BY <1>1, <1>2, <1>3, TypeInvariance, LossInvariance, NothingVanishesHolds,
     FileExistsInvariance, PTL DEF Spec
=============================================================================
