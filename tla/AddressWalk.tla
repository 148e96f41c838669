------------------------------ MODULE AddressWalk ------------------------------
(***************************************************************************)
(* The generators over the IPv4 space (internal/ipgen/ipgen.go) and the    *)
(* commands that run them (runCrawl, runSweep, runTest): the walk of every *)
(* node of a fleet with its sample, its limit and its address cursor over  *)
(* stops and restarts, the sweep of a block, and the random test set.      *)
(*                                                                         *)
(* The address space is 0..MaxAddr with the reserved ranges as constants,  *)
(* and so is the hash of an address.  Whoever takes the addresses from the *)
(* channel is modelled in CrawlNode.                                       *)
(***************************************************************************)
EXTENDS Integers, FiniteSets

CONSTANTS
    MaxAddr,     \* the last address (0xffffffff)
    Ranges,      \* ReservedIPv4Ranges
    HashSize,    \* values of one half of the hash (2^32)
    Low, High,   \* the halves of mix64 of an address
    Shards,      \* --shards
    Checkpoint,  \* addresses between cursor notifications (1 << 17)
    Commands,    \* which of "crawl", "sweep" and "test" are run
    Percents,    \* values of --sample-percent
    Starts,      \* values of --start, Invalid standing for any other text
    Bounds,      \* values of --limit (crawl) and --count (sweep, test)
    MaxStarts    \* bound on how often the nodes are started

Invalid == -1
NoCursor == -1

Space == 0..MaxAddr
Nodes == 0..(Shards - 1)

\* The addresses outside of all reserved ranges.
Routable == Space \ UNION {r.start .. r.end : r \in Ranges}

\* IPToInt of the flag.
IPToInt(text) == IF text = Invalid THEN 0 ELSE text

ASSUME WalkAssumption ==
    /\ MaxAddr \in Nat /\ HashSize \in Nat \ {0} /\ Shards \in Nat \ {0}
    /\ Checkpoint \in Nat \ {0} /\ MaxStarts \in Nat
    /\ Ranges \subseteq [start : Space, end : Space]
    /\ 0 \notin Routable /\ MaxAddr \notin Routable
    /\ Low \in [Space -> 0..(HashSize - 1)] /\ High \in [Space -> 0..(HashSize - 1)]
    /\ Commands \subseteq {"crawl", "sweep", "test"}
    /\ Percents \subseteq Int /\ Starts \subseteq Space \cup {Invalid}
    /\ Bounds \subseteq Nat

VARIABLES
    cmd,        \* the command
    percent, start, bound,   \* its --sample-percent, --start, --limit or --count
    pc,         \* node: "off", "walk", "end" (of the space), "limit", "stopped"
    starts,     \* how often nodes were started
    cancelled,  \* its context is done
    first,      \* StartIP of its run
    v,          \* the walk's position
    seen,       \* GenerateRandom's seen
    emitted,    \* addresses sent by this run
    handed,     \* history: the set of them
    ever,       \* history: the addresses sent by any run
    curCh,      \* the value in the cursor channel, if any
    curFile     \* the cursor file

flagVars   == <<cmd, percent, start, bound>>
cursorVars == <<curCh, curFile>>
vars == <<flagVars, pc, starts, cancelled, first, v, seen, emitted, handed, ever, cursorVars>>

Init ==
    /\ cmd \in Commands /\ percent \in Percents /\ start \in Starts /\ bound \in Bounds
    /\ cmd # "crawl" => percent = 100
    /\ pc = [n \in Nodes |-> "off"] /\ starts = 0
    /\ cancelled = [n \in Nodes |-> FALSE]
    /\ first = [n \in Nodes |-> IPToInt(start)] /\ v = [n \in Nodes |-> 0]
    /\ seen = [n \in Nodes |-> {}] /\ emitted = [n \in Nodes |-> 0]
    /\ handed = [n \in Nodes |-> {}] /\ ever = [n \in Nodes |-> {}]
    /\ curCh = [n \in Nodes |-> NoCursor] /\ curFile = [n \in Nodes |-> NoCursor]

-----------------------------------------------------------------------------
(* Which addresses are whose.                                              *)

Covers(r, a) == r.start <= a /\ a <= r.end

\* Faulty variant: the end of a range counts as routable.
IsReservedOpen(a) == \E r \in Ranges : Covers(r, a) /\ a # r.end

IsReserved(a) == \E r \in Ranges : Covers(r, a)

\* Faulty variant: a tiny percentage rounds to zero, which means no sampling.
ThresholdUnguarded(p) == IF p <= 0 \/ p >= 100 THEN 0 ELSE (p * HashSize) \div 100

\* SampleThresholdForPercent: 0 stands for the full space.
SampleThresholdForPercent(p) ==
    LET t == (p * HashSize) \div 100
    IN  IF p <= 0 \/ p >= 100 THEN 0
        ELSE IF t = 0 THEN 1
        ELSE IF t > HashSize - 1 THEN HashSize - 1 ELSE t

\* inShardSample.
InShardSample(a, n) ==
    LET threshold == SampleThresholdForPercent(percent)
    IN  IF threshold # 0 THEN Low[a] < threshold /\ High[a] % Shards = n
        ELSE a % Shards = n

\* A sweep takes every address.
Wanted(a, n) == cmd = "sweep" \/ InShardSample(a, n)

-----------------------------------------------------------------------------
(* Starting and stopping.                                                  *)

\* Faulty variant: the run begins at the address the cursor names plus two.
FirstAddressAhead(n) ==
    IF curFile[n] \in {NoCursor, 0} THEN IPToInt(start) ELSE (curFile[n] + 2) % (MaxAddr + 1)

\* runCrawl --resume: behind the cursor, in 32 bits; readCursor takes the
\* address zero for no cursor.
FirstAddress(n) ==
    IF curFile[n] \in {NoCursor, 0} THEN IPToInt(start) ELSE (curFile[n] + 1) % (MaxAddr + 1)

\* sweep refuses what IPToInt cannot parse.
Refused == cmd = "sweep" /\ start = Invalid

\* Only a crawl has more than one node and is started again.
Startable(n) ==
    /\ pc[n] # "walk" /\ starts < MaxStarts /\ ~Refused
    /\ cmd # "crawl" => n = 0 /\ starts = 0

Start(n) ==
    /\ Startable(n)
    /\ pc' = [pc EXCEPT ![n] = "walk"] /\ starts' = starts + 1
    /\ cancelled' = [cancelled EXCEPT ![n] = FALSE]
    /\ first' = [first EXCEPT ![n] = FirstAddress(n)]
    /\ v' = [v EXCEPT ![n] = FirstAddress(n)]
    /\ seen' = [seen EXCEPT ![n] = {}] /\ emitted' = [emitted EXCEPT ![n] = 0]
    /\ handed' = [handed EXCEPT ![n] = {}] /\ curCh' = [curCh EXCEPT ![n] = NoCursor]
    /\ UNCHANGED <<flagVars, ever, curFile>>

Close(n, how) ==
    /\ pc' = [pc EXCEPT ![n] = how]
    /\ UNCHANGED <<flagVars, starts, cancelled, first, v, seen, emitted, handed, ever, cursorVars>>

\* SIGTERM or SIGINT.
Signal(n) ==
    /\ pc[n] = "walk" /\ ~cancelled[n]
    /\ cancelled' = [cancelled EXCEPT ![n] = TRUE]
    /\ UNCHANGED <<flagVars, pc, starts, first, v, seen, emitted, handed, ever, cursorVars>>

\* The process is killed; a value in the cursor channel is lost.
Crash(n) ==
    /\ pc[n] = "walk"
    /\ pc' = [pc EXCEPT ![n] = "off"] /\ curCh' = [curCh EXCEPT ![n] = NoCursor]
    /\ UNCHANGED <<flagVars, starts, cancelled, first, v, seen, emitted, handed, ever, curFile>>

-----------------------------------------------------------------------------
(* The loop of GenerateShardedFull and GenerateSequential.                 *)

\* --limit 0 is no limit, --count 0 is none.
MoreWanted(n) == (cmd = "crawl" /\ bound = 0) \/ emitted[n] < bound

Walking(n) == pc[n] = "walk" /\ cmd # "test"

\* An iteration that can be made.
Iterating(n) == Walking(n) /\ v[n] <= MaxAddr /\ MoreWanted(n)

\* Faulty variant: the jump stays inside the range.
JumpToEnd(r) == r.end

\* Behind the range, in 64 bits: the last range ends with the space.
JumpTarget(r) == r.end + 1

Jump(n) ==
    /\ Iterating(n)
    /\ \E r \in Ranges :
         /\ Covers(r, v[n])
         /\ v' = [v EXCEPT ![n] = JumpTarget(r)]
    /\ UNCHANGED <<flagVars, pc, starts, cancelled, first, seen, emitted, handed, ever, cursorVars>>

Skip(n) ==
    /\ Iterating(n) /\ ~IsReserved(v[n]) /\ ~Wanted(v[n], n)
    /\ v' = [v EXCEPT ![n] = @ + 1]
    /\ UNCHANGED <<flagVars, pc, starts, cancelled, first, seen, emitted, handed, ever, cursorVars>>

\* The channel takes the address.
Send(n, a) ==
    /\ emitted' = [emitted EXCEPT ![n] = @ + 1]
    /\ handed' = [handed EXCEPT ![n] = @ \cup {a}]
    /\ ever' = [ever EXCEPT ![n] = @ \cup {a}]

AtTarget(n) == Iterating(n) /\ ~IsReserved(v[n]) /\ Wanted(v[n], n)

\* A crawl offers its cursor goroutine the address at every checkpoint, and
\* does not wait when the previous one is still in the channel.
Emit(n) ==
    /\ AtTarget(n)
    /\ Send(n, v[n])
    /\ v' = [v EXCEPT ![n] = @ + 1]
    /\ curCh' = IF cmd = "crawl" /\ (emitted[n] + 1) % Checkpoint = 0 /\ curCh[n] = NoCursor
                THEN [curCh EXCEPT ![n] = v[n]] ELSE curCh
    /\ UNCHANGED <<flagVars, pc, starts, cancelled, first, seen, curFile>>

\* The context is only looked at where an address is handed out.
WalkStopped(n) == AtTarget(n) /\ cancelled[n] /\ Close(n, "stopped")

WalkEnded(n) == Walking(n) /\ v[n] > MaxAddr /\ Close(n, "end")

LimitReached(n) == Walking(n) /\ v[n] <= MaxAddr /\ ~MoreWanted(n) /\ Close(n, "limit")

\* The cursor goroutine: the value is received and written.
SaveCursor(n) ==
    /\ pc[n] \in {"walk", "end", "limit", "stopped"} /\ curCh[n] # NoCursor
    /\ curFile' = [curFile EXCEPT ![n] = curCh[n]]
    /\ curCh' = [curCh EXCEPT ![n] = NoCursor]
    /\ UNCHANGED <<flagVars, pc, starts, cancelled, first, v, seen, emitted, handed, ever>>

-----------------------------------------------------------------------------
(* GenerateRandom.                                                         *)

Drawing(n) == pc[n] = "walk" /\ cmd = "test" /\ Cardinality(seen[n]) < bound

\* Faulty variant: duplicates are not skipped.
DrawAny(n, a) ==
    /\ Drawing(n) /\ ~IsReserved(a)
    /\ seen' = [seen EXCEPT ![n] = @ \cup {a}]
    /\ Send(n, a)
    /\ UNCHANGED <<flagVars, pc, starts, cancelled, first, v, cursorVars>>

\* A draw that is neither reserved nor seen is marked, then sent.
Draw(n, a) ==
    /\ Drawing(n) /\ ~IsReserved(a) /\ a \notin seen[n]
    /\ seen' = [seen EXCEPT ![n] = @ \cup {a}]
    /\ Send(n, a)
    /\ UNCHANGED <<flagVars, pc, starts, cancelled, first, v, cursorVars>>

\* ... or dropped, when the context is done.
DrawStopped(n, a) ==
    /\ Drawing(n) /\ ~IsReserved(a) /\ a \notin seen[n] /\ cancelled[n]
    /\ Close(n, "stopped")

DrawsDone(n) == pc[n] = "walk" /\ cmd = "test" /\ ~Drawing(n) /\ Close(n, "limit")

-----------------------------------------------------------------------------
Generator(n) ==
    \/ Jump(n) \/ Skip(n) \/ Emit(n) \/ WalkStopped(n) \/ WalkEnded(n) \/ LimitReached(n)
    \/ (\E a \in Space : Draw(n, a) \/ DrawStopped(n, a)) \/ DrawsDone(n)

\* Nothing is left to start or to write.
Idle ==
    /\ \A n \in Nodes : pc[n] # "walk" /\ ~Startable(n) /\ curCh[n] = NoCursor
    /\ UNCHANGED vars

Next ==
    \/ \E n \in Nodes : Start(n) \/ Generator(n) \/ SaveCursor(n) \/ Signal(n) \/ Crash(n)
    \/ Idle

Spec == Init /\ [][Next]_vars

\* The goroutine runs while the channel behind it is drained; the random source
\* does not repeat itself for ever, which gives a test set an end only when it
\* asks for no more than the routable addresses.
FairSpec == Spec /\ \A n \in Nodes : WF_vars(Generator(n))

-----------------------------------------------------------------------------
(* Properties.                                                             *)

\* Every variable has its type: the position stays within one step behind the
\* space, and no reserved address is ever handed out or named by a cursor.
TypeOK ==
    /\ cmd \in Commands /\ percent \in Percents /\ start \in Starts /\ bound \in Bounds
    /\ pc \in [Nodes -> {"off", "walk", "end", "limit", "stopped"}]
    /\ starts \in 0..MaxStarts /\ cancelled \in [Nodes -> BOOLEAN]
    /\ first \in [Nodes -> Space] /\ v \in [Nodes -> 0..(MaxAddr + 1)]
    /\ emitted \in [Nodes -> Nat]
    /\ seen \in [Nodes -> SUBSET Routable] /\ handed \in [Nodes -> SUBSET Routable]
    /\ ever \in [Nodes -> SUBSET Routable]
    /\ curCh \in [Nodes -> Routable \cup {NoCursor}]
    /\ curFile \in [Nodes -> Routable \cup {NoCursor}]

\* The sample as the flag describes it: of the addresses the lowest percent by
\* hash, at least the lowest value, and everything outside of 1 to 99 percent.
Sample ==
    IF percent <= 0 \/ percent >= 100 THEN Routable
    ELSE {a \in Routable : Low[a] = 0 \/ (Low[a] + 1) * 100 <= percent * HashSize}

\* Different nodes of a fleet never ask for the same address, and once every node
\* has walked to the end of the space, over however many stops, crashes and
\* resumed starts, together they have asked for exactly the sample from the start
\* address on.  (A node that is killed and resumes from an older cursor does ask
\* again for what it has asked for since.)  (inShardSample, GenerateShardedFull,
\* readCursor)
FleetCoversSample ==
    cmd = "crawl" =>
        /\ \A m, n \in Nodes : m # n => ever[m] \cap ever[n] = {}
        /\ (\A n \in Nodes : pc[n] = "end") =>
              UNION {ever[n] : n \in Nodes} = {a \in Sample : a >= IPToInt(start)}

\* A run never hands out an address twice or more than its bound, and one that
\* stops at the bound has handed out exactly that many; a sweep that stops
\* before it has reached the end of the space (GenerateRandom,
\* GenerateSequential, Limit).
CountExact ==
    \A n \in Nodes :
        /\ emitted[n] = Cardinality(handed[n])
        /\ ~(cmd = "crawl" /\ bound = 0) => emitted[n] <= bound
        /\ pc[n] = "limit" => emitted[n] = bound
        /\ pc[n] = "end" /\ cmd = "sweep" => handed[n] = {a \in Routable : a >= IPToInt(start)}

\* What a crawling node hands out is a target stream.
StreamOf(n) == INSTANCE TargetStream WITH
    stream <- {a \in Routable : Wanted(a, n)},
    origin <- IPToInt(start),
    open <- pc[n] = "walk",
    from <- first[n],
    handed <- handed[n],
    ever <- ever[n],
    complete <- pc[n] = "end"

\* Every walk hands out its targets in ascending order with none left out, and
\* a resumed walk begins behind nothing that no run has handed out
\* (GenerateShardedFull, GenerateSequential, runCrawl).
WalksInOrder ==
    /\ \A n \in Nodes : StreamOf(n)!StreamInit
    /\ [][cmd # "test" => \A n \in Nodes :
             [StreamOf(n)!StreamNext]_(StreamOf(n)!streamVars)]_vars

\* A generator that was started closes its channel: the jumps over reserved
\* ranges make progress and the walk does not begin again behind the last one.
WalkEnds == \A n \in Nodes : pc[n] = "walk" ~> pc[n] # "walk"
=============================================================================
