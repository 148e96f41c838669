------------------------------ MODULE JsonlCrawl ------------------------------
(***************************************************************************)
(* The lookups of the workers with the JSONL output behind them, as the    *)
(* test and sweep commands run them: the end of Crawler.Run's worker loop, *)
(* the results channel, the consumer, Close and the printed summary        *)
(* (crawler.go, pipeline in main.go, output.go).  Every worker looks up    *)
(* one address.                                                            *)
(***************************************************************************)
EXTENDS Resolver, JsonlSink

VARIABLES
    delivered,  \* worker -> "no", "sent", "dropped"
    queue,      \* the results channel
    mainPc,     \* "run", "closed" (the summary is printed)
    consumed    \* history: the records the sink was given

vars == <<resolverVars, sinkVars, delivered, queue, mainPc, consumed>>

CrawlInit ==
    /\ Init /\ SinkInit
    /\ delivered = [w \in Workers |-> "no"] /\ queue = <<>> /\ mainPc = "run"
    /\ consumed = <<>>

\* A step of a lookup or of the context.
LookupStep ==
    /\ (\E w \in Workers : Step(w)) \/ Cancel
    /\ UNCHANGED <<sinkVars, delivered, queue, mainPc, consumed>>

\* case out <- rec
Deliver(w) ==
    /\ pc[w] = "done" /\ delivered[w] = "no"
    /\ delivered' = [delivered EXCEPT ![w] = "sent"]
    /\ queue' = Append(queue, rec[w])
    /\ UNCHANGED <<resolverVars, sinkVars, mainPc, consumed>>

\* case <-ctx.Done()
DropResult(w) ==
    /\ pc[w] = "done" /\ delivered[w] = "no" /\ cancelled
    /\ delivered' = [delivered EXCEPT ![w] = "dropped"]
    /\ UNCHANGED <<resolverVars, sinkVars, queue, mainPc, consumed>>

\* Consume.
ConsumeRecord ==
    /\ mainPc = "run" /\ queue # <<>>
    /\ WriteRecord(Head(queue))
    /\ queue' = Tail(queue) /\ consumed' = Append(consumed, Head(queue))
    /\ UNCHANGED <<resolverVars, delivered, mainPc>>

\* The workers are gone and the channel is drained: Close, whose error is only
\* a warning, and PrintSummary.
CloseOutput ==
    /\ mainPc = "run" /\ queue = <<>> /\ \A w \in Workers : delivered[w] # "no"
    /\ SinkClose
    /\ mainPc' = "closed"
    /\ UNCHANGED <<resolverVars, delivered, queue, consumed>>

Closed == mainPc = "closed" /\ UNCHANGED vars

CrawlNext ==
    \/ LookupStep \/ (\E w \in Workers : Deliver(w) \/ DropResult(w))
    \/ ConsumeRecord \/ CloseOutput \/ Closed

\* Every exchange has a deadline, so an attempt under way comes to an end.
CrawlSpec ==
    /\ CrawlInit /\ [][CrawlNext]_vars
    /\ \A w \in Workers : WF_vars(Step(w) /\ UNCHANGED <<sinkVars, delivered, queue, mainPc, consumed>>)

-----------------------------------------------------------------------------
(* Properties.                                                             *)

Count(seq, Good(_)) == Cardinality({i \in DOMAIN seq : Good(seq[i])})

\* The printed summary counts what the workers looked up: every finished lookup
\* of the progress statistics is in the summary's histogram unless its worker
\* dropped it; the forward confirmations are those of the records; and when no
\* write failed the file has exactly these records (tally, write, PrintSummary).
SummaryExact ==
    mainPc = "closed" =>
        /\ \A st \in Statuses : stats[st] =
              byCode[st] + Cardinality({w \in Workers : delivered[w] = "dropped"
                                                          /\ rec[w].status = st})
        /\ total = Len(consumed)
        /\ fcChecked = Count(consumed, LAMBDA r : FCrDNS /\ r.status = "has_ptr")
        /\ fcMatch = Count(consumed, LAMBDA r : r.match = "yes")
        /\ ~sinkErr => lines = consumed

\* A failed write costs the end of the file only: the lines are always the
\* first of the records, in the order they came (write, bufio.Writer).
LinesArePrefix ==
    Len(lines) <= Len(consumed) /\ lines = SubSeq(consumed, 1, Len(lines))
=============================================================================
