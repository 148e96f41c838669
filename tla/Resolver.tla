------------------------------- MODULE Resolver -------------------------------
(***************************************************************************)
(* Looking up one target per worker: the reverse lookup with its retries   *)
(* over the rotating server pool, and the forward confirmation of the      *)
(* names it found (internal/resolver/resolver.go, Crawler.process).        *)
(*                                                                         *)
(* The workers share the rotation counter and the context.  What a server  *)
(* answers, when, and whether the answer arrives is up to the network.     *)
(***************************************************************************)
EXTENDS Integers, FiniteSets

CONSTANTS
    Workers,    \* the worker goroutines
    Servers,    \* number of servers in the pool
    Retries,    \* --retries
    MaxNames,   \* bound on the names of a PTR answer
    FCrDNS,     \* --fcrdns
    Soft        \* the rcodes servers answer with besides NOERROR and NXDOMAIN

ASSUME ResolverAssumption ==
    /\ IsFiniteSet(Workers)
    /\ Servers \in Nat \ {0} /\ Retries \in Nat /\ MaxNames \in Nat
    /\ FCrDNS \in BOOLEAN
    /\ Soft \subseteq {"servfail", "refused", "notimp", "formerr"}

VARIABLES
    cancelled,  \* the context is done
    counter,    \* Resolver.counter, of which only the residue matters
    pc,         \* worker: "ask", "wait", "done"
    left,       \* names still to confirm; -1 while the reverse lookup runs
    attempt,    \* a, the attempt of the current query
    server,     \* the server asked last
    first,      \* history: the server of the query's first attempt
    lastResp,   \* rcode of the last soft failure of the query
    lastHit,    \* that response has an A record with the address
    lastErr,    \* last transport error of the query
    rec,        \* the worker's record: status and forward confirmation
    stats,      \* Crawler.stats.byCode: status -> lookups finished
    heard,      \* history: rcodes received for the reverse lookup
    confirmed   \* history: the kinds of forward answers that contained the address

queryVars == <<attempt, lastResp, lastHit, lastErr>>
poolVars  == <<counter, server, first>>
resolverVars == <<cancelled, poolVars, pc, left, queryVars, rec, stats, heard, confirmed>>

Definitive == {"noerror", "nxdomain"}
Rcodes     == Definitive \cup Soft
Errors     == {"timeout", "neterr"}
NoneYet    == "none"

Statuses == {"has_ptr", "noerror_empty", "nxdomain", "servfail", "refused",
             "timeout", "net_error"}

\* The switch of LookupPTR on a response.
Classify(rcode, names) ==
    CASE rcode = "noerror"  -> IF names = 0 THEN "noerror_empty" ELSE "has_ptr"
      [] rcode = "nxdomain" -> "nxdomain"
      [] rcode = "servfail" -> "servfail"
      [] rcode \in {"refused", "notimp"} -> "refused"
      [] OTHER -> "net_error"

classifyErr(err) == IF err = "timeout" THEN "timeout" ELSE "net_error"

Init ==
    /\ cancelled = FALSE /\ counter = 0
    /\ pc = [w \in Workers |-> "ask"] /\ left = [w \in Workers |-> -1]
    /\ attempt = [w \in Workers |-> 0] /\ server = [w \in Workers |-> 0]
    /\ first = [w \in Workers |-> 0]
    /\ lastResp = [w \in Workers |-> NoneYet] /\ lastHit = [w \in Workers |-> FALSE]
    /\ lastErr = [w \in Workers |-> NoneYet]
    /\ rec = [w \in Workers |-> [status |-> NoneYet, match |-> NoneYet]]
    /\ stats = [st \in Statuses |-> 0]
    /\ heard = [w \in Workers |-> {}] /\ confirmed = [w \in Workers |-> {}]

-----------------------------------------------------------------------------
(* The outcome of a query.                                                 *)

\* The worker starts its next query, or is done when no name is left and
\* tallies the status.
Proceed(w, status, names) ==
    /\ stats' = IF names = 0 THEN [stats EXCEPT ![status] = @ + 1] ELSE stats
    /\ left' = [left EXCEPT ![w] = names]
    /\ pc' = [pc EXCEPT ![w] = IF names = 0 THEN "done" ELSE "ask"]
    /\ attempt' = [attempt EXCEPT ![w] = 0]
    /\ lastResp' = [lastResp EXCEPT ![w] = NoneYet]
    /\ lastHit' = [lastHit EXCEPT ![w] = FALSE]
    /\ lastErr' = [lastErr EXCEPT ![w] = NoneYet]

\* The reverse lookup has a status; only a hit is forward-confirmed.
ReverseDone(w, status, names) ==
    LET forward == FCrDNS /\ status = "has_ptr" IN
    /\ rec' = [rec EXCEPT ![w] = [status |-> status,
                                  match  |-> IF forward THEN "no" ELSE NoneYet]]
    /\ Proceed(w, status, IF forward THEN names ELSE 0)

\* The forward lookup of a name has answered or failed: the first name that
\* resolves to the address ends the loop.
ForwardDone(w, hit) ==
    /\ rec' = [rec EXCEPT ![w].match = IF hit THEN "yes" ELSE @]
    /\ Proceed(w, rec[w].status, IF hit THEN 0 ELSE left[w] - 1)

\* Faulty variant: one attempt too many.
ExhaustedLate(w) == attempt[w] > Retries

Exhausted(w) == attempt[w] = Retries

\* An attempt without a definitive answer: the next one, or the outcome of the
\* query, in which a response beats every transport error.  LookupA reads the
\* addresses of that response whatever its rcode.
NextAttempt(w, resp, hit, err) ==
    \/ /\ ~Exhausted(w)
       /\ attempt' = [attempt EXCEPT ![w] = @ + 1]
       /\ lastResp' = [lastResp EXCEPT ![w] = resp]
       /\ lastHit' = [lastHit EXCEPT ![w] = hit]
       /\ lastErr' = [lastErr EXCEPT ![w] = err]
       /\ pc' = [pc EXCEPT ![w] = "ask"]
       /\ UNCHANGED <<left, rec, stats>>
    \/ /\ Exhausted(w) /\ left[w] = -1
       /\ ReverseDone(w, IF resp # NoneYet THEN Classify(resp, 0) ELSE classifyErr(err), 0)
    \/ /\ Exhausted(w) /\ left[w] # -1
       /\ ForwardDone(w, hit)

-----------------------------------------------------------------------------
(* One attempt.                                                            *)

\* pick: the shared counter, moved on by every attempt, plus the attempt's offset.
Pick(w) ==
    LET i      == counter + 1
        picked == (i + attempt[w]) % Servers
    IN  /\ counter' = i % Servers
        /\ server' = [server EXCEPT ![w] = picked]
        /\ first' = IF attempt[w] = 0 THEN [first EXCEPT ![w] = picked] ELSE first

\* The question is sent.
Ask(w) ==
    /\ pc[w] = "ask" /\ ~cancelled
    /\ Pick(w)
    /\ pc' = [pc EXCEPT ![w] = "wait"]
    /\ UNCHANGED <<cancelled, left, queryVars, rec, stats, heard, confirmed>>

\* Faulty variant: the failed attempt is not counted.
AskCancelledAgain(w) ==
    /\ pc[w] = "ask" /\ cancelled
    /\ UNCHANGED resolverVars

\* Under a cancelled context dialling fails at once.
AskCancelled(w) ==
    /\ pc[w] = "ask" /\ cancelled
    /\ Pick(w)
    /\ NextAttempt(w, lastResp[w], lastHit[w], "neterr")
    /\ UNCHANGED <<cancelled, heard, confirmed>>

\* Remember what came back for the reverse lookup,
Hear(w, rcode) ==
    heard' = IF left[w] = -1 THEN [heard EXCEPT ![w] = @ \cup {rcode}] ELSE heard

\* and which kind of answer had the address among its A records.
Confirm(w, kind, hit) ==
    confirmed' = IF hit THEN [confirmed EXCEPT ![w] = @ \cup {kind}] ELSE confirmed

\* A NOERROR or NXDOMAIN answer to the reverse question ends the query.
ReverseAnswer(w) ==
    /\ pc[w] = "wait" /\ left[w] = -1
    /\ \E rcode \in Definitive, names \in 0..MaxNames :
         /\ rcode = "nxdomain" => names = 0
         /\ Hear(w, rcode)
         /\ ReverseDone(w, Classify(rcode, names), names)
    /\ UNCHANGED <<cancelled, poolVars, confirmed>>

\* Faulty variant: any forward answer confirms.
ForwardAnswerAny(w) ==
    /\ pc[w] = "wait" /\ left[w] # -1
    /\ \E hit \in BOOLEAN :
         /\ Confirm(w, "definitive", hit)
         /\ ForwardDone(w, TRUE)
    /\ UNCHANGED <<cancelled, poolVars, heard>>

\* A NOERROR or NXDOMAIN answer to a forward question, with the address in it
\* or without.
ForwardAnswer(w) ==
    /\ pc[w] = "wait" /\ left[w] # -1
    /\ \E hit \in BOOLEAN :
         /\ Confirm(w, "definitive", hit)
         /\ ForwardDone(w, hit)
    /\ UNCHANGED <<cancelled, poolVars, heard>>

\* A soft failure is remembered, with the addresses it may carry, and asked
\* again.
SoftFailure(w) ==
    /\ pc[w] = "wait"
    /\ \E rcode \in Soft, hit \in BOOLEAN :
         /\ left[w] = -1 => ~hit
         /\ Hear(w, rcode) /\ Confirm(w, "soft", hit)
         /\ NextAttempt(w, rcode, hit, "rcode")
    /\ UNCHANGED <<cancelled, poolVars>>

\* Faulty variant: a transport error erases the response of an earlier attempt.
TransportErrorForgets(w) ==
    /\ pc[w] = "wait"
    /\ \E err \in Errors : NextAttempt(w, NoneYet, FALSE, err)
    /\ UNCHANGED <<cancelled, poolVars, heard, confirmed>>

\* No answer within the deadline, or the exchange fails.
TransportError(w) ==
    /\ pc[w] = "wait"
    /\ \E err \in Errors : NextAttempt(w, lastResp[w], lastHit[w], err)
    /\ UNCHANGED <<cancelled, poolVars, heard, confirmed>>

\* SIGTERM or SIGINT.
Cancel ==
    /\ ~cancelled /\ cancelled' = TRUE
    /\ UNCHANGED <<poolVars, pc, left, queryVars, rec, stats, heard, confirmed>>

Step(w) ==
    \/ Ask(w) \/ AskCancelled(w) \/ ReverseAnswer(w) \/ ForwardAnswer(w)
    \/ SoftFailure(w) \/ TransportError(w)

\* Every worker has its record.
Done == (\A w \in Workers : pc[w] = "done") /\ UNCHANGED resolverVars

Next == (\E w \in Workers : Step(w)) \/ Cancel \/ Done

Spec == Init /\ [][Next]_resolverVars

\* Every exchange has a deadline, so an attempt under way comes to an end.
FairSpec == Spec /\ \A w \in Workers : WF_resolverVars(Step(w))

-----------------------------------------------------------------------------
(* Properties.                                                             *)

\* Every variable has its type; a query makes at most Retries + 1 attempts.
TypeOK ==
    /\ cancelled \in BOOLEAN
    /\ counter \in 0..(Servers - 1)
    /\ pc \in [Workers -> {"ask", "wait", "done"}]
    /\ left \in [Workers -> -1..MaxNames]
    /\ attempt \in [Workers -> 0..Retries] /\ server \in [Workers -> 0..(Servers - 1)]
    /\ first \in [Workers -> 0..(Servers - 1)]
    /\ lastResp \in [Workers -> Soft \cup {NoneYet}] /\ lastHit \in [Workers -> BOOLEAN]
    /\ lastErr \in [Workers -> Errors \cup {"rcode", NoneYet}]
    /\ rec \in [Workers -> [status : Statuses \cup {NoneYet}, match : {"yes", "no", NoneYet}]]
    /\ stats \in [Statuses -> 0..Cardinality(Workers)]
    /\ heard \in [Workers -> SUBSET Rcodes] /\ confirmed \in [Workers -> SUBSET {"soft", "definitive"}]

\* What the record says was heard: a PTR or an authoritative negative, which
\* let merge replace or erase a known name, is a status only when a server
\* said so, whatever was lost, retried or cancelled; and a lookup is a timeout
\* only when no server answered in any attempt (query, LookupPTR).
StatusWasHeard ==
    \A w \in Workers : rec[w].status # NoneYet =>
        /\ rec[w].status \in {"has_ptr", "noerror_empty"} => "noerror" \in heard[w]
        /\ rec[w].status = "nxdomain" => "nxdomain" \in heard[w]
        /\ rec[w].status = "timeout" => heard[w] = {}
        /\ heard[w] \cap Definitive # {} =>
              rec[w].status \in {"has_ptr", "noerror_empty", "nxdomain"}

\* A finished record is forward-confirmed only when some answer, a soft failure
\* or not, had the address among those of one of its names; it is whenever a
\* NOERROR or NXDOMAIN answer had it, however many other forward lookups failed
\* before or after; and only a record with a PTR says anything about it
\* (query, LookupA, process).
MatchWasHeard ==
    \A w \in Workers : pc[w] = "done" =>
        /\ rec[w].match = "yes" => confirmed[w] # {}
        /\ "definitive" \in confirmed[w] => rec[w].match = "yes"
        /\ rec[w].match # NoneYet <=> FCrDNS /\ rec[w].status = "has_ptr"

\* Every lookup ends, cancelled or not, and whatever the servers do.
LookupEnds == \A w \in Workers : <>(pc[w] = "done")

\* What the comment on pick says of the offset: retries land on a different
\* server than the first attempt.
RetriesElsewhere ==
    \A w \in Workers : pc[w] = "wait" /\ attempt[w] > 0 => server[w] # first[w]
=============================================================================
