------------------------------ MODULE JsonlProofs ------------------------------
(***************************************************************************)
(* The lookups with the JSONL output behind them (JsonlCrawl): what the    *)
(* records say was heard, the lines of the file are the first of the       *)
(* records, and the summary counts them exactly.                           *)
(***************************************************************************)
EXTENDS JsonlCrawl, FiniteSetTheorems, SequenceTheorems, TLAPS

-----------------------------------------------------------------------------
(* The inductive invariant of the lookups (Resolver).                      *)

\* The rotation of the servers.
PoolTypes ==
    /\ counter \in 0..(Servers - 1)
    /\ server \in [Workers -> 0..(Servers - 1)] /\ first \in [Workers -> 0..(Servers - 1)]

\* The types, with unbounded statistics.
LookupTypes ==
    /\ cancelled \in BOOLEAN
    /\ PoolTypes
    /\ pc \in [Workers -> {"ask", "wait", "done"}]
    /\ left \in [Workers -> -1..MaxNames]
    /\ attempt \in [Workers -> 0..Retries]
    /\ lastResp \in [Workers -> Soft \cup {NoneYet}] /\ lastHit \in [Workers -> BOOLEAN]
    /\ lastErr \in [Workers -> Errors \cup {"rcode", NoneYet}]
    /\ rec \in [Workers -> [status : Statuses \cup {NoneYet}, match : {"yes", "no", NoneYet}]]
    /\ stats \in [Statuses -> Nat]
    /\ heard \in [Workers -> SUBSET Rcodes]
    /\ confirmed \in [Workers -> SUBSET {"soft", "definitive"}]

\* The workers whose lookup ended with a status.
DoneWith(st) == {w \in Workers : pc[w] = "done" /\ rec[w].status = st}

\* The progress statistics count the finished lookups.
Tallied == \A st \in Statuses : stats[st] = Cardinality(DoneWith(st))

\* A reverse lookup that still runs has heard soft failures only, and remembers
\* one of them when it has heard any.
Asking(w) ==
    /\ rec[w] = [status |-> NoneYet, match |-> NoneYet]
    /\ confirmed[w] = {} /\ ~lastHit[w]
    /\ heard[w] \subseteq Soft
    /\ lastResp[w] = NoneYet => heard[w] = {}

\* A status says what was heard.
Heard(w) ==
    /\ rec[w].status \in Statuses
    /\ rec[w].status \in {"has_ptr", "noerror_empty"} => "noerror" \in heard[w]
    /\ rec[w].status = "nxdomain" => "nxdomain" \in heard[w]
    /\ rec[w].status = "timeout" => heard[w] = {}
    /\ heard[w] \cap Definitive # {} =>
          rec[w].status \in {"has_ptr", "noerror_empty", "nxdomain"}

\* The forward confirmation: names are left only while none has matched, and the
\* response a query would fall back on has the address only if it was heard.
Matching(w) ==
    /\ left[w] > 0 =>
          /\ rec[w].status = "has_ptr" /\ FCrDNS /\ rec[w].match = "no"
          /\ lastHit[w] => confirmed[w] # {}
    /\ rec[w].match = "yes" => confirmed[w] # {}
    /\ "definitive" \in confirmed[w] => rec[w].match = "yes"
    /\ rec[w].match # NoneYet <=> FCrDNS /\ rec[w].status = "has_ptr"

Honest(w) ==
    /\ pc[w] = "done" <=> left[w] = 0
    /\ left[w] = -1 => Asking(w)
    /\ left[w] # -1 => Heard(w) /\ Matching(w)

LookupInv ==
    /\ LookupTypes /\ Tallied
    /\ \A w \in Workers : Honest(w)

-----------------------------------------------------------------------------
(* Arithmetic of the rotation.                                             *)

LEMMA ModType ==
    ASSUME NEW a \in Int, NEW n \in Nat \ {0}
    PROVE  a % n \in 0..(n - 1)
  OBVIOUS

-----------------------------------------------------------------------------
(* The steps of a worker.                                                  *)

\* What a step of another worker leaves alone.
Untouched(u) ==
    /\ pc'[u] = pc[u] /\ left'[u] = left[u] /\ attempt'[u] = attempt[u]
    /\ lastResp'[u] = lastResp[u] /\ lastHit'[u] = lastHit[u] /\ rec'[u] = rec[u]
    /\ heard'[u] = heard[u] /\ confirmed'[u] = confirmed[u]

LEMMA OthersHonest ==
    ASSUME NEW u \in Workers, Untouched(u), Honest(u)
    PROVE  Honest(u)'
  BY DEF Untouched, Honest, Asking, Heard, Matching

\* A step that ends no lookup.
LEMMA NotDone ==
    ASSUME LookupTypes, Tallied, NEW w \in Workers, NEW next \in {"ask", "wait"},
           pc[w] # "done", pc' = [pc EXCEPT ![w] = next], UNCHANGED <<rec, stats>>
    PROVE  Tallied'
<1>1. \A st \in Statuses : DoneWith(st)' = DoneWith(st)
  BY DEF DoneWith, LookupTypes
<1> QED BY <1>1 DEF Tallied

\* A query that ends: the lookup goes on with its names, or is tallied.
LEMMA ProceedTally ==
    ASSUME LookupTypes, Tallied, NEW w \in Workers, pc[w] # "done",
           NEW status \in Statuses, NEW names \in 0..MaxNames, Proceed(w, status, names),
           NEW r, rec' = [rec EXCEPT ![w] = r], r.status = status
    PROVE  Tallied' /\ stats' \in [Statuses -> Nat]
<1>1. \A st \in Statuses : IsFiniteSet(DoneWith(st)) /\ w \notin DoneWith(st)
  <2>1. \A st \in Statuses : DoneWith(st) \subseteq Workers /\ w \notin DoneWith(st)
    BY DEF DoneWith
  <2> QED BY <2>1, ResolverAssumption, FS_Subset
<1>2. pc' = [pc EXCEPT ![w] = IF names = 0 THEN "done" ELSE "ask"]
      /\ stats' = (IF names = 0 THEN [stats EXCEPT ![status] = @ + 1] ELSE stats)
  BY DEF Proceed
<1>3. CASE names = 0
  <2>1. pc' = [pc EXCEPT ![w] = "done"] /\ stats' = [stats EXCEPT ![status] = @ + 1]
    BY <1>2, <1>3
  <2>2. ASSUME NEW st \in Statuses
        PROVE  stats'[st] = Cardinality(DoneWith(st)') /\ stats'[st] \in Nat
    <3>1. stats[st] = Cardinality(DoneWith(st)) /\ stats[st] \in Nat
      BY DEF Tallied, LookupTypes
    <3>2. CASE st = status
      <4>1. DoneWith(st)' = DoneWith(st) \cup {w}
        BY <2>1, <3>2 DEF DoneWith, LookupTypes
      <4>2. Cardinality(DoneWith(st) \cup {w}) = Cardinality(DoneWith(st)) + 1
        BY <1>1, FS_AddElement
      <4>3. stats'[st] = stats[st] + 1
        BY <2>1, <3>2 DEF LookupTypes
      <4> QED BY <3>1, <4>1, <4>2, <4>3
    <3>3. CASE st # status
      <4>1. DoneWith(st)' = DoneWith(st)
        BY <2>1, <3>3 DEF DoneWith, LookupTypes
      <4>2. stats'[st] = stats[st]
        BY <2>1, <3>3 DEF LookupTypes
      <4> QED BY <3>1, <4>1, <4>2
    <3> QED BY <3>2, <3>3
  <2>3. DOMAIN stats' = Statuses /\ stats' = [st \in Statuses |-> stats'[st]]
    BY <2>1 DEF LookupTypes
  <2> QED BY <2>2, <2>3 DEF Tallied
<1>4. CASE names # 0
  <2>1. pc' = [pc EXCEPT ![w] = "ask"] /\ stats' = stats
    BY <1>2, <1>4
  <2>2. \A st \in Statuses : DoneWith(st)' = DoneWith(st)
    BY <2>1 DEF DoneWith, LookupTypes
  <2> QED BY <2>1, <2>2 DEF Tallied, LookupTypes
<1> QED BY <1>3, <1>4

LEMMA ClassifyType ==
    ASSUME NEW rcode \in Rcodes, NEW names \in Nat
    PROVE  /\ Classify(rcode, names) \in Statuses
           /\ rcode \in Soft => Classify(rcode, names) \in {"servfail", "refused", "net_error"}
           /\ rcode = "nxdomain" => Classify(rcode, names) = "nxdomain"
           /\ rcode = "noerror" => Classify(rcode, names) =
                                     IF names = 0 THEN "noerror_empty" ELSE "has_ptr"
  BY ResolverAssumption DEF Classify, Rcodes, Definitive, Statuses

\* A draw from the rotation keeps its types.
LEMMA PickTypes ==
    ASSUME LookupTypes, NEW w \in Workers, Pick(w)
    PROVE  PoolTypes'
<1>1. /\ Servers \in Nat \ {0} /\ attempt[w] \in Nat
      /\ counter + 1 \in Int /\ (counter + 1) + attempt[w] \in Int
  BY ResolverAssumption DEF LookupTypes, PoolTypes
<1>2. /\ (counter + 1) % Servers \in 0..(Servers - 1)
      /\ ((counter + 1) + attempt[w]) % Servers \in 0..(Servers - 1)
  BY <1>1, ModType
<1> QED BY <1>2 DEF Pick, LookupTypes, PoolTypes

\* The types of what a query changes.
QueryTypes ==
    /\ pc \in [Workers -> {"ask", "wait", "done"}]
    /\ left \in [Workers -> -1..MaxNames]
    /\ attempt \in [Workers -> 0..Retries]
    /\ lastResp \in [Workers -> Soft \cup {NoneYet}] /\ lastHit \in [Workers -> BOOLEAN]
    /\ lastErr \in [Workers -> Errors \cup {"rcode", NoneYet}]
    /\ rec \in [Workers -> [status : Statuses \cup {NoneYet}, match : {"yes", "no", NoneYet}]]
    /\ stats \in [Statuses -> Nat]

\* The query of the worker w is over, or goes on: what holds afterwards.
QueryStep(w) ==
    /\ QueryTypes' /\ Tallied'
    /\ \A u \in Workers \ {w} :
          /\ pc'[u] = pc[u] /\ left'[u] = left[u] /\ attempt'[u] = attempt[u]
          /\ lastResp'[u] = lastResp[u] /\ lastHit'[u] = lastHit[u] /\ rec'[u] = rec[u]
    /\ Honest(w)'

LEMMA ProceedTypes ==
    ASSUME LookupTypes, NEW w \in Workers, NEW status \in Statuses, NEW names \in 0..MaxNames,
           Proceed(w, status, names)
    PROVE  /\ pc' \in [Workers -> {"ask", "wait", "done"}]
           /\ left' \in [Workers -> -1..MaxNames]
           /\ attempt' \in [Workers -> 0..Retries]
           /\ lastResp' \in [Workers -> Soft \cup {NoneYet}] /\ lastHit' \in [Workers -> BOOLEAN]
           /\ lastErr' \in [Workers -> Errors \cup {"rcode", NoneYet}]
           /\ \A u \in Workers \ {w} :
                 /\ pc'[u] = pc[u] /\ left'[u] = left[u] /\ attempt'[u] = attempt[u]
                 /\ lastResp'[u] = lastResp[u] /\ lastHit'[u] = lastHit[u]
           /\ pc'[w] = (IF names = 0 THEN "done" ELSE "ask") /\ left'[w] = names
           /\ lastHit'[w] = FALSE
  BY ResolverAssumption DEF LookupTypes, Proceed

LEMMA ReverseEnds ==
    ASSUME LookupTypes, Tallied, NEW w \in Workers, pc[w] # "done",
           NEW status \in Statuses, NEW names \in 0..MaxNames, status = "has_ptr" => names > 0,
           ReverseDone(w, status, names),
           confirmed'[w] = {},
           status \in {"has_ptr", "noerror_empty"} => "noerror" \in heard'[w],
           status = "nxdomain" => "nxdomain" \in heard'[w],
           status = "timeout" => heard'[w] = {},
           heard'[w] \cap Definitive # {} => status \in {"has_ptr", "noerror_empty", "nxdomain"}
    PROVE  QueryStep(w)
<1> DEFINE forward == FCrDNS /\ status = "has_ptr"
           r == [status |-> status, match |-> IF forward THEN "no" ELSE NoneYet]
           rest == IF forward THEN names ELSE 0
<1>1. rec' = [rec EXCEPT ![w] = r] /\ Proceed(w, status, rest)
  BY DEF ReverseDone
<1>2. rest \in 0..MaxNames
  BY ResolverAssumption
<1>3. r \in [status : Statuses \cup {NoneYet}, match : {"yes", "no", NoneYet}]
      /\ r.status = status /\ r.match = (IF forward THEN "no" ELSE NoneYet)
  OBVIOUS
<1>4. Tallied' /\ stats' \in [Statuses -> Nat]
  <2> HIDE DEF r, rest
  <2> QED BY <1>1, <1>2, <1>3, ProceedTally
<1>5. /\ rec' \in [Workers -> [status : Statuses \cup {NoneYet}, match : {"yes", "no", NoneYet}]]
      /\ rec'[w] = r /\ \A u \in Workers \ {w} : rec'[u] = rec[u]
  <2> HIDE DEF r
  <2> QED BY <1>1, <1>3 DEF LookupTypes
<1>6. Honest(w)'
  <2>1. pc'[w] = (IF rest = 0 THEN "done" ELSE "ask") /\ left'[w] = rest /\ ~lastHit'[w]
    <3> HIDE DEF rest
    <3> QED BY <1>1, <1>2, ProceedTypes
  <2>2. Heard(w)'
    BY <1>3, <1>5 DEF Heard
  <2>3. Matching(w)'
    <3>1. rest > 0 => forward
      OBVIOUS
    <3>2. rec'[w].status = status /\ rec'[w].match = (IF forward THEN "no" ELSE NoneYet)
      BY <1>3, <1>5
    <3>3. left'[w] > 0 => forward
      BY <2>1, <3>1
    <3> HIDE DEF rest, r
    <3> QED BY <2>1, <3>2, <3>3, ResolverAssumption DEF Matching, NoneYet
  <2>4. left'[w] # -1 /\ (pc'[w] = "done" <=> left'[w] = 0)
    BY <1>2, <2>1
  <2> QED BY <2>2, <2>3, <2>4 DEF Honest
<1> HIDE DEF rest, r
<1> QED BY <1>1, <1>2, <1>4, <1>5, <1>6, ProceedTypes DEF QueryStep, QueryTypes

\* A forward query runs only while no name has matched.
LEMMA NamesLeft ==
    ASSUME LookupTypes, NEW w \in Workers, pc[w] # "done", Honest(w), left[w] # -1
    PROVE  left[w] \in 1..MaxNames /\ rec[w].match = "no" /\ "definitive" \notin confirmed[w]
<1>1. left[w] \in -1..MaxNames /\ MaxNames \in Nat
  BY ResolverAssumption DEF LookupTypes
<1>2. left[w] # 0
  BY DEF Honest
<1>3. left[w] \in 1..MaxNames
  BY <1>1, <1>2
<1> QED BY <1>3 DEF Honest, Matching

LEMMA ForwardEnds ==
    ASSUME LookupTypes, Tallied, NEW w \in Workers, pc[w] # "done", Honest(w), left[w] # -1,
           NEW hit \in BOOLEAN, ForwardDone(w, hit),
           hit => confirmed'[w] # {}, "definitive" \in confirmed'[w] => hit,
           heard'[w] = heard[w]
    PROVE  QueryStep(w)
<1>0. MaxNames \in Nat
  BY ResolverAssumption
<1>1. left[w] \in 1..MaxNames
  BY NamesLeft
<1>2. /\ rec[w].status = "has_ptr" /\ FCrDNS /\ rec[w].match = "no"
      /\ Heard(w) /\ rec[w] \in [status : Statuses \cup {NoneYet}, match : {"yes", "no", NoneYet}]
  BY <1>1 DEF Honest, Matching, LookupTypes
<1> DEFINE r == [rec[w] EXCEPT !.match = IF hit THEN "yes" ELSE @]
           rest == IF hit THEN 0 ELSE left[w] - 1
<1>3. rec' = [rec EXCEPT ![w] = r] /\ Proceed(w, "has_ptr", rest)
  <2>1. rec' = [rec EXCEPT ![w].match = IF hit THEN "yes" ELSE @]
    BY DEF ForwardDone
  <2>2. rec' = [rec EXCEPT ![w] = r]
    BY <2>1
  <2>3. Proceed(w, rec[w].status, rest)
    BY DEF ForwardDone
  <2> QED BY <1>2, <2>2, <2>3
<1>4. rest \in 0..MaxNames /\ "has_ptr" \in Statuses
  <2>1. rest \in 0..MaxNames
    BY <1>0, <1>1
  <2> QED BY <2>1 DEF Statuses
<1>5. r \in [status : Statuses \cup {NoneYet}, match : {"yes", "no", NoneYet}]
      /\ r.status = "has_ptr" /\ r.match = (IF hit THEN "yes" ELSE "no")
  BY <1>2
<1> HIDE DEF r, rest
<1>6. Tallied' /\ stats' \in [Statuses -> Nat]
  BY <1>3, <1>4, <1>5, ProceedTally
<1>7. /\ rec' \in [Workers -> [status : Statuses \cup {NoneYet}, match : {"yes", "no", NoneYet}]]
      /\ rec'[w] = r /\ \A u \in Workers \ {w} : rec'[u] = rec[u]
  BY <1>3, <1>5 DEF LookupTypes
<1>8. pc'[w] = (IF rest = 0 THEN "done" ELSE "ask") /\ left'[w] = rest /\ ~lastHit'[w]
  BY <1>3, <1>4, ProceedTypes
<1>9. Honest(w)'
  <2>1. Heard(w)'
    BY <1>2, <1>4, <1>5, <1>7 DEF Heard
  <2>2. rest > 0 => ~hit
    BY DEF rest
  <2>3. Matching(w)'
    BY <1>2, <1>5, <1>7, <1>8, <2>2 DEF Matching, NoneYet
  <2>4. left'[w] # -1 /\ (pc'[w] = "done" <=> left'[w] = 0)
    BY <1>4, <1>8
  <2> QED BY <2>1, <2>3, <2>4 DEF Honest
<1> QED BY <1>3, <1>4, <1>6, <1>7, <1>9, ProceedTypes DEF QueryStep, QueryTypes

\* The response a query would fall back on has the address only if it was heard.
LEMMA RememberedHit ==
    ASSUME LookupTypes, NEW w \in Workers, pc[w] # "done", Honest(w), UNCHANGED confirmed
    PROVE  /\ confirmed'[w] = confirmed[w]
           /\ left[w] = -1 => confirmed[w] = {} /\ ~lastHit[w]
           /\ lastHit[w] => confirmed[w] # {}
<1>1. left[w] # -1 => left[w] > 0
  BY NamesLeft, ResolverAssumption
<1> QED BY <1>1 DEF Honest, Asking, Matching

LEMMA AttemptFails ==
    ASSUME LookupTypes, Tallied, NEW w \in Workers, pc[w] # "done", Honest(w),
           NEW resp \in Soft \cup {NoneYet}, NEW hit \in BOOLEAN,
           NEW err \in Errors \cup {"rcode"}, err = "rcode" => resp # NoneYet,
           NextAttempt(w, resp, hit, err),
           left[w] = -1 => confirmed'[w] = {} /\ ~hit,
           confirmed[w] \subseteq confirmed'[w], hit => confirmed'[w] # {},
           "definitive" \in confirmed'[w] => "definitive" \in confirmed[w],
           left[w] = -1 => heard'[w] \subseteq Soft /\ (resp = NoneYet => heard'[w] = {}),
           left[w] # -1 => heard'[w] = heard[w]
    PROVE  QueryStep(w)
<1>1. CASE ~Exhausted(w) /\ UNCHANGED <<left, rec, stats>>
             /\ attempt' = [attempt EXCEPT ![w] = @ + 1]
             /\ lastResp' = [lastResp EXCEPT ![w] = resp]
             /\ lastHit' = [lastHit EXCEPT ![w] = hit]
             /\ lastErr' = [lastErr EXCEPT ![w] = err]
             /\ pc' = [pc EXCEPT ![w] = "ask"]
  <2>1. attempt[w] \in 0..Retries /\ attempt[w] # Retries /\ Retries \in Nat
    BY <1>1, ResolverAssumption DEF LookupTypes, Exhausted
  <2>2. attempt[w] + 1 \in 0..Retries
    BY <2>1
  <2>3. attempt' \in [Workers -> 0..Retries] /\ attempt'[w] = attempt[w] + 1
    BY <1>1, <2>2 DEF LookupTypes
  <2>4. QueryTypes'
    BY <1>1, <2>3 DEF QueryTypes, LookupTypes
  <2>5. Tallied'
    BY <1>1, NotDone
  <2>6. pc'[w] = "ask" /\ lastResp'[w] = resp /\ lastHit'[w] = hit
    BY <1>1 DEF LookupTypes
  <2>7. Honest(w)'
    BY <1>1, <2>6 DEF Honest, Asking, Heard, Matching
  <2>8. \A u \in Workers \ {w} :
          /\ pc'[u] = pc[u] /\ left'[u] = left[u] /\ attempt'[u] = attempt[u]
          /\ lastResp'[u] = lastResp[u] /\ lastHit'[u] = lastHit[u] /\ rec'[u] = rec[u]
    BY <1>1 DEF LookupTypes
  <2> QED BY <2>3, <2>4, <2>5, <2>6, <2>7, <2>8 DEF QueryStep
<1>2. CASE left[w] = -1 /\
           ReverseDone(w, IF resp # NoneYet THEN Classify(resp, 0) ELSE classifyErr(err), 0)
  <2> DEFINE status == IF resp # NoneYet THEN Classify(resp, 0) ELSE classifyErr(err)
  <2>1. /\ status \in {"servfail", "refused", "net_error", "timeout"}
        /\ status = "timeout" => resp = NoneYet
    <3>1. CASE resp # NoneYet
      <4>1. resp \in Soft /\ resp \in Rcodes
        BY <3>1 DEF Rcodes
      <4> QED BY <3>1, <4>1, ClassifyType
    <3>2. CASE resp = NoneYet
      BY <3>2 DEF classifyErr
    <3> QED BY <3>1, <3>2
  <2>2. ReverseDone(w, status, 0)
    BY <1>2
  <2> HIDE DEF status
  <2>3. status \in Statuses /\ 0 \in 0..MaxNames
    BY <2>1, ResolverAssumption DEF Statuses
  <2>4. heard'[w] \cap Definitive = {} /\ (status = "timeout" => heard'[w] = {})
    BY <1>2, <2>1, ResolverAssumption DEF Definitive
  <2>5. confirmed'[w] = {}
    BY <1>2
  <2> QED BY <2>1, <2>2, <2>3, <2>4, <2>5, ReverseEnds
<1>3. CASE left[w] # -1 /\ ForwardDone(w, hit)
  <2>1. "definitive" \notin confirmed[w]
    BY <1>3, NamesLeft
  <2> QED BY <1>3, <2>1, ForwardEnds
<1> QED BY <1>1, <1>2, <1>3 DEF NextAttempt

\* What a step adds to the history and the rotation.
LEMMA StepInv ==
    ASSUME LookupInv, NEW w \in Workers, QueryStep(w),
           heard' \in [Workers -> SUBSET Rcodes],
           confirmed' \in [Workers -> SUBSET {"soft", "definitive"}],
           \A u \in Workers \ {w} : heard'[u] = heard[u] /\ confirmed'[u] = confirmed[u],
           cancelled' = cancelled,
           UNCHANGED poolVars \/ Pick(w)
    PROVE  LookupInv'
<1>1. LookupTypes
  BY DEF LookupInv
<1>2. PoolTypes'
  BY <1>1, PickTypes DEF LookupTypes, PoolTypes, poolVars
<1>3. LookupTypes'
  BY <1>1, <1>2 DEF LookupTypes, QueryStep, QueryTypes
<1>4. ASSUME NEW u \in Workers, u # w
      PROVE  Honest(u)'
  <2>1. Untouched(u)
    BY <1>4 DEF Untouched, QueryStep
  <2> QED BY <2>1, OthersHonest DEF LookupInv
<1> QED BY <1>3, <1>4 DEF LookupInv, QueryStep

\* The invariant holds through every step of a lookup.
LEMMA StepLookupInv ==
    ASSUME LookupInv, NEW w \in Workers, Step(w)
    PROVE  LookupInv'
<1>0. LookupTypes /\ Tallied /\ Honest(w)
  BY DEF LookupInv
<1>1. heard[w] \subseteq Rcodes /\ lastResp[w] \in Soft \cup {NoneYet}
      /\ heard \in [Workers -> SUBSET Rcodes] /\ lastHit[w] \in BOOLEAN
      /\ confirmed \in [Workers -> SUBSET {"soft", "definitive"}]
  BY <1>0 DEF LookupTypes
<1>2. CASE Ask(w)
  <2>1. /\ pc[w] = "ask" /\ Pick(w) /\ pc' = [pc EXCEPT ![w] = "wait"]
        /\ UNCHANGED <<cancelled, left, attempt, lastResp, lastHit, lastErr, rec, stats, heard,
                       confirmed>>
    BY <1>2 DEF Ask, queryVars
  <2>2. LookupTypes'
    BY <1>0, <2>1, PickTypes DEF LookupTypes
  <2>3. Tallied'
    BY <1>0, <2>1, NotDone
  <2>4. pc'[w] = "wait"
    BY <1>0, <2>1 DEF LookupTypes
  <2>5. Honest(w)'
    BY <1>0, <2>1, <2>4 DEF Honest, Asking, Heard, Matching
  <2>6. ASSUME NEW u \in Workers, u # w
        PROVE  Honest(u)'
    <3>1. Untouched(u)
      BY <1>0, <2>1, <2>6 DEF Untouched, LookupTypes
    <3> QED BY <3>1, OthersHonest DEF LookupInv
  <2> QED BY <2>2, <2>3, <2>5, <2>6 DEF LookupInv
<1>3. CASE AskCancelled(w)
  <2>1. /\ pc[w] = "ask" /\ Pick(w) /\ NextAttempt(w, lastResp[w], lastHit[w], "neterr")
        /\ UNCHANGED <<cancelled, heard, confirmed>>
    BY <1>3 DEF AskCancelled
  <2>2. "neterr" \in Errors \cup {"rcode"}
    BY DEF Errors
  <2>3. /\ left[w] = -1 => heard'[w] \subseteq Soft /\ (lastResp[w] = NoneYet => heard'[w] = {})
        /\ heard'[w] = heard[w]
    BY <1>0, <2>1 DEF Honest, Asking
  <2>4. pc[w] # "done"
    BY <2>1
  <2>5. /\ confirmed'[w] = confirmed[w]
        /\ left[w] = -1 => confirmed[w] = {} /\ ~lastHit[w]
        /\ lastHit[w] => confirmed[w] # {}
    BY <1>0, <2>1, RememberedHit
  <2>6. QueryStep(w)
    BY <1>0, <1>1, <2>1, <2>2, <2>3, <2>4, <2>5, AttemptFails
  <2> QED BY <1>1, <2>1, <2>6, StepInv
<1>4. CASE ReverseAnswer(w)
  <2>1. pc[w] = "wait" /\ left[w] = -1 /\ UNCHANGED <<cancelled, poolVars, confirmed>>
    BY <1>4 DEF ReverseAnswer
  <2>2. PICK rcode \in Definitive, names \in 0..MaxNames :
          /\ rcode = "nxdomain" => names = 0
          /\ Hear(w, rcode)
          /\ ReverseDone(w, Classify(rcode, names), names)
    BY <1>4 DEF ReverseAnswer
  <2>3. heard' = [heard EXCEPT ![w] = @ \cup {rcode}] /\ rcode \in Rcodes
    BY <2>1, <2>2 DEF Hear, Rcodes
  <2>4. /\ heard' \in [Workers -> SUBSET Rcodes] /\ heard'[w] = heard[w] \cup {rcode}
        /\ \A u \in Workers \ {w} : heard'[u] = heard[u]
    BY <1>1, <2>3
  <2>5. names \in Nat
    BY ResolverAssumption
  <2>6. /\ Classify(rcode, names) \in Statuses
        /\ rcode = "nxdomain" => Classify(rcode, names) = "nxdomain"
        /\ rcode = "noerror" => Classify(rcode, names) =
                                     IF names = 0 THEN "noerror_empty" ELSE "has_ptr"
    BY <2>3, <2>5, ClassifyType
  <2>7. rcode \in {"noerror", "nxdomain"}
    BY DEF Definitive
  <2>8. /\ Classify(rcode, names) = "has_ptr" => names > 0
        /\ Classify(rcode, names) \in {"has_ptr", "noerror_empty", "nxdomain"}
        /\ Classify(rcode, names) \in {"has_ptr", "noerror_empty"} => "noerror" \in heard'[w]
        /\ Classify(rcode, names) = "nxdomain" => "nxdomain" \in heard'[w]
    BY <2>4, <2>5, <2>6, <2>7
  <2>9. confirmed'[w] = {}
    BY <1>0, <2>1 DEF Honest, Asking
  <2>10. QueryStep(w)
    BY <1>0, <2>1, <2>2, <2>6, <2>8, <2>9, ReverseEnds
  <2> QED BY <1>1, <2>1, <2>4, <2>10, StepInv
<1>5. CASE ForwardAnswer(w)
  <2>1. pc[w] = "wait" /\ left[w] # -1 /\ UNCHANGED <<cancelled, poolVars, heard>>
    BY <1>5 DEF ForwardAnswer
  <2>2. PICK hit \in BOOLEAN : Confirm(w, "definitive", hit) /\ ForwardDone(w, hit)
    BY <1>5 DEF ForwardAnswer
  <2>3. /\ confirmed' \in [Workers -> SUBSET {"soft", "definitive"}]
        /\ confirmed'[w] = IF hit THEN confirmed[w] \cup {"definitive"} ELSE confirmed[w]
        /\ \A u \in Workers \ {w} : confirmed'[u] = confirmed[u]
    BY <1>1, <2>2 DEF Confirm
  <2>4. "definitive" \notin confirmed[w]
    BY <1>0, <2>1, NamesLeft
  <2>5. pc[w] # "done" /\ heard'[w] = heard[w]
    BY <2>1
  <2>6. QueryStep(w)
    BY <1>0, <2>1, <2>2, <2>3, <2>4, <2>5, ForwardEnds
  <2> QED BY <1>1, <2>1, <2>3, <2>6, StepInv
<1>6. CASE SoftFailure(w)
  <2>1. pc[w] = "wait" /\ UNCHANGED <<cancelled, poolVars>>
    BY <1>6 DEF SoftFailure
  <2>2. PICK rcode \in Soft, hit \in BOOLEAN :
          /\ left[w] = -1 => ~hit
          /\ Hear(w, rcode) /\ Confirm(w, "soft", hit)
          /\ NextAttempt(w, rcode, hit, "rcode")
    BY <1>6 DEF SoftFailure
  <2>3. rcode # NoneYet /\ rcode \in Rcodes
    BY ResolverAssumption DEF NoneYet, Rcodes
  <2>4. /\ heard' \in [Workers -> SUBSET Rcodes]
        /\ left[w] = -1 => heard'[w] = heard[w] \cup {rcode}
        /\ left[w] # -1 => heard'[w] = heard[w]
        /\ \A u \in Workers \ {w} : heard'[u] = heard[u]
    BY <1>1, <2>2, <2>3 DEF Hear
  <2>5. left[w] = -1 => heard'[w] \subseteq Soft
    BY <1>0, <2>4 DEF Honest, Asking
  <2>6. /\ confirmed' \in [Workers -> SUBSET {"soft", "definitive"}]
        /\ confirmed'[w] = IF hit THEN confirmed[w] \cup {"soft"} ELSE confirmed[w]
        /\ \A u \in Workers \ {w} : confirmed'[u] = confirmed[u]
    BY <1>1, <2>2 DEF Confirm
  <2>7. left[w] = -1 => confirmed'[w] = {}
    BY <1>0, <2>2, <2>6 DEF Honest, Asking
  <2>8. pc[w] # "done" /\ "rcode" \in Errors \cup {"rcode"}
    BY <2>1
  <2>9. QueryStep(w)
    BY <1>0, <2>2, <2>3, <2>4, <2>5, <2>6, <2>7, <2>8, AttemptFails
  <2> QED BY <1>1, <2>1, <2>4, <2>6, <2>9, StepInv
<1>7. CASE TransportError(w)
  <2>1. pc[w] = "wait" /\ UNCHANGED <<cancelled, poolVars, heard, confirmed>>
    BY <1>7 DEF TransportError
  <2>2. PICK err \in Errors : NextAttempt(w, lastResp[w], lastHit[w], err)
    BY <1>7 DEF TransportError
  <2>3. err \in Errors \cup {"rcode"} /\ err # "rcode"
    BY DEF Errors
  <2>4. /\ left[w] = -1 => heard'[w] \subseteq Soft /\ (lastResp[w] = NoneYet => heard'[w] = {})
        /\ heard'[w] = heard[w]
    BY <1>0, <2>1 DEF Honest, Asking
  <2>5. pc[w] # "done"
    BY <2>1
  <2>6. /\ confirmed'[w] = confirmed[w]
        /\ left[w] = -1 => confirmed[w] = {} /\ ~lastHit[w]
        /\ lastHit[w] => confirmed[w] # {}
    BY <1>0, <2>1, RememberedHit
  <2>7. QueryStep(w)
    BY <1>0, <1>1, <2>1, <2>2, <2>3, <2>4, <2>5, <2>6, AttemptFails
  <2> QED BY <1>1, <2>1, <2>7, StepInv
<1> QED BY <1>2, <1>3, <1>4, <1>5, <1>6, <1>7 DEF Step

LEMMA InitLookupInv == Init => LookupInv
<1>1. SUFFICES ASSUME Init
               PROVE  LookupInv
  OBVIOUS
<1>2. LookupTypes
  <2>1. -1 \in -1..MaxNames /\ 0 \in 0..Retries /\ 0 \in 0..(Servers - 1)
    BY ResolverAssumption
  <2>2. [status |-> NoneYet, match |-> NoneYet]
          \in [status : Statuses \cup {NoneYet}, match : {"yes", "no", NoneYet}]
    OBVIOUS
  <2> QED BY <1>1, <2>1, <2>2 DEF Init, LookupTypes, PoolTypes
<1>3. \A st \in Statuses : DoneWith(st) = {}
  BY <1>1 DEF Init, DoneWith
<1>4. Tallied
  BY <1>1, <1>3, FS_EmptySet DEF Init, Tallied
<1>5. \A w \in Workers : Honest(w)
  BY <1>1 DEF Init, Honest, Asking
<1> QED BY <1>2, <1>4, <1>5 DEF LookupInv

LEMMA QuietLookupInv ==
    ASSUME LookupInv, cancelled' \in BOOLEAN,
           UNCHANGED <<poolVars, pc, left, queryVars, rec, stats, heard, confirmed>>
    PROVE  LookupInv'
  BY DEF LookupInv, LookupTypes, PoolTypes, Tallied, DoneWith, Honest, Asking, Heard, Matching,
         queryVars, poolVars

LEMMA NextLookupInv ==
    ASSUME LookupInv, (\E w \in Workers : Step(w)) \/ Cancel \/ UNCHANGED resolverVars
    PROVE  LookupInv'
<1>1. CASE Cancel
  BY <1>1, QuietLookupInv DEF Cancel
<1>2. CASE UNCHANGED resolverVars
  BY <1>2, QuietLookupInv DEF resolverVars, LookupInv, LookupTypes
<1> QED BY <1>1, <1>2, StepLookupInv

-----------------------------------------------------------------------------
(* What the invariant says.                                                *)

LEMMA LookupInvType == LookupInv => TypeOK
<1>1. SUFFICES ASSUME LookupInv
               PROVE  TypeOK
  OBVIOUS
<1>2. LookupTypes /\ Tallied
  BY <1>1 DEF LookupInv
<1>3. ASSUME NEW st \in Statuses
      PROVE  stats[st] \in 0..Cardinality(Workers)
  <2>1. DoneWith(st) \subseteq Workers
    BY DEF DoneWith
  <2>2. /\ Cardinality(DoneWith(st)) \in Nat /\ Cardinality(Workers) \in Nat
        /\ Cardinality(DoneWith(st)) <= Cardinality(Workers)
    BY <2>1, ResolverAssumption, FS_Subset, FS_CardinalityType
  <2> QED BY <1>2, <2>2 DEF Tallied
<1>4. stats \in [Statuses -> 0..Cardinality(Workers)]
  BY <1>2, <1>3 DEF LookupTypes
<1> QED BY <1>2, <1>4 DEF TypeOK, LookupTypes, PoolTypes

LEMMA LookupInvStatus == LookupInv => StatusWasHeard
<1>1. SUFFICES ASSUME LookupInv, NEW w \in Workers, rec[w].status # NoneYet
               PROVE  Heard(w)
  BY DEF StatusWasHeard, Heard
<1>2. Honest(w)
  BY <1>1 DEF LookupInv
<1>3. left[w] # -1
  BY <1>1, <1>2 DEF Honest, Asking
<1> QED BY <1>2, <1>3 DEF Honest

LEMMA LookupInvMatch == LookupInv => MatchWasHeard
<1>1. SUFFICES ASSUME LookupInv, NEW w \in Workers, pc[w] = "done"
               PROVE  Matching(w)
  BY DEF MatchWasHeard, Matching
<1>2. Honest(w)
  BY <1>1 DEF LookupInv
<1>3. left[w] = 0
  BY <1>1, <1>2 DEF Honest
<1> QED BY <1>2, <1>3 DEF Honest

-----------------------------------------------------------------------------
(* The whole crawl.                                                        *)


\* Without the fairness, which no safety property needs.
LEMMA SafetyPart == CrawlSpec => CrawlInit /\ [][CrawlNext]_vars
  BY PTL DEF CrawlSpec

\* A step of the crawl is a step of a lookup, of the context, or none for them.
LEMMA CrawlLooksUp ==
    ASSUME [CrawlNext]_vars
    PROVE  (\E w \in Workers : Step(w)) \/ Cancel \/ UNCHANGED resolverVars
  BY DEF CrawlNext, LookupStep, Deliver, DropResult, ConsumeRecord, CloseOutput, Closed, vars

LEMMA LookupInvariance == CrawlSpec => []LookupInv
<1>1. CrawlInit => LookupInv
  BY InitLookupInv DEF CrawlInit
<1>2. LookupInv /\ [CrawlNext]_vars => LookupInv'
  BY CrawlLooksUp, NextLookupInv
<1> QED BY <1>1, <1>2, SafetyPart, PTL

\* Every variable of the lookups keeps its type: a query makes at most Retries + 1
\* attempts, and no status is tallied more often than there are lookups.
THEOREM LookupTypeCorrect == CrawlSpec => []TypeOK
  BY LookupInvariance, LookupInvType, PTL

\* A status that lets merge replace or erase a known name was said by a server, and
\* a timeout means that no server answered, whatever the network loses and however
\* attempts, signals and other workers interleave (query, LookupPTR).
THEOREM StatusWasHeardHolds == CrawlSpec => []StatusWasHeard
  BY LookupInvariance, LookupInvStatus, PTL

\* A finished record is forward-confirmed only when an answer for a name of it had the
\* address, and always when that was a NOERROR or NXDOMAIN answer (query, LookupA,
\* process).
THEOREM MatchWasHeardHolds == CrawlSpec => []MatchWasHeard
  BY LookupInvariance, LookupInvMatch, PTL

-----------------------------------------------------------------------------
(* Counting the records of a sequence.                                     *)

\* A record of a finished lookup.
FinalRec ==
    {r \in [status : Statuses, match : {"yes", "no", NoneYet}] :
        r.match # NoneYet <=> FCrDNS /\ r.status = "has_ptr"}

HowMany(seq, S) == Cardinality({i \in DOMAIN seq : seq[i] \in S})

LEMMA HowManyEmpty == ASSUME NEW S PROVE HowMany(<<>>, S) = 0
<1>1. {i \in DOMAIN <<>> : <<>>[i] \in S} = {}
  OBVIOUS
<1> QED BY <1>1, FS_EmptySet DEF HowMany

LEMMA Places ==
    ASSUME NEW n \in Nat, NEW T \in SUBSET (1..n)
    PROVE  IsFiniteSet(T) /\ Cardinality(T) \in Nat
<1>1. IsFiniteSet(1..n)
  BY FS_Interval
<1> QED BY <1>1, FS_Subset, FS_CardinalityType

LEMMA HowManyAppend ==
    ASSUME NEW seq \in Seq(FinalRec), NEW e \in FinalRec, NEW S \in SUBSET FinalRec
    PROVE  /\ HowMany(seq, S) \in Nat
           /\ HowMany(Append(seq, e), S) = HowMany(seq, S) + (IF e \in S THEN 1 ELSE 0)
<1> DEFINE A == {i \in DOMAIN seq : seq[i] \in S}
           B == {i \in DOMAIN Append(seq, e) : Append(seq, e)[i] \in S}
           n == Len(seq)
<1>1. /\ n \in Nat /\ DOMAIN seq = 1..n /\ DOMAIN Append(seq, e) = 1..(n + 1)
      /\ \A i \in 1..n : Append(seq, e)[i] = seq[i]
      /\ Append(seq, e)[n + 1] = e
  OBVIOUS
<1>2. B = IF e \in S THEN A \cup {n + 1} ELSE A
  <2>1. \A i : i \in 1..(n + 1) <=> i \in 1..n \/ i = n + 1
    BY <1>1
  <2> QED BY <1>1, <2>1
<1>3. A \in SUBSET (1..n) /\ n + 1 \notin A
  BY <1>1
<1>4. HowMany(seq, S) = Cardinality(A) /\ HowMany(Append(seq, e), S) = Cardinality(B)
  BY DEF HowMany
<1> HIDE DEF A, B, n
<1>5. IsFiniteSet(A) /\ Cardinality(A) \in Nat
  BY <1>1, <1>3, Places
<1>6. Cardinality(A \cup {n + 1}) = Cardinality(A) + 1
  BY <1>3, <1>5, FS_AddElement
<1> QED BY <1>2, <1>4, <1>5, <1>6

-----------------------------------------------------------------------------
(* The lines of the file.                                                  *)

LEMMA PrefixOf ==
    ASSUME NEW a \in Seq(FinalRec), NEW b \in Seq(FinalRec)
    PROVE  Len(a) <= Len(a \o b) /\ a = SubSeq(a \o b, 1, Len(a))
  OBVIOUS

LEMMA PrefixAppend ==
    ASSUME NEW a \in Seq(FinalRec), NEW c \in Seq(FinalRec), NEW e \in FinalRec,
           Len(a) <= Len(c), a = SubSeq(c, 1, Len(a))
    PROVE  Len(a) <= Len(Append(c, e)) /\ a = SubSeq(Append(c, e), 1, Len(a))
<1>1. SubSeq(Append(c, e), 1, Len(a)) = SubSeq(c, 1, Len(a))
  OBVIOUS
<1> QED BY <1>1

LEMMA PourParts ==
    ASSUME NEW a \in Seq(FinalRec), NEW q \in Seq(FinalRec), NEW k \in 0..Len(q)
    PROVE  /\ a \o SubSeq(q, 1, k) \in Seq(FinalRec) /\ SubSeq(q, k + 1, Len(q)) \in Seq(FinalRec)
           /\ (a \o SubSeq(q, 1, k)) \o SubSeq(q, k + 1, Len(q)) = a \o q
           /\ k = Len(q) => SubSeq(q, k + 1, Len(q)) = <<>>
<1>1. SubSeq(q, 1, k) \in Seq(FinalRec) /\ SubSeq(q, k + 1, Len(q)) \in Seq(FinalRec)
  OBVIOUS
<1>2. SubSeq(q, 1, k) \o SubSeq(q, k + 1, Len(q)) = q
  <2>1. 1 \in 1..(Len(q) + 1) /\ k \in (1 - 1)..Len(q) /\ Len(q) \in k..Len(q)
    OBVIOUS
  <2> QED BY <2>1, ConcatAdjacentSubSeq, SubSeqFull
<1>3. (a \o SubSeq(q, 1, k)) \o SubSeq(q, k + 1, Len(q))
        = a \o (SubSeq(q, 1, k) \o SubSeq(q, k + 1, Len(q)))
  <2> DEFINE x == SubSeq(q, 1, k)
             y == SubSeq(q, k + 1, Len(q))
  <2>1. x \in Seq(FinalRec) /\ y \in Seq(FinalRec)
    BY <1>1
  <2> HIDE DEF x, y
  <2>2. (a \o x) \o y = a \o (x \o y)
    BY <2>1, ConcatAssociative
  <2> QED BY <2>2 DEF x, y
<1>4. a \o SubSeq(q, 1, k) \in Seq(FinalRec)
  BY <1>1
<1>5. k = Len(q) => SubSeq(q, k + 1, Len(q)) = <<>>
  BY SubSeqEmpty
<1> QED BY <1>1, <1>2, <1>3, <1>4, <1>5

LEMMA MovesFront ==
    ASSUME NEW c \in Seq(FinalRec), NEW q \in Seq(FinalRec), q # <<>>
    PROVE  /\ Head(q) \in FinalRec /\ Tail(q) \in Seq(FinalRec)
           /\ Append(c, Head(q)) \o Tail(q) = c \o q
  OBVIOUS

LEMMA MovesBack ==
    ASSUME NEW c \in Seq(FinalRec), NEW q \in Seq(FinalRec), NEW e \in FinalRec
    PROVE  c \o Append(q, e) = Append(c \o q, e) /\ c \o q \in Seq(FinalRec) /\ Append(q, e) \in Seq(FinalRec)
           /\ c \o <<>> = c
  OBVIOUS

\* Until a write fails, file and buffer are the records in order; afterwards the
\* file stays the beginning of them.
FileInv ==
    /\ lines \in Seq(FinalRec) /\ pend \in Seq(FinalRec)
    /\ consumed \in Seq(FinalRec) /\ queue \in Seq(FinalRec)
    /\ sinkErr \in BOOLEAN
    /\ LinesArePrefix
    /\ ~sinkErr => lines \o pend = consumed
    /\ mainPc = "closed" /\ ~sinkErr => pend = <<>>

LEMMA DoneIsFinal ==
    ASSUME LookupInv, NEW w \in Workers, pc[w] = "done"
    PROVE  rec[w] \in FinalRec
<1>1. Honest(w) /\ LookupTypes
  BY DEF LookupInv
<1>2. Heard(w) /\ Matching(w)
  BY <1>1 DEF Honest
<1>3. rec[w] \in [status : Statuses \cup {NoneYet}, match : {"yes", "no", NoneYet}]
  BY <1>1 DEF LookupTypes
<1>4. rec[w] \in [status : Statuses, match : {"yes", "no", NoneYet}]
  BY <1>2, <1>3 DEF Heard
<1> QED BY <1>2, <1>4 DEF FinalRec, Matching

LEMMA EncodeKeeps ==
    ASSUME FileInv, mainPc' = "run", NEW r \in FinalRec, Encode(r),
           consumed' = Append(consumed, r), queue' \in Seq(FinalRec)
    PROVE  FileInv'
<1>1. CASE sinkErr /\ UNCHANGED sinkFileVars
  <2>1. LinesArePrefix'
    BY <1>1, PrefixAppend DEF FileInv, LinesArePrefix, sinkFileVars
  <2>2. consumed' \in Seq(FinalRec)
    BY DEF FileInv
  <2> QED BY <1>1, <2>1, <2>2 DEF FileInv, sinkFileVars
<1>2. CASE ~sinkErr /\ sinkErr' \in BOOLEAN
           /\ \E k \in 0..(Len(pend) + 1) : Pour(Append(pend, r), k)
  <2> DEFINE q == Append(pend, r)
  <2>1. q \in Seq(FinalRec) /\ Len(q) = Len(pend) + 1
    BY DEF FileInv
  <2>2. PICK k \in 0..Len(q) : Pour(q, k)
    BY <1>2, <2>1
  <2>3. lines \o q = Append(consumed, r)
    <3>1. lines \o pend = consumed /\ lines \in Seq(FinalRec) /\ pend \in Seq(FinalRec)
      BY <1>2 DEF FileInv
    <3>2. lines \o Append(pend, r) = Append(lines \o pend, r)
      BY <3>1, MovesBack
    <3> QED BY <3>1, <3>2
  <2> HIDE DEF q
  <2>4. /\ lines' = lines \o SubSeq(q, 1, k) /\ pend' = SubSeq(q, k + 1, Len(q))
    BY <2>2 DEF Pour
  <2>5. lines' \in Seq(FinalRec) /\ pend' \in Seq(FinalRec) /\ lines' \o pend' = lines \o q
    <3>1. lines \in Seq(FinalRec)
      BY DEF FileInv
    <3> QED BY <2>1, <2>4, <3>1, PourParts
  <2>6. lines' \o pend' = consumed' /\ consumed' \in Seq(FinalRec)
    BY <2>3, <2>5 DEF FileInv
  <2>7. LinesArePrefix'
    BY <2>5, <2>6, PrefixOf DEF LinesArePrefix
  <2> QED BY <1>2, <2>5, <2>6, <2>7 DEF FileInv
<1> QED BY <1>1, <1>2 DEF Encode

LEMMA NextFileInv ==
    ASSUME LookupInv, FileInv, [CrawlNext]_vars
    PROVE  FileInv'
<1>1. ASSUME UNCHANGED <<lines, pend, sinkErr, consumed, mainPc>>, queue' \in Seq(FinalRec)
      PROVE  FileInv'
  BY <1>1 DEF FileInv, LinesArePrefix
<1>2. CASE LookupStep \/ Closed \/ UNCHANGED vars
  BY <1>1, <1>2 DEF LookupStep, Closed, vars, sinkVars, sinkFileVars, FileInv
<1>3. ASSUME NEW w \in Workers, Deliver(w) \/ DropResult(w)
      PROVE  FileInv'
  <2>1. rec[w] \in FinalRec
    BY <1>3, DoneIsFinal DEF Deliver, DropResult
  <2>2. queue' \in Seq(FinalRec)
    <3>1. queue \in Seq(FinalRec)
      BY DEF FileInv
    <3>2. queue' = queue \/ queue' = Append(queue, rec[w])
      BY <1>3 DEF Deliver, DropResult
    <3>3. Append(queue, rec[w]) \in Seq(FinalRec)
      BY <2>1, <3>1, AppendProperties
    <3> QED BY <3>1, <3>2, <3>3
  <2> QED BY <1>1, <1>3, <2>2 DEF Deliver, DropResult, sinkVars, sinkFileVars
<1>4. CASE ConsumeRecord
  <2>1. Head(queue) \in FinalRec /\ Tail(queue) \in Seq(FinalRec)
    BY <1>4, MovesFront DEF ConsumeRecord, FileInv
  <2> QED BY <1>4, <2>1, EncodeKeeps DEF ConsumeRecord, WriteRecord
<1>5. CASE CloseOutput
  <2>1. UNCHANGED <<queue, consumed>> /\ mainPc' = "closed"
    BY <1>5 DEF CloseOutput
  <2>2. CASE sinkErr /\ UNCHANGED sinkVars
    BY <2>1, <2>2 DEF FileInv, LinesArePrefix, sinkVars, sinkFileVars
  <2>3. CASE ~sinkErr /\ \E k \in 0..Len(pend) : Pour(pend, k) /\ sinkErr' = (k < Len(pend))
    <3>1. PICK k \in 0..Len(pend) :
            /\ lines' = lines \o SubSeq(pend, 1, k) /\ pend' = SubSeq(pend, k + 1, Len(pend))
            /\ sinkErr' = (k < Len(pend))
      BY <2>3 DEF Pour
    <3>2. /\ lines' \in Seq(FinalRec) /\ pend' \in Seq(FinalRec)
          /\ lines' \o pend' = lines \o pend
          /\ k = Len(pend) => pend' = <<>>
      <4>1. lines \in Seq(FinalRec) /\ pend \in Seq(FinalRec)
        BY DEF FileInv
      <4> QED BY <3>1, <4>1, PourParts
    <3>3. lines' \o pend' = consumed'
      BY <2>1, <2>3, <3>2 DEF FileInv
    <3>4. LinesArePrefix'
      BY <3>2, <3>3, PrefixOf DEF LinesArePrefix
    <3>5. ~sinkErr' => pend' = <<>>
      <4>1. pend \in Seq(FinalRec)
        BY DEF FileInv
      <4>2. Len(pend) \in Nat
        BY <4>1
      <4>3. k \in 0..Len(pend) /\ (~sinkErr' => ~(k < Len(pend)))
        BY <3>1
      <4>4. ~sinkErr' => k = Len(pend)
        BY <4>2, <4>3
      <4> QED BY <3>2, <4>4
    <3>6. sinkErr' \in BOOLEAN
      BY <3>1
    <3> QED BY <2>1, <3>2, <3>3, <3>4, <3>5, <3>6 DEF FileInv
  <2> QED BY <1>5, <2>2, <2>3 DEF CloseOutput, SinkClose
<1> QED BY <1>2, <1>3, <1>4, <1>5 DEF CrawlNext

LEMMA FileInvariance == CrawlSpec => []FileInv
<1>1. CrawlInit => FileInv
  <2>1. <<>> \in Seq(FinalRec) /\ <<>> \o <<>> = <<>> /\ Len(<<>>) = 0
        /\ <<>> = SubSeq(<<>>, 1, 0)
    BY SubSeqEmpty
  <2>2. SUFFICES ASSUME CrawlInit
                 PROVE  FileInv
    OBVIOUS
  <2>3. /\ lines = <<>> /\ pend = <<>> /\ consumed = <<>> /\ queue = <<>>
        /\ sinkErr = FALSE /\ mainPc = "run"
    BY <2>2 DEF CrawlInit, SinkInit
  <2>4. LinesArePrefix
    BY <2>1, <2>3 DEF LinesArePrefix
  <2> QED BY <2>1, <2>3, <2>4 DEF FileInv
<1>2. LookupInv /\ FileInv /\ [CrawlNext]_vars => FileInv'
  BY NextFileInv
<1> QED BY <1>1, <1>2, LookupInvariance, SafetyPart, PTL

\* Whenever and wherever a write fails, the file holds the first of the records the
\* sink was given, in their order and without a gap (write, bufio.Writer, Close).
THEOREM LinesArePrefixHolds == CrawlSpec => []LinesArePrefix
<1>1. FileInv => LinesArePrefix
  BY DEF FileInv
<1> QED BY <1>1, FileInvariance, PTL

-----------------------------------------------------------------------------
(* The printed summary.                                                    *)

WithStatus(st) == {r \in FinalRec : r.status = st}
CheckedRecs    == {r \in FinalRec : r.match # NoneYet}
MatchingRecs   == {r \in FinalRec : r.match = "yes"}

SentWith(st)    == {w \in Workers : delivered[w] = "sent" /\ rec[w].status = st}
DroppedWith(st) == {w \in Workers : delivered[w] = "dropped" /\ rec[w].status = st}

\* What was sent is consumed or in the channel; the counters are about what was
\* consumed.
CountInv ==
    /\ delivered \in [Workers -> {"no", "sent", "dropped"}]
    /\ \A w \in Workers : delivered[w] # "no" => pc[w] = "done"
    /\ byCode \in [Codes -> Nat]
    /\ \A st \in Statuses : /\ byCode[st] = HowMany(consumed, WithStatus(st))
                            /\ Cardinality(SentWith(st))
                                 = HowMany(consumed \o queue, WithStatus(st))
    /\ total = Len(consumed)
    /\ fcChecked = HowMany(consumed, CheckedRecs)
    /\ fcMatch = HowMany(consumed, MatchingRecs)
    /\ mainPc = "closed" => queue = <<>> /\ \A w \in Workers : delivered[w] # "no"

\* A finished lookup is left alone.
LEMMA DoneStays ==
    ASSUME LookupInv, [CrawlNext]_vars, NEW w \in Workers, pc[w] = "done"
    PROVE  pc'[w] = "done" /\ rec'[w] = rec[w]
<1>1. LookupTypes
  BY DEF LookupInv
<1>2. ASSUME NEW u \in Workers, Step(u)
      PROVE  u # w /\ pc'[w] = pc[w] /\ rec'[w] = rec[w]
  <2>1. u # w
    BY <1>2 DEF Step, Ask, AskCancelled, ReverseAnswer, ForwardAnswer, SoftFailure, TransportError
  <2>2. CASE \E resp, hit, err : NextAttempt(u, resp, hit, err)
    BY <1>1, <2>1, <2>2 DEF NextAttempt, ReverseDone, ForwardDone, Proceed, LookupTypes
  <2>3. CASE Ask(u)
    BY <1>1, <2>1, <2>3 DEF Ask, LookupTypes
  <2>4. CASE ReverseAnswer(u)
    <3>1. PICK rcode, names : ReverseDone(u, Classify(rcode, names), names)
      BY <2>4 DEF ReverseAnswer
    <3> QED BY <1>1, <2>1, <3>1 DEF ReverseDone, Proceed, LookupTypes
  <2>5. CASE ForwardAnswer(u)
    <3>1. PICK hit : ForwardDone(u, hit)
      BY <2>5 DEF ForwardAnswer
    <3> QED BY <1>1, <2>1, <3>1 DEF ForwardDone, Proceed, LookupTypes
  <2> QED
    BY <1>2, <2>1, <2>2, <2>3, <2>4, <2>5 DEF Step, AskCancelled, SoftFailure, TransportError
<1>3. CASE Cancel \/ UNCHANGED resolverVars
  BY <1>3 DEF Cancel, resolverVars
<1> QED BY <1>2, <1>3, CrawlLooksUp

LEMMA NextDelivered ==
    ASSUME LookupInv, CountInv, [CrawlNext]_vars
    PROVE  /\ delivered' \in [Workers -> {"no", "sent", "dropped"}]
           /\ \A w \in Workers : delivered'[w] # "no" => pc'[w] = "done"
<1>1. \A w \in Workers : pc[w] = "done" => pc'[w] = "done"
  BY DoneStays
<1>2. CASE delivered' = delivered
  BY <1>1, <1>2 DEF CountInv
<1>3. ASSUME NEW w \in Workers, Deliver(w) \/ DropResult(w)
      PROVE  /\ delivered' \in [Workers -> {"no", "sent", "dropped"}]
             /\ \A u \in Workers : delivered'[u] # "no" => pc[u] = "done"
  BY <1>3 DEF Deliver, DropResult, CountInv
<1> QED
  BY <1>1, <1>2, <1>3 DEF CrawlNext, LookupStep, ConsumeRecord, CloseOutput, Closed, vars

\* Steps that neither deliver nor consume.
LEMMA CountSame ==
    ASSUME LookupInv, CountInv, [CrawlNext]_vars,
           UNCHANGED <<delivered, queue, consumed, sinkStatVars>>
    PROVE  \A st \in Statuses : /\ byCode'[st] = HowMany(consumed', WithStatus(st))
                                /\ Cardinality(SentWith(st)')
                                     = HowMany(consumed' \o queue', WithStatus(st))
<1>1. \A st \in Statuses : SentWith(st)' = SentWith(st)
  <2>1. \A w \in Workers : delivered[w] = "sent" => rec'[w] = rec[w]
    BY DoneStays DEF CountInv
  <2> QED BY <2>1 DEF SentWith
<1> QED BY <1>1 DEF CountInv, sinkStatVars

LEMMA DeliverCounts ==
    ASSUME LookupInv, FileInv, CountInv, [CrawlNext]_vars, NEW w \in Workers, Deliver(w),
           NEW st \in Statuses
    PROVE  Cardinality(SentWith(st)') = HowMany(consumed \o queue', WithStatus(st))
<1>1. /\ rec[w] \in FinalRec /\ rec' = rec /\ consumed \in Seq(FinalRec)
      /\ queue \in Seq(FinalRec) /\ queue' = Append(queue, rec[w])
      /\ delivered[w] = "no" /\ delivered' = [delivered EXCEPT ![w] = "sent"]
  BY DoneIsFinal DEF Deliver, FileInv, resolverVars
<1>2. consumed \o queue' = Append(consumed \o queue, rec[w]) /\ consumed \o queue \in Seq(FinalRec)
  BY <1>1, MovesBack
<1>3. /\ HowMany(consumed \o queue, WithStatus(st)) \in Nat
      /\ HowMany(Append(consumed \o queue, rec[w]), WithStatus(st))
           = HowMany(consumed \o queue, WithStatus(st))
               + (IF rec[w] \in WithStatus(st) THEN 1 ELSE 0)
  <2> DEFINE all == consumed \o queue
  <2>1. all \in Seq(FinalRec) /\ WithStatus(st) \in SUBSET FinalRec
    BY <1>2 DEF WithStatus
  <2> HIDE DEF all
  <2>2. /\ HowMany(all, WithStatus(st)) \in Nat
        /\ HowMany(Append(all, rec[w]), WithStatus(st))
             = HowMany(all, WithStatus(st)) + (IF rec[w] \in WithStatus(st) THEN 1 ELSE 0)
    BY <1>1, <2>1, HowManyAppend
  <2> QED BY <2>2 DEF all
<1>4. rec[w] \in WithStatus(st) <=> rec[w].status = st
  BY <1>1 DEF WithStatus
<1>5. SentWith(st)' = IF rec[w].status = st THEN SentWith(st) \cup {w} ELSE SentWith(st)
  BY <1>1 DEF SentWith, CountInv
<1>6. IsFiniteSet(SentWith(st)) /\ w \notin SentWith(st)
  <2>1. SentWith(st) \subseteq Workers /\ w \notin SentWith(st)
    BY <1>1 DEF SentWith
  <2> QED BY <2>1, ResolverAssumption, FS_Subset
<1>7. Cardinality(SentWith(st) \cup {w}) = Cardinality(SentWith(st)) + 1
  BY <1>6, FS_AddElement
<1>8. Cardinality(SentWith(st)) = HowMany(consumed \o queue, WithStatus(st))
  BY DEF CountInv
<1> QED BY <1>2, <1>3, <1>4, <1>5, <1>7, <1>8

LEMMA ConsumeCounts ==
    ASSUME LookupInv, FileInv, CountInv, ConsumeRecord
    PROVE  /\ byCode' \in [Codes -> Nat]
           /\ \A st \in Statuses : /\ byCode'[st] = HowMany(consumed', WithStatus(st))
                                   /\ Cardinality(SentWith(st)')
                                        = HowMany(consumed' \o queue', WithStatus(st))
           /\ total' = Len(consumed')
           /\ fcChecked' = HowMany(consumed', CheckedRecs)
           /\ fcMatch' = HowMany(consumed', MatchingRecs)
<1> DEFINE r == Head(queue)
<1>1. /\ queue # <<>> /\ queue \in Seq(FinalRec) /\ consumed \in Seq(FinalRec)
      /\ consumed' = Append(consumed, r) /\ queue' = Tail(queue)
      /\ UNCHANGED <<delivered, rec>>
  BY DEF ConsumeRecord, FileInv, resolverVars
<1>2. r \in FinalRec /\ consumed' \o queue' = consumed \o queue
  BY <1>1, MovesFront
<1>3. /\ total' = total + 1 /\ byCode' = [byCode EXCEPT ![r.status] = @ + 1]
      /\ fcChecked' = (IF r.match # "none" THEN fcChecked + 1 ELSE fcChecked)
      /\ fcMatch' = (IF r.match = "yes" THEN fcMatch + 1 ELSE fcMatch)
  BY DEF ConsumeRecord, WriteRecord
<1> HIDE DEF r
<1>4. ASSUME NEW S \in SUBSET FinalRec
      PROVE  /\ HowMany(consumed, S) \in Nat
             /\ HowMany(consumed', S) = HowMany(consumed, S) + (IF r \in S THEN 1 ELSE 0)
  BY <1>1, <1>2, <1>4, HowManyAppend
<1>5. r.status \in Statuses /\ Statuses \subseteq Codes
  BY <1>2 DEF FinalRec, Statuses, Codes
<1>6. byCode \in [Codes -> Nat]
  BY DEF CountInv
<1>7. byCode' \in [Codes -> Nat]
  BY <1>3, <1>5, <1>6
<1>8. ASSUME NEW st \in Statuses
      PROVE  /\ byCode'[st] = HowMany(consumed', WithStatus(st))
             /\ Cardinality(SentWith(st)') = HowMany(consumed' \o queue', WithStatus(st))
  <2>1. r \in WithStatus(st) <=> r.status = st
    BY <1>2 DEF WithStatus
  <2>2. byCode'[st] = byCode[st] + (IF r.status = st THEN 1 ELSE 0)
    BY <1>3, <1>5, <1>6
  <2>3. SentWith(st)' = SentWith(st)
    BY <1>1 DEF SentWith
  <2>4. byCode[st] = HowMany(consumed, WithStatus(st))
        /\ Cardinality(SentWith(st)) = HowMany(consumed \o queue, WithStatus(st))
    BY DEF CountInv
  <2>5. HowMany(consumed', WithStatus(st))
          = HowMany(consumed, WithStatus(st)) + (IF r \in WithStatus(st) THEN 1 ELSE 0)
    BY <1>4 DEF WithStatus
  <2> QED BY <1>2, <2>1, <2>2, <2>3, <2>4, <2>5
<1>9. total' = Len(consumed')
  BY <1>1, <1>3 DEF CountInv
<1>10. fcChecked' = HowMany(consumed', CheckedRecs)
  <2>1. r \in CheckedRecs <=> r.match # "none"
    BY <1>2 DEF CheckedRecs, NoneYet
  <2>2. fcChecked = HowMany(consumed, CheckedRecs) /\ CheckedRecs \in SUBSET FinalRec
    BY DEF CountInv, CheckedRecs
  <2>3. /\ HowMany(consumed, CheckedRecs) \in Nat
        /\ HowMany(consumed', CheckedRecs)
             = HowMany(consumed, CheckedRecs) + (IF r \in CheckedRecs THEN 1 ELSE 0)
    BY <1>4, <2>2
  <2> QED BY <1>3, <2>1, <2>2, <2>3
<1>11. fcMatch' = HowMany(consumed', MatchingRecs)
  <2>1. r \in MatchingRecs <=> r.match = "yes"
    BY <1>2 DEF MatchingRecs
  <2>2. fcMatch = HowMany(consumed, MatchingRecs) /\ MatchingRecs \in SUBSET FinalRec
    BY DEF CountInv, MatchingRecs
  <2>3. /\ HowMany(consumed, MatchingRecs) \in Nat
        /\ HowMany(consumed', MatchingRecs)
             = HowMany(consumed, MatchingRecs) + (IF r \in MatchingRecs THEN 1 ELSE 0)
    BY <1>4, <2>2
  <2> QED BY <1>3, <2>1, <2>2, <2>3
<1> QED BY <1>7, <1>8, <1>9, <1>10, <1>11

LEMMA NextCountInv ==
    ASSUME LookupInv, FileInv, CountInv, [CrawlNext]_vars
    PROVE  CountInv'
<1>1. /\ delivered' \in [Workers -> {"no", "sent", "dropped"}]
      /\ \A w \in Workers : delivered'[w] # "no" => pc'[w] = "done"
  BY NextDelivered
<1>2. ASSUME UNCHANGED <<delivered, queue, consumed, sinkStatVars>>,
             mainPc' = mainPc \/ CloseOutput
      PROVE  CountInv'
  <2>1. mainPc' = "closed" => queue' = <<>> /\ \A w \in Workers : delivered'[w] # "no"
    BY <1>2 DEF CountInv, CloseOutput
  <2>2. UNCHANGED <<byCode, total, fcChecked, fcMatch>>
    BY <1>2 DEF sinkStatVars
  <2> QED BY <1>1, <1>2, <2>1, <2>2, CountSame DEF CountInv
<1>3. CASE LookupStep \/ Closed \/ CloseOutput \/ UNCHANGED vars
  BY <1>2, <1>3 DEF LookupStep, Closed, CloseOutput, SinkClose, vars, sinkVars
<1>4. ASSUME NEW w \in Workers, Deliver(w)
      PROVE  CountInv'
  <2>1. /\ consumed' = consumed /\ mainPc' = mainPc /\ delivered[w] = "no"
        /\ UNCHANGED <<byCode, total, fcChecked, fcMatch>>
    BY <1>4 DEF Deliver, sinkVars, sinkStatVars
  <2>2. mainPc' # "closed"
    BY <2>1 DEF CountInv
  <2>3. \A st \in Statuses :
           Cardinality(SentWith(st)') = HowMany(consumed' \o queue', WithStatus(st))
    BY <1>4, <2>1, DeliverCounts
  <2> QED BY <1>1, <2>1, <2>2, <2>3 DEF CountInv
<1>5. ASSUME NEW w \in Workers, DropResult(w)
      PROVE  CountInv'
  <2>1. /\ UNCHANGED <<consumed, queue, mainPc, rec, byCode, total, fcChecked, fcMatch>>
        /\ delivered[w] = "no" /\ delivered' = [delivered EXCEPT ![w] = "dropped"]
    BY <1>5 DEF DropResult, sinkVars, sinkStatVars, resolverVars
  <2>2. mainPc' # "closed"
    BY <2>1 DEF CountInv
  <2>3. \A st \in Statuses : SentWith(st)' = SentWith(st)
    BY <2>1 DEF SentWith, CountInv
  <2>4. \A st \in Statuses :
           Cardinality(SentWith(st)') = HowMany(consumed' \o queue', WithStatus(st))
    BY <2>1, <2>3 DEF CountInv
  <2> QED BY <1>1, <2>1, <2>2, <2>4 DEF CountInv
<1>6. CASE ConsumeRecord
  <2>1. mainPc' # "closed"
    BY <1>6 DEF ConsumeRecord
  <2> QED BY <1>1, <1>6, <2>1, ConsumeCounts DEF CountInv
<1> QED BY <1>3, <1>4, <1>5, <1>6 DEF CrawlNext

LEMMA CountInvariance == CrawlSpec => []CountInv
<1>1. CrawlInit => CountInv
  <2>1. SUFFICES ASSUME CrawlInit
                 PROVE  CountInv
    OBVIOUS
  <2>2. /\ delivered = [w \in Workers |-> "no"] /\ queue = <<>> /\ consumed = <<>>
        /\ byCode = [c \in Codes |-> 0] /\ total = 0 /\ fcChecked = 0 /\ fcMatch = 0
        /\ mainPc = "run"
    BY <2>1 DEF CrawlInit, SinkInit
  <2>3. \A st \in Statuses : SentWith(st) = {} /\ st \in Codes
    BY <2>2 DEF SentWith, Statuses, Codes
  <2>4. <<>> \o <<>> = <<>> /\ Len(<<>>) = 0 /\ Cardinality({}) = 0
    BY FS_EmptySet
  <2>5. \A st \in Statuses : /\ byCode[st] = HowMany(consumed, WithStatus(st))
                             /\ Cardinality(SentWith(st))
                                  = HowMany(consumed \o queue, WithStatus(st))
    BY <2>2, <2>3, <2>4, HowManyEmpty
  <2>6. fcChecked = HowMany(consumed, CheckedRecs) /\ fcMatch = HowMany(consumed, MatchingRecs)
    BY <2>2, HowManyEmpty
  <2> QED BY <2>2, <2>4, <2>5, <2>6 DEF CountInv
<1>2. LookupInv /\ FileInv /\ CountInv /\ [CrawlNext]_vars => CountInv'
  BY NextCountInv
<1> QED BY <1>1, <1>2, LookupInvariance, FileInvariance, SafetyPart, PTL

\* The printed summary is exact whatever failed: every finished lookup is in its
\* histogram or was dropped under a cancelled context, the forward confirmations are
\* those of the records, and without a failed write the file has these records
\* (tally, write, Close, PrintSummary).
THEOREM SummaryExactHolds == CrawlSpec => []SummaryExact
<1>1. LookupInv /\ FileInv /\ CountInv => SummaryExact
  <2>1. SUFFICES ASSUME LookupInv, FileInv, CountInv, mainPc = "closed"
                 PROVE  /\ \A st \in Statuses : stats[st] =
                             byCode[st] + Cardinality(DroppedWith(st))
                        /\ total = Len(consumed)
                        /\ fcChecked = Count(consumed, LAMBDA r : FCrDNS /\ r.status = "has_ptr")
                        /\ fcMatch = Count(consumed, LAMBDA r : r.match = "yes")
                        /\ ~sinkErr => lines = consumed
    BY DEF SummaryExact, DroppedWith
  <2>2. consumed \in Seq(FinalRec) /\ lines \in Seq(FinalRec) /\ queue = <<>>
        /\ \A w \in Workers : delivered[w] # "no" /\ pc[w] = "done"
    BY <2>1 DEF FileInv, CountInv
  <2>3. ASSUME NEW st \in Statuses
        PROVE  stats[st] = byCode[st] + Cardinality(DroppedWith(st))
    <3>1. consumed \o queue = consumed
      BY <2>2
    <3>2. byCode[st] = Cardinality(SentWith(st))
      BY <2>1, <3>1 DEF CountInv
    <3>3. DoneWith(st) = SentWith(st) \cup DroppedWith(st)
          /\ SentWith(st) \cap DroppedWith(st) = {}
      BY <2>1, <2>2 DEF DoneWith, SentWith, DroppedWith, CountInv
    <3>4. IsFiniteSet(SentWith(st)) /\ IsFiniteSet(DroppedWith(st))
      <4>1. SentWith(st) \subseteq Workers /\ DroppedWith(st) \subseteq Workers
        BY DEF SentWith, DroppedWith
      <4> QED BY <4>1, ResolverAssumption, FS_Subset
    <3>5. Cardinality(SentWith(st)) \in Nat /\ Cardinality(DroppedWith(st)) \in Nat
      BY <3>4, FS_CardinalityType
    <3>6. Cardinality(DoneWith(st)) = Cardinality(SentWith(st)) + Cardinality(DroppedWith(st))
      <4>1. Cardinality(SentWith(st) \cup DroppedWith(st))
              = Cardinality(SentWith(st)) + Cardinality(DroppedWith(st))
                  - Cardinality(SentWith(st) \cap DroppedWith(st))
        BY <3>4, FS_Union
      <4>2. Cardinality(SentWith(st) \cap DroppedWith(st)) = 0
        BY <3>3, FS_EmptySet
      <4> QED BY <3>3, <3>5, <4>1, <4>2
    <3>7. stats[st] = Cardinality(DoneWith(st))
      BY <2>1 DEF LookupInv, Tallied
    <3> QED BY <3>2, <3>6, <3>7
  <2>4. \A i \in DOMAIN consumed :
          /\ consumed[i] \in CheckedRecs <=> FCrDNS /\ consumed[i].status = "has_ptr"
          /\ consumed[i] \in MatchingRecs <=> consumed[i].match = "yes"
    <3>1. \A i \in DOMAIN consumed : consumed[i] \in FinalRec
      BY <2>2
    <3> QED BY <3>1 DEF CheckedRecs, MatchingRecs, FinalRec
  <2>5. fcChecked = Count(consumed, LAMBDA r : FCrDNS /\ r.status = "has_ptr")
    <3>1. {i \in DOMAIN consumed : consumed[i] \in CheckedRecs}
            = {i \in DOMAIN consumed : FCrDNS /\ consumed[i].status = "has_ptr"}
      BY <2>4
    <3> QED BY <2>1, <3>1 DEF Count, HowMany, CountInv
  <2>6. fcMatch = Count(consumed, LAMBDA r : r.match = "yes")
    <3>1. {i \in DOMAIN consumed : consumed[i] \in MatchingRecs}
            = {i \in DOMAIN consumed : consumed[i].match = "yes"}
      BY <2>4
    <3> QED BY <2>1, <3>1 DEF Count, HowMany, CountInv
  <2>7. ~sinkErr => lines = consumed
    <3>1. ~sinkErr => lines \o pend = consumed /\ pend = <<>>
      BY <2>1 DEF FileInv
    <3>2. lines \o <<>> = lines
      BY <2>2
    <3> QED BY <3>1, <3>2
  <2> QED BY <2>1, <2>3, <2>5, <2>6, <2>7 DEF CountInv
<1> QED BY <1>1, LookupInvariance, FileInvariance, CountInvariance, PTL
=============================================================================
