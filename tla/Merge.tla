-------------------------------- MODULE Merge --------------------------------
(***************************************************************************)
(* internal/merge: a re-crawl pass folded into its baseline, shard pair by *)
(* shard pair.  The new shard is loaded into a table with one entry per    *)
(* address, the baseline streams against it, and one merged shard is       *)
(* written per pair.                                                       *)
(***************************************************************************)
EXTENDS Passes

VARIABLES
    old,      \* the baseline shards
    new,      \* the re-crawl shards
    allowPartial,  \* Options.AllowPartial
    pc,       \* "discover", "pair", "scan", "remove", "done", "failed"
    todo,     \* shards still to merge
    at,       \* the next record of the baseline scan
    table,    \* the deduplicated entries of the new shard
    used,     \* addresses whose entry was used (entUsed)
    seen,     \* addresses of the baseline already met (the bitmap)
    out,      \* the merged files; "open" is a file without a valid header, and
              \* "partial" one with a valid header but part of the baseline
    counts,   \* mergedCounts
    res       \* the other counters of Result

inputVars == <<old, new, allowPartial>>
vars == <<old, new, allowPartial, pc, todo, at, table, used, seen, out, counts, res>>

Counters == {"gained", "removedAuth", "changed", "unchanged", "graceKept",
             "missingKept", "oldDups", "newDups", "unexpected"}

Begin ==
    /\ pc = "discover" /\ todo = Shards /\ at = 1
    /\ table = {} /\ used = {} /\ seen = {}
    /\ out = [s \in Shards |-> [state |-> "none", recs |-> {}]]
    /\ counts = [st \in Statuses |-> 0]
    /\ res = [c \in Counters |-> 0]

Init ==
    /\ \E i \in Inputs : old = i.old /\ new = i.new /\ allowPartial = i.allowPartial
    /\ Begin

-----------------------------------------------------------------------------
\* The shard Run works on: ids in ascending order.
Current == CHOOSE s \in todo : \A t \in todo : s <= t

Fail ==
    /\ pc' = "failed"
    /\ UNCHANGED <<inputVars, todo, at, table, used, seen, counts, res>>

\* discover finds files in both directories and can read every header.
Discoverable ==
    /\ \A s \in Shards : new[s].kind # "live" /\ old[s].end # "live"
    /\ \E s \in Shards : new[s].kind # "absent"

\* Both directories are looked through before anything is merged.
Discover ==
    /\ pc = "discover" /\ Discoverable
    /\ pc' = "pair"
    /\ UNCHANGED <<inputVars, todo, at, table, used, seen, out, counts, res>>

\* An unreadable header or an empty directory ends the run.
DiscoverFails ==
    /\ pc = "discover" /\ ~Discoverable
    /\ Fail /\ UNCHANGED out

\* Faulty variant: --allow-partial is not asked for.
AcceptableAlways(kind) == kind \in {"eof", "truncated", "absent"}

\* Which pairs mergeShard accepts.
Acceptable(kind) == kind = "eof" \/ (kind \in {"truncated", "absent"} /\ allowPartial)

\* loadNewShard, then NewWriter for the merged file.
OpenPair ==
    /\ pc = "pair" /\ todo # {}
    /\ LET s     == Current
           first == FirstOccurrences(new[s].recs)
       IN  /\ Acceptable(new[s].kind)
           /\ table' = first
           /\ res' = [res EXCEPT !["newDups"] = @ + Len(new[s].recs) - Cardinality(first)]
           /\ out' = [out EXCEPT ![s] = [state |-> "open", recs |-> {}]]
    /\ used' = {} /\ seen' = {} /\ at' = 1
    /\ pc' = "scan"
    /\ UNCHANGED <<inputVars, todo, counts>>

\* mergeShard and Run refuse the pair.
PairRejected ==
    /\ pc = "pair" /\ todo # {}
    /\ ~Acceptable(new[Current].kind)
    /\ Fail /\ UNCHANGED out

\* The output directory or the merged file cannot be created.
OutputFails ==
    /\ \/ pc = "discover" /\ Discoverable
       \/ pc = "pair" /\ todo # {} /\ Acceptable(new[Current].kind)
    /\ Fail /\ UNCHANGED out

-----------------------------------------------------------------------------
(* The callback of the baseline scan, one action per branch.               *)

Scanning == pc = "scan" /\ at <= Len(old[Current].recs)

\* The baseline record under the scan, and the table's entry for its address.
Row == old[Current].recs[at]
HasEntry == Row.ip \in Ips(table)
Entry == CHOOSE e \in table : e.ip = Row.ip

\* The record goes to the merged file; counter names the branch taken.
Write(rec, counter) ==
    /\ out' = [out EXCEPT ![Current].recs = @ \cup {rec}]
    /\ counts' = [counts EXCEPT ![rec.st] = @ + 1]
    /\ res' = IF counter = "" THEN res ELSE [res EXCEPT ![counter] = @ + 1]
    /\ seen' = seen \cup {Row.ip}
    /\ at' = at + 1
    /\ UNCHANGED <<inputVars, pc, todo, table>>

\* Faulty variant: a repeated address does not mark anything and is counted as
\* a new one.
OldDupUnnoticed ==
    /\ Scanning /\ Row.ip \in seen
    /\ counts' = [counts EXCEPT ![Row.st] = @ + 1]
    /\ at' = at + 1
    /\ UNCHANGED <<inputVars, pc, todo, table, used, seen, out, res>>

\* A repeated address of the baseline is skipped.
OldDup ==
    /\ Scanning /\ Row.ip \in seen
    /\ res' = [res EXCEPT !["oldDups"] = @ + 1]
    /\ at' = at + 1
    /\ UNCHANGED <<inputVars, pc, todo, table, used, seen, out, counts>>

\* Not in the re-crawl's target set.
CopyThrough ==
    /\ Scanning /\ Row.ip \notin seen /\ Row.st \notin Mask
    /\ Write(Row, "") /\ UNCHANGED used

\* A target without a new observation.
KeepMissing ==
    /\ Scanning /\ Row.ip \notin seen /\ Row.st \in Mask /\ ~HasEntry
    /\ Write(Row, "missingKept") /\ UNCHANGED used

\* A target with a new observation.
Paired == Scanning /\ Row.ip \notin seen /\ Row.st \in Mask /\ HasEntry

\* Faulty variant: the names of the new entry are not copied.
TakePTRNameless ==
    /\ Paired /\ Entry.st = "has_ptr"
    /\ Write([Entry EXCEPT !.ptr = NoName],
             IF Row.st # "has_ptr" THEN "gained"
             ELSE IF Row.ptr = Entry.ptr THEN "unchanged" ELSE "changed")
    /\ used' = used \cup {Row.ip}

\* The new pass has a PTR.
TakePTR ==
    /\ Paired /\ Entry.st = "has_ptr"
    /\ Write(Entry, IF Row.st # "has_ptr" THEN "gained"
                    ELSE IF Row.ptr = Entry.ptr THEN "unchanged" ELSE "changed")
    /\ used' = used \cup {Row.ip}

\* The new pass has an authoritative negative.
TakeNegative ==
    /\ Paired /\ Entry.st \in Authoritative
    /\ Write(Entry, IF Row.st = "has_ptr" THEN "removedAuth" ELSE "")
    /\ used' = used \cup {Row.ip}

\* Faulty variant: the newest observation always wins.
NoGrace ==
    /\ Paired /\ Entry.st \in Transient /\ Row.st = "has_ptr"
    /\ Write(Entry, "removedAuth")
    /\ used' = used \cup {Row.ip}

\* Grace policy: a transient failure does not erase a known PTR.
KeepGrace ==
    /\ Paired /\ Entry.st \in Transient /\ Row.st = "has_ptr"
    /\ Write(Row, "graceKept")
    /\ used' = used \cup {Row.ip}

\* The new pass failed and there was no PTR to keep.
TakeTransient ==
    /\ Paired /\ Entry.st \in Transient /\ Row.st # "has_ptr"
    /\ Write(Entry, "")
    /\ used' = used \cup {Row.ip}

-----------------------------------------------------------------------------
(* The end of a shard.                                                     *)

ScanEnded == pc = "scan" /\ at > Len(old[Current].recs)

\* Faulty variant: the error of the baseline scan is ignored.
BaselineTruncationIgnored ==
    /\ ScanEnded /\ old[Current].end = "broken"
    /\ out' = [out EXCEPT ![Current].state = "final"]
    /\ todo' = todo \ {Current}
    /\ pc' = "pair"
    /\ UNCHANGED <<inputVars, at, table, used, seen, counts, res>>

\* The baseline cannot be read to its end: the merged file is closed all the
\* same, with its header unless Close fails, and then removed.
BaselineBroken ==
    /\ ScanEnded /\ old[Current].end = "broken"
    /\ \E st \in {"open", "partial"} : out' = [out EXCEPT ![Current].state = st]
    /\ pc' = "remove"
    /\ UNCHANGED <<inputVars, todo, at, table, used, seen, counts, res>>

RemoveShard ==
    /\ pc = "remove"
    /\ out' = [out EXCEPT ![Current] = [state |-> "none", recs |-> {}]]
    /\ Fail

\* Remove fails, which is not looked at, or the process is killed before it.
RemoveFails == pc = "remove" /\ Fail /\ UNCHANGED out

\* Count the entries nobody asked for, close the merged file, next pair.
CloseShard ==
    /\ ScanEnded /\ old[Current].end = "eof"
    /\ res' = [res EXCEPT !["unexpected"] = @ + Cardinality(Ips(table) \ used)]
    /\ out' = [out EXCEPT ![Current].state = "final"]
    /\ todo' = todo \ {Current}
    /\ pc' = "pair"
    /\ UNCHANGED <<inputVars, at, table, used, seen, counts>>

\* Close fails: mostly the file stays without a valid header, but the last thing
\* that can fail comes after the header is written.
CloseFails ==
    /\ ScanEnded /\ old[Current].end = "eof"
    /\ \E st \in {"open", "final"} : out' = [out EXCEPT ![Current].state = st]
    /\ Fail

\* Run returns the result.
Finish ==
    /\ pc = "pair" /\ todo = {}
    /\ pc' = "done"
    /\ UNCHANGED <<inputVars, todo, at, table, used, seen, out, counts, res>>

\* The program has ended.
Ended == pc \in {"done", "failed"} /\ UNCHANGED vars

Step ==
    \/ Discover \/ DiscoverFails \/ OpenPair \/ PairRejected \/ OutputFails
    \/ OldDup \/ CopyThrough \/ KeepMissing
    \/ TakePTR \/ TakeNegative \/ KeepGrace \/ TakeTransient
    \/ BaselineBroken \/ RemoveShard \/ RemoveFails \/ CloseShard \/ CloseFails \/ Finish

Next == Step \/ Ended

Spec == Init /\ [][Next]_vars

-----------------------------------------------------------------------------
(* Properties.                                                             *)

\* Every variable has its type.
TypeOK ==
    /\ old \in [Shards -> [end : OldEnds, recs : Seq(Rec)]]
    /\ new \in [Shards -> [kind : NewKinds, recs : Seq(Rec)]]
    /\ allowPartial \in BOOLEAN
    /\ pc \in {"discover", "pair", "scan", "remove", "done", "failed"}
    /\ todo \subseteq Shards /\ (pc \in {"scan", "remove"} => todo # {})
    /\ at \in Nat \ {0}
    /\ table \subseteq Rec /\ used \subseteq Addresses /\ seen \subseteq Addresses
    /\ out \in [Shards -> [state : {"none", "open", "partial", "final"}, recs : SUBSET Rec]]
    /\ counts \in [Statuses -> Nat] /\ res \in [Counters -> Nat]

\* The policy, stated for one address from the first observation of each pass:
\* the newer observation wins unless there is none, the address was no target,
\* or it would erase a PTR by a transient failure.
Decision(o, n, present) ==
    IF o.st \notin Mask \/ ~present \/ (o.st = "has_ptr" /\ n.st \in Transient)
    THEN o ELSE n

\* What the policy gives every address of a baseline shard.
DecisionsOf(s) ==
    LET base  == FirstOccurrences(old[s].recs)
        fresh == FirstOccurrences(new[s].recs)
    IN  [ip \in Ips(base) |->
            Decision(RecordOf(base, ip), RecordOf(fresh, ip), ip \in Ips(fresh))]

\* A merged shard with a valid header has exactly one record per address that
\* could be read from its baseline shard, the one the policy gives, however the
\* run ends; and when that is not the whole baseline shard, the run does not go
\* on, let alone succeed, although the file itself may stay behind (mergeShard).
FinalShardsFollowPolicy ==
    \A s \in Shards : out[s].state \in {"partial", "final"} =>
        /\ out[s].recs = {DecisionsOf(s)[ip] : ip \in DOMAIN DecisionsOf(s)}
        /\ old[s].end # "eof" => pc \in {"remove", "failed"}

\* A run that reports success has published every shard of the baseline, and
\* without --allow-partial every re-crawl shard was there and whole.
SuccessIsComplete ==
    pc = "done" => \A s \in Shards :
        /\ out[s].state = "final"
        /\ ~allowPartial => new[s].kind = "eof"

\* How many baseline addresses of the shards satisfy a predicate on their
\* first record.
BaselineAddresses(S, Good(_)) ==
    Cardinality(UNION {{s} \X {r \in FirstOccurrences(old[s].recs) : Good(r)} : s \in S})

\* The shards whose merged file is complete.
Merged == {s \in Shards : out[s].state = "final"}

\* Between shards the report balances: the merged histogram counts every
\* baseline address once, PTRs only appear as gained and only disappear as
\* authoritatively removed, and every new record loaded was used, a duplicate
\* or unexpected; and the PTR counters are the moves between the two passes
\* (Result, Run).
MergeBalances ==
    pc \in {"pair", "done"} =>
        LET any(r) == TRUE
            ptr(r) == r.st = "has_ptr"
            target(r) == r.st \in Mask
            loaded == Cardinality(UNION {{s} \X DOMAIN new[s].recs : s \in Merged})
            written == Cardinality(UNION {{s} \X out[s].recs : s \in Merged})
        IN  /\ written = BaselineAddresses(Merged, any)
            /\ \A st \in Statuses : counts[st] =
                  Cardinality(UNION {{s} \X {r \in out[s].recs : r.st = st} : s \in Merged})
            /\ counts["has_ptr"] = BaselineAddresses(Merged, ptr)
                                     + res["gained"] - res["removedAuth"]
            /\ BaselineAddresses(Merged, target) - res["missingKept"]
                  + res["newDups"] + res["unexpected"] = loaded
            /\ res["gained"] = Moves(old, new, Merged, Statuses \ {"has_ptr"}, {"has_ptr"})
            /\ res["removedAuth"] = Moves(old, new, Merged, {"has_ptr"}, Authoritative)
            /\ res["graceKept"] = Moves(old, new, Merged, {"has_ptr"}, Transient)
            /\ res["unchanged"] = SameNames(old, new, Merged)
            /\ res["changed"] + res["unchanged"]
                  = Moves(old, new, Merged, {"has_ptr"}, {"has_ptr"})

\* The streaming merge implements the policy.
Policy == INSTANCE MergePolicy WITH
    decided <- [s \in Shards |-> DecisionsOf(s)],
    merged <- [s \in Shards |-> out[s].recs],
    published <- Merged

\* Every step of the merge is a step the policy allows, or none.
FollowsPolicy == Policy!PolicySpec

=============================================================================
