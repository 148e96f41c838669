------------------------------- MODULE Compare -------------------------------
(***************************************************************************)
(* internal/compare: the statistics of a re-crawl.  Per shard pair, the    *)
(* targets of the baseline are loaded into a table with one entry per      *)
(* address, and the new shard streams against it; the counts of all pairs  *)
(* end up in one report.                                                   *)
(***************************************************************************)
EXTENDS Passes

VARIABLES
    old,        \* the baseline shards
    new,        \* the re-crawl shards
    pc,         \* "discover", "pair", "join", "done", "failed"
    todo,       \* shards still to compare
    ents,       \* the deduplicated targets of the current shard
    seen,       \* addresses with the fSeen flag
    at,         \* the next record of the new shard
    targets,    \* Result.Targets
    matrix,     \* old status -> new status or "missing" -> count
    res,        \* the other counters of Result
    compared,   \* ComparedShards
    missing,    \* MissingNewShards
    truncated,  \* TruncatedNewShards
    headline    \* what the report prints: the numbers behind its percentages

inputVars  == <<old, new>>
tableVars  == <<ents, seen, at>>
reportVars == <<targets, matrix, res, headline>>
shardVars  == <<compared, missing, truncated>>
vars == <<inputVars, pc, todo, tableVars, reportVars, shardVars>>

Columns == Statuses \cup {"missing"}

Counters == {"unchanged", "changed", "gained", "gainedChecked", "gainedMatch",
             "bothChecked", "matchBoth", "matchOldOnly", "matchNewOnly", "matchNeither",
             "oldDups", "newDups", "unexpected"}

Begin ==
    /\ pc = "discover" /\ todo = Shards
    /\ ents = {} /\ seen = {} /\ at = 1
    /\ targets = [st \in Statuses |-> 0]
    /\ matrix = [st \in Statuses |-> [c \in Columns |-> 0]]
    /\ res = [c \in Counters |-> 0]
    /\ compared = {} /\ missing = {} /\ truncated = {}
    /\ headline = <<>>

Init == (\E i \in Inputs : old = i.old /\ new = i.new) /\ Begin

-----------------------------------------------------------------------------
Current == CHOOSE s \in todo : \A t \in todo : s <= t

\* Both directories have files, every header can be read, and all files are of
\* one fleet size.
Discoverable ==
    /\ \A s \in Shards : new[s].kind \notin {"live", "foreign"} /\ old[s].end # "live"
    /\ \E s \in Shards : new[s].kind # "absent"

Discover ==
    /\ pc = "discover"
    /\ pc' = IF Discoverable THEN "pair" ELSE "failed"
    /\ UNCHANGED <<inputVars, todo, tableVars, reportVars, shardVars>>

\* A baseline shard without a new one is left out of the comparison.
SkipShard ==
    /\ pc = "pair" /\ todo # {} /\ new[Current].kind = "absent"
    /\ missing' = missing \cup {Current}
    /\ todo' = todo \ {Current}
    /\ UNCHANGED <<inputVars, pc, tableVars, reportVars, compared, truncated>>

\* The targets of a shard, repeated addresses included.
Targets(s) == {r \in Elems(old[s].recs) : r.st \in Mask}
TargetCount(s) == Cardinality({i \in DOMAIN old[s].recs : old[s].recs[i].st \in Mask})

\* One target per address.  slices.SortFunc is not stable, so any of the
\* records of an address may come first and stay.
Deduped(s) ==
    {E \in SUBSET Targets(s) :
        /\ Ips(E) = Ips(Targets(s))
        /\ Cardinality(E) = Cardinality(Ips(E))}

\* loadOldTargets, the sort, dedupSorted and the target counts.
LoadShard ==
    /\ pc = "pair" /\ todo # {} /\ new[Current].kind # "absent"
    /\ old[Current].end = "eof"
    /\ compared' = compared \cup {Current}
    /\ \E E \in Deduped(Current) :
         /\ ents' = E
         /\ res' = [res EXCEPT !["oldDups"] = @ + TargetCount(Current) - Cardinality(E)]
         /\ targets' = [st \in Statuses |->
                           targets[st] + Cardinality({e \in E : e.st = st})]
    /\ seen' = {} /\ at' = 1
    /\ pc' = "join"
    /\ UNCHANGED <<inputVars, todo, matrix, headline, missing, truncated>>

\* A baseline that cannot be read to its end is an error.
LoadFails ==
    /\ pc = "pair" /\ todo # {} /\ new[Current].kind # "absent"
    /\ old[Current].end = "broken"
    /\ pc' = "failed" /\ compared' = compared \cup {Current}
    /\ UNCHANGED <<inputVars, todo, tableVars, reportVars, missing, truncated>>

-----------------------------------------------------------------------------
(* The callback of joinNewPass.                                            *)

Joining == pc = "join" /\ at <= Len(new[Current].recs)

Row == new[Current].recs[at]
Entry == RecordOf(ents, Row.ip)

Ignore(counter) ==
    /\ res' = [res EXCEPT ![counter] = @ + 1]
    /\ at' = at + 1
    /\ UNCHANGED <<inputVars, pc, todo, ents, seen, targets, matrix, headline, shardVars>>

\* The address is not a target.
Unexpected == Joining /\ Row.ip \notin Ips(ents) /\ Ignore("unexpected")

\* The address was joined before.
NewDup == Joining /\ Row.ip \in seen /\ Ignore("newDups")

\* What a pair of records adds to the counters.
Counted(o, n) ==
    LET both == o.st = "has_ptr" /\ n.st = "has_ptr"
        gain == o.st # "has_ptr" /\ n.st = "has_ptr"
        checked == both /\ o.fc # "unchecked" /\ n.fc # "unchecked"
    IN  {c \in Counters :
            \/ c = "unchanged" /\ both /\ o.ptr = n.ptr
            \/ c = "changed" /\ both /\ o.ptr # n.ptr
            \/ c = "gained" /\ gain
            \/ c = "gainedChecked" /\ gain /\ n.fc # "unchecked"
            \/ c = "gainedMatch" /\ gain /\ n.fc = "match"
            \/ c = "bothChecked" /\ checked
            \/ c = "matchBoth" /\ checked /\ o.fc = "match" /\ n.fc = "match"
            \/ c = "matchOldOnly" /\ checked /\ o.fc = "match" /\ n.fc # "match"
            \/ c = "matchNewOnly" /\ checked /\ o.fc # "match" /\ n.fc = "match"
            \/ c = "matchNeither" /\ checked /\ o.fc # "match" /\ n.fc # "match"}

\* Faulty variant: the entry is not marked as seen.
JoinUnmarked ==
    /\ Joining /\ Row.ip \in Ips(ents) /\ Row.ip \notin seen
    /\ matrix' = [matrix EXCEPT ![Entry.st][Row.st] = @ + 1]
    /\ res' = [c \in Counters |-> IF c \in Counted(Entry, Row) THEN res[c] + 1 ELSE res[c]]
    /\ at' = at + 1
    /\ UNCHANGED <<inputVars, pc, todo, ents, seen, targets, headline, shardVars>>

\* The first new record of a target.
Join ==
    /\ Joining /\ Row.ip \in Ips(ents) /\ Row.ip \notin seen
    /\ seen' = seen \cup {Row.ip}
    /\ matrix' = [matrix EXCEPT ![Entry.st][Row.st] = @ + 1]
    /\ res' = [c \in Counters |-> IF c \in Counted(Entry, Row) THEN res[c] + 1 ELSE res[c]]
    /\ at' = at + 1
    /\ UNCHANGED <<inputVars, pc, todo, ents, targets, headline, shardVars>>

JoinEnded == pc = "join" /\ at > Len(new[Current].recs)

\* Faulty variant: the targets nobody observed are only counted when the new
\* file is whole.
EndShardTruncatedEarly ==
    /\ JoinEnded /\ new[Current].kind \in {"eof", "truncated"}
    /\ truncated' = IF new[Current].kind = "truncated" THEN truncated \cup {Current}
                    ELSE truncated
    /\ matrix' = IF new[Current].kind = "truncated" THEN matrix
                 ELSE [st \in Statuses |-> [matrix[st] EXCEPT
                        !["missing"] = @ + Cardinality({e \in ents : e.st = st /\ e.ip \notin seen})]]
    /\ todo' = todo \ {Current}
    /\ pc' = "pair"
    /\ UNCHANGED <<inputVars, tableVars, targets, res, headline, compared, missing>>

\* The new shard is read, or ends in a partial block; what is left of the
\* targets is missing.
EndShard ==
    /\ JoinEnded /\ new[Current].kind \in {"eof", "truncated"}
    /\ truncated' = IF new[Current].kind = "truncated" THEN truncated \cup {Current}
                    ELSE truncated
    /\ matrix' = [st \in Statuses |-> [matrix[st] EXCEPT
                    !["missing"] = @ + Cardinality({e \in ents : e.st = st /\ e.ip \notin seen})]]
    /\ todo' = todo \ {Current}
    /\ pc' = "pair"
    /\ UNCHANGED <<inputVars, tableVars, targets, res, headline, compared, missing>>

\* A block of the new shard cannot be decoded.
JoinFails ==
    /\ JoinEnded /\ new[Current].kind = "corrupt"
    /\ pc' = "failed"
    /\ UNCHANGED <<inputVars, todo, tableVars, reportVars, shardVars>>

-----------------------------------------------------------------------------
(* The report.                                                             *)

\* The sum of some columns of a row of the matrix.
RowSum(st, columns) == SumOver(matrix[st], columns)

\* Faulty variant: the targets without a new record count as crawled.
CrawledWithMissing(st) == RowSum(st, Columns)

\* How many targets of a status the new pass observed.
Crawled(st) == RowSum(st, Columns) - matrix[st]["missing"]

\* Faulty variant: the difference is taken without looking which is larger.
NetMovementAbsolute(gained, lost) ==
    [sign |-> "+", n |-> IF gained >= lost THEN gained - lost ELSE lost - gained]

\* RenderText: the counts are unsigned, so the sign is printed apart.
NetMovement(gained, lost) ==
    IF gained >= lost THEN [sign |-> "+", n |-> gained - lost]
                      ELSE [sign |-> "-", n |-> lost - gained]

\* finalize, then RenderText; a status the passes do not contain has an empty
\* row.
Finalize ==
    /\ pc = "pair" /\ todo = {}
    /\ LET row(st, cols) == IF st \in Statuses THEN RowSum(st, Statuses \cap cols) ELSE 0
           removed == row("has_ptr", Authoritative)
       IN  headline' =
             [ptrTargets   |-> targets["has_ptr"],
              ptrCrawled   |-> Crawled("has_ptr"),
              ptrUnchanged |-> res["unchanged"],
              ptrChanged   |-> res["changed"],
              ptrRemoved   |-> removed,
              ptrTransient |-> row("has_ptr", Transient),
              toCrawled    |-> row("timeout", Statuses),
              toDefinitive |-> row("timeout", {"has_ptr"} \cup Authoritative),
              toStill      |-> row("timeout", {"timeout"}),
              net          |-> NetMovement(res["gained"], removed)]
    /\ pc' = "done"
    /\ UNCHANGED <<inputVars, todo, tableVars, targets, matrix, res, shardVars>>

\* The program has ended.
Ended == pc \in {"done", "failed"} /\ UNCHANGED vars

Step ==
    \/ Discover \/ SkipShard \/ LoadShard \/ LoadFails
    \/ Unexpected \/ NewDup \/ Join \/ EndShard \/ JoinFails
    \/ Finalize

Next == Step \/ Ended

Spec == Init /\ [][Next]_vars

-----------------------------------------------------------------------------
(* Properties.                                                             *)

\* Every variable has its type; the table holds targets only, and marks only
\* addresses of the table.
TypeOK ==
    /\ old \in [Shards -> [end : OldEnds, recs : Seq(Rec)]]
    /\ new \in [Shards -> [kind : NewKinds, recs : Seq(Rec)]]
    /\ pc \in {"discover", "pair", "join", "done", "failed"}
    /\ todo \subseteq Shards /\ (pc = "join" => todo # {})
    /\ ents \subseteq {r \in Rec : r.st \in Mask} /\ seen \subseteq Ips(ents)
    /\ at \in Nat \ {0}
    /\ targets \in [Statuses -> Nat] /\ matrix \in [Statuses -> [Columns -> Nat]]
    /\ res \in [Counters -> Nat]
    /\ compared \subseteq Shards /\ missing \subseteq Shards /\ truncated \subseteq compared

\* Between shards every number is accounted for: each row of the matrix adds up
\* to the targets of its status, duplicates and targets to the records in the
\* mask, and every record of a new shard was joined, a duplicate or unexpected
\* (Run, joinNewPass).
CompareBalances ==
    pc \in {"pair", "done"} =>
        /\ \A st \in Statuses : RowSum(st, Columns) = targets[st]
        /\ SumOver(targets, Statuses) + res["oldDups"]
             = SumOver([s \in compared |-> TargetCount(s)], compared)
        /\ SumOver([st \in Statuses |-> RowSum(st, Statuses)], Statuses)
             + res["newDups"] + res["unexpected"]
             = SumOver([s \in compared |-> Len(new[s].recs)], compared)
        /\ res["bothChecked"] = res["matchBoth"] + res["matchOldOnly"]
                                  + res["matchNewOnly"] + res["matchNeither"]

\* When no address of the baseline has two different records, the report is
\* what one would count by hand from the first record of each address in each
\* pass, the numbers merge also publishes: transitions, PTRs gained and PTRs
\* that kept their names (joinNewPass).
CompareExact ==
    pc = "done" /\ (\A s \in compared : Unambiguous(old[s].recs)) =>
        /\ \A o, n \in Statuses : matrix[o][n] = Moves(old, new, compared, {o}, {n})
        /\ res["gained"] = Moves(old, new, compared, Statuses \ {"has_ptr"}, {"has_ptr"})
        /\ res["unchanged"] = SameNames(old, new, compared)

\* The four fates the headline reports of the targets that had a PTR (same
\* names, other names, removed, transient failure) partition the ones that
\* were crawled, so the percentages add up to 100, and what the timed-out
\* targets are said to be now is at most what was crawled of them (finalize).
HeadlinePartition ==
    pc = "done" =>
        /\ headline.ptrUnchanged + headline.ptrChanged + headline.ptrRemoved
             + headline.ptrTransient = headline.ptrCrawled
        /\ headline.ptrCrawled <= headline.ptrTargets
        /\ headline.toDefinitive + headline.toStill <= headline.toCrawled
=============================================================================
