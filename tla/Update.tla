-------------------------------- MODULE Update --------------------------------
(***************************************************************************)
(* A re-crawl turned into an update: compare reports on the two passes,    *)
(* then merge folds the new one into the baseline (cmd/rdns-crawler,       *)
(* deploy/finish-pass2.sh).  Both commands read the same shards; the       *)
(* numbers of both are published together (tools/gen-blog-stats.js), so    *)
(* they have to tell the same story although compare streams the new       *)
(* shard against the old one and merge the old one against the new.        *)
(*                                                                         *)
(* The commands can also be run by hand: merge runs whatever compare said. *)
(***************************************************************************)
EXTENDS Passes

VARIABLES
    old, new,                                       \* the two passes
    cPc, cTodo, cSeen, cAt, cRes,                   \* compare
    ents, targets, matrix, compared, missing, truncated, headline,
    mPc, mTodo, mSeen, mAt, mRes,                   \* merge
    allowPartial, table, used, out, counts

C == INSTANCE Compare WITH pc <- cPc, todo <- cTodo, seen <- cSeen, at <- cAt, res <- cRes

M == INSTANCE Merge WITH pc <- mPc, todo <- mTodo, seen <- mSeen, at <- mAt, res <- mRes

compareVars == <<cPc, cTodo, cSeen, cAt, cRes, ents, targets, matrix, compared, missing,
                 truncated, headline>>
mergeVars == <<mPc, mTodo, mSeen, mAt, mRes, allowPartial, table, used, out, counts>>
vars == <<old, new, compareVars, mergeVars>>

\* Both commands are given the same directories.
Init ==
    /\ \E i \in Inputs : old = i.old /\ new = i.new /\ allowPartial = i.allowPartial
    /\ C!Begin /\ M!Begin

\* runCompare.
RunCompare == C!Step /\ UNCHANGED mergeVars

\* runMerge.
RunMerge == cPc \in {"done", "failed"} /\ M!Step /\ UNCHANGED compareVars

\* Both commands have ended.
Ended == cPc \in {"done", "failed"} /\ mPc \in {"done", "failed"} /\ UNCHANGED vars

Next == RunCompare \/ RunMerge \/ Ended

Spec == Init /\ [][Next]_vars

-----------------------------------------------------------------------------
(* Properties.                                                             *)

\* Every variable of the two commands has its type; compare's table holds
\* targets only and marks only addresses of the table.
TypeOK == C!TypeOK /\ M!TypeOK

\* compare's report accounts for every record it read (Run, joinNewPass).
CompareBalances == C!CompareBalances

\* compare's report is what one would count by hand when no baseline address
\* has two different records (joinNewPass).
CompareExact == C!CompareExact

\* The percentages of compare's headline are shares of one whole (finalize).
HeadlinePartition == C!HeadlinePartition

\* A shard with a valid header has one record per address read from its baseline
\* shard, the one the policy gives, however the run ends, and nothing goes on
\* after a baseline shard that could not be read to its end (mergeShard).
FinalShardsFollowPolicy == M!FinalShardsFollowPolicy

\* merge's report balances between shards (Result, Run).
MergeBalances == M!MergeBalances

\* A merge that reports success is complete (Run).
SuccessIsComplete == M!SuccessIsComplete

\* Every step of the merge is a step the policy allows, or none.
FollowsPolicy == M!FollowsPolicy

\* The baseline addresses that had a PTR.
BaselinePTRs ==
    SumOver([s \in Shards |-> Cardinality({r \in FirstOccurrences(old[s].recs) :
                                              r.st = "has_ptr"})], Shards)

\* The two reports of an update agree: when both commands succeed and no
\* baseline address has two different records, they give the same gained,
\* unchanged, changed, removed and transient PTRs, count the same superfluous
\* new records and the same targets without a new record, and the net movement
\* compare prints is the change of the number of PTRs in the merged dataset
\* (joinNewPass and RenderText of compare, mergeShard).
ReportsAgree ==
    cPc = "done" /\ mPc = "done" /\ (\A s \in Shards : Unambiguous(old[s].recs)) =>
        /\ \A c \in {"gained", "unchanged", "changed"} : cRes[c] = mRes[c]
        /\ headline.ptrRemoved = mRes["removedAuth"]
        /\ headline.ptrTransient = mRes["graceKept"]
        /\ cRes["newDups"] + cRes["unexpected"] = mRes["newDups"] + mRes["unexpected"]
        /\ missing = {} =>
             SumOver([st \in Statuses |-> matrix[st]["missing"]], Statuses) = mRes["missingKept"]
        /\ counts["has_ptr"] = IF headline.net.sign = "+" THEN BaselinePTRs + headline.net.n
                               ELSE BaselinePTRs - headline.net.n

\* The addresses of a shard with two different records.
Ambiguous(recs) == {r.ip : r \in {q \in Elems(recs) : \E p \in Elems(recs) : p.ip = q.ip /\ p # q}}

\* compare keeps any of the records a baseline address has and merge the first, so
\* the reports may differ, but by no more than there are such addresses: none
\* counts twice in either (dedupSorted, joinNewPass, mergeShard).
DuplicatesBounded ==
    cPc = "done" /\ mPc = "done" =>
        LET bound == Cardinality(UNION {{s} \X Ambiguous(old[s].recs) : s \in Shards})
            close(a, b) == a - b \in -bound..bound
        IN  /\ \A c \in {"gained", "unchanged", "changed"} : close(cRes[c], mRes[c])
            /\ close(headline.ptrRemoved, mRes["removedAuth"])
            /\ close(headline.ptrTransient, mRes["graceKept"])
=============================================================================
