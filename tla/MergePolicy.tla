----------------------------- MODULE MergePolicy -----------------------------
(***************************************************************************)
(* What a merge promises, address by address (the policy internal/merge    *)
(* states before its code): the merged shard grows by one baseline address *)
(* at a time, each with the record the policy gives it, and a shard is     *)
(* published when every baseline address is in it.                         *)
(***************************************************************************)
CONSTANTS
    Shards      \* shard ids of the baseline

VARIABLES
    decided,    \* shard -> baseline address -> the record the policy gives it
    merged,     \* shard -> the set of records merged so far
    published   \* the shards that are complete

policyVars == <<decided, merged, published>>

Baseline(s) == DOMAIN decided[s]

PolicyInit ==
    /\ merged = [s \in Shards |-> {}]
    /\ published = {}

\* An address of the baseline gets its record.
MergeAddress(s, ip) ==
    /\ s \notin published /\ ip \in Baseline(s)
    /\ \A r \in merged[s] : r.ip # ip
    /\ merged' = [merged EXCEPT ![s] = @ \cup {decided[s][ip]}]
    /\ UNCHANGED <<decided, published>>

\* A shard is published when no baseline address is missing.
Publish(s) ==
    /\ s \notin published
    /\ {r.ip : r \in merged[s]} = Baseline(s)
    /\ published' = published \cup {s}
    /\ UNCHANGED <<decided, merged>>

\* A shard that cannot be completed is withdrawn.
Withdraw(s) ==
    /\ s \notin published
    /\ merged' = [merged EXCEPT ![s] = {}]
    /\ UNCHANGED <<decided, published>>

PolicyNext ==
    \E s \in Shards :
        \/ \E ip \in Baseline(s) : MergeAddress(s, ip)
        \/ Publish(s)
        \/ Withdraw(s)

PolicySpec == PolicyInit /\ [][PolicyNext]_policyVars
=============================================================================
