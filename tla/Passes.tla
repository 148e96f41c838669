-------------------------------- MODULE Passes --------------------------------
(***************************************************************************)
(* Two passes over the same shards, as compare and merge read them: the    *)
(* baseline and the re-crawl of the baseline records whose status is in    *)
(* the mask (internal/model, internal/store/reader.go).                    *)
(*                                                                         *)
(* A shard is any sequence of records in file order.  An address may occur *)
(* more than once in it: a resumed crawl stores again what it repeats.     *)
(***************************************************************************)
EXTENDS Integers, Sequences, FiniteSets, Folds

CONSTANTS
    Shards,         \* shard ids of the baseline
    Addresses,      \* the addresses of a shard
    Names,          \* PTR name sets, told apart by hashNames
    Confirmations,  \* the outcomes of the forward confirmation of a PTR
    Statuses,       \* the status codes the passes contain
    Mask,           \* the statuses that were re-crawled
    Inputs          \* what the commands are started on: both passes, --allow-partial

Authoritative == {"nxdomain", "noerror_empty"}

Transient == {"timeout", "servfail", "refused", "net_error", "lame_delegation"}

NoName == "none"

\* An observation; only has_ptr has names and is forward-confirmed.
Rec == [ip : Addresses, st : {"has_ptr"}, ptr : Names, fc : Confirmations]
         \cup [ip : Addresses, st : Statuses \ {"has_ptr"}, ptr : {NoName},
               fc : {"unchecked"}]

\* How reading a baseline shard ends, or that its header is still zero.
OldEnds == {"eof", "broken", "live"}

\* What the re-crawl directory has for a shard: a readable file, one that ends
\* in a partial block, one with an undecodable block, one of another fleet
\* size, none, or one whose header is still zero.
NewKinds == {"eof", "truncated", "corrupt", "foreign", "absent", "live"}

\* The baseline shards that can be on disk.
OldPasses ==
    {p \in [Shards -> [end : OldEnds, recs : Seq(Rec)]] :
        \A s \in Shards : p[s].end = "live" => p[s].recs = <<>>}

\* The re-crawl shards that can be on disk; where reading fails before the
\* first record, or nothing is read, the records do not matter.
NewPasses ==
    {p \in [Shards -> [kind : NewKinds, recs : Seq(Rec)]] :
        \A s \in Shards : p[s].kind \notin {"eof", "truncated"} => p[s].recs = <<>>}

ASSUME PassesAssumption ==
    /\ Shards \subseteq Nat /\ IsFiniteSet(Shards)
    /\ Confirmations \subseteq {"unchecked", "match", "differs"}
    /\ "has_ptr" \in Statuses
    /\ Statuses \subseteq {"has_ptr"} \cup Authoritative \cup Transient
    /\ Mask \subseteq Statuses
    /\ Inputs \subseteq [old : OldPasses, new : NewPasses, allowPartial : BOOLEAN]

\* The sum of a function over a finite set.
SumOver(f, S) == MapThenFoldSet(+, 0, LAMBDA x : f[x], LAMBDA T : CHOOSE x \in T : TRUE, S)

Elems(seq) == {seq[i] : i \in DOMAIN seq}

Ips(recs) == {r.ip : r \in recs}

\* The first record of each address, in file order.
FirstOccurrences(seq) ==
    {seq[i] : i \in {j \in DOMAIN seq : \A k \in 1..(j - 1) : seq[k].ip # seq[j].ip}}

\* The record of an address in a set with one record per address.
RecordOf(recs, ip) == CHOOSE r \in recs : r.ip = ip

-----------------------------------------------------------------------------
(* What two passes say, as a reader would count it by hand.  The reports   *)
(* of compare and merge are published side by side; both are checked       *)
(* against these numbers.                                                  *)

\* The targets of a shard that both passes observed, with both records.
Pairs(base, fresh) ==
    {p \in base \X fresh : p[1].ip = p[2].ip /\ p[1].st \in Mask}

\* How many targets of the shards went from one set of statuses to another.
Moves(old, new, shards, from, to) ==
    Cardinality(UNION {
        {s} \X {p \in Pairs(FirstOccurrences(old[s].recs), FirstOccurrences(new[s].recs)) :
                   p[1].st \in from /\ p[2].st \in to} : s \in shards})

\* How many targets kept a PTR with the same names.
SameNames(old, new, shards) ==
    Cardinality(UNION {
        {s} \X {p \in Pairs(FirstOccurrences(old[s].recs), FirstOccurrences(new[s].recs)) :
                   p[1].st = "has_ptr" /\ p[2].st = "has_ptr" /\ p[1].ptr = p[2].ptr}
        : s \in shards})

\* No address of the shard has two different records.
Unambiguous(recs) == Cardinality(Elems(recs)) = Cardinality(Ips(Elems(recs)))
=============================================================================
