------------------------------- MODULE MCUpdate -------------------------------
(* Update on all small pairs of passes, for TLC.                           *)
EXTENDS Update, TLC

\* A shard with up to n records of a set.
Files(recs, n) == UNION {[1..k -> recs] : k \in 0..n}

OldShards(recs, n) ==
    {f \in [end : OldEnds, recs : Files(recs, n)] : f.end = "live" => f.recs = <<>>}

NewShards(recs, n) ==
    {f \in [kind : NewKinds, recs : Files(recs, n)] :
        f.kind \notin {"eof", "truncated"} => f.recs = <<>>}

\* The records of a pass, over all its shards.
Size(pass) == SumOver([s \in Shards |-> Len(pass[s].recs)], Shards)

\* Without the forward confirmations.
Plain == {r \in Rec : r.fc = "unchecked"}

\* One shard with two addresses that repeat, change and lose their names, and
\* nothing in the other.
OneShard ==
    LET Alone(f, empty) == [s \in Shards |-> IF s = 0 THEN f ELSE empty]
    IN  {[old |-> Alone(o, [end |-> "eof", recs |-> <<>>]),
          new |-> Alone(n, [kind |-> "eof", recs |-> <<>>]),
          allowPartial |-> TRUE] :
            <<o, n>> \in {p \in OldShards(Plain, 3) \X NewShards(Plain, 2) :
                            Len(p[1].recs) + Len(p[2].recs)
                               <= IF p[1].end = "eof" /\ p[2].kind = "eof" THEN 4 ELSE 3}}

\* Passes of a fleet with one address in every shard and k records in all.
OldFleet(recs, k) ==
    {p \in [Shards -> OldShards({r \in recs : r.ip = 1}, k)] : Size(p) = k}
NewFleet(recs, k) ==
    {p \in [Shards -> NewShards({r \in recs : r.ip = 1}, k)] : Size(p) = k}

\* Every kind of shard, with up to two records.
Damaged ==
    UNION {[old : OldFleet(Plain, k[1]), new : NewFleet(Plain, k[2]), allowPartial : BOOLEAN] :
              k \in {k \in (0..2) \X (0..2) : k[1] + k[2] <= 2}}

\* Shards both commands can work on.
Usable(recs, m, n) ==
    [old : {p \in OldFleet(recs, m) : \A s \in Shards : p[s].end # "live"},
     new : {p \in NewFleet(recs, n) :
              \A s \in Shards : p[s].kind \in {"eof", "truncated", "absent"}},
     allowPartial : {TRUE}]

\* Three records, and one in each pass with its forward confirmation.
Fleet == Damaged \cup Usable(Plain, 2, 1) \cup Usable(Plain, 1, 2) \cup Usable(Rec, 1, 1)

SmallInputs == OneShard \cup Fleet

\* Sound for safety runs: names are only compared.
NameSymmetry == Permutations(Names)
=============================================================================
