------------------------------ MODULE UpdateProofs ------------------------------
(***************************************************************************)
(* An update as a whole (Update), for any shards, addresses, names and     *)
(* passes: both commands keep their types, and the report of the merge     *)
(* balances.                                                               *)
(***************************************************************************)
EXTENDS MergeProofs

-----------------------------------------------------------------------------
(* Compare and Update take these definitions from the same module.         *)

LEMMA SameInCompare ==
    /\ C!Rec = Rec /\ C!OldEnds = OldEnds /\ C!NewKinds = NewKinds
    /\ \A seq : C!Elems(seq) = Elems(seq)
    /\ \A recs : C!Ips(recs) = Ips(recs)
    /\ \A recs, ip : C!RecordOf(recs, ip) = RecordOf(recs, ip)
    /\ \A S : C!Cardinality(S) = Cardinality(S)
<1>1. C!Rec = Rec
  BY DEF C!Rec, Rec, C!NoName, NoName
<1>2. C!OldEnds = OldEnds /\ C!NewKinds = NewKinds
  BY DEF C!OldEnds, OldEnds, C!NewKinds, NewKinds
<1>3. \A seq : C!Elems(seq) = Elems(seq)
  BY DEF C!Elems, Elems
<1>4. \A recs : C!Ips(recs) = Ips(recs)
  BY DEF C!Ips, Ips
<1>5. \A recs, ip : C!RecordOf(recs, ip) = RecordOf(recs, ip)
  BY DEF C!RecordOf, RecordOf
<1>6. \A S : C!Cardinality(S) = Cardinality(S)
  BY DEF C!Cardinality, Cardinality
<1> QED BY <1>1, <1>2, <1>3, <1>4, <1>5, <1>6

CompareTypes ==
    /\ old \in [Shards -> [end : OldEnds, recs : Seq(Rec)]]
    /\ new \in [Shards -> [kind : NewKinds, recs : Seq(Rec)]]
    /\ cPc \in {"discover", "pair", "join", "done", "failed"}
    /\ cTodo \subseteq Shards /\ (cPc = "join" => cTodo # {})
    /\ ents \subseteq {r \in Rec : r.st \in Mask} /\ cSeen \subseteq Ips(ents)
    /\ cAt \in Nat \ {0}
    /\ targets \in [Statuses -> Nat] /\ matrix \in [Statuses -> [C!Columns -> Nat]]
    /\ cRes \in [C!Counters -> Nat]
    /\ compared \subseteq Shards /\ missing \subseteq Shards /\ truncated \subseteq compared

LEMMA CompareTypesAre == CompareTypes <=> C!TypeOK
  BY SameInCompare DEF CompareTypes, C!TypeOK

\* The types are not inductive on their own: a shard is only recorded as truncated
\* after it was recorded as compared, and what is counted is finite.
CompareInv ==
    /\ CompareTypes
    /\ cPc = "join" => C!Current \in compared /\ IsFiniteSet(ents)

LEMMA CompareCurrentIs ==
    ASSUME cTodo \subseteq Shards, cTodo # {}
    PROVE  C!Current \in cTodo
<1>1. cTodo \subseteq Nat /\ IsFiniteSet(cTodo)
  BY PassesAssumption, FS_Subset
<1>2. \E s \in cTodo : \A t \in cTodo : s <= t
  BY <1>1, LeastElement
<1> QED BY <1>2 DEF C!Current

\* What dedupSorted leaves of a shard's targets.
LEMMA DedupedIs ==
    ASSUME CompareTypes, NEW s \in Shards, NEW E \in C!Deduped(s)
    PROVE  /\ E \subseteq {r \in Rec : r.st \in Mask}
           /\ IsFiniteSet(E) /\ Cardinality(E) \in Nat
           /\ C!TargetCount(s) \in Nat /\ Cardinality(E) <= C!TargetCount(s)
<1> DEFINE seq == old[s].recs
           D == {i \in DOMAIN seq : seq[i].st \in Mask}
           f == [i \in D |-> seq[i]]
<1>1. seq \in Seq(Rec) /\ Len(seq) \in Nat /\ DOMAIN seq = 1..Len(seq)
  BY DEF CompareTypes
<1>2. C!Targets(s) = {r \in Elems(seq) : r.st \in Mask} /\ C!TargetCount(s) = Cardinality(D)
  BY SameInCompare DEF C!Targets, C!TargetCount
<1>3. C!Targets(s) \subseteq {r \in Rec : r.st \in Mask} /\ E \in SUBSET C!Targets(s)
  BY <1>1, <1>2 DEF Elems, C!Deduped
<1>4. f \in Surjection(D, C!Targets(s))
  BY <1>1, <1>2 DEF Surjection, Elems
<1>5. IsFiniteSet(1..Len(seq)) /\ D \in SUBSET (1..Len(seq))
  BY <1>1, FS_Interval
<1> HIDE DEF D, f
<1>6. IsFiniteSet(D) /\ Cardinality(D) \in Nat
  BY <1>5, FS_Subset, FS_CardinalityType
<1>7. IsFiniteSet(C!Targets(s)) /\ Cardinality(C!Targets(s)) <= Cardinality(D)
  BY <1>4, <1>6, FS_Surjection
<1>8. IsFiniteSet(E) /\ Cardinality(E) <= Cardinality(C!Targets(s))
  BY <1>3, <1>7, FS_Subset
<1>9. Cardinality(E) \in Nat /\ Cardinality(C!Targets(s)) \in Nat
  BY <1>7, <1>8, FS_CardinalityType
<1>10. Cardinality(E) <= Cardinality(D)
  BY <1>6, <1>7, <1>8, <1>9
<1> QED BY <1>2, <1>3, <1>6, <1>8, <1>9, <1>10

LEMMA FinitePart ==
    ASSUME NEW E, IsFiniteSet(E), NEW F, F \subseteq E
    PROVE  Cardinality(F) \in Nat
  BY FS_Subset, FS_CardinalityType

LEMMA InitCompareInv == ASSUME C!Init, MergeTypes PROVE CompareInv
<1>1. /\ old \in [Shards -> [end : OldEnds, recs : Seq(Rec)]]
      /\ new \in [Shards -> [kind : NewKinds, recs : Seq(Rec)]]
  BY DEF MergeTypes
<1>2. targets \in [Statuses -> Nat] /\ matrix \in [Statuses -> [C!Columns -> Nat]]
  BY DEF C!Init, C!Begin
<1>3. cRes \in [C!Counters -> Nat]
  BY DEF C!Init, C!Begin
<1> QED BY <1>1, <1>2, <1>3 DEF C!Init, C!Begin, CompareTypes, CompareInv

LEMMA LoadInv ==
    ASSUME CompareInv, C!LoadShard
    PROVE  CompareInv'
<1>0. PICK s : s = C!Current
  OBVIOUS
<1>1. CompareTypes /\ s \in Shards /\ s \in cTodo
  BY <1>0, CompareCurrentIs DEF C!LoadShard, CompareInv, CompareTypes
<1>2. PICK E \in C!Deduped(s) :
        /\ ents' = E
        /\ cRes' = [cRes EXCEPT !["oldDups"] = @ + C!TargetCount(s) - Cardinality(E)]
        /\ targets' = [st \in Statuses |-> targets[st] + Cardinality({e \in E : e.st = st})]
  BY <1>0, SameInCompare DEF C!LoadShard
<1>3. /\ UNCHANGED <<old, new, cTodo, matrix, missing, truncated>>
      /\ compared' = compared \cup {s} /\ cSeen' = {} /\ cAt' = 1 /\ cPc' = "join"
  BY <1>0 DEF C!LoadShard, C!inputVars
<1>4. /\ E \subseteq {r \in Rec : r.st \in Mask}
      /\ IsFiniteSet(E) /\ Cardinality(E) \in Nat
      /\ C!TargetCount(s) \in Nat /\ Cardinality(E) <= C!TargetCount(s)
  BY <1>1, DedupedIs
<1>5. cRes' \in [C!Counters -> Nat]
  <2>1. cRes \in [C!Counters -> Nat] /\ cRes["oldDups"] \in Nat
    BY <1>1 DEF CompareTypes, C!Counters
  <2>2. cRes["oldDups"] + C!TargetCount(s) - Cardinality(E) \in Nat
    BY <1>4, <2>1
  <2> QED BY <1>2, <2>1, <2>2
<1>6. targets' \in [Statuses -> Nat]
  <2>1. targets \in [Statuses -> Nat]
    BY <1>1 DEF CompareTypes
  <2>2. \A st \in Statuses : Cardinality({e \in E : e.st = st}) \in Nat
    BY <1>4, FinitePart
  <2>3. \A st \in Statuses : targets[st] + Cardinality({e \in E : e.st = st}) \in Nat
    BY <2>1, <2>2
  <2> QED BY <1>2, <2>3
<1>7. C!Current' = s
  BY <1>0, <1>3 DEF C!Current
<1> QED BY <1>1, <1>2, <1>3, <1>4, <1>5, <1>6, <1>7 DEF CompareInv, CompareTypes

\* The record under the scan of the new shard.
LEMMA JoinRow ==
    ASSUME CompareTypes, C!Joining
    PROVE  C!Row \in Rec /\ C!Row.ip \in Addresses /\ C!Row.st \in Statuses
<1>1. C!Current \in Shards /\ cAt \in Nat \ {0} /\ cAt <= Len(new[C!Current].recs)
  BY CompareCurrentIs DEF C!Joining, CompareTypes
<1>2. new[C!Current].recs \in Seq(Rec)
  BY <1>1 DEF CompareTypes
<1>3. new[C!Current].recs[cAt] \in Rec
  BY <1>1, <1>2
<1> QED BY <1>3, RecFields DEF C!Row

LEMMA JoinInv ==
    ASSUME CompareInv, C!Join
    PROVE  CompareInv'
<1>1. CompareTypes /\ C!Joining /\ C!Row.ip \in Ips(ents)
  BY SameInCompare DEF CompareInv, C!Join
<1>2. C!Row.st \in Statuses
  BY <1>1, JoinRow
<1>3. C!Entry \in ents /\ C!Entry.st \in Statuses
  <2>1. C!Entry \in ents
    BY <1>1, SameInCompare DEF C!Entry, RecordOf, Ips
  <2> QED BY <1>1, <2>1, RecFields DEF CompareTypes
<1>4. /\ UNCHANGED <<old, new, cPc, cTodo, ents, targets, compared, missing, truncated>>
      /\ cSeen' = cSeen \cup {C!Row.ip} /\ cAt' = cAt + 1
  BY DEF C!Join, C!inputVars, C!shardVars
<1>5. matrix' \in [Statuses -> [C!Columns -> Nat]]
  <2>1. matrix' = [matrix EXCEPT ![C!Entry.st][C!Row.st] = @ + 1]
    BY DEF C!Join
  <2>2. matrix \in [Statuses -> [C!Columns -> Nat]] /\ C!Row.st \in C!Columns
    BY <1>1, <1>2 DEF CompareTypes, C!Columns
  <2>3. matrix[C!Entry.st] \in [C!Columns -> Nat]
    BY <1>3, <2>2
  <2>4. matrix[C!Entry.st][C!Row.st] + 1 \in Nat
    BY <2>2, <2>3
  <2> DEFINE row == [matrix[C!Entry.st] EXCEPT ![C!Row.st] = matrix[C!Entry.st][C!Row.st] + 1]
  <2>5. row \in [C!Columns -> Nat]
    BY <2>3, <2>4
  <2>6. matrix' = [matrix EXCEPT ![C!Entry.st] = row]
    BY <2>1
  <2> HIDE DEF row
  <2> QED BY <1>3, <2>2, <2>5, <2>6
<1>6. cRes' \in [C!Counters -> Nat]
  <2>1. cRes \in [C!Counters -> Nat]
    BY <1>1 DEF CompareTypes
  <2>2. cRes' = [c \in C!Counters |->
                    IF c \in C!Counted(C!Entry, C!Row) THEN cRes[c] + 1 ELSE cRes[c]]
    BY DEF C!Join
  <2> QED BY <2>1, <2>2
<1>7. C!Current' = C!Current
  BY <1>4 DEF C!Current
<1> QED BY <1>1, <1>4, <1>5, <1>6, <1>7 DEF CompareInv, CompareTypes

LEMMA IgnoreInv ==
    ASSUME CompareInv, NEW c \in {"unexpected", "newDups"}, C!Ignore(c)
    PROVE  CompareInv'
<1>1. /\ UNCHANGED <<old, new, cPc, cTodo, ents, cSeen, targets, matrix, compared, missing, truncated>>
      /\ cAt' = cAt + 1 /\ cRes' = [cRes EXCEPT ![c] = @ + 1]
  BY DEF C!Ignore, C!inputVars, C!shardVars
<1>2. cRes' \in [C!Counters -> Nat]
  <2>1. cRes \in [C!Counters -> Nat] /\ c \in C!Counters
    BY DEF CompareInv, CompareTypes, C!Counters
  <2> QED BY <1>1, <2>1
<1>3. C!Current' = C!Current
  BY <1>1 DEF C!Current
<1> QED BY <1>1, <1>2, <1>3 DEF CompareInv, CompareTypes

LEMMA EndInv ==
    ASSUME CompareInv, C!EndShard
    PROVE  CompareInv'
<1> DEFINE left(st) == Cardinality({e \in ents : e.st = st /\ e.ip \notin cSeen})
<1>1. /\ UNCHANGED <<old, new, ents, cSeen, cAt, targets, cRes, compared, missing>>
      /\ cPc' = "pair" /\ cPc = "join" /\ cTodo' = cTodo \ {C!Current}
      /\ truncated' \subseteq truncated \cup {C!Current}
  BY DEF C!EndShard, C!JoinEnded, C!inputVars, C!tableVars
<1>2. matrix' = [st \in Statuses |-> [matrix[st] EXCEPT !["missing"] = @ + left(st)]]
  BY SameInCompare DEF C!EndShard
<1>3. \A st \in Statuses : left(st) \in Nat
  <2>1. IsFiniteSet(ents)
    BY <1>1 DEF CompareInv
  <2> QED BY <2>1, FinitePart
<1> HIDE DEF left
<1>4. matrix' \in [Statuses -> [C!Columns -> Nat]]
  <2>1. \A st \in Statuses : matrix[st] \in [C!Columns -> Nat] /\ "missing" \in C!Columns
    BY DEF CompareInv, CompareTypes, C!Columns
  <2>2. \A st \in Statuses :
          [matrix[st] EXCEPT !["missing"] = @ + left(st)] \in [C!Columns -> Nat]
    BY <1>3, <2>1
  <2> QED BY <1>2, <2>2
<1>5. truncated' \subseteq compared
  BY <1>1 DEF CompareInv, CompareTypes
<1> QED BY <1>1, <1>4, <1>5 DEF CompareInv, CompareTypes

LEMMA StepCompareInv ==
    ASSUME CompareInv, C!Step
    PROVE  CompareInv'
<1>1. CASE C!Discover \/ C!JoinFails \/ C!Finalize
  <2>1. /\ UNCHANGED <<old, new, cTodo, ents, cSeen, cAt, targets, matrix, cRes, compared,
                       missing, truncated>>
        /\ cPc' \in {"pair", "done", "failed"}
    BY <1>1 DEF C!Discover, C!JoinFails, C!Finalize, C!inputVars, C!tableVars, C!reportVars,
                C!shardVars
  <2> QED BY <2>1 DEF CompareInv, CompareTypes
<1>2. CASE C!SkipShard
  <2>1. C!Current \in Shards
    BY <1>2, CompareCurrentIs DEF C!SkipShard, CompareInv, CompareTypes
  <2>2. /\ UNCHANGED <<old, new, cPc, ents, cSeen, cAt, targets, matrix, cRes, compared, truncated>>
        /\ cPc = "pair" /\ cTodo' = cTodo \ {C!Current} /\ missing' = missing \cup {C!Current}
    BY <1>2 DEF C!SkipShard, C!inputVars, C!tableVars, C!reportVars
  <2> QED BY <2>1, <2>2 DEF CompareInv, CompareTypes
<1>3. CASE C!LoadFails
  <2>1. C!Current \in Shards
    BY <1>3, CompareCurrentIs DEF C!LoadFails, CompareInv, CompareTypes
  <2>2. /\ UNCHANGED <<old, new, cTodo, ents, cSeen, cAt, targets, matrix, cRes, missing, truncated>>
        /\ cPc' = "failed" /\ compared' = compared \cup {C!Current}
    BY <1>3 DEF C!LoadFails, C!inputVars, C!tableVars, C!reportVars
  <2> QED BY <2>1, <2>2 DEF CompareInv, CompareTypes
<1>4. CASE C!Unexpected \/ C!NewDup
  BY <1>4, IgnoreInv DEF C!Unexpected, C!NewDup
<1> QED BY <1>1, <1>2, <1>3, <1>4, LoadInv, JoinInv, EndInv DEF C!Step

LEMMA MergeKeepsInput ==
    ASSUME MergeTypes, M!Step
    PROVE  UNCHANGED <<old, new>>
<1>1. Writes => UNCHANGED <<old, new>>
  BY WritesAre DEF Written
<1> QED
  BY <1>1 DEF M!Step, Writes, M!Discover, M!DiscoverFails, M!OpenPair, M!PairRejected,
     M!OutputFails, M!OldDup, M!BaselineBroken, M!RemoveShard, M!RemoveFails, M!CloseShard,
     M!CloseFails, M!Finish, M!Fail,
     M!inputVars

LEMMA CompareStutters ==
    ASSUME CompareInv, UNCHANGED <<old, new, compareVars>>
    PROVE  CompareInv'
<1>1. /\ UNCHANGED <<old, new, cPc, cTodo, ents, cSeen, cAt, targets, matrix, cRes>>
      /\ UNCHANGED <<compared, missing, truncated>>
  BY DEF compareVars
<1>2. C!Current' = C!Current
  BY <1>1 DEF C!Current
<1> QED BY <1>1, <1>2 DEF CompareInv, CompareTypes

LEMMA NextCompareInv == MergeInv /\ CompareInv /\ [Next]_vars => CompareInv'
<1> SUFFICES ASSUME MergeInv, CompareInv, [Next]_vars
             PROVE  CompareInv'
  OBVIOUS
<1>1. C!Step \/ UNCHANGED <<old, new, compareVars>>
  <2>1. RunMerge => UNCHANGED <<old, new, compareVars>>
    BY MergeKeepsInput DEF RunMerge, MergeInv
  <2> QED BY <2>1 DEF Next, RunCompare, Ended, vars
<1> QED BY <1>1, StepCompareInv, CompareStutters

LEMMA CompareInvariance == Spec => []CompareInv
<1>1. Init => CompareInv
  BY InitCompareInv, InitMergeTypes, InitBoth
<1> QED BY <1>1, NextCompareInv, MergeInvariance, PTL DEF Spec

\* Every variable of the two commands keeps its type: compare's table holds targets only
\* and marks only addresses of the table, no count becomes negative, and only a shard
\* that was compared is reported as truncated (Run of compare and of merge).
THEOREM UpdateTypeCorrect == Spec => []TypeOK
<1>1. MergeInv /\ CompareInv => TypeOK
  BY MergeTypesAre, CompareTypesAre DEF MergeInv, CompareInv, TypeOK
<1> QED BY <1>1, MergeInvariance, CompareInvariance, PTL

-----------------------------------------------------------------------------
(* The report of the merge.  Each counter counts a set of baseline         *)
(* addresses, each with its shard; the scan adds one address at a time.    *)

\* What the two passes say first of an address p[2] of the shard p[1].
OldRec(p)   == RecordOf(Base(p[1]), p[2])
NewRec(p)   == RecordOf(Fresh(p[1]), p[2])
Answered(p) == p[2] \in Ips(Fresh(p[1]))
Target(p)   == p[2] \in Ips(Base(p[1])) /\ OldRec(p).st \in Mask

\* The branch of the callback an address belongs to, by the name of its counter.
Branch(p) ==
    IF ~Target(p) THEN "copied"
    ELSE IF ~Answered(p) THEN "missingKept"
    ELSE IF NewRec(p).st = "has_ptr"
         THEN IF OldRec(p).st # "has_ptr" THEN "gained"
              ELSE IF OldRec(p).ptr = NewRec(p).ptr THEN "unchanged" ELSE "changed"
    ELSE IF OldRec(p).st # "has_ptr" THEN "replaced"
    ELSE IF NewRec(p).st \in Authoritative THEN "removedAuth" ELSE "graceKept"

ScanCounters == {"gained", "removedAuth", "changed", "unchanged", "graceKept", "missingKept"}

\* Sets of pairs of a shard and one of its addresses or positions.
BaseKeys(S) == UNION {{s} \X Ips(Base(s)) : s \in S}
NewKeys(S)  == UNION {{s} \X Ips(Fresh(s)) : s \in S}
NewRows(S)  == UNION {{s} \X DOMAIN new[s].recs : s \in S}

\* The shard under the scan, if there is one, and the addresses the scan has met.
Open == {s \in mTodo : mPc = "scan" /\ s = M!Current}
Scanned == BaseKeys(M!Merged) \cup (Open \X mSeen)

\* A counter of a branch counts the addresses that took it, the histogram the statuses
\* of the records written.
TallyInv ==
    /\ \A c \in ScanCounters : mRes[c] = Cardinality({p \in Scanned : Branch(p) = c})
    /\ \A st \in Statuses :
          counts[st] = Cardinality({p \in Scanned : M!DecisionsOf(p[1])[p[2]].st = st})

\* The new records: an entry of the table is marked as used by the address it answers
\* for; every new record is a duplicate or in the table, and of the entries those that
\* answer for no target are unexpected.
UsedInv ==
    mPc = "scan" =>
        used = {ip \in mSeen : Target(<<M!Current, ip>>) /\ Answered(<<M!Current, ip>>)}

NewInv ==
    /\ mRes["newDups"] + Cardinality(NewKeys(M!Merged \cup Open))
         = Cardinality(NewRows(M!Merged \cup Open))
    /\ mRes["unexpected"] = Cardinality({p \in NewKeys(M!Merged) : ~Target(p)})

\* A failed run prints no report.
BalanceInv == mPc \notin {"remove", "failed"} => TallyInv /\ UsedInv /\ NewInv

LEMMA FamilyFinite ==
    ASSUME NEW S, IsFiniteSet(S), NEW f, \A s \in S : IsFiniteSet(f[s])
    PROVE  IsFiniteSet(UNION {{s} \X f[s] : s \in S})
<1> DEFINE T == {{s} \X f[s] : s \in S}
           g == [s \in S |-> {s} \X f[s]]
<1>1. g \in Surjection(S, T)
  BY DEF Surjection
<1>2. \A s \in S : IsFiniteSet({s} \X f[s])
  BY FS_Singleton, FS_Product
<1>3. \A t \in T : IsFiniteSet(t)
  BY <1>2
<1> HIDE DEF g, T
<1>4. IsFiniteSet(T)
  BY <1>1, FS_Surjection
<1>5. IsFiniteSet(UNION T)
  BY <1>3, <1>4, FS_UNION
<1> QED BY <1>5 DEF T

LEMMA FamilyIs ==
    ASSUME NEW S, NEW f
    PROVE  \A p : p \in UNION {{s} \X f[s] : s \in S} <=> \E s \in S : \E x \in f[s] : p = <<s, x>>
<1>1. \A p, s : p \in {s} \X f[s] <=> \E x \in f[s] : p = <<s, x>>
  OBVIOUS
<1>2. \A p : p \in UNION {{s} \X f[s] : s \in S} <=> \E s \in S : p \in {s} \X f[s]
  OBVIOUS
<1> QED BY <1>1, <1>2

LEMMA KeysAre ==
    ASSUME NEW S
    PROVE  /\ \A p : p \in BaseKeys(S) <=> \E s \in S : \E x \in Ips(Base(s)) : p = <<s, x>>
           /\ \A p : p \in NewKeys(S) <=> \E s \in S : \E x \in Ips(Fresh(s)) : p = <<s, x>>
           /\ \A p : p \in NewRows(S) <=> \E s \in S : \E x \in DOMAIN new[s].recs : p = <<s, x>>
<1>1. \A p : p \in BaseKeys(S) <=> \E s \in S : \E x \in Ips(Base(s)) : p = <<s, x>>
  <2> DEFINE f == [s \in S |-> Ips(Base(s))]
  <2>1. BaseKeys(S) = UNION {{s} \X f[s] : s \in S} /\ \A s \in S : f[s] = Ips(Base(s))
    BY DEF BaseKeys
  <2> HIDE DEF f
  <2> QED BY <2>1, FamilyIs
<1>2. \A p : p \in NewKeys(S) <=> \E s \in S : \E x \in Ips(Fresh(s)) : p = <<s, x>>
  <2> DEFINE f == [s \in S |-> Ips(Fresh(s))]
  <2>1. NewKeys(S) = UNION {{s} \X f[s] : s \in S} /\ \A s \in S : f[s] = Ips(Fresh(s))
    BY DEF NewKeys
  <2> HIDE DEF f
  <2> QED BY <2>1, FamilyIs
<1>3. \A p : p \in NewRows(S) <=> \E s \in S : \E x \in DOMAIN new[s].recs : p = <<s, x>>
  <2> DEFINE f == [s \in S |-> DOMAIN new[s].recs]
  <2>1. NewRows(S) = UNION {{s} \X f[s] : s \in S} /\ \A s \in S : f[s] = DOMAIN new[s].recs
    BY DEF NewRows
  <2> HIDE DEF f
  <2> QED BY <2>1, FamilyIs
<1> QED BY <1>1, <1>2, <1>3

LEMMA KeysFinite ==
    ASSUME MergeTypes, NEW S, S \subseteq Shards
    PROVE  IsFiniteSet(BaseKeys(S)) /\ IsFiniteSet(NewKeys(S)) /\ IsFiniteSet(NewRows(S))
<1>1. IsFiniteSet(S)
  BY PassesAssumption, FS_Subset
<1>2. ASSUME NEW s \in S
      PROVE  /\ IsFiniteSet(Ips(Base(s))) /\ IsFiniteSet(Ips(Fresh(s)))
             /\ IsFiniteSet(DOMAIN new[s].recs)
  <2>1. old[s].recs \in Seq(Rec) /\ new[s].recs \in Seq(Rec)
    BY BaseTypes
  <2>2. DOMAIN new[s].recs = 1..Len(new[s].recs) /\ Len(new[s].recs) \in Nat
    BY <2>1
  <2>3. IsFiniteSet(Base(s)) /\ IsFiniteSet(Fresh(s))
    BY <2>1, FirstsCount DEF Base, Fresh
  <2>4. IsFiniteSet(DOMAIN new[s].recs)
    BY <2>2, FS_Interval
  <2> QED BY <2>3, <2>4, IpsFinite
<1>3. IsFiniteSet(BaseKeys(S))
  <2> DEFINE f == [s \in S |-> Ips(Base(s))]
  <2>1. \A s \in S : IsFiniteSet(f[s])
    BY <1>2
  <2>2. BaseKeys(S) = UNION {{s} \X f[s] : s \in S}
    BY DEF BaseKeys
  <2> HIDE DEF f
  <2> QED BY <1>1, <2>1, <2>2, FamilyFinite
<1>4. IsFiniteSet(NewKeys(S))
  <2> DEFINE f == [s \in S |-> Ips(Fresh(s))]
  <2>1. \A s \in S : IsFiniteSet(f[s])
    BY <1>2
  <2>2. NewKeys(S) = UNION {{s} \X f[s] : s \in S}
    BY DEF NewKeys
  <2> HIDE DEF f
  <2> QED BY <1>1, <2>1, <2>2, FamilyFinite
<1>5. IsFiniteSet(NewRows(S))
  <2> DEFINE f == [s \in S |-> DOMAIN new[s].recs]
  <2>1. \A s \in S : IsFiniteSet(f[s])
    BY <1>2
  <2>2. NewRows(S) = UNION {{s} \X f[s] : s \in S}
    BY DEF NewRows
  <2> HIDE DEF f
  <2> QED BY <1>1, <2>1, <2>2, FamilyFinite
<1> QED BY <1>3, <1>4, <1>5

\* The passes do not change, nor what they say of an address.
LEMMA PassesSame ==
    ASSUME UNCHANGED <<old, new>>
    PROVE  /\ \A s : Base(s)' = Base(s) /\ Fresh(s)' = Fresh(s)
           /\ \A p : Branch(p)' = Branch(p)
           /\ \A p : (Target(p)' <=> Target(p)) /\ (Answered(p)' <=> Answered(p))
           /\ \A S : BaseKeys(S)' = BaseKeys(S) /\ NewKeys(S)' = NewKeys(S)
           /\ \A S : NewRows(S)' = NewRows(S)
<1>1. \A s : Base(s)' = Base(s) /\ Fresh(s)' = Fresh(s)
  BY DEF Base, Fresh
<1>2. \A p : OldRec(p)' = OldRec(p) /\ NewRec(p)' = NewRec(p)
  BY <1>1 DEF OldRec, NewRec
<1>3. \A p : (Target(p)' <=> Target(p)) /\ (Answered(p)' <=> Answered(p))
  BY <1>1, <1>2 DEF Target, Answered
<1>4. \A p : Branch(p)' = Branch(p)
  BY <1>2, <1>3 DEF Branch
<1>5. \A S : BaseKeys(S)' = BaseKeys(S) /\ NewKeys(S)' = NewKeys(S)
  BY <1>1 DEF BaseKeys, NewKeys
<1>6. \A S : NewRows(S)' = NewRows(S)
  BY DEF NewRows
<1> QED BY <1>1, <1>3, <1>4, <1>5, <1>6

\* The branch taken counts the address where it belongs and marks its entry.
LEMMA WritesBranch ==
    ASSUME MergeInv, Writes, NEW p, p = <<M!Current, M!Row.ip>>
    PROVE  /\ Branch(p) \in ScanCounters => mRes' = [mRes EXCEPT ![Branch(p)] = @ + 1]
           /\ Branch(p) \notin ScanCounters => mRes' = mRes
           /\ used' = used \cup {ip \in {M!Row.ip} : Target(p) /\ Answered(p)}
<1> DEFINE s == M!Current
           ip == M!Row.ip
<1>1. MergeTypes /\ M!Scanning /\ ip \notin mSeen
  BY WritesAre DEF MergeInv
<1>2. /\ s \in Shards /\ mAt \in 1..Len(old[s].recs)
      /\ M!Row = old[s].recs[mAt] /\ M!Row.st \in Statuses
      /\ table = Fresh(s) /\ mSeen = Met(old[s].recs, mAt)
  BY <1>1, ScanRow DEF MergeInv, M!Scanning, ScanInv
<1>3. M!Row \in Base(s) /\ ip \in Ips(Base(s))
  BY <1>1, <1>2, BaseTypes, FirstsAre DEF Base, Ips
<1>4. p[1] = s /\ p[2] = ip
  OBVIOUS
<1>5. OldRec(p) = M!Row /\ (Target(p) <=> M!Row.st \in Mask)
  BY <1>1, <1>2, <1>3, <1>4, BaseTypes DEF RecordOf, OldRec, Target
<1>6. NewRec(p) = M!Entry /\ (M!HasEntry <=> Answered(p))
  BY <1>2, <1>4, SameDefinitions DEF M!Entry, M!HasEntry, RecordOf, NewRec, Answered
<1>7. M!HasEntry => M!Entry.st \in Statuses
  BY <1>1, EntryIs, RecFields DEF MergeTypes
<1>8. /\ Statuses \subseteq {"has_ptr"} \cup Authoritative \cup Transient
      /\ M!Authoritative = Authoritative /\ M!Transient = Transient
      /\ "has_ptr" \notin Authoritative \cup Transient /\ Authoritative \cap Transient = {}
  BY PassesAssumption, SameDefinitions DEF Authoritative, Transient
<1> HIDE DEF s, ip
<1>9. CASE M!CopyThrough
  <2>1. Branch(p) = "copied" /\ ~Target(p)
    BY <1>5, <1>9 DEF Branch, M!CopyThrough
  <2>2. mRes' = mRes /\ used' = used
    BY <1>9, WrittenIs DEF M!CopyThrough
  <2> QED BY <2>1, <2>2 DEF ScanCounters
<1>10. CASE M!KeepMissing
  <2>1. Branch(p) = "missingKept" /\ ~Answered(p)
    BY <1>5, <1>6, <1>10 DEF Branch, M!KeepMissing
  <2>2. mRes' = [mRes EXCEPT !["missingKept"] = @ + 1] /\ used' = used
    BY <1>10, WrittenIs DEF M!KeepMissing, M!Counters
  <2> QED BY <2>1, <2>2 DEF ScanCounters
<1>11. CASE M!TakePTR
  <2>1. Branch(p) = IF M!Row.st # "has_ptr" THEN "gained"
                    ELSE IF M!Row.ptr = M!Entry.ptr THEN "unchanged" ELSE "changed"
    BY <1>5, <1>6, <1>11 DEF Branch, M!TakePTR, M!Paired
  <2>2. Target(p) /\ Answered(p)
    BY <1>5, <1>6, <1>11 DEF M!TakePTR, M!Paired
  <2>3. Branch(p) \in M!Counters /\ Branch(p) \in ScanCounters
    BY <2>1 DEF M!Counters, ScanCounters
  <2>4. M!Write(M!Entry, Branch(p)) /\ used' = used \cup {M!Row.ip}
    BY <1>11, <2>1 DEF M!TakePTR
  <2>5. mRes' = [mRes EXCEPT ![Branch(p)] = @ + 1]
    BY <2>3, <2>4, WrittenIs
  <2> QED BY <2>2, <2>3, <2>4, <2>5
<1>12. CASE M!TakeNegative
  <2>1. Target(p) /\ Answered(p) /\ used' = used \cup {M!Row.ip}
    BY <1>5, <1>6, <1>12 DEF M!TakeNegative, M!Paired
  <2>2. CASE M!Row.st = "has_ptr"
    <3>1. Branch(p) = "removedAuth"
      BY <1>5, <1>6, <1>8, <1>12, <2>1, <2>2 DEF Branch, M!TakeNegative
    <3>2. mRes' = [mRes EXCEPT !["removedAuth"] = @ + 1]
      BY <1>12, <2>2, WrittenIs DEF M!TakeNegative, M!Counters
    <3> QED BY <2>1, <3>1, <3>2 DEF ScanCounters
  <2>3. CASE M!Row.st # "has_ptr"
    <3>1. Branch(p) = "replaced"
      BY <1>5, <1>6, <1>8, <1>12, <2>1, <2>3 DEF Branch, M!TakeNegative
    <3>2. mRes' = mRes
      BY <1>12, <2>3, WrittenIs DEF M!TakeNegative
    <3> QED BY <2>1, <3>1, <3>2 DEF ScanCounters
  <2> QED BY <2>2, <2>3
<1>13. CASE M!KeepGrace
  <2>1. Target(p) /\ Answered(p) /\ used' = used \cup {M!Row.ip}
    BY <1>5, <1>6, <1>13 DEF M!KeepGrace, M!Paired
  <2>2. Branch(p) = "graceKept"
    BY <1>5, <1>6, <1>8, <1>13, <2>1 DEF Branch, M!KeepGrace
  <2>3. mRes' = [mRes EXCEPT !["graceKept"] = @ + 1]
    BY <1>13, WrittenIs DEF M!KeepGrace, M!Counters
  <2> QED BY <2>1, <2>2, <2>3 DEF ScanCounters
<1>14. CASE M!TakeTransient
  <2>1. Target(p) /\ Answered(p) /\ used' = used \cup {M!Row.ip}
    BY <1>5, <1>6, <1>14 DEF M!TakeTransient, M!Paired
  <2>2. Branch(p) = "replaced"
    BY <1>5, <1>6, <1>8, <1>14, <2>1 DEF Branch, M!TakeTransient
  <2>3. mRes' = mRes
    BY <1>14, WrittenIs DEF M!TakeTransient
  <2> QED BY <2>1, <2>2, <2>3 DEF ScanCounters
<1> QED BY <1>9, <1>10, <1>11, <1>12, <1>13, <1>14 DEF Writes

LEMMA DisjointCount ==
    ASSUME NEW A, IsFiniteSet(A), NEW B, IsFiniteSet(B), A \cap B = {}
    PROVE  /\ IsFiniteSet(A \cup B) /\ Cardinality(A) \in Nat /\ Cardinality(B) \in Nat
           /\ Cardinality(A \cup B) = Cardinality(A) + Cardinality(B)
<1>1. Cardinality(A) \in Nat /\ Cardinality(B) \in Nat /\ Cardinality(A \cap B) = 0
  BY FS_CardinalityType, FS_EmptySet
<1>2. /\ IsFiniteSet(A \cup B)
      /\ Cardinality(A \cup B) = Cardinality(A) + Cardinality(B) - Cardinality(A \cap B)
  BY FS_Union
<1> QED BY <1>1, <1>2

LEMMA SliceCount ==
    ASSUME NEW s, NEW X, IsFiniteSet(X)
    PROVE  IsFiniteSet({s} \X X) /\ Cardinality({s} \X X) = Cardinality(X)
<1>1. IsFiniteSet({s}) /\ Cardinality({s}) = 1 /\ Cardinality(X) \in Nat
  BY FS_Singleton, FS_CardinalityType
<1>2. IsFiniteSet({s} \X X) /\ Cardinality({s} \X X) = Cardinality({s}) * Cardinality(X)
  BY <1>1, FS_Product
<1> QED BY <1>1, <1>2

\* One more shard.
LEMMA KeysGrow ==
    ASSUME NEW S, NEW s, s \notin S
    PROVE  /\ BaseKeys(S \cup {s}) = BaseKeys(S) \cup ({s} \X Ips(Base(s)))
           /\ NewKeys(S \cup {s}) = NewKeys(S) \cup ({s} \X Ips(Fresh(s)))
           /\ NewKeys(S) \cap ({s} \X Ips(Fresh(s))) = {}
           /\ NewRows(S \cup {s}) = NewRows(S) \cup ({s} \X DOMAIN new[s].recs)
           /\ NewRows(S) \cap ({s} \X DOMAIN new[s].recs) = {}
<1>1. BaseKeys(S \cup {s}) = BaseKeys(S) \cup ({s} \X Ips(Base(s)))
  BY Zenon DEF BaseKeys
<1>2. NewKeys(S \cup {s}) = NewKeys(S) \cup ({s} \X Ips(Fresh(s)))
  BY Zenon DEF NewKeys
<1>3. NewRows(S \cup {s}) = NewRows(S) \cup ({s} \X DOMAIN new[s].recs)
  BY Zenon DEF NewRows
<1>4. NewKeys(S) \cap ({s} \X Ips(Fresh(s))) = {}
  BY KeysAre
<1>5. NewRows(S) \cap ({s} \X DOMAIN new[s].recs) = {}
  BY KeysAre
<1> QED BY <1>1, <1>2, <1>3, <1>4, <1>5

LEMMA MergedIs ==
    ASSUME MergeInv
    PROVE  mPc # "failed" => M!Merged = Shards \ mTodo
  BY DEF MergeInv, PublishedInv, M!Merged

LEMMA MergedStays ==
    ASSUME MergeInv, MergeInv', mPc # "failed", mPc' # "failed"
    PROVE  M!Merged = Shards \ mTodo /\ (M!Merged = Shards \ mTodo)'
<1>1. (mPc # "failed" => M!Merged = Shards \ mTodo)'
  BY MergedIs, PTL
<1> QED BY <1>1, MergedIs

LEMMA OpenIs ==
    ASSUME MergeInv
    PROVE  /\ mPc = "scan" => Open = {M!Current} /\ M!Current \in Shards \ M!Merged
           /\ mPc # "scan" => Open = {}
<1>1. mPc = "scan" => M!Current \in mTodo /\ M!Current \in Shards
  BY CurrentInv DEF MergeInv, MergeTypes
<1> QED BY <1>1, MergedIs DEF Open

LEMMA SeenInBase ==
    ASSUME MergeInv, mPc = "scan"
    PROVE  mSeen \subseteq Ips(Base(M!Current))
<1>1. MergeTypes /\ M!Current \in Shards /\ ScanInv(M!Current)
  BY CurrentInv DEF MergeInv, MergeTypes
<1> QED BY <1>1, MetInBase DEF ScanInv, MergeTypes

LEMMA ScannedIs ==
    ASSUME MergeInv
    PROVE  /\ mPc # "scan" => Scanned = BaseKeys(M!Merged)
           /\ mPc = "scan" => Scanned = BaseKeys(M!Merged) \cup ({M!Current} \X mSeen)
           /\ Scanned \subseteq BaseKeys(Shards) /\ IsFiniteSet(Scanned)
<1>1. /\ mPc # "scan" => Scanned = BaseKeys(M!Merged)
      /\ mPc = "scan" => Scanned = BaseKeys(M!Merged) \cup ({M!Current} \X mSeen)
  BY OpenIs DEF Scanned
<1>2. BaseKeys(M!Merged) \subseteq BaseKeys(Shards)
  BY KeysAre DEF M!Merged
<1>3. mPc = "scan" => ({M!Current} \X mSeen) \subseteq BaseKeys(Shards)
  BY KeysAre, OpenIs, SeenInBase
<1>4. Scanned \subseteq BaseKeys(Shards)
  BY <1>1, <1>2, <1>3
<1>5. IsFiniteSet(BaseKeys(Shards))
  BY KeysFinite DEF MergeInv
<1> QED BY <1>1, <1>4, <1>5, FS_Subset

-----------------------------------------------------------------------------
(* The counters of the branches and the histogram.                         *)

LEMMA TallySame ==
    ASSUME TallyInv, UNCHANGED <<old, new, allowPartial, counts>>, Scanned' = Scanned,
           \A c \in ScanCounters : mRes'[c] = mRes[c]
    PROVE  TallyInv'
<1>1. PICK S : S = Scanned /\ S = Scanned'
  OBVIOUS
<1>2. ASSUME NEW c \in ScanCounters
      PROVE  mRes'[c] = Cardinality({p \in Scanned : Branch(p) = c}')
  <2>1. {p \in Scanned : Branch(p) = c}' = {p \in Scanned : Branch(p) = c}
    BY PassesSame
  <2> QED BY <2>1 DEF TallyInv
<1>3. ASSUME NEW st \in Statuses
      PROVE  counts'[st] = Cardinality({p \in Scanned : M!DecisionsOf(p[1])[p[2]].st = st}')
  <2>1. {p \in Scanned : M!DecisionsOf(p[1])[p[2]].st = st}'
            = {p \in Scanned : M!DecisionsOf(p[1])[p[2]].st = st}
    BY DecisionsSame
  <2> QED BY <2>1 DEF TallyInv
<1> QED BY <1>2, <1>3 DEF TallyInv

\* A branch that writes adds its address to the ones scanned.
LEMMA ScannedGrows ==
    ASSUME MergeInv, MergeInv', Writes, NEW x, x = <<M!Current, M!Row.ip>>
    PROVE  x \notin Scanned /\ Scanned' = Scanned \cup {x}
<1>0. PICK s : s = M!Current
  OBVIOUS
<1>1. M!Scanning /\ mPc = "scan" /\ M!Row.ip \notin mSeen
  BY WritesAre DEF MergeInv, M!Scanning
<1>2. /\ UNCHANGED <<old, new, allowPartial, mPc, mTodo>> /\ mSeen' = mSeen \cup {M!Row.ip}
  BY WritesDecision DEF Written
<1>3. s = M!Current' /\ M!Merged' = M!Merged /\ s \notin M!Merged
  <2>1. M!Merged = Shards \ mTodo /\ (M!Merged = Shards \ mTodo)'
    BY <1>1, <1>2, MergedStays
  <2> QED BY <1>0, <1>1, <1>2, <2>1, OpenIs DEF M!Current
<1>4. Scanned = BaseKeys(M!Merged) \cup ({s} \X mSeen)
  BY <1>0, <1>1, ScannedIs
<1>5. Scanned' = BaseKeys(M!Merged) \cup ({s} \X mSeen')
  <2>1. (mPc = "scan" => Scanned = BaseKeys(M!Merged) \cup ({M!Current} \X mSeen))'
    BY ScannedIs, PTL
  <2>2. BaseKeys(M!Merged)' = BaseKeys(M!Merged)
    BY <1>2, <1>3, PassesSame DEF BaseKeys
  <2> QED BY <1>1, <1>2, <1>3, <2>1, <2>2
<1>6. x \notin BaseKeys(M!Merged) /\ x \notin {s} \X mSeen
  BY <1>0, <1>1, <1>3, KeysAre
<1> QED BY <1>0, <1>2, <1>4, <1>5, <1>6

LEMMA TallyAdds ==
    ASSUME MergeInv, MergeInv', TallyInv, Writes
    PROVE  TallyInv'
<1>0. PICK x : x = <<M!Current, M!Row.ip>>
  OBVIOUS
<1>1. /\ x \notin Scanned /\ Scanned' = Scanned \cup {x} /\ IsFiniteSet(Scanned)
      /\ UNCHANGED <<old, new, allowPartial>> /\ MergeTypes
  BY <1>0, ScannedGrows, ScannedIs, WritesDecision DEF Written, MergeInv
<1>2. ASSUME NEW A, A \subseteq Scanned
      PROVE  Cardinality(A \cup {x}) = Cardinality(A) + 1
  BY <1>1, <1>2, FS_AddElement, FS_Subset
<1>3. ASSUME NEW c \in ScanCounters
      PROVE  mRes'[c] = Cardinality({p \in Scanned : Branch(p) = c}')
  <2> DEFINE A == {p \in Scanned : Branch(p) = c}
  <2>1. {p \in Scanned : Branch(p) = c}' = IF Branch(x) = c THEN A \cup {x} ELSE A
    BY <1>1, PassesSame
  <2>2. mRes'[c] = IF Branch(x) = c THEN mRes[c] + 1 ELSE mRes[c]
    <3>1. mRes \in [M!Counters -> Nat] /\ ScanCounters \subseteq M!Counters
      BY <1>1 DEF MergeTypes, M!Counters, ScanCounters
    <3>2. /\ Branch(x) \in ScanCounters => mRes' = [mRes EXCEPT ![Branch(x)] = @ + 1]
          /\ Branch(x) \notin ScanCounters => mRes' = mRes
      BY <1>0, WritesBranch
    <3> QED BY <3>1, <3>2
  <2>3. mRes[c] = Cardinality(A) /\ A \subseteq Scanned
    BY DEF TallyInv
  <2> HIDE DEF A
  <2> QED BY <1>2, <2>1, <2>2, <2>3
<1>4. ASSUME NEW st \in Statuses
      PROVE  counts'[st] = Cardinality({p \in Scanned : M!DecisionsOf(p[1])[p[2]].st = st}')
  <2> DEFINE A == {p \in Scanned : M!DecisionsOf(p[1])[p[2]].st = st}
             rec == M!DecisionsOf(x[1])[x[2]]
  <2>1. {p \in Scanned : M!DecisionsOf(p[1])[p[2]].st = st}' = IF rec.st = st THEN A \cup {x} ELSE A
    BY <1>1, DecisionsSame
  <2>2. counts'[st] = IF rec.st = st THEN counts[st] + 1 ELSE counts[st]
    <3>1. counts' = [counts EXCEPT ![rec.st] = @ + 1]
      BY <1>0, WritesDecision DEF Written
    <3> QED BY <1>1, <3>1 DEF MergeTypes
  <2>3. counts[st] = Cardinality(A) /\ A \subseteq Scanned
    BY DEF TallyInv
  <2> HIDE DEF A, rec
  <2> QED BY <1>2, <2>1, <2>2, <2>3
<1> QED BY <1>3, <1>4 DEF TallyInv

-----------------------------------------------------------------------------
(* The new records.                                                        *)

LEMMA NewSame ==
    ASSUME NewInv, UNCHANGED <<old, new>>, M!Merged' = M!Merged, Open' = Open,
           mRes'["newDups"] = mRes["newDups"], mRes'["unexpected"] = mRes["unexpected"]
    PROVE  NewInv'
<1>1. NewKeys(M!Merged \cup Open)' = NewKeys(M!Merged \cup Open)
  BY PassesSame DEF NewKeys
<1>2. NewRows(M!Merged \cup Open)' = NewRows(M!Merged \cup Open)
  BY DEF NewRows
<1>3. NewKeys(M!Merged)' = NewKeys(M!Merged)
  BY PassesSame DEF NewKeys
<1>4. {p \in NewKeys(M!Merged) : ~Target(p)}' = {p \in NewKeys(M!Merged) : ~Target(p)}
  BY <1>3, PassesSame
<1> QED BY <1>1, <1>2, <1>4 DEF NewInv

\* A step that touches neither the shards nor the table.
LEMMA QuietBalance ==
    ASSUME MergeInv, MergeInv', BalanceInv, mPc \notin {"remove", "failed"}, mPc' # "failed",
           mPc' = "scan" <=> mPc = "scan",
           UNCHANGED <<old, new, allowPartial, mTodo, mSeen, used, out, counts>>,
           mRes' = mRes \/ mRes' = [mRes EXCEPT !["oldDups"] = @ + 1]
    PROVE  BalanceInv'
<1>1. \A c \in ScanCounters \cup {"newDups", "unexpected"} : mRes'[c] = mRes[c]
  <2>1. mRes \in [M!Counters -> Nat]
    BY DEF MergeInv, MergeTypes
  <2> QED BY <2>1 DEF M!Counters, ScanCounters
<1>2. M!Merged' = M!Merged /\ M!Current' = M!Current
  BY DEF M!Merged, M!Current
<1>3. Open' = Open
  BY <1>2 DEF Open
<1>4. Scanned' = Scanned
  <2>1. BaseKeys(M!Merged)' = BaseKeys(M!Merged)
    BY <1>2, PassesSame DEF BaseKeys
  <2> QED BY <1>3, <2>1 DEF Scanned
<1>5. TallyInv'
  BY <1>1, <1>4, TallySame DEF BalanceInv
<1>6. UsedInv'
  BY <1>2, PassesSame DEF BalanceInv, UsedInv
<1>7. NewInv'
  BY <1>1, <1>2, <1>3, NewSame DEF BalanceInv
<1> QED BY <1>5, <1>6, <1>7 DEF BalanceInv

LEMMA WriteBalance ==
    ASSUME MergeInv, MergeInv', BalanceInv, Writes
    PROVE  BalanceInv'
<1>0. PICK s, x : s = M!Current /\ x = <<s, M!Row.ip>>
  OBVIOUS
<1>1. M!Scanning /\ mPc = "scan"
  BY WritesAre DEF MergeInv, M!Scanning
<1>2. /\ UNCHANGED <<old, new, allowPartial, mPc, mTodo>> /\ mSeen' = mSeen \cup {M!Row.ip}
  BY WritesDecision DEF Written
<1>3. M!Merged = Shards \ mTodo /\ (M!Merged = Shards \ mTodo)'
  BY <1>1, <1>2, MergedStays
<1>4. s = M!Current' /\ M!Merged' = M!Merged /\ Open' = Open
  BY <1>0, <1>2, <1>3 DEF M!Current, Open
<1>5. TallyInv'
  BY <1>1, TallyAdds DEF BalanceInv
<1>6. UsedInv'
  <2>1. used = {ip \in mSeen : Target(<<s, ip>>) /\ Answered(<<s, ip>>)}
    BY <1>0, <1>1 DEF BalanceInv, UsedInv
  <2>2. used' = used \cup {ip \in {M!Row.ip} : Target(x) /\ Answered(x)}
    BY <1>0, WritesBranch
  <2>3. used' = {ip \in mSeen' : Target(<<s, ip>>) /\ Answered(<<s, ip>>)}
    BY <1>0, <1>2, <2>1, <2>2
  <2> QED BY <1>2, <1>4, <2>3, PassesSame DEF UsedInv
<1>7. mRes'["newDups"] = mRes["newDups"] /\ mRes'["unexpected"] = mRes["unexpected"]
  <2>1. mRes \in [M!Counters -> Nat]
    BY DEF MergeInv, MergeTypes
  <2>2. /\ Branch(x) \in ScanCounters => mRes' = [mRes EXCEPT ![Branch(x)] = @ + 1]
        /\ Branch(x) \notin ScanCounters => mRes' = mRes
    BY <1>0, WritesBranch
  <2> QED BY <2>1, <2>2 DEF M!Counters, ScanCounters
<1>8. NewInv'
  BY <1>1, <1>2, <1>4, <1>7, NewSame DEF BalanceInv
<1> QED BY <1>5, <1>6, <1>8 DEF BalanceInv

\* One entry per address of the new shard.
LEMMA TableCount ==
    ASSUME MergeTypes, NEW s \in Shards
    PROVE  /\ Cardinality({s} \X Ips(Fresh(s))) = Cardinality(Fresh(s))
           /\ Cardinality({s} \X DOMAIN new[s].recs) = Len(new[s].recs)
           /\ IsFiniteSet({s} \X Ips(Fresh(s))) /\ IsFiniteSet({s} \X DOMAIN new[s].recs)
           /\ Len(new[s].recs) \in Nat /\ Cardinality(Fresh(s)) \in Nat
           /\ IsFiniteSet(Ips(Fresh(s)))
<1>1. /\ new[s].recs \in Seq(Rec) /\ Fresh(s) \subseteq Rec
      /\ \A r, q \in Fresh(s) : r.ip = q.ip => r = q
  BY BaseTypes
<1>2. IsFiniteSet(Fresh(s)) /\ Cardinality(Fresh(s)) \in Nat
  BY <1>1, FirstsCount DEF Fresh
<1>3. Cardinality(Ips(Fresh(s))) = Cardinality(Fresh(s)) /\ IsFiniteSet(Ips(Fresh(s)))
  <2> DEFINE f == [r \in Fresh(s) |-> r.ip]
  <2>1. f \in Surjection(Fresh(s), Ips(Fresh(s)))
    BY DEF Surjection, Ips
  <2>2. f \in [Fresh(s) -> Ips(Fresh(s))]
    BY <2>1 DEF Surjection
  <2>3. \A a, b \in Fresh(s) : f[a] = f[b] => a = b
    BY <1>1
  <2> HIDE DEF f
  <2>4. f \in Injection(Fresh(s), Ips(Fresh(s)))
    BY <2>2, <2>3 DEF Injection, IsInjective
  <2> QED BY <1>2, <2>1, <2>4, FS_Surjection
<1>4. /\ DOMAIN new[s].recs = 1..Len(new[s].recs) /\ Len(new[s].recs) \in Nat
  BY <1>1
<1>5. IsFiniteSet(DOMAIN new[s].recs) /\ Cardinality(DOMAIN new[s].recs) = Len(new[s].recs)
  BY <1>4, FS_Interval
<1> QED BY <1>2, <1>3, <1>4, <1>5, SliceCount

LEMMA OpenBalance ==
    ASSUME MergeInv, MergeInv', BalanceInv, M!OpenPair
    PROVE  BalanceInv'
<1>0. PICK s : s = M!Current
  OBVIOUS
<1> DEFINE k == Len(new[s].recs) - Cardinality(Fresh(s))
<1>1. /\ UNCHANGED <<old, new, allowPartial, mTodo, counts>> /\ mTodo # {}
      /\ mPc = "pair" /\ mPc' = "scan" /\ mSeen' = {} /\ used' = {}
      /\ mRes' = [mRes EXCEPT !["newDups"] = @ + Len(new[s].recs) - Cardinality(Fresh(s))]
  BY <1>0, SameDefinitions DEF M!OpenPair, M!inputVars, Fresh
<1>2. M!Merged = Shards \ mTodo /\ (M!Merged = Shards \ mTodo)' /\ MergeTypes
  BY <1>1, MergedStays DEF MergeInv
<1>3. s \in Shards /\ s \in mTodo /\ s \notin M!Merged
  BY <1>0, <1>1, <1>2, CurrentInv
<1>4. M!Merged' = M!Merged /\ Open = {} /\ Open' = {s}
  BY <1>0, <1>1, <1>2, <1>3 DEF Open, M!Current
<1>5. /\ \A c \in ScanCounters \cup {"unexpected"} : mRes'[c] = mRes[c]
      /\ mRes'["newDups"] = mRes["newDups"] + Len(new[s].recs) - Cardinality(Fresh(s))
      /\ mRes["newDups"] \in Nat
  <2>1. mRes \in [M!Counters -> Nat]
    BY <1>2 DEF MergeTypes
  <2> QED BY <1>1, <2>1 DEF M!Counters, ScanCounters
<1>6. TallyInv'
  <2>1. BaseKeys(M!Merged)' = BaseKeys(M!Merged)
    BY <1>1, <1>4, PassesSame DEF BaseKeys
  <2>2. Scanned' = Scanned
    BY <1>1, <1>4, <2>1 DEF Scanned
  <2> QED BY <1>1, <1>5, <2>2, TallySame DEF BalanceInv
<1>7. UsedInv'
  BY <1>1 DEF UsedInv
<1>8. /\ NewKeys(M!Merged \cup Open)' = NewKeys(M!Merged) \cup ({s} \X Ips(Fresh(s)))
      /\ NewRows(M!Merged \cup Open)' = NewRows(M!Merged) \cup ({s} \X DOMAIN new[s].recs)
  <2>1. NewKeys(M!Merged \cup Open)' = NewKeys(M!Merged \cup {s})
    BY <1>1, <1>4, PassesSame DEF NewKeys
  <2>2. NewRows(M!Merged \cup Open)' = NewRows(M!Merged \cup {s})
    BY <1>1, <1>4 DEF NewRows
  <2> QED BY <1>3, <2>1, <2>2, KeysGrow
<1>9. /\ NewKeys(M!Merged) \cap ({s} \X Ips(Fresh(s))) = {}
      /\ NewRows(M!Merged) \cap ({s} \X DOMAIN new[s].recs) = {}
  BY <1>3, KeysGrow
<1>10. IsFiniteSet(NewKeys(M!Merged)) /\ IsFiniteSet(NewRows(M!Merged))
  BY <1>2, KeysFinite
<1>11. /\ Cardinality(NewKeys(M!Merged \cup Open)') = Cardinality(NewKeys(M!Merged)) + Cardinality(Fresh(s))
       /\ Cardinality(NewRows(M!Merged \cup Open)') = Cardinality(NewRows(M!Merged)) + Len(new[s].recs)
       /\ Cardinality(NewKeys(M!Merged)) \in Nat /\ Cardinality(NewRows(M!Merged)) \in Nat
  <2>1. /\ Cardinality({s} \X Ips(Fresh(s))) = Cardinality(Fresh(s))
        /\ Cardinality({s} \X DOMAIN new[s].recs) = Len(new[s].recs)
        /\ IsFiniteSet({s} \X Ips(Fresh(s))) /\ IsFiniteSet({s} \X DOMAIN new[s].recs)
    BY <1>2, <1>3, TableCount
  <2>2. /\ Cardinality(NewKeys(M!Merged) \cup ({s} \X Ips(Fresh(s))))
              = Cardinality(NewKeys(M!Merged)) + Cardinality({s} \X Ips(Fresh(s)))
        /\ Cardinality(NewKeys(M!Merged)) \in Nat
    BY <1>9, <1>10, <2>1, DisjointCount
  <2>3. /\ Cardinality(NewRows(M!Merged) \cup ({s} \X DOMAIN new[s].recs))
              = Cardinality(NewRows(M!Merged)) + Cardinality({s} \X DOMAIN new[s].recs)
        /\ Cardinality(NewRows(M!Merged)) \in Nat
    BY <1>9, <1>10, <2>1, DisjointCount
  <2> QED BY <1>8, <2>1, <2>2, <2>3
<1>12. mRes["newDups"] + Cardinality(NewKeys(M!Merged)) = Cardinality(NewRows(M!Merged))
  <2>1. M!Merged \cup Open = M!Merged
    BY <1>4
  <2> QED BY <1>1, <2>1 DEF BalanceInv, NewInv
<1>13. Len(new[s].recs) \in Nat /\ Cardinality(Fresh(s)) \in Nat
  BY <1>2, <1>3, TableCount
<1>14. mRes'["newDups"] + Cardinality(NewKeys(M!Merged \cup Open)')
          = Cardinality(NewRows(M!Merged \cup Open)')
  BY <1>5, <1>11, <1>12, <1>13
<1>15. mRes'["unexpected"] = Cardinality({p \in NewKeys(M!Merged) : ~Target(p)}')
  <2>1. NewKeys(M!Merged)' = NewKeys(M!Merged)
    BY <1>1, <1>4, PassesSame DEF NewKeys
  <2>2. {p \in NewKeys(M!Merged) : ~Target(p)}' = {p \in NewKeys(M!Merged) : ~Target(p)}
    BY <1>1, <2>1, PassesSame
  <2> QED BY <1>1, <1>5, <2>2 DEF BalanceInv, NewInv
<1>16. NewInv'
  BY <1>14, <1>15 DEF NewInv
<1> QED BY <1>6, <1>7, <1>16 DEF BalanceInv

LEMMA CloseBalance ==
    ASSUME MergeInv, MergeInv', BalanceInv, M!CloseShard
    PROVE  BalanceInv'
<1>0. PICK s : s = M!Current
  OBVIOUS
<1> DEFINE spare == Ips(Fresh(s)) \ used
<1>1. /\ UNCHANGED <<old, new, allowPartial, counts>> /\ M!ScanEnded
      /\ mPc = "scan" /\ mPc' = "pair" /\ mTodo' = mTodo \ {s}
      /\ mRes' = [mRes EXCEPT !["unexpected"] = @ + Cardinality(Ips(table) \ used)]
  BY <1>0, SameDefinitions DEF M!CloseShard, M!inputVars, M!ScanEnded
<1>2. M!Merged = Shards \ mTodo /\ (M!Merged = Shards \ mTodo)' /\ MergeTypes
  BY <1>1, MergedStays DEF MergeInv
<1>3. s \in Shards /\ s \in mTodo /\ s \notin M!Merged /\ Open = {s} /\ table = Fresh(s)
  BY <1>0, <1>1, <1>2, OpenIs, CurrentInv DEF MergeInv, MergeTypes, ScanInv
<1>4. M!Merged' = M!Merged \cup {s} /\ Open' = {}
  BY <1>1, <1>2, <1>3 DEF Open
<1>5. mSeen = Ips(Base(s))
  BY <1>0, <1>1, EndIsWhole, DecisionsAre
<1>6. /\ \A c \in ScanCounters \cup {"newDups"} : mRes'[c] = mRes[c]
      /\ mRes'["unexpected"] = mRes["unexpected"] + Cardinality(spare)
      /\ mRes["unexpected"] \in Nat
  <2>1. mRes \in [M!Counters -> Nat]
    BY <1>2 DEF MergeTypes
  <2> QED BY <1>1, <1>3, <2>1 DEF M!Counters, ScanCounters
<1>7. TallyInv'
  <2>1. BaseKeys(M!Merged)' = BaseKeys(M!Merged \cup {s})
    BY <1>1, <1>4, PassesSame DEF BaseKeys
  <2>2. Scanned' = BaseKeys(M!Merged)'
    BY <1>4 DEF Scanned
  <2>3. Scanned = BaseKeys(M!Merged) \cup ({s} \X Ips(Base(s)))
    BY <1>3, <1>5 DEF Scanned
  <2>4. Scanned' = Scanned
    BY <1>3, <2>1, <2>2, <2>3, KeysGrow
  <2> QED BY <1>1, <1>6, <2>4, TallySame DEF BalanceInv
<1>8. UsedInv'
  BY <1>1 DEF UsedInv
<1>9. mRes'["newDups"] + Cardinality(NewKeys(M!Merged \cup Open)')
         = Cardinality(NewRows(M!Merged \cup Open)')
  <2>1. (M!Merged \cup Open)' = M!Merged \cup Open
    BY <1>3, <1>4
  <2>2. NewKeys(M!Merged \cup Open)' = NewKeys(M!Merged \cup Open)
    BY <1>1, <2>1, PassesSame DEF NewKeys
  <2>3. NewRows(M!Merged \cup Open)' = NewRows(M!Merged \cup Open)
    BY <1>1, <2>1 DEF NewRows
  <2> QED BY <1>1, <1>6, <2>2, <2>3 DEF BalanceInv, NewInv
<1>10. mRes'["unexpected"] = Cardinality({p \in NewKeys(M!Merged) : ~Target(p)}')
  <2> DEFINE A == {p \in NewKeys(M!Merged) : ~Target(p)}
  <2>1. used = {ip \in Ips(Base(s)) : Target(<<s, ip>>) /\ ip \in Ips(Fresh(s))}
    BY <1>0, <1>1, <1>5 DEF BalanceInv, UsedInv, Answered
  <2>2. \A ip \in Ips(Fresh(s)) : ip \in used <=> Target(<<s, ip>>)
    BY <2>1 DEF Target
  <2>3. {p \in {s} \X Ips(Fresh(s)) : ~Target(p)} = {s} \X spare
    <3>1. \A p : p \in {s} \X Ips(Fresh(s)) <=> \E ip \in Ips(Fresh(s)) : p = <<s, ip>>
      OBVIOUS
    <3>2. \A p : p \in {s} \X spare <=> \E ip \in spare : p = <<s, ip>>
      OBVIOUS
    <3> QED BY <2>2, <3>1, <3>2
  <2>4. NewKeys(M!Merged)' = NewKeys(M!Merged \cup {s})
    BY <1>1, <1>4, PassesSame DEF NewKeys
  <2>5. {p \in NewKeys(M!Merged) : ~Target(p)}' = A \cup ({s} \X spare)
    <3>1. NewKeys(M!Merged)' = NewKeys(M!Merged) \cup ({s} \X Ips(Fresh(s)))
      BY <1>3, <2>4, KeysGrow
    <3>2. {p \in NewKeys(M!Merged) : ~Target(p)}'
             = {p \in NewKeys(M!Merged) \cup ({s} \X Ips(Fresh(s))) : ~Target(p)}
      BY <1>1, <3>1, PassesSame
    <3> QED BY <2>3, <3>2, Zenon
  <2>6. A \cap ({s} \X spare) = {}
    <3>1. NewKeys(M!Merged) \cap ({s} \X Ips(Fresh(s))) = {}
      BY <1>3, KeysGrow
    <3>2. {s} \X spare \subseteq {s} \X Ips(Fresh(s))
      OBVIOUS
    <3> QED BY <3>1, <3>2
  <2>7. IsFiniteSet(A)
    BY <1>2, KeysFinite, FS_Subset
  <2>8. IsFiniteSet(Ips(Fresh(s)))
    BY <1>2, <1>3, TableCount
  <2>9. IsFiniteSet(spare)
    BY <2>8, FS_Difference
  <2>10. mRes["unexpected"] = Cardinality(A)
    BY <1>1 DEF BalanceInv, NewInv
  <2> HIDE DEF A, spare
  <2>11. IsFiniteSet({s} \X spare) /\ Cardinality({s} \X spare) = Cardinality(spare)
    BY <2>9, SliceCount
  <2>12. Cardinality(A \cup ({s} \X spare)) = Cardinality(A) + Cardinality({s} \X spare)
    BY <2>6, <2>7, <2>11, DisjointCount
  <2> QED BY <1>6, <2>5, <2>10, <2>11, <2>12
<1>11. NewInv'
  BY <1>9, <1>10 DEF NewInv
<1> QED BY <1>7, <1>8, <1>11 DEF BalanceInv

LEMMA InitBalance ==
    ASSUME M!Init
    PROVE  BalanceInv
<1>1. M!Merged = {} /\ Open = {} /\ mPc # "scan"
  BY DEF M!Init, M!Begin, M!Merged, Open
<1>2. BaseKeys({}) = {} /\ NewKeys({}) = {} /\ NewRows({}) = {}
  BY DEF BaseKeys, NewKeys, NewRows
<1>3. Scanned = {}
  BY <1>1, <1>2 DEF Scanned
<1>4. Cardinality({}) = 0
  BY FS_EmptySet
<1>5. ScanCounters \cup {"newDups", "unexpected"} \subseteq M!Counters
  BY DEF ScanCounters, M!Counters
<1>6. \A c \in ScanCounters \cup {"newDups", "unexpected"} : mRes[c] = 0
  BY <1>5 DEF M!Init, M!Begin
<1>7. \A st \in Statuses : counts[st] = 0
  BY DEF M!Init, M!Begin
<1>8. TallyInv
  <2>1. \A c : {p \in Scanned : Branch(p) = c} = {}
    BY <1>3
  <2>2. \A st : {p \in Scanned : M!DecisionsOf(p[1])[p[2]].st = st} = {}
    BY <1>3
  <2> QED BY <1>4, <1>6, <1>7, <2>1, <2>2 DEF TallyInv
<1>9. NewInv
  <2>1. M!Merged \cup Open = {}
    BY <1>1
  <2>2. {p \in NewKeys(M!Merged) : ~Target(p)} = {}
    BY <1>1, <1>2
  <2> QED BY <1>2, <1>4, <1>6, <2>1, <2>2 DEF NewInv
<1> QED BY <1>1, <1>8, <1>9 DEF BalanceInv, UsedInv

LEMMA NextBalance == MergeInv /\ MergeInv' /\ BalanceInv /\ [Next]_vars => BalanceInv'
<1> SUFFICES ASSUME MergeInv, MergeInv', BalanceInv, [Next]_vars
             PROVE  BalanceInv'
  OBVIOUS
<1>1. CASE UNCHANGED <<old, new, mergeVars>>
  <2>1. UNCHANGED <<old, new, allowPartial, mTodo, mSeen, used, out, counts, mRes, mPc>>
    BY <1>1 DEF mergeVars
  <2>2. CASE mPc \in {"remove", "failed"}
    BY <2>1, <2>2 DEF BalanceInv
  <2>3. CASE mPc \notin {"remove", "failed"}
    BY <2>1, <2>3, QuietBalance
  <2> QED BY <2>2, <2>3
<1>2. CASE \/ M!DiscoverFails \/ M!PairRejected \/ M!OutputFails \/ M!BaselineBroken
           \/ M!RemoveShard \/ M!RemoveFails \/ M!CloseFails
  BY <1>2 DEF M!DiscoverFails, M!PairRejected, M!OutputFails, M!BaselineBroken, M!RemoveShard,
              M!RemoveFails, M!CloseFails, M!Fail, BalanceInv
<1>3. CASE M!Discover \/ M!Finish
  <2>1. /\ UNCHANGED <<old, new, allowPartial, mTodo, mSeen, used, out, counts, mRes>>
        /\ mPc \in {"discover", "pair"} /\ mPc' \in {"pair", "done"}
    BY <1>3 DEF M!Discover, M!Finish, M!inputVars
  <2> QED BY <2>1, QuietBalance
<1>4. CASE M!OldDup
  <2>1. /\ UNCHANGED <<old, new, allowPartial, mTodo, mSeen, used, out, counts, mPc>>
        /\ mPc = "scan" /\ mRes' = [mRes EXCEPT !["oldDups"] = @ + 1]
    BY <1>4 DEF M!OldDup, M!Scanning, M!inputVars
  <2> QED BY <2>1, QuietBalance
<1> QED
  BY <1>1, <1>2, <1>3, <1>4, MergeSees, WriteBalance, OpenBalance, CloseBalance DEF M!Step, Writes

LEMMA BalanceInvariance == Spec => []BalanceInv
<1>1. Init => BalanceInv
  BY InitBalance, InitBoth
<1> QED BY <1>1, NextBalance, MergeInvariance, PTL DEF Spec

-----------------------------------------------------------------------------
(* From counted addresses to the numbers of the report.                    *)

\* Records and pairs of records of the merged shards, each with its shard.
BaseRecs    == UNION {{s} \X Base(s) : s \in M!Merged}
OutRecs     == UNION {{s} \X out[s].recs : s \in M!Merged}
PairsIn(S)  == UNION {{s} \X Pairs(Base(s), Fresh(s)) : s \in S}

\* The numbers the report is held against.
BaseCount(T) == Cardinality({x \in BaseRecs : x[2].st \in T})
OutCount(T)  == Cardinality({x \in OutRecs : x[2].st \in T})
PairCount(S, F, T) == Cardinality({x \in PairsIn(S) : x[2][1].st \in F /\ x[2][2].st \in T})
SameCount(S) == Cardinality({x \in PairsIn(S) : /\ x[2][1].st = "has_ptr" /\ x[2][2].st = "has_ptr"
                                              /\ x[2][1].ptr = x[2][2].ptr})

Balanced ==
    /\ Cardinality(OutRecs) = Cardinality(BaseRecs)
    /\ \A st \in Statuses : counts[st] = OutCount({st})
    /\ counts["has_ptr"] = BaseCount({"has_ptr"}) + mRes["gained"] - mRes["removedAuth"]
    /\ BaseCount(Mask) - mRes["missingKept"] + mRes["newDups"] + mRes["unexpected"]
         = Cardinality(NewRows(M!Merged))
    /\ mRes["gained"] = PairCount(M!Merged, Statuses \ {"has_ptr"}, {"has_ptr"})
    /\ mRes["removedAuth"] = PairCount(M!Merged, {"has_ptr"}, Authoritative)
    /\ mRes["graceKept"] = PairCount(M!Merged, {"has_ptr"}, Transient)
    /\ mRes["unchanged"] = SameCount(M!Merged)
    /\ mRes["changed"] + mRes["unchanged"] = PairCount(M!Merged, {"has_ptr"}, {"has_ptr"})

LEMMA BalancesAre == (mPc \in {"pair", "done"} => Balanced) => MergeBalances
<1> SUFFICES ASSUME mPc \in {"pair", "done"}, Balanced
             PROVE  M!MergeBalances
  BY DEF MergeBalances, M!MergeBalances
<1>1. ASSUME NEW T
      PROVE  UNION {{s} \X {r \in M!FirstOccurrences(old[s].recs) : r.st \in T} : s \in M!Merged}
               = {x \in BaseRecs : x[2].st \in T}
  BY SameDefinitions DEF BaseRecs, Base
<1>2. \A base, fresh : M!Pairs(base, fresh) = Pairs(base, fresh)
  BY DEF M!Pairs, Pairs
<1>3. ASSUME NEW F, NEW T
      PROVE  M!Moves(old, new, M!Merged, F, T) = PairCount(M!Merged, F, T)
  <2>1. UNION {
            {s} \X {p \in Pairs(Base(s), Fresh(s)) : p[1].st \in F /\ p[2].st \in T}
               : s \in M!Merged} = {x \in PairsIn(M!Merged) : x[2][1].st \in F /\ x[2][2].st \in T}
    BY DEF PairsIn
  <2> QED BY <1>2, <2>1, SameDefinitions DEF M!Moves, PairCount, Base, Fresh
<1>4. M!SameNames(old, new, M!Merged) = SameCount(M!Merged)
  <2>1. UNION {
            {s} \X {p \in Pairs(Base(s), Fresh(s)) :
                       p[1].st = "has_ptr" /\ p[2].st = "has_ptr" /\ p[1].ptr = p[2].ptr}
               : s \in M!Merged}
          = {x \in PairsIn(M!Merged) : /\ x[2][1].st = "has_ptr" /\ x[2][2].st = "has_ptr"
                                 /\ x[2][1].ptr = x[2][2].ptr}
    BY DEF PairsIn
  <2> QED BY <1>2, <2>1, SameDefinitions DEF M!SameNames, SameCount, Base, Fresh
<1>5. UNION {{s} \X {r \in M!FirstOccurrences(old[s].recs) : TRUE} : s \in M!Merged} = BaseRecs
  BY SameDefinitions DEF BaseRecs, Base
<1>6. UNION {{s} \X {r \in M!FirstOccurrences(old[s].recs) : r.st = "has_ptr"} : s \in M!Merged}
        = {x \in BaseRecs : x[2].st \in {"has_ptr"}}
  BY SameDefinitions DEF BaseRecs, Base
<1>7. \A st : UNION {{s} \X {r \in out[s].recs : r.st = st} : s \in M!Merged}
                = {x \in OutRecs : x[2].st \in {st}}
  BY DEF OutRecs
<1>8. M!Cardinality(UNION {{s} \X out[s].recs : s \in M!Merged}) =
      M!Cardinality(UNION {{s} \X {r \in M!FirstOccurrences(old[s].recs) : TRUE} : s \in M!Merged})
  BY <1>5, SameDefinitions DEF Balanced, OutRecs
<1>9. \A st \in Statuses : counts[st] =
         M!Cardinality(UNION {{s} \X {r \in out[s].recs : r.st = st} : s \in M!Merged})
  BY <1>7, SameDefinitions DEF Balanced, OutCount
<1>10. counts["has_ptr"] =
         M!Cardinality(UNION {{s} \X {r \in M!FirstOccurrences(old[s].recs) : r.st = "has_ptr"}
                                : s \in M!Merged})
           + mRes["gained"] - mRes["removedAuth"]
  BY <1>6, SameDefinitions DEF Balanced, BaseCount
<1>11. M!Cardinality(UNION {{s} \X {r \in M!FirstOccurrences(old[s].recs) : r.st \in Mask}
                              : s \in M!Merged})
         - mRes["missingKept"] + mRes["newDups"] + mRes["unexpected"]
         = M!Cardinality(UNION {{s} \X DOMAIN new[s].recs : s \in M!Merged})
  BY <1>1, SameDefinitions DEF Balanced, BaseCount, NewRows
<1>12. /\ mRes["gained"] = M!Moves(old, new, M!Merged, Statuses \ {"has_ptr"}, {"has_ptr"})
       /\ mRes["removedAuth"] = M!Moves(old, new, M!Merged, {"has_ptr"}, M!Authoritative)
       /\ mRes["graceKept"] = M!Moves(old, new, M!Merged, {"has_ptr"}, M!Transient)
       /\ mRes["unchanged"] = M!SameNames(old, new, M!Merged)
       /\ mRes["changed"] + mRes["unchanged"]
             = M!Moves(old, new, M!Merged, {"has_ptr"}, {"has_ptr"})
  BY <1>3, <1>4, SameDefinitions DEF Balanced
<1> QED
  BY <1>8, <1>9, <1>10, <1>11, <1>12 DEF M!MergeBalances, M!BaselineAddresses

\* A one-to-one map counts.
LEMMA Renamed ==
    ASSUME NEW S, IsFiniteSet(S), NEW f, \A a, b \in S : f[a] = f[b] => a = b,
           NEW Q, \A q \in Q : \E a \in S : f[a] = q
    PROVE  Cardinality(Q) = Cardinality({a \in S : f[a] \in Q})
<1> DEFINE A == {a \in S : f[a] \in Q}
           g == [a \in A |-> f[a]]
<1>1. g \in Surjection(A, Q)
  BY DEF Surjection
<1>2. g \in [A -> Q] /\ \A a, b \in A : g[a] = g[b] => a = b
  OBVIOUS
<1>3. A \subseteq S
  OBVIOUS
<1> HIDE DEF A, g
<1>4. g \in Injection(A, Q)
  BY <1>2 DEF Injection, IsInjective
<1>5. IsFiniteSet(A)
  BY <1>3, FS_Subset
<1>6. Cardinality(Q) = Cardinality(A)
  BY <1>1, <1>4, <1>5, FS_Surjection
<1> QED BY <1>6 DEF A

\* The first records of an address of a shard that was merged.
LEMMA KeyIs ==
    ASSUME MergeTypes, NEW S, S \subseteq Shards, NEW p \in BaseKeys(S)
    PROVE  /\ p = <<p[1], p[2]>> /\ p[1] \in S /\ p[1] \in Shards /\ p[2] \in Ips(Base(p[1]))
           /\ OldRec(p) \in Base(p[1]) /\ OldRec(p).ip = p[2] /\ OldRec(p).st \in Statuses
           /\ Answered(p) => /\ NewRec(p) \in Fresh(p[1]) /\ NewRec(p).ip = p[2]
                             /\ NewRec(p).st \in Statuses
           /\ Target(p) <=> OldRec(p).st \in Mask
<1>1. PICK s, ip : s \in S /\ ip \in Ips(Base(s)) /\ p = <<s, ip>>
  BY KeysAre
<1>2. s \in Shards /\ p[1] = s /\ p[2] = ip
  BY <1>1
<1>3. Base(s) \subseteq Rec /\ Fresh(s) \subseteq Rec
  BY <1>2, BaseTypes
<1>4. OldRec(p) \in Base(s) /\ OldRec(p).ip = ip
  BY <1>1, <1>2 DEF OldRec, RecordOf, Ips
<1>5. Answered(p) => NewRec(p) \in Fresh(s) /\ NewRec(p).ip = ip
  BY <1>2 DEF Answered, NewRec, RecordOf, Ips
<1> QED BY <1>1, <1>2, <1>3, <1>4, <1>5, RecFields DEF Target

\* An address is found again from its record.
LEMMA KeyOf ==
    ASSUME MergeTypes, NEW S, S \subseteq Shards, NEW s \in S, NEW r \in Base(s)
    PROVE  <<s, r.ip>> \in BaseKeys(S) /\ OldRec(<<s, r.ip>>) = r
<1>1. s \in Shards /\ r.ip \in Ips(Base(s))
  BY DEF Ips
<1>2. \A q \in Base(s) : q.ip = r.ip => q = r
  BY <1>1, BaseTypes
<1>3. <<s, r.ip>> \in BaseKeys(S)
  BY <1>1, KeysAre
<1> QED BY <1>2, <1>3 DEF OldRec, RecordOf

LEMMA MergedFinite ==
    ASSUME MergeInv
    PROVE  /\ MergeTypes /\ M!Merged \subseteq Shards
           /\ IsFiniteSet(BaseKeys(M!Merged)) /\ IsFiniteSet(NewKeys(M!Merged))
  BY KeysFinite DEF MergeInv, M!Merged

\* Counting baseline records is counting addresses.
LEMMA CountBase ==
    ASSUME MergeInv, NEW T
    PROVE  BaseCount(T) = Cardinality({p \in BaseKeys(M!Merged) : OldRec(p).st \in T})
<1> DEFINE B == BaseKeys(M!Merged)
           f == [p \in B |-> <<p[1], OldRec(p)>>]
           Q == {x \in BaseRecs : x[2].st \in T}
<1>1. \A a, b \in B : f[a] = f[b] => a = b
  BY MergedFinite, KeyIs
<1>2. \A q \in Q : \E a \in B : f[a] = q
  <2> SUFFICES ASSUME NEW q \in Q
               PROVE  \E a \in B : f[a] = q
    OBVIOUS
  <2>1. PICK s, r : s \in M!Merged /\ r \in Base(s) /\ q = <<s, r>>
    BY DEF BaseRecs
  <2>2. <<s, r.ip>> \in B /\ f[<<s, r.ip>>] = q
    BY <2>1, MergedFinite, KeyOf
  <2> QED BY <2>2
<1>3. \A p \in B : f[p] \in Q <=> OldRec(p).st \in T
  <2> SUFFICES ASSUME NEW p \in B
               PROVE  f[p] \in Q <=> OldRec(p).st \in T
    OBVIOUS
  <2>1. f[p] = <<p[1], OldRec(p)>> /\ f[p] \in BaseRecs
    BY MergedFinite, KeyIs DEF BaseRecs
  <2> QED BY <2>1
<1>4. {p \in B : f[p] \in Q} = {p \in B : OldRec(p).st \in T}
  BY <1>3
<1>5. IsFiniteSet(B)
  BY MergedFinite
<1> HIDE DEF B, f, Q
<1>6. Cardinality(Q) = Cardinality({p \in B : OldRec(p).st \in T})
  BY <1>1, <1>2, <1>4, <1>5, Renamed
<1> QED BY <1>6 DEF Q, B, BaseCount

\* Counting merged records is counting addresses.
LEMMA CountOut ==
    ASSUME MergeInv, NEW T
    PROVE  OutCount(T) = Cardinality({p \in BaseKeys(M!Merged) : M!DecisionsOf(p[1])[p[2]].st \in T})
<1> DEFINE B == BaseKeys(M!Merged)
           f == [p \in B |-> <<p[1], M!DecisionsOf(p[1])[p[2]]>>]
           Q == {x \in OutRecs : x[2].st \in T}
<1>1. \A s \in M!Merged : out[s].recs = {M!DecisionsOf(s)[ip] : ip \in Ips(Base(s))}
  BY DecisionsAre DEF MergeInv, PublishedInv, Decided, M!Merged
<1>2. \A p \in B : M!DecisionsOf(p[1])[p[2]].ip = p[2]
  BY MergedFinite, KeyIs, DecisionsAre
<1>3. \A a, b \in B : f[a] = f[b] => a = b
  BY <1>2, MergedFinite, KeyIs
<1>4. \A q \in Q : \E a \in B : f[a] = q
  <2> SUFFICES ASSUME NEW q \in Q
               PROVE  \E a \in B : f[a] = q
    OBVIOUS
  <2>1. PICK s, r : s \in M!Merged /\ r \in out[s].recs /\ q = <<s, r>>
    BY DEF OutRecs
  <2>2. PICK ip \in Ips(Base(s)) : r = M!DecisionsOf(s)[ip]
    BY <1>1, <2>1
  <2>3. <<s, ip>> \in B
    BY <2>1, KeysAre
  <2>4. f[<<s, ip>>] = q
    BY <2>1, <2>2, <2>3
  <2> QED BY <2>3, <2>4
<1>5. \A p \in B : f[p] \in Q <=> M!DecisionsOf(p[1])[p[2]].st \in T
  <2> SUFFICES ASSUME NEW p \in B
               PROVE  f[p] \in Q <=> M!DecisionsOf(p[1])[p[2]].st \in T
    OBVIOUS
  <2>1. p[1] \in M!Merged /\ p[2] \in Ips(Base(p[1]))
    BY MergedFinite, KeyIs
  <2>2. M!DecisionsOf(p[1])[p[2]] \in out[p[1]].recs
    BY <1>1, <2>1
  <2>3. f[p] = <<p[1], M!DecisionsOf(p[1])[p[2]]>> /\ f[p] \in OutRecs
    BY <2>1, <2>2 DEF OutRecs
  <2> QED BY <2>3
<1>6. {p \in B : f[p] \in Q} = {p \in B : M!DecisionsOf(p[1])[p[2]].st \in T}
  BY <1>5
<1>7. IsFiniteSet(B)
  BY MergedFinite
<1> HIDE DEF B, f, Q
<1>8. Cardinality(Q) = Cardinality({p \in B : M!DecisionsOf(p[1])[p[2]].st \in T})
  BY <1>3, <1>4, <1>6, <1>7, Renamed
<1> QED BY <1>8 DEF Q, B, OutCount

\* Counting pairs of records is counting targets that were answered.
Paired(p) == Target(p) /\ Answered(p)

LEMMA CountPairs ==
    ASSUME MergeTypes, NEW S, S \subseteq Shards, NEW Q, Q \subseteq PairsIn(S)
    PROVE  Cardinality(Q) = Cardinality({p \in BaseKeys(S) :
               Paired(p) /\ <<p[1], <<OldRec(p), NewRec(p)>>>> \in Q})
<1> DEFINE B == {p \in BaseKeys(S) : Paired(p)}
           f == [p \in B |-> <<p[1], <<OldRec(p), NewRec(p)>>>>]
<1>1. \A a, b \in B : f[a] = f[b] => a = b
  BY KeyIs
<1>2. \A q \in Q : \E a \in B : f[a] = q
  <2> SUFFICES ASSUME NEW q \in Q
               PROVE  \E a \in B : f[a] = q
    OBVIOUS
  <2>1. PICK s, o, n :
            /\ s \in S /\ o \in Base(s) /\ n \in Fresh(s)
            /\ q = <<s, <<o, n>>>> /\ o.ip = n.ip /\ o.st \in Mask
    BY DEF PairsIn, Pairs
  <2>2. PICK p : p = <<s, o.ip>>
    OBVIOUS
  <2>3. p \in BaseKeys(S) /\ OldRec(p) = o /\ p[1] = s /\ p[2] = o.ip
    BY <2>1, <2>2, KeyOf
  <2>4. Target(p)
    BY <2>1, <2>3, KeyIs
  <2>5. Answered(p)
    BY <2>1, <2>3 DEF Answered, Ips
  <2>6. NewRec(p) = n
    <3>1. s \in Shards /\ NewRec(p) \in Fresh(s) /\ NewRec(p).ip = n.ip
      BY <2>1, <2>3, <2>5, KeyIs
    <3> QED BY <2>1, <3>1, BaseTypes
  <2>7. p \in B
    BY <2>3, <2>4, <2>5 DEF Paired
  <2>8. f[p] = q
    BY <2>1, <2>3, <2>6, <2>7
  <2> QED BY <2>7, <2>8
<1>3. {p \in B : f[p] \in Q} = {p \in BaseKeys(S) :
               Paired(p) /\ <<p[1], <<OldRec(p), NewRec(p)>>>> \in Q}
  OBVIOUS
<1>4. IsFiniteSet(B)
  BY KeysFinite, FS_Subset
<1> HIDE DEF B, f
<1>5. Cardinality(Q) = Cardinality({p \in B : f[p] \in Q})
  BY <1>1, <1>2, <1>4, Renamed
<1> QED BY <1>3, <1>5

\* What the branch of an address says about its two records, and the record written.
LEMMA BranchIs ==
    ASSUME MergeTypes, NEW S, S \subseteq Shards, NEW p \in BaseKeys(S)
    PROVE  /\ Branch(p) = "missingKept" <=> Target(p) /\ ~Answered(p)
           /\ Branch(p) = "gained" <=>
                Paired(p) /\ OldRec(p).st # "has_ptr" /\ NewRec(p).st = "has_ptr"
           /\ Branch(p) = "unchanged" <=> /\ Paired(p) /\ OldRec(p).st = "has_ptr"
                /\ NewRec(p).st = "has_ptr" /\ OldRec(p).ptr = NewRec(p).ptr
           /\ Branch(p) = "changed" <=> /\ Paired(p) /\ OldRec(p).st = "has_ptr"
                /\ NewRec(p).st = "has_ptr" /\ OldRec(p).ptr # NewRec(p).ptr
           /\ Branch(p) = "removedAuth" <=>
                Paired(p) /\ OldRec(p).st = "has_ptr" /\ NewRec(p).st \in Authoritative
           /\ Branch(p) = "graceKept" <=>
                Paired(p) /\ OldRec(p).st = "has_ptr" /\ NewRec(p).st \in Transient
           /\ M!DecisionsOf(p[1])[p[2]].st = "has_ptr" <=>
                \/ OldRec(p).st = "has_ptr" /\ Branch(p) # "removedAuth"
                \/ Branch(p) = "gained"
<1>1. /\ Statuses \subseteq {"has_ptr"} \cup Authoritative \cup Transient
      /\ M!Transient = Transient
      /\ "has_ptr" \notin Authoritative \cup Transient /\ Authoritative \cap Transient = {}
  BY PassesAssumption, SameDefinitions DEF Authoritative, Transient
<1>2. /\ OldRec(p).st \in Statuses /\ (Answered(p) => NewRec(p).st \in Statuses)
      /\ Target(p) <=> OldRec(p).st \in Mask
      /\ p[2] \in Ips(Base(p[1]))
  BY KeyIs
<1>3. M!DecisionsOf(p[1])[p[2]] = M!Decision(OldRec(p), NewRec(p), Answered(p))
  BY <1>2, DecisionsAre DEF OldRec, NewRec, Answered
<1>4. Branch(p) = "missingKept" <=> Target(p) /\ ~Answered(p)
  BY DEF Branch
<1>5. Branch(p) = "gained" <=>
         Paired(p) /\ OldRec(p).st # "has_ptr" /\ NewRec(p).st = "has_ptr"
  BY DEF Branch, Paired
<1>6. Branch(p) = "unchanged" <=> /\ Paired(p) /\ OldRec(p).st = "has_ptr"
         /\ NewRec(p).st = "has_ptr" /\ OldRec(p).ptr = NewRec(p).ptr
  BY DEF Branch, Paired
<1>7. Branch(p) = "changed" <=> /\ Paired(p) /\ OldRec(p).st = "has_ptr"
         /\ NewRec(p).st = "has_ptr" /\ OldRec(p).ptr # NewRec(p).ptr
  BY DEF Branch, Paired
<1>8. Branch(p) = "removedAuth" <=>
         Paired(p) /\ OldRec(p).st = "has_ptr" /\ NewRec(p).st \in Authoritative
  BY <1>1 DEF Branch, Paired
<1>9. Branch(p) = "graceKept" <=>
         Paired(p) /\ OldRec(p).st = "has_ptr" /\ NewRec(p).st \in Transient
  BY <1>1, <1>2 DEF Branch, Paired
<1>10. M!DecisionsOf(p[1])[p[2]].st = "has_ptr" <=>
         \/ OldRec(p).st = "has_ptr" /\ Branch(p) # "removedAuth"
         \/ Branch(p) = "gained"
  <2>1. M!DecisionsOf(p[1])[p[2]] =
          IF ~Paired(p) \/ (OldRec(p).st = "has_ptr" /\ NewRec(p).st \in Transient)
          THEN OldRec(p) ELSE NewRec(p)
    BY <1>1, <1>2, <1>3 DEF M!Decision, Paired
  <2> QED BY <1>1, <1>2, <1>5, <1>8, <2>1 DEF Paired
<1> QED BY <1>4, <1>5, <1>6, <1>7, <1>8, <1>9, <1>10

\* The moves between the passes are the branches taken.
LEMMA CountMoves ==
    ASSUME MergeTypes, NEW S, S \subseteq Shards, NEW F, NEW T
    PROVE  PairCount(S, F, T) = Cardinality({p \in BaseKeys(S) :
               Paired(p) /\ OldRec(p).st \in F /\ NewRec(p).st \in T})
<1> DEFINE Q == {x \in PairsIn(S) : x[2][1].st \in F /\ x[2][2].st \in T}
<1>1. \A p \in BaseKeys(S) : Paired(p) =>
          (<<p[1], <<OldRec(p), NewRec(p)>>>> \in Q <=> OldRec(p).st \in F /\ NewRec(p).st \in T)
  <2> SUFFICES ASSUME NEW p \in BaseKeys(S), Paired(p)
               PROVE  /\ <<p[1], <<OldRec(p), NewRec(p)>>>> \in Q <=>
                            OldRec(p).st \in F /\ NewRec(p).st \in T
    OBVIOUS
  <2>1. /\ p[1] \in S /\ OldRec(p) \in Base(p[1]) /\ NewRec(p) \in Fresh(p[1])
        /\ OldRec(p).ip = NewRec(p).ip /\ OldRec(p).st \in Mask
    BY KeyIs DEF Paired
  <2>2. <<p[1], <<OldRec(p), NewRec(p)>>>> \in PairsIn(S)
    BY <2>1 DEF PairsIn, Pairs
  <2> QED BY <2>2
<1>2. {p \in BaseKeys(S) : Paired(p) /\ <<p[1], <<OldRec(p), NewRec(p)>>>> \in Q}
        = {p \in BaseKeys(S) : Paired(p) /\ OldRec(p).st \in F /\ NewRec(p).st \in T}
  BY <1>1
<1>3. Q \subseteq PairsIn(S) /\ PairCount(S, F, T) = Cardinality(Q)
  BY DEF PairCount
<1> HIDE DEF Q
<1>4. Cardinality(Q) = Cardinality({p \in BaseKeys(S) :
               Paired(p) /\ <<p[1], <<OldRec(p), NewRec(p)>>>> \in Q})
  BY <1>3, CountPairs
<1> QED BY <1>2, <1>3, <1>4

LEMMA CountSame ==
    ASSUME MergeTypes, NEW S, S \subseteq Shards
    PROVE  SameCount(S) = Cardinality({p \in BaseKeys(S) : Branch(p) = "unchanged"})
<1> DEFINE Q == {x \in PairsIn(S) : /\ x[2][1].st = "has_ptr" /\ x[2][2].st = "has_ptr"
                                     /\ x[2][1].ptr = x[2][2].ptr}
<1>1. \A p \in BaseKeys(S) : Paired(p) =>
          (<<p[1], <<OldRec(p), NewRec(p)>>>> \in Q <=> Branch(p) = "unchanged")
  <2> SUFFICES ASSUME NEW p \in BaseKeys(S), Paired(p)
               PROVE  <<p[1], <<OldRec(p), NewRec(p)>>>> \in Q <=> Branch(p) = "unchanged"
    OBVIOUS
  <2>1. /\ p[1] \in S /\ OldRec(p) \in Base(p[1]) /\ NewRec(p) \in Fresh(p[1])
        /\ OldRec(p).ip = NewRec(p).ip /\ OldRec(p).st \in Mask
    BY KeyIs DEF Paired
  <2>2. <<p[1], <<OldRec(p), NewRec(p)>>>> \in PairsIn(S)
    BY <2>1 DEF PairsIn, Pairs
  <2>3. Branch(p) = "unchanged" <=>
          OldRec(p).st = "has_ptr" /\ NewRec(p).st = "has_ptr" /\ OldRec(p).ptr = NewRec(p).ptr
    BY BranchIs
  <2> QED BY <2>2, <2>3
<1>2. \A p \in BaseKeys(S) : Branch(p) = "unchanged" => Paired(p)
  BY BranchIs
<1>3. {p \in BaseKeys(S) : Paired(p) /\ <<p[1], <<OldRec(p), NewRec(p)>>>> \in Q}
        = {p \in BaseKeys(S) : Branch(p) = "unchanged"}
  BY <1>1, <1>2
<1>4. Q \subseteq PairsIn(S) /\ SameCount(S) = Cardinality(Q)
  BY DEF SameCount
<1> HIDE DEF Q
<1>5. Cardinality(Q) = Cardinality({p \in BaseKeys(S) :
               Paired(p) /\ <<p[1], <<OldRec(p), NewRec(p)>>>> \in Q})
  BY <1>4, CountPairs
<1> QED BY <1>3, <1>4, <1>5

LEMMA ReportBalances ==
    ASSUME MergeInv, BalanceInv, mPc \in {"pair", "done"}
    PROVE  Balanced
<1>0. PICK B : B = BaseKeys(M!Merged)
  OBVIOUS
<1>1. Scanned = B /\ Open = {} /\ IsFiniteSet(B) /\ IsFiniteSet(NewKeys(M!Merged))
  BY <1>0, ScannedIs, OpenIs, MergedFinite
<1>2. \A c \in ScanCounters : mRes[c] = Cardinality({p \in B : Branch(p) = c})
  BY <1>1 DEF BalanceInv, TallyInv
<1>3. \A st \in Statuses : counts[st] = Cardinality({p \in B : M!DecisionsOf(p[1])[p[2]].st = st})
  BY <1>1 DEF BalanceInv, TallyInv
<1>4. ASSUME NEW A, A \subseteq B
      PROVE  IsFiniteSet(A) /\ Cardinality(A) \in Nat
  BY <1>1, <1>4, FS_Subset, FS_CardinalityType
<1>5. Cardinality(OutRecs) = Cardinality(BaseRecs)
  <2>1. BaseCount(Statuses) = Cardinality(B) /\ BaseRecs = {x \in BaseRecs : x[2].st \in Statuses}
    <3>1. {p \in B : OldRec(p).st \in Statuses} = B
      BY <1>0, MergedFinite, KeyIs
    <3>2. \A x \in BaseRecs : x[2].st \in Statuses
      BY BaseTypes, RecFields DEF MergeInv, BaseRecs, M!Merged
    <3>3. BaseRecs = {x \in BaseRecs : x[2].st \in Statuses}
      BY <3>2
    <3> QED BY <1>0, <3>1, <3>3, CountBase
  <2>2. OutCount(Statuses) = Cardinality(B) /\ OutRecs = {x \in OutRecs : x[2].st \in Statuses}
    <3>1. \A p \in B : M!DecisionsOf(p[1])[p[2]].st \in Statuses
      <4> SUFFICES ASSUME NEW p \in B
                   PROVE  M!DecisionsOf(p[1])[p[2]].st \in Statuses
        OBVIOUS
      <4>1. p[1] \in Shards /\ p[2] \in Ips(Base(p[1]))
        BY <1>0, MergedFinite, KeyIs
      <4>2. M!DecisionsOf(p[1])[p[2]] \in Base(p[1]) \cup Fresh(p[1])
        BY <4>1, DecisionsAre
      <4>3. M!DecisionsOf(p[1])[p[2]] \in Rec
        BY <4>1, <4>2, BaseTypes DEF MergeInv
      <4> QED BY <4>3, RecFields
    <3>2. {p \in B : M!DecisionsOf(p[1])[p[2]].st \in Statuses} = B
      BY <3>1
    <3>3. \A x \in OutRecs : x[2].st \in Statuses
      <4>1. \A s \in M!Merged : out[s].recs \subseteq Rec
        BY DEF MergeInv, MergeTypes, M!Merged
      <4> QED BY <4>1, RecFields DEF OutRecs
    <3>4. OutRecs = {x \in OutRecs : x[2].st \in Statuses}
      BY <3>3
    <3> QED BY <1>0, <3>2, <3>4, CountOut
  <2> QED BY <2>1, <2>2 DEF BaseCount, OutCount
<1>6. \A st \in Statuses : counts[st] = OutCount({st})
  <2> SUFFICES ASSUME NEW st \in Statuses
               PROVE  counts[st] = OutCount({st})
    OBVIOUS
  <2>1. {p \in B : M!DecisionsOf(p[1])[p[2]].st \in {st}} = {p \in B : M!DecisionsOf(p[1])[p[2]].st = st}
    OBVIOUS
  <2> QED BY <1>0, <1>3, <2>1, CountOut
<1>7. counts["has_ptr"] = BaseCount({"has_ptr"}) + mRes["gained"] - mRes["removedAuth"]
  <2> DEFINE D == {p \in B : M!DecisionsOf(p[1])[p[2]].st = "has_ptr"}
             P == {p \in B : OldRec(p).st \in {"has_ptr"}}
             G == {p \in B : Branch(p) = "gained"}
             R == {p \in B : Branch(p) = "removedAuth"}
  <2>1. D \cup R = P \cup G /\ D \cap R = {} /\ P \cap G = {}
    <3>1. \A p \in B : /\ M!DecisionsOf(p[1])[p[2]].st = "has_ptr" <=>
                             \/ OldRec(p).st = "has_ptr" /\ Branch(p) # "removedAuth"
                             \/ Branch(p) = "gained"
                       /\ Branch(p) = "removedAuth" => OldRec(p).st = "has_ptr"
                       /\ Branch(p) = "gained" => OldRec(p).st # "has_ptr"
      BY <1>0, MergedFinite, BranchIs
    <3> QED BY <3>1
  <2>2. /\ counts["has_ptr"] = Cardinality(D) /\ BaseCount({"has_ptr"}) = Cardinality(P)
        /\ mRes["gained"] = Cardinality(G) /\ mRes["removedAuth"] = Cardinality(R)
    BY <1>0, <1>2, <1>3, CountBase, PassesAssumption DEF ScanCounters
  <2>3. D \subseteq B /\ P \subseteq B /\ G \subseteq B /\ R \subseteq B
    OBVIOUS
  <2> HIDE DEF D, P, G, R
  <2>4. /\ IsFiniteSet(D) /\ IsFiniteSet(P) /\ IsFiniteSet(G) /\ IsFiniteSet(R)
        /\ Cardinality(D) \in Nat /\ Cardinality(P) \in Nat
        /\ Cardinality(G) \in Nat /\ Cardinality(R) \in Nat
    BY <1>4, <2>3
  <2>5. /\ Cardinality(D \cup R) = Cardinality(D) + Cardinality(R)
        /\ Cardinality(P \cup G) = Cardinality(P) + Cardinality(G)
    BY <2>1, <2>4, DisjointCount
  <2>6. Cardinality(D) + Cardinality(R) = Cardinality(P) + Cardinality(G)
    BY <2>1, <2>5
  <2> QED BY <2>2, <2>4, <2>6
<1>8. BaseCount(Mask) - mRes["missingKept"] + mRes["newDups"] + mRes["unexpected"]
         = Cardinality(NewRows(M!Merged))
  <2> DEFINE K == NewKeys(M!Merged)
             A == {p \in B : OldRec(p).st \in Mask}
             E == {p \in B : Branch(p) = "missingKept"}
             U == {p \in B : Paired(p)}
             X == {p \in K : ~Target(p)}
  <2>1. A = E \cup U /\ E \cap U = {}
    <3>1. \A p \in B : /\ Target(p) <=> OldRec(p).st \in Mask
                       /\ Branch(p) = "missingKept" <=> Target(p) /\ ~Answered(p)
      BY <1>0, MergedFinite, BranchIs, KeyIs
    <3> QED BY <3>1 DEF Paired
  <2>2. K = U \cup X /\ U \cap X = {}
    <3>1. \A p \in K : Target(p) => p \in U
      <4> SUFFICES ASSUME NEW p \in K, Target(p)
                   PROVE  p \in U
        OBVIOUS
      <4>1. PICK s, x : s \in M!Merged /\ x \in Ips(Fresh(s)) /\ p = <<s, x>>
        BY KeysAre
      <4>2. x \in Ips(Base(s)) /\ Answered(p)
        BY <4>1 DEF Target, Answered
      <4>3. p \in B
        BY <1>0, <4>1, <4>2, KeysAre
      <4> QED BY <4>2, <4>3 DEF Paired
    <3>2. \A p \in U : p \in K /\ Target(p)
      <4> SUFFICES ASSUME NEW p \in U
                   PROVE  p \in K /\ Target(p)
        OBVIOUS
      <4>1. p = <<p[1], p[2]>> /\ p[1] \in M!Merged /\ p[2] \in Ips(Fresh(p[1]))
        BY <1>0, MergedFinite, KeyIs DEF Paired, Answered
      <4> QED BY <4>1, KeysAre DEF Paired
    <3> QED BY <3>1, <3>2
  <2>3. /\ mRes["missingKept"] = Cardinality(E) /\ BaseCount(Mask) = Cardinality(A)
    BY <1>0, <1>2, CountBase DEF ScanCounters
  <2>4. /\ mRes["unexpected"] = Cardinality(X)
        /\ mRes["newDups"] + Cardinality(K) = Cardinality(NewRows(M!Merged))
    <3>1. M!Merged \cup Open = M!Merged
      BY <1>1
    <3> QED BY <3>1 DEF BalanceInv, NewInv
  <2>5. mRes["newDups"] \in Nat
    BY DEF MergeInv, MergeTypes, M!Counters
  <2>6. E \subseteq B /\ U \subseteq B /\ X \in SUBSET K
    OBVIOUS
  <2>7. IsFiniteSet(E) /\ IsFiniteSet(U)
    BY <1>4, <2>6
  <2>8. IsFiniteSet(X)
    BY <1>1, <2>6, FS_Subset
  <2> HIDE DEF K, A, E, U, X
  <2>9. /\ Cardinality(A) = Cardinality(E) + Cardinality(U)
        /\ Cardinality(E) \in Nat /\ Cardinality(U) \in Nat
    BY <2>1, <2>7, DisjointCount
  <2>10. Cardinality(K) = Cardinality(U) + Cardinality(X) /\ Cardinality(X) \in Nat
    BY <2>2, <2>7, <2>8, DisjointCount
  <2> QED BY <2>3, <2>4, <2>5, <2>9, <2>10
<1>9. /\ mRes["gained"] = PairCount(M!Merged, Statuses \ {"has_ptr"}, {"has_ptr"})
      /\ mRes["removedAuth"] = PairCount(M!Merged, {"has_ptr"}, Authoritative)
      /\ mRes["graceKept"] = PairCount(M!Merged, {"has_ptr"}, Transient)
  <2>1. {p \in B : Branch(p) = "gained"}
          = {p \in B : Paired(p) /\ OldRec(p).st \in Statuses \ {"has_ptr"} /\ NewRec(p).st \in {"has_ptr"}}
    <3>1. \A p \in B : Branch(p) = "gained" <=>
             Paired(p) /\ OldRec(p).st \in Statuses \ {"has_ptr"} /\ NewRec(p).st \in {"has_ptr"}
      BY <1>0, MergedFinite, BranchIs, KeyIs
    <3> QED BY <3>1
  <2>2. {p \in B : Branch(p) = "removedAuth"}
          = {p \in B : Paired(p) /\ OldRec(p).st \in {"has_ptr"} /\ NewRec(p).st \in Authoritative}
    <3>1. \A p \in B : Branch(p) = "removedAuth" <=>
             Paired(p) /\ OldRec(p).st \in {"has_ptr"} /\ NewRec(p).st \in Authoritative
      BY <1>0, MergedFinite, BranchIs
    <3> QED BY <3>1
  <2>3. {p \in B : Branch(p) = "graceKept"}
          = {p \in B : Paired(p) /\ OldRec(p).st \in {"has_ptr"} /\ NewRec(p).st \in Transient}
    <3>1. \A p \in B : Branch(p) = "graceKept" <=>
             Paired(p) /\ OldRec(p).st \in {"has_ptr"} /\ NewRec(p).st \in Transient
      BY <1>0, MergedFinite, BranchIs
    <3> QED BY <3>1
  <2> QED BY <1>0, <1>2, <2>1, <2>2, <2>3, MergedFinite, CountMoves DEF ScanCounters
<1>10. mRes["unchanged"] = SameCount(M!Merged)
  BY <1>0, <1>2, MergedFinite, CountSame DEF ScanCounters
<1>11. mRes["changed"] + mRes["unchanged"] = PairCount(M!Merged, {"has_ptr"}, {"has_ptr"})
  <2> DEFINE G == {p \in B : Branch(p) = "changed"}
             H == {p \in B : Branch(p) = "unchanged"}
             P == {p \in B : Paired(p) /\ OldRec(p).st \in {"has_ptr"} /\ NewRec(p).st \in {"has_ptr"}}
  <2>1. P = G \cup H /\ G \cap H = {}
    <3>1. \A p \in B : Branch(p) \in {"changed", "unchanged"} <=>
             Paired(p) /\ OldRec(p).st = "has_ptr" /\ NewRec(p).st = "has_ptr"
      BY <1>0, MergedFinite, BranchIs
    <3> QED BY <3>1
  <2>2. mRes["changed"] = Cardinality(G) /\ mRes["unchanged"] = Cardinality(H)
    BY <1>2 DEF ScanCounters
  <2>3. PairCount(M!Merged, {"has_ptr"}, {"has_ptr"}) = Cardinality(P)
    BY <1>0, MergedFinite, CountMoves
  <2>4. G \subseteq B /\ H \subseteq B
    OBVIOUS
  <2> HIDE DEF G, H, P
  <2>5. IsFiniteSet(G) /\ IsFiniteSet(H)
    BY <1>4, <2>4
  <2>6. Cardinality(P) = Cardinality(G) + Cardinality(H)
    BY <2>1, <2>5, DisjointCount
  <2> QED BY <2>2, <2>3, <2>6
<1> QED BY <1>5, <1>6, <1>7, <1>8, <1>9, <1>10, <1>11 DEF Balanced

\* For any passes with any duplicates, whenever no shard is half merged: merge's report
\* balances against the files. The histogram counts each baseline address once, PTRs
\* appear only as gained and disappear only as authoritatively removed, every new record
\* was used, a duplicate or unexpected, and the PTR counters are the moves between the
\* two passes (mergeShard, Result, Run).
THEOREM MergeBalancesHolds == Spec => []MergeBalances
<1>1. MergeInv /\ BalanceInv => MergeBalances
  BY ReportBalances, BalancesAre
<1> QED BY <1>1, MergeInvariance, BalanceInvariance, PTL
=============================================================================
