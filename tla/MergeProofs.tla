------------------------------ MODULE MergeProofs ------------------------------
(***************************************************************************)
(* The merge of an update (Merge, inside Update), for any set of shards,   *)
(* addresses and names and any passes: a published shard has exactly one   *)
(* record per baseline address, the one the policy gives.                  *)
(***************************************************************************)
EXTENDS Update, FiniteSetTheorems, SequenceTheorems, WellFoundedInduction, TLAPS

-----------------------------------------------------------------------------
(* Numbers, records and sequences of them.                                 *)

\* A finite set of numbers has a least element: the sets of smaller elements are
\* well-founded by inclusion.
LEMMA LeastElement ==
    ASSUME NEW S, S \subseteq Nat, IsFiniteSet(S), S # {}
    PROVE  \E x \in S : \A y \in S : x <= y
<1> DEFINE Below(x) == {y \in S : y < x}
           T == {Below(x) : x \in S}
<1>1. T \subseteq FiniteSubsetsOf(S) /\ T # {}
  <2>1. FiniteSubsetsOf(S) = SUBSET S
    BY FS_FiniteSubsetsOfFinite
  <2>2. T \subseteq SUBSET S /\ T # {}
    BY Zenon
  <2> QED BY <2>1, <2>2, Zenon
<1>2. PICK B \in T : \A C1 \in T : ~(<<C1, B>> \in StrictSubsetOrdering(S))
  <2> HIDE DEF T
  <2>1. IsWellFoundedOn(StrictSubsetOrdering(S), FiniteSubsetsOf(S))
    BY FS_StrictSubsetOrderingWellFounded
  <2> QED BY <1>1, <2>1, WFMin
<1>3. PICK x \in S : B = Below(x)
  BY <1>2
<1>4. ASSUME NEW y \in S, y < x
      PROVE  FALSE
  <2>1. Below(y) \subseteq B /\ y \in B /\ y \notin Below(y)
    <3> HIDE DEF T
    <3>1. x \in Nat /\ y \in Nat /\ \A z \in S : z \in Nat
      OBVIOUS
    <3>2. \A z \in S : z < y => z < x
      BY <1>4, <3>1
    <3>3. ~(y < y)
      BY <3>1
    <3>4. B = {z \in S : z < x}
      BY <1>3
    <3> QED BY <1>4, <3>2, <3>3, <3>4, Zenon
  <2>2. Below(y) \in T /\ Below(y) \subseteq S /\ B \subseteq S /\ Below(y) # B
    BY <1>3, <2>1
  <2>3. <<Below(y), B>> \in StrictSubsetOrdering(S)
    BY <2>1, <2>2 DEF StrictSubsetOrdering
  <2> QED BY <1>2, <2>2, <2>3
<1> QED BY <1>4

LEMMA RecFields ==
    ASSUME NEW r \in Rec
    PROVE  r.ip \in Addresses /\ r.st \in Statuses
  BY PassesAssumption DEF Rec

\* What a scan has met of a shard when it is about to read record k.
Met(seq, k) == {seq[i].ip : i \in 1..(k - 1)}

LEMMA MetIs ==
    ASSUME NEW seq \in Seq(Rec), NEW k \in Nat \ {0}, k <= Len(seq)
    PROVE  /\ Met(seq, k) \subseteq Addresses
           /\ Met(seq, k + 1) = Met(seq, k) \cup {seq[k].ip}
           /\ seq[k] \in Rec
<1>1. Len(seq) \in Nat /\ \A i \in 1..Len(seq) : seq[i] \in Rec /\ seq[i].ip \in Addresses
  BY RecFields
<1>2. Met(seq, k) \subseteq Addresses
  BY <1>1 DEF Met
<1>3. 1..((k + 1) - 1) = (1..(k - 1)) \cup {k}
  OBVIOUS
<1>4. Met(seq, k + 1) = Met(seq, k) \cup {seq[k].ip}
  BY <1>3, Zenon DEF Met
<1> QED BY <1>1, <1>2, <1>4

\* The first records of the addresses: one for every address of the sequence.
LEMMA FirstsAre ==
    ASSUME NEW seq \in Seq(Rec)
    PROVE  /\ FirstOccurrences(seq) \subseteq Rec
           /\ \A r, q \in FirstOccurrences(seq) : r.ip = q.ip => r = q
           /\ Ips(FirstOccurrences(seq)) = Met(seq, Len(seq) + 1)
           /\ \A k \in 1..Len(seq) : seq[k].ip \notin Met(seq, k) => seq[k] \in FirstOccurrences(seq)
<1> DEFINE first(j) == \A k \in 1..(j - 1) : seq[k].ip # seq[j].ip
<1>1. Len(seq) \in Nat /\ DOMAIN seq = 1..Len(seq) /\ \A i \in 1..Len(seq) : seq[i] \in Rec
  OBVIOUS
<1>2. \A r : r \in FirstOccurrences(seq) <=> \E j \in 1..Len(seq) : first(j) /\ r = seq[j]
  BY <1>1 DEF FirstOccurrences
<1>3. FirstOccurrences(seq) \subseteq Rec
  BY <1>1, <1>2
<1>4. ASSUME NEW r \in FirstOccurrences(seq), NEW q \in FirstOccurrences(seq), r.ip = q.ip
      PROVE  r = q
  <2>1. PICK i \in 1..Len(seq) : first(i) /\ r = seq[i]
    BY <1>2
  <2>2. PICK j \in 1..Len(seq) : first(j) /\ q = seq[j]
    BY <1>2
  <2>3. ~(i < j)
    <3>1. i < j => i \in 1..(j - 1)
      BY <1>1
    <3> QED BY <1>4, <2>1, <2>2, <3>1
  <2>4. ~(j < i)
    <3>1. j < i => j \in 1..(i - 1)
      BY <1>1
    <3> QED BY <1>4, <2>1, <2>2, <3>1
  <2>5. i = j
    BY <1>1, <2>3, <2>4
  <2> QED BY <2>1, <2>2, <2>5
<1>5. ASSUME NEW k \in 1..Len(seq)
      PROVE  \E j \in 1..Len(seq) : first(j) /\ seq[j].ip = seq[k].ip
  <2> DEFINE S == {i \in 1..Len(seq) : seq[i].ip = seq[k].ip}
  <2>1. S \subseteq Nat /\ k \in S
    BY <1>1
  <2>2. IsFiniteSet(1..Len(seq)) /\ S \subseteq 1..Len(seq)
    BY <1>1, FS_Interval
  <2>3. IsFiniteSet(S)
    BY <2>2, FS_Subset
  <2> HIDE DEF S
  <2>4. PICK j \in S : \A i \in S : j <= i
    BY <2>1, <2>3, LeastElement
  <2>5. j \in 1..Len(seq) /\ seq[j].ip = seq[k].ip
    BY DEF S
  <2>6. ASSUME NEW i \in 1..(j - 1)
        PROVE  seq[i].ip # seq[j].ip
    <3>1. i \in 1..Len(seq) /\ ~(j <= i)
      BY <1>1, <2>5
    <3> QED BY <2>4, <2>5, <3>1 DEF S
  <2> QED BY <2>5, <2>6
<1>6. 1..((Len(seq) + 1) - 1) = 1..Len(seq)
  BY <1>1
<1>7. Ips(FirstOccurrences(seq)) \subseteq Met(seq, Len(seq) + 1)
  BY <1>2, <1>6 DEF Ips, Met
<1>8. Met(seq, Len(seq) + 1) \subseteq Ips(FirstOccurrences(seq))
  <2> SUFFICES ASSUME NEW k \in 1..Len(seq)
               PROVE  seq[k].ip \in Ips(FirstOccurrences(seq))
    BY <1>6 DEF Met
  <2>1. PICK j \in 1..Len(seq) : first(j) /\ seq[j].ip = seq[k].ip
    BY <1>5
  <2>2. seq[j] \in FirstOccurrences(seq)
    BY <1>2, <2>1
  <2> QED BY <2>1, <2>2 DEF Ips
<1>9. ASSUME NEW k \in 1..Len(seq), seq[k].ip \notin Met(seq, k)
      PROVE  seq[k] \in FirstOccurrences(seq)
  BY <1>2, <1>9 DEF Met
<1> QED BY <1>3, <1>4, <1>7, <1>8, <1>9

LEMMA FirstsCount ==
    ASSUME NEW seq \in Seq(Rec)
    PROVE  /\ IsFiniteSet(FirstOccurrences(seq))
           /\ Cardinality(FirstOccurrences(seq)) \in Nat
           /\ Cardinality(FirstOccurrences(seq)) <= Len(seq)
<1> DEFINE D == {j \in DOMAIN seq : \A k \in 1..(j - 1) : seq[k].ip # seq[j].ip}
           f == [i \in D |-> seq[i]]
<1>1. Len(seq) \in Nat /\ DOMAIN seq = 1..Len(seq)
  OBVIOUS
<1>2. IsFiniteSet(1..Len(seq)) /\ Cardinality(1..Len(seq)) = Len(seq)
  BY <1>1, FS_Interval
<1>3. D \in SUBSET (1..Len(seq))
  BY <1>1
<1>4. f \in Surjection(D, FirstOccurrences(seq))
  BY DEF Surjection, FirstOccurrences
<1> HIDE DEF D, f
<1>5. IsFiniteSet(D) /\ Cardinality(D) <= Len(seq)
  BY <1>2, <1>3, FS_Subset
<1>6. IsFiniteSet(FirstOccurrences(seq)) /\ Cardinality(FirstOccurrences(seq)) <= Cardinality(D)
  BY <1>4, <1>5, FS_Surjection
<1>7. Cardinality(D) \in Nat /\ Cardinality(FirstOccurrences(seq)) \in Nat
  BY <1>5, <1>6, FS_CardinalityType
<1> QED BY <1>1, <1>5, <1>6, <1>7

LEMMA IpsFinite ==
    ASSUME NEW recs, IsFiniteSet(recs)
    PROVE  IsFiniteSet(Ips(recs)) /\ Cardinality(Ips(recs)) <= Cardinality(recs)
<1> DEFINE f == [r \in recs |-> r.ip]
<1>1. f \in Surjection(recs, Ips(recs))
  BY DEF Surjection, Ips
<1> HIDE DEF f
<1> QED BY <1>1, FS_Surjection

-----------------------------------------------------------------------------
(* Merge and Update take these definitions from the same module.           *)

LEMMA SameDefinitions ==
    /\ M!Rec = Rec /\ M!OldEnds = OldEnds /\ M!NewKinds = NewKinds
    /\ M!Authoritative = Authoritative /\ M!Transient = Transient
    /\ \A seq : M!FirstOccurrences(seq) = FirstOccurrences(seq)
    /\ \A recs : M!Ips(recs) = Ips(recs)
    /\ \A recs, ip : M!RecordOf(recs, ip) = RecordOf(recs, ip)
    /\ \A S : M!Cardinality(S) = Cardinality(S)
<1>1. M!Rec = Rec
  BY DEF M!Rec, Rec, M!NoName, NoName
<1>2. M!OldEnds = OldEnds /\ M!NewKinds = NewKinds
  BY DEF M!OldEnds, OldEnds, M!NewKinds, NewKinds
<1>3. M!Authoritative = Authoritative /\ M!Transient = Transient
  BY DEF M!Authoritative, Authoritative, M!Transient, Transient
<1>4. \A seq : M!FirstOccurrences(seq) = FirstOccurrences(seq)
  BY DEF M!FirstOccurrences, FirstOccurrences
<1>5. \A recs : M!Ips(recs) = Ips(recs)
  BY DEF M!Ips, Ips
<1>6. \A recs, ip : M!RecordOf(recs, ip) = RecordOf(recs, ip)
  BY DEF M!RecordOf, RecordOf
<1>7. \A S : M!Cardinality(S) = Cardinality(S)
  BY DEF M!Cardinality, Cardinality
<1> QED BY <1>1, <1>2, <1>3, <1>4, <1>5, <1>6, <1>7

\* What the commands are started on.
LEMMA InputTypes ==
    ASSUME NEW i \in Inputs
    PROVE  /\ i.old \in [Shards -> [end : OldEnds, recs : Seq(Rec)]]
           /\ i.new \in [Shards -> [kind : NewKinds, recs : Seq(Rec)]]
           /\ i.allowPartial \in BOOLEAN
<1>1. i \in [old : OldPasses, new : NewPasses, allowPartial : BOOLEAN]
  BY PassesAssumption
<1> QED BY <1>1 DEF OldPasses, NewPasses

MergeTypes ==
    /\ old \in [Shards -> [end : OldEnds, recs : Seq(Rec)]]
    /\ new \in [Shards -> [kind : NewKinds, recs : Seq(Rec)]]
    /\ allowPartial \in BOOLEAN
    /\ mPc \in {"discover", "pair", "scan", "remove", "done", "failed"}
    /\ mTodo \subseteq Shards /\ (mPc \in {"scan", "remove"} => mTodo # {})
    /\ mAt \in Nat \ {0}
    /\ table \subseteq Rec /\ used \subseteq Addresses /\ mSeen \subseteq Addresses
    /\ out \in [Shards -> [state : {"none", "open", "partial", "final"}, recs : SUBSET Rec]]
    /\ counts \in [Statuses -> Nat] /\ mRes \in [M!Counters -> Nat]

LEMMA MergeTypesAre == MergeTypes <=> M!TypeOK
  BY SameDefinitions DEF MergeTypes, M!TypeOK

-----------------------------------------------------------------------------
(* What the policy gives an address.                                       *)

LEMMA CurrentIs ==
    ASSUME mTodo \subseteq Shards, mTodo # {}
    PROVE  M!Current \in mTodo
<1>1. mTodo \subseteq Nat /\ IsFiniteSet(mTodo)
  BY PassesAssumption, FS_Subset
<1>2. \E s \in mTodo : \A t \in mTodo : s <= t
  BY <1>1, LeastElement
<1> QED BY <1>2 DEF M!Current

Base(s)  == FirstOccurrences(old[s].recs)
Fresh(s) == FirstOccurrences(new[s].recs)

LEMMA DecisionsAre ==
    ASSUME NEW s
    PROVE  /\ DOMAIN M!DecisionsOf(s) = Ips(Base(s))
           /\ \A ip \in Ips(Base(s)) :
                /\ M!DecisionsOf(s)[ip] =
                     M!Decision(RecordOf(Base(s), ip), RecordOf(Fresh(s), ip), ip \in Ips(Fresh(s)))
                /\ M!DecisionsOf(s)[ip] \in Base(s) \cup Fresh(s)
                /\ M!DecisionsOf(s)[ip].ip = ip
<1>1. M!DecisionsOf(s) = [ip \in Ips(Base(s)) |->
          M!Decision(RecordOf(Base(s), ip), RecordOf(Fresh(s), ip), ip \in Ips(Fresh(s)))]
  BY SameDefinitions DEF M!DecisionsOf, Base, Fresh
<1>2. ASSUME NEW recs, NEW ip \in Ips(recs)
      PROVE  RecordOf(recs, ip) \in recs /\ RecordOf(recs, ip).ip = ip
  BY DEF RecordOf, Ips
<1>3. ASSUME NEW ip \in Ips(Base(s))
      PROVE  /\ M!DecisionsOf(s)[ip] \in Base(s) \cup Fresh(s)
             /\ M!DecisionsOf(s)[ip].ip = ip
  BY <1>1, <1>2 DEF M!Decision
<1> QED BY <1>1, <1>3

LEMMA BaseTypes ==
    ASSUME MergeTypes, NEW s \in Shards
    PROVE  /\ old[s].recs \in Seq(Rec) /\ new[s].recs \in Seq(Rec)
           /\ Base(s) \subseteq Rec /\ Fresh(s) \subseteq Rec
           /\ \A r, q \in Base(s) : r.ip = q.ip => r = q
           /\ \A r, q \in Fresh(s) : r.ip = q.ip => r = q
           /\ Ips(Base(s)) = Met(old[s].recs, Len(old[s].recs) + 1)
<1>1. old[s].recs \in Seq(Rec) /\ new[s].recs \in Seq(Rec)
  BY DEF MergeTypes
<1> QED BY <1>1, FirstsAre DEF Base, Fresh

-----------------------------------------------------------------------------
(* Types.                                                                  *)

LEMMA InitMergeTypes == M!Init => MergeTypes
<1> SUFFICES ASSUME M!Init
             PROVE  MergeTypes
  OBVIOUS
<1>1. /\ old \in [Shards -> [end : OldEnds, recs : Seq(Rec)]]
      /\ new \in [Shards -> [kind : NewKinds, recs : Seq(Rec)]]
      /\ allowPartial \in BOOLEAN
  BY InputTypes DEF M!Init
<1> QED BY <1>1 DEF M!Init, M!Begin, MergeTypes

\* The record under the scan and the entry of its address.
LEMMA ScanRow ==
    ASSUME MergeTypes, M!Scanning
    PROVE  /\ M!Current \in mTodo /\ M!Current \in Shards
           /\ mAt \in 1..Len(old[M!Current].recs)
           /\ M!Row = old[M!Current].recs[mAt] /\ M!Row \in Rec
           /\ M!Row.ip \in Addresses /\ M!Row.st \in Statuses
<1>1. M!Current \in mTodo /\ M!Current \in Shards
  BY CurrentIs DEF M!Scanning, MergeTypes
<1>2. old[M!Current].recs \in Seq(Rec) /\ mAt \in Nat \ {0} /\ mAt <= Len(old[M!Current].recs)
  BY <1>1, BaseTypes DEF M!Scanning, MergeTypes
<1>3. mAt \in 1..Len(old[M!Current].recs) /\ old[M!Current].recs[mAt] \in Rec
  BY <1>2
<1> QED BY <1>1, <1>3, RecFields DEF M!Row

LEMMA EntryIs ==
    ASSUME M!HasEntry
    PROVE  M!Entry \in table /\ M!Entry.ip = M!Row.ip
  BY SameDefinitions DEF M!HasEntry, M!Entry, Ips

\* A branch of the callback that writes a record.
Writes ==
    \/ M!CopyThrough \/ M!KeepMissing \/ M!TakePTR \/ M!TakeNegative \/ M!KeepGrace
    \/ M!TakeTransient

\* The record goes to the merged file and is counted, by one counter or by none.
Written(rec) ==
    /\ UNCHANGED <<old, new, allowPartial, mPc, mTodo, table>>
    /\ mAt' = mAt + 1 /\ mSeen' = mSeen \cup {M!Row.ip}
    /\ out' = [out EXCEPT ![M!Current].recs = @ \cup {rec}]
    /\ counts' = [counts EXCEPT ![rec.st] = @ + 1]
    /\ mRes' = mRes \/ \E c \in M!Counters : mRes' = [mRes EXCEPT ![c] = @ + 1]

LEMMA WrittenIs ==
    /\ \A rec : M!Write(rec, "") => Written(rec) /\ mRes' = mRes
    /\ \A rec : \A c \in M!Counters :
           M!Write(rec, c) => Written(rec) /\ mRes' = [mRes EXCEPT ![c] = @ + 1]
<1>1. \A c \in M!Counters : c # ""
  BY DEF M!Counters
<1>2. ASSUME NEW rec, M!Write(rec, "")
      PROVE  Written(rec) /\ mRes' = mRes
  BY <1>2 DEF M!Write, Written, M!inputVars
<1>3. ASSUME NEW rec, NEW c \in M!Counters, M!Write(rec, c)
      PROVE  Written(rec) /\ mRes' = [mRes EXCEPT ![c] = @ + 1]
  BY <1>1, <1>3 DEF M!Write, Written, M!inputVars
<1> QED BY <1>2, <1>3

LEMMA WritesAre ==
    ASSUME MergeTypes, Writes
    PROVE  /\ M!Scanning /\ M!Row.ip \notin mSeen
           /\ \E rec \in {M!Row, M!Entry} \cap Rec : Written(rec)
           /\ used' \in {used, used \cup {M!Row.ip}}
<1>1. M!Scanning /\ M!Row.ip \notin mSeen
  BY DEF Writes, M!CopyThrough, M!KeepMissing, M!TakePTR, M!TakeNegative, M!KeepGrace,
         M!TakeTransient, M!Paired
<1>2. M!Row \in Rec
  BY <1>1, ScanRow
<1>3. M!Paired => M!Entry \in Rec
  BY EntryIs DEF M!Paired, MergeTypes
<1>4. CASE M!CopyThrough
  BY <1>1, <1>2, <1>4, WrittenIs DEF M!CopyThrough
<1>5. CASE M!KeepMissing
  BY <1>1, <1>2, <1>5, WrittenIs DEF M!KeepMissing, M!Counters
<1>6. CASE M!TakePTR
  BY <1>1, <1>3, <1>6, WrittenIs DEF M!TakePTR, M!Counters
<1>7. CASE M!TakeNegative
  BY <1>1, <1>3, <1>7, WrittenIs DEF M!TakeNegative, M!Counters
<1>8. CASE M!KeepGrace
  BY <1>1, <1>2, <1>8, WrittenIs DEF M!KeepGrace, M!Counters
<1>9. CASE M!TakeTransient
  BY <1>1, <1>3, <1>9, WrittenIs DEF M!TakeTransient
<1> QED BY <1>4, <1>5, <1>6, <1>7, <1>8, <1>9 DEF Writes

LEMMA WriteTypes ==
    ASSUME MergeTypes, M!Scanning, NEW rec \in Rec, Written(rec), used' \subseteq Addresses
    PROVE  MergeTypes'
<1>1. /\ M!Current \in Shards /\ M!Row.ip \in Addresses /\ rec.st \in Statuses
  BY ScanRow, RecFields
<1>2. /\ UNCHANGED <<old, new, allowPartial, mPc, mTodo, table>>
      /\ mAt' = mAt + 1 /\ mSeen' = mSeen \cup {M!Row.ip}
  BY DEF Written
<1>3. mRes' \in [M!Counters -> Nat]
  <2>1. mRes \in [M!Counters -> Nat]
    BY DEF MergeTypes
  <2>2. mRes' = mRes \/ \E c \in M!Counters : mRes' = [mRes EXCEPT ![c] = @ + 1]
    BY DEF Written
  <2> QED BY <2>1, <2>2
<1>4. counts' \in [Statuses -> Nat]
  <2>1. counts \in [Statuses -> Nat]
    BY DEF MergeTypes
  <2>2. counts' = [counts EXCEPT ![rec.st] = @ + 1]
    BY DEF Written
  <2> QED BY <1>1, <2>1, <2>2
<1>5. out' \in [Shards -> [state : {"none", "open", "partial", "final"}, recs : SUBSET Rec]]
  <2>1. out' = [out EXCEPT ![M!Current].recs = @ \cup {rec}]
    BY DEF Written
  <2> QED BY <1>1, <2>1 DEF MergeTypes
<1> QED BY <1>1, <1>2, <1>3, <1>4, <1>5 DEF MergeTypes

LEMMA StepMergeTypes ==
    ASSUME MergeTypes, mPc = "scan" => IsFiniteSet(table), M!Step
    PROVE  MergeTypes'
<1>1. ASSUME UNCHANGED <<old, new, allowPartial, mTodo, mAt, table, used, mSeen, out, counts, mRes>>,
             mPc' \in {"pair", "done", "failed"}
      PROVE  MergeTypes'
  BY <1>1 DEF MergeTypes
<1>2. CASE \/ M!Discover \/ M!DiscoverFails \/ M!PairRejected \/ M!OutputFails \/ M!RemoveFails
           \/ M!Finish
  BY <1>1, <1>2 DEF M!Discover, M!DiscoverFails, M!PairRejected, M!OutputFails, M!RemoveFails,
                    M!Finish, M!Fail, M!inputVars
<1>3. CASE M!OpenPair
  <2> DEFINE s == M!Current
             k == Len(new[s].recs) - Cardinality(Fresh(s))
  <2>1. s \in Shards /\ mTodo # {}
    BY <1>3, CurrentIs DEF M!OpenPair, MergeTypes
  <2>2. Fresh(s) \subseteq Rec /\ new[s].recs \in Seq(Rec)
    BY <2>1, BaseTypes
  <2>3. k \in Nat
    BY <2>2, FirstsCount DEF Fresh
  <2>4. /\ UNCHANGED <<old, new, allowPartial, mTodo, counts>>
        /\ mPc' = "scan" /\ mAt' = 1 /\ used' = {} /\ mSeen' = {}
        /\ table' = Fresh(s)
        /\ out' = [out EXCEPT ![s] = [state |-> "open", recs |-> {}]]
        /\ mRes' = [mRes EXCEPT !["newDups"] = @ + Len(new[s].recs) - Cardinality(Fresh(s))]
    BY <1>3, SameDefinitions DEF M!OpenPair, M!inputVars, Fresh
  <2>5. mRes' \in [M!Counters -> Nat]
    <3>1. mRes["newDups"] + Len(new[s].recs) - Cardinality(Fresh(s)) = mRes["newDups"] + k
      BY <2>2, FirstsCount DEF MergeTypes, M!Counters, Fresh
    <3>2. mRes["newDups"] \in Nat /\ mRes["newDups"] + k \in Nat
      BY <2>3 DEF MergeTypes, M!Counters
    <3> QED BY <2>4, <3>1, <3>2 DEF MergeTypes
  <2>6. out' \in [Shards -> [state : {"none", "open", "partial", "final"}, recs : SUBSET Rec]]
    BY <2>1, <2>4 DEF MergeTypes
  <2> QED BY <2>1, <2>2, <2>4, <2>5, <2>6 DEF MergeTypes
<1>4. CASE M!OldDup
  <2>1. /\ UNCHANGED <<old, new, allowPartial, mPc, mTodo, table, used, mSeen, out, counts>>
        /\ mAt' = mAt + 1 /\ mRes' = [mRes EXCEPT !["oldDups"] = @ + 1]
    BY <1>4 DEF M!OldDup, M!inputVars
  <2>2. mRes' \in [M!Counters -> Nat]
    <3>1. mRes \in [M!Counters -> Nat]
      BY DEF MergeTypes
    <3> QED BY <2>1, <3>1 DEF M!Counters
  <2> QED BY <2>1, <2>2 DEF MergeTypes
<1>5. CASE Writes
  <2>1. used' \subseteq Addresses
    BY <1>5, WritesAre, ScanRow DEF MergeTypes
  <2> QED BY <1>5, <2>1, WritesAre, WriteTypes
<1>6. CASE M!BaselineBroken \/ M!RemoveShard \/ M!CloseFails
  <2>1. M!Current \in Shards /\ mTodo # {}
    BY <1>6, CurrentIs DEF M!BaselineBroken, M!RemoveShard, M!CloseFails, M!ScanEnded, MergeTypes
  <2>2. /\ UNCHANGED <<old, new, allowPartial, mTodo, mAt, table, used, mSeen, counts, mRes>>
        /\ mPc' \in {"remove", "failed"}
    BY <1>6 DEF M!BaselineBroken, M!RemoveShard, M!CloseFails, M!Fail, M!inputVars
  <2>3. \/ out' = [out EXCEPT ![M!Current] = [state |-> "none", recs |-> {}]]
        \/ \E st \in {"open", "partial", "final"} :
              out' = [out EXCEPT ![M!Current].state = st]
    BY <1>6 DEF M!BaselineBroken, M!RemoveShard, M!CloseFails
  <2>4. out' \in [Shards -> [state : {"none", "open", "partial", "final"}, recs : SUBSET Rec]]
    <3>1. out \in [Shards -> [state : {"none", "open", "partial", "final"}, recs : SUBSET Rec]]
      BY DEF MergeTypes
    <3>2. CASE out' = [out EXCEPT ![M!Current] = [state |-> "none", recs |-> {}]]
      BY <2>1, <3>1, <3>2
    <3>3. ASSUME NEW st \in {"open", "partial", "final"},
                 out' = [out EXCEPT ![M!Current].state = st]
          PROVE  out' \in [Shards -> [state : {"none", "open", "partial", "final"},
                                      recs : SUBSET Rec]]
      BY <2>1, <3>1, <3>3
    <3> QED BY <2>3, <3>2, <3>3
  <2> QED BY <2>1, <2>2, <2>4 DEF MergeTypes
<1>7. CASE M!CloseShard
  <2>1. M!Current \in Shards
    BY <1>7, CurrentIs DEF M!CloseShard, M!ScanEnded, MergeTypes
  <2>2. /\ UNCHANGED <<old, new, allowPartial, mAt, table, used, mSeen, counts>>
        /\ mPc' = "pair" /\ mTodo' = mTodo \ {M!Current}
        /\ out' = [out EXCEPT ![M!Current].state = "final"]
        /\ mRes' = [mRes EXCEPT !["unexpected"] = @ + Cardinality(Ips(table) \ used)]
    BY <1>7, SameDefinitions DEF M!CloseShard, M!inputVars
  <2>3. mRes' \in [M!Counters -> Nat]
    <3>1. IsFiniteSet(table)
      BY <1>7 DEF M!CloseShard, M!ScanEnded
    <3>2. IsFiniteSet(Ips(table))
      BY <3>1, IpsFinite
    <3>3. Cardinality(Ips(table) \ used) \in Nat
      BY <3>2, FS_Difference, FS_CardinalityType
    <3>4. mRes \in [M!Counters -> Nat]
      BY DEF MergeTypes
    <3> QED BY <2>2, <3>3, <3>4 DEF M!Counters
  <2>4. out' \in [Shards -> [state : {"none", "open", "partial", "final"}, recs : SUBSET Rec]]
    BY <2>1, <2>2 DEF MergeTypes
  <2> QED BY <2>1, <2>2, <2>3, <2>4 DEF MergeTypes
<1> QED BY <1>2, <1>3, <1>4, <1>5, <1>6, <1>7 DEF M!Step, Writes

-----------------------------------------------------------------------------
(* The invariant of the merge.                                             *)

\* Every address read from the baseline has its record.
Decided(s) == out[s].recs = {M!DecisionsOf(s)[ip] : ip \in DOMAIN M!DecisionsOf(s)}

\* A shard that is done with is published, a published shard is complete, and a
\* file with part of the baseline, or one whose Close failed, ends the run.
PublishedInv ==
    \A s \in Shards :
        /\ s \notin mTodo => out[s].state = "final"
        /\ out[s].state = "final" =>
              /\ Decided(s) /\ old[s].end = "eof" /\ M!Acceptable(new[s].kind)
              /\ s \in mTodo => mPc = "failed"
        /\ out[s].state = "partial" => Decided(s) /\ mPc \in {"remove", "failed"}

\* The merged file has the records of the addresses the scan has met.
ScanInv(s) ==
    /\ out[s].state = "open"
    /\ M!Acceptable(new[s].kind)
    /\ mAt <= Len(old[s].recs) + 1
    /\ table = Fresh(s)
    /\ mSeen = Met(old[s].recs, mAt)
    /\ out[s].recs = {M!DecisionsOf(s)[ip] : ip \in mSeen}

MergeInv ==
    /\ MergeTypes
    /\ PublishedInv
    /\ mPc = "done" => mTodo = {}
    /\ mPc = "scan" => ScanInv(M!Current)
    /\ mPc = "remove" => out[M!Current].state \in {"open", "partial"}

LEMMA MetInBase ==
    ASSUME MergeTypes, NEW s \in Shards, NEW k \in Nat \ {0}, k <= Len(old[s].recs) + 1
    PROVE  Met(old[s].recs, k) \subseteq Ips(Base(s))
<1>1. Len(old[s].recs) \in Nat /\ Ips(Base(s)) = Met(old[s].recs, Len(old[s].recs) + 1)
  BY BaseTypes
<1>2. 1..(k - 1) \subseteq 1..((Len(old[s].recs) + 1) - 1)
  BY <1>1
<1> QED BY <1>1, <1>2, Zenon DEF Met

LEMMA TableFinite ==
    ASSUME MergeInv
    PROVE  mPc = "scan" => IsFiniteSet(table)
<1> SUFFICES ASSUME mPc = "scan"
             PROVE  IsFiniteSet(table)
  OBVIOUS
<1>1. M!Current \in Shards
  BY CurrentIs DEF MergeInv, MergeTypes
<1>2. new[M!Current].recs \in Seq(Rec) /\ table = Fresh(M!Current)
  BY <1>1, BaseTypes DEF MergeInv, ScanInv
<1> QED BY <1>2, FirstsCount DEF Fresh

\* The branch taken writes the record the policy gives the address.
LEMMA WritesDecision ==
    ASSUME MergeInv, Writes
    PROVE  /\ M!Row.ip \in Ips(Base(M!Current))
           /\ Written(M!DecisionsOf(M!Current)[M!Row.ip])
<1> DEFINE s == M!Current
           ip == M!Row.ip
           o == RecordOf(Base(s), ip)
           n == RecordOf(Fresh(s), ip)
<1>1. MergeTypes /\ M!Scanning /\ ip \notin mSeen
  BY WritesAre DEF MergeInv
<1>2. /\ s \in Shards /\ mAt \in 1..Len(old[s].recs)
      /\ M!Row = old[s].recs[mAt]
      /\ table = Fresh(s) /\ mSeen = Met(old[s].recs, mAt)
  BY <1>1, ScanRow DEF MergeInv, M!Scanning, ScanInv
<1>3. M!Row \in Base(s)
  BY <1>1, <1>2, BaseTypes, FirstsAre DEF Base
<1>4. ip \in Ips(Base(s))
  BY <1>3 DEF Ips
<1>5. o = M!Row
  BY <1>1, <1>2, <1>3, BaseTypes DEF RecordOf
<1>6. n = M!Entry /\ (M!HasEntry <=> ip \in Ips(Fresh(s)))
  BY <1>2, SameDefinitions DEF M!Entry, M!HasEntry, RecordOf
<1>7. M!DecisionsOf(s)[ip] = M!Decision(M!Row, M!Entry, M!HasEntry)
  BY <1>4, <1>5, <1>6, DecisionsAre
<1>8. CASE M!CopyThrough
  <2>1. M!DecisionsOf(s)[ip] = M!Row
    BY <1>7, <1>8 DEF M!CopyThrough, M!Decision
  <2> QED BY <1>4, <1>8, <2>1, WrittenIs DEF M!CopyThrough
<1>9. CASE M!KeepMissing
  <2>1. M!DecisionsOf(s)[ip] = M!Row
    BY <1>7, <1>9 DEF M!KeepMissing, M!Decision
  <2> QED BY <1>4, <1>9, <2>1, WrittenIs DEF M!KeepMissing, M!Counters
<1>10. CASE M!TakePTR
  <2>1. M!DecisionsOf(s)[ip] = M!Entry
    BY <1>7, <1>10 DEF M!TakePTR, M!Paired, M!Decision, M!Transient
  <2> QED BY <1>4, <1>10, <2>1, WrittenIs DEF M!TakePTR, M!Counters
<1>11. CASE M!TakeNegative
  <2>1. M!DecisionsOf(s)[ip] = M!Entry
    BY <1>7, <1>11 DEF M!TakeNegative, M!Paired, M!Decision, M!Transient, M!Authoritative
  <2> QED BY <1>4, <1>11, <2>1, WrittenIs DEF M!TakeNegative, M!Counters
<1>12. CASE M!KeepGrace
  <2>1. M!DecisionsOf(s)[ip] = M!Row
    BY <1>7, <1>12 DEF M!KeepGrace, M!Decision
  <2> QED BY <1>4, <1>12, <2>1, WrittenIs DEF M!KeepGrace, M!Counters
<1>13. CASE M!TakeTransient
  <2>1. M!DecisionsOf(s)[ip] = M!Entry
    BY <1>7, <1>13 DEF M!TakeTransient, M!Paired, M!Decision
  <2> QED BY <1>4, <1>13, <2>1, WrittenIs DEF M!TakeTransient
<1> QED BY <1>8, <1>9, <1>10, <1>11, <1>12, <1>13 DEF Writes

LEMMA DecisionsSame ==
    ASSUME UNCHANGED <<old, new, allowPartial>>, NEW s
    PROVE  /\ M!DecisionsOf(s)' = M!DecisionsOf(s)
           /\ Fresh(s)' = Fresh(s)
           /\ M!Acceptable(new[s].kind)' <=> M!Acceptable(new[s].kind)
  BY DEF M!DecisionsOf, Fresh, M!Acceptable

LEMMA InitMergeInv == M!Init => MergeInv
<1> SUFFICES ASSUME M!Init
             PROVE  MergeInv
  OBVIOUS
<1>1. PublishedInv
  BY DEF M!Init, M!Begin, PublishedInv
<1> QED BY <1>1, InitMergeTypes DEF M!Init, M!Begin, MergeInv

\* The shard under the scan.
LEMMA CurrentInv ==
    ASSUME MergeInv, mTodo # {}, mPc # "failed"
    PROVE  /\ M!Current \in Shards /\ M!Current \in mTodo
           /\ out[M!Current].state # "final"
<1>1. M!Current \in mTodo /\ mTodo \subseteq Shards
  BY CurrentIs DEF MergeInv, MergeTypes
<1> QED BY <1>1 DEF MergeInv, PublishedInv

\* A step that only moves the program counter.
LEMMA QuietInv ==
    ASSUME MergeInv, MergeTypes', mPc # "failed", mPc = "remove" => mPc' = "failed",
           mPc' \notin {"scan", "remove"}, mPc' = "done" => mTodo = {},
           UNCHANGED <<old, new, allowPartial, mTodo, out>>
    PROVE  MergeInv'
<1>1. PublishedInv'
  BY DecisionsSame DEF MergeInv, PublishedInv, Decided
<1> QED BY <1>1 DEF MergeInv

LEMMA OpenInv ==
    ASSUME MergeInv, MergeTypes', M!OpenPair
    PROVE  MergeInv'
<1>0. PICK s : s = M!Current
  OBVIOUS
<1>1. /\ UNCHANGED <<old, new, allowPartial, mTodo>> /\ mTodo # {}
      /\ mPc = "pair" /\ mPc' = "scan" /\ mAt' = 1 /\ mSeen' = {} /\ table' = Fresh(s)
      /\ out' = [out EXCEPT ![s] = [state |-> "open", recs |-> {}]]
      /\ M!Acceptable(new[s].kind)
  BY <1>0, SameDefinitions DEF M!OpenPair, M!inputVars, Fresh
<1>2. s \in Shards /\ s \in mTodo
  BY <1>0, <1>1, CurrentInv
<1>3. M!Current' = s
  BY <1>0, <1>1 DEF M!Current
<1>4. /\ out'[s].state = "open" /\ out'[s].recs = {}
      /\ \A t \in Shards \ {s} : out'[t] = out[t]
  BY <1>0, <1>1, <1>2 DEF MergeInv, MergeTypes
<1>5. PublishedInv'
  BY <1>0, <1>1, <1>2, <1>4, DecisionsSame DEF MergeInv, PublishedInv, Decided
<1>6. Len(old[s].recs) \in Nat /\ Met(old[s].recs, 1) = {}
  BY <1>0, <1>2, BaseTypes DEF MergeInv, Met
<1>7. ScanInv(s)'
  BY <1>0, <1>1, <1>4, <1>6, DecisionsSame DEF ScanInv
<1> QED BY <1>0, <1>1, <1>3, <1>5, <1>7 DEF MergeInv

LEMMA DupInv ==
    ASSUME MergeInv, MergeTypes', M!OldDup
    PROVE  MergeInv'
<1>0. PICK s : s = M!Current
  OBVIOUS
<1>1. /\ UNCHANGED <<old, new, allowPartial, mPc, mTodo, table, mSeen, out>>
      /\ mAt' = mAt + 1 /\ M!Scanning /\ M!Row.ip \in mSeen /\ mPc = "scan"
  BY <1>0 DEF M!OldDup, M!inputVars, M!Scanning
<1>2. s \in Shards /\ mAt \in 1..Len(old[s].recs) /\ M!Row = old[s].recs[mAt]
  BY <1>0, <1>1, ScanRow DEF MergeInv
<1>3. M!Current' = s
  BY <1>0, <1>1 DEF M!Current
<1>4. old[s].recs \in Seq(Rec) /\ ScanInv(s)
  BY <1>0, <1>1, <1>2, BaseTypes DEF MergeInv
<1>5. Met(old[s].recs, mAt + 1) = mSeen /\ mAt + 1 <= Len(old[s].recs) + 1
  <2>1. mAt \in Nat \ {0} /\ mAt <= Len(old[s].recs) /\ Len(old[s].recs) \in Nat
    BY <1>2, <1>4
  <2>2. Met(old[s].recs, mAt + 1) = mSeen \cup {M!Row.ip}
    BY <1>2, <1>4, <2>1, MetIs DEF ScanInv
  <2>3. mSeen \cup {M!Row.ip} = mSeen
    BY <1>1
  <2>4. mAt + 1 <= Len(old[s].recs) + 1
    BY <2>1
  <2> QED BY <2>2, <2>3, <2>4, Zenon
<1>6. ScanInv(s)'
  BY <1>0, <1>1, <1>4, <1>5, DecisionsSame DEF ScanInv
<1>7. PublishedInv'
  BY <1>0, <1>1, DecisionsSame DEF MergeInv, PublishedInv, Decided
<1> QED BY <1>0, <1>1, <1>3, <1>6, <1>7 DEF MergeInv

LEMMA WriteInv ==
    ASSUME MergeInv, MergeTypes', Writes
    PROVE  MergeInv'
<1>0. PICK s : s = M!Current
  OBVIOUS
<1> DEFINE ip == M!Row.ip
           rec == M!DecisionsOf(s)[ip]
<1>1. M!Scanning /\ mPc = "scan" /\ Written(rec)
  BY <1>0, WritesAre, WritesDecision DEF MergeInv, M!Scanning
<1>2. /\ UNCHANGED <<old, new, allowPartial, mPc, mTodo, table>>
      /\ mAt' = mAt + 1 /\ mSeen' = mSeen \cup {ip}
      /\ out' = [out EXCEPT ![s].recs = @ \cup {rec}]
  BY <1>0, <1>1 DEF Written
<1>3. s \in Shards /\ s \in mTodo /\ mAt \in 1..Len(old[s].recs) /\ M!Row = old[s].recs[mAt]
  BY <1>0, <1>1, ScanRow DEF MergeInv
<1>4. M!Current' = s
  BY <1>0, <1>2 DEF M!Current
<1>5. /\ out'[s].state = out[s].state /\ out'[s].recs = out[s].recs \cup {rec}
      /\ \A t \in Shards \ {s} : out'[t] = out[t]
  BY <1>0, <1>2, <1>3 DEF MergeInv, MergeTypes
<1>6. old[s].recs \in Seq(Rec) /\ ScanInv(s)
  BY <1>0, <1>1, <1>3, BaseTypes DEF MergeInv
<1>7. PublishedInv'
  BY <1>0, <1>2, <1>3, <1>5, <1>6, DecisionsSame DEF MergeInv, PublishedInv, Decided, ScanInv
<1>8. mSeen' = Met(old[s].recs, mAt + 1) /\ mAt + 1 <= Len(old[s].recs) + 1
  BY <1>0, <1>2, <1>3, <1>6, MetIs DEF ScanInv
<1>9. out'[s].recs = {M!DecisionsOf(s)[i] : i \in mSeen'}
  <2>1. out[s].recs = {M!DecisionsOf(s)[i] : i \in mSeen}
    BY <1>0, <1>6 DEF ScanInv
  <2> QED BY <1>0, <1>2, <1>5, <2>1, Zenon
<1>10. ScanInv(s)'
  BY <1>0, <1>2, <1>5, <1>6, <1>8, <1>9, DecisionsSame DEF ScanInv
<1> QED BY <1>0, <1>1, <1>2, <1>4, <1>7, <1>10 DEF MergeInv

\* The scan has met every address of the baseline.
LEMMA EndIsWhole ==
    ASSUME MergeInv, M!ScanEnded
    PROVE  /\ mSeen = DOMAIN M!DecisionsOf(M!Current)
           /\ out[M!Current].recs = {M!DecisionsOf(M!Current)[ip] : ip \in mSeen}
<1> DEFINE s == M!Current
<1>1. MergeTypes /\ s \in Shards /\ mPc = "scan" /\ ScanInv(s) /\ mAt > Len(old[s].recs)
  BY CurrentInv DEF M!ScanEnded, MergeInv, MergeTypes
<1>2. Len(old[s].recs) \in Nat /\ mAt \in Nat
  BY <1>1, BaseTypes DEF MergeTypes
<1>3. mAt = Len(old[s].recs) + 1
  BY <1>1, <1>2 DEF ScanInv
<1>4. mSeen = Ips(Base(s))
  BY <1>1, <1>3, BaseTypes DEF ScanInv
<1> QED BY <1>1, <1>4, DecisionsAre DEF ScanInv

LEMMA CloseShardInv ==
    ASSUME MergeInv, MergeTypes', M!CloseShard
    PROVE  MergeInv'
<1>0. PICK s : s = M!Current
  OBVIOUS
<1>1. /\ UNCHANGED <<old, new, allowPartial>> /\ mTodo' = mTodo \ {s}
      /\ mPc' = "pair" /\ mPc = "scan" /\ M!ScanEnded /\ old[s].end = "eof"
      /\ out' = [out EXCEPT ![s].state = "final"]
  BY <1>0 DEF M!CloseShard, M!inputVars, M!ScanEnded
<1>2. s \in Shards /\ s \in mTodo /\ ScanInv(s)
  BY <1>0, <1>1, CurrentInv DEF MergeInv, MergeTypes
<1>3. /\ out'[s].state = "final" /\ out'[s].recs = out[s].recs
      /\ \A t \in Shards \ {s} : out'[t] = out[t]
  BY <1>0, <1>1, <1>2 DEF MergeInv, MergeTypes
<1>4. Decided(s)' /\ M!Acceptable(new[s].kind)'
  BY <1>0, <1>1, <1>2, <1>3, EndIsWhole, DecisionsSame DEF Decided, ScanInv
<1>5. PublishedInv'
  BY <1>0, <1>1, <1>3, <1>4, DecisionsSame DEF MergeInv, PublishedInv, Decided
<1> QED BY <1>0, <1>1, <1>5 DEF MergeInv

\* The scan ends the run: the file keeps its records, and its header may be valid.
LEMMA EndsRunInv ==
    ASSUME MergeInv, MergeTypes', M!BaselineBroken \/ M!CloseFails
    PROVE  MergeInv'
<1>0. PICK s : s = M!Current
  OBVIOUS
<1>1. /\ UNCHANGED <<old, new, allowPartial, mTodo>> /\ mPc = "scan" /\ M!ScanEnded
      /\ \/ /\ mPc' = "remove"
            /\ \E st \in {"open", "partial"} : out' = [out EXCEPT ![s].state = st]
         \/ /\ mPc' = "failed" /\ old[s].end = "eof"
            /\ \E st \in {"open", "final"} : out' = [out EXCEPT ![s].state = st]
  BY <1>0 DEF M!BaselineBroken, M!CloseFails, M!Fail, M!inputVars, M!ScanEnded
<1>2. s \in Shards /\ s \in mTodo /\ ScanInv(s)
  BY <1>0, <1>1, CurrentInv DEF MergeInv, MergeTypes
<1>3. /\ \/ mPc' = "remove" /\ out'[s].state \in {"open", "partial"}
         \/ mPc' = "failed" /\ old[s].end = "eof" /\ out'[s].state \in {"open", "final"}
      /\ out'[s].recs = out[s].recs
      /\ \A t \in Shards \ {s} : out'[t] = out[t]
  BY <1>1, <1>2 DEF MergeInv, MergeTypes
<1>4. Decided(s)' /\ M!Acceptable(new[s].kind)'
  BY <1>0, <1>1, <1>2, <1>3, EndIsWhole, DecisionsSame DEF Decided, ScanInv
<1>5. PublishedInv'
  BY <1>0, <1>1, <1>2, <1>3, <1>4, DecisionsSame DEF MergeInv, PublishedInv, Decided
<1>6. M!Current' = s
  BY <1>0, <1>1 DEF M!Current
<1> QED BY <1>1, <1>3, <1>5, <1>6 DEF MergeInv

\* The file is removed.
LEMMA RemoveInv ==
    ASSUME MergeInv, MergeTypes', M!RemoveShard
    PROVE  MergeInv'
<1> DEFINE s == M!Current
<1>1. /\ UNCHANGED <<old, new, allowPartial, mTodo>> /\ mPc' = "failed" /\ mPc = "remove"
      /\ out' = [out EXCEPT ![s] = [state |-> "none", recs |-> {}]]
  BY DEF M!RemoveShard, M!Fail, M!inputVars
<1>2. s \in Shards /\ s \in mTodo
  BY <1>1, CurrentInv DEF MergeInv, MergeTypes
<1>3. out'[s].state = "none" /\ \A t \in Shards \ {s} : out'[t] = out[t]
  BY <1>1, <1>2 DEF MergeInv, MergeTypes
<1>4. PublishedInv'
  BY <1>1, <1>2, <1>3, DecisionsSame DEF MergeInv, PublishedInv, Decided
<1> QED BY <1>1, <1>4 DEF MergeInv

LEMMA StepMergeInv ==
    ASSUME MergeInv, M!Step
    PROVE  MergeInv'
<1>1. MergeTypes'
  BY StepMergeTypes, TableFinite DEF MergeInv
<1>2. CASE \/ M!Discover \/ M!DiscoverFails \/ M!PairRejected \/ M!OutputFails \/ M!RemoveFails
           \/ M!Finish
  <2>1. /\ UNCHANGED <<old, new, allowPartial, mTodo, out>>
        /\ mPc # "failed" /\ (mPc = "remove" => mPc' = "failed")
        /\ mPc' \notin {"scan", "remove"} /\ (mPc' = "done" => mTodo = {})
    BY <1>2 DEF M!Discover, M!DiscoverFails, M!PairRejected, M!OutputFails, M!RemoveFails,
                M!Finish, M!Fail, M!inputVars
  <2> QED BY <1>1, <2>1, QuietInv
<1> QED
  BY <1>1, <1>2, OpenInv, DupInv, WriteInv, EndsRunInv, RemoveInv, CloseShardInv
     DEF M!Step, Writes

-----------------------------------------------------------------------------
(* The merge as part of an update.                                         *)

LEMMA CompareKeepsInput == C!Step => UNCHANGED <<old, new>>
  BY DEF C!Step, C!Discover, C!SkipShard, C!LoadShard, C!LoadFails, C!Unexpected, C!NewDup,
         C!Ignore, C!Join, C!EndShard, C!JoinFails, C!Finalize, C!inputVars

\* Each command starts as it would alone.
LEMMA InitBoth == Init => C!Init /\ M!Init
  BY DEF Init, C!Init, M!Init

LEMMA MergeSees ==
    ASSUME [Next]_vars
    PROVE  M!Step \/ UNCHANGED <<old, new, mergeVars>>
  BY CompareKeepsInput DEF Next, RunCompare, RunMerge, Ended, vars

LEMMA MergeStutters ==
    ASSUME MergeInv, UNCHANGED <<old, new, mergeVars>>
    PROVE  MergeInv'
<1>1. /\ UNCHANGED <<old, new, allowPartial, mTodo, out, mAt, mPc, table, mSeen>>
      /\ UNCHANGED <<used, counts, mRes>>
  BY DEF mergeVars
<1>2. MergeTypes'
  BY <1>1 DEF MergeInv, MergeTypes
<1>3. PublishedInv'
  BY <1>1, DecisionsSame DEF MergeInv, PublishedInv, Decided
<1>4. PICK s : s = M!Current
  OBVIOUS
<1>5. s = M!Current'
  BY <1>1, <1>4 DEF M!Current
<1>6. mPc = "scan" => ScanInv(s)'
  BY <1>1, <1>4, DecisionsSame DEF MergeInv, ScanInv
<1>7. mPc = "remove" => out'[s].state \in {"open", "partial"}
  BY <1>1, <1>4 DEF MergeInv
<1> QED BY <1>1, <1>2, <1>3, <1>4, <1>5, <1>6, <1>7 DEF MergeInv

LEMMA MergeInvariance == Spec => []MergeInv
<1>1. Init => MergeInv
  BY InitMergeInv, InitBoth
<1>2. MergeInv /\ [Next]_vars => MergeInv'
  BY MergeSees, StepMergeInv, MergeStutters
<1> QED BY <1>1, <1>2, PTL DEF Spec

\* A merged shard with a valid header has exactly one record per address that could be
\* read from its baseline shard, the one the policy gives, however the run ends and for
\* any number of duplicates in either pass; and no run goes on or succeeds after a
\* baseline shard that could not be read to its end (mergeShard).
THEOREM FinalShardsFollowPolicyHolds == Spec => []FinalShardsFollowPolicy
<1>1. MergeInv => FinalShardsFollowPolicy
  BY DEF MergeInv, PublishedInv, Decided, FinalShardsFollowPolicy, M!FinalShardsFollowPolicy
<1> QED BY <1>1, MergeInvariance, PTL

\* A merge that reports success has published every shard of the baseline, and without
\* --allow-partial every re-crawl shard was there and whole (Run).
THEOREM SuccessIsCompleteHolds == Spec => []SuccessIsComplete
<1>1. MergeInv => SuccessIsComplete
  BY DEF MergeInv, PublishedInv, SuccessIsComplete, M!SuccessIsComplete, M!Acceptable
<1> QED BY <1>1, MergeInvariance, PTL

-----------------------------------------------------------------------------
(* The streaming merge implements the policy.                              *)

LEMMA InitPolicy == M!Init => M!Policy!PolicyInit
<1> SUFFICES ASSUME M!Init
             PROVE  M!Policy!PolicyInit
  OBVIOUS
<1>1. M!Merged = {}
  BY DEF M!Init, M!Begin, M!Merged
<1> QED BY <1>1 DEF M!Policy!PolicyInit, M!Init, M!Begin

LEMMA PolicyStutters ==
    ASSUME UNCHANGED <<old, new, allowPartial, out>>
    PROVE  UNCHANGED M!Policy!policyVars
<1>1. [s \in Shards |-> M!DecisionsOf(s)]' = [s \in Shards |-> M!DecisionsOf(s)]
  BY DEF M!DecisionsOf
<1> QED BY <1>1 DEF M!Policy!policyVars, M!Merged

\* An open shard becomes empty.
LEMMA EmptiesShard ==
    ASSUME MergeTypes, UNCHANGED <<old, new, allowPartial>>, NEW s \in Shards,
           out[s].state # "final", NEW e, e.state # "final", e.recs = {},
           out' = [out EXCEPT ![s] = e]
    PROVE  M!Policy!PolicyNext
<1>1. [t \in Shards |-> M!DecisionsOf(t)]' = [t \in Shards |-> M!DecisionsOf(t)]
  BY DEF M!DecisionsOf
<1>2. out'[s] = e /\ \A t \in Shards \ {s} : out'[t] = out[t]
  BY DEF MergeTypes
<1>3. s \notin M!Merged /\ M!Merged' = M!Merged
  BY <1>2 DEF M!Merged
<1>4. [t \in Shards |-> out[t].recs]' = [[t \in Shards |-> out[t].recs] EXCEPT ![s] = {}]
  <2>1. \A t \in Shards : out'[t].recs = IF t = s THEN {} ELSE out[t].recs
    BY <1>2
  <2> QED BY <2>1
<1>5. M!Policy!Withdraw(s)
  BY <1>1, <1>3, <1>4 DEF M!Policy!Withdraw
<1> QED BY <1>5 DEF M!Policy!PolicyNext

LEMMA WritePolicy ==
    ASSUME MergeInv, Writes
    PROVE  M!Policy!PolicyNext
<1>0. PICK s : s = M!Current
  OBVIOUS
<1>ip. PICK ip : ip = M!Row.ip
  OBVIOUS
<1> DEFINE rec == M!DecisionsOf(s)[ip]
<1>1. M!Scanning /\ mPc = "scan" /\ ip \notin mSeen /\ ip \in Ips(Base(s)) /\ Written(rec)
  BY <1>0, <1>ip, WritesAre, WritesDecision DEF MergeInv, M!Scanning
<1>2. /\ UNCHANGED <<old, new, allowPartial>>
      /\ out' = [out EXCEPT ![s].recs = @ \cup {rec}]
  BY <1>0, <1>1 DEF Written
<1>3. s \in Shards /\ out[s].state # "final" /\ ScanInv(s) /\ MergeTypes
  BY <1>0, <1>1, CurrentInv DEF MergeInv, MergeTypes
<1>4. [t \in Shards |-> M!DecisionsOf(t)]' = [t \in Shards |-> M!DecisionsOf(t)]
  BY <1>2 DEF M!DecisionsOf
<1>5. /\ out'[s].state = out[s].state /\ out'[s].recs = out[s].recs \cup {rec}
      /\ \A t \in Shards \ {s} : out'[t] = out[t]
  BY <1>2, <1>3 DEF MergeTypes
<1>6. s \notin M!Merged /\ M!Merged' = M!Merged
  BY <1>3, <1>5 DEF M!Merged
<1>7. [t \in Shards |-> out[t].recs]' =
          [[t \in Shards |-> out[t].recs] EXCEPT ![s] = @ \cup {rec}]
  BY <1>3, <1>5
<1>8. ip \in DOMAIN M!DecisionsOf(s)
  BY <1>1, DecisionsAre
<1>9. \A r \in out[s].recs : r.ip # ip
  <2>1. mAt \in Nat \ {0} /\ mSeen = Met(old[s].recs, mAt) /\ mAt <= Len(old[s].recs) + 1
    BY <1>3 DEF ScanInv, MergeTypes
  <2>2. mSeen \subseteq Ips(Base(s))
    BY <1>3, <2>1, MetInBase
  <2>3. \A i \in mSeen : M!DecisionsOf(s)[i].ip = i
    BY <2>2, DecisionsAre
  <2>4. out[s].recs = {M!DecisionsOf(s)[i] : i \in mSeen}
    BY <1>3 DEF ScanInv
  <2> QED BY <1>1, <2>3, <2>4
<1>10. M!Policy!MergeAddress(s, ip)
  BY <1>3, <1>4, <1>6, <1>7, <1>8, <1>9 DEF M!Policy!MergeAddress, M!Policy!Baseline
<1>11. ip \in M!Policy!Baseline(s)
  BY <1>3, <1>8 DEF M!Policy!Baseline
<1> QED BY <1>3, <1>10, <1>11 DEF M!Policy!PolicyNext

\* A file whose last record was written gets a valid header.
LEMMA ClosePolicy ==
    ASSUME MergeInv, mPc = "scan", M!ScanEnded, UNCHANGED <<old, new, allowPartial>>,
           out' = [out EXCEPT ![M!Current].state = "final"]
    PROVE  M!Policy!PolicyNext
<1>0. PICK s : s = M!Current
  OBVIOUS
<1>1. /\ UNCHANGED <<old, new, allowPartial>> /\ mPc = "scan" /\ M!ScanEnded
      /\ out' = [out EXCEPT ![s].state = "final"]
  BY <1>0
<1>2. s \in Shards /\ out[s].state # "final" /\ MergeTypes
  BY <1>0, <1>1, CurrentInv DEF MergeInv, MergeTypes
<1>3. [t \in Shards |-> M!DecisionsOf(t)]' = [t \in Shards |-> M!DecisionsOf(t)]
  BY <1>1 DEF M!DecisionsOf
<1>4. /\ out'[s].state = "final" /\ out'[s].recs = out[s].recs
      /\ \A t \in Shards \ {s} : out'[t] = out[t]
  BY <1>1, <1>2 DEF MergeTypes
<1>5. s \notin M!Merged /\ M!Merged' = M!Merged \cup {s}
  BY <1>2, <1>4 DEF M!Merged
<1>6. [t \in Shards |-> out[t].recs]' = [t \in Shards |-> out[t].recs]
  BY <1>2, <1>4
<1>7. {r.ip : r \in out[s].recs} = DOMAIN M!DecisionsOf(s)
  <2>1. /\ mSeen = DOMAIN M!DecisionsOf(s)
        /\ out[s].recs = {M!DecisionsOf(s)[ip] : ip \in mSeen}
    BY <1>0, <1>1, EndIsWhole
  <2>2. \A ip \in mSeen : M!DecisionsOf(s)[ip].ip = ip
    BY <2>1, DecisionsAre
  <2> QED BY <2>1, <2>2
<1>8. M!Policy!Publish(s)
  BY <1>2, <1>3, <1>5, <1>6, <1>7 DEF M!Policy!Publish, M!Policy!Baseline
<1> QED BY <1>2, <1>8 DEF M!Policy!PolicyNext

\* The header of a file that is not published does not matter.
LEMMA HeaderPolicy ==
    ASSUME MergeTypes, UNCHANGED <<old, new, allowPartial>>, NEW s \in Shards,
           out[s].state # "final", NEW st, st # "final",
           out' = [out EXCEPT ![s].state = st]
    PROVE  UNCHANGED M!Policy!policyVars
<1>1. [t \in Shards |-> M!DecisionsOf(t)]' = [t \in Shards |-> M!DecisionsOf(t)]
  BY DEF M!DecisionsOf
<1>2. /\ out'[s].state = st /\ out'[s].recs = out[s].recs
      /\ \A t \in Shards \ {s} : out'[t] = out[t]
  BY DEF MergeTypes
<1>3. M!Merged' = M!Merged
  BY <1>2 DEF M!Merged
<1>4. [t \in Shards |-> out[t].recs]' = [t \in Shards |-> out[t].recs]
  BY <1>2
<1> QED BY <1>1, <1>3, <1>4 DEF M!Policy!policyVars

LEMMA StepPolicy ==
    ASSUME MergeInv, M!Step
    PROVE  [M!Policy!PolicyNext]_(M!Policy!policyVars)
<1>0. PICK s : s = M!Current
  OBVIOUS
<1>1. CASE M!OpenPair \/ M!RemoveShard
  <2>1. /\ UNCHANGED <<old, new, allowPartial>> /\ mTodo # {} /\ mPc # "failed"
        /\ \E st \in {"open", "none"} : out' = [out EXCEPT ![s] = [state |-> st, recs |-> {}]]
    BY <1>0, <1>1 DEF M!OpenPair, M!RemoveShard, M!Fail, M!inputVars, MergeInv, MergeTypes
  <2>2. s \in Shards /\ out[s].state # "final" /\ MergeTypes
    BY <1>0, <2>1, CurrentInv DEF MergeInv
  <2>3. PICK st \in {"open", "none"} : out' = [out EXCEPT ![s] = [state |-> st, recs |-> {}]]
    BY <2>1
  <2>4. [state |-> st, recs |-> {}].state # "final" /\ [state |-> st, recs |-> {}].recs = {}
    OBVIOUS
  <2> QED BY <2>1, <2>2, <2>3, <2>4, EmptiesShard
<1>2. CASE \/ M!Discover \/ M!DiscoverFails \/ M!PairRejected \/ M!OutputFails \/ M!RemoveFails
           \/ M!Finish \/ M!OldDup
  <2>1. UNCHANGED <<old, new, allowPartial, out>>
    BY <1>2 DEF M!Discover, M!DiscoverFails, M!PairRejected, M!OutputFails, M!RemoveFails,
                M!Finish, M!OldDup, M!Fail, M!inputVars
  <2> QED BY <2>1, PolicyStutters
<1>3. CASE M!BaselineBroken \/ M!CloseFails \/ M!CloseShard
  <2>1. /\ UNCHANGED <<old, new, allowPartial>> /\ mPc = "scan" /\ M!ScanEnded
        /\ \/ \E st \in {"open", "partial"} : out' = [out EXCEPT ![s].state = st]
           \/ out' = [out EXCEPT ![s].state = "final"]
    BY <1>0, <1>3 DEF M!BaselineBroken, M!CloseFails, M!CloseShard, M!Fail, M!inputVars,
                      M!ScanEnded
  <2>2. s \in Shards /\ out[s].state # "final" /\ MergeTypes
    BY <1>0, <2>1, CurrentInv DEF MergeInv, MergeTypes
  <2>3. CASE \E st \in {"open", "partial"} : out' = [out EXCEPT ![s].state = st]
    BY <2>1, <2>2, <2>3, HeaderPolicy
  <2>4. CASE out' = [out EXCEPT ![s].state = "final"]
    BY <1>0, <2>1, <2>4, ClosePolicy
  <2> QED BY <2>1, <2>3, <2>4
<1> QED BY <1>1, <1>2, <1>3, WritePolicy DEF M!Step, Writes

\* Every step of the merge is a step the policy allows, or none: the streaming merge
\* of the table and the scan implements MergePolicy (mergeShard).
THEOREM FollowsPolicyHolds == Spec => FollowsPolicy
<1>1. Init => M!Policy!PolicyInit
  BY InitPolicy, InitBoth
<1>2. MergeInv /\ [Next]_vars => [M!Policy!PolicyNext]_(M!Policy!policyVars)
  <2> SUFFICES ASSUME MergeInv, [Next]_vars
               PROVE  [M!Policy!PolicyNext]_(M!Policy!policyVars)
    OBVIOUS
  <2>1. CASE M!Step
    BY <2>1, StepPolicy
  <2>2. CASE UNCHANGED <<old, new, mergeVars>>
    BY <2>2, PolicyStutters DEF mergeVars
  <2> QED BY <2>1, <2>2, MergeSees
<1> QED
  BY <1>1, <1>2, MergeInvariance, PTL DEF Spec, FollowsPolicy, M!FollowsPolicy, M!Policy!PolicySpec
=============================================================================
