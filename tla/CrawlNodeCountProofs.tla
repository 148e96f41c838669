------------------------- MODULE CrawlNodeCountProofs -------------------------
(***************************************************************************)
(* Theorems about CrawlNode that count: every record is handled once, a    *)
(* stop loses a bounded number of targets, and the header's total is what  *)
(* the file holds.                                                         *)
(***************************************************************************)
EXTENDS CrawlNodeProofs, FiniteSetTheorems, SequenceTheorems

-----------------------------------------------------------------------------
(* Counting.                                                               *)

LEMMA PosFinite == IsFiniteSet(Pos)
  BY FS_Interval, NodeAssumption DEF Pos

LEMMA RecFinite == IsFiniteSet(Rec)
<1> DEFINE f == [x \in Pos \X BOOLEAN |-> [pos |-> x[1], real |-> x[2]]]
<1>1. IsFiniteSet(BOOLEAN)
  <2>1. BOOLEAN = {TRUE} \cup {FALSE}
    OBVIOUS
  <2>2. IsFiniteSet({TRUE} \cup {FALSE})
    BY FS_Singleton, FS_AddElement, Zenon
  <2> QED BY <2>1, <2>2, Zenon
<1>2. IsFiniteSet(Pos \X BOOLEAN)
  BY <1>1, PosFinite, FS_Product
<1>3. f \in Surjection(Pos \X BOOLEAN, Rec)
  <2>1. f \in [Pos \X BOOLEAN -> Rec]
    BY DEF Rec
  <2>2. ASSUME NEW r \in Rec PROVE \E x \in Pos \X BOOLEAN : f[x] = r
    <3>1. <<r.pos, r.real>> \in Pos \X BOOLEAN /\ f[<<r.pos, r.real>>] = r
      BY DEF Rec
    <3> QED BY <3>1
  <2> QED BY <2>1, <2>2 DEF Surjection
<1> QED BY <1>2, <1>3, FS_Surjection

LEMMA LenInterval ==
    ASSUME NEW n \in Nat
    PROVE  IsFiniteSet(1..n) /\ Cardinality(1..n) = n
<1>1. IsFiniteSet(1..n) /\ Cardinality(1..n) = IF 1 > n THEN 0 ELSE n - 1 + 1
  BY FS_Interval
<1> QED BY <1>1

LEMMA LenElems ==
    ASSUME NEW S, NEW q \in Seq(S)
    PROVE  /\ IsFiniteSet(Elems(q))
           /\ Cardinality(Elems(q)) \in Nat
           /\ Cardinality(Elems(q)) <= Len(q)
<1>1. q \in Surjection(1..Len(q), Elems(q))
  BY DEF Surjection, Elems
<1>2. IsFiniteSet(1..Len(q)) /\ Cardinality(1..Len(q)) = Len(q)
  BY LenInterval
<1> QED BY <1>1, <1>2, FS_Surjection, FS_CardinalityType

LEMMA PositionsCount ==
    ASSUME NEW S, IsFiniteSet(S)
    PROVE  /\ IsFiniteSet(Positions(S))
           /\ Cardinality(Positions(S)) \in Nat
           /\ Cardinality(Positions(S)) <= Cardinality(S)
<1> DEFINE f == [r \in S |-> r.pos]
<1>1. f \in Surjection(S, Positions(S))
  BY DEF Surjection, Positions
<1> QED BY <1>1, FS_Surjection, FS_CardinalityType

\* The places of the records in a sequence of blocks.
Places(d) == UNION {{i} \X d[i] : i \in DOMAIN d}

LEMMA PlacesMember ==
    ASSUME NEW d \in Seq(SUBSET Rec)
    PROVE  /\ \A x \in Places(d) : /\ x = <<x[1], x[2]>> /\ x[1] \in 1..Len(d)
                                   /\ x[2] \in d[x[1]] /\ x[2] \in Rec
           /\ \A i \in 1..Len(d) : \A r \in d[i] : <<i, r>> \in Places(d)
<1>1. DOMAIN d = 1..Len(d)
  OBVIOUS
<1>2. ASSUME NEW x \in Places(d)
      PROVE  /\ x = <<x[1], x[2]>> /\ x[1] \in 1..Len(d)
             /\ x[2] \in d[x[1]] /\ x[2] \in Rec
  <2>1. PICK i \in 1..Len(d) : x \in {i} \X d[i]
    BY <1>1 DEF Places
  <2> QED BY <2>1
<1>3. ASSUME NEW i \in 1..Len(d), NEW r \in d[i]
      PROVE  <<i, r>> \in Places(d)
  <2>1. <<i, r>> \in {i} \X d[i]
    OBVIOUS
  <2> QED BY <1>1, <2>1 DEF Places
<1> QED BY <1>2, <1>3

LEMMA CountType ==
    ASSUME NEW d \in Seq(SUBSET Rec)
    PROVE  IsFiniteSet(Places(d)) /\ RecordCount(d) \in Nat
<1>1. IsFiniteSet((1..Len(d)) \X Rec)
  BY LenInterval, RecFinite, FS_Product
<1>2. Places(d) \subseteq (1..Len(d)) \X Rec
  BY PlacesMember
<1>3. IsFiniteSet(Places(d))
  BY <1>1, <1>2, FS_Subset
<1>4. RecordCount(d) = Cardinality(Places(d))
  BY DEF RecordCount, Places
<1> QED BY <1>3, <1>4, FS_CardinalityType

LEMMA CountEmpty == RecordCount(<<>>) = 0
<1>1. UNION {{i} \X <<>>[i] : i \in DOMAIN <<>>} = {}
  OBVIOUS
<1> QED BY <1>1, FS_EmptySet DEF RecordCount

\* The number of records of two pieces of a file.
LEMMA CountConcat ==
    ASSUME NEW a \in Seq(SUBSET Rec), NEW b \in Seq(SUBSET Rec)
    PROVE  RecordCount(a \o b) = RecordCount(a) + RecordCount(b)
<1> DEFINE f == [x \in Places(b) |-> <<x[1] + Len(a), x[2]>>]
           T == {f[x] : x \in Places(b)}
<1>1. a \o b \in Seq(SUBSET Rec) /\ Len(a \o b) = Len(a) + Len(b)
  BY ConcatType
<1>2. \A x \in Places(b) : x = <<x[1], x[2]>> /\ x[1] \in 1..Len(b) /\ x[2] \in b[x[1]]
  BY PlacesMember
<1>3. f \in Bijection(Places(b), T)
  <2>1. ASSUME NEW x \in Places(b), NEW y \in Places(b), f[x] = f[y]
        PROVE  x = y
    BY <1>2, <2>1
  <2>2. f \in [Places(b) -> T] /\ \A t \in T : \E x \in Places(b) : f[x] = t
    BY DEF T
  <2> QED BY <2>1, <2>2 DEF Bijection, Injection, Surjection, IsInjective
<1>4. IsFiniteSet(T) /\ Cardinality(T) = RecordCount(b)
  <2>1. IsFiniteSet(Places(b)) /\ RecordCount(b) = Cardinality(Places(b))
    BY CountType DEF RecordCount, Places
  <2>2. ExistsBijection(Places(b), T)
    BY <1>3 DEF ExistsBijection
  <2> QED BY <2>1, <2>2, FS_Bijection
<1>5. Places(a \o b) = Places(a) \cup T
  <2>1. ASSUME NEW x \in Places(a) PROVE x \in Places(a \o b)
    <3>1. x = <<x[1], x[2]>> /\ x[1] \in 1..Len(a) /\ x[2] \in a[x[1]]
      BY PlacesMember
    <3>2. x[1] \in 1..Len(a \o b) /\ x[2] \in (a \o b)[x[1]]
      BY <1>1, <3>1
    <3> QED BY <1>1, <3>1, <3>2, PlacesMember
  <2>2. ASSUME NEW x \in Places(b) PROVE f[x] \in Places(a \o b)
    <3>1. x[1] + Len(a) \in 1..Len(a \o b) /\ x[2] \in (a \o b)[x[1] + Len(a)]
      BY <1>1, <1>2
    <3> QED BY <1>1, <3>1, PlacesMember
  <2>3. ASSUME NEW y \in Places(a \o b) PROVE y \in Places(a) \cup T
    <3>1. y = <<y[1], y[2]>> /\ y[1] \in 1..Len(a \o b) /\ y[2] \in (a \o b)[y[1]]
      BY <1>1, PlacesMember
    <3>2. CASE y[1] <= Len(a)
      <4>1. y[1] \in 1..Len(a) /\ y[2] \in a[y[1]]
        BY <1>1, <3>1, <3>2
      <4> QED BY <3>1, <4>1, PlacesMember
    <3>3. CASE y[1] > Len(a)
      <4>1. y[1] - Len(a) \in 1..Len(b) /\ y[2] \in b[y[1] - Len(a)]
        BY <1>1, <3>1, <3>3
      <4>2. <<y[1] - Len(a), y[2]>> \in Places(b)
        BY <4>1, PlacesMember
      <4>3. f[<<y[1] - Len(a), y[2]>>] = y
        BY <3>1, <4>1, <4>2
      <4> QED BY <4>2, <4>3
    <3> QED BY <1>1, <3>1, <3>2, <3>3
  <2> QED BY <2>1, <2>2, <2>3
<1>6. Places(a) \cap T = {}
  <2> SUFFICES ASSUME NEW x \in Places(b), f[x] \in Places(a) PROVE FALSE
    OBVIOUS
  <2>1. f[x][1] = x[1] + Len(a) /\ f[x][1] \in 1..Len(a)
    BY PlacesMember
  <2> QED BY <1>2, <2>1
<1>7. IsFiniteSet(Places(a)) /\ Cardinality(Places(a)) = RecordCount(a)
  BY CountType DEF RecordCount, Places
<1>8. Cardinality(Places(a \o b)) = Cardinality(Places(a)) + Cardinality(T)
  <2>1. Cardinality(Places(a) \cap T) = 0
    BY <1>6, FS_EmptySet
  <2>2. Cardinality(Places(a) \cup T) =
           Cardinality(Places(a)) + Cardinality(T) - Cardinality(Places(a) \cap T)
    BY <1>4, <1>7, FS_Union
  <2> QED BY <1>4, <1>5, <1>7, <2>1, <2>2, FS_CardinalityType
<1> QED BY <1>4, <1>7, <1>8 DEF RecordCount, Places

LEMMA CountAppend ==
    ASSUME NEW q \in Seq(SUBSET Rec), NEW block \in SUBSET Rec
    PROVE  RecordCount(Append(q, block)) = RecordCount(q) + Cardinality(block)
<1> DEFINE f == [r \in block |-> <<1, r>>]
<1>1. <<block>> \in Seq(SUBSET Rec) /\ Append(q, block) = q \o <<block>>
  OBVIOUS
<1>2. f \in Bijection(block, Places(<<block>>))
  <2>1. DOMAIN <<block>> = {1} /\ <<block>>[1] = block
    OBVIOUS
  <2>2. Places(<<block>>) = {1} \X block
    BY <2>1, Zenon DEF Places
  <2>3. \A r \in block : <<1, r>> \in {1} \X block
    OBVIOUS
  <2>4. ASSUME NEW x \in {1} \X block PROVE \E r \in block : <<1, r>> = x
    OBVIOUS
  <2>5. f \in Bijection(block, {1} \X block)
    BY <2>3, <2>4 DEF Bijection, Injection, Surjection, IsInjective
  <2> QED BY <2>2, <2>5
<1>3. IsFiniteSet(block)
  BY RecFinite, FS_Subset
<1>4. RecordCount(<<block>>) = Cardinality(block)
  <2>1. ExistsBijection(block, Places(<<block>>))
    BY <1>2 DEF ExistsBijection
  <2>2. Cardinality(Places(<<block>>)) = Cardinality(block)
    BY <1>3, <2>1, FS_Bijection
  <2> QED BY <2>2 DEF RecordCount, Places
<1> QED BY <1>1, <1>4, CountConcat

LEMMA SplitConcat ==
    ASSUME NEW S, NEW q \in Seq(S), NEW k \in 0..Len(q)
    PROVE  q = SubSeq(q, 1, k) \o SubSeq(q, k + 1, Len(q))
<1>1. 1 \in 1..(Len(q) + 1) /\ k \in (1 - 1)..Len(q) /\ Len(q) \in k..Len(q)
  OBVIOUS
<1> QED BY <1>1, ConcatAdjacentSubSeq, SubSeqFull

LEMMA CountSplit ==
    ASSUME NEW q \in Seq(SUBSET Rec), NEW k \in 0..Len(q)
    PROVE  RecordCount(q) = RecordCount(SubSeq(q, 1, k))
                            + RecordCount(SubSeq(q, k + 1, Len(q)))
<1>1. /\ SubSeq(q, 1, k) \in Seq(SUBSET Rec) /\ SubSeq(q, k + 1, Len(q)) \in Seq(SUBSET Rec)
      /\ q = SubSeq(q, 1, k) \o SubSeq(q, k + 1, Len(q))
  BY SplitType, SplitConcat
<1> QED BY <1>1, CountConcat

\* As many positions as records at most.
LEMMA BlocksCount ==
    ASSUME NEW d \in Seq(SUBSET Rec)
    PROVE  /\ IsFiniteSet(Positions(UNION Elems(d)))
           /\ Cardinality(Positions(UNION Elems(d))) \in Nat
           /\ Cardinality(Positions(UNION Elems(d))) <= RecordCount(d)
<1> DEFINE f == [x \in Places(d) |-> x[2].pos]
<1>1. f \in Surjection(Places(d), Positions(UNION Elems(d)))
  <2>1. ASSUME NEW x \in Places(d) PROVE f[x] \in Positions(UNION Elems(d))
    <3>1. x[1] \in DOMAIN d /\ x[2] \in d[x[1]]
      BY PlacesMember
    <3>2. x[2] \in UNION Elems(d)
      BY <3>1 DEF Elems
    <3> QED BY <3>2 DEF Positions
  <2>2. ASSUME NEW p \in Positions(UNION Elems(d)) PROVE \E x \in Places(d) : f[x] = p
    <3>1. PICK r \in UNION Elems(d) : p = r.pos
      BY DEF Positions
    <3>2. PICK i \in DOMAIN d : r \in d[i]
      BY <3>1 DEF Elems
    <3>3. <<i, r>> \in Places(d)
      BY <3>2, PlacesMember
    <3> QED BY <3>1, <3>3
  <2> QED BY <2>1, <2>2 DEF Surjection
<1>2. IsFiniteSet(Places(d)) /\ RecordCount(d) = Cardinality(Places(d))
  BY CountType, RecFinite DEF RecordCount, Places
<1> QED BY <1>1, <1>2, FS_Surjection, FS_CardinalityType

-----------------------------------------------------------------------------
(* Every record is handled once.                                           *)

\* The workers that hold a target, and everything channels, workers and buffers
\* hold, counted place by place.
Busy == {w \in Workers : hand[w] # Empty}
Carried == Len(ips) + Cardinality(Busy) + Len(results) + Cardinality(buf)
             + RecordCount(pend)

\* Two places never hold the same position because a position enters the
\* pipeline once: the generator is ahead of everything the pipeline holds.
OnceInv == OncePerRun /\ InPipeline \subseteq start..(produced - 1)

LEMMA OnceDef == OncePerRun <=> Carried = Cardinality(InPipeline)
  BY DEF OncePerRun, Carried, Busy

LEMMA BusyCount ==
    /\ IsFiniteSet(Busy) /\ Cardinality(Busy) \in Nat
    /\ IsFiniteSet(Held) /\ Cardinality(Held) \in Nat
    /\ Cardinality(Held) <= Cardinality(Busy)
<1> DEFINE f == [w \in Busy |-> hand[w].pos]
<1>1. IsFiniteSet(Busy)
  BY WorkersAssumption, FS_Subset DEF Busy
<1>2. f \in Surjection(Busy, Held)
  BY DEF Surjection, Busy, Held
<1> QED BY <1>1, <1>2, FS_Surjection, FS_CardinalityType

LEMMA UnionCount ==
    ASSUME NEW A, IsFiniteSet(A), NEW B, IsFiniteSet(B), NEW m \in Nat, NEW n \in Nat,
           Cardinality(A) <= m, Cardinality(B) <= n
    PROVE  /\ IsFiniteSet(A \cup B)
           /\ Cardinality(A \cup B) \in Nat
           /\ Cardinality(A \cup B) <= m + n
<1>1. /\ IsFiniteSet(A \cup B)
      /\ Cardinality(A \cup B) = Cardinality(A) + Cardinality(B) - Cardinality(A \cap B)
  BY FS_Union
<1>2. IsFiniteSet(A \cap B)
  BY FS_Intersection
<1>3. /\ Cardinality(A) \in Nat /\ Cardinality(B) \in Nat /\ Cardinality(A \cap B) \in Nat
      /\ Cardinality(A \cup B) \in Nat
  BY <1>1, <1>2, FS_CardinalityType
<1> QED BY <1>1, <1>3

\* Channels, workers and buffers never hold more positions than records.
LEMMA PlacesBound ==
    ASSUME NEW i \in Seq(Pos), NEW r \in Seq(Rec), NEW f \in SUBSET Rec,
           NEW p \in Seq(SUBSET Rec)
    PROVE  LET all == Elems(i) \cup Held \cup Positions(Elems(r)) \cup Positions(f)
                        \cup Positions(UNION Elems(p))
               sum == Len(i) + Cardinality(Busy) + Len(r) + Cardinality(f) + RecordCount(p)
           IN  /\ sum \in Nat /\ IsFiniteSet(all)
               /\ Cardinality(all) \in Nat /\ Cardinality(all) <= sum
<1> DEFINE A == Elems(i)
           B == Positions(Elems(r))
           C == Positions(f)
           D == Positions(UNION Elems(p))
<1>1. IsFiniteSet(A) /\ Len(i) \in Nat /\ Cardinality(A) <= Len(i)
  BY LenElems
<1>2. IsFiniteSet(Held) /\ Cardinality(Busy) \in Nat /\ Cardinality(Held) <= Cardinality(Busy)
  BY BusyCount
<1>3. IsFiniteSet(B) /\ Len(r) \in Nat /\ Cardinality(B) <= Len(r)
  <2>1. /\ IsFiniteSet(Elems(r)) /\ Cardinality(Elems(r)) \in Nat
        /\ Cardinality(Elems(r)) <= Len(r) /\ Len(r) \in Nat
    BY LenElems
  <2>2. /\ IsFiniteSet(B) /\ Cardinality(B) \in Nat
        /\ Cardinality(B) <= Cardinality(Elems(r))
    BY <2>1, PositionsCount
  <2> QED BY <2>1, <2>2
<1>4. IsFiniteSet(C) /\ Cardinality(f) \in Nat /\ Cardinality(C) <= Cardinality(f)
  <2>1. IsFiniteSet(f)
    BY RecFinite, FS_Subset
  <2> QED BY <2>1, PositionsCount, FS_CardinalityType
<1>5. IsFiniteSet(D) /\ RecordCount(p) \in Nat /\ Cardinality(D) <= RecordCount(p)
  BY BlocksCount, CountType
<1> HIDE DEF A, B, C, D
<1> DEFINE l == Len(i) + Cardinality(Busy)
           m == l + Len(r)
           n == m + Cardinality(f)
<1>6. l \in Nat /\ m \in Nat /\ n \in Nat
  BY <1>1, <1>2, <1>3, <1>4
<1>7. IsFiniteSet(A \cup Held) /\ Cardinality(A \cup Held) <= l
  BY <1>1, <1>2, UnionCount
<1>8. IsFiniteSet(A \cup Held \cup B) /\ Cardinality(A \cup Held \cup B) <= m
  BY <1>3, <1>6, <1>7, UnionCount
<1>9. IsFiniteSet(A \cup Held \cup B \cup C) /\ Cardinality(A \cup Held \cup B \cup C) <= n
  BY <1>4, <1>6, <1>8, UnionCount
<1>10. /\ IsFiniteSet(A \cup Held \cup B \cup C \cup D)
       /\ Cardinality(A \cup Held \cup B \cup C \cup D) \in Nat
       /\ Cardinality(A \cup Held \cup B \cup C \cup D) <= n + RecordCount(p)
  BY <1>5, <1>6, <1>9, UnionCount
<1> QED BY <1>5, <1>6, <1>10 DEF A, B, C, D

LEMMA CarriedBound ==
    TypeInv => /\ Carried \in Nat
               /\ IsFiniteSet(InPipeline)
               /\ Cardinality(InPipeline) \in Nat
               /\ Cardinality(InPipeline) <= Carried
  BY PlacesBound DEF TypeInv, TypeOK, ChannelsTypeOK, StoreTypeOK, InPipeline, Carried

\* A step that may take the positions G out of the pipeline, and takes as many
\* records.
Moves(G) ==
    /\ IsFiniteSet(G)
    /\ InPipeline \subseteq InPipeline' \cup G
    /\ InPipeline' \subseteq InPipeline
    /\ Carried' + Cardinality(G) <= Carried

LEMMA MovesOnce ==
    ASSUME TypeInv, TypeInv', OnceInv, NEW G, Moves(G), UNCHANGED <<start, produced>>
    PROVE  OnceInv'
<1>1. /\ Carried \in Nat /\ IsFiniteSet(InPipeline)
      /\ Cardinality(InPipeline) \in Nat /\ Cardinality(InPipeline) = Carried
  BY CarriedBound, OnceDef DEF OnceInv
<1>2. /\ Carried' \in Nat /\ IsFiniteSet(InPipeline')
      /\ Cardinality(InPipeline') \in Nat /\ Cardinality(InPipeline') <= Carried'
  <2>1. (TypeInv => /\ Carried \in Nat
                    /\ IsFiniteSet(InPipeline)
                    /\ Cardinality(InPipeline) \in Nat
                    /\ Cardinality(InPipeline) <= Carried)'
    BY CarriedBound, PTL
  <2> QED BY <2>1
<1>3. Cardinality(InPipeline) <= Cardinality(InPipeline') + Cardinality(G)
  <2>1. Cardinality(G) \in Nat
    BY FS_CardinalityType DEF Moves
  <2>2. /\ IsFiniteSet(InPipeline' \cup G)
        /\ Cardinality(InPipeline' \cup G) <= Cardinality(InPipeline') + Cardinality(G)
        /\ Cardinality(InPipeline' \cup G) \in Nat
    <3>1. IsFiniteSet(G) /\ Cardinality(G) <= Cardinality(G)
      BY <2>1 DEF Moves
    <3>2. IsFiniteSet(InPipeline') /\ Cardinality(InPipeline') <= Cardinality(InPipeline')
      BY <1>2
    <3> QED BY <1>2, <2>1, <3>1, <3>2, UnionCount
  <2>3. Cardinality(InPipeline) <= Cardinality(InPipeline' \cup G)
    BY <2>2, FS_Subset DEF Moves
  <2> QED BY <1>1, <1>2, <2>1, <2>2, <2>3
<1>4. Carried' = Cardinality(InPipeline')
  BY <1>1, <1>2, <1>3, FS_CardinalityType DEF Moves
<1>5. OncePerRun'
  BY <1>4 DEF OncePerRun, Carried, Busy
<1> QED BY <1>5 DEF OnceInv, Moves

LEMMA HandMoves ==
    ASSUME WorkersTypeOK, NEW w \in Workers, NEW pc, NEW item, WorkerStep(w, pc, item)
    PROVE  /\ hand[w] # Empty /\ item # Empty /\ item.pos = hand[w].pos
                => Held' = Held /\ Busy' = Busy
           /\ hand[w] = Empty /\ item = Empty => Held' = Held /\ Busy' = Busy
           /\ hand[w] = Empty /\ item # Empty
                => /\ Held' = Held \cup {item.pos}
                   /\ Cardinality(Busy') = Cardinality(Busy) + 1
           /\ hand[w] # Empty /\ item = Empty
                => /\ Held' \subseteq Held /\ Held \subseteq Held' \cup {hand[w].pos}
                   /\ hand[w].pos \in Held
                   /\ Cardinality(Busy') = Cardinality(Busy) - 1
<1>1. \A v \in Workers : hand'[v] = IF v = w THEN item ELSE hand[v]
  BY DEF WorkersTypeOK, WorkerStep
<1>2. Busy' = {v \in Workers : hand'[v] # Empty}
  BY DEF Busy
<1>3. Held' = {hand'[v].pos : v \in Busy'} /\ Held = {hand[v].pos : v \in Busy}
  BY DEF Busy, Held
<1>4. IsFiniteSet(Busy)
  BY BusyCount
<1>5. CASE hand[w] # Empty /\ item # Empty
  BY <1>1, <1>2, <1>3, <1>5 DEF Busy
<1>6. CASE hand[w] = Empty /\ item = Empty
  BY <1>1, <1>2, <1>3, <1>6 DEF Busy
<1>7. CASE hand[w] = Empty /\ item # Empty
  <2>1. Busy' = Busy \cup {w} /\ w \notin Busy
    BY <1>1, <1>2, <1>7 DEF Busy
  <2>2. Cardinality(Busy') = Cardinality(Busy) + 1
    BY <1>4, <2>1, FS_AddElement
  <2>3. Held' = Held \cup {item.pos}
    BY <1>1, <1>7 DEF Held
  <2> QED BY <1>7, <2>2, <2>3
<1>8. CASE hand[w] # Empty /\ item = Empty
  <2>1. Busy' = Busy \ {w} /\ w \in Busy
    BY <1>1, <1>2, <1>8 DEF Busy
  <2>2. Cardinality(Busy') = Cardinality(Busy) - 1
    BY <1>4, <2>1, FS_RemoveElement
  <2>3. Held' \subseteq Held /\ Held \subseteq Held' \cup {hand[w].pos} /\ hand[w].pos \in Held
    BY <1>1, <1>8 DEF Held
  <2> QED BY <1>8, <2>2, <2>3
<1> QED BY <1>5, <1>6, <1>7, <1>8

LEMMA WorkerMoves ==
    ASSUME TypeInv, NEW w \in Workers, Worker(w)
    PROVE  \E G : Moves(G)
<1> USE DEF TypeInv, TypeOK
<1>0. /\ Len(ips) \in Nat /\ Len(results) \in Nat /\ Cardinality(Busy) \in Nat
      /\ Cardinality(buf) \in Nat /\ RecordCount(pend) \in Nat
  <2>1. IsFiniteSet(buf)
    BY RecFinite, FS_Subset DEF StoreTypeOK
  <2> QED
    BY <2>1, BusyCount, CountType, FS_CardinalityType DEF ChannelsTypeOK, StoreTypeOK
<1>1. buf' = buf /\ pend' = pend
  BY DEF Worker, Take, GetToken, AbortToken, Lookup, Send, Drop, Leave, WorkerStep,
         storeVars, writerVars
<1>2. /\ InPipeline = Elems(ips) \cup Held \cup Positions(Elems(results))
                      \cup Positions(buf) \cup Positions(UNION Elems(pend))
      /\ InPipeline' = Elems(ips') \cup Held' \cup Positions(Elems(results'))
                      \cup Positions(buf) \cup Positions(UNION Elems(pend))
      /\ Carried = Len(ips) + Cardinality(Busy) + Len(results) + Cardinality(buf)
                     + RecordCount(pend)
      /\ Carried' = Len(ips') + Cardinality(Busy') + Len(results') + Cardinality(buf)
                     + RecordCount(pend)
  BY <1>1 DEF InPipeline, Carried
<1>3. ASSUME InPipeline' = InPipeline, Carried' = Carried
      PROVE  Moves({})
  <2>1. IsFiniteSet({}) /\ Cardinality({}) = 0 /\ Carried \in Nat
    BY FS_EmptySet, CarriedBound
  <2> QED BY <1>3, <2>1 DEF Moves
<1>4. ASSUME UNCHANGED <<ips, results>>, Held' \subseteq Held,
             Held \subseteq Held' \cup {hand[w].pos},
             Cardinality(Busy') = Cardinality(Busy) - 1
      PROVE  Moves({hand[w].pos})
  <2>1. IsFiniteSet({hand[w].pos}) /\ Cardinality({hand[w].pos}) = 1
    BY FS_Singleton
  <2> QED BY <1>0, <1>2, <1>4, <2>1 DEF Moves
<1>5. wpc[w] \in {"token", "lookup", "send"} => hand[w] # Empty /\ hand[w] \in Rec
  BY DEF WorkersTypeOK
<1>6. wpc[w] = "idle" => hand[w] = Empty
  BY DEF WorkersTypeOK
<1>7. \A r \in Rec : r # Empty
  BY EmptyNotRec
<1>8. CASE Take(w)
  <2>1. Head(ips) \in Pos /\ Len(ips') = Len(ips) - 1
    BY <1>8, HeadTailType DEF Take, ChannelsTypeOK
  <2>2. Elems(ips) = {Head(ips)} \cup Elems(ips')
    BY <1>8, ElemsTail DEF Take, ChannelsTypeOK
  <2>3. [pos |-> Head(ips), real |-> TRUE] \in Rec
    BY <2>1 DEF Rec
  <2>4. Held' = Held \cup {Head(ips)} /\ Cardinality(Busy') = Cardinality(Busy) + 1
    BY <1>6, <1>7, <1>8, <2>3, HandMoves DEF Take
  <2>5. results' = results
    BY <1>8 DEF Take
  <2>6. Carried' = Carried
    BY <1>0, <1>2, <2>1, <2>4, <2>5
  <2> QED BY <1>2, <1>3, <2>2, <2>4, <2>5, <2>6
<1>9. CASE GetToken(w)
  <2>1. Held' = Held /\ Busy' = Busy
    BY <1>5, <1>9, HandMoves DEF GetToken
  <2> QED BY <1>2, <1>3, <1>9, <2>1 DEF GetToken
<1>10. CASE AbortToken(w)
  <2>1. /\ Held' \subseteq Held /\ Held \subseteq Held' \cup {hand[w].pos}
        /\ Cardinality(Busy') = Cardinality(Busy) - 1
    BY <1>5, <1>10, HandMoves DEF AbortToken
  <2> QED BY <1>4, <1>10, <2>1 DEF AbortToken
<1>11. CASE Lookup(w)
  <2>1. PICK real \in BOOLEAN :
           WorkerStep(w, "send", [pos |-> hand[w].pos, real |-> real])
    BY <1>11 DEF Lookup
  <2>2. [pos |-> hand[w].pos, real |-> real] \in Rec
    BY <1>5, <1>11 DEF Lookup, Rec
  <2>3. Held' = Held /\ Busy' = Busy
    BY <1>5, <1>7, <1>11, <2>1, <2>2, HandMoves DEF Lookup
  <2> QED BY <1>2, <1>3, <1>11, <2>3 DEF Lookup
<1>12. CASE Send(w)
  <2>1. /\ Held' \subseteq Held /\ Held \subseteq Held' \cup {hand[w].pos}
        /\ hand[w].pos \in Held /\ Cardinality(Busy') = Cardinality(Busy) - 1
    BY <1>5, <1>12, HandMoves DEF Send
  <2>2. Elems(results') = Elems(results) \cup {hand[w]} /\ Len(results') = Len(results) + 1
    BY <1>5, <1>12, ElemsAppend, AppendType DEF Send, ChannelsTypeOK
  <2>3. Positions(Elems(results')) = Positions(Elems(results)) \cup {hand[w].pos}
    BY <2>2, PositionsUnion DEF Positions
  <2>4. ips' = ips
    BY <1>12 DEF Send
  <2>5. Carried' = Carried
    BY <1>0, <1>2, <2>1, <2>2, <2>4
  <2> QED BY <1>2, <1>3, <2>1, <2>3, <2>4, <2>5
<1>13. CASE Drop(w)
  <2>1. /\ Held' \subseteq Held /\ Held \subseteq Held' \cup {hand[w].pos}
        /\ Cardinality(Busy') = Cardinality(Busy) - 1
    BY <1>5, <1>13, HandMoves DEF Drop
  <2> QED BY <1>4, <1>13, <2>1 DEF Drop
<1>14. CASE Leave(w)
  <2>1. Held' = Held /\ Busy' = Busy
    BY <1>6, <1>14, HandMoves DEF Leave
  <2> QED BY <1>2, <1>3, <1>14, <2>1 DEF Leave
<1> QED BY <1>8, <1>9, <1>10, <1>11, <1>12, <1>13, <1>14 DEF Worker

LEMMA EmptyBlocks == UNION Elems(<<>>) = {} /\ Positions({}) = {}
  BY DEF Elems, Positions

LEMMA SuffixElems ==
    ASSUME NEW S, NEW q \in Seq(S), NEW k \in 0..Len(q)
    PROVE  Elems(SubSeq(q, k + 1, Len(q))) \subseteq Elems(q)
<1> SUFFICES ASSUME NEW i \in DOMAIN SubSeq(q, k + 1, Len(q))
             PROVE  SubSeq(q, k + 1, Len(q))[i] \in Elems(q)
  BY DEF Elems
<1>1. k + i \in DOMAIN q /\ SubSeq(q, k + 1, Len(q))[i] = q[k + i]
  OBVIOUS
<1> QED BY <1>1 DEF Elems

\* Positions of the blocks of a sequence, in the terms of the set of its blocks.
LEMMA BlockPositions ==
    ASSUME NEW A, NEW B, A \subseteq B
    PROVE  Positions(UNION A) \subseteq Positions(UNION B)
<1>1. UNION A \subseteq UNION B
  BY Zenon
<1> QED BY <1>1, PositionsUnion

\* What leaves the writer's memory when a block is finished: the blocks that
\* went to the file, or the block itself after a failed write.
LEMMA FlushMoves ==
    ASSUME StoreTypeOK(Rec), NEW block \in SUBSET Rec, flushBlock(block)
    PROVE  \E G :
             /\ IsFiniteSet(G)
             /\ Positions(block) \cup Positions(UNION Elems(pend))
                  \subseteq Positions(UNION Elems(pend')) \cup G
             /\ Positions(UNION Elems(pend'))
                  \subseteq Positions(block) \cup Positions(UNION Elems(pend))
             /\ RecordCount(pend') + Cardinality(G) <= RecordCount(pend) + Cardinality(block)
<1>0. IsFiniteSet(block) /\ Cardinality(block) \in Nat /\ RecordCount(pend) \in Nat
  BY RecFinite, FS_Subset, FS_CardinalityType, CountType DEF StoreTypeOK
<1>1. CASE pend' = pend
  <2>1. /\ IsFiniteSet(Positions(block)) /\ Cardinality(Positions(block)) \in Nat
        /\ Cardinality(Positions(block)) <= Cardinality(block)
    BY <1>0, PositionsCount
  <2> QED BY <1>0, <1>1, <2>1
<1>2. CASE Spill(Append(pend, block))
  <2> DEFINE q == Append(pend, block)
  <2>1. q \in Seq(SUBSET Rec) /\ pend \in Seq(SUBSET Rec)
    BY AppendType DEF StoreTypeOK
  <2>2. PICK k \in 0..Len(q) : pend' = SubSeq(q, k + 1, Len(q))
    BY <1>2 DEF Spill
  <2>3. Elems(q) = Elems(pend) \cup {block}
    BY <2>1, ElemsAppend
  <2>4. RecordCount(q) = RecordCount(pend) + Cardinality(block)
    BY <2>1, CountAppend
  <2> HIDE DEF q
  <2> DEFINE a == SubSeq(q, 1, k)
             G == Positions(UNION Elems(a))
  <2>5. a \in Seq(SUBSET Rec) /\ pend' \in Seq(SUBSET Rec)
    BY <2>1, <2>2, SplitType
  <2>6. RecordCount(q) = RecordCount(a) + RecordCount(pend')
    BY <2>1, <2>2, CountSplit
  <2>7. Elems(q) \subseteq Elems(a) \cup Elems(pend') /\ Elems(pend') \subseteq Elems(q)
    BY <2>1, <2>2, ElemsSplit, SuffixElems
  <2>8. Positions(UNION Elems(q)) = Positions(block) \cup Positions(UNION Elems(pend))
    <3>1. UNION Elems(q) = block \cup (UNION Elems(pend))
      BY <2>3, Zenon
    <3> QED BY <3>1, PositionsUnion
  <2>9. Positions(UNION Elems(q)) \subseteq Positions(UNION Elems(pend')) \cup G
    <3>1. UNION (Elems(a) \cup Elems(pend')) = (UNION Elems(a)) \cup (UNION Elems(pend'))
      BY Zenon
    <3>2. Positions(UNION (Elems(a) \cup Elems(pend')))
            = Positions(UNION Elems(pend')) \cup G
      BY <3>1, PositionsUnion
    <3> QED BY <2>7, <3>2, BlockPositions
  <2>10. Positions(UNION Elems(pend')) \subseteq Positions(UNION Elems(q))
    BY <2>7, BlockPositions
  <2>11. /\ IsFiniteSet(G) /\ Cardinality(G) \in Nat /\ Cardinality(G) <= RecordCount(a)
         /\ RecordCount(a) \in Nat /\ RecordCount(pend') \in Nat
    BY <2>5, BlocksCount, CountType
  <2>12. RecordCount(pend') + Cardinality(G) <= RecordCount(pend) + Cardinality(block)
    BY <1>0, <2>4, <2>6, <2>11
  <2> HIDE DEF G, a
  <2> QED BY <2>8, <2>9, <2>10, <2>11, <2>12
<1> QED BY <1>1, <1>2 DEF flushBlock

LEMMA FlushSum ==
    ASSUME NEW i \in Nat, NEW b \in Nat, NEW r1 \in Nat, NEW r2 \in Nat, NEW f \in Nat,
           NEW p1 \in Nat, NEW p2 \in Nat, NEW c \in Nat, NEW g \in Nat,
           p2 + g <= p1 + c, r2 + c <= r1 + f
    PROVE  (i + b + r2 + 0 + p2) + g <= i + b + r1 + f + p1
  OBVIOUS

LEMMA MainMoves ==
    ASSUME TypeInv, TypeInv',
           Consume \/ EndConsume \/ FlushFile \/ PatchHeader \/ CloseFails
    PROVE  \E G : Moves(G)
<1> USE DEF TypeInv, TypeOK
<1>0. /\ Len(ips) \in Nat /\ Len(results) \in Nat /\ Cardinality(Busy) \in Nat
      /\ IsFiniteSet(buf) /\ Cardinality(buf) \in Nat /\ RecordCount(pend) \in Nat
      /\ pend \in Seq(SUBSET Rec) /\ RecordCount(pend') \in Nat
  <2>1. IsFiniteSet(buf)
    BY RecFinite, FS_Subset DEF StoreTypeOK
  <2> QED
    BY <2>1, BusyCount, CountType, FS_CardinalityType DEF ChannelsTypeOK, StoreTypeOK
<1>1. ips' = ips /\ Held' = Held /\ Busy' = Busy
  BY DEF Consume, EndConsume, FlushFile, PatchHeader, CloseFails, MainFrame, Held, Busy,
         workerVars
<1>2. /\ InPipeline = Elems(ips) \cup Held \cup Positions(Elems(results))
                      \cup Positions(buf) \cup Positions(UNION Elems(pend))
      /\ InPipeline' = Elems(ips) \cup Held \cup Positions(Elems(results'))
                      \cup Positions(buf') \cup Positions(UNION Elems(pend'))
      /\ Carried = Len(ips) + Cardinality(Busy) + Len(results) + Cardinality(buf)
                     + RecordCount(pend)
      /\ Carried' = Len(ips) + Cardinality(Busy) + Len(results') + Cardinality(buf')
                     + RecordCount(pend')
  BY <1>1 DEF InPipeline, Carried
<1>3. IsFiniteSet({}) /\ Cardinality({}) = 0 /\ Positions({}) = {}
  BY FS_EmptySet, EmptyBlocks
<1>4. ASSUME NEW block \in SUBSET Rec, flushBlock(block),
             Positions(Elems(results)) \cup Positions(buf)
               = Positions(Elems(results')) \cup Positions(block),
             Len(results') \in Nat, Cardinality(block) \in Nat,
             Len(results') + Cardinality(block) <= Len(results) + Cardinality(buf)
      PROVE  \E G : Moves(G)
  <2>1. PICK G :
             /\ IsFiniteSet(G)
             /\ Positions(block) \cup Positions(UNION Elems(pend))
                  \subseteq Positions(UNION Elems(pend')) \cup G
             /\ Positions(UNION Elems(pend'))
                  \subseteq Positions(block) \cup Positions(UNION Elems(pend))
             /\ RecordCount(pend') + Cardinality(G) <= RecordCount(pend) + Cardinality(block)
    BY <1>4, FlushMoves
  <2>2. buf' = {}
    BY <1>4 DEF flushBlock
  <2>3. Cardinality(G) \in Nat
    BY <2>1, FS_CardinalityType
  <2>4. Carried' + Cardinality(G) <= Carried
    <3>1. Cardinality(buf') = 0
      BY <1>3, <2>2
    <3>2. /\ Carried = Len(ips) + Cardinality(Busy) + Len(results) + Cardinality(buf)
                         + RecordCount(pend)
          /\ Carried' = Len(ips) + Cardinality(Busy) + Len(results') + 0 + RecordCount(pend')
      BY <1>2, <3>1
    <3>3. RecordCount(pend') + Cardinality(G) <= RecordCount(pend) + Cardinality(block)
      BY <2>1
    <3>4. Len(results') + Cardinality(block) <= Len(results) + Cardinality(buf)
      BY <1>4
    <3>5. Len(results') \in Nat /\ Cardinality(block) \in Nat
      BY <1>4
    <3> QED BY <1>0, <2>3, <3>2, <3>3, <3>4, <3>5, FlushSum
  <2>5. InPipeline \subseteq InPipeline' \cup G /\ InPipeline' \subseteq InPipeline
    BY <1>2, <1>3, <1>4, <2>1, <2>2
  <2> QED BY <2>1, <2>4, <2>5 DEF Moves
<1>5. CASE Consume
  <2> DEFINE block == buf \cup {Head(results)}
  <2>1. Head(results) \in Rec /\ Len(results') = Len(results) - 1
    BY <1>5, HeadTailType DEF Consume, ChannelsTypeOK
  <2>2. Elems(results) = {Head(results)} \cup Elems(results')
    BY <1>5, ElemsTail DEF Consume, ChannelsTypeOK
  <2>3. Positions(Elems(results)) \cup Positions(buf)
          = Positions(Elems(results')) \cup Positions(block)
    <3>1. /\ Positions(Elems(results))
               = Positions({Head(results)}) \cup Positions(Elems(results'))
          /\ Positions(block) = Positions(buf) \cup Positions({Head(results)})
      BY <2>2, PositionsUnion
    <3> QED BY <3>1
  <2>4. /\ block \in SUBSET Rec /\ IsFiniteSet(block) /\ Cardinality(block) \in Nat
        /\ Cardinality(block) <= Cardinality(buf) + 1
    <3>1. block \in SUBSET Rec
      BY <2>1 DEF StoreTypeOK
    <3>2. /\ IsFiniteSet(block)
          /\ Cardinality(block) = IF Head(results) \in buf THEN Cardinality(buf)
                                   ELSE Cardinality(buf) + 1
      BY <1>0, FS_AddElement
    <3> QED BY <1>0, <3>1, <3>2
  <2>5. Len(results') \in Nat
    BY <2>1 DEF ChannelsTypeOK
  <2>6. CASE flushBlock(block)
    BY <1>0, <1>4, <2>1, <2>3, <2>4, <2>5, <2>6
  <2>7. CASE buf' = block /\ UNCHANGED pend
    <3>1. InPipeline' = InPipeline
      BY <1>2, <2>3, <2>7
    <3>2. Carried' + Cardinality({}) <= Carried
      BY <1>0, <1>2, <1>3, <2>1, <2>4, <2>5, <2>7
    <3> QED BY <1>3, <3>1, <3>2 DEF Moves
  <2> QED BY <1>5, <2>6, <2>7 DEF Consume, Add
<1>6. CASE EndConsume
  <2>1. flushBlock(buf) /\ results' = results /\ buf \in SUBSET Rec
    BY <1>6 DEF EndConsume, CloseBlock, StoreTypeOK
  <2> QED BY <1>0, <1>4, <2>1
<1>7. CASE FlushFile
  <2> DEFINE G == Positions(UNION Elems(pend))
  <2>1. pend' = <<>> /\ buf' = buf /\ results' = results
    BY <1>7 DEF FlushFile, CloseFlush
  <2>2. IsFiniteSet(G) /\ Cardinality(G) \in Nat /\ Cardinality(G) <= RecordCount(pend)
    BY <1>0, BlocksCount
  <2>3. RecordCount(pend') = 0 /\ Positions(UNION Elems(pend')) = {}
    BY <2>1, CountEmpty, EmptyBlocks
  <2>4. Carried' + Cardinality(G) <= Carried
    BY <1>0, <1>2, <2>1, <2>2, <2>3
  <2>5. InPipeline \subseteq InPipeline' \cup G /\ InPipeline' \subseteq InPipeline
    BY <1>2, <2>1, <2>3
  <2> QED BY <2>2, <2>4, <2>5 DEF Moves
<1>8. CASE PatchHeader \/ CloseFails
  <2>1. pend' = pend /\ buf' = buf /\ results' = results
    BY <1>8 DEF PatchHeader, CloseHeader, CloseFails, storeVars, writerVars
  <2>2. Carried' + Cardinality({}) <= Carried
    BY <1>0, <1>2, <1>3, <2>1
  <2> QED BY <1>2, <1>3, <2>1, <2>2 DEF Moves
<1> QED BY <1>5, <1>6, <1>7, <1>8

\* A process that is gone, or about to begin, holds nothing.
LEMMA NothingCarried ==
    ASSUME ips' = <<>>, results' = <<>>, hand' = [w \in Workers |-> Empty],
           buf' = {}, pend' = <<>>
    PROVE  OnceInv'
<1>1. Busy' = {} /\ Held' = {}
  BY DEF Busy, Held
<1>2. Elems(<<>>) = {} /\ UNION Elems(<<>>) = {} /\ Positions({}) = {}
  BY EmptyBlocks DEF Elems
<1>3. InPipeline' = Elems(<<>>) \cup {} \cup Positions(Elems(<<>>))
                      \cup Positions({}) \cup Positions(UNION Elems(<<>>))
  BY <1>1 DEF InPipeline
<1>4. InPipeline' = {}
  BY <1>2, <1>3
<1>5. Carried' = 0
  <2>1. Carried' = 0 + Cardinality({}) + 0 + Cardinality({}) + RecordCount(<<>>)
    BY <1>1 DEF Carried
  <2>2. Cardinality({}) = 0 /\ RecordCount(<<>>) = 0
    BY FS_EmptySet, CountEmpty
  <2> QED BY <2>1, <2>2
<1>6. Carried' = Cardinality(InPipeline')
  BY <1>4, <1>5, FS_EmptySet
<1>7. OncePerRun'
  BY <1>6 DEF OncePerRun, Carried, Busy
<1> QED BY <1>4, <1>7 DEF OnceInv

\* Steps that touch neither channels, hands nor the writer's memory.
LEMMA OnceSame ==
    ASSUME OnceInv, UNCHANGED <<ips, hand, results, buf, pend>>,
           UNCHANGED <<start, produced>> \/ InPipeline = {}
    PROVE  OnceInv'
<1>1. Busy' = Busy /\ Held' = Held
  BY DEF Busy, Held
<1>2. InPipeline' = InPipeline /\ Carried' = Carried
  BY <1>1 DEF InPipeline, Carried
<1>3. OncePerRun'
  <2>1. Carried' = Cardinality(InPipeline')
    BY <1>2, OnceDef DEF OnceInv
  <2> QED BY <2>1 DEF OncePerRun, Carried, Busy
<1> QED BY <1>2, <1>3 DEF OnceInv

LEMMA EmitOnce ==
    ASSUME TypeInv, OnceInv, EmitSharded \/ EmitTarget
    PROVE  OnceInv'
<1> USE DEF TypeInv, TypeOK
<1>1. PICK due, value : Emit(due, value)
  BY DEF EmitSharded, EmitTarget
<1>2. /\ results' = results /\ buf' = buf /\ pend' = pend /\ hand' = hand
      /\ start' = start /\ produced' = produced + 1
  BY <1>1 DEF Emit, storeVars, writerVars, workerVars
<1>3. Busy' = Busy /\ Held' = Held
  BY <1>2 DEF Busy, Held
<1>4. produced \in Pos /\ start \in Nat /\ start <= produced
  BY <1>1, NodeAssumption DEF Emit, MoreTargets, GeneratorTypeOK, Pos
<1>5. Elems(ips') = Elems(ips) \cup {produced} /\ Len(ips') = Len(ips) + 1
  BY <1>1, <1>4, ElemsAppend, AppendType DEF Emit, ChannelsTypeOK
<1>6. InPipeline' = InPipeline \cup {produced}
  BY <1>2, <1>3, <1>5 DEF InPipeline
<1>7. produced \notin InPipeline
  BY <1>4 DEF OnceInv, Pos
<1>8. /\ IsFiniteSet(InPipeline) /\ Carried \in Nat /\ Cardinality(InPipeline) = Carried
  BY CarriedBound, OnceDef DEF OnceInv
<1>9. Cardinality(InPipeline') = Carried + 1
  BY <1>6, <1>7, <1>8, FS_AddElement
<1>10. Carried' = Carried + 1
  <2>1. /\ Carried = Len(ips) + Cardinality(Busy) + Len(results) + Cardinality(buf)
                       + RecordCount(pend)
        /\ Carried' = Len(ips) + 1 + Cardinality(Busy) + Len(results) + Cardinality(buf)
                       + RecordCount(pend)
    BY <1>2, <1>3, <1>5 DEF Carried
  <2>2. /\ Len(ips) \in Nat /\ Len(results) \in Nat /\ Cardinality(Busy) \in Nat
        /\ Cardinality(buf) \in Nat /\ RecordCount(pend) \in Nat
    <3>1. IsFiniteSet(buf)
      BY RecFinite, FS_Subset DEF StoreTypeOK
    <3> QED
      BY <3>1, BusyCount, CountType, FS_CardinalityType DEF ChannelsTypeOK, StoreTypeOK
  <2> QED BY <2>1, <2>2
<1>11. OncePerRun'
  BY <1>9, <1>10 DEF OncePerRun, Carried, Busy
<1>12. InPipeline' \subseteq start'..(produced' - 1)
  <2>1. start..(produced - 1) \cup {produced} \subseteq start..produced
    BY <1>4 DEF Pos
  <2>2. InPipeline' \subseteq start..produced
    BY <1>6, <2>1 DEF OnceInv
  <2>3. start'..(produced' - 1) = start..produced
    BY <1>2, <1>4 DEF Pos
  <2> QED BY <2>2, <2>3
<1> QED BY <1>11, <1>12 DEF OnceInv

LEMMA NextOnceInv ==
    ASSUME TypeInv, TypeInv', OnceInv, [Next]_vars
    PROVE  OnceInv'
<1>1. CASE Start \/ StartFresh
  <2>1. /\ ips' = <<>> /\ results' = <<>> /\ hand' = [w \in Workers |-> Empty]
        /\ buf' = {} /\ pend' = <<>>
    BY <1>1 DEF Start, StartFresh, NewWriterResume, NewWriter, OpenWriter, Launch
  <2> QED BY <2>1, NothingCarried
<1>2. CASE Exit \/ Crash
  <2>1. /\ ips' = <<>> /\ results' = <<>> /\ hand' = [w \in Workers |-> Empty]
        /\ buf' = {} /\ pend' = <<>>
    BY <1>2 DEF Exit, Crash, ProcessGone, Abandon
  <2> QED BY <2>1, NothingCarried
<1>3. CASE EmitSharded \/ EmitTarget
  BY <1>3, EmitOnce
<1>4. CASE Consume \/ EndConsume \/ FlushFile \/ PatchHeader \/ CloseFails
  <2>1. UNCHANGED <<start, produced>>
    BY <1>4 DEF Consume, EndConsume, FlushFile, PatchHeader, CloseFails, MainFrame, genVars
  <2> QED BY <1>4, <2>1, MainMoves, MovesOnce
<1>5. ASSUME NEW w \in Workers, Worker(w)
      PROVE  OnceInv'
  <2>1. UNCHANGED <<start, produced>>
    BY <1>5 DEF Worker, Take, GetToken, AbortToken, Lookup, Send, Drop, Leave, WorkerStep,
                genVars
  <2> QED BY <1>5, <2>1, WorkerMoves, MovesOnce
<1>6. CASE StartRefused \/ GenStops \/ FinalCursor \/ CursorGoroutine \/ Signal \/ DiskFails
           \/ UNCHANGED vars
  <2>1. UNCHANGED <<ips, hand, results, buf, pend>> /\ UNCHANGED <<start, produced>>
    BY <1>6 DEF StartRefused, GenStops, FinalCursor, CursorGoroutine, RecvCursor,
                WriteCursor, Signal, DiskFails, WriteFails, vars, storeVars, writerVars,
                workerVars, genVars
  <2> QED BY <2>1, OnceSame
<1>7. CASE ScanFails
  <2>1. UNCHANGED <<ips, hand, results, buf, pend>>
    BY <1>7 DEF ScanFails, storeVars, writerVars, workerVars
  <2>2. UNCHANGED <<start, produced>> \/ produced = start
    BY <1>7 DEF ScanFails
  <2>3. produced = start => InPipeline = {}
    BY DEF OnceInv, TypeInv, TypeOK, GeneratorTypeOK
  <2> QED BY <2>1, <2>2, <2>3, OnceSame
<1> QED
  BY <1>1, <1>2, <1>3, <1>4, <1>5, <1>6, <1>7
     DEF Next, Service, Generator, Main, Faults, Halted

LEMMA OnceInvariance == Spec => []OnceInv
<1>1. Init => OnceInv
  <2> SUFFICES ASSUME Init PROVE OnceInv
    OBVIOUS
  <2>1. Busy = {} /\ Held = {}
    BY DEF Init, Busy, Held
  <2>2. Elems(<<>>) = {} /\ UNION Elems(<<>>) = {} /\ Positions({}) = {}
    BY EmptyBlocks DEF Elems
  <2>3. InPipeline = Elems(<<>>) \cup {} \cup Positions(Elems(<<>>))
                       \cup Positions({}) \cup Positions(UNION Elems(<<>>))
    BY <2>1 DEF Init, StoreInit, InPipeline
  <2>4. InPipeline = {}
    BY <2>2, <2>3
  <2>5. Carried = 0 + Cardinality({}) + 0 + Cardinality({}) + RecordCount(<<>>)
    BY <2>1 DEF Init, StoreInit, Carried
  <2>6. Cardinality({}) = 0 /\ RecordCount(<<>>) = 0
    BY FS_EmptySet, CountEmpty
  <2> QED BY <2>4, <2>5, <2>6, OnceDef DEF OnceInv
<1>2. TypeInv /\ TypeInv' /\ OnceInv /\ [Next]_vars => OnceInv'
  BY NextOnceInv
<1> QED BY <1>1, <1>2, TypeInvariance, PTL DEF Spec

\* However many workers there are and however they interleave with the generator
\* and the consumer: no target is in two channels, workers or buffers at once, so
\* no run looks an address up twice or stores two records of it (Crawler.Run).
THEOREM OncePerRunHolds == Spec => []OncePerRun
<1>1. OnceInv => OncePerRun
  BY DEF OnceInv
<1> QED BY <1>1, OnceInvariance, PTL

-----------------------------------------------------------------------------
(* What a stop costs.                                                      *)

Left == {w \in Workers : wpc[w] = "left"}

\* A worker drops one target and leaves; what the file lacks when main ends by
\* itself is in the channel of targets, since Close has written every block.
LossInv ==
    ~werr =>
        /\ svc = "up" => Cardinality(lost) <= Cardinality(Left)
        /\ svc = "up" /\ mainPc \in {"header", "wait"} => pend = <<>>
        /\ svc # "up" => Cardinality(lost) <= OutCap + Cardinality(Workers)

LEMMA LossCount ==
    ASSUME lost \subseteq Pos
    PROVE  IsFiniteSet(lost) /\ Cardinality(lost) \in Nat
  BY PosFinite, FS_Subset, FS_CardinalityType

LEMMA LeftCount ==
    ASSUME NEW S \in SUBSET Workers
    PROVE  /\ IsFiniteSet(S) /\ Cardinality(S) \in Nat /\ Cardinality(Workers) \in Nat
           /\ Cardinality(S) <= Cardinality(Workers)
  BY WorkersAssumption, FS_Subset, FS_CardinalityType

LEMMA WorkerLoss ==
    ASSUME TypeInv, LossInv, NEW w \in Workers, Worker(w)
    PROVE  LossInv'
<1> USE DEF TypeInv, TypeOK
<1>1. /\ svc = "up" /\ svc' = "up" /\ werr' = werr /\ mainPc' = mainPc /\ pend' = pend
  BY DEF Worker, Take, GetToken, AbortToken, Lookup, Send, Drop, Leave, WorkerStep,
         storeVars, writerVars
<1>2. /\ IsFiniteSet(Left) /\ Cardinality(Left) \in Nat
      /\ IsFiniteSet(Left') /\ Cardinality(Left') \in Nat
  BY LeftCount DEF Left
<1>3. IsFiniteSet(lost) /\ Cardinality(lost) \in Nat
  BY LossCount DEF ServiceTypeOK
<1>4. CASE AbortToken(w) \/ Drop(w)
  <2>1. wpc' = [wpc EXCEPT ![w] = "left"] /\ wpc[w] # "left"
        /\ lost' = lost \cup {hand[w].pos}
    BY <1>4 DEF AbortToken, Drop, WorkerStep
  <2>2. Left' = Left \cup {w} /\ w \notin Left
    BY <2>1 DEF Left, WorkersTypeOK
  <2>3. Cardinality(Left') = Cardinality(Left) + 1
    BY <1>2, <2>2, FS_AddElement
  <2>4. Cardinality(lost') = IF hand[w].pos \in lost THEN Cardinality(lost)
                             ELSE Cardinality(lost) + 1
    BY <1>3, <2>1, FS_AddElement
  <2>5. ~werr => Cardinality(lost) <= Cardinality(Left)
    BY <1>1 DEF LossInv
  <2>6. ~werr => Cardinality(lost') <= Cardinality(Left')
    BY <1>2, <1>3, <2>3, <2>4, <2>5
  <2> QED BY <1>1, <2>6 DEF LossInv
<1>5. CASE Take(w) \/ GetToken(w) \/ Lookup(w) \/ Send(w) \/ Leave(w)
  <2>1. /\ lost' = lost /\ wpc[w] # "left"
        /\ \E pc : wpc' = [wpc EXCEPT ![w] = pc]
    BY <1>5 DEF Take, GetToken, Lookup, Send, Leave, WorkerStep
  <2>2. Left \subseteq Left'
    BY <2>1 DEF Left, WorkersTypeOK
  <2>3. Cardinality(Left) <= Cardinality(Left')
    BY <1>2, <2>2, FS_Subset
  <2>4. ~werr => Cardinality(lost) <= Cardinality(Left')
    BY <1>1, <1>2, <1>3, <2>3 DEF LossInv
  <2> QED BY <1>1, <2>1, <2>4 DEF LossInv
<1> QED BY <1>4, <1>5 DEF Worker

LEMMA ExitLoss ==
    ASSUME TypeInv, LossInv, Exit
    PROVE  LossInv'
<1> USE DEF TypeInv, TypeOK
<1>1. /\ svc = "up" /\ mainPc = "wait" /\ svc' # "up" /\ werr' = werr
      /\ lost' = lost \cup Elems(ips) \cup Positions(UNION Elems(pend))
  BY DEF Exit, ProcessGone, Abandon
<1> SUFFICES ASSUME ~werr PROVE Cardinality(lost') <= OutCap + Cardinality(Workers)
  BY <1>1 DEF LossInv
<1>2. pend = <<>> /\ Cardinality(lost) <= Cardinality(Left)
  BY <1>1 DEF LossInv
<1>3. lost' = lost \cup Elems(ips)
  BY <1>1, <1>2, EmptyBlocks
<1>4. /\ IsFiniteSet(Elems(ips)) /\ Cardinality(Elems(ips)) \in Nat
      /\ Cardinality(Elems(ips)) <= Len(ips)
      /\ Len(ips) \in Nat /\ Len(ips) <= OutCap
  BY LenElems DEF ChannelsTypeOK
<1>5. /\ Cardinality(Left) \in Nat /\ Cardinality(Workers) \in Nat
      /\ Cardinality(Left) <= Cardinality(Workers)
  BY LeftCount DEF Left
<1>6. IsFiniteSet(lost) /\ Cardinality(lost) \in Nat
  BY LossCount DEF ServiceTypeOK
<1>7. Cardinality(lost) <= Cardinality(Workers) /\ Cardinality(Elems(ips)) <= OutCap
  BY <1>2, <1>4, <1>5, <1>6, NodeAssumption
<1>8. /\ Cardinality(lost \cup Elems(ips)) \in Nat
      /\ Cardinality(lost \cup Elems(ips)) <= Cardinality(Workers) + OutCap
  BY <1>4, <1>5, <1>6, <1>7, NodeAssumption, UnionCount
<1> QED BY <1>3, <1>5, <1>8, NodeAssumption

LEMMA NextLossInv ==
    ASSUME TypeInv, LossInv, [Next]_vars
    PROVE  LossInv'
<1> USE DEF TypeInv, TypeOK
<1>1. ASSUME UNCHANGED <<svc, werr, mainPc, lost, wpc>>, pend' = pend \/ mainPc = "run"
      PROVE  LossInv'
  BY <1>1 DEF LossInv, Left
<1>2. CASE Start \/ StartFresh
  <2>1. svc' = "up" /\ lost' = {} /\ mainPc' = "run"
    BY <1>2 DEF Start, StartFresh, Launch
  <2>2. Cardinality({}) = 0 /\ Cardinality(Left') \in Nat
    BY FS_EmptySet, LeftCount DEF Left
  <2> QED BY <2>1, <2>2 DEF LossInv
<1>3. CASE Exit
  BY <1>3, ExitLoss
<1>4. CASE Crash
  <2>1. svc = "up" /\ svc' # "up" /\ lost' = lost /\ werr' = werr
    BY <1>4 DEF Crash, ProcessGone, Abandon
  <2>2. /\ Cardinality(Left) \in Nat /\ Cardinality(Workers) \in Nat
        /\ Cardinality(Left) <= Cardinality(Workers) /\ Cardinality(lost) \in Nat
    BY LeftCount, LossCount DEF Left, ServiceTypeOK
  <2>3. ~werr => Cardinality(lost) <= OutCap + Cardinality(Workers)
    BY <2>1, <2>2, NodeAssumption DEF LossInv
  <2> QED BY <2>1, <2>3 DEF LossInv
<1>5. ASSUME NEW w \in Workers, Worker(w)
      PROVE  LossInv'
  BY <1>5, WorkerLoss
<1>6. CASE Consume
  <2>1. /\ UNCHANGED <<svc, werr, mainPc, wpc>> /\ mainPc = "run" /\ (~werr => lost' = lost)
    BY <1>6 DEF Consume, MainFrame, Add, workerVars
  <2> QED BY <2>1 DEF LossInv, Left
<1>7. CASE EndConsume \/ FlushFile \/ PatchHeader \/ CloseFails
  <2>1. /\ UNCHANGED <<svc, werr, wpc>> /\ (~werr => lost' = lost)
        /\ ~werr => (mainPc' \in {"header", "wait"} => pend' = <<>> \/ mainPc = "header")
        /\ mainPc = "header" => pend' = pend
        /\ svc = "up"
    BY <1>7 DEF EndConsume, CloseBlock, FlushFile, CloseFlush, PatchHeader, CloseHeader,
                CloseFails, MainFrame, workerVars, writerVars, storeVars
  <2> QED BY <2>1 DEF LossInv, Left
<1>8. CASE StartRefused
  <2>1. svc # "up" /\ svc' # "up" /\ UNCHANGED <<werr, lost>>
    BY <1>8 DEF StartRefused, storeVars, writerVars
  <2> QED BY <2>1 DEF LossInv
<1>9. CASE DiskFails
  BY <1>9 DEF DiskFails, WriteFails, LossInv
<1>10. CASE Generator \/ CursorGoroutine \/ ScanFails \/ Signal \/ UNCHANGED vars
  <2>1. UNCHANGED <<svc, werr, mainPc, lost, wpc>> /\ pend' = pend
    BY <1>10 DEF Generator, EmitSharded, EmitTarget, Emit, GenStops, FinalCursor,
                CursorGoroutine, RecvCursor, WriteCursor, ScanFails, Signal, vars,
                storeVars, writerVars, workerVars
  <2> QED BY <1>1, <2>1
<1> QED
  BY <1>2, <1>3, <1>4, <1>5, <1>6, <1>7, <1>8, <1>9, <1>10
     DEF Next, Service, Main, Faults, Halted

LEMMA LossInvariance == Spec => []LossInv
<1>1. Init => LossInv
  <2>1. Cardinality({}) = 0 /\ Cardinality(Workers) \in Nat
    BY FS_EmptySet, LeftCount
  <2> QED BY <2>1, NodeAssumption DEF Init, LossInv
<1>2. TypeInv /\ LossInv /\ [Next]_vars => LossInv'
  BY NextLossInv
<1> QED BY <1>1, <1>2, TypeInvariance, PTL DEF Spec

\* For every number of workers and every capacity: a run that met no write error
\* loses at most one target per worker and what fits in the generator's channel,
\* whether it was stopped by a signal or killed (Crawler.Run, pipeline). A crash
\* loses what its memory held besides, which is not counted as dropped.
THEOREM LossBoundedHolds == Spec => []LossBounded
<1>1. LossInv => LossBounded
  BY DEF LossInv, LossBounded
<1> QED BY <1>1, LossInvariance, PTL

-----------------------------------------------------------------------------
(* The total in the header.                                                *)

\* The records the writer has taken, in the file and in its memory.
Stored == RecordCount(disk) + RecordCount(pend) + Cardinality(buf)

LEMMA StoredType ==
    ASSUME StoreTypeOK(Rec)
    PROVE  /\ RecordCount(disk) \in Nat /\ RecordCount(pend) \in Nat
           /\ IsFiniteSet(buf) /\ Cardinality(buf) \in Nat /\ Stored \in Nat
           /\ hTotal \in Nat /\ total \in Nat
<1>1. IsFiniteSet(buf)
  BY RecFinite, FS_Subset DEF StoreTypeOK
<1> QED BY <1>1, CountType, FS_CardinalityType DEF Stored, StoreTypeOK

\* Finishing a block moves its records, and the file's count does not shrink.
LEMMA FlushStored ==
    ASSUME StoreTypeOK(Rec), NEW block \in SUBSET Rec, flushBlock(block)
    PROVE  /\ buf' = {} /\ RecordCount(disk') \in Nat /\ RecordCount(pend') \in Nat
           /\ RecordCount(disk) <= RecordCount(disk')
           /\ ~werr => RecordCount(disk') + RecordCount(pend')
                         = RecordCount(disk) + RecordCount(pend) + Cardinality(block)
<1>0. /\ buf' = {} /\ RecordCount(disk) \in Nat /\ RecordCount(pend) \in Nat
  BY StoredType DEF flushBlock
<1>1. CASE (block = {} \/ werr) /\ UNCHANGED <<disk, pend, cut>>
  <2>1. Cardinality({}) = 0
    BY FS_EmptySet
  <2>2. RecordCount(disk') = RecordCount(disk) /\ RecordCount(pend') = RecordCount(pend)
    BY <1>1
  <2>3. ~werr => Cardinality(block) = 0
    BY <1>1, <2>1
  <2> QED BY <1>0, <2>2, <2>3
<1>2. CASE Spill(Append(pend, block))
  <2> DEFINE q == Append(pend, block)
  <2>1. q \in Seq(SUBSET Rec) /\ pend \in Seq(SUBSET Rec) /\ disk \in Seq(SUBSET Rec)
    BY AppendType DEF StoreTypeOK
  <2>2. RecordCount(q) = RecordCount(pend) + Cardinality(block)
    BY <2>1, CountAppend
  <2>3. PICK k \in 0..Len(q) : /\ disk' = disk \o SubSeq(q, 1, k)
                               /\ pend' = SubSeq(q, k + 1, Len(q))
    BY <1>2 DEF Spill
  <2> HIDE DEF q
  <2>4. SubSeq(q, 1, k) \in Seq(SUBSET Rec) /\ SubSeq(q, k + 1, Len(q)) \in Seq(SUBSET Rec)
    BY <2>1, SplitType
  <2>5. RecordCount(disk') = RecordCount(disk) + RecordCount(SubSeq(q, 1, k))
    BY <2>1, <2>3, <2>4, CountConcat
  <2>6. RecordCount(q) = RecordCount(SubSeq(q, 1, k)) + RecordCount(pend')
    BY <2>1, <2>3, CountSplit
  <2>7. RecordCount(SubSeq(q, 1, k)) \in Nat /\ RecordCount(pend') \in Nat
    BY <2>3, <2>4, CountType
  <2>8. RecordCount(disk') + RecordCount(pend') = RecordCount(disk) + RecordCount(q)
    BY <1>0, <2>5, <2>6, <2>7
  <2>9. IsFiniteSet(block) /\ Cardinality(block) \in Nat
    BY RecFinite, FS_Subset, FS_CardinalityType
  <2>10. RecordCount(disk') + RecordCount(pend')
           = RecordCount(disk) + RecordCount(pend) + Cardinality(block)
    BY <1>0, <2>2, <2>8, <2>9
  <2> QED BY <1>0, <2>5, <2>7, <2>10
<1> QED BY <1>1, <1>2 DEF flushBlock

\* The record the consumer takes is not in the block under construction: the
\* count of the block is the number of records added to it.
LEMMA HeadNew ==
    ASSUME TypeInv, OnceInv, results # <<>>
    PROVE  Head(results) \notin buf
<1> USE DEF TypeInv, TypeOK
<1> SUFFICES ASSUME Head(results) \in buf PROVE FALSE
  OBVIOUS
<1>1. Tail(results) \in Seq(Rec) /\ Len(Tail(results)) = Len(results) - 1
  BY HeadTailType DEF ChannelsTypeOK
<1>2. Elems(results) = {Head(results)} \cup Elems(Tail(results))
  BY ElemsTail DEF ChannelsTypeOK
<1> DEFINE all == Elems(ips) \cup Held \cup Positions(Elems(Tail(results))) \cup Positions(buf)
                    \cup Positions(UNION Elems(pend))
           sum == Len(ips) + Cardinality(Busy) + Len(Tail(results)) + Cardinality(buf)
                    + RecordCount(pend)
<1>3. Cardinality(all) <= sum /\ sum \in Nat /\ Cardinality(all) \in Nat
  BY <1>1, PlacesBound DEF ChannelsTypeOK, StoreTypeOK
<1>4. InPipeline = all
  <2>1. Positions(Elems(results))
          = Positions({Head(results)}) \cup Positions(Elems(Tail(results)))
    BY <1>2, PositionsUnion
  <2>2. Positions({Head(results)}) \subseteq Positions(buf)
    BY PositionsUnion
  <2> QED BY <2>1, <2>2 DEF InPipeline
<1>5. Carried = Cardinality(InPipeline)
  BY OnceDef DEF OnceInv
<1>6. Carried = sum + 1
  <2>1. /\ Len(ips) \in Nat /\ Len(results) \in Nat /\ Cardinality(Busy) \in Nat
        /\ Cardinality(buf) \in Nat /\ RecordCount(pend) \in Nat
    BY StoredType, BusyCount DEF ChannelsTypeOK
  <2> QED BY <1>1, <2>1 DEF Carried
<1> HIDE DEF all, sum
<1> QED BY <1>3, <1>4, <1>5, <1>6

\* One more record is counted and stored.
LEMMA ConsumeStored ==
    ASSUME TypeInv, OnceInv, Consume
    PROVE  /\ RecordCount(disk') \in Nat /\ RecordCount(disk) <= RecordCount(disk')
           /\ total' = total + 1
           /\ ~werr => Stored' = Stored + 1
<1> USE DEF TypeInv, TypeOK
<1> DEFINE rec == Head(results)
           block == buf \cup {rec}
<1>1. rec \in Rec /\ rec \notin buf /\ Add(rec)
  BY HeadTailType, HeadNew DEF Consume, ChannelsTypeOK
<1> HIDE DEF rec
<1>2. /\ RecordCount(disk) \in Nat /\ RecordCount(pend) \in Nat
      /\ IsFiniteSet(buf) /\ Cardinality(buf) \in Nat
  BY StoredType
<1>3. block \in SUBSET Rec /\ Cardinality(block) = Cardinality(buf) + 1
  BY <1>1, <1>2, FS_AddElement DEF StoreTypeOK
<1> HIDE DEF block
<1>4. Stored = RecordCount(disk) + RecordCount(pend) + Cardinality(buf)
      /\ Stored' = RecordCount(disk') + RecordCount(pend') + Cardinality(buf')
  BY DEF Stored
<1>5. CASE flushBlock(block)
  <2>1. /\ buf' = {} /\ RecordCount(disk') \in Nat /\ RecordCount(pend') \in Nat
        /\ RecordCount(disk) <= RecordCount(disk')
        /\ ~werr => RecordCount(disk') + RecordCount(pend')
                      = RecordCount(disk) + RecordCount(pend) + Cardinality(block)
    BY <1>3, <1>5, FlushStored
  <2>2. Cardinality({}) = 0
    BY FS_EmptySet
  <2>3. ~werr => Stored' = Stored + 1
    BY <1>2, <1>3, <1>4, <2>1, <2>2
  <2> QED BY <1>1, <2>1, <2>3 DEF Add
<1>6. CASE buf' = block /\ UNCHANGED <<disk, pend, cut>>
  BY <1>1, <1>2, <1>3, <1>4, <1>6 DEF Add
<1> QED BY <1>1, <1>5, <1>6 DEF Add, block

\* Close moves the records to the file.
LEMMA CloseStored ==
    ASSUME TypeInv, EndConsume \/ FlushFile
    PROVE  /\ RecordCount(disk') \in Nat /\ RecordCount(disk) <= RecordCount(disk')
           /\ total' = total
           /\ ~werr => Stored' = Stored
           /\ EndConsume => buf' = {}
           /\ FlushFile => buf' = buf
<1> USE DEF TypeInv, TypeOK
<1>1. /\ RecordCount(disk) \in Nat /\ RecordCount(pend) \in Nat /\ Cardinality(buf) \in Nat
  BY StoredType
<1>2. Stored = RecordCount(disk) + RecordCount(pend) + Cardinality(buf)
      /\ Stored' = RecordCount(disk') + RecordCount(pend') + Cardinality(buf')
  BY DEF Stored
<1>3. Cardinality({}) = 0 /\ RecordCount(<<>>) = 0
  BY FS_EmptySet, CountEmpty
<1>4. CASE EndConsume
  <2>1. flushBlock(buf) /\ buf \in SUBSET Rec /\ total' = total /\ mainPc = "run"
    BY <1>4 DEF EndConsume, CloseBlock, StoreTypeOK
  <2>2. /\ buf' = {} /\ RecordCount(disk') \in Nat /\ RecordCount(pend') \in Nat
        /\ RecordCount(disk) <= RecordCount(disk')
        /\ ~werr => RecordCount(disk') + RecordCount(pend')
                      = RecordCount(disk) + RecordCount(pend) + Cardinality(buf)
    BY <2>1, FlushStored
  <2>3. ~werr => Stored' = Stored
    BY <1>1, <1>2, <1>3, <2>2
  <2>4. ~FlushFile
    BY <2>1 DEF FlushFile
  <2> QED BY <2>1, <2>2, <2>3, <2>4
<1>5. CASE FlushFile
  <2>1. /\ disk' = disk \o pend /\ pend' = <<>> /\ buf' = buf /\ total' = total
        /\ mainPc = "flush"
    BY <1>5 DEF FlushFile, CloseFlush
  <2>2. RecordCount(disk') = RecordCount(disk) + RecordCount(pend)
    BY <2>1, CountConcat DEF StoreTypeOK
  <2>3. ~EndConsume
    BY <2>1 DEF EndConsume
  <2> QED BY <1>1, <1>2, <1>3, <2>1, <2>2, <2>3
<1> QED BY <1>4, <1>5

\* A torn fragment has no records.
LEMMA AbandonStored ==
    ASSUME TypeInv, Abandon
    PROVE  RecordCount(disk') = RecordCount(disk)
<1>1. CASE disk' = disk
  BY <1>1
<1>2. CASE disk' = Append(disk, Torn)
  <2>1. RecordCount(disk') = RecordCount(disk) + Cardinality({})
    BY <1>2, CountAppend DEF Torn, TypeInv, TypeOK, StoreTypeOK
  <2> QED
    BY <2>1, FS_EmptySet, StoredType DEF TypeInv, TypeOK
<1> QED BY <1>1, <1>2 DEF Abandon

\* The running total is at most what the file will hold once Close is through.
\* It is less when an earlier run crashed behind the header it had resumed from.
HeaderInv ==
    /\ HeaderNeverOverstates
    /\ svc = "up" => (~werr => total <= Stored) /\ (mainPc # "run" => buf = {})

LEMMA NextHeaderInv ==
    ASSUME TypeInv, OnceInv, LossInv, HeaderInv, [Next]_vars
    PROVE  HeaderInv'
<1> USE DEF TypeInv, TypeOK
<1>0. /\ RecordCount(disk) \in Nat /\ Stored \in Nat /\ hTotal \in Nat /\ total \in Nat
  BY StoredType
<1>1. ASSUME UNCHANGED <<svc, storeVars, mainPc>>
      PROVE  HeaderInv'
  BY <1>1 DEF HeaderInv, HeaderNeverOverstates, Stored, storeVars, fileVars, writerVars
<1>2. ASSUME UNCHANGED <<hdr, hTotal>>, RecordCount(disk') \in Nat,
             RecordCount(disk) <= RecordCount(disk')
      PROVE  HeaderNeverOverstates'
  BY <1>0, <1>2 DEF HeaderInv, HeaderNeverOverstates
<1>3. ASSUME UNCHANGED fileVars
      PROVE  HeaderNeverOverstates'
  BY <1>3 DEF HeaderInv, HeaderNeverOverstates, fileVars
<1>4. CASE Start \/ StartFresh
  <2>1. mainPc' = "run"
    BY <1>4 DEF Start, StartFresh, Launch
  <2>2. Cardinality({}) = 0 /\ RecordCount(<<>>) = 0
    BY FS_EmptySet, CountEmpty
  <2>3. CASE NewWriter
    <3>1. hdr' = "zero" /\ total' = 0 /\ Stored' = RecordCount(<<>>) + RecordCount(<<>>)
                                                    + Cardinality({})
      BY <2>3 DEF NewWriter, OpenWriter, Stored
    <3> QED BY <2>1, <2>2, <3>1 DEF HeaderInv, HeaderNeverOverstates
  <2>4. CASE hdr = "final" /\ OpenWriter(hTotal) /\ UNCHANGED fileVars
    <3>1. total' = hTotal /\ Stored' = RecordCount(disk) + RecordCount(<<>>) + Cardinality({})
      BY <2>4 DEF OpenWriter, Stored, fileVars
    <3>2. total' <= Stored'
      BY <1>0, <2>2, <2>4, <3>1 DEF HeaderInv, HeaderNeverOverstates
    <3> QED BY <1>3, <2>1, <2>4, <3>2 DEF HeaderInv
  <2> QED BY <1>4, <2>3, <2>4 DEF Start, StartFresh, NewWriterResume
<1>5. CASE StartRefused
  BY <1>3, <1>5 DEF StartRefused, HeaderInv, storeVars
<1>6. CASE Consume
  <2>1. /\ RecordCount(disk') \in Nat /\ RecordCount(disk) <= RecordCount(disk')
        /\ total' = total + 1 /\ (~werr => Stored' = Stored + 1)
    BY <1>6, ConsumeStored
  <2>2. UNCHANGED <<hdr, hTotal, werr, mainPc, svc>> /\ mainPc = "run" /\ svc = "up"
    BY <1>6 DEF Consume, Add, MainFrame
  <2>3. ~werr => total' <= Stored'
    BY <1>0, <2>1, <2>2 DEF HeaderInv
  <2> QED BY <1>2, <2>1, <2>2, <2>3 DEF HeaderInv
<1>7. CASE EndConsume \/ FlushFile
  <2>1. /\ RecordCount(disk') \in Nat /\ RecordCount(disk) <= RecordCount(disk')
        /\ total' = total /\ (~werr => Stored' = Stored)
        /\ (EndConsume => buf' = {}) /\ (FlushFile => buf' = buf)
    BY <1>7, CloseStored
  <2>2. /\ UNCHANGED <<hdr, hTotal, werr, svc>> /\ svc = "up"
        /\ FlushFile => mainPc = "flush"
    BY <1>7 DEF EndConsume, CloseBlock, FlushFile, CloseFlush, MainFrame
  <2>3. buf' = {}
    BY <1>7, <2>1, <2>2 DEF HeaderInv
  <2>4. ~werr => total' <= Stored'
    BY <1>0, <2>1, <2>2 DEF HeaderInv
  <2> QED BY <1>2, <2>1, <2>2, <2>3, <2>4 DEF HeaderInv
<1>8. CASE PatchHeader
  <2>1. /\ ~werr /\ svc = "up" /\ mainPc = "header"
        /\ hdr' = "final" /\ hTotal' = total
        /\ UNCHANGED <<disk, pend, buf, total, werr, svc>>
    BY <1>8 DEF PatchHeader, CloseHeader, MainFrame, writerVars
  <2>2. pend = <<>> /\ buf = {} /\ total <= Stored
    BY <2>1 DEF LossInv, HeaderInv
  <2>3. Cardinality({}) = 0 /\ RecordCount(<<>>) = 0
    BY FS_EmptySet, CountEmpty
  <2>4. Stored = RecordCount(disk) /\ Stored' = Stored
    BY <1>0, <2>1, <2>2, <2>3 DEF Stored
  <2> QED BY <2>1, <2>2, <2>4 DEF HeaderInv, HeaderNeverOverstates
<1>9. CASE CloseFails
  <2>1. /\ svc = "up" /\ mainPc # "run" /\ werr /\ UNCHANGED storeVars
    BY <1>9 DEF CloseFails
  <2>2. UNCHANGED fileVars /\ buf' = buf /\ werr' = werr
    BY <2>1 DEF storeVars, writerVars
  <2> QED BY <1>3, <2>1, <2>2 DEF HeaderInv
<1>10. CASE Exit \/ Crash
  <2>1. svc' # "up" /\ Abandon
    BY <1>10 DEF Exit, Crash, ProcessGone
  <2>2. RecordCount(disk') = RecordCount(disk) /\ UNCHANGED <<hdr, hTotal>>
    BY <2>1, AbandonStored DEF Abandon
  <2> QED BY <1>0, <1>2, <2>1, <2>2 DEF HeaderInv
<1>11. CASE DiskFails
  <2>1. UNCHANGED fileVars /\ UNCHANGED <<buf, mainPc, svc>> /\ werr'
    BY <1>11 DEF DiskFails, WriteFails
  <2> QED BY <1>3, <2>1 DEF HeaderInv
<1>12. ASSUME NEW w \in Workers, Worker(w)
       PROVE  UNCHANGED <<svc, storeVars, mainPc>>
  BY <1>12 DEF Worker, Take, GetToken, AbortToken, Lookup, Send, Drop, Leave, WorkerStep
<1>13. CASE Generator \/ CursorGoroutine \/ ScanFails \/ Signal \/ UNCHANGED vars
  BY <1>1, <1>13 DEF Generator, EmitSharded, EmitTarget, Emit, GenStops, FinalCursor,
                CursorGoroutine, RecvCursor, WriteCursor, ScanFails, Signal, vars
<1> QED
  BY <1>1, <1>4, <1>5, <1>6, <1>7, <1>8, <1>9, <1>10, <1>11, <1>12, <1>13
     DEF Next, Service, Main, Faults, Halted

\* Whatever crashes, failed writes, stops and resumed runs came before: a patched
\* header never promises records the blocks of the file do not hold (Close,
\* NewWriterResume). It rests on OncePerRun: were a record added twice to one
\* block, the total would count it twice and the block once.
THEOREM HeaderNeverOverstatesHolds == Spec => []HeaderNeverOverstates
<1>1. Init => HeaderInv
  BY DEF Init, StoreInit, HeaderInv, HeaderNeverOverstates
<1>2. TypeInv /\ OnceInv /\ LossInv /\ HeaderInv /\ [Next]_vars => HeaderInv'
  BY NextHeaderInv
<1>3. HeaderInv => HeaderNeverOverstates
  BY DEF HeaderInv
<1> QED
  BY <1>1, <1>2, <1>3, TypeInvariance, OnceInvariance, LossInvariance, PTL DEF Spec

\* Without crashes and failed writes nothing is counted that is not stored, and
\* nothing stored that is not counted; a run ends by patching the header.
HeaderExactInv ==
    /\ ~werr
    /\ svc = "up" => /\ total = Stored
                     /\ mainPc # "run" => buf = {}
                     /\ mainPc = "wait" => hdr = "final" /\ hTotal = RecordCount(disk)
    /\ svc # "up" /\ hdr = "final" => hTotal = RecordCount(disk)
    /\ svc \in {"exited", "failed"} => hdr = "final"

LEMMA NextHeaderExact ==
    ASSUME Events \cap {"crash", "diskerr"} = {},
           TypeInv, OnceInv, LossInv, HeaderExactInv, [Next]_vars
    PROVE  HeaderExactInv'
<1> USE DEF TypeInv, TypeOK
<1>0. /\ RecordCount(disk) \in Nat /\ RecordCount(pend) \in Nat /\ Cardinality(buf) \in Nat
      /\ Stored \in Nat /\ hTotal \in Nat /\ total \in Nat
  BY StoredType
<1>1. ASSUME UNCHANGED <<svc, storeVars, mainPc>>
      PROVE  HeaderExactInv'
  BY <1>1 DEF HeaderExactInv, Stored, storeVars, fileVars, writerVars
<1>2. Cardinality({}) = 0 /\ RecordCount(<<>>) = 0
  BY FS_EmptySet, CountEmpty
<1>3. CASE Start \/ StartFresh
  <2>1. mainPc' = "run" /\ svc' = "up" /\ svc # "up"
    BY <1>3 DEF Start, StartFresh, Launch
  <2>2. CASE NewWriter
    <3>1. ~werr' /\ total' = 0 /\ Stored' = RecordCount(<<>>) + RecordCount(<<>>)
                                              + Cardinality({})
      BY <2>2 DEF NewWriter, OpenWriter, Stored
    <3> QED BY <1>2, <2>1, <3>1 DEF HeaderExactInv
  <2>3. CASE hdr = "final" /\ OpenWriter(hTotal) /\ UNCHANGED fileVars
    <3>1. /\ ~werr' /\ total' = hTotal
          /\ Stored' = RecordCount(disk) + RecordCount(<<>>) + Cardinality({})
      BY <2>3 DEF OpenWriter, Stored, fileVars
    <3>2. total' = Stored'
      BY <1>0, <1>2, <2>1, <2>3, <3>1 DEF HeaderExactInv
    <3> QED BY <2>1, <3>1, <3>2 DEF HeaderExactInv
  <2> QED BY <1>3, <2>2, <2>3 DEF Start, StartFresh, NewWriterResume
<1>4. CASE StartRefused
  BY <1>4 DEF StartRefused, HeaderExactInv, storeVars, fileVars, writerVars
<1>5. CASE Consume
  <2>1. total' = total + 1 /\ (~werr => Stored' = Stored + 1)
    BY <1>5, ConsumeStored
  <2>2. UNCHANGED <<werr, mainPc, svc>> /\ mainPc = "run" /\ svc = "up"
    BY <1>5 DEF Consume, Add, MainFrame
  <2> QED BY <2>1, <2>2 DEF HeaderExactInv
<1>6. CASE EndConsume \/ FlushFile
  <2>1. /\ total' = total /\ (~werr => Stored' = Stored)
        /\ (EndConsume => buf' = {}) /\ (FlushFile => buf' = buf)
    BY <1>6, CloseStored
  <2>2. /\ UNCHANGED <<werr, svc>> /\ svc = "up" /\ mainPc' # "wait"
        /\ FlushFile => mainPc = "flush"
    BY <1>6 DEF EndConsume, CloseBlock, FlushFile, CloseFlush, MainFrame
  <2>3. buf' = {}
    BY <1>6, <2>1, <2>2 DEF HeaderExactInv
  <2> QED BY <2>1, <2>2, <2>3 DEF HeaderExactInv
<1>7. CASE PatchHeader
  <2>1. /\ ~werr /\ svc = "up" /\ mainPc = "header"
        /\ hdr' = "final" /\ hTotal' = total
        /\ UNCHANGED <<disk, pend, buf, total, werr, svc>>
    BY <1>7 DEF PatchHeader, CloseHeader, MainFrame, writerVars
  <2>2. pend = <<>> /\ buf = {} /\ total = Stored
    BY <2>1 DEF LossInv, HeaderExactInv
  <2>3. Stored = RecordCount(disk) /\ Stored' = Stored
    BY <1>0, <1>2, <2>1, <2>2 DEF Stored
  <2> QED BY <2>1, <2>2, <2>3 DEF HeaderExactInv
<1>8. CASE CloseFails
  BY <1>8 DEF CloseFails, HeaderExactInv
<1>9. CASE Exit
  <2>1. svc = "up" /\ mainPc = "wait" /\ svc' \in {"exited", "failed"} /\ Abandon
    BY <1>9 DEF Exit, ProcessGone
  <2>2. RecordCount(disk') = RecordCount(disk) /\ UNCHANGED <<hdr, hTotal, werr>>
    BY <2>1, AbandonStored DEF Abandon
  <2> QED BY <2>1, <2>2 DEF HeaderExactInv
<1>10. CASE Crash \/ DiskFails
  BY <1>10 DEF Crash, DiskFails, Happens
<1>11. ASSUME NEW w \in Workers, Worker(w)
       PROVE  UNCHANGED <<svc, storeVars, mainPc>>
  BY <1>11 DEF Worker, Take, GetToken, AbortToken, Lookup, Send, Drop, Leave, WorkerStep
<1>12. CASE Generator \/ CursorGoroutine \/ ScanFails \/ Signal \/ UNCHANGED vars
  BY <1>1, <1>12 DEF Generator, EmitSharded, EmitTarget, Emit, GenStops, FinalCursor,
                CursorGoroutine, RecvCursor, WriteCursor, ScanFails, Signal, vars
<1> QED
  BY <1>1, <1>3, <1>4, <1>5, <1>6, <1>7, <1>8, <1>9, <1>10, <1>11, <1>12
     DEF Next, Service, Main, Faults, Halted

\* As long as no process crashes and no write fails, the header of a stopped node
\* counts its records exactly, over any number of resumed or fresh runs
\* (Writer.Total, NewWriterResume, Close).
THEOREM HeaderExactHolds ==
    ASSUME Events \cap {"crash", "diskerr"} = {}
    PROVE  Spec => []HeaderExact
<1>1. Init => HeaderExactInv
  BY DEF Init, StoreInit, HeaderExactInv
<1>2. TypeInv /\ OnceInv /\ LossInv /\ HeaderExactInv /\ [Next]_vars => HeaderExactInv'
  BY NextHeaderExact
<1>3. HeaderExactInv => HeaderExact
  BY DEF HeaderExactInv, HeaderExact
<1> QED
  BY <1>1, <1>2, <1>3, TypeInvariance, OnceInvariance, LossInvariance, PTL DEF Spec
=============================================================================
