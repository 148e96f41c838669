------------------------------ MODULE ReportProofs ------------------------------
(***************************************************************************)
(* The report of compare, and the reports of both commands together        *)
(* (Update), for any shards, addresses, names and passes.                  *)
(***************************************************************************)
EXTENDS UpdateProofs

-----------------------------------------------------------------------------
(* Sums.  The fold of SumOver is the unique function on the subsets of a   *)
(* finite set that adds one element at a time.                             *)

Any(T) == CHOOSE x \in T : TRUE

\* A function on the subsets of S that sums f.
Sums(k, f, S) ==
    /\ k \in [SUBSET S -> Int] /\ k[{}] = 0
    /\ \A T \in SUBSET S : \A x \in T : k[T] = f[x] + k[T \ {x}]

LEMMA SumIs ==
    ASSUME NEW S, IsFiniteSet(S), NEW f, NEW k, Sums(k, f, S)
    PROVE  SumOver(f, S) = k[S]
<1> DEFINE Eq(h) == h = [T \in SUBSET S |->
                IF T = {} THEN 0 ELSE f[CHOOSE x \in T : TRUE] + h[T \ {CHOOSE x \in T : TRUE}]]
           it == CHOOSE h : Eq(h)
<1>1. SumOver(f, S) = it[S]
  BY DEF SumOver, MapThenFoldSet
<1>2. \A T \in SUBSET S : T # {} => Any(T) \in T
  BY DEF Any
<1>3. Eq(k)
  <2>1. k = [T \in SUBSET S |-> IF T = {} THEN 0 ELSE f[Any(T)] + k[T \ {Any(T)}]]
    BY <1>2 DEF Sums
  <2> QED BY <2>1 DEF Any
<1>4. Eq(it)
  BY <1>3
<1> HIDE DEF it
<1>5. \A T \in SUBSET S : it[T] = IF T = {} THEN 0 ELSE f[Any(T)] + it[T \ {Any(T)}]
  BY <1>4 DEF Any
<1> DEFINE Bad == {T \in SUBSET S : it[T] # k[T]}
<1>6. Bad \subseteq FiniteSubsetsOf(S)
  BY FS_FiniteSubsetsOfFinite, Zenon
<1>7. ASSUME Bad # {}
      PROVE  FALSE
  <2>1. PICK B \in Bad : \A D \in Bad : ~(<<D, B>> \in StrictSubsetOrdering(S))
    <3> HIDE DEF Bad
    <3>1. IsWellFoundedOn(StrictSubsetOrdering(S), FiniteSubsetsOf(S))
      BY FS_StrictSubsetOrderingWellFounded
    <3> QED BY <1>6, <1>7, <3>1, WFMin
  <2>2. B \in SUBSET S /\ it[B] # k[B]
    OBVIOUS
  <2>3. B # {}
    BY <1>5, <2>2 DEF Sums
  <2>4. PICK x : x = Any(B)
    OBVIOUS
  <2>5. x \in B /\ B \ {x} \in SUBSET S /\ it[B] = f[x] + it[B \ {x}]
    BY <1>2, <1>5, <2>2, <2>3, <2>4
  <2>6. k[B] = f[x] + k[B \ {x}]
    BY <2>2, <2>5 DEF Sums
  <2>7. B \ {x} \in Bad
    BY <2>2, <2>5, <2>6
  <2>8. <<B \ {x}, B>> \in StrictSubsetOrdering(S)
    BY <2>2, <2>5 DEF StrictSubsetOrdering
  <2> QED BY <2>1, <2>7, <2>8
<1> QED BY <1>1, <1>7

\* The union of a family of sets.
All(F, T) == UNION {F[x] : x \in T}

LEMMA UnionFinite ==
    ASSUME NEW S, IsFiniteSet(S), NEW F, \A x \in S : IsFiniteSet(F[x])
    PROVE  /\ IsFiniteSet(All(F, S))
           /\ Cardinality(All(F, S)) \in Nat
<1> DEFINE T == {F[x] : x \in S}
           g == [x \in S |-> F[x]]
<1>1. g \in Surjection(S, T)
  BY DEF Surjection
<1>2. \A U \in T : IsFiniteSet(U)
  OBVIOUS
<1> HIDE DEF T, g
<1>3. IsFiniteSet(T)
  BY <1>1, FS_Surjection
<1>4. IsFiniteSet(UNION T)
  BY <1>2, <1>3, FS_UNION
<1> QED BY <1>4, FS_CardinalityType DEF T, All

\* The sizes of disjoint sets are summed by the size of their union.
LEMMA ClassSums ==
    ASSUME NEW S, IsFiniteSet(S), NEW F, \A x \in S : IsFiniteSet(F[x]),
           \A x, y \in S : x # y => F[x] \cap F[y] = {},
           NEW f, \A x \in S : f[x] = Cardinality(F[x])
    PROVE  Sums([T \in SUBSET S |-> Cardinality(All(F, T))], f, S)
<1> DEFINE k == [T \in SUBSET S |-> Cardinality(All(F, T))]
<1>1. ASSUME NEW T \in SUBSET S
      PROVE  /\ IsFiniteSet(All(F, T))
             /\ Cardinality(All(F, T)) \in Nat
  <2>1. IsFiniteSet(T)
    BY FS_Subset
  <2>2. \A x \in T : IsFiniteSet(F[x])
    OBVIOUS
  <2> QED BY <2>1, <2>2, UnionFinite, Zenon
<1>2. k[{}] = 0
  <2>1. All(F, {}) = {}
    BY DEF All
  <2> QED BY <2>1, FS_EmptySet
<1>3. ASSUME NEW T \in SUBSET S, NEW x \in T
      PROVE  k[T] = f[x] + k[T \ {x}]
  <2> DEFINE A == All(F, T \ {x})
             B == F[x]
  <2>1. All(F, T) = A \cup B
    BY Zenon DEF All
  <2>2. A \cap B = {}
    BY DEF All
  <2>3. IsFiniteSet(B) /\ Cardinality(B) = f[x]
    OBVIOUS
  <2>4. IsFiniteSet(A) /\ k[T \ {x}] = Cardinality(A)
    BY <1>1
  <2>5. k[T] = Cardinality(A \cup B)
    BY <2>1
  <2> HIDE DEF A, B, k
  <2>6. Cardinality(A \cup B) = Cardinality(A) + Cardinality(B)
    BY <2>2, <2>3, <2>4, DisjointCount
  <2>7. Cardinality(A) \in Nat /\ Cardinality(B) \in Nat
    BY <2>3, <2>4, FS_CardinalityType
  <2> QED BY <2>3, <2>4, <2>5, <2>6, <2>7
<1>4. k \in [SUBSET S -> Int]
  <2>1. \A T \in SUBSET S : Cardinality(All(F, T)) \in Int
    BY <1>1
  <2> QED BY <2>1
<1> HIDE DEF k
<1>5. Sums(k, f, S)
  BY <1>2, <1>3, <1>4 DEF Sums
<1> QED BY <1>5 DEF k

LEMMA SumClasses ==
    ASSUME NEW S, IsFiniteSet(S), NEW F, \A x \in S : IsFiniteSet(F[x]),
           \A x, y \in S : x # y => F[x] \cap F[y] = {},
           NEW f, \A x \in S : f[x] = Cardinality(F[x]),
           NEW U, \A p : p \in U <=> \E x \in S : p \in F[x]
    PROVE  SumOver(f, S) = Cardinality(U) /\ IsFiniteSet(U)
<1> DEFINE k == [T \in SUBSET S |-> Cardinality(All(F, T))]
<1>1. Sums(k, f, S)
  BY ClassSums
<1>2. U = All(F, S)
  BY DEF All
<1>3. k[S] = Cardinality(U)
  BY <1>2
<1>4. IsFiniteSet(U)
  BY <1>2, UnionFinite
<1> HIDE DEF k
<1> QED BY <1>1, <1>3, <1>4, SumIs

\* Sums over a finite set of numbers: the numbers are the sizes of disjoint sets.
LEMMA SumFacts ==
    ASSUME NEW S, IsFiniteSet(S), NEW f, \A x \in S : f[x] \in Nat
    PROVE  /\ SumOver(f, S) \in Nat
           /\ SumOver(f, {}) = 0
           /\ \A x \in S : SumOver(f, S) = f[x] + SumOver(f, S \ {x})
           /\ \A T \in SUBSET S : SumOver(f, T) \in Nat
           /\ Sums([T \in SUBSET S |-> SumOver(f, T)], f, S)
<1> DEFINE F == [x \in S |-> {x} \X (1..f[x])]
           k(T) == [U \in SUBSET T |-> Cardinality(All(F, U))]
<1>1. ASSUME NEW x \in S
      PROVE  IsFiniteSet(F[x]) /\ f[x] = Cardinality(F[x])
  <2>1. PICK n \in Nat : n = f[x]
    OBVIOUS
  <2>2. IsFiniteSet(1..n) /\ Cardinality(1..n) = n
    BY FS_Interval
  <2>3. IsFiniteSet({x} \X (1..n)) /\ Cardinality({x} \X (1..n)) = n
    BY <2>2, SliceCount
  <2> QED BY <2>1, <2>3
<1>2. \A x, y \in S : x # y => F[x] \cap F[y] = {}
  OBVIOUS
<1> HIDE DEF F
<1>3. ASSUME NEW T \in SUBSET S
      PROVE  /\ Sums(k(T), f, T)
             /\ SumOver(f, T) = Cardinality(All(F, T))
             /\ SumOver(f, T) \in Nat
  <2>1. IsFiniteSet(T)
    BY FS_Subset
  <2>2. \A x \in T : IsFiniteSet(F[x]) /\ f[x] = Cardinality(F[x])
    BY <1>1
  <2>3. \A x, y \in T : x # y => F[x] \cap F[y] = {}
    BY <1>2
  <2>4. Sums(k(T), f, T)
    BY <2>1, <2>2, <2>3, ClassSums, Zenon
  <2>5. k(T)[T] = Cardinality(All(F, T))
    OBVIOUS
  <2>6. Cardinality(All(F, T)) \in Nat
    BY <2>1, <2>2, UnionFinite, Zenon
  <2> HIDE DEF k
  <2>7. SumOver(f, T) = k(T)[T]
    BY <2>1, <2>4, SumIs
  <2> QED BY <2>4, <2>5, <2>6, <2>7
<1>4. [T \in SUBSET S |-> SumOver(f, T)] = k(S)
  BY <1>3
<1>5. Sums([T \in SUBSET S |-> SumOver(f, T)], f, S)
  BY <1>3, <1>4
<1> DEFINE h == [T \in SUBSET S |-> SumOver(f, T)]
<1>6. \A T \in SUBSET S : h[T] = SumOver(f, T)
  OBVIOUS
<1> HIDE DEF h
<1>7. SumOver(f, {}) = 0
  BY <1>5, <1>6 DEF Sums, h
<1>8. \A x \in S : SumOver(f, S) = f[x] + SumOver(f, S \ {x})
  BY <1>5, <1>6 DEF Sums, h
<1> QED BY <1>3, <1>5, <1>7, <1>8

LEMMA SumZero ==
    ASSUME NEW S, IsFiniteSet(S), NEW f, \A x \in S : f[x] = 0
    PROVE  SumOver(f, S) = 0
<1> DEFINE k == [T \in SUBSET S |-> 0]
<1>1. Sums(k, f, S) /\ k[S] = 0
  BY DEF Sums
<1> HIDE DEF k
<1> QED BY <1>1, SumIs

LEMMA SumSame ==
    ASSUME NEW S, IsFiniteSet(S), NEW f, NEW g, \A x \in S : f[x] \in Nat /\ g[x] = f[x]
    PROVE  SumOver(g, S) = SumOver(f, S)
<1> DEFINE k == [T \in SUBSET S |-> SumOver(f, T)]
<1>1. Sums(k, f, S) /\ k[S] = SumOver(f, S)
  BY SumFacts
<1> HIDE DEF k
<1>2. Sums(k, g, S)
  BY <1>1 DEF Sums
<1> QED BY <1>1, <1>2, SumIs

LEMMA SumPlus ==
    ASSUME NEW S, IsFiniteSet(S), NEW f, NEW g, NEW h,
           \A x \in S : f[x] \in Nat /\ g[x] \in Nat /\ h[x] = f[x] + g[x]
    PROVE  SumOver(h, S) = SumOver(f, S) + SumOver(g, S)
<1> DEFINE a == [T \in SUBSET S |-> SumOver(f, T)]
           b == [T \in SUBSET S |-> SumOver(g, T)]
           k == [T \in SUBSET S |-> a[T] + b[T]]
<1>1. Sums(a, f, S) /\ Sums(b, g, S) /\ a[S] = SumOver(f, S) /\ b[S] = SumOver(g, S)
  BY SumFacts
<1> HIDE DEF a, b
<1>2. ASSUME NEW T \in SUBSET S, NEW x \in T
      PROVE  k[T] = h[x] + k[T \ {x}]
  <2>1. a[T] = f[x] + a[T \ {x}] /\ b[T] = g[x] + b[T \ {x}]
    BY <1>1 DEF Sums
  <2>2. T \ {x} \in SUBSET S /\ f[x] \in Nat /\ g[x] \in Nat /\ h[x] = f[x] + g[x]
    OBVIOUS
  <2>3. a[T \ {x}] \in Int /\ b[T \ {x}] \in Int /\ k[T \ {x}] = a[T \ {x}] + b[T \ {x}]
    BY <1>1, <2>2 DEF Sums
  <2>4. k[T] = a[T] + b[T]
    OBVIOUS
  <2> HIDE DEF k
  <2> QED BY <2>1, <2>2, <2>3, <2>4
<1>3. k \in [SUBSET S -> Int] /\ k[{}] = 0
  BY <1>1 DEF Sums
<1>4. k[S] = a[S] + b[S]
  OBVIOUS
<1> HIDE DEF k
<1>5. Sums(k, h, S)
  BY <1>2, <1>3 DEF Sums
<1> QED BY <1>1, <1>4, <1>5, SumIs

\* One value of the function grows.
LEMMA SumBump ==
    ASSUME NEW S, IsFiniteSet(S), NEW f, NEW g, NEW y \in S, NEW d \in Nat,
           \A x \in S : f[x] \in Nat, g[y] = f[y] + d, \A x \in S \ {y} : g[x] = f[x]
    PROVE  SumOver(g, S) = SumOver(f, S) + d
<1>1. IsFiniteSet(S \ {y}) /\ S \ {y} \in SUBSET S
  BY FS_Subset
<1>2. SumOver(f, S) = f[y] + SumOver(f, S \ {y}) /\ SumOver(f, S \ {y}) \in Nat
  BY <1>1, SumFacts
<1>3. \A x \in S : g[x] \in Nat
  OBVIOUS
<1>4. SumOver(g, S) = g[y] + SumOver(g, S \ {y})
  BY <1>3, SumFacts
<1>5. SumOver(g, S \ {y}) = SumOver(f, S \ {y})
  BY <1>1, SumSame
<1>6. f[y] \in Nat
  OBVIOUS
<1> QED BY <1>2, <1>4, <1>5, <1>6

LEMMA SumSplit ==
    ASSUME NEW S, IsFiniteSet(S), NEW f, \A x \in S : f[x] \in Nat,
           NEW A \in SUBSET S
    PROVE  /\ SumOver(f, S) = SumOver(f, A) + SumOver(f, S \ A)
           /\ SumOver(f, A) \in Nat /\ SumOver(f, S \ A) \in Nat
<1> DEFINE a == [T \in SUBSET S |-> SumOver(f, T)]
           k == [T \in SUBSET S |-> a[T \cap A] + a[T \ A]]
<1>1. Sums(a, f, S) /\ \A T \in SUBSET S : a[T] = SumOver(f, T) /\ SumOver(f, T) \in Nat
  BY SumFacts
<1> HIDE DEF a
<1>2. ASSUME NEW T \in SUBSET S, NEW x \in T
      PROVE  k[T] = f[x] + k[T \ {x}]
  <2>1. /\ T \cap A \in SUBSET S /\ T \ A \in SUBSET S
        /\ (T \ {x}) \cap A \in SUBSET S /\ (T \ {x}) \ A \in SUBSET S /\ f[x] \in Nat
    OBVIOUS
  <2>2. /\ a[T \cap A] \in Int /\ a[T \ A] \in Int
        /\ a[(T \ {x}) \cap A] \in Int /\ a[(T \ {x}) \ A] \in Int
    BY <1>1, <2>1 DEF Sums
  <2>3. /\ k[T] = a[T \cap A] + a[T \ A]
        /\ k[T \ {x}] = a[(T \ {x}) \cap A] + a[(T \ {x}) \ A]
    OBVIOUS
  <2> HIDE DEF k
  <2>4. CASE x \in A
    <3>1. (T \ {x}) \cap A = (T \cap A) \ {x} /\ (T \ {x}) \ A = T \ A /\ x \in T \cap A
      BY <2>4
    <3>2. a[T \cap A] = f[x] + a[(T \cap A) \ {x}]
      BY <1>1, <2>1, <3>1 DEF Sums
    <3>3. k[T \ {x}] = a[(T \cap A) \ {x}] + a[T \ A] /\ a[(T \cap A) \ {x}] \in Int
      BY <2>2, <2>3, <3>1, Zenon
    <3> QED BY <2>1, <2>2, <2>3, <3>2, <3>3
  <2>5. CASE x \notin A
    <3>1. (T \ {x}) \cap A = T \cap A /\ (T \ {x}) \ A = (T \ A) \ {x} /\ x \in T \ A
      BY <2>5
    <3>2. a[T \ A] = f[x] + a[(T \ A) \ {x}]
      BY <1>1, <2>1, <3>1 DEF Sums
    <3>3. k[T \ {x}] = a[T \cap A] + a[(T \ A) \ {x}] /\ a[(T \ A) \ {x}] \in Int
      BY <2>2, <2>3, <3>1, Zenon
    <3> QED BY <2>1, <2>2, <2>3, <3>2, <3>3
  <2> QED BY <2>4, <2>5
<1>3. k \in [SUBSET S -> Int] /\ k[{}] = 0
  <2>1. \A T \in SUBSET S : T \cap A \in SUBSET S /\ T \ A \in SUBSET S
    OBVIOUS
  <2>2. \A T \in SUBSET S : a[T \cap A] + a[T \ A] \in Int
    BY <1>1, <2>1
  <2>3. {} \cap A = {} /\ {} \ A = {} /\ a[{}] = 0
    BY <1>1 DEF Sums
  <2>4. k[{}] = a[{} \cap A] + a[{} \ A]
    OBVIOUS
  <2>5. k \in [SUBSET S -> Int]
    BY <2>2
  <2> HIDE DEF k
  <2>6. k[{}] = a[{}] + a[{}]
    BY <2>3, <2>4, Zenon
  <2> QED BY <2>3, <2>5, <2>6
<1>4. k[S] = SumOver(f, A) + SumOver(f, S \ A)
  <2>1. S \cap A = A /\ S \ A \in SUBSET S
    OBVIOUS
  <2>2. k[S] = a[S \cap A] + a[S \ A]
    OBVIOUS
  <2> QED BY <1>1, <2>1, <2>2
<1> HIDE DEF k
<1>5. Sums(k, f, S)
  BY <1>2, <1>3 DEF Sums
<1>6. S \ A \in SUBSET S
  OBVIOUS
<1> QED BY <1>1, <1>4, <1>5, <1>6, SumIs

-----------------------------------------------------------------------------
(* The report of compare accounts for every record, whatever the baseline  *)
(* contains.                                                               *)

\* The targets of the shard under the join that wait for a new record.
Waiting(st) == {e \in ents : cPc = "join" /\ e.st = st /\ e.ip \notin cSeen}

\* How many records of a compared shard were read.
ReadOf == [s \in compared |-> IF s \in cTodo THEN cAt - 1 ELSE Len(new[s].recs)]

TargetsOf == [s \in compared |-> C!TargetCount(s)]

\* The rows of the matrix without the missing targets.
RowTotals == [st \in Statuses |-> SumOver(matrix[st], Statuses)]

\* The table has one entry per address.
OnePerAddress == \A a, b \in ents : a.ip = b.ip => a = b

RowsInv == \A st \in Statuses :
    SumOver(matrix[st], C!Columns) + Cardinality(Waiting(st)) = targets[st]

LoadedInv == SumOver(targets, Statuses) + cRes["oldDups"] = SumOver(TargetsOf, compared)

ReadInv ==
    SumOver(RowTotals, Statuses) + cRes["newDups"] + cRes["unexpected"] = SumOver(ReadOf, compared)

NamesInv ==
    /\ cRes["bothChecked"] = cRes["matchBoth"] + cRes["matchOldOnly"]
                               + cRes["matchNewOnly"] + cRes["matchNeither"]
    /\ cRes["unchanged"] + cRes["changed"] = matrix["has_ptr"]["has_ptr"]

\* A failed run prints no report.
AccountInv ==
    cPc # "failed" =>
        /\ compared \cap cTodo = IF cPc = "join" THEN {C!Current} ELSE {}
        /\ cPc = "join" => OnePerAddress /\ cAt <= Len(new[C!Current].recs) + 1
        /\ cPc = "done" => cTodo = {}
        /\ RowsInv /\ LoadedInv /\ ReadInv /\ NamesInv

LEMMA SumsInCompare == \A f, S : C!SumOver(f, S) = SumOver(f, S)
  BY DEF C!SumOver, C!MapThenFoldSet, SumOver, MapThenFoldSet

LEMMA StatusSets ==
    /\ IsFiniteSet(Statuses) /\ IsFiniteSet(C!Columns)
    /\ Statuses \subseteq C!Columns /\ C!Columns \ {"missing"} = Statuses
    /\ "missing" \in C!Columns /\ "missing" \notin Statuses /\ "has_ptr" \in Statuses
<1> DEFINE A == {"has_ptr", "nxdomain", "noerror_empty", "timeout", "servfail", "refused",
                 "net_error", "lame_delegation"}
<1>1. IsFiniteSet(A)
  <2>1. IsFiniteSet({"has_ptr"}) /\ IsFiniteSet({"nxdomain"}) /\ IsFiniteSet({"noerror_empty"})
    BY FS_Singleton
  <2>2. /\ IsFiniteSet({"timeout"}) /\ IsFiniteSet({"servfail"}) /\ IsFiniteSet({"refused"})
        /\ IsFiniteSet({"net_error"}) /\ IsFiniteSet({"lame_delegation"})
    BY FS_Singleton
  <2>3. IsFiniteSet({"has_ptr"} \cup {"nxdomain"} \cup {"noerror_empty"})
    BY <2>1, FS_Union
  <2>4. IsFiniteSet({"timeout"} \cup {"servfail"} \cup {"refused"})
    BY <2>2, FS_Union
  <2>5. IsFiniteSet({"net_error"} \cup {"lame_delegation"})
    BY <2>2, FS_Union
  <2>6. IsFiniteSet(({"timeout"} \cup {"servfail"} \cup {"refused"})
                      \cup ({"net_error"} \cup {"lame_delegation"}))
    BY <2>4, <2>5, FS_Union
  <2>7. IsFiniteSet(({"has_ptr"} \cup {"nxdomain"} \cup {"noerror_empty"})
                      \cup (({"timeout"} \cup {"servfail"} \cup {"refused"})
                              \cup ({"net_error"} \cup {"lame_delegation"})))
    BY <2>3, <2>6, FS_Union
  <2>8. A = ({"has_ptr"} \cup {"nxdomain"} \cup {"noerror_empty"})
              \cup (({"timeout"} \cup {"servfail"} \cup {"refused"})
                      \cup ({"net_error"} \cup {"lame_delegation"}))
    OBVIOUS
  <2> HIDE DEF A
  <2> QED BY <2>7, <2>8
<1>2. Statuses \subseteq A /\ "has_ptr" \in Statuses
  BY PassesAssumption DEF Authoritative, Transient
<1>3. "missing" \notin Statuses
  BY <1>2
<1> HIDE DEF A
<1>4. IsFiniteSet(Statuses) /\ IsFiniteSet({"missing"})
  BY <1>1, <1>2, FS_Subset, FS_Singleton
<1>5. IsFiniteSet(C!Columns)
  BY <1>4, FS_Union DEF C!Columns
<1> QED BY <1>2, <1>3, <1>4, <1>5 DEF C!Columns

\* One more element.
LEMMA SumGrow ==
    ASSUME NEW S, IsFiniteSet(S), NEW f, NEW g, NEW x, x \notin S, g[x] \in Nat,
           \A y \in S : f[y] \in Nat /\ g[y] = f[y]
    PROVE  SumOver(g, S \cup {x}) = SumOver(f, S) + g[x]
<1>1. IsFiniteSet(S \cup {x})
  BY FS_AddElement
<1>2. (S \cup {x}) \ {x} = S /\ x \in S \cup {x}
  OBVIOUS
<1>3. \A y \in S \cup {x} : g[y] \in Nat
  OBVIOUS
<1>4. SumOver(g, S \cup {x}) = g[x] + SumOver(g, (S \cup {x}) \ {x})
  BY <1>1, <1>2, <1>3, SumFacts
<1>5. SumOver(g, S) = SumOver(f, S)
  BY SumSame
<1>6. SumOver(f, S) \in Nat
  BY SumFacts
<1>7. SumOver(g, S \cup {x}) = g[x] + SumOver(f, S)
  BY <1>2, <1>4, <1>5, Zenon
<1> QED BY <1>6, <1>7

LEMMA RowFacts ==
    ASSUME CompareInv, NEW st \in Statuses
    PROVE  /\ matrix[st] \in [C!Columns -> Nat] /\ targets[st] \in Nat
           /\ \A c \in C!Columns : matrix[st][c] \in Nat
           /\ SumOver(matrix[st], C!Columns) \in Nat /\ SumOver(matrix[st], Statuses) \in Nat
           /\ SumOver(matrix[st], C!Columns) = matrix[st]["missing"] + SumOver(matrix[st], Statuses)
<1>1. matrix[st] \in [C!Columns -> Nat] /\ targets[st] \in Nat
  BY DEF CompareInv, CompareTypes
<1>2. \A c \in C!Columns : matrix[st][c] \in Nat
  BY <1>1
<1>3. \A c \in Statuses : matrix[st][c] \in Nat
  BY <1>2, StatusSets
<1>4. SumOver(matrix[st], C!Columns) \in Nat /\ SumOver(matrix[st], Statuses) \in Nat
  BY <1>2, <1>3, StatusSets, SumFacts
<1>5. SumOver(matrix[st], C!Columns) = matrix[st]["missing"] + SumOver(matrix[st], C!Columns \ {"missing"})
  BY <1>2, StatusSets, SumFacts
<1>6. SumOver(matrix[st], C!Columns) = matrix[st]["missing"] + SumOver(matrix[st], Statuses)
  BY <1>5, StatusSets
<1> QED BY <1>1, <1>2, <1>4, <1>6

LEMMA TotalFacts ==
    ASSUME CompareInv
    PROVE  /\ \A st \in Statuses : RowTotals[st] \in Nat /\ targets[st] \in Nat
           /\ SumOver(RowTotals, Statuses) \in Nat /\ SumOver(targets, Statuses) \in Nat
           /\ \A c \in C!Counters : cRes[c] \in Nat
           /\ compared \subseteq Shards /\ IsFiniteSet(compared)
           /\ \A s \in compared : TargetsOf[s] \in Nat /\ ReadOf[s] \in Nat
           /\ SumOver(TargetsOf, compared) \in Nat /\ SumOver(ReadOf, compared) \in Nat
<1>1. \A st \in Statuses : RowTotals[st] \in Nat /\ targets[st] \in Nat
  BY RowFacts DEF RowTotals
<1>2. SumOver(RowTotals, Statuses) \in Nat /\ SumOver(targets, Statuses) \in Nat
  BY <1>1, StatusSets, SumFacts
<1>3. /\ \A c \in C!Counters : cRes[c] \in Nat
      /\ compared \subseteq Shards /\ CompareTypes
  BY DEF CompareInv, CompareTypes
<1>4. IsFiniteSet(compared)
  BY <1>3, PassesAssumption, FS_Subset
<1>5. ASSUME NEW s \in compared
      PROVE  TargetsOf[s] \in Nat /\ ReadOf[s] \in Nat
  <2>1. s \in Shards /\ cAt \in Nat \ {0}
    BY <1>3 DEF CompareTypes
  <2>2. new[s].recs \in Seq(Rec) /\ old[s].recs \in Seq(Rec)
    BY <1>3, <2>1 DEF CompareTypes
  <2>3. Len(new[s].recs) \in Nat /\ cAt - 1 \in Nat
    BY <2>1, <2>2
  <2>4. C!TargetCount(s) \in Nat
    <3> DEFINE D == {i \in DOMAIN old[s].recs : old[s].recs[i].st \in Mask}
    <3>1. Len(old[s].recs) \in Nat /\ D \subseteq 1..Len(old[s].recs)
      BY <2>2
    <3>2. C!TargetCount(s) = Cardinality(D)
      BY SameInCompare DEF C!TargetCount
    <3> HIDE DEF D
    <3>3. IsFiniteSet(1..Len(old[s].recs))
      BY <3>1, FS_Interval
    <3> QED BY <3>1, <3>2, <3>3, FinitePart
  <2> QED BY <2>3, <2>4 DEF TargetsOf, ReadOf
<1>6. SumOver(TargetsOf, compared) \in Nat /\ SumOver(ReadOf, compared) \in Nat
  BY <1>4, <1>5, SumFacts
<1> QED BY <1>1, <1>2, <1>3, <1>4, <1>5, <1>6

LEMMA AccountSame ==
    ASSUME RowsInv, LoadedInv, ReadInv, NamesInv,
           UNCHANGED <<old, matrix, targets, cRes, compared>>,
           \A st \in Statuses : Waiting(st)' = Waiting(st), ReadOf' = ReadOf
    PROVE  (RowsInv /\ LoadedInv /\ ReadInv /\ NamesInv)'
<1>1. RowsInv'
  BY DEF RowsInv, C!Columns
<1>2. LoadedInv'
  <2>1. TargetsOf' = TargetsOf
    BY DEF TargetsOf, C!TargetCount
  <2> QED BY <2>1 DEF LoadedInv
<1>3. ReadInv'
  BY DEF ReadInv, RowTotals
<1>4. NamesInv'
  BY DEF NamesInv
<1> QED BY <1>1, <1>2, <1>3, <1>4

LEMMA AccountMoves ==
    ASSUME CompareInv, AccountInv, C!Discover \/ C!SkipShard \/ C!Finalize
    PROVE  AccountInv'
<1>1. /\ UNCHANGED <<old, new, ents, cSeen, cAt, matrix, targets, cRes, compared>>
      /\ cPc \in {"discover", "pair"} /\ cPc' \in {"pair", "done", "failed"}
      /\ cTodo' \subseteq cTodo /\ (cPc' = "done" => cTodo' = {})
  BY DEF C!Discover, C!SkipShard, C!Finalize, C!inputVars, C!tableVars, C!reportVars, C!shardVars
<1>2. compared \cap cTodo = {} /\ compared' \cap cTodo' = {}
  BY <1>1 DEF AccountInv
<1>3. \A st \in Statuses : Waiting(st)' = Waiting(st)
  BY <1>1 DEF Waiting
<1>4. ReadOf' = ReadOf
  BY <1>1, <1>2 DEF ReadOf
<1>5. RowsInv /\ LoadedInv /\ ReadInv /\ NamesInv
  BY <1>1 DEF AccountInv
<1>6. (RowsInv /\ LoadedInv /\ ReadInv /\ NamesInv)'
  BY <1>1, <1>3, <1>4, <1>5, AccountSame
<1> QED BY <1>1, <1>2, <1>6 DEF AccountInv

LEMMA DedupedOnce ==
    ASSUME CompareTypes, NEW s \in Shards, NEW E \in C!Deduped(s)
    PROVE  \A a, b \in E : a.ip = b.ip => a = b
<1> DEFINE f == [r \in E |-> r.ip]
<1>1. IsFiniteSet(E)
  BY DedupedIs
<1>2. Cardinality(E) = Cardinality(Ips(E))
  BY SameInCompare DEF C!Deduped
<1>3. f \in Surjection(E, Ips(E))
  BY DEF Surjection, Ips
<1>4. \A r \in E : f[r] = r.ip
  OBVIOUS
<1> HIDE DEF f
<1>5. f \in Injection(E, Ips(E))
  BY <1>1, <1>2, <1>3, FS_Surjection
<1>6. \A a, b \in E : f[a] = f[b] => a = b
  BY <1>5 DEF Injection, IsInjective
<1> QED BY <1>4, <1>6

\* A loaded table is counted status by status.
LEMMA TableTotal ==
    ASSUME NEW E, IsFiniteSet(E), \A e \in E : e.st \in Statuses,
           NEW g, \A st \in Statuses : g[st] = Cardinality({e \in E : e.st = st})
    PROVE  SumOver(g, Statuses) = Cardinality(E)
<1> DEFINE F == [st \in Statuses |-> {e \in E : e.st = st}]
<1>1. \A st \in Statuses : F[st] \in SUBSET E /\ g[st] = Cardinality(F[st])
  OBVIOUS
<1>2. \A x, y \in Statuses : x # y => F[x] \cap F[y] = {}
  OBVIOUS
<1>3. \A e : e \in E <=> \E st \in Statuses : e \in F[st]
  OBVIOUS
<1> HIDE DEF F
<1>4. \A st \in Statuses : IsFiniteSet(F[st])
  BY <1>1, FS_Subset
<1>5. IsFiniteSet(Statuses) /\ \A st \in Statuses : g[st] = Cardinality(F[st])
  BY <1>1, StatusSets
<1> QED BY <1>2, <1>3, <1>4, <1>5, SumClasses

LEMMA AccountLoad ==
    ASSUME CompareInv, AccountInv, C!LoadShard
    PROVE  AccountInv'
<1>0. PICK s : s = C!Current
  OBVIOUS
<1>1. CompareTypes /\ s \in Shards /\ s \in cTodo
  BY <1>0, CompareCurrentIs DEF C!LoadShard, CompareInv, CompareTypes
<1>2. PICK E \in C!Deduped(s) :
        /\ ents' = E
        /\ cRes' = [cRes EXCEPT !["oldDups"] = @ + C!TargetCount(s) - Cardinality(E)]
        /\ targets' = [st \in Statuses |-> targets[st] + Cardinality({e \in E : e.st = st})]
  BY <1>0, SameInCompare DEF C!LoadShard
<1>3. /\ UNCHANGED <<old, new, cTodo, matrix>> /\ cPc = "pair"
      /\ compared' = compared \cup {s} /\ cSeen' = {} /\ cAt' = 1 /\ cPc' = "join"
  BY <1>0 DEF C!LoadShard, C!inputVars
<1>4. /\ E \subseteq {r \in Rec : r.st \in Mask}
      /\ IsFiniteSet(E) /\ Cardinality(E) \in Nat
      /\ C!TargetCount(s) \in Nat /\ Cardinality(E) <= C!TargetCount(s)
  BY <1>1, DedupedIs
<1>5. compared \cap cTodo = {} /\ compared' \cap cTodo' = {s} /\ s \notin compared
  BY <1>1, <1>3 DEF AccountInv
<1>6. C!Current' = s
  BY <1>0, <1>3 DEF C!Current
<1>7. RowsInv /\ LoadedInv /\ ReadInv /\ NamesInv
  BY <1>3 DEF AccountInv
<1>8. \A st \in Statuses : Cardinality({e \in E : e.st = st}) \in Nat
  BY <1>4, FinitePart
<1>9. RowsInv'
  <2> SUFFICES ASSUME NEW st \in Statuses
               PROVE  SumOver(matrix'[st], C!Columns) + Cardinality(Waiting(st)') = targets'[st]
    BY DEF RowsInv, C!Columns
  <2>1. Waiting(st) = {} /\ Waiting(st)' = {e \in E : e.st = st}
    BY <1>2, <1>3 DEF Waiting
  <2>2. Cardinality(Waiting(st)) = 0
    BY <2>1, FS_EmptySet
  <2>3. SumOver(matrix[st], C!Columns) \in Nat /\ targets[st] \in Nat
    BY RowFacts
  <2>4. SumOver(matrix[st], C!Columns) = targets[st]
    BY <1>7, <2>2, <2>3 DEF RowsInv
  <2>5. targets'[st] = targets[st] + Cardinality({e \in E : e.st = st})
    BY <1>2
  <2> QED BY <1>3, <2>1, <2>4, <2>5
<1>10. LoadedInv'
  <2> DEFINE g == [st \in Statuses |-> Cardinality({e \in E : e.st = st})]
  <2>1. \A st \in Statuses : g[st] = Cardinality({e \in E : e.st = st})
    OBVIOUS
  <2>2. \A st \in Statuses : g[st] \in Nat /\ targets[st] \in Nat /\ targets'[st] = targets[st] + g[st]
    BY <1>2, <1>8, RowFacts
  <2> HIDE DEF g
  <2>3. \A e \in E : e.st \in Statuses
    BY <1>4, RecFields
  <2>4. SumOver(g, Statuses) = Cardinality(E)
    BY <1>4, <2>1, <2>3, TableTotal
  <2>5. SumOver(targets', Statuses) = SumOver(targets, Statuses) + SumOver(g, Statuses)
    BY <2>2, StatusSets, SumPlus
  <2>6. cRes'["oldDups"] = cRes["oldDups"] + C!TargetCount(s) - Cardinality(E)
    BY <1>1, <1>2 DEF CompareTypes, C!Counters
  <2>7. /\ \A t \in compared : TargetsOf[t] \in Nat /\ TargetsOf'[t] = TargetsOf[t]
        /\ TargetsOf'[s] = C!TargetCount(s)
    <3>1. \A t : C!TargetCount(t)' = C!TargetCount(t)
      BY <1>3 DEF C!TargetCount
    <3> QED BY <1>3, <3>1, TotalFacts DEF TargetsOf
  <2>8. SumOver(TargetsOf', compared') = SumOver(TargetsOf, compared) + C!TargetCount(s)
    <3>1. IsFiniteSet(compared)
      BY TotalFacts
    <3>2. PICK f, h : f = TargetsOf /\ h = TargetsOf'
      OBVIOUS
    <3>3. (\A t \in compared : f[t] \in Nat /\ h[t] = f[t]) /\ h[s] \in Nat
      BY <1>4, <2>7, <3>2
    <3>4. SumOver(h, compared \cup {s}) = SumOver(f, compared) + h[s]
      BY <1>5, <3>1, <3>3, SumGrow
    <3> QED BY <1>3, <2>7, <3>2, <3>4
  <2>9. SumOver(targets, Statuses) \in Nat /\ cRes["oldDups"] \in Nat
    BY TotalFacts DEF C!Counters
  <2>10. SumOver(targets, Statuses) + cRes["oldDups"] = SumOver(TargetsOf, compared)
    BY <1>7 DEF LoadedInv
  <2>11. SumOver(targets', Statuses) + cRes'["oldDups"] = SumOver(TargetsOf', compared')
    BY <1>4, <2>4, <2>5, <2>6, <2>8, <2>9, <2>10
  <2> QED BY <2>11 DEF LoadedInv
<1>11. ReadInv'
  <2>1. /\ \A t \in compared : ReadOf[t] \in Nat /\ ReadOf'[t] = ReadOf[t]
        /\ ReadOf'[s] = 0
    <3>1. \A t \in compared : ReadOf[t] \in Nat
      BY TotalFacts
    <3>2. \A t \in compared : t \notin cTodo
      BY <1>5
    <3> QED BY <1>1, <1>3, <3>1, <3>2 DEF ReadOf
  <2>2. SumOver(ReadOf', compared') = SumOver(ReadOf, compared) + 0
    <3>1. IsFiniteSet(compared)
      BY TotalFacts
    <3>2. PICK f, h : f = ReadOf /\ h = ReadOf'
      OBVIOUS
    <3>3. (\A t \in compared : f[t] \in Nat /\ h[t] = f[t]) /\ h[s] \in Nat
      BY <2>1, <3>2
    <3>4. SumOver(h, compared \cup {s}) = SumOver(f, compared) + h[s]
      BY <1>5, <3>1, <3>3, SumGrow
    <3> QED BY <1>3, <2>1, <3>2, <3>4
  <2>3. SumOver(ReadOf, compared) \in Nat
    BY TotalFacts
  <2>4. RowTotals' = RowTotals
    BY <1>3 DEF RowTotals
  <2>5. cRes'["newDups"] = cRes["newDups"] /\ cRes'["unexpected"] = cRes["unexpected"]
    BY <1>1, <1>2 DEF CompareTypes, C!Counters
  <2> QED BY <1>7, <2>2, <2>3, <2>4, <2>5 DEF ReadInv
<1>12. NamesInv'
  <2>1. \A c \in {"bothChecked", "matchBoth", "matchOldOnly", "matchNewOnly", "matchNeither",
                  "unchanged", "changed"} : cRes'[c] = cRes[c]
    BY <1>1, <1>2 DEF CompareTypes, C!Counters
  <2> QED BY <1>3, <1>7, <2>1 DEF NamesInv
<1>13. OnePerAddress' /\ (cAt <= Len(new[s].recs) + 1)'
  <2>1. \A a, b \in E : a.ip = b.ip => a = b
    BY <1>1, DedupedOnce
  <2>2. Len(new[s].recs) \in Nat
    BY <1>1 DEF CompareTypes
  <2> QED BY <1>2, <1>3, <2>1, <2>2 DEF OnePerAddress
<1> QED BY <1>3, <1>5, <1>6, <1>9, <1>10, <1>11, <1>12, <1>13 DEF AccountInv

\* One more record of the shard under the join was read.
LEMMA ReadBump ==
    ASSUME CompareInv, CompareInv', AccountInv, cPc = "join", NEW s, s = C!Current,
           UNCHANGED <<new, cTodo, compared>>, cAt' = cAt + 1, cAt <= Len(new[s].recs)
    PROVE  /\ SumOver(ReadOf', compared') = SumOver(ReadOf, compared) + 1
           /\ s \in Shards /\ C!Current' = s /\ cAt + 1 <= Len(new[s].recs) + 1
<1>1. compared \cap cTodo = {s} /\ s \in compared /\ s \in cTodo
  BY DEF AccountInv
<1>2. compared \subseteq Shards /\ IsFiniteSet(compared) /\ cAt \in Nat \ {0}
  BY TotalFacts DEF CompareInv, CompareTypes
<1>3. PICK f, h : f = ReadOf /\ h = ReadOf'
  OBVIOUS
<1>4. \A t \in compared : f[t] \in Nat
  BY <1>3, TotalFacts
<1>5. f[s] = cAt - 1 /\ h[s] = cAt
  BY <1>1, <1>2, <1>3 DEF ReadOf
<1>6. \A t \in compared \ {s} : h[t] = f[t]
  BY <1>1, <1>3 DEF ReadOf
<1>7. h[s] = f[s] + 1
  BY <1>2, <1>5
<1>8. SumOver(h, compared) = SumOver(f, compared) + 1
  <2>1. PICK d \in Nat : d = 1
    OBVIOUS
  <2>2. h[s] = f[s] + d
    BY <1>7, <2>1
  <2>3. IsFiniteSet(compared) /\ s \in compared
    BY <1>1, <1>2
  <2>4. SumOver(h, compared) = SumOver(f, compared) + d
    BY ONLY <1>4, <1>6, <2>2, <2>3, d \in Nat, SumBump
  <2> QED BY <2>1, <2>4
<1>9. C!Current' = s
  BY DEF C!Current
<1>10. Len(new[s].recs) \in Nat
  BY <1>1, <1>2 DEF CompareInv, CompareTypes
<1> QED BY <1>1, <1>2, <1>3, <1>8, <1>9, <1>10

LEMMA AccountIgnore ==
    ASSUME CompareInv, CompareInv', AccountInv, C!Unexpected \/ C!NewDup
    PROVE  AccountInv'
<1>0. PICK s : s = C!Current
  OBVIOUS
<1>1. /\ UNCHANGED <<old, new, cPc, cTodo, ents, cSeen, targets, matrix, compared>>
      /\ cAt' = cAt + 1 /\ cPc = "join" /\ cAt <= Len(new[s].recs)
  BY <1>0 DEF C!Unexpected, C!NewDup, C!Joining, C!Ignore, C!inputVars, C!shardVars
<1>2. PICK c \in {"unexpected", "newDups"} : cRes' = [cRes EXCEPT ![c] = @ + 1]
  BY DEF C!Unexpected, C!NewDup, C!Ignore
<1>3. /\ SumOver(ReadOf', compared') = SumOver(ReadOf, compared) + 1
      /\ s \in Shards /\ C!Current' = s /\ cAt + 1 <= Len(new[s].recs) + 1
  BY <1>0, <1>1, ReadBump
<1>4. RowsInv /\ LoadedInv /\ ReadInv /\ NamesInv /\ OnePerAddress
  BY <1>1 DEF AccountInv
<1>5. cRes \in [C!Counters -> Nat]
  BY DEF CompareInv, CompareTypes
<1>6. RowsInv'
  <2>1. \A st \in Statuses : Waiting(st)' = Waiting(st)
    BY <1>1 DEF Waiting
  <2> QED BY <1>1, <1>4, <2>1 DEF RowsInv, C!Columns
<1>7. LoadedInv'
  <2>1. TargetsOf' = TargetsOf
    BY <1>1 DEF TargetsOf, C!TargetCount
  <2>2. cRes'["oldDups"] = cRes["oldDups"]
    BY <1>2, <1>5 DEF C!Counters
  <2> QED BY <1>1, <1>4, <2>1, <2>2 DEF LoadedInv
<1>8. ReadInv'
  <2>1. RowTotals' = RowTotals
    BY <1>1 DEF RowTotals
  <2>2. /\ cRes["newDups"] \in Nat /\ cRes["unexpected"] \in Nat
        /\ cRes'["newDups"] + cRes'["unexpected"] = cRes["newDups"] + cRes["unexpected"] + 1
    BY <1>2, <1>5 DEF C!Counters
  <2>3. cRes'["newDups"] \in Nat /\ cRes'["unexpected"] \in Nat
    BY <1>2, <1>5 DEF C!Counters
  <2>4. SumOver(RowTotals, Statuses) \in Nat
    BY TotalFacts
  <2>5. SumOver(RowTotals, Statuses) + cRes["newDups"] + cRes["unexpected"] = SumOver(ReadOf, compared)
    BY <1>4 DEF ReadInv
  <2>6. SumOver(RowTotals, Statuses) + cRes'["newDups"] + cRes'["unexpected"]
          = SumOver(ReadOf', compared')
    <3>1. PICK n, n1, u, u1, r :
            /\ n = cRes["newDups"] /\ n1 = cRes'["newDups"] /\ u = cRes["unexpected"]
            /\ u1 = cRes'["unexpected"] /\ r = SumOver(RowTotals, Statuses)
      OBVIOUS
    <3>2. r + n1 + u1 = (r + n + u) + 1
      BY <2>2, <2>3, <2>4, <3>1
    <3> QED BY <1>3, <2>5, <3>1, <3>2
  <2> QED BY <2>1, <2>6 DEF ReadInv
<1>9. NamesInv'
  <2>1. \A k \in {"bothChecked", "matchBoth", "matchOldOnly", "matchNewOnly", "matchNeither",
                  "unchanged", "changed"} : cRes'[k] = cRes[k]
    BY <1>2, <1>5 DEF C!Counters
  <2> QED BY <1>1, <1>4, <2>1 DEF NamesInv
<1>10. OnePerAddress' /\ (cAt <= Len(new[s].recs) + 1)'
  BY <1>1, <1>3, <1>4 DEF OnePerAddress
<1>11. compared \cap cTodo = {s}
  BY <1>0, <1>1 DEF AccountInv
<1> QED BY <1>1, <1>3, <1>6, <1>7, <1>8, <1>9, <1>10, <1>11 DEF AccountInv

\* What a join adds to the confirmation and name counters.
LEMMA NamesJoin ==
    ASSUME CompareInv, C!Join, NamesInv, C!Entry.st \in Statuses, C!Row.st \in Statuses
    PROVE  NamesInv'
<1>1. cRes \in [C!Counters -> Nat] /\ \A k \in C!Counters :
        cRes'[k] = IF k \in C!Counted(C!Entry, C!Row) THEN cRes[k] + 1 ELSE cRes[k]
  BY DEF C!Join, CompareInv, CompareTypes
<1> DEFINE G == C!Counted(C!Entry, C!Row)
           both == C!Entry.st = "has_ptr" /\ C!Row.st = "has_ptr"
           M4 == {"matchBoth", "matchOldOnly", "matchNewOnly", "matchNeither"}
<1>2. /\ "bothChecked" \notin G => \A k \in M4 : k \notin G
      /\ "bothChecked" \in G => \E k \in M4 : k \in G /\ \A j \in M4 : j \in G => j = k
  BY DEF C!Counted, C!Counters
<1>3. /\ ~both => "unchanged" \notin G /\ "changed" \notin G
      /\ both => ("unchanged" \in G <=> "changed" \notin G)
  BY DEF C!Counted, C!Counters
<1>4. \A k \in M4 \cup {"bothChecked", "unchanged", "changed"} :
        cRes[k] \in Nat /\ cRes'[k] = IF k \in G THEN cRes[k] + 1 ELSE cRes[k]
  BY <1>1 DEF C!Counters
<1>5. matrix'["has_ptr"]["has_ptr"] = IF both THEN matrix["has_ptr"]["has_ptr"] + 1
                                      ELSE matrix["has_ptr"]["has_ptr"]
  <2>1. matrix' = [matrix EXCEPT ![C!Entry.st][C!Row.st] = @ + 1]
    BY DEF C!Join
  <2>2. /\ matrix \in [Statuses -> [C!Columns -> Nat]] /\ "has_ptr" \in Statuses
        /\ "has_ptr" \in C!Columns /\ C!Row.st \in C!Columns
    BY StatusSets DEF CompareInv, CompareTypes
  <2>3. matrix["has_ptr"] \in [C!Columns -> Nat]
    BY <2>2
  <2> QED BY <2>1, <2>2, <2>3
<1>6. matrix["has_ptr"]["has_ptr"] \in Nat
  BY RowFacts, StatusSets
<1> HIDE DEF G, both
<1>7. cRes'["unchanged"] + cRes'["changed"] = matrix'["has_ptr"]["has_ptr"]
  BY <1>3, <1>4, <1>5, <1>6 DEF NamesInv
<1>8. cRes'["bothChecked"] = cRes'["matchBoth"] + cRes'["matchOldOnly"]
                               + cRes'["matchNewOnly"] + cRes'["matchNeither"]
  <2>1. CASE "bothChecked" \notin G
    BY <1>2, <1>4, <2>1 DEF NamesInv
  <2>2. CASE "bothChecked" \in G
    <3>1. PICK k \in M4 : k \in G /\ \A j \in M4 : j \in G => j = k
      BY <1>2, <2>2
    <3>2. cRes'["bothChecked"] = cRes["bothChecked"] + 1 /\ cRes'[k] = cRes[k] + 1
      BY <1>4, <2>2, <3>1
    <3>3. \A j \in M4 : j # k => cRes'[j] = cRes[j]
      BY <1>4, <3>1
    <3> QED BY <1>4, <3>1, <3>2, <3>3 DEF NamesInv
  <2> QED BY <2>1, <2>2
<1> QED BY <1>7, <1>8 DEF NamesInv

LEMMA AccountJoin ==
    ASSUME CompareInv, CompareInv', AccountInv, C!Join
    PROVE  AccountInv'
<1>0. PICK s, e, r : s = C!Current /\ e = C!Entry /\ r = C!Row
  OBVIOUS
<1>1. /\ UNCHANGED <<old, new, cPc, cTodo, ents, targets, compared>> /\ cPc = "join"
      /\ cSeen' = cSeen \cup {r.ip} /\ cAt' = cAt + 1 /\ cAt <= Len(new[s].recs)
      /\ r.ip \in Ips(ents) /\ r.ip \notin cSeen
      /\ matrix' = [matrix EXCEPT ![e.st][r.st] = @ + 1]
  BY <1>0, SameInCompare DEF C!Join, C!Joining, C!inputVars, C!shardVars
<1>2. e \in ents /\ e.ip = r.ip /\ e.st \in Statuses /\ IsFiniteSet(ents)
  <2>1. e \in ents /\ e.ip = r.ip
    BY <1>0, <1>1, SameInCompare DEF C!Entry, RecordOf, Ips
  <2> QED BY <1>1, <2>1, RecFields DEF CompareInv, CompareTypes
<1>3. r.st \in Statuses /\ r.st \in C!Columns
  BY <1>0, JoinRow, StatusSets DEF C!Join, CompareInv
<1>4. /\ SumOver(ReadOf', compared') = SumOver(ReadOf, compared) + 1
      /\ s \in Shards /\ C!Current' = s /\ cAt + 1 <= Len(new[s].recs) + 1
  BY <1>0, <1>1, ReadBump
<1>5. RowsInv /\ LoadedInv /\ ReadInv /\ NamesInv /\ OnePerAddress
  BY <1>1 DEF AccountInv
<1>6. \A k \in {"oldDups", "newDups", "unexpected"} : cRes'[k] = cRes[k]
  BY DEF C!Join, C!Counters, C!Counted
<1>7. \A st \in Statuses : st # e.st => matrix'[st] = matrix[st]
  BY <1>1 DEF CompareInv, CompareTypes
<1>8. \A T \in SUBSET C!Columns : r.st \in T /\ IsFiniteSet(T) =>
        SumOver(matrix'[e.st], T) = SumOver(matrix[e.st], T) + 1
  <2> SUFFICES ASSUME NEW T \in SUBSET C!Columns, r.st \in T, IsFiniteSet(T)
               PROVE  SumOver(matrix'[e.st], T) = SumOver(matrix[e.st], T) + 1
    OBVIOUS
  <2>1. PICK f, h, d : d = 1 /\ d \in Nat /\ f = matrix[e.st] /\ h = matrix'[e.st]
    OBVIOUS
  <2>2. matrix \in [Statuses -> [C!Columns -> Nat]]
    BY DEF CompareInv, CompareTypes
  <2>3. f \in [C!Columns -> Nat] /\ h = [f EXCEPT ![r.st] = f[r.st] + 1]
    BY <1>1, <1>2, <2>1, <2>2
  <2>4. \A c \in T : f[c] \in Nat
    BY <2>3
  <2>5. h[r.st] = f[r.st] + d /\ \A c \in T \ {r.st} : h[c] = f[c]
    BY <1>3, <2>1, <2>3
  <2>6. SumOver(h, T) = SumOver(f, T) + d
    BY ONLY <2>1, <2>4, <2>5, IsFiniteSet(T), r.st \in T, SumBump
  <2> QED BY <2>1, <2>6
<1>9. RowsInv'
  <2> SUFFICES ASSUME NEW st \in Statuses
               PROVE  SumOver(matrix'[st], C!Columns) + Cardinality(Waiting(st)') = targets'[st]
    BY DEF RowsInv, C!Columns
  <2>1. SumOver(matrix[st], C!Columns) + Cardinality(Waiting(st)) = targets[st]
    BY <1>5 DEF RowsInv
  <2>2. Waiting(st)' = Waiting(st) \ {e}
    BY <1>1, <1>2, <1>5 DEF Waiting, OnePerAddress
  <2>3. IsFiniteSet(Waiting(st)) /\ Cardinality(Waiting(st)) \in Nat
    <3>1. Waiting(st) \subseteq ents
      BY DEF Waiting
    <3> QED BY <1>2, <3>1, FS_Subset, FS_CardinalityType
  <2>4. SumOver(matrix[st], C!Columns) \in Nat
    BY RowFacts
  <2>5. CASE st = e.st
    <3>1. e \in Waiting(st)
      BY <1>1, <1>2, <2>5 DEF Waiting
    <3>2. Cardinality(Waiting(st)') = Cardinality(Waiting(st)) - 1
      BY <2>2, <2>3, <3>1, FS_RemoveElement
    <3>3. SumOver(matrix'[st], C!Columns) = SumOver(matrix[st], C!Columns) + 1
      BY <1>3, <1>8, <2>5, StatusSets
    <3> QED BY <1>1, <2>1, <2>3, <2>4, <3>2, <3>3
  <2>6. CASE st # e.st
    <3>1. e \notin Waiting(st)
      BY <2>6 DEF Waiting
    <3>2. Waiting(st)' = Waiting(st)
      BY <2>2, <3>1
    <3> QED BY <1>1, <1>7, <2>1, <2>6, <3>2
  <2> QED BY <2>5, <2>6
<1>10. LoadedInv'
  <2>1. TargetsOf' = TargetsOf
    BY <1>1 DEF TargetsOf, C!TargetCount
  <2> QED BY <1>1, <1>5, <1>6, <2>1 DEF LoadedInv
<1>11. ReadInv'
  <2>1. PICK f, h, d : d = 1 /\ d \in Nat /\ f = RowTotals /\ h = RowTotals'
    OBVIOUS
  <2>2. \A st \in Statuses : f[st] \in Nat
    BY <2>1, TotalFacts
  <2>3. \A st \in Statuses : f[st] = SumOver(matrix[st], Statuses) /\ h[st] = SumOver(matrix'[st], Statuses)
    BY <2>1 DEF RowTotals
  <2>4. h[e.st] = f[e.st] + d
    BY <1>2, <1>3, <1>8, <2>1, <2>3, StatusSets
  <2>5. \A st \in Statuses \ {e.st} : h[st] = f[st]
    BY <1>7, <2>3
  <2>6. IsFiniteSet(Statuses) /\ e.st \in Statuses
    BY <1>2, StatusSets
  <2>7. SumOver(h, Statuses) = SumOver(f, Statuses) + d
    BY ONLY <2>1, <2>2, <2>4, <2>5, <2>6, SumBump
  <2>8. PICK a, n, u : a = SumOver(RowTotals, Statuses) /\ n = cRes["newDups"] /\ u = cRes["unexpected"]
    OBVIOUS
  <2>9. a \in Nat /\ n \in Nat /\ u \in Nat
    BY <2>8, TotalFacts DEF C!Counters
  <2>10. a + n + u = SumOver(ReadOf, compared)
    BY <1>5, <2>8 DEF ReadInv
  <2>11. SumOver(RowTotals', Statuses) = a + 1
    BY <2>1, <2>7, <2>8
  <2>12. (a + 1) + n + u = (a + n + u) + 1
    BY <2>9
  <2>13. (a + 1) + n + u = SumOver(ReadOf', compared')
    BY <1>4, <2>10, <2>12
  <2> QED BY <1>6, <2>8, <2>11, <2>13 DEF ReadInv
<1>12. NamesInv'
  BY <1>0, <1>2, <1>3, <1>5, NamesJoin
<1>13. OnePerAddress' /\ (cAt <= Len(new[s].recs) + 1)'
  BY <1>1, <1>4, <1>5 DEF OnePerAddress
<1>14. compared \cap cTodo = {s}
  BY <1>0, <1>1 DEF AccountInv
<1> QED BY <1>1, <1>4, <1>9, <1>10, <1>11, <1>12, <1>13, <1>14 DEF AccountInv

LEMMA RowSplits ==
    CompareInv => \A x \in Statuses : SumOver(matrix[x], C!Columns)
                                         = matrix[x]["missing"] + SumOver(matrix[x], Statuses)
  BY RowFacts

LEMMA AccountEnd ==
    ASSUME CompareInv, CompareInv', AccountInv, C!EndShard
    PROVE  AccountInv'
<1>0. PICK s : s = C!Current
  OBVIOUS
<1>1. /\ UNCHANGED <<old, new, ents, cSeen, cAt, targets, cRes, compared>>
      /\ cPc = "join" /\ cPc' = "pair" /\ cTodo' = cTodo \ {s} /\ cAt > Len(new[s].recs)
  BY <1>0 DEF C!EndShard, C!JoinEnded, C!inputVars, C!tableVars
<1>2. RowsInv /\ LoadedInv /\ ReadInv /\ NamesInv /\ compared \cap cTodo = {s} /\ s \in Shards
  BY <1>0, <1>1, CompareCurrentIs DEF AccountInv, CompareInv, CompareTypes
<1>3. \A st \in Statuses : /\ IsFiniteSet(Waiting(st)) /\ Cardinality(Waiting(st)) \in Nat
                           /\ Waiting(st)' = {}
  <2>1. \A st \in Statuses : Waiting(st) \subseteq ents
    BY DEF Waiting
  <2>2. IsFiniteSet(ents)
    BY <1>1 DEF CompareInv
  <2>3. \A st \in Statuses : Waiting(st)' = {}
    BY <1>1 DEF Waiting
  <2> QED BY <2>1, <2>2, <2>3, FS_Subset, FS_CardinalityType
<1>4. ASSUME NEW st \in Statuses
      PROVE  /\ matrix'[st]["missing"] = matrix[st]["missing"] + Cardinality(Waiting(st))
             /\ \A c \in Statuses : matrix'[st][c] = matrix[st][c]
  <2>1. matrix'[st] = [matrix[st] EXCEPT !["missing"] = @ + Cardinality(Waiting(st))]
    <3>1. {e \in ents : e.st = st /\ e.ip \notin cSeen} = Waiting(st)
      BY <1>1 DEF Waiting
    <3> QED BY <3>1, SameInCompare DEF C!EndShard
  <2>2. matrix[st] \in [C!Columns -> Nat]
    BY RowFacts
  <2> QED BY <2>1, <2>2, StatusSets
<1>5. \A st \in Statuses : SumOver(matrix'[st], Statuses) = SumOver(matrix[st], Statuses)
  <2> SUFFICES ASSUME NEW st \in Statuses
               PROVE  SumOver(matrix'[st], Statuses) = SumOver(matrix[st], Statuses)
    OBVIOUS
  <2>1. PICK f, h : f = matrix[st] /\ h = matrix'[st]
    OBVIOUS
  <2>2. \A c \in Statuses : f[c] \in Nat /\ h[c] = f[c]
    BY <1>4, <2>1, RowFacts, StatusSets
  <2>3. IsFiniteSet(Statuses)
    BY StatusSets
  <2>4. SumOver(h, Statuses) = SumOver(f, Statuses)
    BY ONLY <2>2, <2>3, SumSame
  <2> QED BY <2>1, <2>4
<1>6. RowsInv'
  <2> SUFFICES ASSUME NEW st \in Statuses
               PROVE  SumOver(matrix'[st], C!Columns) + Cardinality(Waiting(st)') = targets'[st]
    BY DEF RowsInv, C!Columns
  <2>1. SumOver(matrix[st], C!Columns) + Cardinality(Waiting(st)) = targets[st]
    BY <1>2 DEF RowsInv
  <2>2. /\ SumOver(matrix[st], C!Columns) = matrix[st]["missing"] + SumOver(matrix[st], Statuses)
        /\ SumOver(matrix[st], Statuses) \in Nat /\ matrix[st]["missing"] \in Nat
    BY RowFacts, StatusSets
  <2>3. SumOver(matrix'[st], C!Columns) = matrix'[st]["missing"] + SumOver(matrix'[st], Statuses)
    <3>1. (\A x \in Statuses : SumOver(matrix[x], C!Columns)
                                 = matrix[x]["missing"] + SumOver(matrix[x], Statuses))'
      BY RowSplits, PTL
    <3> QED BY <3>1 DEF C!Columns
  <2>4. Cardinality(Waiting(st)') = 0
    BY <1>3, FS_EmptySet
  <2>5. PICK m, w, a : /\ m = matrix[st]["missing"] /\ w = Cardinality(Waiting(st))
                       /\ a = SumOver(matrix[st], Statuses)
    OBVIOUS
  <2>6. m \in Nat /\ w \in Nat /\ a \in Nat /\ (m + a) + w = targets[st]
    BY <1>3, <2>1, <2>2, <2>5
  <2>7. SumOver(matrix'[st], C!Columns) = (m + w) + a
    BY <1>4, <1>5, <2>3, <2>5
  <2> QED BY <1>1, <2>4, <2>6, <2>7
<1>7. LoadedInv'
  <2>1. TargetsOf' = TargetsOf
    BY <1>1 DEF TargetsOf, C!TargetCount
  <2> QED BY <1>1, <1>2, <2>1 DEF LoadedInv
<1>8. ReadInv'
  <2>1. RowTotals' = RowTotals
    BY <1>5 DEF RowTotals
  <2>2. ReadOf' = ReadOf
    <3>1. cAt \in Nat /\ Len(new[s].recs) \in Nat /\ cAt <= Len(new[s].recs) + 1
      BY <1>0, <1>1, <1>2 DEF AccountInv, CompareInv, CompareTypes
    <3>2. cAt - 1 = Len(new[s].recs)
      BY <1>1, <3>1
    <3> QED BY <1>1, <1>2, <3>2 DEF ReadOf
  <2> QED BY <1>1, <1>2, <2>1, <2>2 DEF ReadInv
<1>9. NamesInv'
  <2>1. matrix'["has_ptr"]["has_ptr"] = matrix["has_ptr"]["has_ptr"]
    BY <1>4, StatusSets
  <2> QED BY <1>1, <1>2, <2>1 DEF NamesInv
<1>10. compared' \cap cTodo' = {}
  BY <1>1, <1>2
<1> QED BY <1>1, <1>6, <1>7, <1>8, <1>9, <1>10 DEF AccountInv

LEMMA AccountStutters ==
    ASSUME AccountInv, UNCHANGED <<old, new, compareVars>>
    PROVE  AccountInv'
<1>1. UNCHANGED <<old, new, cPc, cTodo, ents, cSeen, cAt, matrix, targets, cRes, compared>>
  BY DEF compareVars
<1>2. C!Current' = C!Current /\ ReadOf' = ReadOf /\ \A st \in Statuses : Waiting(st)' = Waiting(st)
  BY <1>1 DEF C!Current, ReadOf, Waiting
<1>3. cPc # "failed" => (RowsInv /\ LoadedInv /\ ReadInv /\ NamesInv)'
  BY <1>1, <1>2, AccountSame DEF AccountInv
<1>4. OnePerAddress' <=> OnePerAddress
  BY <1>1 DEF OnePerAddress
<1> QED BY <1>1, <1>2, <1>3, <1>4 DEF AccountInv

LEMMA NextAccountInv ==
    MergeInv /\ CompareInv /\ CompareInv' /\ AccountInv /\ [Next]_vars => AccountInv'
<1> SUFFICES ASSUME MergeInv, CompareInv, CompareInv', AccountInv, [Next]_vars
             PROVE  AccountInv'
  OBVIOUS
<1>1. C!Step \/ UNCHANGED <<old, new, compareVars>>
  <2>1. RunMerge => UNCHANGED <<old, new, compareVars>>
    BY MergeKeepsInput DEF RunMerge, MergeInv
  <2> QED BY <2>1 DEF Next, RunCompare, Ended, vars
<1>2. CASE C!LoadFails \/ C!JoinFails
  BY <1>2 DEF C!LoadFails, C!JoinFails, AccountInv
<1> QED
  BY <1>1, <1>2, AccountMoves, AccountLoad, AccountIgnore, AccountJoin, AccountEnd,
     AccountStutters
  DEF C!Step

LEMMA InitAccountInv == Init => AccountInv
<1> SUFFICES ASSUME C!Init
             PROVE  AccountInv
  BY InitBoth
<1>1. /\ cPc = "discover" /\ compared = {} /\ ents = {}
      /\ \A st \in Statuses : targets[st] = 0
      /\ \A st \in Statuses : \A c \in C!Columns : matrix[st][c] = 0
      /\ \A c \in C!Counters : cRes[c] = 0
  BY DEF C!Init, C!Begin
<1>2. \A st \in Statuses : \A c \in Statuses : matrix[st][c] = 0
  BY <1>1, StatusSets
<1>3. \A st \in Statuses : SumOver(matrix[st], C!Columns) = 0 /\ SumOver(matrix[st], Statuses) = 0
  BY <1>1, <1>2, StatusSets, SumZero
<1>4. RowsInv
  <2>1. \A st \in Statuses : Waiting(st) = {}
    BY <1>1 DEF Waiting
  <2> QED BY <1>1, <1>3, <2>1, FS_EmptySet DEF RowsInv
<1>5. \A f : SumOver(f, compared) = 0
  BY <1>1, FS_EmptySet, SumZero
<1>6. LoadedInv
  <2>1. SumOver(targets, Statuses) = 0
    BY <1>1, StatusSets, SumZero
  <2> QED BY <1>1, <1>5, <2>1 DEF LoadedInv, C!Counters
<1>7. ReadInv
  <2>1. \A st \in Statuses : RowTotals[st] = 0
    BY <1>3 DEF RowTotals
  <2>2. SumOver(RowTotals, Statuses) = 0
    BY <2>1, StatusSets, SumZero
  <2> QED BY <1>1, <1>5, <2>2 DEF ReadInv, C!Counters
<1>8. NamesInv
  BY <1>1, StatusSets DEF NamesInv, C!Counters
<1> QED BY <1>1, <1>4, <1>6, <1>7, <1>8 DEF AccountInv

LEMMA AccountInvariance == Spec => []AccountInv
  BY InitAccountInv, NextAccountInv, MergeInvariance, CompareInvariance, PTL DEF Spec

LEMMA AccountsBalance == CompareInv /\ AccountInv => CompareBalances
<1> SUFFICES ASSUME CompareInv, AccountInv, cPc \in {"pair", "done"}
             PROVE  /\ \A st \in Statuses : C!RowSum(st, C!Columns) = targets[st]
                    /\ C!SumOver(targets, Statuses) + cRes["oldDups"]
                         = C!SumOver([s \in compared |-> C!TargetCount(s)], compared)
                    /\ C!SumOver([st \in Statuses |-> C!RowSum(st, Statuses)], Statuses)
                         + cRes["newDups"] + cRes["unexpected"]
                         = C!SumOver([s \in compared |-> Len(new[s].recs)], compared)
                    /\ cRes["bothChecked"] = cRes["matchBoth"] + cRes["matchOldOnly"]
                                               + cRes["matchNewOnly"] + cRes["matchNeither"]
  BY DEF CompareBalances, C!CompareBalances
<1>1. RowsInv /\ LoadedInv /\ ReadInv /\ NamesInv /\ compared \cap cTodo = {}
  BY DEF AccountInv
<1>2. \A st, cols : C!RowSum(st, cols) = SumOver(matrix[st], cols)
  BY SumsInCompare DEF C!RowSum
<1>3. \A st \in Statuses : SumOver(matrix[st], C!Columns) = targets[st]
  <2> SUFFICES ASSUME NEW st \in Statuses
               PROVE  SumOver(matrix[st], C!Columns) = targets[st]
    OBVIOUS
  <2>1. Waiting(st) = {}
    BY DEF Waiting
  <2>2. Cardinality(Waiting(st)) = 0
    BY <2>1, FS_EmptySet
  <2>3. SumOver(matrix[st], C!Columns) \in Nat
    BY RowFacts
  <2> QED BY <1>1, <2>2, <2>3 DEF RowsInv
<1>4. [s \in compared |-> Len(new[s].recs)] = ReadOf
  BY <1>1 DEF ReadOf
<1>5. [st \in Statuses |-> C!RowSum(st, Statuses)] = RowTotals
  BY <1>2 DEF RowTotals
<1>6. [s \in compared |-> C!TargetCount(s)] = TargetsOf
  BY DEF TargetsOf
<1>7. C!SumOver(targets, Statuses) + cRes["oldDups"] = C!SumOver(TargetsOf, compared)
  BY <1>1, SumsInCompare DEF LoadedInv
<1>8. C!SumOver(RowTotals, Statuses) + cRes["newDups"] + cRes["unexpected"]
        = C!SumOver(ReadOf, compared)
  BY <1>1, SumsInCompare DEF ReadInv
<1>9. C!SumOver([s \in compared |-> C!TargetCount(s)], compared) = C!SumOver(TargetsOf, compared)
  BY <1>6, Zenon
<1>10. /\ C!SumOver([st \in Statuses |-> C!RowSum(st, Statuses)], Statuses)
            = C!SumOver(RowTotals, Statuses)
       /\ C!SumOver([s \in compared |-> Len(new[s].recs)], compared) = C!SumOver(ReadOf, compared)
  BY <1>4, <1>5, Zenon
<1> QED BY <1>1, <1>2, <1>3, <1>7, <1>8, <1>9, <1>10, Zenon DEF NamesInv

\* Between shards, and in what it prints, compare's report accounts for every record it
\* read, whatever the passes contain: each row of the matrix adds up to the targets of its
\* status, targets and old duplicates to the records in the mask, and joined, duplicate
\* and unexpected records to the new records (Run, joinNewPass).
THEOREM CompareBalancesHold == Spec => []CompareBalances
  BY AccountsBalance, CompareInvariance, AccountInvariance, PTL

-----------------------------------------------------------------------------
(* The numbers behind the printed percentages.                             *)

\* The sum of some columns of a row; a status the passes do not contain has none.
RowPart(st, cols) == IF st \in Statuses THEN SumOver(matrix[st], Statuses \cap cols) ELSE 0

\* The headline of the report as it stands.
Printed ==
    [ptrTargets   |-> targets["has_ptr"],
     ptrCrawled   |-> SumOver(matrix["has_ptr"], C!Columns) - matrix["has_ptr"]["missing"],
     ptrUnchanged |-> cRes["unchanged"],
     ptrChanged   |-> cRes["changed"],
     ptrRemoved   |-> RowPart("has_ptr", Authoritative),
     ptrTransient |-> RowPart("has_ptr", Transient),
     toCrawled    |-> RowPart("timeout", Statuses),
     toDefinitive |-> RowPart("timeout", {"has_ptr"} \cup Authoritative),
     toStill      |-> RowPart("timeout", {"timeout"}),
     net          |-> C!NetMovement(cRes["gained"], RowPart("has_ptr", Authoritative))]

\* What is printed is still what was counted.
HeadInv == cPc = "done" => headline = Printed

LEMMA FinalizeHead ==
    ASSUME C!Finalize
    PROVE  headline' = Printed
<1>1. \A st, cols : (IF st \in Statuses THEN C!RowSum(st, Statuses \cap cols) ELSE 0) = RowPart(st, cols)
  BY SumsInCompare DEF C!RowSum, RowPart
<1>2. C!Crawled("has_ptr") = SumOver(matrix["has_ptr"], C!Columns) - matrix["has_ptr"]["missing"]
  BY SumsInCompare DEF C!Crawled, C!RowSum
<1>3. C!Authoritative = Authoritative /\ C!Transient = Transient
  BY DEF C!Authoritative, Authoritative, C!Transient, Transient
<1> DEFINE row(st, cols) == IF st \in Statuses THEN C!RowSum(st, Statuses \cap cols) ELSE 0
<1>4. headline' =
        [ptrTargets   |-> targets["has_ptr"],
         ptrCrawled   |-> C!Crawled("has_ptr"),
         ptrUnchanged |-> cRes["unchanged"],
         ptrChanged   |-> cRes["changed"],
         ptrRemoved   |-> row("has_ptr", C!Authoritative),
         ptrTransient |-> row("has_ptr", C!Transient),
         toCrawled    |-> row("timeout", Statuses),
         toDefinitive |-> row("timeout", {"has_ptr"} \cup C!Authoritative),
         toStill      |-> row("timeout", {"timeout"}),
         net          |-> C!NetMovement(cRes["gained"], row("has_ptr", C!Authoritative))]
  BY Zenon DEF C!Finalize
<1>5. \A st, cols : row(st, cols) = RowPart(st, cols)
  BY <1>1
<1> HIDE DEF row
<1> QED BY <1>2, <1>3, <1>4, <1>5, Zenon DEF Printed

LEMMA HeadInvariance == Spec => []HeadInv
<1>1. Init => HeadInv
  BY DEF Init, C!Begin, HeadInv
<1>2. MergeInv /\ HeadInv /\ [Next]_vars => HeadInv'
  <2> SUFFICES ASSUME MergeInv, HeadInv, [Next]_vars, cPc' = "done"
               PROVE  headline' = Printed'
    BY DEF HeadInv
  <2>1. C!Step \/ UNCHANGED compareVars
    BY DEF Next, RunCompare, RunMerge, Ended, vars
  <2>2. CASE UNCHANGED compareVars
    <3>1. UNCHANGED <<cPc, targets, matrix, cRes, headline>>
      BY <2>2 DEF compareVars
    <3>2. Printed' = Printed
      BY <3>1 DEF Printed, RowPart, C!Columns, C!NetMovement
    <3> QED BY <3>1, <3>2 DEF HeadInv
  <2>3. CASE C!Finalize
    <3>1. UNCHANGED <<targets, matrix, cRes>>
      BY <2>3 DEF C!Finalize
    <3>2. Printed' = Printed
      BY <3>1 DEF Printed, RowPart, C!Columns, C!NetMovement
    <3> QED BY <2>3, <3>2, FinalizeHead
  <2>4. C!Step => C!Finalize
    BY DEF C!Step, C!Discover, C!SkipShard, C!LoadShard, C!LoadFails, C!Unexpected, C!NewDup,
           C!Join, C!Ignore, C!Joining, C!EndShard, C!JoinFails
  <2> QED BY <2>1, <2>2, <2>3, <2>4
<1> QED BY <1>1, <1>2, MergeInvariance, PTL DEF Spec

LEMMA HeadPartition == CompareInv /\ AccountInv /\ HeadInv => HeadlinePartition
<1> SUFFICES ASSUME CompareInv, AccountInv, HeadInv, cPc = "done"
             PROVE  /\ headline.ptrUnchanged + headline.ptrChanged + headline.ptrRemoved
                         + headline.ptrTransient = headline.ptrCrawled
                    /\ headline.ptrCrawled <= headline.ptrTargets
                    /\ headline.toDefinitive + headline.toStill <= headline.toCrawled
  BY DEF HeadlinePartition, C!HeadlinePartition
<1>1. headline = Printed /\ RowsInv /\ NamesInv
  BY DEF HeadInv, AccountInv
<1>2. PICK f : f = matrix["has_ptr"]
  OBVIOUS
<1>3. IsFiniteSet(Statuses) /\ "has_ptr" \in Statuses /\ \A c \in Statuses : f[c] \in Nat
  BY <1>2, StatusSets, RowFacts
<1>4. SumOver(f, Statuses) = f["has_ptr"] + SumOver(f, Statuses \cap Authoritative)
                               + SumOver(f, Statuses \cap Transient)
  <2> DEFINE R == Statuses \ {"has_ptr"}
             A == Statuses \cap Authoritative
  <2>1. SumOver(f, Statuses) = f["has_ptr"] + SumOver(f, R)
    BY <1>3, SumFacts
  <2>2. A \in SUBSET R /\ R \ A = Statuses \cap Transient
    BY PassesAssumption DEF Authoritative, Transient
  <2>3. IsFiniteSet(R) /\ \A c \in R : f[c] \in Nat
    BY <1>3, FS_Subset
  <2> HIDE DEF R, A
  <2>4. /\ SumOver(f, R) = SumOver(f, A) + SumOver(f, R \ A)
        /\ SumOver(f, A) \in Nat /\ SumOver(f, R \ A) \in Nat
    BY <2>2, <2>3, SumSplit
  <2>5. f["has_ptr"] \in Nat
    BY <1>3
  <2>6. SumOver(f, Statuses) = f["has_ptr"] + SumOver(f, A) + SumOver(f, R \ A)
    BY <2>1, <2>4, <2>5
  <2> QED BY <2>2, <2>6 DEF A
<1>5. headline.ptrCrawled = SumOver(f, Statuses) /\ SumOver(f, Statuses) <= targets["has_ptr"]
  <2>1. SumOver(f, C!Columns) = f["missing"] + SumOver(f, Statuses)
    BY <1>2, <1>3, RowFacts
  <2>2. f["missing"] \in Nat /\ SumOver(f, Statuses) \in Nat
    BY <1>2, <1>3, RowFacts, StatusSets
  <2>3. headline.ptrCrawled = SumOver(f, C!Columns) - f["missing"]
    BY <1>1, <1>2 DEF Printed
  <2>4. SumOver(f, C!Columns) + Cardinality(Waiting("has_ptr")) = targets["has_ptr"]
    BY <1>1, <1>2, <1>3 DEF RowsInv
  <2>5. Cardinality(Waiting("has_ptr")) = 0
    <3>1. Waiting("has_ptr") = {}
      BY DEF Waiting
    <3> QED BY <3>1, FS_EmptySet
  <2> QED BY <2>1, <2>2, <2>3, <2>4, <2>5
<1>6. headline.ptrUnchanged + headline.ptrChanged = f["has_ptr"]
  BY <1>1, <1>2 DEF Printed, NamesInv
<1>7. /\ headline.ptrRemoved = SumOver(f, Statuses \cap Authoritative)
      /\ headline.ptrTransient = SumOver(f, Statuses \cap Transient)
      /\ headline.ptrTargets = targets["has_ptr"]
  BY <1>1, <1>2, <1>3 DEF Printed, RowPart
<1>8. headline.toDefinitive + headline.toStill <= headline.toCrawled
  <2> DEFINE S == Statuses
             D == S \cap ({"has_ptr"} \cup Authoritative)
             B == S \cap {"timeout"}
             g == matrix["timeout"]
  <2>1. CASE "timeout" \notin Statuses
    <3>1. headline.toDefinitive = 0 /\ headline.toStill = 0 /\ headline.toCrawled = 0
      BY <1>1, <2>1 DEF Printed, RowPart
    <3> QED BY <3>1
  <2>2. CASE "timeout" \in Statuses
    <3>1. /\ headline.toDefinitive = SumOver(g, D) /\ headline.toStill = SumOver(g, B)
          /\ headline.toCrawled = SumOver(g, S)
      <4>1. S \cap S = S
        OBVIOUS
      <4>2. headline.toCrawled = SumOver(g, S \cap S)
        BY <1>1, <2>2 DEF Printed, RowPart
      <4>3. headline.toDefinitive = SumOver(g, D) /\ headline.toStill = SumOver(g, B)
        BY <1>1, <2>2 DEF Printed, RowPart
      <4> HIDE DEF S
      <4> QED BY <4>1, <4>2, <4>3
    <3>2. D \in SUBSET S /\ B \in SUBSET (S \ D)
      BY DEF Authoritative
    <3>3. IsFiniteSet(S) /\ IsFiniteSet(S \ D)
      BY StatusSets, FS_Subset
    <3>4. \A c \in S : g[c] \in Nat
      BY <2>2, RowFacts, StatusSets
    <3>5. \A c \in S \ D : g[c] \in Nat
      BY <3>4
    <3> HIDE DEF S, D, B, g
    <3>6. /\ SumOver(g, S) = SumOver(g, D) + SumOver(g, S \ D)
          /\ SumOver(g, D) \in Nat /\ SumOver(g, S \ D) \in Nat
      BY <3>2, <3>3, <3>4, SumSplit
    <3>7. /\ SumOver(g, S \ D) = SumOver(g, B) + SumOver(g, (S \ D) \ B)
          /\ SumOver(g, B) \in Nat /\ SumOver(g, (S \ D) \ B) \in Nat
      BY <3>2, <3>3, <3>5, SumSplit
    <3> QED BY <3>1, <3>6, <3>7
  <2> QED BY <2>1, <2>2
<1>9. headline.ptrUnchanged + headline.ptrChanged + headline.ptrRemoved
        + headline.ptrTransient = headline.ptrCrawled
  BY <1>4, <1>5, <1>6, <1>7
<1> QED BY <1>5, <1>7, <1>8, <1>9

\* The four fates compare prints of the targets that had a PTR partition those that were
\* crawled, for any passes, and what the timed-out targets are said to be now is at most
\* what was crawled of them (finalize, RenderText).
THEOREM HeadlinePartitions == Spec => []HeadlinePartition
  BY HeadPartition, CompareInvariance, AccountInvariance, HeadInvariance, PTL

-----------------------------------------------------------------------------
(* The report of compare, when no baseline address of a compared shard has *)
(* two different records.  Each cell of the matrix counts the addresses    *)
(* that were joined with its two statuses.                                 *)

Clean == \A s \in compared : Unambiguous(old[s].recs)

\* The addresses joined so far, each with its shard: those both passes observed in the
\* shards that are finished, and those marked in the one under the join.
Joined == {p \in BaseKeys(compared \ cTodo) : Paired(p)} \cup ((compared \cap cTodo) \X cSeen)

\* During the join the table is the set of targets, in spite of the unstable sort, and the
\* marked addresses are the targets among the new records read.
TableInv(s) ==
    /\ ents = {r \in Base(s) : r.st \in Mask}
    /\ cSeen = Met(new[s].recs, cAt) \cap Ips(ents)
    /\ cAt <= Len(new[s].recs) + 1

CellInv ==
    /\ \A o, n \in Statuses :
          matrix[o][n] = Cardinality({p \in Joined : OldRec(p).st = o /\ NewRec(p).st = n})
    /\ \A c \in {"gained", "unchanged", "changed"} :
          cRes[c] = Cardinality({p \in Joined : Branch(p) = c})

\* A failed run prints no report.
ExactInv ==
    cPc # "failed" =>
        /\ compared \cap cTodo = IF cPc = "join" THEN {C!Current} ELSE {}
        /\ cPc = "done" => cTodo = {}
        /\ Clean => CellInv /\ (cPc = "join" => TableInv(C!Current))

LEMMA AlsoInCompare ==
    /\ \A seq : C!FirstOccurrences(seq) = FirstOccurrences(seq)
    /\ \A recs : C!Unambiguous(recs) <=> Unambiguous(recs)
    /\ \A base, fresh : C!Pairs(base, fresh) = Pairs(base, fresh)
<1>1. \A seq : C!FirstOccurrences(seq) = FirstOccurrences(seq)
  BY DEF C!FirstOccurrences, FirstOccurrences
<1>2. \A recs : C!Unambiguous(recs) <=> Unambiguous(recs)
  BY SameInCompare DEF C!Unambiguous, Unambiguous
<1>3. \A base, fresh : C!Pairs(base, fresh) = Pairs(base, fresh)
  BY DEF C!Pairs, Pairs
<1> QED BY <1>1, <1>2, <1>3

\* With one record per address every record is the first of its address.
LEMMA UnambiguousIs ==
    ASSUME NEW seq \in Seq(Rec), Unambiguous(seq)
    PROVE  /\ FirstOccurrences(seq) = Elems(seq)
           /\ \A a, b \in Elems(seq) : a.ip = b.ip => a = b
<1> DEFINE f == [r \in Elems(seq) |-> r.ip]
           g == [i \in DOMAIN seq |-> seq[i]]
<1>1. Len(seq) \in Nat /\ DOMAIN seq = 1..Len(seq)
  OBVIOUS
<1>2. IsFiniteSet(Elems(seq))
  <2>1. g \in Surjection(DOMAIN seq, Elems(seq))
    BY DEF Surjection, Elems
  <2>2. IsFiniteSet(DOMAIN seq)
    BY <1>1, FS_Interval
  <2> HIDE DEF g
  <2> QED BY <2>1, <2>2, FS_Surjection
<1>3. f \in Surjection(Elems(seq), Ips(Elems(seq)))
  BY DEF Surjection, Ips
<1>4. \A r \in Elems(seq) : f[r] = r.ip
  OBVIOUS
<1> HIDE DEF f
<1>5. f \in Injection(Elems(seq), Ips(Elems(seq)))
  BY <1>2, <1>3, FS_Surjection DEF Unambiguous
<1>6. \A a, b \in Elems(seq) : f[a] = f[b] => a = b
  BY <1>5 DEF Injection, IsInjective
<1>7. \A a, b \in Elems(seq) : a.ip = b.ip => a = b
  BY <1>4, <1>6
<1>8. FirstOccurrences(seq) \subseteq Elems(seq)
  BY DEF FirstOccurrences, Elems
<1>9. Elems(seq) \subseteq FirstOccurrences(seq)
  <2> SUFFICES ASSUME NEW r \in Elems(seq)
               PROVE  r \in FirstOccurrences(seq)
    OBVIOUS
  <2>1. r.ip \in Met(seq, Len(seq) + 1)
    BY <1>1 DEF Elems, Met
  <2>2. PICK q \in FirstOccurrences(seq) : q.ip = r.ip
    BY <2>1, FirstsAre DEF Ips
  <2> QED BY <1>7, <1>8, <2>2
<1> QED BY <1>7, <1>8, <1>9

\* What dedupSorted leaves then does not depend on the sort.
LEMMA LoadedTable ==
    ASSUME MergeTypes, NEW s \in Shards, Unambiguous(old[s].recs), NEW E \in C!Deduped(s)
    PROVE  E = {r \in Base(s) : r.st \in Mask}
<1>1. old[s].recs \in Seq(Rec)
  BY BaseTypes
<1>2. /\ Base(s) = Elems(old[s].recs)
      /\ \A a, b \in Elems(old[s].recs) : a.ip = b.ip => a = b
  BY <1>1, UnambiguousIs DEF Base
<1>3. C!Targets(s) = {r \in Base(s) : r.st \in Mask}
  BY <1>2, SameInCompare DEF C!Targets
<1>4. E \subseteq C!Targets(s) /\ Ips(E) = Ips(C!Targets(s))
  BY SameInCompare DEF C!Deduped
<1>5. \A r \in C!Targets(s) : \E e \in E : e.ip = r.ip
  <2>1. \A r \in C!Targets(s) : r.ip \in Ips(C!Targets(s))
    BY Zenon DEF Ips
  <2>2. \A x \in Ips(E) : \E e \in E : e.ip = x
    BY Zenon DEF Ips
  <2> QED BY <1>4, <2>1, <2>2, Zenon
<1> QED BY <1>2, <1>3, <1>4, <1>5

LEMMA FirstRecsSame ==
    ASSUME UNCHANGED <<old, new>>
    PROVE  /\ \A p : OldRec(p)' = OldRec(p) /\ NewRec(p)' = NewRec(p)
           /\ \A p : Paired(p)' <=> Paired(p)
<1>1. \A s : Base(s)' = Base(s) /\ Fresh(s)' = Fresh(s)
  BY DEF Base, Fresh
<1>2. \A p : OldRec(p)' = OldRec(p) /\ NewRec(p)' = NewRec(p)
  BY <1>1 DEF OldRec, NewRec
<1> QED BY <1>2, PassesSame DEF Paired

LEMMA CellSame ==
    ASSUME CellInv, UNCHANGED <<old, new>>, Joined' = Joined,
           \A o, n \in Statuses : matrix'[o][n] = matrix[o][n],
           \A c \in {"gained", "unchanged", "changed"} : cRes'[c] = cRes[c]
    PROVE  CellInv'
<1>1. ASSUME NEW o \in Statuses, NEW n \in Statuses
      PROVE  matrix'[o][n] = Cardinality({p \in Joined : OldRec(p).st = o /\ NewRec(p).st = n}')
  <2>1. {p \in Joined : OldRec(p).st = o /\ NewRec(p).st = n}'
            = {p \in Joined : OldRec(p).st = o /\ NewRec(p).st = n}
    BY FirstRecsSame
  <2> QED BY <2>1 DEF CellInv
<1>2. ASSUME NEW c \in {"gained", "unchanged", "changed"}
      PROVE  cRes'[c] = Cardinality({p \in Joined : Branch(p) = c}')
  <2>1. {p \in Joined : Branch(p) = c}' = {p \in Joined : Branch(p) = c}
    BY PassesSame
  <2> QED BY <2>1 DEF CellInv
<1> QED BY <1>1, <1>2 DEF CellInv

LEMMA CleanGrows ==
    ASSUME UNCHANGED <<old, new>>, compared \subseteq compared', Clean'
    PROVE  Clean
  BY DEF Clean, Unambiguous, Elems, Ips

\* Shards that move between the sets without changing what is joined.
LEMMA JoinedSame ==
    ASSUME UNCHANGED <<old, new>>, compared' \ cTodo' = compared \ cTodo,
           (compared' \cap cTodo') \X cSeen' = (compared \cap cTodo) \X cSeen
    PROVE  Joined' = Joined
<1>1. BaseKeys(compared \ cTodo)' = BaseKeys(compared \ cTodo)
  BY PassesSame DEF BaseKeys
<1> QED BY <1>1, FirstRecsSame DEF Joined

\* A step that only moves the program counter, or skips a shard without a new file.
LEMMA ExactMoves ==
    ASSUME CompareInv, ExactInv, C!Discover \/ C!SkipShard \/ C!Finalize
    PROVE  ExactInv'
<1>1. CASE C!Discover \/ C!Finalize
  <2>1. /\ UNCHANGED <<old, new, cTodo, cSeen, matrix, cRes, compared>>
        /\ cPc # "join" /\ cPc # "failed" /\ cPc' \in {"pair", "done", "failed"}
        /\ cPc' = "done" => cTodo = {}
    BY <1>1 DEF C!Discover, C!Finalize, C!inputVars, C!tableVars, C!reportVars, C!shardVars
  <2>2. Joined' = Joined
    BY <2>1, JoinedSame
  <2>3. Clean' => CellInv'
    BY <2>1, <2>2, CellSame, CleanGrows DEF ExactInv
  <2> QED BY <2>1, <2>3 DEF ExactInv
<1>2. CASE C!SkipShard
  <2>1. /\ UNCHANGED <<old, new, cPc, cSeen, matrix, cRes, compared>>
        /\ cPc = "pair" /\ cTodo' = cTodo \ {C!Current} /\ cTodo # {}
    BY <1>2 DEF C!SkipShard, C!inputVars, C!tableVars, C!reportVars
  <2>2. C!Current \in cTodo
    BY <2>1, CompareCurrentIs DEF CompareInv, CompareTypes
  <2>3. compared \cap cTodo = {} /\ compared' \cap cTodo' = {} /\ compared' \ cTodo' = compared \ cTodo
    BY <2>1, <2>2 DEF ExactInv
  <2>4. Joined' = Joined
    BY <2>1, <2>3, JoinedSame
  <2>5. Clean' => CellInv'
    BY <2>1, <2>4, CellSame, CleanGrows DEF ExactInv
  <2> QED BY <2>1, <2>3, <2>5 DEF ExactInv
<1> QED BY <1>1, <1>2

LEMMA ExactLoad ==
    ASSUME MergeTypes, CompareInv, ExactInv, C!LoadShard
    PROVE  ExactInv'
<1>0. PICK s : s = C!Current
  OBVIOUS
<1>1. CompareTypes /\ s \in Shards /\ s \in cTodo
  BY <1>0, CompareCurrentIs DEF C!LoadShard, CompareInv, CompareTypes
<1>2. PICK E \in C!Deduped(s) :
        /\ ents' = E
        /\ cRes' = [cRes EXCEPT !["oldDups"] = @ + C!TargetCount(s) - C!Cardinality(E)]
  BY <1>0 DEF C!LoadShard
<1>3. /\ UNCHANGED <<old, new, cTodo, matrix>> /\ cPc = "pair"
      /\ compared' = compared \cup {s} /\ cSeen' = {} /\ cAt' = 1 /\ cPc' = "join"
  BY <1>0 DEF C!LoadShard, C!inputVars
<1>4. C!Current' = s
  BY <1>0, <1>3 DEF C!Current
<1>5. compared \cap cTodo = {} /\ compared' \cap cTodo' = {s} /\ compared' \ cTodo' = compared \ cTodo
  BY <1>1, <1>3 DEF ExactInv
<1>6. Joined' = Joined
  BY <1>3, <1>5, JoinedSame
<1>7. \A c \in {"gained", "unchanged", "changed"} : cRes'[c] = cRes[c]
  BY <1>1, <1>2 DEF CompareTypes, C!Counters
<1>8. Clean' => CellInv'
  BY <1>3, <1>6, <1>7, CellSame, CleanGrows DEF ExactInv
<1>9. ASSUME Clean'
      PROVE  TableInv(s)'
  <2>1. Unambiguous(old[s].recs)
    <3>1. s \in compared' /\ old' = old
      BY <1>3
    <3>2. \A t \in compared' : Unambiguous(old'[t].recs)
      BY <1>9, Zenon DEF Clean
    <3> QED BY <3>1, <3>2
  <2>2. ents' = {r \in Base(s) : r.st \in Mask}
    BY <1>1, <1>2, <2>1, LoadedTable
  <2>3. Len(new[s].recs) \in Nat
    BY <1>1, BaseTypes
  <2>4. Met(new[s].recs, cAt)' = {}
    BY <1>3 DEF Met
  <2>5. (Met(new[s].recs, cAt) \cap Ips(ents))' = {}
    BY <2>4
  <2> QED BY <1>3, <2>2, <2>3, <2>5, PassesSame DEF TableInv
<1> QED BY <1>3, <1>4, <1>5, <1>8, <1>9 DEF ExactInv

\* A record that is not joined.
LEMMA ExactIgnore ==
    ASSUME MergeTypes, CompareInv, ExactInv, C!Unexpected \/ C!NewDup
    PROVE  ExactInv'
<1>0. PICK s : s = C!Current
  OBVIOUS
<1>1. /\ UNCHANGED <<old, new, cPc, cTodo, ents, cSeen, matrix, compared>>
      /\ cAt' = cAt + 1 /\ cPc = "join" /\ cAt <= Len(new[s].recs)
      /\ \E c \in {"unexpected", "newDups"} : cRes' = [cRes EXCEPT ![c] = @ + 1]
  BY <1>0 DEF C!Unexpected, C!NewDup, C!Joining, C!Ignore, C!inputVars, C!shardVars
<1>2. s \in Shards /\ cAt \in Nat \ {0}
  BY <1>0, <1>1, CompareCurrentIs DEF CompareInv, CompareTypes
<1>3. C!Current' = s
  BY <1>0, <1>1 DEF C!Current
<1>4. Joined' = Joined
  BY <1>1, JoinedSame
<1>5. \A c \in {"gained", "unchanged", "changed"} : cRes'[c] = cRes[c]
  BY <1>1 DEF CompareInv, CompareTypes, C!Counters
<1>6. Clean' => CellInv'
  BY <1>1, <1>4, <1>5, CellSame, CleanGrows DEF ExactInv
<1>7. ASSUME TableInv(s)
      PROVE  TableInv(s)'
  <2> DEFINE recs == new[s].recs
  <2>1. recs \in Seq(Rec) /\ Len(recs) \in Nat
    BY <1>2, BaseTypes
  <2>2. Met(recs, cAt + 1) = Met(recs, cAt) \cup {recs[cAt].ip}
    BY <1>1, <1>2, <2>1, MetIs
  <2>3. recs[cAt].ip \notin Ips(ents) \/ recs[cAt].ip \in cSeen
    BY <1>0, SameInCompare DEF C!Unexpected, C!NewDup, C!Row
  <2>4. Met(recs, cAt + 1) \cap Ips(ents) = cSeen
    BY <1>7, <2>2, <2>3 DEF TableInv
  <2>5. (Met(new[s].recs, cAt) \cap Ips(ents))' = Met(recs, cAt + 1) \cap Ips(ents)
    BY <1>1 DEF Met, Ips
  <2>6. cAt + 1 <= Len(recs) + 1
    BY <1>1, <1>2, <2>1
  <2> QED BY <1>1, <1>7, <2>4, <2>5, <2>6, PassesSame DEF TableInv
<1>8. Clean' => Clean
  BY <1>1, CleanGrows
<1> QED BY <1>0, <1>1, <1>3, <1>6, <1>7, <1>8 DEF ExactInv

\* The pair of records a join looks at is the first pair of its address.
LEMMA JoinPair ==
    ASSUME MergeTypes, CompareInv, C!Join, TableInv(C!Current),
           NEW x, x = <<C!Current, C!Row.ip>>
    PROVE  /\ C!Current \in Shards /\ x \in BaseKeys({C!Current})
           /\ OldRec(x) = C!Entry /\ NewRec(x) = C!Row /\ Paired(x) /\ C!Row.ip \notin cSeen
<1>0. PICK s : s = C!Current
  OBVIOUS
<1>1. /\ C!Joining /\ cPc = "join" /\ cAt <= Len(new[s].recs) /\ C!Row = new[s].recs[cAt]
      /\ C!Row.ip \in Ips(ents) /\ C!Row.ip \notin cSeen
  BY <1>0, SameInCompare DEF C!Join, C!Joining, C!Row
<1>2. s \in Shards /\ cAt \in 1..Len(new[s].recs)
  <2>1. s \in Shards /\ cAt \in Nat \ {0}
    BY <1>0, <1>1, CompareCurrentIs DEF CompareInv, CompareTypes
  <2>2. Len(new[s].recs) \in Nat
    BY <2>1, BaseTypes
  <2> QED BY <1>1, <2>1, <2>2
<1>3. x[1] = s /\ x[2] = C!Row.ip
  BY <1>0
<1>4. ents = {r \in Base(s) : r.st \in Mask} /\ cSeen = Met(new[s].recs, cAt) \cap Ips(ents)
  BY <1>0 DEF TableInv
<1>5. C!Row \in Fresh(s)
  BY <1>1, <1>2, <1>4, BaseTypes, FirstsAre DEF Fresh
<1>6. C!Entry \in ents /\ C!Entry.ip = C!Row.ip
  BY <1>1, SameInCompare DEF C!Entry, RecordOf, Ips
<1>7. C!Entry \in Base(s) /\ C!Entry.st \in Mask
  BY <1>4, <1>6
<1>8. OldRec(x) = C!Entry
  BY <1>2, <1>3, <1>6, <1>7, BaseTypes DEF OldRec, RecordOf
<1>9. NewRec(x) = C!Row
  BY <1>2, <1>3, <1>5, BaseTypes DEF NewRec, RecordOf
<1>10. C!Row.ip \in Ips(Base(s)) /\ C!Row.ip \in Ips(Fresh(s))
  BY <1>5, <1>6, <1>7 DEF Ips
<1>11. Paired(x)
  BY <1>3, <1>7, <1>8, <1>10 DEF Paired, Target, Answered
<1>12. x \in BaseKeys({s})
  BY <1>0, <1>10, KeysAre
<1> QED BY <1>0, <1>1, <1>2, <1>8, <1>9, <1>11, <1>12

LEMMA JoinedFinite ==
    ASSUME MergeTypes, CompareInv, ExactInv, cPc = "join", TableInv(C!Current)
    PROVE  IsFiniteSet(Joined)
<1>0. PICK s : s = C!Current
  OBVIOUS
<1>1. s \in Shards /\ compared \cap cTodo = {s} /\ compared \ cTodo \subseteq Shards
  BY <1>0, CompareCurrentIs DEF CompareInv, CompareTypes, ExactInv
<1>2. cSeen \subseteq Ips(Base(s))
  BY <1>0 DEF TableInv, Ips
<1>3. Joined \subseteq BaseKeys(Shards)
  BY <1>1, <1>2, KeysAre DEF Joined
<1> QED BY <1>3, KeysFinite, FS_Subset

LEMMA ExactJoin ==
    ASSUME MergeTypes, CompareInv, ExactInv, C!Join
    PROVE  ExactInv'
<1>0. PICK s, x : s = C!Current /\ x = <<s, C!Row.ip>>
  OBVIOUS
<1>1. /\ UNCHANGED <<old, new, cPc, cTodo, ents, compared>> /\ cPc = "join"
      /\ cSeen' = cSeen \cup {C!Row.ip} /\ cAt' = cAt + 1
      /\ cAt <= Len(new[s].recs) /\ C!Row = new[s].recs[cAt] /\ C!Row.ip \in Ips(ents)
  BY <1>0, SameInCompare DEF C!Join, C!Joining, C!Row, C!inputVars, C!shardVars
<1>2. C!Current' = s /\ compared \cap cTodo = {s}
  BY <1>0, <1>1 DEF C!Current, ExactInv
<1>3. Clean' => Clean
  BY <1>1, CleanGrows
<1> SUFFICES ASSUME Clean
             PROVE  CellInv' /\ TableInv(s)'
  BY <1>1, <1>2, <1>3 DEF ExactInv
<1>4. CellInv /\ TableInv(s) /\ TableInv(C!Current)
  BY <1>0, <1>1 DEF ExactInv
<1>5. /\ s \in Shards /\ x \in BaseKeys({s}) /\ OldRec(x) = C!Entry /\ NewRec(x) = C!Row
      /\ Paired(x) /\ C!Row.ip \notin cSeen
  BY <1>0, <1>4, JoinPair
<1>6. TableInv(s)'
  <2> DEFINE recs == new[s].recs
  <2>1. recs \in Seq(Rec) /\ Len(recs) \in Nat /\ cAt \in Nat \ {0}
    BY <1>5, BaseTypes DEF CompareInv, CompareTypes
  <2>2. Met(recs, cAt + 1) = Met(recs, cAt) \cup {recs[cAt].ip}
    BY <1>1, <2>1, MetIs
  <2>3. Met(recs, cAt + 1) \cap Ips(ents) = cSeen \cup {C!Row.ip}
    BY <1>1, <1>4, <2>2 DEF TableInv
  <2>4. (Met(new[s].recs, cAt) \cap Ips(ents))' = Met(recs, cAt + 1) \cap Ips(ents)
    BY <1>1 DEF Met, Ips
  <2>5. cAt + 1 <= Len(recs) + 1
    BY <1>1, <2>1
  <2> QED BY <1>1, <1>4, <2>3, <2>4, <2>5, PassesSame DEF TableInv
<1>7. x \notin Joined /\ Joined' = Joined \cup {x} /\ IsFiniteSet(Joined)
  <2>1. Joined = {p \in BaseKeys(compared \ cTodo) : Paired(p)} \cup ({s} \X cSeen)
    BY <1>2 DEF Joined
  <2>2. Joined' = {p \in BaseKeys(compared \ cTodo) : Paired(p)} \cup ({s} \X cSeen')
    <3>1. BaseKeys(compared \ cTodo)' = BaseKeys(compared \ cTodo)
      BY <1>1, PassesSame DEF BaseKeys
    <3> QED BY <1>1, <1>2, <3>1, FirstRecsSame DEF Joined
  <2>3. x \notin BaseKeys(compared \ cTodo)
    BY <1>0, <1>2, KeysAre
  <2>4. x \notin {s} \X cSeen /\ {s} \X cSeen' = ({s} \X cSeen) \cup {x}
    BY <1>0, <1>1, <1>5
  <2>5. IsFiniteSet(Joined)
    BY <1>1, <1>4, JoinedFinite
  <2> QED BY <2>1, <2>2, <2>3, <2>4, <2>5
<1>8. ASSUME NEW A, A \subseteq Joined
      PROVE  Cardinality(A \cup {x}) = Cardinality(A) + 1
  BY <1>7, <1>8, FS_AddElement, FS_Subset
<1>9. ASSUME NEW o \in Statuses, NEW n \in Statuses
      PROVE  matrix'[o][n] = Cardinality({p \in Joined : OldRec(p).st = o /\ NewRec(p).st = n}')
  <2> DEFINE A == {p \in Joined : OldRec(p).st = o /\ NewRec(p).st = n}
             hit == OldRec(x).st = o /\ NewRec(x).st = n
  <2>1. {p \in Joined : OldRec(p).st = o /\ NewRec(p).st = n}' = IF hit THEN A \cup {x} ELSE A
    BY <1>1, <1>7, FirstRecsSame
  <2>2. matrix'[o][n] = IF hit THEN matrix[o][n] + 1 ELSE matrix[o][n]
    <3>1. matrix' = [matrix EXCEPT ![C!Entry.st][C!Row.st] = @ + 1]
      BY DEF C!Join
    <3>2. /\ matrix \in [Statuses -> [C!Columns -> Nat]] /\ o \in Statuses /\ n \in C!Columns
          /\ C!Entry.st = OldRec(x).st /\ C!Row.st = NewRec(x).st
      BY <1>5 DEF CompareInv, CompareTypes, C!Columns
    <3>3. matrix[o] \in [C!Columns -> Nat]
      BY <3>2
    <3> QED BY <3>1, <3>2, <3>3
  <2>3. matrix[o][n] = Cardinality(A) /\ A \subseteq Joined
    BY <1>4 DEF CellInv
  <2> HIDE DEF A, hit
  <2> QED BY <1>8, <2>1, <2>2, <2>3
<1>10. ASSUME NEW c \in {"gained", "unchanged", "changed"}
       PROVE  cRes'[c] = Cardinality({p \in Joined : Branch(p) = c}')
  <2> DEFINE A == {p \in Joined : Branch(p) = c}
  <2>1. {p \in Joined : Branch(p) = c}' = IF Branch(x) = c THEN A \cup {x} ELSE A
    BY <1>1, <1>7, PassesSame
  <2>2. cRes'[c] = IF Branch(x) = c THEN cRes[c] + 1 ELSE cRes[c]
    <3>1. c \in C!Counters
      BY DEF C!Counters
    <3>2. cRes'[c] = IF c \in C!Counted(C!Entry, C!Row) THEN cRes[c] + 1 ELSE cRes[c]
      BY <3>1 DEF C!Join
    <3>3. {s} \subseteq Shards
      BY <1>5
    <3>4. /\ Branch(x) = "gained" <=> C!Entry.st # "has_ptr" /\ C!Row.st = "has_ptr"
          /\ Branch(x) = "unchanged" <=> /\ C!Entry.st = "has_ptr" /\ C!Row.st = "has_ptr"
                                         /\ C!Entry.ptr = C!Row.ptr
          /\ Branch(x) = "changed" <=> /\ C!Entry.st = "has_ptr" /\ C!Row.st = "has_ptr"
                                       /\ C!Entry.ptr # C!Row.ptr
      BY <1>5, <3>3, BranchIs
    <3>5. c \in C!Counted(C!Entry, C!Row) <=> Branch(x) = c
      BY <3>1, <3>4 DEF C!Counted
    <3> QED BY <3>2, <3>5
  <2>3. cRes[c] = Cardinality(A) /\ A \subseteq Joined
    BY <1>4 DEF CellInv
  <2> HIDE DEF A
  <2> QED BY <1>8, <2>1, <2>2, <2>3
<1> QED BY <1>6, <1>9, <1>10 DEF CellInv

\* At the end of a shard the marked addresses are those both passes observed.
LEMMA ExactEnd ==
    ASSUME MergeTypes, CompareInv, ExactInv, C!EndShard
    PROVE  ExactInv'
<1>0. PICK s : s = C!Current
  OBVIOUS
<1>1. /\ UNCHANGED <<old, new, ents, cSeen, cRes, compared>> /\ cPc = "join" /\ cPc' = "pair"
      /\ cTodo' = cTodo \ {s} /\ cAt > Len(new[s].recs)
  BY <1>0 DEF C!EndShard, C!JoinEnded, C!inputVars, C!tableVars
<1>2. compared \cap cTodo = {s} /\ s \in Shards
  BY <1>0, <1>1, CompareCurrentIs DEF ExactInv, CompareInv, CompareTypes
<1>3. compared' \cap cTodo' = {} /\ compared' \ cTodo' = (compared \ cTodo) \cup {s}
  BY <1>1, <1>2
<1>4. Clean' => Clean
  BY <1>1, CleanGrows
<1> SUFFICES ASSUME Clean
             PROVE  CellInv'
  BY <1>1, <1>3, <1>4 DEF ExactInv
<1>5. CellInv /\ TableInv(s)
  BY <1>0, <1>1 DEF ExactInv
<1>6. \A o, n \in Statuses : matrix'[o][n] = matrix[o][n]
  <2>1. /\ "missing" \notin Statuses /\ matrix \in [Statuses -> [C!Columns -> Nat]]
        /\ Statuses \subseteq C!Columns
    BY PassesAssumption DEF Authoritative, Transient, CompareInv, CompareTypes, C!Columns
  <2>2. \A o \in Statuses : \E k : matrix'[o] = [matrix[o] EXCEPT !["missing"] = k]
    BY DEF C!EndShard
  <2>3. \A o \in Statuses : matrix[o] \in [C!Columns -> Nat]
    BY <2>1
  <2> QED BY <2>1, <2>2, <2>3
<1>7. cSeen = Ips(Fresh(s)) \cap Ips(ents)
  <2>1. new[s].recs \in Seq(Rec) /\ Len(new[s].recs) \in Nat /\ cAt \in Nat
    BY <1>2, BaseTypes DEF CompareInv, CompareTypes
  <2>2. cAt = Len(new[s].recs) + 1
    BY <1>1, <1>5, <2>1 DEF TableInv
  <2> QED BY <1>5, <2>1, <2>2, FirstsAre DEF TableInv, Fresh
<1>8. \A ip \in Ips(Base(s)) : ip \in Ips(ents) <=> Target(<<s, ip>>)
  <2> SUFFICES ASSUME NEW ip \in Ips(Base(s))
               PROVE  ip \in Ips(ents) <=> Target(<<s, ip>>)
    OBVIOUS
  <2>1. PICK r \in Base(s) : r.ip = ip
    BY DEF Ips
  <2>2. \A q \in Base(s) : q.ip = ip => q = r
    BY <1>2, <2>1, BaseTypes
  <2>3. OldRec(<<s, ip>>) = r
    BY <2>1, <2>2 DEF OldRec, RecordOf
  <2>4. ents = {q \in Base(s) : q.st \in Mask}
    BY <1>5 DEF TableInv
  <2>5. ip \in Ips(ents) <=> r.st \in Mask
    BY <2>1, <2>2, <2>4 DEF Ips
  <2> QED BY <2>3, <2>5 DEF Target
<1>9. Ips(ents) \subseteq Ips(Base(s))
  BY <1>5 DEF TableInv, Ips
<1>10. {s} \X cSeen = {p \in {s} \X Ips(Base(s)) : Paired(p)}
  <2>1. ASSUME NEW ip \in Ips(Base(s))
        PROVE  ip \in cSeen <=> Paired(<<s, ip>>)
    BY <1>7, <1>8 DEF Paired, Answered
  <2>2. cSeen \subseteq Ips(Base(s))
    BY <1>7, <1>9
  <2> QED BY <2>1, <2>2
<1>11. Joined' = Joined
  <2>1. s \notin compared \ cTodo
    BY <1>2
  <2>2. BaseKeys((compared \ cTodo) \cup {s}) = BaseKeys(compared \ cTodo) \cup ({s} \X Ips(Base(s)))
    BY <2>1, KeysGrow
  <2>3. BaseKeys(compared \ cTodo)' = BaseKeys((compared \ cTodo) \cup {s})
    BY <1>1, <1>3, PassesSame DEF BaseKeys
  <2>4. Joined' = {p \in BaseKeys((compared \ cTodo) \cup {s}) : Paired(p)}
    BY <1>1, <1>3, <2>3, FirstRecsSame DEF Joined
  <2>5. Joined = {p \in BaseKeys(compared \ cTodo) : Paired(p)} \cup ({s} \X cSeen)
    BY <1>2 DEF Joined
  <2> QED BY <1>10, <2>2, <2>4, <2>5
<1> QED BY <1>1, <1>5, <1>6, <1>11, CellSame

LEMMA ExactStutters ==
    ASSUME ExactInv, UNCHANGED <<old, new, compareVars>>
    PROVE  ExactInv'
<1>1. UNCHANGED <<old, new, cPc, cTodo, ents, cSeen, cAt, matrix, cRes, compared>>
  BY DEF compareVars
<1>2. C!Current' = C!Current
  BY <1>1 DEF C!Current
<1>3. Joined' = Joined
  BY <1>1, JoinedSame
<1>4. Clean' => Clean
  BY <1>1, CleanGrows
<1>5. CellInv => CellInv'
  BY <1>1, <1>3, CellSame
<1>6. ASSUME NEW s, TableInv(s)
      PROVE  TableInv(s)'
  <2>1. (Met(new[s].recs, cAt) \cap Ips(ents))' = Met(new[s].recs, cAt) \cap Ips(ents)
    BY <1>1 DEF Met, Ips
  <2> QED BY <1>1, <1>6, <2>1, PassesSame DEF TableInv
<1>7. TableInv(C!Current) => TableInv(C!Current)'
  <2>1. PICK s : s = C!Current
    OBVIOUS
  <2> QED BY <1>2, <1>6, <2>1 DEF TableInv
<1> QED BY <1>1, <1>2, <1>4, <1>5, <1>7 DEF ExactInv

LEMMA NextExactInv == MergeInv /\ CompareInv /\ ExactInv /\ [Next]_vars => ExactInv'
<1> SUFFICES ASSUME MergeInv, CompareInv, ExactInv, [Next]_vars
             PROVE  ExactInv'
  OBVIOUS
<1>1. MergeTypes
  BY DEF MergeInv
<1>2. C!Step \/ UNCHANGED <<old, new, compareVars>>
  <2>1. RunMerge => UNCHANGED <<old, new, compareVars>>
    BY <1>1, MergeKeepsInput DEF RunMerge
  <2> QED BY <2>1 DEF Next, RunCompare, Ended, vars
<1>3. CASE C!LoadFails \/ C!JoinFails
  BY <1>3 DEF C!LoadFails, C!JoinFails, ExactInv
<1> QED
  BY <1>1, <1>2, <1>3, ExactMoves, ExactLoad, ExactIgnore, ExactJoin, ExactEnd, ExactStutters
  DEF C!Step

LEMMA InitExactInv == Init => ExactInv
<1> SUFFICES ASSUME C!Init
             PROVE  ExactInv
  BY InitBoth
<1>1. cPc = "discover" /\ compared = {}
  BY DEF C!Init, C!Begin
<1>2. Joined = {}
  BY <1>1 DEF Joined, BaseKeys
<1>3. \A o, n \in Statuses : matrix[o][n] = 0
  BY DEF C!Init, C!Begin, C!Columns
<1>4. \A c \in {"gained", "unchanged", "changed"} : cRes[c] = 0
  BY DEF C!Init, C!Begin, C!Counters
<1>5. CellInv
  BY <1>2, <1>3, <1>4, FS_EmptySet DEF CellInv
<1> QED BY <1>1, <1>5 DEF ExactInv

LEMMA ExactInvariance == Spec => []ExactInv
  BY InitExactInv, NextExactInv, MergeInvariance, CompareInvariance, PTL DEF Spec

LEMMA ReportExact == MergeTypes /\ CompareInv /\ ExactInv => CompareExact
<1> SUFFICES ASSUME MergeTypes, CompareInv, ExactInv, cPc = "done",
                    \A s \in compared : C!Unambiguous(old[s].recs)
             PROVE  /\ \A o, n \in Statuses : matrix[o][n] = C!Moves(old, new, compared, {o}, {n})
                    /\ cRes["gained"] = C!Moves(old, new, compared, Statuses \ {"has_ptr"}, {"has_ptr"})
                    /\ cRes["unchanged"] = C!SameNames(old, new, compared)
  BY DEF CompareExact, C!CompareExact
<1>1. CellInv /\ compared \subseteq Shards /\ cTodo = {}
  BY AlsoInCompare DEF ExactInv, Clean, CompareInv, CompareTypes
<1>2. Joined = {p \in BaseKeys(compared) : Paired(p)}
  <2>1. compared \ cTodo = compared /\ compared \cap cTodo = {}
    BY <1>1
  <2> QED BY <2>1 DEF Joined
<1>3. ASSUME NEW F, NEW T
      PROVE  C!Moves(old, new, compared, F, T) = PairCount(compared, F, T)
  <2>1. UNION {{s} \X {p \in Pairs(Base(s), Fresh(s)) : p[1].st \in F /\ p[2].st \in T}
               : s \in compared} = {x \in PairsIn(compared) : x[2][1].st \in F /\ x[2][2].st \in T}
    BY DEF PairsIn
  <2> QED BY <2>1, SameInCompare, AlsoInCompare DEF C!Moves, PairCount, Base, Fresh
<1>4. C!SameNames(old, new, compared) = SameCount(compared)
  <2>1. UNION {{s} \X {p \in Pairs(Base(s), Fresh(s)) :
                         /\ p[1].st = "has_ptr" /\ p[2].st = "has_ptr" /\ p[1].ptr = p[2].ptr}
               : s \in compared}
          = {x \in PairsIn(compared) : /\ x[2][1].st = "has_ptr" /\ x[2][2].st = "has_ptr"
                                       /\ x[2][1].ptr = x[2][2].ptr}
    BY DEF PairsIn
  <2> QED BY <2>1, SameInCompare, AlsoInCompare DEF C!SameNames, SameCount, Base, Fresh
<1>5. ASSUME NEW o \in Statuses, NEW n \in Statuses
      PROVE  matrix[o][n] = PairCount(compared, {o}, {n})
  <2>1. {p \in Joined : OldRec(p).st = o /\ NewRec(p).st = n}
          = {p \in BaseKeys(compared) : Paired(p) /\ OldRec(p).st \in {o} /\ NewRec(p).st \in {n}}
    BY <1>2
  <2>2. matrix[o][n] = Cardinality({p \in Joined : OldRec(p).st = o /\ NewRec(p).st = n})
    BY <1>1 DEF CellInv
  <2>3. PairCount(compared, {o}, {n}) = Cardinality({p \in BaseKeys(compared) :
            Paired(p) /\ OldRec(p).st \in {o} /\ NewRec(p).st \in {n}})
    BY <1>1, CountMoves
  <2> QED BY <2>1, <2>2, <2>3
<1>6. cRes["gained"] = PairCount(compared, Statuses \ {"has_ptr"}, {"has_ptr"})
  <2>1. \A p \in BaseKeys(compared) :
          /\ Branch(p) = "gained" <=>
                Paired(p) /\ OldRec(p).st # "has_ptr" /\ NewRec(p).st = "has_ptr"
          /\ OldRec(p).st \in Statuses
    BY <1>1, BranchIs, KeyIs
  <2>2. {p \in Joined : Branch(p) = "gained"}
          = {p \in BaseKeys(compared) : Paired(p) /\ OldRec(p).st \in Statuses \ {"has_ptr"}
                                          /\ NewRec(p).st \in {"has_ptr"}}
    BY <1>2, <2>1
  <2> QED BY <1>1, <2>2, CountMoves DEF CellInv
<1>7. cRes["unchanged"] = SameCount(compared)
  <2>1. \A p \in BaseKeys(compared) : Branch(p) = "unchanged" => Paired(p)
    BY <1>1, BranchIs
  <2>2. {p \in Joined : Branch(p) = "unchanged"}
          = {p \in BaseKeys(compared) : Branch(p) = "unchanged"}
    BY <1>2, <2>1
  <2> QED BY <1>1, <2>2, CountSame DEF CellInv
<1>8. \A o, n \in Statuses : matrix[o][n] = C!Moves(old, new, compared, {o}, {n})
  BY <1>3, <1>5, Zenon
<1>9. cRes["gained"] = C!Moves(old, new, compared, Statuses \ {"has_ptr"}, {"has_ptr"})
  BY <1>3, <1>6, Zenon
<1>10. cRes["unchanged"] = C!SameNames(old, new, compared)
  BY <1>4, <1>7, Zenon
<1> QED BY <1>8, <1>9, <1>10, Zenon

\* When no baseline address of the compared shards has two different records, compare's
\* report is what one would count by hand from the first record of each address in both
\* passes: every transition of the matrix, the PTRs gained and those that kept their names.
\* The unstable sort, repeated new records and truncated new shards do not change it
\* (joinNewPass, dedupSorted).
THEOREM CompareExactHolds == Spec => []CompareExact
<1>1. MergeInv => MergeTypes
  BY DEF MergeInv
<1> QED BY <1>1, ReportExact, MergeInvariance, CompareInvariance, ExactInvariance, PTL

-----------------------------------------------------------------------------
(* The two reports together.                                               *)

\* Every shard that was not compared has no new records.
ShardsInv ==
    /\ \A s \in Shards : new[s].kind = "absent" => new[s].recs = <<>>
    /\ \A s \in missing : new[s].kind = "absent"
    /\ cPc # "failed" => Shards \ cTodo \subseteq compared \cup missing

\* The targets with one status.
TargetKeys(S, st) == {p \in BaseKeys(S) : Target(p) /\ OldRec(p).st = st}

\* Without different records for one address the targets are counted by address.
TargetsInv ==
    cPc # "failed" /\ Clean => \A st \in Statuses :
        targets[st] = Cardinality(TargetKeys(compared, st))

LEMMA ShardsInvariance == Spec => []ShardsInv
<1>1. Init => ShardsInv
  <2> SUFFICES ASSUME C!Init
               PROVE  ShardsInv
    BY InitBoth
  <2>1. new \in NewPasses /\ missing = {} /\ cTodo = Shards
    BY PassesAssumption DEF C!Init, C!Begin
  <2>2. \A s \in Shards : new[s].kind = "absent" => new[s].recs = <<>>
    BY <2>1 DEF NewPasses
  <2> QED BY <2>1, <2>2 DEF ShardsInv
<1>2. MergeInv /\ CompareInv /\ ShardsInv /\ [Next]_vars => ShardsInv'
  <2> SUFFICES ASSUME MergeInv, CompareInv, ShardsInv, [Next]_vars
               PROVE  ShardsInv'
    OBVIOUS
  <2>1. C!Step \/ UNCHANGED <<old, new, compareVars>>
    <3>1. RunMerge => UNCHANGED <<old, new, compareVars>>
      BY MergeKeepsInput DEF RunMerge, MergeInv
    <3> QED BY <3>1 DEF Next, RunCompare, Ended, vars
  <2>2. CASE UNCHANGED <<old, new, compareVars>>
    BY <2>2 DEF ShardsInv, compareVars
  <2>3. CASE C!SkipShard
    <3>1. /\ UNCHANGED <<new, cPc, compared>> /\ cPc = "pair" /\ new[C!Current].kind = "absent"
          /\ missing' = missing \cup {C!Current} /\ cTodo' = cTodo \ {C!Current}
      BY <2>3 DEF C!SkipShard, C!inputVars
    <3>2. PICK s : s = C!Current
      OBVIOUS
    <3> QED BY <3>1, <3>2 DEF ShardsInv
  <2>4. CASE C!EndShard
    <3>1. /\ UNCHANGED <<new, missing, compared>> /\ cPc = "join"
          /\ cTodo' = cTodo \ {C!Current} /\ C!Current \in compared
      BY <2>4 DEF C!EndShard, C!JoinEnded, C!inputVars, CompareInv
    <3>2. PICK s : s = C!Current
      OBVIOUS
    <3> QED BY <3>1, <3>2 DEF ShardsInv
  <2>5. CASE \/ C!Discover \/ C!LoadShard \/ C!LoadFails \/ C!Unexpected \/ C!NewDup
             \/ C!Join \/ C!JoinFails \/ C!Finalize
    <3>1. UNCHANGED <<new, missing, cTodo>> /\ compared \subseteq compared' /\ cPc # "failed"
      BY <2>5 DEF C!Discover, C!LoadShard, C!LoadFails, C!Unexpected, C!NewDup, C!Ignore, C!Join,
         C!Joining, C!JoinFails, C!JoinEnded, C!Finalize, C!inputVars, C!shardVars
    <3> QED BY <3>1 DEF ShardsInv
  <2> QED BY <2>1, <2>2, <2>3, <2>4, <2>5 DEF C!Step
<1> QED BY <1>1, <1>2, MergeInvariance, CompareInvariance, PTL DEF Spec

LEMMA TargetKeysSame ==
    ASSUME UNCHANGED <<old, new>>, NEW S, S = compared'
    PROVE  \A st \in Statuses : TargetKeys(compared, st)' = TargetKeys(S, st)
<1>1. BaseKeys(compared)' = BaseKeys(S)
  BY PassesSame DEF BaseKeys
<1> QED BY <1>1, PassesSame, FirstRecsSame DEF TargetKeys

\* The targets of one shard, as records and as addresses.
LEMMA ShardTargets ==
    ASSUME MergeTypes, NEW s \in Shards, NEW st
    PROVE  /\ Cardinality(TargetKeys({s}, st))
                = Cardinality({r \in Base(s) : r.st \in Mask /\ r.st = st})
           /\ IsFiniteSet(TargetKeys({s}, st))
<1> DEFINE f == [r \in Base(s) |-> <<s, r.ip>>]
           Q == TargetKeys({s}, st)
<1>1. {s} \subseteq Shards
  OBVIOUS
<1>2. IsFiniteSet(Base(s))
  BY BaseTypes, FirstsCount DEF Base
<1>3. \A a, b \in Base(s) : f[a] = f[b] => a = b
  BY BaseTypes
<1>4. ASSUME NEW r \in Base(s)
      PROVE  f[r] \in Q <=> r.st \in Mask /\ r.st = st
  <2>1. <<s, r.ip>> \in BaseKeys({s}) /\ OldRec(<<s, r.ip>>) = r
    BY <1>1, KeyOf
  <2>2. Target(<<s, r.ip>>) <=> r.st \in Mask
    BY <1>1, <2>1, KeyIs
  <2> QED BY <2>1, <2>2 DEF TargetKeys
<1>5. \A q \in Q : \E a \in Base(s) : f[a] = q
  <2> SUFFICES ASSUME NEW q \in Q
               PROVE  \E a \in Base(s) : f[a] = q
    OBVIOUS
  <2>1. q \in BaseKeys({s})
    BY DEF TargetKeys
  <2>2. q = <<q[1], q[2]>> /\ q[1] = s /\ OldRec(q) \in Base(q[1]) /\ OldRec(q).ip = q[2]
    BY <1>1, <2>1, KeyIs
  <2>3. OldRec(q) \in Base(s) /\ f[OldRec(q)] = q
    BY <2>2
  <2> QED BY <2>3
<1>6. IsFiniteSet(Q)
  <2>1. Q \subseteq BaseKeys({s})
    BY DEF TargetKeys
  <2> QED BY <1>1, <2>1, KeysFinite, FS_Subset
<1> HIDE DEF f, Q
<1>7. Cardinality(Q) = Cardinality({a \in Base(s) : f[a] \in Q})
  BY <1>2, <1>3, <1>5, Renamed
<1>8. {a \in Base(s) : f[a] \in Q} = {r \in Base(s) : r.st \in Mask /\ r.st = st}
  BY <1>4
<1> QED BY <1>6, <1>7, <1>8 DEF Q

LEMMA TargetsLoad ==
    ASSUME MergeTypes, CompareInv, ExactInv, TargetsInv, C!LoadShard
    PROVE  TargetsInv'
<1>0. PICK s : s = C!Current
  OBVIOUS
<1>1. CompareTypes /\ s \in Shards /\ s \in cTodo
  BY <1>0, CompareCurrentIs DEF C!LoadShard, CompareInv, CompareTypes
<1>2. PICK E \in C!Deduped(s) :
        targets' = [st \in Statuses |-> targets[st] + Cardinality({e \in E : e.st = st})]
  BY <1>0, SameInCompare DEF C!LoadShard
<1>3. /\ UNCHANGED <<old, new>> /\ cPc = "pair" /\ compared' = compared \cup {s}
  BY <1>0 DEF C!LoadShard, C!inputVars
<1>4. s \notin compared /\ compared \subseteq Shards
  BY <1>1, <1>3 DEF ExactInv, CompareTypes
<1> SUFFICES ASSUME Clean', NEW st \in Statuses
             PROVE  targets'[st] = Cardinality(TargetKeys(compared, st)')
  BY DEF TargetsInv
<1>5. Clean
  BY <1>3, CleanGrows
<1>6. E = {r \in Base(s) : r.st \in Mask}
  <2>1. s \in compared' /\ old' = old
    BY <1>3
  <2>2. \A t \in compared' : Unambiguous(old'[t].recs)
    BY Zenon DEF Clean
  <2> QED BY <1>1, <2>1, <2>2, LoadedTable
<1>7. targets[st] = Cardinality(TargetKeys(compared, st))
  BY <1>3, <1>5 DEF TargetsInv
<1>8. {e \in E : e.st = st} = {r \in Base(s) : r.st \in Mask /\ r.st = st}
  BY <1>6
<1>9. /\ Cardinality(TargetKeys({s}, st)) = Cardinality({e \in E : e.st = st})
      /\ IsFiniteSet(TargetKeys({s}, st))
  BY <1>1, <1>8, ShardTargets
<1>10. /\ TargetKeys(compared, st)' = TargetKeys(compared, st) \cup TargetKeys({s}, st)
       /\ TargetKeys(compared, st) \cap TargetKeys({s}, st) = {}
  <2>1. TargetKeys(compared, st)' = TargetKeys(compared \cup {s}, st)
    BY <1>3, TargetKeysSame
  <2>2. \A p : p \in BaseKeys(compared \cup {s}) <=> p \in BaseKeys(compared) \/ p \in BaseKeys({s})
    BY DEF BaseKeys
  <2>3. \A p \in BaseKeys(compared) : p \notin BaseKeys({s})
    BY <1>4, KeysAre
  <2> QED BY <2>1, <2>2, <2>3 DEF TargetKeys
<1>11. IsFiniteSet(TargetKeys(compared, st))
  <2>1. TargetKeys(compared, st) \subseteq BaseKeys(compared)
    BY DEF TargetKeys
  <2> QED BY <1>4, <2>1, KeysFinite, FS_Subset
<1>12. Cardinality(TargetKeys(compared, st) \cup TargetKeys({s}, st))
         = Cardinality(TargetKeys(compared, st)) + Cardinality(TargetKeys({s}, st))
  BY <1>9, <1>10, <1>11, DisjointCount
<1>13. targets'[st] = targets[st] + Cardinality({e \in E : e.st = st})
  BY <1>2
<1> QED BY <1>7, <1>9, <1>10, <1>12, <1>13

LEMMA TargetsInvariance == Spec => []TargetsInv
<1>1. Init => TargetsInv
  <2> SUFFICES ASSUME C!Init, NEW st \in Statuses
               PROVE  targets[st] = Cardinality(TargetKeys(compared, st))
    BY InitBoth DEF TargetsInv
  <2>1. targets[st] = 0 /\ compared = {}
    BY DEF C!Init, C!Begin
  <2>2. TargetKeys(compared, st) = {}
    BY <2>1 DEF TargetKeys, BaseKeys
  <2> QED BY <2>1, <2>2, FS_EmptySet
<1>2. MergeInv /\ CompareInv /\ ExactInv /\ TargetsInv /\ [Next]_vars => TargetsInv'
  <2> SUFFICES ASSUME MergeInv, CompareInv, ExactInv, TargetsInv, [Next]_vars
               PROVE  TargetsInv'
    OBVIOUS
  <2>1. MergeTypes
    BY DEF MergeInv
  <2>2. C!Step \/ UNCHANGED <<old, new, compareVars>>
    <3>1. RunMerge => UNCHANGED <<old, new, compareVars>>
      BY <2>1, MergeKeepsInput DEF RunMerge
    <3> QED BY <3>1 DEF Next, RunCompare, Ended, vars
  <2>3. CASE C!LoadShard
    BY <2>1, <2>3, TargetsLoad
  <2>4. CASE C!LoadFails
    BY <2>4 DEF C!LoadFails, TargetsInv
  <2>5. CASE UNCHANGED <<old, new, targets, compared>> /\ (cPc = "failed" => cPc' = "failed")
    <3> SUFFICES ASSUME cPc' # "failed", Clean', NEW st \in Statuses
                 PROVE  targets'[st] = Cardinality(TargetKeys(compared, st)')
      BY DEF TargetsInv
    <3>1. Clean
      BY <2>5, CleanGrows
    <3>2. TargetKeys(compared, st)' = TargetKeys(compared, st)
      BY <2>5, TargetKeysSame
    <3>3. targets[st] = Cardinality(TargetKeys(compared, st))
      BY <2>5, <3>1 DEF TargetsInv
    <3> QED BY <2>5, <3>2, <3>3
  <2>6. C!Step /\ ~C!LoadShard /\ ~C!LoadFails =>
          UNCHANGED <<old, new, targets, compared>> /\ (cPc = "failed" => cPc' = "failed")
    BY DEF C!Step, C!Discover, C!SkipShard, C!Unexpected, C!NewDup, C!Ignore, C!Join, C!Joining,
       C!EndShard, C!JoinEnded, C!JoinFails, C!Finalize, C!inputVars, C!reportVars, C!shardVars
  <2> QED BY <2>2, <2>3, <2>4, <2>5, <2>6 DEF compareVars
<1> QED BY <1>1, <1>2, MergeInvariance, CompareInvariance, ExactInvariance, PTL DEF Spec

\* The targets both passes observed.
Both == {p \in BaseKeys(Shards) : Paired(p)}

\* Both commands have printed their reports, and the baseline is unambiguous.
Reported ==
    /\ MergeInv /\ CompareInv /\ BalanceInv /\ ExactInv /\ AccountInv /\ ShardsInv /\ TargetsInv
    /\ HeadInv
    /\ cPc = "done" /\ mPc = "done" /\ \A s \in Shards : Unambiguous(old[s].recs)

LEMMA AllShards ==
    ASSUME Reported
    PROVE  /\ MergeTypes /\ compared \subseteq Shards /\ cTodo = {} /\ CellInv /\ M!Merged = Shards
           /\ Joined = Both /\ NewRows(compared) = NewRows(Shards)
           /\ missing = {} => compared = Shards
           /\ IsFiniteSet(BaseKeys(Shards)) /\ IsFiniteSet(Both)
<1>1. MergeTypes /\ compared \subseteq Shards /\ cTodo = {} /\ M!Merged = Shards
  <2>1. mTodo = {} /\ MergeTypes
    BY DEF Reported, MergeInv
  <2> QED BY <2>1, MergedIs DEF Reported, ExactInv, CompareInv, CompareTypes
<1>2. CellInv
  BY <1>1 DEF Reported, ExactInv, Clean
<1>3. Shards \subseteq compared \cup missing
  BY <1>1 DEF Reported, ShardsInv
<1>4. ASSUME NEW s \in Shards, s \notin compared
      PROVE  DOMAIN new[s].recs = {} /\ Ips(Fresh(s)) = {}
  <2>1. new[s].recs = <<>>
    BY <1>3, <1>4 DEF Reported, ShardsInv
  <2>2. DOMAIN new[s].recs = {}
    BY <2>1
  <2>3. Fresh(s) = {}
    BY <2>2 DEF Fresh, FirstOccurrences
  <2> QED BY <2>2, <2>3 DEF Ips
<1>5. Joined = {p \in BaseKeys(compared) : Paired(p)}
  <2>1. compared \ cTodo = compared /\ compared \cap cTodo = {}
    BY <1>1
  <2> QED BY <2>1 DEF Joined
<1>6. Joined = Both
  <2>1. \A p : p \in BaseKeys(compared) => p \in BaseKeys(Shards)
    BY <1>1, KeysAre
  <2>2. ASSUME NEW p \in BaseKeys(Shards), Paired(p)
        PROVE  p \in BaseKeys(compared)
    <3>1. PICK s, x : s \in Shards /\ x \in Ips(Base(s)) /\ p = <<s, x>>
      BY KeysAre
    <3>2. x \in Ips(Fresh(s))
      BY <2>2, <3>1 DEF Paired, Answered
    <3>3. s \in compared
      BY <1>4, <3>1, <3>2
    <3> QED BY <3>1, <3>3, KeysAre
  <2> QED BY <1>5, <2>1, <2>2 DEF Both
<1>7. NewRows(compared) = NewRows(Shards)
  <2>1. \A p : p \in NewRows(compared) <=> \E s \in compared : \E x \in DOMAIN new[s].recs : p = <<s, x>>
    BY KeysAre
  <2>2. \A p : p \in NewRows(Shards) <=> \E s \in Shards : \E x \in DOMAIN new[s].recs : p = <<s, x>>
    BY KeysAre
  <2>3. \A s \in Shards : \A x \in DOMAIN new[s].recs : s \in compared
    BY <1>4
  <2>4. \A p : p \in NewRows(compared) <=> p \in NewRows(Shards)
    BY <1>1, <2>1, <2>2, <2>3, Zenon
  <2> QED BY <2>4
<1>8. IsFiniteSet(BaseKeys(Shards)) /\ Both \subseteq BaseKeys(Shards)
  BY <1>1, KeysFinite DEF Both
<1> QED BY <1>1, <1>2, <1>3, <1>6, <1>7, <1>8, FS_Subset

LEMMA MergeCounters ==
    ASSUME Reported, NEW c \in ScanCounters
    PROVE  mRes[c] = Cardinality({p \in BaseKeys(Shards) : Branch(p) = c})
<1>1. Scanned = BaseKeys(Shards)
  BY AllShards, ScannedIs DEF Reported
<1> QED BY <1>1 DEF Reported, BalanceInv, TallyInv

\* A part of a row of the matrix counts the targets that went to one of its statuses.
LEMMA RowCount ==
    ASSUME Reported, NEW o \in Statuses, NEW T, T \subseteq Statuses
    PROVE  SumOver(matrix[o], T) = Cardinality({p \in Both : OldRec(p).st = o /\ NewRec(p).st \in T})
<1> DEFINE F == [n \in T |-> {p \in Both : OldRec(p).st = o /\ NewRec(p).st = n}]
           U == {p \in Both : OldRec(p).st = o /\ NewRec(p).st \in T}
<1>1. IsFiniteSet(T)
  BY StatusSets, FS_Subset
<1>2. \A n \in T : F[n] \in SUBSET Both /\ matrix[o][n] = Cardinality(F[n])
  BY AllShards DEF CellInv
<1>3. \A x, y \in T : x # y => F[x] \cap F[y] = {}
  OBVIOUS
<1>4. \A p : p \in U <=> \E n \in T : p \in F[n]
  OBVIOUS
<1>5. PICK f : f = matrix[o]
  OBVIOUS
<1> HIDE DEF F, U
<1>6. \A n \in T : IsFiniteSet(F[n]) /\ f[n] = Cardinality(F[n])
  BY <1>2, <1>5, AllShards, FS_Subset
<1>7. SumOver(f, T) = Cardinality(U)
  BY ONLY <1>1, <1>3, <1>4, <1>6, SumClasses
<1> QED BY <1>5, <1>7 DEF U

LEMMA AllRows ==
    ASSUME Reported
    PROVE  SumOver(RowTotals, Statuses) = Cardinality(Both)
<1> DEFINE F == [o \in Statuses |-> {p \in Both : OldRec(p).st = o}]
<1>1. \A p \in Both : OldRec(p).st \in Statuses /\ NewRec(p).st \in Statuses
  BY AllShards, KeyIs DEF Both, Paired
<1>2. ASSUME NEW o \in Statuses
      PROVE  RowTotals[o] = Cardinality(F[o])
  <2>1. {p \in Both : OldRec(p).st = o /\ NewRec(p).st \in Statuses} = {p \in Both : OldRec(p).st = o}
    BY <1>1
  <2>2. SumOver(matrix[o], Statuses)
          = Cardinality({p \in Both : OldRec(p).st = o /\ NewRec(p).st \in Statuses})
    BY RowCount
  <2> QED BY <2>1, <2>2 DEF RowTotals
<1>3. \A x, y \in Statuses : x # y => F[x] \cap F[y] = {}
  OBVIOUS
<1>4. \A p : p \in Both <=> \E o \in Statuses : p \in F[o]
  BY <1>1
<1>5. \A o \in Statuses : F[o] \in SUBSET Both
  OBVIOUS
<1>6. PICK f, U : f = RowTotals /\ U = Both
  OBVIOUS
<1> HIDE DEF F
<1>7. \A o \in Statuses : IsFiniteSet(F[o]) /\ f[o] = Cardinality(F[o])
  BY <1>2, <1>5, <1>6, AllShards, FS_Subset
<1>8. IsFiniteSet(Statuses) /\ \A p : p \in U <=> \E o \in Statuses : p \in F[o]
  BY <1>4, <1>6, StatusSets
<1>9. SumOver(f, Statuses) = Cardinality(U)
  BY ONLY <1>3, <1>7, <1>8, SumClasses
<1> QED BY <1>6, <1>9

LEMMA AllRead ==
    ASSUME Reported
    PROVE  SumOver(ReadOf, compared) = Cardinality(NewRows(Shards))
<1> DEFINE F == [s \in compared |-> {s} \X DOMAIN new[s].recs]
<1>1. ASSUME NEW s \in compared
      PROVE  IsFiniteSet(F[s]) /\ ReadOf[s] = Cardinality(F[s])
  <2>1. s \in Shards /\ s \notin cTodo
    BY AllShards
  <2> QED BY <2>1, AllShards, TableCount DEF ReadOf
<1>2. \A x, y \in compared : x # y => F[x] \cap F[y] = {}
  OBVIOUS
<1>3. \A p : p \in NewRows(compared) <=> \E s \in compared : p \in F[s]
  BY DEF NewRows
<1>4. IsFiniteSet(compared)
  BY TotalFacts DEF Reported
<1>5. PICK f, U, S : f = ReadOf /\ U = NewRows(compared) /\ S = compared
  OBVIOUS
<1> HIDE DEF F
<1>6. /\ IsFiniteSet(S) /\ \A x, y \in S : x # y => F[x] \cap F[y] = {}
      /\ \A s \in S : IsFiniteSet(F[s]) /\ f[s] = Cardinality(F[s])
      /\ \A p : p \in U <=> \E s \in S : p \in F[s]
  BY <1>1, <1>2, <1>3, <1>4, <1>5
<1>7. SumOver(f, S) = Cardinality(U)
  BY ONLY <1>6, SumClasses
<1> QED BY <1>5, <1>7, AllShards

\* The targets that were answered and those that were not.
LEMMA TargetsSplit ==
    ASSUME Reported
    PROVE  /\ Cardinality({p \in BaseKeys(Shards) : Target(p)}) = Cardinality(Both) + mRes["missingKept"]
           /\ Cardinality(Both) \in Nat /\ mRes["missingKept"] \in Nat
<1> DEFINE A == {p \in BaseKeys(Shards) : Branch(p) = "missingKept"}
<1>1. mRes["missingKept"] = Cardinality(A)
  BY MergeCounters DEF ScanCounters
<1>2. \A p \in BaseKeys(Shards) : Branch(p) = "missingKept" <=> Target(p) /\ ~Answered(p)
  BY AllShards, BranchIs
<1>3. {p \in BaseKeys(Shards) : Target(p)} = Both \cup A /\ Both \cap A = {}
  BY <1>2 DEF Both, Paired
<1>4. IsFiniteSet(Both) /\ IsFiniteSet(A)
  BY AllShards, FS_Subset
<1> HIDE DEF A
<1> QED BY <1>1, <1>3, <1>4, DisjointCount

LEMMA AllTargets ==
    ASSUME Reported, compared = Shards
    PROVE  SumOver(targets, Statuses) = Cardinality({p \in BaseKeys(Shards) : Target(p)})
<1> DEFINE F == [st \in Statuses |-> TargetKeys(Shards, st)]
           U == {p \in BaseKeys(Shards) : Target(p)}
<1>1. \A p \in BaseKeys(Shards) : OldRec(p).st \in Statuses
  BY AllShards, KeyIs
<1>2. \A st \in Statuses : F[st] \in SUBSET BaseKeys(Shards) /\ targets[st] = Cardinality(F[st])
  BY DEF Reported, TargetsInv, Clean, TargetKeys
<1>3. \A x, y \in Statuses : x # y => F[x] \cap F[y] = {}
  BY DEF TargetKeys
<1>4. \A p : p \in U <=> \E st \in Statuses : p \in F[st]
  BY <1>1 DEF TargetKeys
<1>5. PICK f : f = targets
  OBVIOUS
<1> HIDE DEF F, U
<1>6. \A st \in Statuses : IsFiniteSet(F[st]) /\ f[st] = Cardinality(F[st])
  BY <1>2, <1>5, AllShards, FS_Subset
<1>7. IsFiniteSet(Statuses)
  BY StatusSets
<1>8. SumOver(f, Statuses) = Cardinality(U)
  BY ONLY <1>3, <1>4, <1>6, <1>7, SumClasses
<1> QED BY <1>5, <1>8 DEF U

LEMMA BaselineCount ==
    ASSUME Reported
    PROVE  BaselinePTRs = BaseCount({"has_ptr"})
<1> DEFINE F == [s \in Shards |-> {s} \X {r \in Base(s) : r.st = "has_ptr"}]
           f == [s \in Shards |-> Cardinality({r \in FirstOccurrences(old[s].recs) : r.st = "has_ptr"})]
           U == {x \in BaseRecs : x[2].st \in {"has_ptr"}}
<1>1. ASSUME NEW s \in Shards
      PROVE  IsFiniteSet(F[s]) /\ f[s] = Cardinality(F[s])
  <2>1. IsFiniteSet(Base(s))
    BY AllShards, BaseTypes, FirstsCount DEF Base
  <2>2. IsFiniteSet({r \in Base(s) : r.st = "has_ptr"})
    BY <2>1, FS_Subset
  <2>3. f[s] = Cardinality({r \in Base(s) : r.st = "has_ptr"})
    BY DEF Base
  <2> QED BY <2>2, <2>3, SliceCount
<1>2. \A x, y \in Shards : x # y => F[x] \cap F[y] = {}
  OBVIOUS
<1>3. \A p : p \in U <=> \E s \in Shards : p \in F[s]
  BY AllShards DEF BaseRecs
<1>4. BaselinePTRs = SumOver(f, Shards) /\ IsFiniteSet(Shards)
  BY PassesAssumption DEF BaselinePTRs
<1> HIDE DEF F, U, f
<1>5. SumOver(f, Shards) = Cardinality(U)
  BY ONLY <1>1, <1>2, <1>3, <1>4, SumClasses
<1> QED BY <1>4, <1>5 DEF U, BaseCount

LEMMA SameCounters ==
    ASSUME Reported
    PROVE  /\ \A c \in {"gained", "unchanged", "changed"} : cRes[c] = mRes[c]
           /\ headline.ptrRemoved = mRes["removedAuth"]
           /\ headline.ptrTransient = mRes["graceKept"]
<1>1. \A p \in BaseKeys(Shards) :
        /\ Branch(p) \in {"gained", "unchanged", "changed"} => Paired(p)
        /\ Branch(p) = "removedAuth" <=>
             Paired(p) /\ OldRec(p).st = "has_ptr" /\ NewRec(p).st \in Authoritative
        /\ Branch(p) = "graceKept" <=>
             Paired(p) /\ OldRec(p).st = "has_ptr" /\ NewRec(p).st \in Transient
        /\ Paired(p) => NewRec(p).st \in Statuses
  BY AllShards, BranchIs, KeyIs DEF Paired
<1>2. ASSUME NEW c \in {"gained", "unchanged", "changed"}
      PROVE  cRes[c] = mRes[c]
  <2>1. {p \in Both : Branch(p) = c} = {p \in BaseKeys(Shards) : Branch(p) = c}
    BY <1>1 DEF Both
  <2>2. cRes[c] = Cardinality({p \in Both : Branch(p) = c})
    BY AllShards DEF CellInv
  <2>3. mRes[c] = Cardinality({p \in BaseKeys(Shards) : Branch(p) = c})
    BY MergeCounters DEF ScanCounters
  <2> QED BY <2>1, <2>2, <2>3
<1>3. headline = Printed /\ "has_ptr" \in Statuses
  BY StatusSets DEF Reported, HeadInv
<1>4. headline.ptrRemoved = mRes["removedAuth"]
  <2> DEFINE T == Statuses \cap Authoritative
  <2>1. headline.ptrRemoved = SumOver(matrix["has_ptr"], T)
    BY <1>3 DEF Printed, RowPart
  <2>2. SumOver(matrix["has_ptr"], T)
          = Cardinality({p \in Both : OldRec(p).st = "has_ptr" /\ NewRec(p).st \in T})
    BY <1>3, RowCount
  <2>3. {p \in Both : OldRec(p).st = "has_ptr" /\ NewRec(p).st \in T}
          = {p \in BaseKeys(Shards) : Branch(p) = "removedAuth"}
    BY <1>1 DEF Both
  <2>4. mRes["removedAuth"] = Cardinality({p \in BaseKeys(Shards) : Branch(p) = "removedAuth"})
    BY MergeCounters DEF ScanCounters
  <2> QED BY <2>1, <2>2, <2>3, <2>4
<1>5. headline.ptrTransient = mRes["graceKept"]
  <2> DEFINE T == Statuses \cap Transient
  <2>1. headline.ptrTransient = SumOver(matrix["has_ptr"], T)
    BY <1>3 DEF Printed, RowPart
  <2>2. SumOver(matrix["has_ptr"], T)
          = Cardinality({p \in Both : OldRec(p).st = "has_ptr" /\ NewRec(p).st \in T})
    BY <1>3, RowCount
  <2>3. {p \in Both : OldRec(p).st = "has_ptr" /\ NewRec(p).st \in T}
          = {p \in BaseKeys(Shards) : Branch(p) = "graceKept"}
    BY <1>1 DEF Both
  <2>4. mRes["graceKept"] = Cardinality({p \in BaseKeys(Shards) : Branch(p) = "graceKept"})
    BY MergeCounters DEF ScanCounters
  <2> QED BY <2>1, <2>2, <2>3, <2>4
<1> QED BY <1>2, <1>4, <1>5

LEMMA ResTypes ==
    ASSUME Reported
    PROVE  /\ \A c \in {"newDups", "unexpected", "gained", "unchanged", "changed"} :
                cRes[c] \in Nat /\ mRes[c] \in Nat
           /\ mRes["removedAuth"] \in Nat /\ mRes["missingKept"] \in Nat
<1>1. cRes \in [C!Counters -> Nat] /\ mRes \in [M!Counters -> Nat]
  BY AllShards DEF Reported, CompareInv, CompareTypes, MergeTypes
<1> QED BY <1>1 DEF C!Counters, M!Counters

\* Every new record was joined, or is superfluous to both commands.
LEMMA SameSuperfluous ==
    ASSUME Reported
    PROVE  cRes["newDups"] + cRes["unexpected"] = mRes["newDups"] + mRes["unexpected"]
<1>1. Balanced
  BY ReportBalances DEF Reported
<1>2. PICK b, m, n, k, cn, cu, mn, mu :
        /\ b = Cardinality(Both) /\ m = mRes["missingKept"] /\ n = Cardinality(NewRows(Shards))
        /\ k = BaseCount(Mask) /\ cn = cRes["newDups"] /\ cu = cRes["unexpected"]
        /\ mn = mRes["newDups"] /\ mu = mRes["unexpected"]
  OBVIOUS
<1>3. k = b + m /\ b \in Nat /\ m \in Nat
  <2>1. {p \in BaseKeys(Shards) : OldRec(p).st \in Mask} = {p \in BaseKeys(Shards) : Target(p)}
    BY AllShards, KeyIs
  <2>2. BaseCount(Mask) = Cardinality({p \in BaseKeys(Shards) : OldRec(p).st \in Mask})
    BY AllShards, CountBase DEF Reported
  <2> QED BY <1>2, <2>1, <2>2, TargetsSplit
<1>4. k - m + mn + mu = n
  BY <1>1, <1>2, AllShards DEF Balanced
<1>5. b + cn + cu = n
  BY <1>2, AllRows, AllRead DEF Reported, AccountInv, ReadInv
<1>6. cn \in Nat /\ cu \in Nat /\ mn \in Nat /\ mu \in Nat
  BY <1>2, ResTypes
<1>7. cn + cu = mn + mu
  BY <1>3, <1>4, <1>5, <1>6
<1> QED BY <1>2, <1>7

LEMMA SameMissing ==
    ASSUME Reported, missing = {}
    PROVE  SumOver([st \in Statuses |-> matrix[st]["missing"]], Statuses) = mRes["missingKept"]
<1> DEFINE g == [st \in Statuses |-> matrix[st]["missing"]]
<1>1. CompareInv /\ RowsInv
  BY DEF Reported, AccountInv
<1>2. ASSUME NEW st \in Statuses
      PROVE  g[st] \in Nat /\ RowTotals[st] \in Nat /\ targets[st] = g[st] + RowTotals[st]
  <2>1. Waiting(st) = {}
    BY DEF Waiting, Reported
  <2>2. Cardinality(Waiting(st)) = 0
    BY <2>1, FS_EmptySet
  <2>3. SumOver(matrix[st], C!Columns) + Cardinality(Waiting(st)) = targets[st]
    BY <1>1 DEF RowsInv
  <2>4. /\ SumOver(matrix[st], C!Columns) = g[st] + RowTotals[st]
        /\ g[st] \in Nat /\ RowTotals[st] \in Nat
    BY <1>1, RowFacts, StatusSets DEF RowTotals
  <2> QED BY <2>2, <2>3, <2>4
<1>3. PICK f, r : f = targets /\ r = RowTotals
  OBVIOUS
<1> HIDE DEF g
<1>4. \A st \in Statuses : g[st] \in Nat /\ r[st] \in Nat /\ f[st] = g[st] + r[st]
  BY <1>2, <1>3
<1>5. IsFiniteSet(Statuses)
  BY StatusSets
<1>6. SumOver(f, Statuses) = SumOver(g, Statuses) + SumOver(r, Statuses)
  BY ONLY <1>4, <1>5, SumPlus
<1>7. SumOver(f, Statuses) = Cardinality(Both) + mRes["missingKept"]
  BY <1>3, AllShards, AllTargets, TargetsSplit
<1>8. SumOver(r, Statuses) = Cardinality(Both)
  BY <1>3, AllRows
<1>9. SumOver(g, Statuses) \in Nat
  BY <1>4, <1>5, SumFacts
<1>10. SumOver(g, Statuses) = mRes["missingKept"]
  BY <1>6, <1>7, <1>8, <1>9, TargetsSplit
<1> QED BY <1>10 DEF g

LEMMA SameNet ==
    ASSUME Reported
    PROVE  counts["has_ptr"] = IF headline.net.sign = "+" THEN BaselinePTRs + headline.net.n
                               ELSE BaselinePTRs - headline.net.n
<1>1. Balanced
  BY ReportBalances DEF Reported
<1>2. PICK b, g, l : b = BaselinePTRs /\ g = mRes["gained"] /\ l = mRes["removedAuth"]
  OBVIOUS
<1>3. g \in Nat /\ l \in Nat
  BY <1>2, ResTypes
<1>4. b \in Nat
  <2>1. BaseCount({"has_ptr"}) = Cardinality({p \in BaseKeys(Shards) : OldRec(p).st \in {"has_ptr"}})
    BY AllShards, CountBase DEF Reported
  <2> QED BY <1>2, <2>1, BaselineCount, AllShards, FinitePart
<1>5. counts["has_ptr"] = b + g - l
  BY <1>1, <1>2, BaselineCount DEF Balanced
<1>6. headline.net = C!NetMovement(g, l)
  <2>1. headline = Printed
    BY DEF Reported, HeadInv
  <2>2. headline.net = C!NetMovement(cRes["gained"], headline.ptrRemoved)
    BY <2>1 DEF Printed
  <2> QED BY <1>2, <2>2, SameCounters
<1>7. headline.net = IF g >= l THEN [sign |-> "+", n |-> g - l] ELSE [sign |-> "-", n |-> l - g]
  BY <1>6 DEF C!NetMovement
<1>8. CASE g >= l
  <2>1. headline.net.sign = "+" /\ headline.net.n = g - l
    BY <1>7, <1>8
  <2> QED BY <1>2, <1>3, <1>4, <1>5, <2>1
<1>9. CASE ~(g >= l)
  <2>1. headline.net.sign = "-" /\ headline.net.n = l - g
    BY <1>7, <1>9
  <2> QED BY <1>2, <1>3, <1>4, <1>5, <2>1
<1> QED BY <1>8, <1>9

\* compare and merge tell the same story of an update although one streams the new pass
\* against the old and the other the old against the new: when both succeed on a baseline
\* without two different records for an address, they agree on gained, unchanged, changed,
\* removed and transient PTRs, on superfluous new records and on targets nobody answered
\* for, and the net movement compare prints is the change in the merged dataset
\* (joinNewPass and RenderText of compare, mergeShard).
THEOREM ReportsAgreeHolds == Spec => []ReportsAgree
<1>1. MergeInv /\ CompareInv /\ BalanceInv /\ ExactInv /\ AccountInv /\ ShardsInv /\ TargetsInv
        /\ HeadInv => ReportsAgree
  <2> SUFFICES ASSUME MergeInv, CompareInv, BalanceInv, ExactInv, AccountInv, ShardsInv, TargetsInv,
                      HeadInv, cPc = "done", mPc = "done",
                      \A s \in Shards : Unambiguous(old[s].recs)
               PROVE  ReportsAgree
    BY DEF ReportsAgree
  <2>1. Reported
    BY DEF Reported
  <2> QED BY <2>1, SameCounters, SameSuperfluous, SameMissing, SameNet DEF ReportsAgree
<1> QED BY <1>1, MergeInvariance, CompareInvariance, BalanceInvariance, ExactInvariance,
           AccountInvariance, ShardsInvariance, TargetsInvariance, HeadInvariance, PTL
=============================================================================
