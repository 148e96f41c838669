--------------------------- MODULE AddressWalkProofs ---------------------------
(***************************************************************************)
(* The generators over the IPv4 space (AddressWalk), for every address     *)
(* space, set of reserved ranges, hash, fleet size and checkpoint: a fleet *)
(* asks for its sample exactly once, a bounded run for exactly its bound,  *)
(* and every walk is a target stream.                                      *)
(***************************************************************************)
EXTENDS AddressWalk, FiniteSetTheorems, TLAPS

Origin == IPToInt(start)

\* The targets of a node.
Stream(n) == {a \in Routable : Wanted(a, n)}

-----------------------------------------------------------------------------
(* Addresses.                                                              *)

LEMMA RoutableType ==
    /\ Routable \subseteq Space /\ Space \subseteq Nat
    /\ \A a \in Space : a \in Routable <=> ~IsReserved(a)
<1>1. Routable \subseteq Space
  BY DEF Routable
<1>2. Space \subseteq Nat
  BY WalkAssumption DEF Space
<1>3. ASSUME NEW a \in Space
      PROVE  a \in Routable <=> ~IsReserved(a)
  <2>1. \A r \in Ranges : Covers(r, a) <=> a \in r.start .. r.end
    BY <1>2, WalkAssumption DEF Covers
  <2> QED BY <2>1 DEF Routable, IsReserved
<1> QED BY <1>1, <1>2, <1>3

LEMMA OriginType ==
    ASSUME start \in Starts
    PROVE  Origin \in Space
<1>1. MaxAddr \in Nat /\ Starts \subseteq Space \cup {Invalid}
  BY WalkAssumption
<1> QED BY <1>1 DEF Origin, IPToInt, Invalid, Space

\* A resumed walk begins behind its cursor: no cursor names the last address of the
\* space, so the addition does not wrap, and none names address zero.
LEMMA FirstAddressIs ==
    ASSUME NEW n \in Nodes, curFile[n] \in Routable \cup {NoCursor}, start \in Starts
    PROVE  /\ FirstAddress(n) \in Space
           /\ FirstAddress(n) = IF curFile[n] = NoCursor THEN Origin ELSE curFile[n] + 1
<1>1. MaxAddr \in Nat /\ 0 \notin Routable /\ MaxAddr \notin Routable
  BY WalkAssumption
<1>2. Origin \in Space
  BY OriginType
<1>3. CASE curFile[n] = NoCursor
  BY <1>2, <1>3 DEF FirstAddress, Origin
<1>4. CASE curFile[n] \in Routable
  <2>1. curFile[n] \in 0..MaxAddr /\ curFile[n] # 0 /\ curFile[n] # MaxAddr
    BY <1>1, <1>4, RoutableType DEF Space
  <2>2. curFile[n] # NoCursor /\ FirstAddress(n) = (curFile[n] + 1) % (MaxAddr + 1)
    BY <1>1, <2>1 DEF FirstAddress, NoCursor
  <2>3. (curFile[n] + 1) % (MaxAddr + 1) = curFile[n] + 1
    BY <1>1, <2>1
  <2> QED BY <1>1, <2>1, <2>2, <2>3 DEF Space
<1> QED BY <1>3, <1>4

-----------------------------------------------------------------------------
(* Types.                                                                  *)

LEMMA InitTypeOK == Init => TypeOK
<1>1. SUFFICES ASSUME Init
               PROVE  TypeOK
  OBVIOUS
<1>2. MaxAddr \in Nat /\ MaxStarts \in Nat
  BY WalkAssumption
<1>3. IPToInt(start) \in Space
  BY <1>1, OriginType DEF Init, Origin
<1> QED BY <1>1, <1>2, <1>3 DEF Init, TypeOK

LEMMA NextTypeOK == TypeOK /\ [Next]_vars => TypeOK'
<1>0. SUFFICES ASSUME TypeOK, [Next]_vars
               PROVE  TypeOK'
  OBVIOUS
<1>1. MaxAddr \in Nat /\ MaxStarts \in Nat
  BY WalkAssumption
<1>2. CASE UNCHANGED vars
  BY <1>0, <1>2 DEF TypeOK, vars, flagVars, cursorVars
<1>3. ASSUME NEW n \in Nodes, Start(n)
      PROVE  TypeOK'
  <2>1. FirstAddress(n) \in Space
    BY <1>0, FirstAddressIs DEF TypeOK
  <2>2. starts + 1 \in 0..MaxStarts
    BY <1>0, <1>1, <1>3 DEF TypeOK, Start, Startable
  <2>3. FirstAddress(n) \in 0..(MaxAddr + 1)
    BY <1>1, <2>1 DEF Space
  <2> QED BY <1>0, <1>3, <2>1, <2>2, <2>3 DEF TypeOK, Start, flagVars
<1>4. ASSUME NEW n \in Nodes, NEW how \in {"end", "limit", "stopped"}, Close(n, how)
      PROVE  TypeOK'
  BY <1>0, <1>4 DEF TypeOK, Close, flagVars, cursorVars
<1>5. ASSUME NEW n \in Nodes, Jump(n) \/ Skip(n)
      PROVE  TypeOK'
  <2>1. v[n] \in 0..(MaxAddr + 1) /\ v[n] <= MaxAddr
    BY <1>0, <1>5 DEF TypeOK, Jump, Skip, Iterating
  <2>2. \A r \in Ranges : r.end + 1 \in 0..(MaxAddr + 1)
    BY <1>1, WalkAssumption DEF Space
  <2>3. PICK x \in 0..(MaxAddr + 1) : v' = [v EXCEPT ![n] = x]
    BY <1>1, <1>5, <2>1, <2>2 DEF Jump, Skip, JumpTarget
  <2>4. UNCHANGED <<flagVars, pc, starts, cancelled, first, seen, emitted, handed, ever, cursorVars>>
    BY <1>5 DEF Jump, Skip
  <2> QED BY <1>0, <2>3, <2>4 DEF TypeOK, flagVars, cursorVars
<1>6. ASSUME NEW n \in Nodes, Emit(n)
      PROVE  TypeOK'
  <2>1. v[n] \in Routable /\ v[n] + 1 \in 0..(MaxAddr + 1)
    <3>1. v[n] \in 0..(MaxAddr + 1) /\ v[n] <= MaxAddr /\ ~IsReserved(v[n])
      BY <1>0, <1>6 DEF TypeOK, Emit, AtTarget, Iterating
    <3>2. v[n] \in Space /\ v[n] + 1 \in 0..(MaxAddr + 1)
      BY <1>1, <3>1 DEF Space
    <3> QED BY <3>1, <3>2, RoutableType
  <2> QED BY <1>0, <1>6, <2>1 DEF TypeOK, Emit, Send, flagVars
<1>7. ASSUME NEW n \in Nodes, NEW a \in Space, Draw(n, a)
      PROVE  TypeOK'
  <2>1. a \in Routable
    BY <1>7, RoutableType DEF Draw
  <2> QED BY <1>0, <1>7, <2>1 DEF TypeOK, Draw, Send, flagVars, cursorVars
<1>8. ASSUME NEW n \in Nodes, SaveCursor(n) \/ Signal(n) \/ Crash(n)
      PROVE  TypeOK'
  BY <1>0, <1>8 DEF TypeOK, SaveCursor, Signal, Crash, flagVars, cursorVars
<1> QED
  BY <1>0, <1>2, <1>3, <1>4, <1>5, <1>6, <1>7, <1>8
     DEF Next, Generator, WalkStopped, WalkEnded, LimitReached, DrawStopped, DrawsDone, Idle

\* Every variable keeps its type: a walk stays within one step behind the space, and
\* no reserved address is handed out or named by a cursor.
THEOREM WalkTypeCorrect == Spec => []TypeOK
  BY InitTypeOK, NextTypeOK, PTL DEF Spec

-----------------------------------------------------------------------------
(* The invariant of a node.                                                *)

\* What a walk has handed out is the stream from its first address to its position,
\* and what lies before its first address was handed out before.
Walked(n) ==
    /\ handed[n] = {a \in Stream(n) : first[n] <= a /\ a < v[n]}
    /\ {a \in Stream(n) : Origin <= a /\ a < first[n]} \subseteq ever[n]
    /\ handed[n] \subseteq ever[n]
    /\ ever[n] \subseteq {a \in Stream(n) : Origin <= a}

\* Nothing up to a cursor value is missing.
Passed(n, c) ==
    c # NoCursor => /\ Origin <= c
                    /\ {a \in Stream(n) : Origin <= a /\ a <= c} \subseteq ever[n]

Counted(n) ==
    /\ emitted[n] = Cardinality(handed[n])
    /\ ~(cmd = "crawl" /\ bound = 0) => emitted[n] <= bound
    /\ pc[n] = "limit" => emitted[n] = bound
    /\ cmd = "test" => seen[n] = handed[n]

NodeInv(n) ==
    /\ cmd # "crawl" => curCh[n] = NoCursor /\ curFile[n] = NoCursor /\ first[n] = Origin
    /\ Origin <= first[n]
    /\ pc[n] # "off" => first[n] <= v[n]
    /\ pc[n] = "end" => cmd # "test" /\ v[n] > MaxAddr
    /\ cmd # "test" => Walked(n) /\ Passed(n, curCh[n]) /\ Passed(n, curFile[n])
    /\ Counted(n)

WalkInv == \A n \in Nodes : NodeInv(n)

\* The flags do not change, and with them the streams.
LEMMA StreamSame ==
    ASSUME UNCHANGED flagVars, NEW n
    PROVE  Stream(n)' = Stream(n) /\ Origin' = Origin
  BY DEF Stream, Wanted, InShardSample, Origin, IPToInt, flagVars

LEMMA StreamType ==
    ASSUME TypeOK, NEW n
    PROVE  /\ Stream(n) \subseteq Routable /\ Stream(n) \subseteq Nat
           /\ Origin \in Nat
  BY RoutableType, OriginType DEF Stream, TypeOK

\* A node whose part of the state does not change.
LEMMA NodeSame ==
    ASSUME UNCHANGED flagVars, NEW n, NodeInv(n),
           /\ pc'[n] = pc[n] /\ first'[n] = first[n] /\ v'[n] = v[n] /\ seen'[n] = seen[n]
           /\ emitted'[n] = emitted[n] /\ handed'[n] = handed[n] /\ ever'[n] = ever[n]
           /\ curCh'[n] = curCh[n] /\ curFile'[n] = curFile[n]
    PROVE  NodeInv(n)'
<1>1. Stream(n)' = Stream(n) /\ Origin' = Origin
  BY StreamSame
<1>2. cmd' = cmd /\ bound' = bound
  BY DEF flagVars
<1>3. Walked(n)' <=> Walked(n)
  BY <1>1 DEF Walked
<1>4. Passed(n, curCh[n])' <=> Passed(n, curCh[n])
  BY <1>1 DEF Passed
<1>5. Passed(n, curFile[n])' <=> Passed(n, curFile[n])
  BY <1>1 DEF Passed
<1>6. Counted(n)' <=> Counted(n)
  BY <1>2 DEF Counted
<1> QED BY <1>1, <1>2, <1>3, <1>4, <1>5, <1>6 DEF NodeInv

\* Every step is a step of one node.
NodeStep(n) == Start(n) \/ Generator(n) \/ SaveCursor(n) \/ Signal(n) \/ Crash(n)

LEMMA OtherNodes ==
    ASSUME TypeOK, NEW n \in Nodes, NodeStep(n)
    PROVE  /\ UNCHANGED flagVars
           /\ \A m \in Nodes \ {n} :
                /\ pc'[m] = pc[m] /\ first'[m] = first[m] /\ v'[m] = v[m] /\ seen'[m] = seen[m]
                /\ emitted'[m] = emitted[m] /\ handed'[m] = handed[m] /\ ever'[m] = ever[m]
                /\ curCh'[m] = curCh[m] /\ curFile'[m] = curFile[m]
<1>1. CASE Start(n)
  BY <1>1 DEF Start, TypeOK
<1>2. ASSUME NEW how, Close(n, how)
      PROVE  /\ UNCHANGED <<flagVars, first, v, seen, emitted, handed, ever, curCh, curFile>>
             /\ \A m \in Nodes \ {n} : pc'[m] = pc[m]
  BY <1>2 DEF Close, TypeOK, cursorVars
<1>3. CASE Jump(n) \/ Skip(n)
  <2>1. UNCHANGED <<flagVars, pc, first, seen, emitted, handed, ever, curCh, curFile>>
        /\ \E x : v' = [v EXCEPT ![n] = x]
    BY <1>3 DEF Jump, Skip, cursorVars
  <2> QED BY <2>1 DEF TypeOK
<1>4. CASE Emit(n)
  BY <1>4 DEF Emit, Send, TypeOK
<1>5. ASSUME NEW a, Draw(n, a)
      PROVE  /\ UNCHANGED <<flagVars, pc, first, v, curCh, curFile>>
             /\ \A m \in Nodes \ {n} : /\ seen'[m] = seen[m] /\ emitted'[m] = emitted[m]
                                       /\ handed'[m] = handed[m] /\ ever'[m] = ever[m]
  BY <1>5 DEF Draw, Send, TypeOK, cursorVars
<1>6. CASE SaveCursor(n) \/ Signal(n) \/ Crash(n)
  BY <1>6 DEF SaveCursor, Signal, Crash, TypeOK, cursorVars
<1>7. CASE \E how : Close(n, how)
  BY <1>2, <1>7
<1>8. CASE \E a : Draw(n, a)
  BY <1>5, <1>8
<1> QED
  BY <1>1, <1>3, <1>4, <1>6, <1>7, <1>8
     DEF NodeStep, Generator, WalkStopped, WalkEnded, LimitReached, DrawStopped, DrawsDone

-----------------------------------------------------------------------------
(* The steps of a node.                                                    *)

LEMMA SetsFinite ==
    ASSUME TypeOK, NEW n \in Nodes
    PROVE  /\ IsFiniteSet(handed[n]) /\ Cardinality(handed[n]) \in Nat
           /\ bound \in Nat /\ emitted[n] \in Nat
           /\ first[n] \in Nat /\ v[n] \in Nat
<1>1. IsFiniteSet(Space)
  BY WalkAssumption, FS_Interval DEF Space
<1>2. handed[n] \subseteq Space
  BY RoutableType DEF TypeOK
<1>3. IsFiniteSet(handed[n]) /\ Cardinality(handed[n]) \in Nat
  BY <1>1, <1>2, FS_Subset, FS_CardinalityType
<1>4. bound \in Nat
  BY WalkAssumption DEF TypeOK
<1>5. MaxAddr \in Nat
  BY WalkAssumption
<1>6. emitted[n] \in Nat /\ first[n] \in Space /\ v[n] \in 0..(MaxAddr + 1)
  BY DEF TypeOK
<1>7. v[n] \in Nat
  BY <1>5, <1>6
<1>8. first[n] \in Nat
  BY <1>6, RoutableType
<1> QED BY <1>3, <1>4, <1>6, <1>7, <1>8

LEMMA StartInv ==
    ASSUME TypeOK, NEW n \in Nodes, NodeInv(n), Start(n)
    PROVE  NodeInv(n)'
<1>1. /\ UNCHANGED flagVars /\ Stream(n)' = Stream(n) /\ Origin' = Origin
      /\ cmd' = cmd /\ bound' = bound
  BY StreamSame DEF Start, flagVars
<1>2. /\ pc'[n] = "walk" /\ first'[n] = FirstAddress(n) /\ v'[n] = FirstAddress(n)
      /\ seen'[n] = {} /\ emitted'[n] = 0 /\ handed'[n] = {} /\ curCh'[n] = NoCursor
      /\ ever'[n] = ever[n] /\ curFile'[n] = curFile[n]
  BY DEF Start, TypeOK
<1>3. /\ FirstAddress(n) \in Nat
      /\ FirstAddress(n) = IF curFile[n] = NoCursor THEN Origin ELSE curFile[n] + 1
      /\ curFile[n] \in Nat \cup {NoCursor}
  BY FirstAddressIs, RoutableType DEF TypeOK
<1>4. Origin \in Nat /\ Stream(n) \subseteq Nat
  BY StreamType
<1>5. cmd # "test" => /\ Passed(n, curFile[n])
                      /\ ever[n] \subseteq {a \in Stream(n) : Origin <= a}
  BY DEF NodeInv, Walked
<1>6. cmd = "test" => FirstAddress(n) = Origin
  BY <1>3 DEF NodeInv
<1>7. Origin <= FirstAddress(n)
  BY <1>3, <1>4, <1>5, <1>6 DEF Passed
<1>8. cmd # "test" =>
        {a \in Stream(n) : Origin <= a /\ a < FirstAddress(n)} \subseteq ever[n]
  BY <1>3, <1>4, <1>5 DEF Passed
<1>9. cmd # "test" => Walked(n)'
  BY <1>1, <1>2, <1>3, <1>4, <1>5, <1>8 DEF Walked
<1>10. cmd # "test" => Passed(n, curCh[n])' /\ Passed(n, curFile[n])'
  BY <1>1, <1>2, <1>5 DEF Passed
<1>11. Counted(n)'
  BY <1>1, <1>2, SetsFinite, FS_EmptySet DEF Counted
<1>12. cmd # "crawl" => curFile[n] = NoCursor /\ FirstAddress(n) = Origin
  BY <1>3 DEF NodeInv
<1> QED BY <1>1, <1>2, <1>3, <1>7, <1>9, <1>10, <1>11, <1>12 DEF NodeInv

\* A step that closes the channel, stops the process or marks its context.
LEMMA CloseInv ==
    ASSUME TypeOK, NEW n \in Nodes, NodeInv(n), pc[n] = "walk",
           NEW how, pc'[n] = how,
           how = "end" => cmd # "test" /\ v[n] > MaxAddr,
           how = "limit" => emitted[n] = bound,
           UNCHANGED <<flagVars, first, v, seen, emitted, handed, ever, curFile>>,
           curCh'[n] \in {curCh[n], NoCursor}
    PROVE  NodeInv(n)'
<1>1. /\ Stream(n)' = Stream(n) /\ Origin' = Origin /\ cmd' = cmd /\ bound' = bound
  BY StreamSame DEF flagVars
<1>2. cmd # "test" => Walked(n)'
  BY <1>1 DEF Walked, NodeInv
<1>3. cmd # "test" => Passed(n, curCh[n])' /\ Passed(n, curFile[n])'
  BY <1>1 DEF Passed, NodeInv
<1>4. Counted(n)'
  BY <1>1 DEF Counted, NodeInv
<1> QED BY <1>1, <1>2, <1>3, <1>4 DEF NodeInv

\* A walk moves over addresses that are not its own.
LEMMA MoveInv ==
    ASSUME TypeOK, NEW n \in Nodes, NodeInv(n), pc[n] = "walk", cmd # "test",
           NEW x \in Nat, v'[n] = x, v[n] <= x,
           \A a \in Stream(n) : ~(v[n] <= a /\ a < x),
           UNCHANGED <<flagVars, pc, first, seen, emitted, handed, ever, curCh, curFile>>
    PROVE  NodeInv(n)'
<1>1. /\ Stream(n)' = Stream(n) /\ Origin' = Origin /\ cmd' = cmd /\ bound' = bound
  BY StreamSame DEF flagVars
<1>2. Stream(n) \subseteq Nat /\ v[n] \in Nat /\ first[n] \in Nat
  BY StreamType, SetsFinite
<1>3. {a \in Stream(n) : first[n] <= a /\ a < v[n]} = {a \in Stream(n) : first[n] <= a /\ a < x}
  BY <1>2
<1>4. Walked(n)'
  BY <1>1, <1>3 DEF Walked, NodeInv
<1>5. Passed(n, curCh[n])' /\ Passed(n, curFile[n])'
  BY <1>1 DEF Passed, NodeInv
<1>6. Counted(n)'
  BY <1>1 DEF Counted, NodeInv
<1>7. first[n] <= x
  BY <1>2 DEF NodeInv
<1> QED BY <1>1, <1>4, <1>5, <1>6, <1>7 DEF NodeInv

LEMMA JumpInv ==
    ASSUME TypeOK, NEW n \in Nodes, NodeInv(n), Jump(n)
    PROVE  NodeInv(n)'
<1>1. PICK r \in Ranges : Covers(r, v[n]) /\ v' = [v EXCEPT ![n] = r.end + 1]
  BY DEF Jump, JumpTarget
<1>2. r.start \in Nat /\ r.end \in Nat /\ v[n] \in Nat
  BY WalkAssumption, RoutableType, SetsFinite
<1>3. v'[n] = r.end + 1 /\ v[n] <= r.end + 1 /\ r.start <= v[n]
  BY <1>1, <1>2 DEF Covers, TypeOK
<1>4. ASSUME NEW a \in Stream(n), v[n] <= a, a < r.end + 1
      PROVE  FALSE
  <2>1. a \in Space /\ a \in Nat /\ a \in Routable
    BY <1>4, StreamType, RoutableType
  <2>2. Covers(r, a)
    BY <1>2, <1>3, <1>4, <2>1 DEF Covers
  <2> QED BY <1>1, <2>1, <2>2, RoutableType DEF IsReserved
<1>5. /\ UNCHANGED <<flagVars, pc, first, seen, emitted, handed, ever, curCh, curFile>>
      /\ pc[n] = "walk" /\ cmd # "test"
  BY DEF Jump, Iterating, Walking, cursorVars
<1>6. r.end + 1 \in Nat
  BY <1>2
<1> QED BY <1>3, <1>4, <1>5, <1>6, MoveInv

LEMMA SkipInv ==
    ASSUME TypeOK, NEW n \in Nodes, NodeInv(n), Skip(n)
    PROVE  NodeInv(n)'
<1>1. v[n] \in Nat /\ v'[n] = v[n] + 1
  BY SetsFinite DEF Skip, TypeOK
<1>2. v[n] \notin Stream(n)
  BY DEF Skip, Stream
<1>3. /\ UNCHANGED <<flagVars, pc, first, seen, emitted, handed, ever, curCh, curFile>>
      /\ pc[n] = "walk" /\ cmd # "test"
  BY DEF Skip, Iterating, Walking, cursorVars
<1>4. v[n] + 1 \in Nat /\ v[n] <= v[n] + 1
  BY <1>1
<1>5. \A a \in Stream(n) : ~(v[n] <= a /\ a < v[n] + 1)
  BY <1>1, <1>2, StreamType
<1> QED BY <1>1, <1>3, <1>4, <1>5, MoveInv

LEMMA EmitInv ==
    ASSUME TypeOK, NEW n \in Nodes, NodeInv(n), Emit(n)
    PROVE  NodeInv(n)'
<1> DEFINE x == v[n]
<1>1. /\ Stream(n)' = Stream(n) /\ Origin' = Origin
      /\ cmd' = cmd /\ bound' = bound /\ pc' = pc /\ first' = first /\ seen' = seen
      /\ curFile' = curFile /\ pc[n] = "walk" /\ cmd # "test"
  BY StreamSame DEF Emit, AtTarget, Iterating, Walking, flagVars
<1>2. /\ v'[n] = x + 1 /\ emitted'[n] = emitted[n] + 1
      /\ handed'[n] = handed[n] \cup {x} /\ ever'[n] = ever[n] \cup {x}
  BY DEF Emit, Send, TypeOK
<1>3. /\ x \in Nat /\ first[n] \in Nat /\ bound \in Nat /\ emitted[n] \in Nat
      /\ IsFiniteSet(handed[n]) /\ Origin \in Nat /\ Stream(n) \subseteq Nat
  BY SetsFinite, StreamType
<1>4. x \in Stream(n)
  <2>1. x \in Space /\ ~IsReserved(x) /\ Wanted(x, n)
    BY <1>3, WalkAssumption DEF Emit, AtTarget, Iterating, Space
  <2> QED BY <2>1, RoutableType DEF Stream
<1>5. Walked(n) /\ first[n] <= x /\ Origin <= first[n]
  BY <1>1 DEF NodeInv
<1>6. Walked(n)'
  <2>1. handed[n] \cup {x} = {a \in Stream(n) : first[n] <= a /\ a < x + 1}
    BY <1>3, <1>4, <1>5 DEF Walked
  <2>2. {a \in Stream(n) : Origin <= a /\ a < first[n]} \subseteq ever[n] \cup {x}
    BY <1>5 DEF Walked
  <2>3. handed[n] \cup {x} \subseteq ever[n] \cup {x}
    BY <1>5 DEF Walked
  <2>4. ever[n] \cup {x} \subseteq {a \in Stream(n) : Origin <= a}
    BY <1>3, <1>4, <1>5 DEF Walked
  <2> QED BY <1>1, <1>2, <2>1, <2>2, <2>3, <2>4 DEF Walked
<1>7. Passed(n, curFile[n])'
  BY <1>1, <1>2 DEF Passed, NodeInv
<1>8. Passed(n, curCh[n])'
  <2>1. CASE curCh'[n] = curCh[n]
    BY <1>1, <1>2, <2>1 DEF Passed, NodeInv
  <2>2. CASE curCh'[n] = x
    <3>1. {a \in Stream(n) : Origin <= a /\ a <= x} \subseteq ever[n] \cup {x}
      BY <1>3, <1>5 DEF Walked
    <3>2. Origin <= x
      BY <1>3, <1>5
    <3> QED BY <1>1, <1>2, <2>2, <3>1, <3>2 DEF Passed
  <2> QED BY <2>1, <2>2 DEF Emit, TypeOK
<1>9. Counted(n)'
  <2>1. x \notin handed[n]
    BY <1>3, <1>5 DEF Walked
  <2>2. Cardinality(handed[n] \cup {x}) = Cardinality(handed[n]) + 1
    BY <1>3, <2>1, FS_AddElement
  <2>3. ~(cmd = "crawl" /\ bound = 0) => emitted[n] + 1 <= bound
    BY <1>3 DEF Emit, AtTarget, Iterating, MoreWanted
  <2>4. emitted[n] = Cardinality(handed[n])
    BY DEF NodeInv, Counted
  <2> QED BY <1>1, <1>2, <2>2, <2>3, <2>4 DEF Counted
<1>10. cmd # "crawl" => curCh'[n] = NoCursor
  BY DEF Emit, NodeInv
<1>11. first[n] <= x + 1
  BY <1>3, <1>5
<1> QED BY <1>1, <1>2, <1>5, <1>6, <1>7, <1>8, <1>9, <1>10, <1>11 DEF NodeInv

LEMMA DrawInv ==
    ASSUME TypeOK, NEW n \in Nodes, NodeInv(n), NEW x, Draw(n, x)
    PROVE  NodeInv(n)'
<1>1. /\ Origin' = Origin /\ cmd' = cmd /\ bound' = bound /\ pc' = pc
      /\ first' = first /\ v' = v /\ curCh' = curCh /\ curFile' = curFile
      /\ pc[n] = "walk" /\ cmd = "test"
  BY StreamSame DEF Draw, Drawing, flagVars, cursorVars
<1>2. /\ seen'[n] = seen[n] \cup {x} /\ emitted'[n] = emitted[n] + 1
      /\ handed'[n] = handed[n] \cup {x}
  BY DEF Draw, Send, TypeOK
<1>3. IsFiniteSet(handed[n]) /\ Cardinality(handed[n]) \in Nat /\ bound \in Nat
  BY SetsFinite
<1>4. seen[n] = handed[n] /\ emitted[n] = Cardinality(handed[n])
  BY <1>1 DEF NodeInv, Counted
<1>5. x \notin handed[n] /\ Cardinality(handed[n]) < bound
  BY <1>4 DEF Draw, Drawing
<1>6. Cardinality(handed[n] \cup {x}) = Cardinality(handed[n]) + 1
  BY <1>3, <1>5, FS_AddElement
<1>7. emitted[n] + 1 <= bound
  BY <1>3, <1>4, <1>5
<1>8. Counted(n)'
  BY <1>1, <1>2, <1>4, <1>6, <1>7 DEF Counted
<1> QED BY <1>1, <1>8 DEF NodeInv

LEMMA SaveInv ==
    ASSUME TypeOK, NEW n \in Nodes, NodeInv(n), SaveCursor(n)
    PROVE  NodeInv(n)'
<1>1. /\ Stream(n)' = Stream(n) /\ Origin' = Origin
      /\ cmd' = cmd /\ bound' = bound
      /\ UNCHANGED <<pc, first, v, seen, emitted, handed, ever>>
  BY StreamSame DEF SaveCursor, flagVars
<1>2. curFile'[n] = curCh[n] /\ curCh'[n] = NoCursor /\ curCh[n] # NoCursor
  BY DEF SaveCursor, TypeOK
<1>3. cmd # "test" => Walked(n)' /\ Passed(n, curCh[n])' /\ Passed(n, curFile[n])'
  BY <1>1, <1>2 DEF Walked, Passed, NodeInv
<1>4. Counted(n)'
  BY <1>1 DEF Counted, NodeInv
<1> QED BY <1>1, <1>2, <1>3, <1>4 DEF NodeInv

LEMMA NodeStepInv ==
    ASSUME TypeOK, NEW n \in Nodes, NodeInv(n), NodeStep(n)
    PROVE  NodeInv(n)'
<1>1. CASE WalkStopped(n) \/ WalkEnded(n)
  <2>1. PICK how \in {"stopped", "end"} :
            Close(n, how) /\ (how = "end" => v[n] > MaxAddr) /\ Walking(n)
    BY <1>1 DEF WalkStopped, WalkEnded, AtTarget, Iterating
  <2>2. UNCHANGED <<flagVars, first, v, seen, emitted, handed, ever, curCh, curFile>>
        /\ pc'[n] = how /\ pc[n] = "walk" /\ cmd # "test"
    BY <2>1 DEF Close, Walking, TypeOK, cursorVars
  <2> QED BY <2>1, <2>2, CloseInv
<1>2. CASE LimitReached(n) \/ DrawsDone(n)
  <2>1. /\ UNCHANGED <<flagVars, first, v, seen, emitted, handed, ever, curCh, curFile>>
        /\ pc'[n] = "limit" /\ pc[n] = "walk"
    BY <1>2 DEF LimitReached, DrawsDone, Close, Walking, TypeOK, cursorVars
  <2>2. bound \in Nat /\ emitted[n] \in Nat /\ Cardinality(handed[n]) \in Nat
    BY SetsFinite
  <2>3. emitted[n] = bound
    BY <1>2, <2>2
       DEF LimitReached, DrawsDone, Drawing, MoreWanted, NodeInv, Counted
  <2> QED BY <2>1, <2>3, CloseInv
<1>3. CASE \E a \in Space : DrawStopped(n, a)
  <2>1. /\ UNCHANGED <<flagVars, first, v, seen, emitted, handed, ever, curCh, curFile>>
        /\ pc'[n] = "stopped" /\ pc[n] = "walk"
    BY <1>3 DEF DrawStopped, Drawing, Close, TypeOK, cursorVars
  <2> QED BY <2>1, CloseInv
<1>4. CASE Signal(n)
  <2>1. /\ UNCHANGED <<flagVars, first, v, seen, emitted, handed, ever, curCh, curFile>>
        /\ pc'[n] = "walk" /\ pc[n] = "walk"
    BY <1>4 DEF Signal, cursorVars
  <2> QED BY <2>1, CloseInv
<1>5. CASE Crash(n)
  <2>1. /\ UNCHANGED <<flagVars, first, v, seen, emitted, handed, ever, curFile>>
        /\ pc'[n] = "off" /\ pc[n] = "walk" /\ curCh'[n] = NoCursor
    BY <1>5 DEF Crash, TypeOK
  <2> QED BY <2>1, CloseInv
<1> QED
  BY <1>1, <1>2, <1>3, <1>4, <1>5, StartInv, JumpInv, SkipInv, EmitInv, DrawInv, SaveInv
     DEF NodeStep, Generator

LEMMA InitWalkInv == Init => WalkInv
<1> SUFFICES ASSUME Init, NEW n \in Nodes
             PROVE  NodeInv(n)
  BY DEF WalkInv
<1>1. TypeOK
  BY InitTypeOK
<1>2. /\ pc[n] = "off" /\ first[n] = Origin /\ v[n] = 0 /\ seen[n] = {} /\ emitted[n] = 0
      /\ handed[n] = {} /\ ever[n] = {} /\ curCh[n] = NoCursor /\ curFile[n] = NoCursor
  BY DEF Init, Origin
<1>3. Origin \in Nat /\ Stream(n) \subseteq Nat /\ bound \in Nat
  BY <1>1, StreamType, SetsFinite
<1>4. Walked(n)
  BY <1>2, <1>3 DEF Walked
<1>5. Counted(n)
  BY <1>2, <1>3, FS_EmptySet DEF Counted
<1>6. Passed(n, curCh[n]) /\ Passed(n, curFile[n])
  BY <1>2 DEF Passed
<1> QED BY <1>2, <1>3, <1>4, <1>5, <1>6 DEF NodeInv

LEMMA NextIsNodeStep ==
    ASSUME Next
    PROVE  (\E n \in Nodes : NodeStep(n)) \/ UNCHANGED vars
  BY DEF Next, NodeStep, Idle

LEMMA NextWalkInv == TypeOK /\ WalkInv /\ [Next]_vars => WalkInv'
<1> SUFFICES ASSUME TypeOK, WalkInv, [Next]_vars, NEW m \in Nodes
             PROVE  NodeInv(m)'
  BY DEF WalkInv
<1>1. NodeInv(m)
  BY DEF WalkInv
<1>2. CASE UNCHANGED vars
  BY <1>1, <1>2, NodeSame DEF vars, cursorVars
<1>3. CASE \E n \in Nodes : NodeStep(n)
  <2>1. PICK n \in Nodes : NodeStep(n)
    BY <1>3
  <2>2. CASE m = n
    BY <1>1, <2>1, <2>2, NodeStepInv
  <2>3. CASE m # n
    BY <1>1, <2>1, <2>3, OtherNodes, NodeSame
  <2> QED BY <2>2, <2>3
<1> QED BY <1>2, <1>3, NextIsNodeStep

LEMMA WalkInvariance == Spec => [](TypeOK /\ WalkInv)
<1>1. Init => TypeOK /\ WalkInv
  BY InitTypeOK, InitWalkInv
<1>2. TypeOK /\ WalkInv /\ [Next]_vars => (TypeOK /\ WalkInv)'
  BY NextTypeOK, NextWalkInv
<1> QED BY <1>1, <1>2, PTL DEF Spec

-----------------------------------------------------------------------------
(* Counts.                                                                 *)

\* A run never hands out an address twice or more than its bound, one that stops at
\* the bound has handed out exactly that many, and a sweep that reaches the end of
\* the space has handed out every routable address behind its start
\* (GenerateRandom, GenerateSequential, Limit).
THEOREM CountExactHolds == Spec => []CountExact
<1>1. TypeOK /\ WalkInv => CountExact
  <2> SUFFICES ASSUME TypeOK, WalkInv, NEW n \in Nodes
               PROVE  /\ emitted[n] = Cardinality(handed[n])
                      /\ ~(cmd = "crawl" /\ bound = 0) => emitted[n] <= bound
                      /\ pc[n] = "limit" => emitted[n] = bound
                      /\ pc[n] = "end" /\ cmd = "sweep" =>
                            handed[n] = {a \in Routable : a >= IPToInt(start)}
    BY DEF CountExact
  <2>1. NodeInv(n)
    BY DEF WalkInv
  <2>2. ASSUME pc[n] = "end", cmd = "sweep"
        PROVE  handed[n] = {a \in Routable : a >= IPToInt(start)}
    <3>1. Stream(n) = Routable
      BY <2>2 DEF Stream, Wanted
    <3>2. handed[n] = {a \in Routable : Origin <= a /\ a < v[n]}
      BY <2>1, <2>2, <3>1 DEF NodeInv, Walked
    <3>3. v[n] > MaxAddr /\ v[n] \in Nat /\ MaxAddr \in Nat /\ Origin \in Nat
      BY <2>1, <2>2, SetsFinite, StreamType, WalkAssumption DEF NodeInv
    <3>4. \A a \in Routable : a \in Nat /\ a <= MaxAddr
      BY <3>3, RoutableType DEF Space
    <3> QED BY <3>2, <3>3, <3>4 DEF Origin
  <2> QED BY <2>1, <2>2 DEF NodeInv, Counted
<1> QED BY <1>1, WalkInvariance, PTL

-----------------------------------------------------------------------------
(* The sample of a fleet.                                                  *)

LEMMA HundredthOf ==
    ASSUME NEW x \in Nat, NEW l \in Nat
    PROVE  l < x \div 100 <=> (l + 1) * 100 <= x
  OBVIOUS

LEMMA ProductBelow ==
    ASSUME NEW p \in 1..99, NEW h \in Nat \ {0}
    PROVE  p * h \in Nat /\ p * h < 100 * h
  OBVIOUS

\* The threshold selects what the flag describes: a percentage that rounds to nothing
\* selects the lowest value, and the upper bound is never needed.
LEMMA ThresholdIs ==
    ASSUME NEW p \in 1..99, NEW l \in Nat
    PROVE  /\ SampleThresholdForPercent(p) # 0
           /\ l < SampleThresholdForPercent(p) <=> (l = 0 \/ (l + 1) * 100 <= p * HashSize)
<1>1. HashSize \in Nat \ {0}
  BY WalkAssumption
<1> DEFINE x == p * HashSize
<1>2. x \in Nat /\ x < 100 * HashSize
  BY <1>1, ProductBelow
<1> HIDE DEF x
<1>3. x \div 100 \in Nat /\ ~(x \div 100 > HashSize - 1)
  BY <1>1, <1>2
<1>4. SampleThresholdForPercent(p) = IF x \div 100 = 0 THEN 1 ELSE x \div 100
  BY <1>3 DEF SampleThresholdForPercent, x
<1>5. l < x \div 100 <=> (l + 1) * 100 <= x
  BY <1>2, HundredthOf
<1>6. /\ SampleThresholdForPercent(p) # 0
      /\ l < SampleThresholdForPercent(p) <=> (l = 0 \/ (l + 1) * 100 <= x)
  <2> HIDE DEF SampleThresholdForPercent
  <2> QED BY <1>3, <1>4, <1>5
<1> QED BY <1>6 DEF x

\* The shards divide the sample: every address of it has one node.
LEMMA ShardsDivideSample ==
    ASSUME TypeOK, cmd = "crawl", NEW a \in Routable
    PROVE  /\ \A m, n \in Nodes : a \in Stream(m) /\ a \in Stream(n) => m = n
           /\ a \in Sample <=> \E n \in Nodes : a \in Stream(n)
<1> DEFINE t == SampleThresholdForPercent(percent)
<1>1. /\ Shards \in Nat \ {0} /\ a \in Nat
      /\ Low[a] \in Nat /\ High[a] \in Nat /\ percent \in Int
  <2>1. a \in Space /\ a \in Nat
    BY RoutableType
  <2>2. HashSize \in Nat \ {0} /\ Shards \in Nat \ {0} /\ percent \in Int
    BY WalkAssumption DEF TypeOK
  <2>3. Low[a] \in 0..(HashSize - 1) /\ High[a] \in 0..(HashSize - 1)
    BY <2>1, WalkAssumption
  <2> QED BY <2>1, <2>2, <2>3
<1>2. \A n : a \in Stream(n) <=>
               IF t # 0 THEN Low[a] < t /\ High[a] % Shards = n ELSE a % Shards = n
  BY DEF Stream, Wanted, InShardSample
<1>3. High[a] % Shards \in Nodes /\ a % Shards \in Nodes
  BY <1>1 DEF Nodes
<1>4. \A m, n \in Nodes : a \in Stream(m) /\ a \in Stream(n) => m = n
  BY <1>2
<1>5. CASE percent <= 0 \/ percent >= 100
  <2>1. t = 0 /\ a \in Sample
    BY <1>5 DEF SampleThresholdForPercent, Sample
  <2>2. \E n \in Nodes : a \in Stream(n)
    BY <1>2, <1>3, <2>1
  <2> QED BY <1>4, <2>1, <2>2
<1>6. CASE percent \in 1..99
  <2>1. t # 0 /\ (Low[a] < t <=> (Low[a] = 0 \/ (Low[a] + 1) * 100 <= percent * HashSize))
    BY <1>1, <1>6, ThresholdIs
  <2>2. a \in Sample <=> (Low[a] = 0 \/ (Low[a] + 1) * 100 <= percent * HashSize)
    BY <1>6 DEF Sample
  <2>3. (\E n \in Nodes : a \in Stream(n)) <=> Low[a] < t
    BY <1>2, <1>3, <2>1
  <2> QED BY <1>4, <2>1, <2>2, <2>3
<1> QED BY <1>1, <1>5, <1>6

\* A node that has reached the end of the space has asked for all of its stream.
LEMMA EndIsComplete ==
    ASSUME TypeOK, NEW n \in Nodes, NodeInv(n), pc[n] = "end"
    PROVE  ever[n] = {a \in Stream(n) : Origin <= a}
<1>1. v[n] > MaxAddr /\ Walked(n)
  BY DEF NodeInv
<1>2. v[n] \in Nat /\ first[n] \in Nat /\ MaxAddr \in Nat /\ Origin \in Nat
  BY SetsFinite, StreamType, WalkAssumption
<1>3. \A a \in Stream(n) : a \in Nat /\ a <= MaxAddr
  BY <1>2, RoutableType, StreamType DEF Space
<1>4. \A a \in Stream(n) : Origin <= a => a \in ever[n]
  BY <1>1, <1>2, <1>3 DEF Walked
<1> QED BY <1>1, <1>4 DEF Walked

\* Different nodes of a fleet never ask for the same address, and once every node has
\* walked to the end of the space, over however many stops, crashes and resumed starts,
\* together they have asked for exactly the sample from the start address on
\* (inShardSample, GenerateShardedFull, readCursor).
THEOREM FleetCoversSampleHolds == Spec => []FleetCoversSample
<1>1. TypeOK /\ WalkInv => FleetCoversSample
  <2> SUFFICES ASSUME TypeOK, WalkInv, cmd = "crawl"
               PROVE  /\ \A m, n \in Nodes : m # n => ever[m] \cap ever[n] = {}
                      /\ (\A n \in Nodes : pc[n] = "end") =>
                            UNION {ever[n] : n \in Nodes} = {a \in Sample : a >= IPToInt(start)}
    BY DEF FleetCoversSample
  <2>1. \A n \in Nodes : NodeInv(n) /\ Walked(n) /\ Stream(n) \subseteq Routable
    BY StreamType DEF WalkInv, NodeInv
  <2>2. ASSUME NEW m \in Nodes, NEW n \in Nodes, m # n
        PROVE  ever[m] \cap ever[n] = {}
    <3>1. ever[m] \subseteq Stream(m) /\ ever[n] \subseteq Stream(n)
      BY <2>1 DEF Walked
    <3> QED BY <2>1, <2>2, <3>1, ShardsDivideSample
  <2>3. ASSUME \A n \in Nodes : pc[n] = "end"
        PROVE  UNION {ever[n] : n \in Nodes} = {a \in Sample : a >= IPToInt(start)}
    <3>1. \A n \in Nodes : ever[n] = {a \in Stream(n) : Origin <= a}
      BY <2>1, <2>3, EndIsComplete
    <3>2. Sample \subseteq Routable /\ Routable \subseteq Nat /\ Origin \in Nat
      BY RoutableType, StreamType DEF Sample
    <3>3. \A a \in Routable : a \in Sample <=> \E n \in Nodes : a \in Stream(n)
      BY ShardsDivideSample
    <3>4. ASSUME NEW a
          PROVE  a \in UNION {ever[n] : n \in Nodes} <=> a \in Sample /\ Origin <= a
      BY <2>1, <3>1, <3>2, <3>3
    <3>5. UNION {ever[n] : n \in Nodes} = {a \in Sample : Origin <= a}
      BY <3>4
    <3>6. {a \in Sample : Origin <= a} = {a \in Sample : a >= IPToInt(start)}
      BY <3>2 DEF Origin
    <3> QED BY <3>5, <3>6
  <2> QED BY <2>2, <2>3
<1> QED BY <1>1, WalkInvariance, PTL

-----------------------------------------------------------------------------
(* Every walk is a target stream.                                          *)

\* A node whose channel, first address and history do not change.
LEMMA StreamStutters ==
    ASSUME UNCHANGED flagVars, NEW n, pc'[n] = pc[n], first'[n] = first[n],
           handed'[n] = handed[n], ever'[n] = ever[n]
    PROVE  UNCHANGED StreamOf(n)!streamVars
<1>1. Stream(n)' = Stream(n) /\ Origin' = Origin
  BY StreamSame
<1> QED BY <1>1 DEF StreamOf!streamVars, Stream, Origin

LEMMA StartBegins ==
    ASSUME TypeOK, NEW n \in Nodes, NodeInv(n), cmd # "test", Start(n)
    PROVE  StreamOf(n)!Begin
<1>1. Stream(n)' = Stream(n) /\ Origin' = Origin
  BY StreamSame DEF Start
<1>2. /\ pc[n] # "walk" /\ pc'[n] = "walk" /\ handed'[n] = {} /\ ever'[n] = ever[n]
      /\ first'[n] = FirstAddress(n)
  BY DEF Start, Startable, TypeOK
<1>3. /\ FirstAddress(n) \in Nat
      /\ FirstAddress(n) = IF curFile[n] = NoCursor THEN Origin ELSE curFile[n] + 1
      /\ curFile[n] \in Nat \cup {NoCursor}
  BY FirstAddressIs, RoutableType DEF TypeOK
<1>4. Origin \in Nat /\ Stream(n) \subseteq Nat /\ Passed(n, curFile[n])
  BY StreamType DEF NodeInv
<1>5. {a \in Stream(n) : Origin <= a /\ a < first'[n]} \subseteq ever[n]
  BY <1>2, <1>3, <1>4 DEF Passed
<1> QED BY <1>1, <1>2, <1>3, <1>5 DEF StreamOf!Begin, Stream, Origin

LEMMA EmitHands ==
    ASSUME TypeOK, NEW n \in Nodes, NodeInv(n), cmd # "test", Emit(n)
    PROVE  StreamOf(n)!Hand
<1> DEFINE rest == {a \in Stream(n) : a >= first[n]} \ handed[n]
<1>1. Stream(n)' = Stream(n) /\ Origin' = Origin
  BY StreamSame DEF Emit
<1>2. /\ pc[n] = "walk" /\ pc' = pc /\ first' = first
      /\ handed'[n] = handed[n] \cup {v[n]} /\ ever'[n] = ever[n] \cup {v[n]}
  BY DEF Emit, AtTarget, Iterating, Walking, Send, TypeOK
<1>3. v[n] \in Nat /\ first[n] \in Nat /\ Stream(n) \subseteq Nat
  BY SetsFinite, StreamType
<1>4. v[n] \in Stream(n)
  <2>1. v[n] \in Space /\ ~IsReserved(v[n]) /\ Wanted(v[n], n)
    BY <1>3, WalkAssumption DEF Emit, AtTarget, Iterating, Space
  <2> QED BY <2>1, RoutableType DEF Stream
<1>5. first[n] <= v[n] /\ handed[n] = {a \in Stream(n) : first[n] <= a /\ a < v[n]}
  BY <1>2 DEF NodeInv, Walked
<1>6. v[n] \in rest /\ \A y \in rest : v[n] <= y
  BY <1>3, <1>4, <1>5
<1>7. StreamOf(n)!Rest = rest
  BY DEF StreamOf!Rest, Stream
<1> QED BY <1>1, <1>2, <1>6, <1>7 DEF StreamOf!Hand, Stream, Origin

LEMMA CloseCeases ==
    ASSUME TypeOK, NEW n \in Nodes, NodeInv(n), cmd # "test", pc[n] = "walk",
           pc'[n] # "walk", pc'[n] = "end" => v[n] > MaxAddr,
           UNCHANGED <<flagVars, first, handed, ever>>
    PROVE  StreamOf(n)!Cease
<1>1. Stream(n)' = Stream(n) /\ Origin' = Origin
  BY StreamSame
<1>2. Walked(n) /\ StreamOf(n)!Rest = {a \in Stream(n) : a >= first[n]} \ handed[n]
  BY DEF NodeInv, StreamOf!Rest, Stream
<1>3. MaxAddr \in Nat /\ v[n] \in Nat /\ first[n] \in Nat
  BY WalkAssumption, SetsFinite
<1>4. \A a \in Stream(n) : a \in Nat /\ a <= MaxAddr
  BY <1>3, RoutableType, StreamType DEF Space
<1>5. pc'[n] = "end" => StreamOf(n)!Rest = {}
  BY <1>2, <1>3, <1>4 DEF Walked
<1> QED BY <1>1, <1>5 DEF StreamOf!Cease, Stream, Origin

LEMMA NodeStepStreams ==
    ASSUME TypeOK, NEW n \in Nodes, NodeInv(n), cmd # "test", NodeStep(n)
    PROVE  [StreamOf(n)!StreamNext]_(StreamOf(n)!streamVars)
<1>1. CASE Start(n)
  BY <1>1, StartBegins DEF StreamOf!StreamNext
<1>2. CASE Emit(n)
  BY <1>2, EmitHands DEF StreamOf!StreamNext
<1>3. CASE WalkStopped(n) \/ WalkEnded(n) \/ LimitReached(n) \/ Crash(n)
  <2>1. /\ UNCHANGED <<flagVars, first, handed, ever>> /\ pc[n] = "walk"
        /\ pc'[n] # "walk" /\ (pc'[n] = "end" => v[n] > MaxAddr)
    BY <1>3 DEF WalkStopped, WalkEnded, LimitReached, Crash, Close, AtTarget, Iterating,
                Walking, TypeOK
  <2> QED BY <2>1, CloseCeases DEF StreamOf!StreamNext
<1>4. CASE Jump(n) \/ Skip(n) \/ SaveCursor(n) \/ Signal(n)
  <2>1. UNCHANGED <<flagVars, pc, first, handed, ever>>
    BY <1>4 DEF Jump, Skip, SaveCursor, Signal
  <2> QED BY <2>1, StreamStutters
<1> QED
  BY <1>1, <1>2, <1>3, <1>4
     DEF NodeStep, Generator, Draw, DrawStopped, DrawsDone, Drawing

\* Every walk hands out its targets in ascending order with none left out, and a
\* resumed walk begins behind nothing that no run has handed out: each node's walk
\* implements TargetStream (GenerateShardedFull, GenerateSequential, runCrawl).
THEOREM WalksInOrderHolds == Spec => WalksInOrder
<1> DEFINE Streams == cmd # "test" => \A n \in Nodes :
               [StreamOf(n)!StreamNext]_(StreamOf(n)!streamVars)
<1>1. Init => \A n \in Nodes : StreamOf(n)!StreamInit
  BY DEF Init, StreamOf!StreamInit
<1>2. TypeOK /\ WalkInv /\ [Next]_vars => [Streams]_vars
  <2> SUFFICES ASSUME TypeOK, WalkInv, Next, cmd # "test", NEW m \in Nodes
               PROVE  [StreamOf(m)!StreamNext]_(StreamOf(m)!streamVars)
    OBVIOUS
  <2>1. CASE UNCHANGED vars
    BY <2>1, StreamStutters DEF vars
  <2>2. CASE \E n \in Nodes : NodeStep(n)
    <3>1. PICK n \in Nodes : NodeStep(n)
      BY <2>2
    <3>2. CASE m = n
      BY <3>1, <3>2, NodeStepStreams DEF WalkInv
    <3>3. CASE m # n
      BY <3>1, <3>3, OtherNodes, StreamStutters
    <3> QED BY <3>2, <3>3
  <2> QED BY <2>1, <2>2, NextIsNodeStep
<1>3. [][Next]_vars /\ [](TypeOK /\ WalkInv) => [][Streams]_vars
  BY <1>2, PTL
<1> QED BY <1>1, <1>3, WalkInvariance, PTL DEF Spec, WalksInOrder
=============================================================================
