--------------------------- MODULE CrawlNodeProofs ---------------------------
(***************************************************************************)
(* Theorems about CrawlNode, for every number of targets and workers, all  *)
(* capacities, both modes and all events.                                  *)
(***************************************************************************)
EXTENDS CrawlNode, TLAPS

-----------------------------------------------------------------------------
(* Sequences.                                                              *)

\* A prefix and the suffix behind it stay within the elements' set.
LEMMA SplitType ==
    ASSUME NEW S, NEW q \in Seq(S), NEW k \in 0..Len(q)
    PROVE  SubSeq(q, 1, k) \in Seq(S) /\ SubSeq(q, k + 1, Len(q)) \in Seq(S)
  OBVIOUS

LEMMA ConcatType ==
    ASSUME NEW S, NEW a \in Seq(S), NEW b \in Seq(S)
    PROVE  a \o b \in Seq(S)
  OBVIOUS

LEMMA EmptyType ==
    ASSUME NEW S
    PROVE  <<>> \in Seq(S) /\ Len(<<>>) = 0
  OBVIOUS

LEMMA HeadTailType ==
    ASSUME NEW S, NEW q \in Seq(S), q # <<>>
    PROVE  Head(q) \in S /\ Tail(q) \in Seq(S) /\ Len(Tail(q)) = Len(q) - 1
  OBVIOUS

LEMMA AppendType ==
    ASSUME NEW S, NEW q \in Seq(S), NEW e \in S
    PROVE  Append(q, e) \in Seq(S) /\ Len(Append(q, e)) = Len(q) + 1
  OBVIOUS

-----------------------------------------------------------------------------
(* The store's operations keep its type.                                   *)

LEMMA SpillType ==
    ASSUME NEW R, disk \in Seq(SUBSET R), NEW q \in Seq(SUBSET R), cut \in BOOLEAN,
           Spill(q)
    PROVE  disk' \in Seq(SUBSET R) /\ pend' \in Seq(SUBSET R) /\ cut' \in BOOLEAN
  BY SplitType, ConcatType DEF Spill

LEMMA FlushType ==
    ASSUME NEW R, StoreTypeOK(R), NEW block \in SUBSET R, flushBlock(block)
    PROVE  /\ disk' \in Seq(SUBSET R) /\ pend' \in Seq(SUBSET R)
           /\ cut' \in BOOLEAN /\ buf' \in SUBSET R
  BY SpillType, AppendType DEF flushBlock, StoreTypeOK

LEMMA AddType ==
    ASSUME NEW R, StoreTypeOK(R), NEW rec \in R, Add(rec)
    PROVE  StoreTypeOK(R)'
  BY FlushType DEF Add, StoreTypeOK

LEMMA CloseType ==
    ASSUME NEW R, StoreTypeOK(R), CloseBlock \/ CloseFlush \/ CloseHeader
    PROVE  StoreTypeOK(R)'
<1>1. CASE CloseBlock
  BY <1>1, FlushType DEF CloseBlock, StoreTypeOK
<1>2. CASE CloseFlush
  <2>1. disk' \in Seq(SUBSET R)
    BY <1>2, ConcatType DEF CloseFlush, StoreTypeOK
  <2>2. pend' \in Seq(SUBSET R)
    BY <1>2, EmptyType DEF CloseFlush
  <2> QED BY <1>2, <2>1, <2>2 DEF CloseFlush, StoreTypeOK
<1>3. CASE CloseHeader
  BY <1>3 DEF CloseHeader, StoreTypeOK, writerVars
<1> QED BY <1>1, <1>2, <1>3

LEMMA OpenType ==
    ASSUME NEW R, StoreTypeOK(R), NewWriter \/ NewWriterResume
    PROVE  StoreTypeOK(R)'
<1>1. <<>> \in Seq(SUBSET R)
  BY EmptyType
<1>2. CASE NewWriter
  BY <1>1, <1>2 DEF NewWriter, OpenWriter, StoreTypeOK
<1>3. CASE hdr = "final" /\ OpenWriter(hTotal) /\ UNCHANGED fileVars
  BY <1>1, <1>3 DEF OpenWriter, StoreTypeOK, fileVars
<1> QED BY <1>2, <1>3 DEF NewWriterResume

LEMMA LoseType ==
    ASSUME NEW R, StoreTypeOK(R), Abandon \/ WriteFails
    PROVE  StoreTypeOK(R)'
<1>1. CASE Abandon
  <2>1. disk' \in Seq(SUBSET R)
    BY <1>1, AppendType DEF Abandon, StoreTypeOK, Torn
  <2>2. pend' \in Seq(SUBSET R)
    BY <1>1, EmptyType DEF Abandon
  <2> QED BY <1>1, <2>1, <2>2 DEF Abandon, StoreTypeOK
<1>2. CASE WriteFails
  BY <1>2 DEF WriteFails, StoreTypeOK, fileVars
<1> QED BY <1>1, <1>2

LEMMA StoreSame ==
    ASSUME NEW R, StoreTypeOK(R), UNCHANGED storeVars
    PROVE  StoreTypeOK(R)'
  BY DEF StoreTypeOK, storeVars, fileVars, writerVars

-----------------------------------------------------------------------------
(* Types, and the cursor behind the generators.                            *)

\* A cursor value that leads a resumed run to a target some run handed out.
Behind(v) == v = NoCursor \/ (IF Mode = "crawl" THEN v + 1 <= reach ELSE v <= reach)

\* On its way to the file, too, a cursor value is behind the generators.
CursorsBehind == Behind(curCh) /\ Behind(curHeld) /\ Behind(curFile)

\* TypeOK is not inductive by itself: a run starts where the cursor file says,
\* so the cursor has to be bounded by the history of the generators.
TypeInv == TypeOK /\ CursorsBehind

LEMMA EmptyNotRec == Empty \notin Rec
  BY NodeAssumption DEF Empty, Rec, Pos, NoCursor

LEMMA ResumeBehind ==
    ASSUME TypeInv
    PROVE  ResumePoint(curFile) \in 0..reach
  BY NodeAssumption
     DEF TypeInv, TypeOK, CursorTypeOK, GeneratorTypeOK, CursorsBehind, Behind,
         ResumePoint, CrawlStart, RecrawlStart, NoCursor

\* What a step leaves alone keeps its type.
LEMMA ServiceSame ==
    ASSUME ServiceTypeOK, UNCHANGED <<svc, runs, faults, mainPc, lost>>
    PROVE  ServiceTypeOK'
  BY DEF ServiceTypeOK

LEMMA GeneratorSame ==
    ASSUME GeneratorTypeOK, UNCHANGED <<start, produced, genPc, reach>>
    PROVE  GeneratorTypeOK'
  BY DEF GeneratorTypeOK

LEMMA FlagsSame ==
    ASSUME FlagsTypeOK, UNCHANGED <<cancelled, genErr>>
    PROVE  FlagsTypeOK'
  BY DEF FlagsTypeOK

LEMMA WorkersSame ==
    ASSUME WorkersTypeOK, UNCHANGED workerVars
    PROVE  WorkersTypeOK'
  BY DEF WorkersTypeOK, workerVars

LEMMA ChannelsSame ==
    ASSUME ChannelsTypeOK, UNCHANGED <<ips, results>>
    PROVE  ChannelsTypeOK'
  BY DEF ChannelsTypeOK

LEMMA CursorSame ==
    ASSUME CursorTypeOK, UNCHANGED cursorVars
    PROVE  CursorTypeOK'
  BY DEF CursorTypeOK, cursorVars

\* Cursor values stay behind generators that only advance.
LEMMA BehindGrows ==
    ASSUME reach \in Nat, reach' \in Nat, reach <= reach',
           NEW v \in Int, Behind(v)
    PROVE  Behind(v)'
  BY DEF Behind, NoCursor

LEMMA CursorsSame ==
    ASSUME CursorsBehind, UNCHANGED <<cursorVars, reach>>
    PROVE  CursorsBehind'
  BY DEF CursorsBehind, cursorVars, Behind

\* A process without goroutines has empty hands and channels.
LEMMA NobodyType ==
    ASSUME NEW pc \in {"idle", "left"}
    PROVE  /\ [w \in Workers |-> pc] \in
                  [Workers -> {"idle", "token", "lookup", "send", "left"}]
           /\ [w \in Workers |-> Empty] \in [Workers -> Rec \cup {Empty}]
  OBVIOUS

LEMMA InitTypeInv == Init => TypeInv
<1> SUFFICES ASSUME Init PROVE TypeInv
  OBVIOUS
<1>1. StoreTypeOK(Rec)
  BY EmptyType DEF Init, StoreInit, StoreTypeOK
<1>2. ServiceTypeOK
  BY NodeAssumption DEF Init, ServiceTypeOK
<1>3. GeneratorTypeOK
  BY NodeAssumption DEF Init, GeneratorTypeOK
<1>8. FlagsTypeOK
  BY DEF Init, FlagsTypeOK
<1>4. WorkersTypeOK
  BY NobodyType DEF Init, WorkersTypeOK
<1>5. ChannelsTypeOK
  BY EmptyType, NodeAssumption DEF Init, ChannelsTypeOK
<1>6. CursorTypeOK
  BY DEF Init, CursorTypeOK
<1>7. CursorsBehind
  BY DEF Init, CursorsBehind, Behind
<1> QED BY <1>1, <1>2, <1>3, <1>4, <1>5, <1>6, <1>7, <1>8 DEF TypeInv, TypeOK

LEMMA LaunchTypeInv ==
    ASSUME TypeInv, NEW first \in 0..reach, Launch(first), runs < MaxRuns,
           StoreTypeOK(Rec)'
    PROVE  TypeInv'
<1>2. ServiceTypeOK'
  BY NodeAssumption DEF Launch, TypeInv, TypeOK, ServiceTypeOK
<1>3. GeneratorTypeOK'
  BY NodeAssumption DEF Launch, TypeInv, TypeOK, GeneratorTypeOK
<1>8. FlagsTypeOK'
  BY DEF Launch, FlagsTypeOK
<1>4. WorkersTypeOK'
  BY NobodyType DEF Launch, WorkersTypeOK
<1>5. ChannelsTypeOK'
  BY EmptyType, NodeAssumption DEF Launch, ChannelsTypeOK
<1>6. CursorTypeOK'
  BY DEF Launch, TypeInv, TypeOK, CursorTypeOK
<1>7. CursorsBehind'
  BY DEF TypeInv, Launch, CursorsBehind, Behind
<1> QED BY <1>2, <1>3, <1>4, <1>5, <1>6, <1>7, <1>8 DEF TypeInv, TypeOK

LEMMA ServiceTypeInv == TypeInv /\ Service => TypeInv'
<1> SUFFICES ASSUME TypeInv, Service PROVE TypeInv'
  OBVIOUS
<1>1. CASE Start
  <2>1. StoreTypeOK(Rec)'
    BY <1>1, OpenType DEF TypeInv, TypeOK, Start
  <2> QED BY <1>1, <2>1, LaunchTypeInv, ResumeBehind DEF Start
<1>2. CASE StartRefused
  <2>1. ServiceTypeOK'
    BY <1>2, NodeAssumption DEF StartRefused, TypeInv, TypeOK, ServiceTypeOK
  <2> QED
    BY <1>2, <2>1, StoreSame, GeneratorSame, FlagsSame, WorkersSame, ChannelsSame, CursorSame,
       CursorsSame DEF StartRefused, TypeInv, TypeOK, genVars
<1>3. CASE StartFresh
  <2>1. StoreTypeOK(Rec)'
    BY <1>3, OpenType DEF TypeInv, TypeOK, StartFresh
  <2>2. 0 \in 0..reach
    BY DEF TypeInv, TypeOK, GeneratorTypeOK
  <2> QED BY <1>3, <2>1, <2>2, LaunchTypeInv DEF StartFresh
<1> QED BY <1>1, <1>2, <1>3 DEF Service

LEMMA EmitTypeInv ==
    ASSUME TypeInv, NEW due \in BOOLEAN, NEW value \in 0..NTargets, Emit(due, value),
           IF Mode = "crawl" THEN value = produced ELSE value = produced + 1
    PROVE  TypeInv'
<1>1. /\ produced' \in 0..NTargets /\ reach' \in 0..NTargets
      /\ start <= produced' /\ produced' <= reach' /\ reach <= reach'
  BY NodeAssumption DEF TypeInv, TypeOK, GeneratorTypeOK, Emit, Larger, MoreTargets
<1>2. GeneratorTypeOK'
  BY <1>1 DEF TypeInv, TypeOK, GeneratorTypeOK, Emit
<1>3. ChannelsTypeOK'
  <2>1. produced \in Pos
    BY NodeAssumption DEF TypeInv, TypeOK, GeneratorTypeOK, Emit, MoreTargets, Pos
  <2> QED
    BY <2>1, AppendType, NodeAssumption DEF TypeInv, TypeOK, ChannelsTypeOK, Emit
<1>4. curCh' = curCh \/ curCh' = value
  BY DEF Emit
<1>5. CursorTypeOK'
  BY <1>4 DEF TypeInv, TypeOK, CursorTypeOK, Emit
<1>6. CursorsBehind'
  <2>1. ASSUME NEW v \in 0..NTargets \cup {NoCursor}, Behind(v)
        PROVE  Behind(v)'
    BY <1>1, <2>1, BehindGrows, NodeAssumption
       DEF TypeInv, TypeOK, GeneratorTypeOK, NoCursor
  <2>2. Behind(value)'
    BY <1>1, NodeAssumption DEF TypeInv, TypeOK, GeneratorTypeOK, Emit, Behind
  <2>3. curCh' = curCh => Behind(curCh)'
    BY <2>1 DEF TypeInv, TypeOK, CursorTypeOK, CursorsBehind, Behind
  <2>4. curCh' = value => Behind(curCh)'
    BY <2>2 DEF Behind
  <2>5. Behind(curHeld)' /\ Behind(curFile)'
    BY <2>1 DEF TypeInv, TypeOK, CursorTypeOK, CursorsBehind, Behind, Emit
  <2> QED
    BY <1>4, <2>3, <2>4, <2>5 DEF CursorsBehind
<1> QED
  BY <1>2, <1>3, <1>5, <1>6, StoreSame, ServiceSame, FlagsSame, WorkersSame
     DEF Emit, TypeInv, TypeOK

LEMMA GeneratorTypeInv == TypeInv /\ Generator => TypeInv'
<1> SUFFICES ASSUME TypeInv, Generator PROVE TypeInv'
  OBVIOUS
<1> USE DEF TypeInv, TypeOK
<1>1. CASE EmitSharded
  <2>1. produced \in 0..NTargets
    BY DEF GeneratorTypeOK
  <2>2. Mode = "crawl" /\ Emit((produced + 1 - start) % Checkpoint = 0, produced)
    BY <1>1 DEF EmitSharded
  <2> QED BY <2>1, <2>2, EmitTypeInv
<1>2. CASE EmitTarget
  <2>1. Mode = "recrawl" /\ Emit((produced + 1) % Checkpoint = 0, produced + 1)
    BY <1>2 DEF EmitTarget
  <2>2. produced + 1 \in 0..NTargets
    BY <2>1, NodeAssumption DEF GeneratorTypeOK, Emit, MoreTargets
  <2> QED BY <2>1, <2>2, EmitTypeInv
<1>3. CASE GenStops
  <2>1. GeneratorTypeOK'
    BY <1>3, NodeAssumption DEF GenStops, GeneratorTypeOK
  <2> QED
    BY <1>3, <2>1, StoreSame, ServiceSame, FlagsSame, WorkersSame, ChannelsSame,
       CursorSame, CursorsSame DEF GenStops
<1>4. CASE FinalCursor
  <2>1. GeneratorTypeOK' /\ CursorTypeOK'
    BY <1>4 DEF FinalCursor, GeneratorTypeOK, CursorTypeOK
  <2>2. CursorsBehind'
    <3>1. Mode = "recrawl"
      BY <1>4 DEF FinalCursor, GeneratorTypeOK
    <3> QED
      BY <1>4, <3>1 DEF FinalCursor, GeneratorTypeOK, CursorsBehind, Behind
  <2> QED
    BY <1>4, <2>1, <2>2, StoreSame, ServiceSame, FlagsSame, WorkersSame,
       ChannelsSame DEF FinalCursor
<1> QED BY <1>1, <1>2, <1>3, <1>4 DEF Generator

LEMMA CursorTypeInv == TypeInv /\ CursorGoroutine => TypeInv'
<1> SUFFICES ASSUME TypeInv, CursorGoroutine PROVE TypeInv'
  OBVIOUS
<1> USE DEF TypeInv, TypeOK
<1>1. CASE RecvCursor
  <2>1. CursorTypeOK' /\ CursorsBehind'
    BY <1>1 DEF RecvCursor, CursorTypeOK, CursorsBehind, Behind, genVars
  <2> QED
    BY <1>1, <2>1, StoreSame, ServiceSame, GeneratorSame, FlagsSame, WorkersSame,
       ChannelsSame DEF RecvCursor, genVars
<1>2. CASE WriteCursor
  <2>1. curFile' = curHeld \/ curFile' = curFile
    BY <1>2 DEF WriteCursor
  <2>2. CursorTypeOK' /\ CursorsBehind'
    BY <1>2, <2>1 DEF WriteCursor, CursorTypeOK, CursorsBehind, Behind, genVars
  <2> QED
    BY <1>2, <2>2, StoreSame, ServiceSame, GeneratorSame, FlagsSame, WorkersSame,
       ChannelsSame DEF WriteCursor, genVars
<1> QED BY <1>1, <1>2 DEF CursorGoroutine

\* The part of a worker's step that all of them share.
LEMMA WorkerStepType ==
    ASSUME TypeInv, NEW w \in Workers,
           NEW pc \in {"idle", "token", "lookup", "send", "left"},
           NEW item \in Rec \cup {Empty},
           pc \in {"token", "lookup", "send"} <=> item # Empty,
           WorkerStep(w, pc, item)
    PROVE  /\ StoreTypeOK(Rec)' /\ GeneratorTypeOK' /\ FlagsTypeOK'
           /\ WorkersTypeOK' /\ CursorTypeOK' /\ CursorsBehind'
<1> USE DEF TypeInv, TypeOK
<1>1. WorkersTypeOK'
  BY DEF WorkersTypeOK, WorkerStep
<1> QED
  BY <1>1, StoreSame, GeneratorSame, FlagsSame, CursorSame, CursorsSame
     DEF WorkerStep, genVars

LEMMA WorkerTypeInv ==
    ASSUME TypeInv, NEW w \in Workers, Worker(w)
    PROVE  TypeInv'
<1> USE DEF TypeInv, TypeOK
<1>0. wpc[w] \in {"token", "lookup", "send"} => hand[w] \in Rec /\ hand[w].pos \in Pos
  BY DEF WorkersTypeOK, Rec
<1>1. CASE Take(w)
  <2>1. Head(ips) \in Pos /\ ChannelsTypeOK'
    BY <1>1, HeadTailType, NodeAssumption DEF Take, ChannelsTypeOK
  <2>2. [pos |-> Head(ips), real |-> TRUE] \in Rec
    BY <2>1 DEF Rec
  <2>3. WorkerStep(w, IF RateLimited THEN "token" ELSE "lookup",
                   [pos |-> Head(ips), real |-> TRUE])
    BY <1>1 DEF Take
  <2>4. (IF RateLimited THEN "token" ELSE "lookup") \in {"token", "lookup"}
    OBVIOUS
  <2> QED
    BY <1>1, <2>1, <2>2, <2>3, <2>4, WorkerStepType, EmptyNotRec, ServiceSame
       DEF Take, WorkerStep
<1>2. CASE GetToken(w)
  <2>1. hand[w] \in Rec /\ WorkerStep(w, "lookup", hand[w])
    BY <1>0, <1>2 DEF GetToken
  <2> QED
    BY <1>2, <2>1, WorkerStepType, EmptyNotRec, ServiceSame, ChannelsSame
       DEF GetToken, WorkerStep
<1>3. CASE AbortToken(w)
  <2>1. ServiceTypeOK'
    BY <1>0, <1>3 DEF AbortToken, WorkerStep, ServiceTypeOK
  <2> QED
    BY <1>3, <2>1, WorkerStepType, ChannelsSame DEF AbortToken, WorkerStep
<1>4. CASE Lookup(w)
  <2>1. PICK real \in BOOLEAN :
           WorkerStep(w, "send", [pos |-> hand[w].pos, real |-> real])
    BY <1>4 DEF Lookup
  <2>2. [pos |-> hand[w].pos, real |-> real] \in Rec
    BY <1>0, <1>4 DEF Lookup, Rec
  <2> QED
    BY <1>4, <2>1, <2>2, WorkerStepType, EmptyNotRec, ServiceSame, ChannelsSame
       DEF Lookup, WorkerStep
<1>5. CASE Send(w)
  <2>1. ChannelsTypeOK'
    BY <1>0, <1>5, AppendType, NodeAssumption DEF Send, ChannelsTypeOK
  <2> QED
    BY <1>5, <2>1, WorkerStepType, ServiceSame DEF Send, WorkerStep
<1>6. CASE Drop(w)
  <2>1. ServiceTypeOK'
    BY <1>0, <1>6 DEF Drop, WorkerStep, ServiceTypeOK
  <2> QED
    BY <1>6, <2>1, WorkerStepType, ChannelsSame DEF Drop, WorkerStep
<1>7. CASE Leave(w)
  BY <1>7, WorkerStepType, ServiceSame, ChannelsSame DEF Leave, WorkerStep
<1> QED BY <1>1, <1>2, <1>3, <1>4, <1>5, <1>6, <1>7 DEF Worker

LEMMA GoneTypeInv ==
    ASSUME TypeInv, ProcessGone, ServiceTypeOK'
    PROVE  TypeInv'
<1> USE DEF TypeInv, TypeOK
<1>1. StoreTypeOK(Rec)'
  BY LoseType DEF ProcessGone
<1>2. GeneratorTypeOK' /\ CursorTypeOK'
  BY DEF ProcessGone, GeneratorTypeOK, CursorTypeOK
<1>3. WorkersTypeOK'
  BY NobodyType DEF ProcessGone, WorkersTypeOK
<1>4. ChannelsTypeOK'
  BY EmptyType, NodeAssumption DEF ProcessGone, ChannelsTypeOK
<1>5. CursorsBehind'
  BY DEF ProcessGone, CursorsBehind, Behind
<1> QED BY <1>1, <1>2, <1>3, <1>4, <1>5, FlagsSame DEF ProcessGone

LEMMA MainTypeInv == TypeInv /\ Main => TypeInv'
<1> SUFFICES ASSUME TypeInv, Main PROVE TypeInv'
  OBVIOUS
<1> USE DEF TypeInv, TypeOK
<1>0. ASSUME MainFrame
      PROVE  /\ GeneratorTypeOK' /\ FlagsTypeOK' /\ WorkersTypeOK'
             /\ CursorTypeOK' /\ CursorsBehind'
  BY <1>0, GeneratorSame, FlagsSame, WorkersSame, CursorSame, CursorsSame
     DEF MainFrame, genVars
<1>1. CASE Consume
  <2>1. Head(results) \in Rec /\ ChannelsTypeOK'
    BY <1>1, HeadTailType, NodeAssumption DEF Consume, MainFrame, ChannelsTypeOK
  <2>2. StoreTypeOK(Rec)'
    BY <1>1, <2>1, AddType DEF Consume
  <2>3. Positions(buf \cup {Head(results)}) \subseteq Pos
    BY <2>1 DEF Positions, StoreTypeOK, Rec
  <2>4. ServiceTypeOK'
    BY <1>1, <2>3 DEF Consume, MainFrame, ServiceTypeOK
  <2> QED BY <1>0, <1>1, <2>1, <2>2, <2>4 DEF Consume
<1>2. CASE EndConsume
  <2>1. StoreTypeOK(Rec)'
    BY <1>2, CloseType DEF EndConsume
  <2>2. Positions(buf) \subseteq Pos
    BY DEF Positions, StoreTypeOK, Rec
  <2>3. ServiceTypeOK'
    BY <1>2, <2>2 DEF EndConsume, MainFrame, ServiceTypeOK
  <2> QED BY <1>0, <1>2, <2>1, <2>3, ChannelsSame DEF EndConsume, MainFrame
<1>3. CASE FlushFile
  <2>1. StoreTypeOK(Rec)'
    BY <1>3, CloseType DEF FlushFile
  <2>2. ServiceTypeOK'
    BY <1>3 DEF FlushFile, MainFrame, ServiceTypeOK
  <2> QED BY <1>0, <1>3, <2>1, <2>2, ChannelsSame DEF FlushFile, MainFrame
<1>4. CASE PatchHeader
  <2>1. StoreTypeOK(Rec)'
    BY <1>4, CloseType DEF PatchHeader
  <2>2. ServiceTypeOK'
    BY <1>4 DEF PatchHeader, MainFrame, ServiceTypeOK
  <2> QED BY <1>0, <1>4, <2>1, <2>2, ChannelsSame DEF PatchHeader, MainFrame
<1>5. CASE CloseFails
  <2>1. ServiceTypeOK'
    BY <1>5 DEF CloseFails, MainFrame, ServiceTypeOK
  <2> QED BY <1>0, <1>5, <2>1, StoreSame, ChannelsSame DEF CloseFails, MainFrame
<1>6. CASE Exit
  <2>1. Elems(ips) \subseteq Pos
    BY DEF ChannelsTypeOK, Elems
  <2>2. (UNION Elems(pend)) \subseteq Rec
    BY DEF StoreTypeOK, Elems
  <2>3. Positions(UNION Elems(pend)) \subseteq Pos
    BY <2>2 DEF Positions, Rec
  <2>4. ServiceTypeOK'
    BY <1>6, <2>1, <2>3 DEF Exit, ProcessGone, ServiceTypeOK
  <2> QED BY <1>6, <2>4, GoneTypeInv DEF Exit
<1> QED BY <1>1, <1>2, <1>3, <1>4, <1>5, <1>6 DEF Main

LEMMA FaultsTypeInv == TypeInv /\ Faults => TypeInv'
<1> SUFFICES ASSUME TypeInv, Faults PROVE TypeInv'
  OBVIOUS
<1> USE DEF TypeInv, TypeOK
<1>0. ASSUME NEW e, Happens(e)
      PROVE  faults' \in 0..MaxFaults
  BY <1>0, NodeAssumption DEF Happens, ServiceTypeOK
<1>1. CASE ScanFails
  <2>1. PICK q \in 0..produced :
          /\ produced # start => q = produced
          /\ produced' = q
          /\ start' = IF produced # start THEN start ELSE q
    BY <1>1 DEF ScanFails
  <2>2. GeneratorTypeOK'
    BY <1>1, <2>1, NodeAssumption DEF ScanFails, GeneratorTypeOK
  <2>3. FlagsTypeOK'
    BY <1>1 DEF ScanFails, FlagsTypeOK
  <2>4. ServiceTypeOK'
    BY <1>0, <1>1 DEF ScanFails, ServiceTypeOK
  <2> QED
    BY <1>1, <2>2, <2>3, <2>4, StoreSame, WorkersSame, ChannelsSame, CursorSame,
       CursorsSame DEF ScanFails
<1>2. CASE Signal
  <2>1. FlagsTypeOK'
    BY <1>2 DEF Signal, FlagsTypeOK, genVars
  <2>2. ServiceTypeOK'
    BY <1>0, <1>2 DEF Signal, ServiceTypeOK
  <2> QED
    BY <1>2, <2>1, <2>2, StoreSame, GeneratorSame, WorkersSame, ChannelsSame,
       CursorSame, CursorsSame DEF Signal, genVars
<1>3. CASE Crash
  <2>1. ServiceTypeOK'
    BY <1>0, <1>3 DEF Crash, ProcessGone, ServiceTypeOK
  <2> QED BY <1>3, <2>1, GoneTypeInv DEF Crash
<1>4. CASE DiskFails
  <2>1. StoreTypeOK(Rec)'
    BY <1>4, LoseType DEF DiskFails
  <2>2. ServiceTypeOK'
    BY <1>0, <1>4 DEF DiskFails, ServiceTypeOK
  <2> QED
    BY <1>4, <2>1, <2>2, GeneratorSame, FlagsSame, WorkersSame, ChannelsSame,
       CursorSame, CursorsSame DEF DiskFails, genVars
<1> QED BY <1>1, <1>2, <1>3, <1>4 DEF Faults

\* A step that changes nothing.
LEMMA StutterTypeInv == TypeInv /\ UNCHANGED vars => TypeInv'
  BY StoreSame, ServiceSame, GeneratorSame, FlagsSame, WorkersSame, ChannelsSame,
     CursorSame, CursorsSame DEF TypeInv, TypeOK, vars, genVars

LEMMA NextTypeInv == TypeInv /\ [Next]_vars => TypeInv'
  BY ServiceTypeInv, GeneratorTypeInv, CursorTypeInv, WorkerTypeInv, MainTypeInv,
     FaultsTypeInv, StutterTypeInv DEF Next, Halted

LEMMA TypeInvariance == Spec => []TypeInv
  BY InitTypeInv, NextTypeInv, PTL DEF Spec

\* Every variable of the node keeps its type, and the channels their capacity,
\* through all runs of the service.
THEOREM TypeCorrect == Spec => []TypeOK
<1>1. TypeInv => TypeOK
  BY DEF TypeInv
<1> QED BY <1>1, TypeInvariance, PTL

\* For every crash, signal, failed read or write at any moment: the next run
\* with --resume starts no later than at the first target no run has handed out
\* (runCrawl, runRecrawl, GenerateShardedFull, StreamTargets).
THEOREM NoTargetSkippedHolds == Spec => []NoTargetSkipped
<1>1. TypeInv => NoTargetSkipped
  BY ResumeBehind DEF NoTargetSkipped, TypeInv, TypeOK, GeneratorTypeOK
<1> QED BY <1>1, TypeInvariance, PTL

-----------------------------------------------------------------------------
(* Nothing vanishes.                                                       *)

LEMMA ElemsAppend ==
    ASSUME NEW S, NEW q \in Seq(S), NEW e
    PROVE  Elems(Append(q, e)) = Elems(q) \cup {e}
<1>1. /\ DOMAIN Append(q, e) = 1..(Len(q) + 1) /\ DOMAIN q = 1..Len(q)
      /\ \A i \in 1..Len(q) : Append(q, e)[i] = q[i]
      /\ Append(q, e)[Len(q) + 1] = e
      /\ Len(q) \in Nat
  OBVIOUS
<1>2. 1..(Len(q) + 1) = 1..Len(q) \cup {Len(q) + 1}
  BY <1>1
<1> QED BY <1>1, <1>2, Zenon DEF Elems

LEMMA ElemsTail ==
    ASSUME NEW S, NEW q \in Seq(S), q # <<>>
    PROVE  Elems(q) = {Head(q)} \cup Elems(Tail(q))
<1>1. ASSUME NEW i \in DOMAIN q PROVE q[i] \in {Head(q)} \cup Elems(Tail(q))
  <2>1. CASE i = 1
    BY <2>1
  <2>2. CASE i # 1
    <3>1. i - 1 \in DOMAIN Tail(q) /\ Tail(q)[i - 1] = q[i]
      BY <2>2
    <3> QED BY <3>1 DEF Elems
  <2> QED BY <2>1, <2>2
<1>2. Head(q) \in Elems(q)
  BY DEF Elems
<1>3. ASSUME NEW i \in DOMAIN Tail(q) PROVE Tail(q)[i] \in Elems(q)
  <2>1. i + 1 \in DOMAIN q /\ Tail(q)[i] = q[i + 1]
    OBVIOUS
  <2> QED BY <2>1 DEF Elems
<1> QED BY <1>1, <1>2, <1>3 DEF Elems

LEMMA ElemsConcat ==
    ASSUME NEW S, NEW a \in Seq(S), NEW b \in Seq(S)
    PROVE  Elems(a \o b) = Elems(a) \cup Elems(b)
<1>1. Elems(a) \subseteq Elems(a \o b)
  BY DEF Elems
<1>2. ASSUME NEW i \in DOMAIN b PROVE b[i] \in Elems(a \o b)
  <2>1. i + Len(a) \in DOMAIN (a \o b) /\ (a \o b)[i + Len(a)] = b[i]
    OBVIOUS
  <2> QED BY <2>1 DEF Elems
<1>3. ASSUME NEW i \in DOMAIN (a \o b) PROVE (a \o b)[i] \in Elems(a) \cup Elems(b)
  <2>1. CASE i <= Len(a)
    BY <2>1 DEF Elems
  <2>2. CASE i > Len(a)
    <3>1. i - Len(a) \in DOMAIN b /\ (a \o b)[i] = b[i - Len(a)]
      BY <2>2
    <3> QED BY <3>1 DEF Elems
  <2> QED BY <2>1, <2>2
<1> QED BY <1>1, <1>2, <1>3 DEF Elems

LEMMA ElemsSplit ==
    ASSUME NEW S, NEW q \in Seq(S), NEW k \in 0..Len(q)
    PROVE  Elems(q) \subseteq Elems(SubSeq(q, 1, k)) \cup Elems(SubSeq(q, k + 1, Len(q)))
<1> SUFFICES ASSUME NEW i \in DOMAIN q
             PROVE  q[i] \in Elems(SubSeq(q, 1, k)) \cup Elems(SubSeq(q, k + 1, Len(q)))
  BY DEF Elems
<1>1. CASE i <= k
  <2>1. i \in DOMAIN SubSeq(q, 1, k) /\ SubSeq(q, 1, k)[i] = q[i]
    BY <1>1
  <2> QED BY <2>1 DEF Elems
<1>2. CASE i > k
  <2>1. /\ i - k \in DOMAIN SubSeq(q, k + 1, Len(q))
        /\ SubSeq(q, k + 1, Len(q))[i - k] = q[i]
    BY <1>2
  <2> QED BY <2>1 DEF Elems
<1> QED BY <1>1, <1>2

LEMMA PositionsUnion ==
    ASSUME NEW A, NEW B
    PROVE  /\ Positions(A \cup B) = Positions(A) \cup Positions(B)
           /\ A \subseteq B => Positions(A) \subseteq Positions(B)
  BY DEF Positions

LEMMA UnionUnion ==
    ASSUME NEW A, NEW B, NEW C, NEW D, A \cup B \subseteq C \cup D
    PROVE  (UNION A) \cup (UNION B) \subseteq (UNION C) \cup (UNION D)
<1>1. ASSUME NEW e \in (UNION A) \cup (UNION B)
      PROVE  e \in (UNION C) \cup (UNION D)
  <2>1. PICK s \in A \cup B : e \in s
    BY Zenon
  <2>2. s \in C \cup D
    BY <2>1
  <2> QED BY <2>1, <2>2, Zenon
<1> QED BY <1>1, Zenon

\* Records in finished blocks, in memory or in the file.
InBlocks == (UNION Elems(pend)) \cup (UNION Elems(disk))

LEMMA SpillKeeps ==
    ASSUME NEW R, disk \in Seq(SUBSET R), NEW q \in Seq(SUBSET R), Spill(q)
    PROVE  (UNION Elems(q)) \cup (UNION Elems(disk)) \subseteq InBlocks'
<1>1. PICK k \in 0..Len(q) : /\ disk' = disk \o SubSeq(q, 1, k)
                             /\ pend' = SubSeq(q, k + 1, Len(q))
  BY DEF Spill
<1>2. SubSeq(q, 1, k) \in Seq(SUBSET R)
  BY SplitType
<1>3. Elems(disk') = Elems(disk) \cup Elems(SubSeq(q, 1, k))
  BY <1>1, <1>2, ElemsConcat
<1>4. Elems(q) \subseteq Elems(SubSeq(q, 1, k)) \cup Elems(pend')
  BY <1>1, ElemsSplit
<1>5. InBlocks' = (UNION Elems(pend')) \cup (UNION Elems(disk'))
  BY DEF InBlocks
<1>6. Elems(q) \cup Elems(disk) \subseteq Elems(pend') \cup Elems(disk')
  BY <1>3, <1>4
<1> QED BY <1>5, <1>6, UnionUnion

\* A flush that has not met a write error keeps the block, and every flush
\* keeps the blocks before it.
LEMMA FlushKeeps ==
    ASSUME NEW R, StoreTypeOK(R), NEW block \in SUBSET R, flushBlock(block)
    PROVE  /\ InBlocks \subseteq InBlocks'
           /\ ~werr => block \subseteq InBlocks'
<1>1. CASE (block = {} \/ werr) /\ UNCHANGED <<disk, pend, cut>>
  BY <1>1 DEF InBlocks
<1>2. CASE block # {} /\ ~werr /\ Spill(Append(pend, block))
  <2>1. Append(pend, block) \in Seq(SUBSET R) /\ disk \in Seq(SUBSET R)
    BY AppendType DEF StoreTypeOK
  <2>2. Elems(Append(pend, block)) = Elems(pend) \cup {block}
    BY ElemsAppend DEF StoreTypeOK
  <2>3. (UNION Elems(Append(pend, block))) \cup (UNION Elems(disk)) \subseteq InBlocks'
    BY <1>2, <2>1, SpillKeeps
  <2> QED BY <2>2, <2>3 DEF InBlocks
<1> QED BY <1>1, <1>2 DEF flushBlock

\* Adding a record loses nothing unless a write has failed and the block is
\* full.
LEMMA AddKeeps ==
    ASSUME NEW R, StoreTypeOK(R), NEW rec \in R, Add(rec)
    PROVE  /\ InBlocks \subseteq InBlocks'
           /\ ~(werr /\ buf' = {}) => buf \cup {rec} \subseteq buf' \cup InBlocks'
<1> DEFINE block == buf \cup {rec}
<1>0. block \in SUBSET R
  BY DEF StoreTypeOK
<1>1. CASE flushBlock(block)
  <2>1. buf' = {}
    BY <1>1 DEF flushBlock
  <2> QED BY <1>0, <1>1, <2>1, FlushKeeps
<1>2. CASE buf' = block /\ UNCHANGED <<disk, pend, cut>>
  BY <1>2 DEF InBlocks
<1> QED BY <1>1, <1>2 DEF Add

\* Where a handed-out position can be.
Everywhere == InPipeline \cup OnDisk \cup lost

LEMMA EverywhereParts ==
    /\ Everywhere = Elems(ips) \cup Held \cup Positions(Elems(results))
                   \cup Positions(buf) \cup Positions(InBlocks) \cup lost
    /\ Everywhere' = Elems(ips') \cup Held' \cup Positions(Elems(results'))
                   \cup Positions(buf') \cup Positions(InBlocks') \cup lost'
<1>1. Positions(InBlocks) = Positions(UNION Elems(pend)) \cup Positions(UNION Elems(disk))
  BY PositionsUnion, Zenon DEF InBlocks
<1>2. Positions(InBlocks') =
        Positions(UNION Elems(pend')) \cup Positions(UNION Elems(disk'))
  <2>1. InBlocks' = (UNION Elems(pend')) \cup (UNION Elems(disk'))
    BY DEF InBlocks
  <2> QED BY <2>1, PositionsUnion, Zenon
<1>3. Everywhere = Elems(ips) \cup Held \cup Positions(Elems(results))
                   \cup Positions(buf) \cup Positions(InBlocks) \cup lost
  BY <1>1, Zenon DEF Everywhere, InPipeline, OnDisk
<1>4. Everywhere' = Elems(ips') \cup Held' \cup Positions(Elems(results'))
                   \cup Positions(buf') \cup Positions(InBlocks') \cup lost'
  BY <1>2, Zenon DEF Everywhere, InPipeline, OnDisk
<1> QED BY <1>3, <1>4

\* A worker's step moves what it holds and leaves the other hands alone.
LEMMA HeldStep ==
    ASSUME WorkersTypeOK, NEW w \in Workers, NEW pc, NEW item, WorkerStep(w, pc, item)
    PROVE  /\ Held \subseteq Held' \cup {hand[w].pos}
           /\ hand[w] = Empty => Held \subseteq Held'
           /\ item # Empty => item.pos \in Held'
<1>1. \A v \in Workers : hand'[v] = IF v = w THEN item ELSE hand[v]
  BY DEF WorkersTypeOK, WorkerStep
<1> QED BY <1>1 DEF Held

\* The store and what it holds stay as they are.
LEMMA BlocksSame ==
    ASSUME UNCHANGED storeVars
    PROVE  InBlocks' = InBlocks /\ buf' = buf /\ werr' = werr
  BY DEF InBlocks, storeVars, fileVars, writerVars

LEMMA WorkerKeeps ==
    ASSUME TypeInv, NEW w \in Workers, Worker(w)
    PROVE  Everywhere \subseteq Everywhere'
<1> USE DEF TypeInv, TypeOK
<1>0. /\ Everywhere = Elems(ips) \cup Held \cup Positions(Elems(results))
                   \cup Positions(buf) \cup Positions(InBlocks) \cup lost
      /\ Everywhere' = Elems(ips') \cup Held' \cup Positions(Elems(results'))
                   \cup Positions(buf') \cup Positions(InBlocks') \cup lost'
  BY EverywhereParts
<1>1. InBlocks' = InBlocks /\ buf' = buf
  BY BlocksSame DEF Worker, Take, GetToken, AbortToken, Lookup, Send, Drop, Leave,
                    WorkerStep
<1>2. CASE Take(w)
  <2>1. Elems(ips) = {Head(ips)} \cup Elems(ips')
    BY <1>2, ElemsTail DEF Take, ChannelsTypeOK
  <2>2. hand[w] = Empty
    BY <1>2 DEF Take, WorkersTypeOK
  <2>3. [pos |-> Head(ips), real |-> TRUE] # Empty
    <3>1. Head(ips) \in Pos
      BY <1>2, HeadTailType DEF Take, ChannelsTypeOK
    <3> QED BY <3>1, NodeAssumption DEF Empty, NoCursor, Pos
  <2>4. Held \subseteq Held' /\ Head(ips) \in Held'
    BY <1>2, <2>2, <2>3, HeldStep DEF Take
  <2> QED BY <1>0, <1>1, <1>2, <2>1, <2>4 DEF Take
<1>3. CASE GetToken(w)
  <2>1. Held \subseteq Held'
    BY <1>3, HeldStep DEF GetToken, WorkersTypeOK
  <2> QED BY <1>0, <1>1, <1>3, <2>1 DEF GetToken
<1>4. CASE AbortToken(w)
  <2>1. Held \subseteq Held' \cup {hand[w].pos}
    BY <1>4, HeldStep DEF AbortToken
  <2> QED BY <1>0, <1>1, <1>4, <2>1 DEF AbortToken
<1>5. CASE Lookup(w)
  <2>1. PICK real \in BOOLEAN :
           WorkerStep(w, "send", [pos |-> hand[w].pos, real |-> real])
    BY <1>5 DEF Lookup
  <2>2. [pos |-> hand[w].pos, real |-> real] # Empty
    BY <1>5, NodeAssumption DEF Lookup, WorkersTypeOK, Rec, Pos, Empty, NoCursor
  <2>3. Held \subseteq Held'
    BY <2>1, <2>2, HeldStep
  <2> QED BY <1>0, <1>1, <1>5, <2>3 DEF Lookup
<1>6. CASE Send(w)
  <2>1. Held \subseteq Held' \cup {hand[w].pos}
    BY <1>6, HeldStep DEF Send
  <2>2. Elems(results') = Elems(results) \cup {hand[w]}
    BY <1>6, ElemsAppend DEF Send, ChannelsTypeOK
  <2>3. Positions(Elems(results')) = Positions(Elems(results)) \cup {hand[w].pos}
    BY <2>2, PositionsUnion DEF Positions
  <2> QED BY <1>0, <1>1, <1>6, <2>1, <2>3 DEF Send
<1>7. CASE Drop(w)
  <2>1. Held \subseteq Held' \cup {hand[w].pos}
    BY <1>7, HeldStep DEF Drop
  <2> QED BY <1>0, <1>1, <1>7, <2>1 DEF Drop
<1>8. CASE Leave(w)
  <2>1. hand[w] = Empty
    BY <1>8 DEF Leave, WorkersTypeOK
  <2>2. Held \subseteq Held'
    BY <1>8, <2>1, HeldStep DEF Leave
  <2> QED BY <1>0, <1>1, <1>8, <2>2 DEF Leave
<1> QED BY <1>2, <1>3, <1>4, <1>5, <1>6, <1>7, <1>8 DEF Worker

\* Steps that touch neither channels, hands, store nor losses.
LEMMA EverywhereSame ==
    ASSUME UNCHANGED <<storeVars, ips, hand, results, lost>>
    PROVE  Everywhere' = Everywhere
<1>1. InBlocks' = InBlocks /\ buf' = buf
  BY BlocksSame
<1>2. Held' = Held
  BY DEF Held
<1> QED BY <1>1, <1>2, EverywhereParts

LEMMA EmitKeeps ==
    ASSUME TypeInv, EmitSharded \/ EmitTarget
    PROVE  /\ Everywhere \cup {produced} \subseteq Everywhere'
           /\ produced' = produced + 1
           /\ UNCHANGED <<start, cancelled, lost, werr>>
<1>1. PICK due, value : Emit(due, value)
  BY DEF EmitSharded, EmitTarget
<1>2. UNCHANGED storeVars
  BY <1>1 DEF Emit
<1>3. InBlocks' = InBlocks /\ buf' = buf /\ werr' = werr
  BY <1>2, BlocksSame
<1>4. Held' = Held
  BY <1>1 DEF Emit, Held, workerVars
<1>5. Elems(ips') = Elems(ips) \cup {produced}
  BY <1>1, ElemsAppend DEF Emit, TypeInv, TypeOK, ChannelsTypeOK
<1>6. /\ results' = results /\ lost' = lost /\ produced' = produced + 1
      /\ start' = start /\ cancelled' = cancelled
  BY <1>1 DEF Emit
<1>7. Everywhere \cup {produced} \subseteq Everywhere'
  BY <1>3, <1>4, <1>5, <1>6, EverywhereParts
<1> QED BY <1>3, <1>6, <1>7

\* The consumer and Close move records towards the file.
LEMMA MainKeeps ==
    ASSUME TypeInv, Consume \/ EndConsume \/ FlushFile \/ PatchHeader \/ CloseFails
    PROVE  /\ Everywhere \subseteq Everywhere'
           /\ ~werr => lost' = lost
           /\ UNCHANGED <<start, produced, cancelled, werr>>
<1> USE DEF TypeInv, TypeOK
<1>0. MainFrame
  BY DEF Consume, EndConsume, FlushFile, PatchHeader, CloseFails
<1>1. Held' = Held /\ ips' = ips /\ UNCHANGED <<start, produced, cancelled>>
  BY <1>0 DEF MainFrame, Held, workerVars, genVars
<1>2. CASE Consume
  <2>1. Head(results) \in Rec
    BY <1>2, HeadTailType DEF Consume, ChannelsTypeOK
  <2>2. Elems(results) = {Head(results)} \cup Elems(results')
    BY <1>2, ElemsTail DEF Consume, ChannelsTypeOK
  <2>3. /\ InBlocks \subseteq InBlocks'
        /\ ~(werr /\ buf' = {}) => buf \cup {Head(results)} \subseteq buf' \cup InBlocks'
    BY <1>2, <2>1, AddKeeps DEF Consume
  <2>4. /\ Positions(InBlocks) \subseteq Positions(InBlocks')
        /\ Positions(Elems(results)) \cup Positions(buf)
             = Positions(Elems(results')) \cup Positions(buf \cup {Head(results)})
    <3>1. /\ Positions(Elems(results))
               = Positions({Head(results)}) \cup Positions(Elems(results'))
          /\ Positions(buf \cup {Head(results)})
               = Positions(buf) \cup Positions({Head(results)})
      BY <2>2, PositionsUnion
    <3> QED BY <2>3, <3>1, PositionsUnion
  <2>5. Positions(buf \cup {Head(results)})
           \subseteq Positions(buf') \cup Positions(InBlocks') \cup lost'
    <3>1. CASE werr /\ buf' = {}
      BY <1>2, <3>1 DEF Consume
    <3>2. CASE ~(werr /\ buf' = {})
      <4>1. Positions(buf \cup {Head(results)}) \subseteq Positions(buf' \cup InBlocks')
        BY <2>3, <3>2, PositionsUnion
      <4>2. Positions(buf' \cup InBlocks') = Positions(buf') \cup Positions(InBlocks')
        BY PositionsUnion
      <4> QED BY <4>1, <4>2
    <3> QED BY <3>1, <3>2
  <2>6. lost \subseteq lost' /\ (~werr => lost' = lost) /\ werr' = werr
    BY <1>2 DEF Consume, Add
  <2>7. Everywhere \subseteq Everywhere'
    BY <1>1, <2>4, <2>5, <2>6, EverywhereParts
  <2> QED BY <1>1, <2>6, <2>7
<1>3. CASE EndConsume
  <2>1. flushBlock(buf) /\ werr' = werr /\ results' = results
    BY <1>3 DEF EndConsume, CloseBlock
  <2>2. InBlocks \subseteq InBlocks' /\ (~werr => buf \subseteq InBlocks')
    BY <2>1, FlushKeeps DEF StoreTypeOK
  <2>3. Positions(InBlocks) \subseteq Positions(InBlocks')
    BY <2>2, PositionsUnion
  <2>4. Positions(buf) \subseteq Positions(InBlocks') \cup lost'
    <3>1. CASE werr
      BY <1>3, <3>1 DEF EndConsume
    <3>2. CASE ~werr
      BY <2>2, <3>2, PositionsUnion
    <3> QED BY <3>1, <3>2
  <2>5. lost \subseteq lost' /\ (~werr => lost' = lost)
    BY <1>3 DEF EndConsume
  <2>6. Everywhere \subseteq Everywhere'
    BY <1>1, <2>1, <2>3, <2>4, <2>5, EverywhereParts
  <2> QED BY <1>1, <2>1, <2>5, <2>6
<1>4. CASE FlushFile
  <2>1. /\ disk' = disk \o pend /\ pend' = <<>> /\ buf' = buf /\ werr' = werr
        /\ results' = results /\ lost' = lost
    BY <1>4 DEF FlushFile, CloseFlush
  <2>2. Elems(disk') = Elems(disk) \cup Elems(pend)
    BY <2>1, ElemsConcat DEF StoreTypeOK
  <2>3. InBlocks \subseteq InBlocks'
    <3>1. Elems(pend) \cup Elems(disk) \subseteq Elems(pend') \cup Elems(disk')
      BY <2>2
    <3>2. InBlocks' = (UNION Elems(pend')) \cup (UNION Elems(disk'))
      BY DEF InBlocks
    <3> QED BY <3>1, <3>2, UnionUnion DEF InBlocks
  <2>4. Positions(InBlocks) \subseteq Positions(InBlocks')
    BY <2>3, PositionsUnion
  <2>5. Everywhere \subseteq Everywhere'
    BY <1>1, <2>1, <2>4, EverywhereParts
  <2> QED BY <1>1, <2>1, <2>5
<1>5. CASE PatchHeader
  <2>1. /\ InBlocks' = InBlocks /\ buf' = buf /\ werr' = werr
        /\ results' = results /\ lost' = lost
    BY <1>5 DEF PatchHeader, CloseHeader, writerVars, InBlocks
  <2> QED BY <1>1, <2>1, EverywhereParts
<1>6. CASE CloseFails
  <2>1. /\ InBlocks' = InBlocks /\ buf' = buf /\ werr' = werr
        /\ results' = results /\ lost' = lost
    BY <1>6, BlocksSame DEF CloseFails
  <2> QED BY <1>1, <2>1, EverywhereParts
<1> QED BY <1>2, <1>3, <1>4, <1>5, <1>6

LEMMA NextNothingVanishes ==
    ASSUME TypeInv, NothingVanishes, [Next]_vars
    PROVE  NothingVanishes'
<1> DEFINE Range == start..(produced - 1)
<1>0. ASSUME svc = "up", UNCHANGED <<start, produced>>, Everywhere \subseteq Everywhere',
             lost' = lost \/ cancelled' \/ werr', cancelled => cancelled', werr => werr'
      PROVE  NothingVanishes'
  <2>1. Range \subseteq Everywhere'
    BY <1>0 DEF NothingVanishes, Everywhere
  <2>2. ~cancelled' /\ ~werr' => lost' = {}
    BY <1>0 DEF NothingVanishes
  <2> QED BY <1>0, <2>1, <2>2 DEF NothingVanishes, Everywhere
<1>1. CASE svc' # "up"
  BY <1>1 DEF NothingVanishes
<1>2. CASE Start \/ StartFresh
  <2>1. PICK first : Launch(first)
    BY <1>2 DEF Start, StartFresh
  <2>2. first \in Int
    <3>1. CASE Start
      BY <2>1, <3>1, ResumeBehind
         DEF Start, Launch, TypeInv, TypeOK, GeneratorTypeOK
    <3>2. CASE StartFresh
      BY <2>1, <3>2 DEF StartFresh, Launch
    <3> QED BY <1>2, <3>1, <3>2
  <2>3. start' = first /\ produced' = first /\ lost' = {}
    BY <2>1 DEF Launch
  <2>4. (start..(produced - 1))' = {}
    BY <2>2, <2>3
  <2> QED BY <2>3, <2>4 DEF NothingVanishes
<1>3. CASE StartRefused
  BY <1>3 DEF StartRefused, NothingVanishes
<1>4. CASE EmitSharded \/ EmitTarget
  <2>1. /\ Everywhere \cup {produced} \subseteq Everywhere'
        /\ produced' = produced + 1
        /\ start' = start /\ cancelled' = cancelled /\ lost' = lost /\ werr' = werr
    BY <1>4, EmitKeeps
  <2>2. svc = "up"
    BY <1>4 DEF EmitSharded, EmitTarget, Emit
  <2>3. (start..(produced - 1))' \subseteq Range \cup {produced}
    BY <2>1 DEF TypeInv, TypeOK, GeneratorTypeOK
  <2>4. Range \subseteq Everywhere
    BY <2>2 DEF NothingVanishes, Everywhere
  <2>5. (start..(produced - 1))' \subseteq Everywhere'
    BY <2>1, <2>3, <2>4
  <2>6. ~cancelled' /\ ~werr' => lost' = {}
    BY <2>1, <2>2 DEF NothingVanishes
  <2> QED BY <2>5, <2>6 DEF NothingVanishes, Everywhere
<1>5. CASE GenStops \/ FinalCursor \/ RecvCursor \/ WriteCursor \/ Signal
  <2>1. /\ svc = "up" /\ UNCHANGED <<start, produced>>
        /\ UNCHANGED storeVars /\ UNCHANGED <<ips, hand, results, lost>>
        /\ cancelled => cancelled'
    BY <1>5 DEF GenStops, FinalCursor, RecvCursor, WriteCursor, Signal, genVars,
                workerVars
  <2> QED BY <1>0, <2>1, EverywhereSame, BlocksSame
<1>6. CASE ScanFails
  <2>1. PICK q \in 0..produced :
          /\ produced # start => q = produced
          /\ produced' = q
          /\ start' = IF produced # start THEN start ELSE q
    BY <1>6 DEF ScanFails
  <2>2. /\ svc = "up" /\ UNCHANGED storeVars /\ cancelled' = cancelled
        /\ UNCHANGED <<ips, hand, results, lost>>
    BY <1>6 DEF ScanFails, workerVars
  <2>3. Everywhere' = Everywhere /\ werr' = werr
    BY <2>2, EverywhereSame, BlocksSame
  <2>4. CASE produced # start
    BY <1>0, <2>1, <2>2, <2>3, <2>4
  <2>5. CASE produced = start
    <3>1. (start..(produced - 1))' = {}
      BY <2>1, <2>5 DEF TypeInv, TypeOK, GeneratorTypeOK
    <3>2. ~cancelled' /\ ~werr' => lost' = {}
      BY <2>2, <2>3 DEF NothingVanishes
    <3> QED BY <3>1, <3>2 DEF NothingVanishes
  <2> QED BY <2>4, <2>5
<1>7. ASSUME NEW w \in Workers, Worker(w)
      PROVE  NothingVanishes'
  <2>1. /\ svc = "up" /\ UNCHANGED <<start, produced, cancelled>>
        /\ UNCHANGED storeVars /\ (lost' = lost \/ cancelled)
    BY <1>7 DEF Worker, Take, GetToken, AbortToken, Lookup, Send, Drop, Leave,
                WorkerStep, genVars
  <2> QED BY <1>0, <1>7, <2>1, WorkerKeeps, BlocksSame
<1>8. CASE Consume \/ EndConsume \/ FlushFile \/ PatchHeader \/ CloseFails
  <2>1. svc = "up"
    BY <1>8 DEF Consume, EndConsume, FlushFile, PatchHeader, CloseFails
  <2> QED BY <1>0, <1>8, <2>1, MainKeeps
<1>9. CASE DiskFails
  <2>1. /\ svc = "up" /\ UNCHANGED <<start, produced, cancelled>>
        /\ werr' /\ InBlocks' = InBlocks /\ buf' = buf
        /\ UNCHANGED <<ips, results, lost>> /\ Held' = Held
    BY <1>9 DEF DiskFails, WriteFails, InBlocks, fileVars, genVars, workerVars, Held
  <2>2. Everywhere' = Everywhere
    BY <2>1, EverywhereParts
  <2> QED BY <1>0, <2>1, <2>2
<1>10. CASE Exit \/ Crash
  BY <1>1, <1>10 DEF Exit, Crash
<1>11. CASE UNCHANGED vars
  <2>1. UNCHANGED <<storeVars, svc, start, produced, cancelled, ips, hand, results, lost>>
    BY <1>11 DEF vars, genVars, workerVars
  <2> QED
    BY <1>0, <1>1, <2>1, EverywhereSame, BlocksSame
<1> QED
  BY <1>2, <1>3, <1>4, <1>5, <1>6, <1>7, <1>8, <1>9, <1>10, <1>11
     DEF Next, Service, Generator, CursorGoroutine, Main, Faults, Halted

\* Whatever the interleaving of the generator, the workers and the consumer:
\* a target handed out by the running process is in the pipeline or in the
\* file unless it was dropped, and only a cancelled context or a failed write
\* drops one (Crawler.Run, pipeline, Writer).
THEOREM NothingVanishesHolds == Spec => []NothingVanishes
<1>1. Init => NothingVanishes
  BY DEF Init, NothingVanishes
<1> QED BY <1>1, NextNothingVanishes, TypeInvariance, PTL DEF Spec
-----------------------------------------------------------------------------
(* The file only grows.                                                    *)

\* What the file holds stays, at its place.
Grows == \A i \in DOMAIN disk : i \in DOMAIN disk' /\ disk'[i] = disk[i]

LEMMA SpillGrows ==
    ASSUME NEW R, disk \in Seq(SUBSET R), NEW q \in Seq(SUBSET R), Spill(q)
    PROVE  Grows
<1>1. PICK k \in 0..Len(q) : disk' = disk \o SubSeq(q, 1, k)
  BY DEF Spill
<1>2. SubSeq(q, 1, k) \in Seq(SUBSET R)
  BY SplitType
<1> QED BY <1>1, <1>2 DEF Grows

LEMMA FlushGrows ==
    ASSUME NEW R, StoreTypeOK(R), NEW block \in SUBSET R, flushBlock(block)
    PROVE  Grows
<1>1. CASE disk' = disk
  BY <1>1 DEF Grows
<1>2. CASE Spill(Append(pend, block))
  BY <1>2, AppendType, SpillGrows DEF StoreTypeOK
<1> QED BY <1>1, <1>2 DEF flushBlock

LEMMA AbandonGrows ==
    ASSUME NEW R, StoreTypeOK(R), Abandon
    PROVE  Grows
  BY DEF Abandon, StoreTypeOK, Grows

\* A running process has opened its file, and without a file there are no blocks.
FileExists == (svc = "up" => hdr # "none") /\ (hdr = "none" => disk = <<>>)

LEMMA NextFileExists == FileExists /\ [Next]_vars => FileExists'
<1> SUFFICES ASSUME FileExists, [Next]_vars PROVE FileExists'
  OBVIOUS
<1>1. CASE Start \/ StartFresh
  BY <1>1 DEF Start, StartFresh, NewWriterResume, NewWriter, FileExists, fileVars
<1>2. CASE svc = "up" /\ hdr' = hdr
  BY <1>2 DEF FileExists
<1>3. CASE svc = "up" /\ hdr' = "final"
  BY <1>3 DEF FileExists
<1>4. CASE UNCHANGED <<hdr, disk>> /\ (svc' = svc \/ svc' # "up")
  BY <1>4 DEF FileExists
<1>5. ASSUME NEW w \in Workers, Worker(w)
      PROVE  svc = "up" /\ hdr' = hdr
  BY <1>5 DEF Worker, Take, GetToken, AbortToken, Lookup, Send, Drop, Leave, WorkerStep,
              storeVars, fileVars
<1>6. CASE Generator \/ CursorGoroutine
  BY <1>2, <1>6 DEF Generator, EmitSharded, EmitTarget, Emit, GenStops, FinalCursor,
              CursorGoroutine, RecvCursor, WriteCursor, storeVars, fileVars
<1>7. CASE Main
  BY <1>2, <1>3, <1>7 DEF Main, Consume, Add, EndConsume, CloseBlock, FlushFile, CloseFlush,
              PatchHeader, CloseHeader, CloseFails, Exit, ProcessGone, Abandon, storeVars,
              fileVars
<1>8. CASE Faults
  BY <1>2, <1>8 DEF Faults, ScanFails, Signal, Crash, ProcessGone, Abandon, DiskFails,
              WriteFails, storeVars, fileVars
<1>9. CASE StartRefused \/ UNCHANGED vars
  BY <1>4, <1>9 DEF StartRefused, vars, storeVars, fileVars
<1> QED
  BY <1>1, <1>2, <1>5, <1>6, <1>7, <1>8, <1>9 DEF Next, Service, Halted

LEMMA NextGrows ==
    ASSUME TypeInv, FileExists, [Next]_vars
    PROVE  Grows \/ StartFresh
<1> USE DEF TypeInv, TypeOK
<1>1. CASE UNCHANGED disk
  BY <1>1 DEF Grows
<1>2. CASE Start
  <2>1. CASE NewWriter /\ hdr = "none"
    BY <2>1 DEF FileExists, Grows
  <2>2. CASE UNCHANGED fileVars
    BY <2>2, <1>1 DEF fileVars
  <2> QED BY <1>2, <2>1, <2>2 DEF Start, NewWriterResume
<1>3. CASE Consume
  <2>1. Head(results) \in Rec
    BY <1>3, HeadTailType DEF Consume, ChannelsTypeOK
  <2>2. buf \cup {Head(results)} \in SUBSET Rec
    BY <2>1 DEF StoreTypeOK
  <2> QED BY <1>1, <1>3, <2>2, FlushGrows DEF Consume, Add
<1>4. CASE EndConsume
  BY <1>4, FlushGrows DEF EndConsume, CloseBlock, StoreTypeOK
<1>5. CASE FlushFile
  <2>1. disk' = disk \o pend
    BY <1>5 DEF FlushFile, CloseFlush
  <2> QED BY <2>1 DEF StoreTypeOK, Grows
<1>6. CASE Exit \/ Crash
  BY <1>6, AbandonGrows DEF Exit, Crash, ProcessGone
<1>7. ASSUME NEW w \in Workers, Worker(w)
      PROVE  UNCHANGED disk
  BY <1>7 DEF Worker, Take, GetToken, AbortToken, Lookup, Send, Drop, Leave, WorkerStep,
              storeVars, fileVars
<1>8. CASE StartRefused \/ Generator \/ CursorGoroutine
  BY <1>1, <1>8 DEF StartRefused, Generator, EmitSharded, EmitTarget, Emit, GenStops,
              FinalCursor, CursorGoroutine, RecvCursor, WriteCursor, storeVars, fileVars
<1>9. CASE PatchHeader \/ CloseFails \/ ScanFails \/ Signal \/ DiskFails
  BY <1>1, <1>9 DEF PatchHeader, CloseHeader, CloseFails, ScanFails, Signal, DiskFails,
              WriteFails, storeVars, fileVars
<1>10. CASE UNCHANGED vars
  BY <1>1, <1>10 DEF vars, storeVars, fileVars
<1> QED
  BY <1>1, <1>2, <1>3, <1>4, <1>5, <1>6, <1>7, <1>8, <1>9, <1>10
     DEF Next, Service, Main, Faults, Halted

LEMMA FileExistsInvariance == Spec => []FileExists
<1>1. Init => FileExists
  BY DEF Init, StoreInit, FileExists
<1> QED BY <1>1, NextFileExists, PTL DEF Spec

\* For every interleaving, crash, failed write and restart: a block in the file
\* stays where it is until the operator starts without --resume
\* (NewWriterResume, flushBlock, Close).
THEOREM FileOnlyGrowsHolds == Spec => FileOnlyGrows
<1>1. TypeInv /\ FileExists /\ [Next]_vars
        => [(\A i \in DOMAIN disk : i \in DOMAIN disk' /\ disk'[i] = disk[i])
              \/ StartFresh]_vars
  BY NextGrows DEF Grows
<1> QED BY <1>1, FileExistsInvariance, TypeInvariance, PTL DEF Spec, FileOnlyGrows

-----------------------------------------------------------------------------
(* The cursor file never moves backwards.                                  *)

\* In crawl mode the cursor values come from one run after another, each behind
\* the position the run has reached: file, goroutine and channel are ordered.
CursorsOrdered ==
    svc = "up" =>
        /\ curFile < produced
        /\ curHeld # NoCursor => curFile < curHeld /\ curHeld < produced
        /\ curCh # NoCursor => curFile < curCh /\ curCh < produced
        /\ curCh # NoCursor /\ curHeld # NoCursor => curHeld < curCh

LEMMA NextCursorsOrdered ==
    ASSUME Mode = "crawl", "fresh" \notin Events, TypeInv, CursorsOrdered, [Next]_vars
    PROVE  CursorsOrdered' /\ curFile' >= curFile
<1> USE DEF TypeInv, TypeOK
<1>0. /\ curFile \in Int /\ curHeld \in Int /\ curCh \in Int /\ produced \in Nat
      /\ curFile >= NoCursor /\ curHeld >= NoCursor /\ curCh >= NoCursor
  BY NodeAssumption DEF CursorTypeOK, GeneratorTypeOK, NoCursor
<1>1. CASE UNCHANGED <<curFile, curHeld, curCh, produced, svc>>
  BY <1>0, <1>1 DEF CursorsOrdered
<1>2. CASE Start
  <2>1. curFile' = curFile /\ produced' = ResumePoint(curFile)
        /\ curCh' = NoCursor /\ curHeld' = NoCursor
    BY <1>2 DEF Start, Launch
  <2>2. curFile < ResumePoint(curFile)
    BY <1>0 DEF ResumePoint, CrawlStart, NoCursor
  <2> QED BY <1>0, <2>1, <2>2 DEF CursorsOrdered
<1>3. CASE StartRefused
  BY <1>0, <1>3 DEF StartRefused, CursorsOrdered, cursorVars
<1>4. CASE EmitSharded
  <2>1. /\ svc = "up" /\ curFile' = curFile /\ curHeld' = curHeld /\ produced' = produced + 1
        /\ curCh' = curCh \/ (curCh = NoCursor /\ curCh' = produced)
    BY <1>4 DEF EmitSharded, Emit
  <2> QED BY <1>0, <2>1 DEF CursorsOrdered
<1>5. CASE RecvCursor
  BY <1>0, <1>5 DEF RecvCursor, CursorsOrdered, genVars
<1>6. CASE WriteCursor
  <2>1. /\ svc = "up" /\ curHeld # NoCursor /\ curHeld' = NoCursor
        /\ curFile' = curHeld \/ curFile' = curFile
        /\ UNCHANGED <<curCh, produced>>
    BY <1>6 DEF WriteCursor, genVars
  <2> QED BY <1>0, <2>1 DEF CursorsOrdered
<1>7. CASE Exit \/ Crash
  BY <1>0, <1>7 DEF Exit, Crash, ProcessGone, CursorsOrdered
<1>8. CASE EmitTarget \/ FinalCursor \/ ScanFails \/ StartFresh
  BY <1>8 DEF EmitTarget, FinalCursor, ScanFails, StartFresh, GeneratorTypeOK
<1>9. ASSUME NEW w \in Workers, Worker(w)
      PROVE  UNCHANGED <<curFile, curHeld, curCh, produced, svc>>
  BY <1>9 DEF Worker, Take, GetToken, AbortToken, Lookup, Send, Drop, Leave, WorkerStep,
              genVars, cursorVars
<1>10. CASE GenStops \/ Consume \/ EndConsume \/ FlushFile \/ PatchHeader \/ CloseFails
            \/ Signal \/ DiskFails \/ UNCHANGED vars
  BY <1>1, <1>10 DEF GenStops, Consume, EndConsume, FlushFile, PatchHeader, CloseFails,
              MainFrame, Signal, DiskFails, vars, genVars, cursorVars
<1> QED
  BY <1>1, <1>2, <1>3, <1>4, <1>5, <1>6, <1>7, <1>8, <1>9, <1>10
     DEF Next, Service, Generator, CursorGoroutine, Main, Faults, Halted

\* A crawling node that is always started with --resume never moves its cursor
\* file back, whatever crashes: a value read from the channel late is never
\* older than the one in the file (writeCursor, GenerateShardedFull).
THEOREM CursorMonotoneHolds ==
    ASSUME Mode = "crawl", "fresh" \notin Events
    PROVE  Spec => CursorMonotone
<1>1. Init => CursorsOrdered
  BY DEF Init, CursorsOrdered
<1>2. TypeInv /\ CursorsOrdered /\ [Next]_vars
        => CursorsOrdered' /\ [curFile' >= curFile]_vars
  BY NextCursorsOrdered
<1> QED BY <1>1, <1>2, TypeInvariance, PTL DEF Spec, CursorMonotone
=============================================================================
