--------------------------- MODULE HardQuotaFences ---------------------------
(***************************************************************************)
(* The fences and the size of the document of HardQuota, proved for every  *)
(* value of its constants: the fences only move forward, no send admitted  *)
(* under a cap shares a window with a send that was never recorded, and    *)
(* the document never outgrows the store's limit.                          *)
(***************************************************************************)
EXTENDS HardQuotaCaps

-----------------------------------------------------------------------------
(* The fences move forward                                                 *)

\* A change of the service leaves the fences alone.
LEMMA ChangedFences ==
  ASSUME NEW t \in Task, NEW d \in Document, NEW now \in Time, pc[t] \in ServicePc
  PROVE  LET e == Changed(t, d, now)
         IN /\ e.exists = d.exists /\ e.validAfter = d.validAfter
            /\ e.replayFloor = d.replayFloor /\ e.observedAt = d.observedAt
            /\ e.blocked = d.blocked
<1>1. ASSUME NEW s
      PROVE  LET e == WithRow(d, KeyOf[t], s)
             IN /\ e.exists = d.exists /\ e.validAfter = d.validAfter
                /\ e.replayFloor = d.replayFloor /\ e.observedAt = d.observedAt
                /\ e.blocked = d.blocked
  BY DEF WithRow, Document
<1> QED BY <1>1 DEF Changed, Reserved, Dispatched, Released, Settled, ServicePc

\* Every step keeps the fences.
LEMMA FencesStep ==
  ASSUME DocumentInv, [Next]_vars
  PROVE  KeepsFences
<1>1. /\ doc \in Document
      /\ doc.replayFloor >= doc.replayFloor /\ doc.observedAt >= doc.observedAt
  BY DEF DocumentInv, TypeOK, Document, Time
<1>2. ASSUME doc' = doc PROVE KeepsFences
  BY <1>1, <1>2 DEF KeepsFences
<1>3. ASSUME NEW t \in Task, Write(t) PROVE KeepsFences
  <2> DEFINE now == snap[t]
             e == Reconciled(doc, now)
  <2>1. now \in Time /\ now >= doc.observedAt
    BY <1>3 DEF DocumentInv, TypeOK, SnapshotsCurrent, Write, Writer
  <2>2. e \in Document /\ pc[t] \in ServicePc /\ doc' = Changed(t, e, now)
    BY <1>1, <1>3, <2>1, ReconciledType DEF Write, Accepts, ServicePc
  <2>3. /\ e.exists = doc.exists /\ e.validAfter = doc.validAfter
        /\ e.blocked = doc.blocked /\ e.observedAt = now /\ e.replayFloor >= doc.replayFloor
    BY <1>1, <2>1, ReconciledFields
  <2> HIDE DEF now, e
  <2>4. /\ doc'.exists = e.exists /\ doc'.validAfter = e.validAfter
        /\ doc'.replayFloor = e.replayFloor /\ doc'.observedAt = e.observedAt
        /\ doc'.blocked = e.blocked
    BY <2>1, <2>2, ChangedFences
  <2> QED BY <2>1, <2>3, <2>4 DEF KeepsFences
<1>4. CASE WriteHolds
  <2>1. /\ doc'.exists = doc.exists /\ doc'.validAfter = doc.validAfter
        /\ doc'.replayFloor = doc.replayFloor /\ doc'.blocked = doc.blocked
        /\ doc'.observedAt = Later(doc.observedAt, snap["operator"])
    BY <1>1, <1>4 DEF WriteHolds, Document
  <2>2. snap["operator"] \in Time
    BY <1>4 DEF DocumentInv, TypeOK, WriteHolds, Writer
  <2>3. Later(doc.observedAt, snap["operator"]) >= doc.observedAt
    BY <1>1, <2>2 DEF Later, Document, Time
  <2> QED BY <1>1, <2>1, <2>3 DEF KeepsFences
<1>5. CASE Bootstrap
  BY <1>5 DEF Bootstrap, KeepsFences
<1>6. ASSUME NEW t \in Task, Step(t) \/ Fault(t) PROVE KeepsFences
  <2>1. CASE Commit(t) \/ Deliver(t)
    BY <1>3, <2>1 DEF Commit, Deliver
  <2>2. CASE ~(Commit(t) \/ Deliver(t))
    BY <1>2, <1>6, <2>2 DEF Step, Begin, RefuseBegin, Recheck, Send, RefuseSend,
                           Snapshot, Refuse, LostRace, Fault, Stop, RetrySettle
  <2> QED BY <2>1, <2>2
<1>7. CASE PlanResolution \/ ReadHolds \/ AbandonAttempt \/ Environment \/ UNCHANGED vars
  BY <1>2, <1>7 DEF PlanResolution, ReadHolds, AbandonAttempt, Environment, Tick,
                    ChangePolicy, LegacySend, vars
<1> QED BY <1>4, <1>5, <1>6, <1>7 DEF Next, Operator

\* The fences of the document only move forward.
THEOREM FencesKept == Spec => FencesAdvance
<1>1. DocumentInv /\ [Next]_vars => DocumentInv' /\ KeepsFences
  BY DocumentStep, FencesStep
<1> QED BY <1>1, InitDocument, PTL DEF Spec, FencesAdvance

-----------------------------------------------------------------------------
(* Unrecorded history                                                      *)

\* An identity that can no longer be dispatched: spent, or its row released.
Closed(k) == Spent(k) \/ doc.rows[k].phase = "released"

\* The windows a task is metered in, and capped by the policy it read.
CappedIn(t) == {w \in Windows : seen[t].cap[w] # Uncapped /\ Meters(w, PayloadOf[t])}

\* These windows begin after every writer enforced.
Covered(t) == \A w \in CappedIn(t) : CoverageStart <= clock - Span[w]

\* A task past its reservation is covered, unless its claim is bound to fail.
FenceInv ==
  /\ lastLegacy <= CoverageStart
  /\ \A t \in Task :
       /\ pc[t] \in {"recheck", "dispatch"} => Covered(t) \/ Closed(KeyOf[t])
       /\ pc[t] = "authorize" => Covered(t)
       /\ sentAt[t] # NoTime => /\ pc[t] \in {"settle", "done"}
                                /\ \A w \in CappedIn(t) : CoverageStart <= sentAt[t] - Span[w]

\* A released row is kept or pruned, and then its identity is spent.
LEMMA ReleasedWrite ==
  ASSUME DocumentInv, NEW t \in Task, Write(t), issued' = issued,
         NEW k \in Key, doc.rows[k].phase = "released"
  PROVE  Closed(k)'
<1> DEFINE now == snap[t]
           e == Reconciled(doc, now)
           r == doc.rows[k]
<1>1. /\ doc \in Document /\ now \in Time /\ issued \in [Key -> Time \cup {NoTime}]
      /\ t \in current /\ now # NoTime /\ KeyOf[t] \in Key
  BY TasksAssumption DEF DocumentInv, TypeOK, Write, Writer
<1>2. doc.exists /\ now >= doc.observedAt /\ Valid(doc)
  BY <1>1 DEF DocumentInv, SnapshotsCurrent, DocumentStaysReadable
<1>3. /\ e \in Document /\ Valid(e) /\ Accepts(t, e, now)
      /\ doc' = Changed(t, e, now) /\ pc[t] \in ServicePc
  BY <1>1, <1>2, ReconciledType, ReconciledValid DEF Write, Accepts, ServicePc
<1>4. ValidRow(doc, k) /\ Expire(r, now) = r
  BY <1>2 DEF Valid, Present, Expire
<1>5. CASE e.rows[k].phase = "absent" /\ issued[k] < e.replayFloor
  <2>1. SpentIn(e, k)
    BY <1>4, <1>5 DEF SpentIn, ValidRow
  <2> HIDE DEF now, e
  <2>2. SpentIn(doc', k)
    BY <1>1, <1>3, <2>1, ChangedSpent DEF KeptSpent
  <2> QED BY <2>2 DEF Closed, Spent, SpentIn
<1>6. CASE e.rows[k] = r
  <2> HIDE DEF now, e
  <2>1. doc'.rows[k] = r
    <3>1. CASE k # KeyOf[t]
      BY <1>1, <1>3, <1>6, <3>1, OtherRows
    <3>2. CASE k = KeyOf[t]
      <4>1. r.settlement = "none"
        BY <1>1, <1>4 DEF ValidRow, Document, Row
      <4>2. pc[t] \in {"reserve", "release"}
        BY <1>3, <1>6, <3>2, <4>1 DEF Accepts, CanDispatch, CanSettle
      <4>3. doc' = e
        BY <1>3, <1>6, <3>2, <4>2 DEF Changed, Reserved, Released
      <4> QED BY <1>6, <4>3
    <3> QED BY <3>1, <3>2
  <2> QED BY <2>1 DEF Closed
<1> QED BY <1>1, <1>4, <1>5, <1>6, ReconciledRow DEF Absent

\* A closed identity stays closed.
LEMMA ClosedStep ==
  ASSUME DocumentInv, [Next]_vars, NEW k \in Key, Closed(k)
  PROVE  Closed(k)'
<1>1. CASE Spent(k)
  BY <1>1, DocumentStep DEF KeepsSpent, Closed
<1>2. CASE doc.rows[k].phase = "released"
  <2>1. ASSUME doc' = doc PROVE Closed(k)'
    BY <1>2, <2>1 DEF Closed
  <2>2. ASSUME NEW t \in Task, Step(t) \/ Fault(t) PROVE Closed(k)'
    <3>1. CASE Commit(t) \/ Deliver(t)
      BY <1>2, <3>1, ReleasedWrite DEF Commit, Deliver
    <3>2. CASE ~(Commit(t) \/ Deliver(t))
      BY <2>1, <2>2, <3>2 DEF Step, Begin, RefuseBegin, Recheck, Send, RefuseSend,
                             Snapshot, Refuse, LostRace, Fault, Stop, RetrySettle
    <3> QED BY <3>1, <3>2
  <2>3. CASE Bootstrap
    BY <1>2, <2>3 DEF Bootstrap, DocumentInv, NothingBefore
  <2>4. CASE WriteHolds
    <3>1. k \notin {h.key : h \in plan}
      BY <1>2, <2>4 DEF DocumentInv, PlanSound, Unchanged, WriteHolds
    <3>2. doc'.rows[k] = doc.rows[k]
      BY <2>4, <3>1 DEF WriteHolds, DocumentInv, TypeOK, Document
    <3> QED BY <1>2, <3>2 DEF Closed
  <2>5. CASE PlanResolution \/ ReadHolds \/ AbandonAttempt \/ Environment \/ UNCHANGED vars
    BY <2>1, <2>5 DEF PlanResolution, ReadHolds, AbandonAttempt, Environment, Tick,
                      ChangePolicy, LegacySend, vars
  <2> QED BY <2>2, <2>3, <2>4, <2>5 DEF Next, Operator
<1> QED BY <1>1, <1>2 DEF Closed

\* A reservation commits with its windows covered, or on a closed identity.
LEMMA ReservationCovers ==
  ASSUME DocumentInv, SnapshotsPast, NEW t \in Task, Write(t), pc[t] = "reserve"
  PROVE  \/ Covered(t)
         \/ doc'.rows[KeyOf[t]].phase \in {"dispatched", "settled", "released"}
<1> DEFINE now == snap[t]
           e == Reconciled(doc, now)
           k == KeyOf[t]
<1>1. /\ doc \in Document /\ now \in Time /\ k \in Key /\ now <= clock /\ clock \in Time
  BY TasksAssumption DEF DocumentInv, TypeOK, Write, Writer, SnapshotsPast
<1>2. e \in Document /\ CanReserve(t, e, now) /\ doc' = Reserved(t, e, now)
  BY <1>1, ReconciledType DEF Write, Accepts, Changed
<1> HIDE DEF now, e
<1>3. ASSUME NEW p, WithinLimits(e, k, p, seen[t], now), p = PayloadOf[t] PROVE Covered(t)
  <2>1. SUFFICES ASSUME NEW w \in CappedIn(t) PROVE CoverageStart <= clock - Span[w]
    BY DEF Covered
  <2>2. now - Span[w] >= Fence(e)
    BY <1>3, <2>1 DEF WithinLimits, CappedIn
  <2>3. Fence(e) \in Int /\ Fence(e) >= CoverageStart
    BY <1>2, TimesAssumption DEF Fence, Later, Document, Time
  <2>4. Span[w] \in Nat
    BY SpanType DEF CappedIn
  <2> QED BY <1>1, <2>2, <2>3, <2>4, TimesAssumption DEF Time
<1>4. CASE e.rows[k].phase = "absent" \/ e.rows[k].phase = "reserved"
  <2>1. \E p : WithinLimits(e, k, p, seen[t], now) /\ p = PayloadOf[t]
    BY <1>2, <1>4 DEF CanReserve, Owns
  <2> QED BY <1>3, <2>1
<1>5. CASE e.rows[k].phase \notin {"absent", "reserved"}
  <2>1. doc' = e
    BY <1>2, <1>5 DEF Reserved
  <2>2. e.rows[k] \in Row
    BY <1>1, <1>2 DEF Document
  <2> QED BY <1>5, <2>1, <2>2 DEF Row, Phases
<1> QED BY <1>4, <1>5

\* What one step may do to a task on its way to a dispatch.
Proceeds(t) ==
  /\ clock' >= clock
  /\ seen'[t] = seen[t] \/ (pc[t] = "start" /\ pc'[t] = "reserve" /\ sentAt'[t] = sentAt[t])
  /\ pc'[t] = "recheck" => pc[t] = "recheck" \/ (pc[t] = "reserve" /\ Commit(t))
  /\ pc'[t] = "dispatch" => pc[t] \in {"recheck", "dispatch"}
  /\ lastLegacy' = lastLegacy \/ lastLegacy' <= CoverageStart

\* Every step takes a task one of these ways.
LEMMA ProceedsHold ==
  ASSUME TypeOK, Next, NEW t \in Task
  PROVE  Proceeds(t)
<1>1. clock >= clock /\ clock + 1 >= clock
  BY DEF TypeOK, Time
<1>2. CASE Operator \/ Environment
  BY <1>1, <1>2 DEF Proceeds, Operator, Bootstrap, PlanResolution, ReadHolds, WriteHolds,
                    AbandonAttempt, Environment, Tick, ChangePolicy, LegacySend
<1>3. ASSUME NEW u \in Task, Step(u), u # t PROVE Proceeds(t)
  <2>1. UNCHANGED <<clock, lastLegacy>> /\ pc'[t] = pc[t] /\ seen'[t] = seen[t]
    BY <1>3 DEF Step, Begin, RefuseBegin, Recheck, Send, RefuseSend, Snapshot, Refuse,
                Commit, LostRace, TypeOK
  <2> QED BY <1>1, <2>1 DEF Proceeds
<1>4. ASSUME NEW u \in Task, Fault(u) PROVE Proceeds(t)
  BY <1>1, <1>4 DEF Proceeds, Fault, Stop, Deliver, RetrySettle
<1>5. CASE Step(t)
  <2> USE DEF Proceeds, TypeOK
  <2>1. CASE Begin(t)
    BY <1>1, <2>1 DEF Begin
  <2>2. CASE RefuseBegin(t) \/ Snapshot(t) \/ Refuse(t) \/ LostRace(t)
    BY <1>1, <2>2 DEF RefuseBegin, Snapshot, Refuse, LostRace
  <2>3. CASE Recheck(t) \/ Send(t) \/ RefuseSend(t)
    BY <1>1, <2>3 DEF Recheck, Send, RefuseSend
  <2>4. CASE Commit(t)
    BY <1>1, <2>4 DEF Commit, Calling, After, ServicePc
  <2> QED BY <1>5, <2>1, <2>2, <2>3, <2>4 DEF Step
<1> QED BY <1>2, <1>3, <1>4, <1>5 DEF Next

\* Every step keeps FenceInv.
LEMMA FenceStep ==
  ASSUME CapInv, FenceInv, [Next]_vars
  PROVE  FenceInv'
<1>1. /\ TypeOK /\ TypeOK' /\ DocumentInv /\ SnapshotsPast
      /\ clock \in Time /\ clock' \in Time
  BY TypeStep DEF CapInv, DocumentInv, TypeOK
<1>2. CASE UNCHANGED vars
  BY <1>2 DEF vars, FenceInv, Covered, CappedIn, Closed, Spent, SpentIn
<1>3. CASE Next
  <2>1. SUFFICES ASSUME NEW t \in Task
                 PROVE  /\ pc'[t] \in {"recheck", "dispatch"} =>
                             Covered(t)' \/ Closed(KeyOf[t])'
                        /\ pc'[t] = "authorize" => Covered(t)'
                        /\ sentAt'[t] # NoTime =>
                             /\ pc'[t] \in {"settle", "done"}
                             /\ \A w \in CappedIn(t)' : CoverageStart <= sentAt'[t] - Span[w]
    <3>1. lastLegacy' <= CoverageStart
      <4>1. CASE LegacySend
        BY <4>1 DEF LegacySend
      <4>2. CASE ~LegacySend
        BY <1>3, <4>2 DEF FenceInv, Next, Step, Begin, RefuseBegin, Recheck, Send,
               RefuseSend, Snapshot, Refuse, Commit, LostRace, Fault, Stop, Deliver,
               RetrySettle, Operator, Bootstrap, PlanResolution, ReadHolds, WriteHolds,
               AbandonAttempt, Environment, Tick, ChangePolicy
      <4> QED BY <4>1, <4>2
    <3> QED BY <2>1, <3>1 DEF FenceInv
  <2>2. Moves(t) /\ Proceeds(t) /\ KeyOf[t] \in Key
    BY <1>1, <1>3, MovesHold, ProceedsHold, TasksAssumption
  <2>3. Closed(KeyOf[t]) => Closed(KeyOf[t])'
    BY <1>1, <2>2, ClosedStep
  <2>4. ASSUME Covered(t), seen'[t] = seen[t] PROVE Covered(t)'
    <3>1. CappedIn(t)' = CappedIn(t)
      BY <2>4 DEF CappedIn, Meters
    <3>2. ASSUME NEW w \in CappedIn(t) PROVE CoverageStart <= clock' - Span[w]
      <4>1. Span[w] \in Nat /\ CoverageStart <= clock - Span[w]
        BY <2>4, <3>2, SpanType DEF Covered, CappedIn
      <4> QED BY <1>1, <2>2, <4>1, TimesAssumption DEF Proceeds, Time
    <3> QED BY <3>1, <3>2 DEF Covered
  <2>5. CASE pc'[t] \in {"recheck", "dispatch"} /\ pc[t] \in {"recheck", "dispatch"}
    BY <2>2, <2>3, <2>4, <2>5 DEF FenceInv, Proceeds, Moves, Send
  <2>6. CASE pc'[t] \in {"recheck", "dispatch"} /\ pc[t] \notin {"recheck", "dispatch"}
    <3>1. Commit(t) /\ pc[t] = "reserve" /\ seen' = seen /\ sentAt' = sentAt
      BY <2>2, <2>6 DEF Proceeds, Commit
    <3>2. Covered(t) \/ Closed(KeyOf[t])'
      BY <1>1, <3>1, ReservationCovers DEF Commit, Closed, Spent, SpentIn
    <3> QED BY <2>4, <2>6, <3>1, <3>2 DEF FenceInv
  <2>7. CASE pc'[t] = "authorize"
    <3>1. CASE pc[t] = "authorize"
      <4>1. ~Send(t)
        BY <1>1, <2>7 DEF Send, TypeOK
      <4> QED BY <2>2, <2>4, <2>7, <3>1, <4>1 DEF FenceInv, Proceeds, Moves
    <3>2. CASE pc[t] = "dispatch" /\ Commit(t)
      <4>1. doc.rows[KeyOf[t]].phase = "reserved"
        BY <1>1, <3>2, ClaimIsFirst DEF Commit
      <4>2. Covered(t) /\ seen' = seen /\ sentAt' = sentAt
        BY <3>2, <4>1 DEF FenceInv, Closed, Spent, SpentIn, Commit
      <4> QED BY <2>4, <2>7, <3>2, <4>2 DEF FenceInv
    <3> QED BY <2>2, <2>7, <3>1, <3>2 DEF Moves
  <2>8. CASE pc'[t] \notin {"recheck", "dispatch", "authorize"}
    <3>1. CASE Send(t)
      <4>1. Covered(t) /\ seen' = seen /\ sentAt'[t] = clock /\ pc'[t] = "settle"
        BY <1>1, <3>1 DEF Send, FenceInv, TypeOK
      <4>2. CappedIn(t)' = CappedIn(t)
        BY <4>1 DEF CappedIn, Meters
      <4> QED BY <4>1, <4>2 DEF Covered
    <3>2. CASE ~Send(t)
      <4>1. sentAt'[t] = sentAt[t]
        BY <2>2, <3>2 DEF Moves
      <4>2. ASSUME sentAt[t] # NoTime
            PROVE  pc'[t] \in {"settle", "done"} /\ seen'[t] = seen[t]
        <5>1. pc[t] \in {"settle", "done"}
          BY <4>2 DEF FenceInv
        <5>2. ClaimsSpent'
          BY ClaimsStep DEF CapInv
        <5> QED BY <2>2, <4>1, <4>2, <5>1, <5>2 DEF ClaimsSpent, Proceeds
      <4>3. seen'[t] = seen[t] => CappedIn(t)' = CappedIn(t)
        BY DEF CappedIn, Meters
      <4> QED BY <2>8, <4>1, <4>2, <4>3 DEF FenceInv
    <3> QED BY <3>1, <3>2
  <2> QED BY <2>5, <2>6, <2>7, <2>8
<1> QED BY <1>2, <1>3

\* Nothing sent under a cap shares its window with a send that a revision
\* without hard mode never recorded.
THEOREM LegacyCovered == Spec => []FenceCoversLegacy
<1>1. Init => FenceInv
  BY TimesAssumption DEF Init, FenceInv, NoTime
<1>2. CapInv /\ FenceInv => FenceCoversLegacy
  <2> SUFFICES ASSUME CapInv, FenceInv, NEW t \in Sent, NEW w \in Windows,
                      lastLegacy # NoTime, seen[t].cap[w] # Uncapped, Meters(w, PayloadOf[t])
               PROVE  lastLegacy <= sentAt[t] - Span[w]
    BY DEF FenceCoversLegacy
  <2>1. t \in Task /\ sentAt[t] # NoTime
    BY DEF Sent
  <2>2. CoverageStart <= sentAt[t] - Span[w] /\ lastLegacy <= CoverageStart
    BY <2>1 DEF FenceInv, CappedIn
  <2>3. sentAt[t] \in Time /\ lastLegacy \in Time /\ Span[w] \in Nat
    BY <2>1, SpanType DEF CapInv, DocumentInv, TypeOK
  <2> QED BY <2>2, <2>3, TimesAssumption DEF Time
<1>3. CapInv /\ FenceInv /\ [Next]_vars => CapInv' /\ FenceInv'
  BY CapStep, FenceStep
<1> QED BY <1>1, <1>2, <1>3, InitCaps, PTL DEF Spec
-----------------------------------------------------------------------------
(* The size of the document                                                *)

\* The sizes of a document are cardinalities of finite sets.
LEMMA BytesFinite ==
  ASSUME NEW d, NEW size
  PROVE  IsFiniteSet(BytesOf(d, size))
<1>1. IsFiniteSet(Present(d))
  BY TasksAssumption, FS_Subset DEF Present
<1>2. IsFiniteSet(1..FullRowBytes)
  BY BytesAssumption, FS_Interval
<1>3. IsFiniteSet(Present(d) \X (1..FullRowBytes))
  BY <1>1, <1>2, FS_Product
<1> QED BY <1>3, FS_Subset DEF BytesOf

\* A document whose rows are taken from another's, pruned or moved on from an
\* outstanding phase, fits at full growth when the other does.
LEMMA FitsStill ==
  ASSUME NEW d, NEW e, TransitionsFit(d),
         \A k \in Key : \/ e.rows[k].phase \in {"absent", d.rows[k].phase}
                        \/ Protected(d.rows[k])
  PROVE  TransitionsFit(e)
<1>1. BytesOf(e, SizeGrown(e)) \subseteq BytesOf(d, SizeGrown(d))
  <2>1. SUFFICES ASSUME NEW c \in BytesOf(e, SizeGrown(e)) PROVE c \in BytesOf(d, SizeGrown(d))
    OBVIOUS
  <2>2. c \in Present(e) \X (1..FullRowBytes) /\ c[2] <= SizeGrown(e)[c[1]]
    BY DEF BytesOf
  <2>3. PICK k \in Present(e), n \in 1..FullRowBytes : c = <<k, n>>
    BY <2>2
  <2>4. n <= SizeGrown(e)[k]
    BY <2>2, <2>3
  <2>5. k \in Present(d)
    BY DEF Present, Protected
  <2>6. CASE Protected(d.rows[k])
    <3>1. SizeGrown(d)[k] = FullRowBytes /\ n <= FullRowBytes
      BY <2>5, <2>6, BytesAssumption DEF SizeGrown
    <3> QED BY <2>3, <2>5, <3>1 DEF BytesOf
  <2>7. CASE ~Protected(d.rows[k])
    <3>1. e.rows[k].phase = d.rows[k].phase
      BY <2>7 DEF Present
    <3>2. SizeGrown(e)[k] = SizeGrown(d)[k]
      BY <2>5, <3>1 DEF SizeGrown, Protected
    <3> QED BY <2>3, <2>4, <2>5, <3>2 DEF BytesOf
  <2> QED BY <2>6, <2>7
<1>2. /\ Cardinality(BytesOf(e, SizeGrown(e))) <= Cardinality(BytesOf(d, SizeGrown(d)))
      /\ Cardinality(BytesOf(e, SizeGrown(e))) \in Nat
      /\ Cardinality(BytesOf(d, SizeGrown(d))) \in Nat
  <2>1. IsFiniteSet(BytesOf(d, SizeGrown(d))) /\ IsFiniteSet(BytesOf(e, SizeGrown(e)))
    BY BytesFinite
  <2> QED BY <1>1, <2>1, FS_Subset, FS_CardinalityType
<1> QED BY <1>2, BytesAssumption DEF TransitionsFit

\* An empty document fits.
LEMMA EmptyFits ==
  ASSUME NEW d, \A k \in Key : d.rows[k].phase = "absent"
  PROVE  TransitionsFit(d)
<1>1. BytesOf(d, SizeGrown(d)) = {}
  BY DEF BytesOf, Present
<1> QED BY <1>1, BytesAssumption, FS_EmptySet DEF TransitionsFit

\* A document that fits at full growth fits today.
LEMMA GrownFits ==
  ASSUME NEW d \in Document, TransitionsFit(d)
  PROVE  Bytes(d) <= MaxBytes
<1>1. BytesOf(d, SizeToday(d)) \subseteq BytesOf(d, SizeGrown(d))
  <2>1. ASSUME NEW k \in Present(d), NEW n \in 1..FullRowBytes, n <= SizeToday(d)[k]
        PROVE  n <= SizeGrown(d)[k]
    BY <2>1 DEF SizeToday, SizeGrown
  <2> QED BY <2>1 DEF BytesOf
<1>2. /\ Bytes(d) <= Cardinality(BytesOf(d, SizeGrown(d)))
      /\ Bytes(d) \in Nat /\ Cardinality(BytesOf(d, SizeGrown(d))) \in Nat
  BY <1>1, BytesFinite, FS_Subset, FS_CardinalityType DEF Bytes
<1> QED BY <1>2, BytesAssumption DEF TransitionsFit

\* What the service writes fits at full growth when what it read did.
LEMMA WriteFits ==
  ASSUME DocumentInv, TransitionsFit(doc), NEW t \in Task, Write(t)
  PROVE  TransitionsFit(doc')
<1> DEFINE now == snap[t]
           e == Reconciled(doc, now)
           k == KeyOf[t]
<1>1. doc \in Document /\ now \in Time /\ k \in Key
  BY TasksAssumption DEF DocumentInv, TypeOK, Write, Writer
<1>2. /\ e \in Document /\ Accepts(t, e, now) /\ doc' = Changed(t, e, now)
      /\ pc[t] \in ServicePc
  BY <1>1, ReconciledType DEF Write, Accepts, ServicePc
<1>3. TransitionsFit(e)
  <2>1. ASSUME NEW j \in Key
        PROVE  \/ e.rows[j].phase \in {"absent", doc.rows[j].phase}
               \/ Protected(doc.rows[j])
    <3>1. doc.rows[j] \in Row
      BY <1>1 DEF Document
    <3>2. e.rows[j] = Expire(doc.rows[j], now) \/ e.rows[j] = Absent
      BY <1>1, ReconciledRow
    <3> HIDE DEF now, e
    <3> QED BY <3>1, <3>2 DEF Expire, Absent, Protected, Row
  <2> QED BY <2>1, FitsStill
<1> HIDE DEF now, e
<1>4. ASSUME NEW s, doc' = WithRow(e, k, s), Protected(e.rows[k]) PROVE TransitionsFit(doc')
  <2>1. \A j \in Key : j # k => doc'.rows[j] = e.rows[j]
    BY <1>1, <1>2, <1>4 DEF WithRow, Document
  <2> QED BY <1>3, <1>4, <2>1, FitsStill
<1>5. CASE pc[t] = "reserve"
  BY <1>2, <1>3, <1>5 DEF Accepts, CanReserve, Owns, Changed, Reserved
<1>6. CASE pc[t] = "dispatch"
  BY <1>2, <1>4, <1>6 DEF Accepts, CanDispatch, Changed, Dispatched, Protected
<1>7. CASE pc[t] = "release"
  BY <1>2, <1>3, <1>4, <1>7 DEF Accepts, CanRelease, Changed, Released, Protected
<1>8. CASE pc[t] = "settle"
  BY <1>2, <1>3, <1>4, <1>8 DEF Accepts, CanSettle, Changed, Settled, Protected
<1> QED BY <1>2, <1>5, <1>6, <1>7, <1>8 DEF ServicePc

\* Every step keeps the room that outstanding rows may still need.
LEMMA FitsStep ==
  ASSUME DocumentInv, TransitionsFit(doc), [Next]_vars
  PROVE  TransitionsFit(doc')
<1>1. ASSUME NEW t \in Task, Step(t) \/ Fault(t) PROVE TransitionsFit(doc')
  <2>1. CASE Commit(t) \/ Deliver(t)
    BY <2>1, WriteFits DEF Commit, Deliver
  <2>2. CASE ~(Commit(t) \/ Deliver(t))
    BY <1>1, <2>2 DEF Step, Begin, RefuseBegin, Recheck, Send, RefuseSend,
                      Snapshot, Refuse, LostRace, Fault, Stop, RetrySettle
  <2> QED BY <2>1, <2>2
<1>2. CASE Bootstrap
  BY <1>2, EmptyFits DEF Bootstrap, FreshDocument, Absent
<1>3. CASE WriteHolds
  <2>1. doc'.rows = [k \in Key |-> IF k \in {h.key : h \in plan}
                                   THEN ResolvedRow(doc.rows[k], snap["operator"])
                                   ELSE doc.rows[k]]
    BY <1>3 DEF WriteHolds, DocumentInv, TypeOK, Document
  <2>2. ASSUME NEW k \in {h.key : h \in plan} PROVE Protected(doc.rows[k])
    BY <1>3 DEF DocumentInv, PlanSound, Unchanged, WriteHolds, Protected
  <2>3. ASSUME NEW k \in Key
        PROVE  \/ doc'.rows[k].phase \in {"absent", doc.rows[k].phase}
               \/ Protected(doc.rows[k])
    BY <2>1, <2>2
  <2> QED BY <2>3, FitsStill
<1>4. CASE PlanResolution \/ ReadHolds \/ AbandonAttempt \/ Environment \/ UNCHANGED vars
  BY <1>4 DEF PlanResolution, ReadHolds, AbandonAttempt, Environment, Tick,
              ChangePolicy, LegacySend, vars
<1> QED BY <1>1, <1>2, <1>3, <1>4 DEF Next, Operator

\* No commit ever stores more than MAX_STATE_BYTES: the room checked when a row
\* is reserved lasts until the row is settled and pruned, whatever else commits.
THEOREM RoomLasts == Spec => []DocumentFits
<1>1. Init => TransitionsFit(doc)
  <2>1. SUFFICES ASSUME Init PROVE TransitionsFit(doc)
    OBVIOUS
  <2>2. \A k \in Key : doc.rows[k].phase = "absent"
    BY <2>1 DEF Init, NoDocument, FreshDocument, Absent
  <2> QED BY <2>2, EmptyFits
<1>2. DocumentInv /\ TransitionsFit(doc) /\ [Next]_vars => DocumentInv' /\ TransitionsFit(doc)'
  BY DocumentStep, FitsStep
<1>3. DocumentInv /\ TransitionsFit(doc) => DocumentFits
  BY GrownFits DEF DocumentInv, TypeOK, DocumentFits
<1> QED BY <1>1, <1>2, <1>3, InitDocument, PTL DEF Spec
=============================================================================
