---------------------------- MODULE HardQuotaCaps ----------------------------
(***************************************************************************)
(* The rolling caps of HardQuota, proved for every value of its constants, *)
(* and the promise of SendLimit they amount to.                            *)
(*                                                                         *)
(* The argument has two halves.  CountedWithinCaps: the rows that count in *)
(* a window now are no more than the cap, because a reservation counts     *)
(* them before it adds its own and every other change only lets them age.  *)
(* SendsRecorded: every send still in its window has such a row, because a *)
(* settlement is dated no earlier than the send it settles (up to Lag) and *)
(* a settled row is retained at least as long as it counts.                *)
(***************************************************************************)
EXTENDS HardQuotaProofs, FiniteSetTheorems

-----------------------------------------------------------------------------
(* The invariants                                                          *)

\* The rows that count now are within the largest cap.
CountedWithinCaps ==
  \A w \in Windows : Cardinality(Counted(doc, w, clock)) <= HighestCap[w]

\* No snapshot is dated ahead of the store's clock, and only a service call
\* has one.
SnapshotsPast ==
  /\ \A x \in Writer : snap[x] <= clock
  /\ \A t \in Task : pc[t] \notin ServicePc => snap[t] = NoTime

\* How long the settled row of a task is retained.
KeepFor(t) == IF PayloadOf[t] \in ComputePayload THEN Day ELSE Minute

\* What the document says of a task that claimed, and of its send.
SendsRecorded ==
  \A t \in Task :
    /\ Claimed(t) /\ doc.rows[KeyOf[t]].phase # "absent"
         => doc.rows[KeyOf[t]].payload = PayloadOf[t]
    /\ status[t] = "raised" => pc[t] = "settle"
    /\ pc[t] = "authorize" /\ status[t] = "up"
         => doc.rows[KeyOf[t]].phase = "dispatched"
    /\ sentAt[t] # NoTime =>
         /\ sentAt[t] <= clock
         /\ snap[t] # NoTime => snap[t] >= sentAt[t] - Lag
         /\ doc.rows[KeyOf[t]].phase = "settled"
              => doc.rows[KeyOf[t]].settledAt >= sentAt[t] - Lag
         /\ doc.rows[KeyOf[t]].phase = "absent"
              => sentAt[t] - Lag < clock - KeepFor(t)

\* The holders of a planned hold are gone, and sent before the resolution.
PlanHeld ==
  \A h \in plan :
    /\ Spent(h.key)
    /\ \A t \in Task : KeyOf[t] = h.key =>
         /\ pc[t] \in {"authorize", "settle"} => status[t] = "down"
         /\ sentAt[t] # NoTime /\ snap["operator"] # NoTime
              => snap["operator"] >= sentAt[t] - Lag

-----------------------------------------------------------------------------
(* The first half: the rows that count                                     *)

\* The span of a window is a number of ticks.
LEMMA SpanType == \A w \in Windows : Span[w] \in Nat
BY TimesAssumption DEF Span, Windows

\* What a window counts is a finite number of operations.
LEMMA CountedFinite ==
  ASSUME NEW d, NEW w, NEW i
  PROVE  /\ IsFiniteSet(Counted(d, w, i))
         /\ Cardinality(Counted(d, w, i)) \in Nat
         /\ Cardinality(Counted(d, w, i)) <= Cardinality(Key)
<1>1. Counted(d, w, i) \in SUBSET Key /\ IsFiniteSet(Key)
  BY TasksAssumption DEF Counted, Present
<1> QED BY <1>1, FS_Subset, FS_CardinalityType

\* A set of keys inside a counted one is no larger.
LEMMA NoLarger ==
  ASSUME NEW d, NEW w \in Windows, NEW i, NEW S \in SUBSET Counted(d, w, i),
         Cardinality(Counted(d, w, i)) <= HighestCap[w]
  PROVE  Cardinality(S) <= HighestCap[w]
<1>1. IsFiniteSet(S) /\ Cardinality(S) <= Cardinality(Counted(d, w, i))
  BY CountedFinite, FS_Subset
<1>2. Cardinality(S) \in Nat /\ HighestCap[w] \in Nat
  BY <1>1, FS_CardinalityType, PolicyAssumption
<1> QED BY <1>1, <1>2, CountedFinite

\* Reconciliation adds nothing to what counts.
LEMMA ReconciledCounted ==
  ASSUME NEW d \in Document, NEW now \in Time, NEW w, NEW i
  PROVE  Counted(Reconciled(d, now), w, i) \subseteq Counted(d, w, i)
<1> DEFINE e == Reconciled(d, now)
<1>1. SUFFICES ASSUME NEW k \in Counted(e, w, i)
               PROVE  e.rows[k] = d.rows[k] /\ k \in Key
  BY DEF Counted, Present
<1>2. k \in Key /\ e.rows[k].phase # "absent" /\ e.rows[k].charged = 1
  BY <1>1 DEF Counted, Present
<1>3. e.rows[k] = Expire(d.rows[k], now)
  BY <1>2, ReconciledRow DEF Absent
<1>4. d.rows[k] \in Row
  BY <1>2 DEF Document
<1> QED BY <1>2, <1>3, <1>4 DEF Expire, Row

\* Rows other than the task's stay as they are.
LEMMA OtherRows ==
  ASSUME NEW t \in Task, NEW d \in Document, NEW now \in Time, pc[t] \in ServicePc,
         NEW j \in Key, j # KeyOf[t]
  PROVE  Changed(t, d, now).rows[j] = d.rows[j]
<1>1. ASSUME NEW s PROVE WithRow(d, KeyOf[t], s).rows[j] = d.rows[j]
  BY TasksAssumption DEF WithRow, Document
<1> QED BY <1>1 DEF Changed, Reserved, Dispatched, Released, Settled, ServicePc

\* Only a new reservation adds to what counts.
LEMMA ChangedCounted ==
  ASSUME NEW t \in Task, NEW d \in Document, NEW now \in Time, Accepts(t, d, now),
         NEW w, NEW i, ~(pc[t] = "reserve" /\ d.rows[KeyOf[t]].phase = "absent")
  PROVE  Counted(Changed(t, d, now), w, i) \subseteq Counted(d, w, i)
<1> DEFINE e == Changed(t, d, now)
           k == KeyOf[t]
           r == d.rows[k]
<1>1. k \in Key /\ r \in Row /\ pc[t] \in ServicePc
  BY TasksAssumption DEF Document, Accepts, ServicePc
<1>2. ASSUME NEW s PROVE WithRow(d, k, s).rows[k] = s
  BY <1>1 DEF WithRow, Document
<1>3. \A j \in Key : j # k => e.rows[j] = d.rows[j]
  BY <1>1, OtherRows
<1>4. e.rows[k].charged = 1 =>
        \/ e.rows[k] = r
        \/ r.charged = 1 /\ e.rows[k].payload = r.payload /\ Protected(r)
           /\ r.phase # "absent"
  <2>1. CASE pc[t] = "reserve"
    BY <2>1 DEF Changed, Reserved
  <2>2. CASE pc[t] = "dispatch"
    <3>1. e.rows[k] = [r EXCEPT !.phase = "dispatched", !.dispatchedAt = now]
      BY <1>2, <2>2 DEF Changed, Dispatched
    <3>2. r.phase = "reserved"
      BY <2>2 DEF Accepts, CanDispatch
    <3> QED BY <1>1, <3>1, <3>2 DEF Row, Protected
  <2>3. CASE pc[t] = "release"
    <3>1. CASE r.phase = "released"
      BY <2>3, <3>1 DEF Changed, Released
    <3>2. CASE r.phase # "released"
      <4>1. e.rows[k] = [r EXCEPT !.phase = "released", !.settledAt = now, !.charged = 0]
        BY <1>2, <2>3, <3>2 DEF Changed, Released
      <4> QED BY <1>1, <4>1 DEF Row
    <3> QED BY <3>1, <3>2
  <2>4. CASE pc[t] = "settle"
    <3>1. CASE r.settlement = "outcome"
      BY <2>4, <3>1 DEF Changed, Settled
    <3>2. CASE r.settlement # "outcome"
      <4>1. e.rows[k] = [r EXCEPT !.phase = "settled", !.settledAt = now,
                                  !.settlement = "outcome"]
        BY <1>2, <2>4, <3>2 DEF Changed, Settled
      <4>2. r.phase = "dispatched"
        BY <2>4, <3>2 DEF Accepts, CanSettle
      <4> QED BY <1>1, <4>1, <4>2 DEF Row, Protected
    <3> QED BY <3>1, <3>2
  <2> QED BY <1>1, <2>1, <2>2, <2>3, <2>4 DEF ServicePc
<1>5. SUFFICES ASSUME NEW j \in Counted(e, w, i) PROVE j \in Counted(d, w, i)
  OBVIOUS
<1>6. CASE j # k
  BY <1>3, <1>5, <1>6 DEF Counted, Present
<1>7. CASE j = k
  <2> HIDE DEF e
  <2> QED BY <1>4, <1>5, <1>7 DEF Counted, Present
<1> QED BY <1>6, <1>7

\* A new reservation keeps within the caps.
LEMMA ReservedWithinCaps ==
  ASSUME NEW t \in Task, NEW d \in Document, NEW now \in Time, CanReserve(t, d, now),
         d.rows[KeyOf[t]].phase = "absent", seen[t] \in Policy,
         NEW w \in Windows, NEW i \in Time, now <= i,
         Cardinality(Counted(d, w, i)) <= HighestCap[w]
  PROVE  Cardinality(Counted(Reserved(t, d, now), w, i)) <= HighestCap[w]
<1> DEFINE k == KeyOf[t]
           e == Reserved(t, d, now)
           s == NewRow(PayloadOf[t], now)
           limits == seen[t]
<1>1. k \in Key
  BY TasksAssumption
<1>2. /\ \A j \in Key : e.rows[j] = IF j = k THEN s ELSE d.rows[j]
      /\ s.payload = PayloadOf[t]
  BY <1>1 DEF Reserved, WithRow, Document, NewRow
<1>3. WithinLimits(d, k, PayloadOf[t], limits, now)
  BY DEF CanReserve, Owns
<1>4. HighestCap[w] \in Nat
  BY PolicyAssumption
<1>5. CASE limits.cap[w] = Uncapped
  <2>1. HighestCap[w] >= Cardinality(Key)
    BY <1>5, PolicyAssumption
  <2>2. Cardinality(Key) \in Nat
    BY TasksAssumption, FS_CardinalityType
  <2> QED BY <1>4, <2>1, <2>2, CountedFinite
<1>6. CASE ~Meters(w, PayloadOf[t])
  <2>1. Counted(e, w, i) \subseteq Counted(d, w, i)
    <3> HIDE DEF e, s
    <3> QED BY <1>2, <1>6 DEF Counted, Present
  <2> QED BY <2>1, NoLarger
<1>7. CASE limits.cap[w] # Uncapped /\ Meters(w, PayloadOf[t])
  <2> DEFINE others == Counted(d, w, now) \ {k}
  <2>1. Cardinality(others) + 1 <= limits.cap[w] /\ limits.cap[w] <= HighestCap[w]
        /\ limits.cap[w] \in Int
    BY <1>3, <1>7, PolicyAssumption DEF WithinLimits, Uncapped
  <2>2. Counted(e, w, i) \subseteq others \cup {k}
    <3>1. SUFFICES ASSUME NEW j \in Counted(e, w, i), j # k
                   PROVE  j \in Counted(d, w, now)
      OBVIOUS
    <3>2. j \in Key /\ e.rows[j] = d.rows[j] /\ d.rows[j] \in Row
      BY <1>2, <3>1 DEF Counted, Present, Document
    <3>3. d.rows[j].settledAt >= i - Span[w] => d.rows[j].settledAt >= now - Span[w]
      BY <3>2, SpanType DEF Row, Time, NoTime
    <3> HIDE DEF e
    <3> QED BY <3>1, <3>2, <3>3 DEF Counted, Present
  <2>3. IsFiniteSet(others)
    BY CountedFinite, FS_RemoveElement
  <2>4. IsFiniteSet(others \cup {k}) /\ Cardinality(others \cup {k}) = Cardinality(others) + 1
    BY <2>3, FS_AddElement
  <2>5. Cardinality(Counted(e, w, i)) <= Cardinality(others) + 1
    BY <2>2, <2>4, FS_Subset
  <2>6. Cardinality(others) \in Nat
    BY <2>3, FS_CardinalityType
  <2>7. Cardinality(Counted(e, w, i)) \in Nat
    BY CountedFinite
  <2> HIDE DEF others, limits
  <2> QED BY <1>4, <2>1, <2>5, <2>6, <2>7
<1> QED BY <1>5, <1>6, <1>7

\* A replace of a task's snapshot keeps within the caps.
LEMMA WriteCounted ==
  ASSUME DocumentInv, CountedWithinCaps, SnapshotsPast, NEW t \in Task, Write(t),
         clock' = clock
  PROVE  CountedWithinCaps'
<1> DEFINE now == snap[t]
           e == Reconciled(doc, now)
<1>1. doc \in Document /\ now \in Time /\ clock \in Time /\ now <= clock /\ seen[t] \in Policy
  BY DEF DocumentInv, TypeOK, Write, Writer, SnapshotsPast
<1>2. e \in Document /\ Accepts(t, e, now) /\ doc' = Changed(t, e, now)
  BY <1>1, ReconciledType DEF Write
<1>3. SUFFICES ASSUME NEW w \in Windows
               PROVE  Cardinality(Counted(doc', w, clock)) <= HighestCap[w]
  BY DEF CountedWithinCaps, Counted, Present
<1>4. Counted(e, w, clock) \subseteq Counted(doc, w, clock)
  BY <1>1, ReconciledCounted
<1>5. Cardinality(Counted(e, w, clock)) <= HighestCap[w]
  BY <1>4, NoLarger DEF CountedWithinCaps
<1> HIDE DEF now, e
<1>6. CASE pc[t] = "reserve" /\ e.rows[KeyOf[t]].phase = "absent"
  <2>1. CanReserve(t, e, now) /\ doc' = Reserved(t, e, now)
    BY <1>2, <1>6 DEF Accepts, Changed
  <2> QED BY <1>1, <1>2, <1>5, <1>6, <2>1, ReservedWithinCaps
<1>7. CASE ~(pc[t] = "reserve" /\ e.rows[KeyOf[t]].phase = "absent")
  <2>1. Counted(doc', w, clock) \subseteq Counted(e, w, clock)
    BY <1>1, <1>2, <1>7, ChangedCounted
  <2> QED BY <1>5, <2>1, NoLarger
<1> QED BY <1>6, <1>7

CapInv == /\ DocumentInv
          /\ ClaimsSpent
          /\ CountedWithinCaps
          /\ SnapshotsPast
          /\ SendsRecorded
          /\ PlanHeld

\* The replace by which a task reserves its identity.
Reserves(t) ==
  /\ Write(t)
  /\ pc[t] = "reserve"
  /\ Reconciled(doc, snap[t]).rows[KeyOf[t]].phase = "absent"

\* Nothing counts that did not count before.
Shrinks == \A w \in Windows : Counted(doc', w, clock') \subseteq Counted(doc, w, clock)

\* Any other replace of a task's snapshot adds nothing to what counts.
LEMMA WriteShrinks ==
  ASSUME DocumentInv, NEW t \in Task, Write(t), clock' = clock, ~Reserves(t)
  PROVE  Shrinks
<1> DEFINE now == snap[t]
           e == Reconciled(doc, now)
<1>1. doc \in Document /\ now \in Time
  BY DEF DocumentInv, TypeOK, Write, Writer
<1>2. e \in Document /\ Accepts(t, e, now) /\ doc' = Changed(t, e, now)
  BY <1>1, ReconciledType DEF Write
<1>3. ~(pc[t] = "reserve" /\ e.rows[KeyOf[t]].phase = "absent")
  BY DEF Reserves
<1>4. SUFFICES ASSUME NEW w \in Windows
               PROVE  Counted(doc', w, clock) \subseteq Counted(doc, w, clock)
  BY DEF Shrinks
<1>5. Counted(e, w, clock) \subseteq Counted(doc, w, clock)
  BY <1>1, ReconciledCounted
<1> HIDE DEF now, e
<1>6. Counted(doc', w, clock) \subseteq Counted(e, w, clock)
  BY <1>1, <1>2, <1>3, ChangedCounted
<1> QED BY <1>5, <1>6

\* What counts never grows but by a reservation.
LEMMA CountedMoves ==
  ASSUME CapInv, [Next]_vars
  PROVE  Shrinks \/ \E t \in Task : Reserves(t) /\ clock' = clock
<1> DEFINE Goal == Shrinks \/ \E t \in Task : Reserves(t) /\ clock' = clock
<1>1. /\ TypeOK /\ DocumentInv /\ CountedWithinCaps /\ SnapshotsPast
  BY DEF CapInv, DocumentInv
<1>2. ASSUME \A w \in Windows : Counted(doc', w, clock') \subseteq Counted(doc, w, clock)
      PROVE  Goal
  BY <1>2 DEF Shrinks
<1>replace. ASSUME NEW t \in Task, Write(t), clock' = clock PROVE Goal
  BY <1>1, <1>replace, WriteShrinks
<1> HIDE DEF Goal
<1> SUFFICES Goal
  BY DEF Goal
<1>3. ASSUME UNCHANGED <<doc, clock>> PROVE Goal
  BY <1>2, <1>3
<1>4. ASSUME NEW t \in Task, Step(t) PROVE Goal
  <2>1. CASE Commit(t)
    BY <1>replace, <2>1 DEF Commit
  <2>2. CASE ~Commit(t)
    BY <1>3, <1>4, <2>2 DEF Step, Begin, RefuseBegin, Recheck, Send, RefuseSend,
                           Snapshot, Refuse, LostRace
  <2> QED BY <2>1, <2>2
<1>5. ASSUME NEW t \in Task, Fault(t) PROVE Goal
  <2>1. CASE Deliver(t)
    BY <1>replace, <2>1 DEF Deliver
  <2>2. CASE ~Deliver(t)
    BY <1>3, <1>5, <2>2 DEF Fault, Stop, RetrySettle
  <2> QED BY <2>1, <2>2
<1>6. CASE Operator
  <2>1. CASE Bootstrap
    <3>1. PICK now \in StoreNow : doc' = FreshDocument(now)
      BY <2>1 DEF Bootstrap
    <3>2. \A k \in Key : doc'.rows[k].phase = "absent"
      BY <3>1 DEF FreshDocument, Absent
    <3> QED BY <1>2, <3>2 DEF Counted, Present
  <2>2. CASE WriteHolds
    <3> DEFINE now == snap["operator"]
               held == {h.key : h \in plan}
    <3>1. \A k \in Key : doc'.rows[k] = IF k \in held THEN ResolvedRow(doc.rows[k], now)
                                                      ELSE doc.rows[k]
      BY <1>1, <2>2 DEF WriteHolds, TypeOK, Document
    <3>2. ASSUME NEW k \in held
          PROVE  Protected(doc.rows[k]) /\ doc.rows[k].phase # "absent"
      BY <1>1, <2>2 DEF DocumentInv, PlanSound, Unchanged, WriteHolds, Protected
    <3>3. \A k \in Key : doc.rows[k] \in Row
      BY <1>1 DEF TypeOK, Document
    <3>4. ASSUME NEW r \in Row
          PROVE  ResolvedRow(r, now).charged = r.charged /\ ResolvedRow(r, now).payload = r.payload
      BY DEF ResolvedRow, Row
    <3>5. ASSUME NEW w \in Windows PROVE Counted(doc', w, clock) \subseteq Counted(doc, w, clock)
      <4>1. SUFFICES ASSUME NEW k \in Counted(doc', w, clock) PROVE k \in Counted(doc, w, clock)
        OBVIOUS
      <4>2. k \in Key
        BY <4>1 DEF Counted, Present
      <4>3. CASE k \in held
        <5>1. doc.rows[k].charged = doc'.rows[k].charged /\ doc.rows[k].payload = doc'.rows[k].payload
          BY <3>1, <3>3, <3>4, <4>2, <4>3
        <5> QED BY <3>2, <4>1, <4>2, <4>3, <5>1 DEF Counted, Present
      <4>4. CASE k \notin held
        BY <3>1, <4>1, <4>2, <4>4 DEF Counted, Present
      <4> QED BY <4>3, <4>4
    <3>6. clock' = clock
      BY <2>2 DEF WriteHolds
    <3> QED BY <1>2, <3>5, <3>6
  <2>3. CASE ~Bootstrap /\ ~WriteHolds
    BY <1>3, <1>6, <2>3 DEF Operator, PlanResolution, ReadHolds, AbandonAttempt
  <2> QED BY <2>1, <2>2, <2>3
<1>7. CASE Environment
  <2>1. CASE Tick
    <3>1. clock \in Time /\ clock' = clock + 1 /\ doc' = doc
      BY <1>1, <2>1 DEF Tick, TypeOK
    <3>2. ASSUME NEW w \in Windows, NEW k \in Key, doc.rows[k].settledAt >= clock' - Span[w]
          PROVE  doc.rows[k].settledAt >= clock - Span[w]
      BY <1>1, <3>1, <3>2, SpanType DEF TypeOK, Document, Row, Time, NoTime
    <3> QED BY <1>2, <3>1, <3>2 DEF Counted, Present
  <2>2. CASE ~Tick
    BY <1>3, <1>7, <2>2 DEF Environment, ChangePolicy, LegacySend
  <2> QED BY <2>1, <2>2
<1>8. CASE UNCHANGED vars
  BY <1>3, <1>8 DEF vars
<1> QED BY <1>4, <1>5, <1>6, <1>7, <1>8 DEF Next

\* What counts stays within the caps.
LEMMA CountedStep ==
  ASSUME CapInv, [Next]_vars
  PROVE  CountedWithinCaps'
<1>1. CASE Shrinks
  <2>1. \A w \in Windows : Cardinality(Counted(doc', w, clock')) <= HighestCap[w]
    BY <1>1, NoLarger DEF Shrinks, CapInv, CountedWithinCaps
  <2> QED BY <2>1 DEF CountedWithinCaps, Counted, Present
<1>2. ASSUME NEW t \in Task, Reserves(t), clock' = clock
      PROVE  CountedWithinCaps'
  BY <1>2, WriteCounted DEF Reserves, CapInv
<1> QED BY <1>1, <1>2, CountedMoves

-----------------------------------------------------------------------------
(* The second half: the rows of the sends                                  *)

\* Snapshots stay in the past.
LEMMA PastStep ==
  ASSUME CapInv, [Next]_vars
  PROVE  SnapshotsPast'
<1>1. TypeOK /\ SnapshotsPast /\ clock \in Time /\ NoTime <= clock /\ clock <= clock + 1
  BY DEF CapInv, DocumentInv, TypeOK, Time, NoTime
<1>2. ASSUME UNCHANGED <<clock, snap>>, NEW t \in Task, NEW p \in ServicePc,
             pc' = [pc EXCEPT ![t] = p]
      PROVE  SnapshotsPast'
  <2>1. \A u \in Task : pc'[u] = IF u = t THEN p ELSE pc[u]
    BY <1>1, <1>2 DEF TypeOK
  <2> QED BY <1>1, <1>2, <2>1 DEF SnapshotsPast
<1>3. ASSUME clock' = clock, NEW x \in Writer, NEW now, now <= clock,
             snap' = [snap EXCEPT ![x] = now], pc' = pc,
             x \in Task => pc[x] \in ServicePc \/ now = NoTime
      PROVE  SnapshotsPast'
  <2>1. \A y \in Writer : snap'[y] = IF y = x THEN now ELSE snap[y]
    BY <1>1, <1>3 DEF TypeOK
  <2> QED BY <1>1, <1>3, <2>1 DEF SnapshotsPast, Writer
<1>4. ASSUME UNCHANGED <<clock, snap, pc>> PROVE SnapshotsPast'
  BY <1>1, <1>4 DEF SnapshotsPast
<1>5. ASSUME NEW t \in Task, Step(t) PROVE SnapshotsPast'
  <2>1. CASE Begin(t)
    BY <1>2, <2>1 DEF Begin, ServicePc
  <2>2. CASE Recheck(t)
    BY <1>2, <2>2 DEF Recheck, ServicePc
  <2>3. CASE Send(t) \/ RefuseSend(t)
    BY <1>2, <2>3 DEF Send, RefuseSend, ServicePc
  <2>4. CASE Snapshot(t)
    <3>1. PICK now \in StoreNow : snap' = [snap EXCEPT ![t] = now]
      BY <2>4 DEF Snapshot
    <3> QED BY <1>1, <1>3, <2>4, <3>1, StoreNowType DEF Snapshot, Calling, Writer
  <2>5. CASE Commit(t)
    <3>1. /\ clock' = clock /\ snap' = [snap EXCEPT ![t] = NoTime]
          /\ pc' = [pc EXCEPT ![t] = After[pc[t]]]
      BY <2>5 DEF Commit, Write
    <3>2. \A x \in Writer : snap'[x] = IF x = t THEN NoTime ELSE snap[x]
      BY <1>1, <3>1 DEF TypeOK
    <3>3. \A u \in Task : u # t => pc'[u] = pc[u]
      BY <1>1, <3>1 DEF TypeOK
    <3> QED BY <1>1, <3>1, <3>2, <3>3 DEF SnapshotsPast, Writer
  <2>6. CASE LostRace(t)
    BY <1>1, <1>3, <2>6 DEF LostRace, Writer
  <2>7. CASE RefuseBegin(t) \/ Refuse(t)
    BY <1>4, <2>7 DEF RefuseBegin, Refuse
  <2> QED BY <1>5, <2>1, <2>2, <2>3, <2>4, <2>5, <2>6, <2>7 DEF Step
<1>6. ASSUME NEW t \in Task, Fault(t) PROVE SnapshotsPast'
  <2>1. CASE Stop(t)
    BY <1>4, <2>1 DEF Stop
  <2>2. CASE Deliver(t)
    BY <1>1, <1>3, <2>2 DEF Deliver, Write, Writer
  <2>3. CASE RetrySettle(t)
    <3>1. CASE snap' = snap
      BY <1>4, <2>3, <3>1 DEF RetrySettle
    <3>2. CASE snap' = [snap EXCEPT ![t] = NoTime]
      BY <1>1, <1>3, <2>3, <3>2 DEF RetrySettle, Writer
    <3> QED BY <2>3, <3>1, <3>2 DEF RetrySettle
  <2> QED BY <1>6, <2>1, <2>2, <2>3 DEF Fault
<1>7. CASE Operator
  <2> "operator" \notin Task
    BY TasksAssumption
  <2>1. CASE Bootstrap \/ PlanResolution
    BY <1>4, <2>1 DEF Bootstrap, PlanResolution
  <2>2. CASE ReadHolds
    <3>1. PICK now \in StoreNow : snap' = [snap EXCEPT !["operator"] = now]
      BY <2>2 DEF ReadHolds
    <3> QED BY <1>1, <1>3, <2>2, <3>1, StoreNowType DEF ReadHolds, Writer
  <2>3. CASE WriteHolds
    BY <1>1, <1>3, <2>3 DEF WriteHolds, Writer
  <2>4. CASE AbandonAttempt
    BY <1>1, <1>3, <2>4 DEF AbandonAttempt, Writer
  <2> QED BY <1>7, <2>1, <2>2, <2>3, <2>4 DEF Operator
<1>8. CASE Environment
  <2>1. CASE Tick
    <3>1. clock' = clock + 1 /\ UNCHANGED <<snap, pc>>
      BY <2>1 DEF Tick
    <3>2. \A x \in Writer : snap[x] <= clock => snap[x] <= clock + 1
      BY <1>1 DEF TypeOK, Time, NoTime
    <3> QED BY <1>1, <3>1, <3>2 DEF SnapshotsPast
  <2>2. CASE ~Tick
    BY <1>4, <1>8, <2>2 DEF Environment, ChangePolicy, LegacySend
  <2> QED BY <2>1, <2>2
<1>9. CASE UNCHANGED vars
  BY <1>4, <1>9 DEF vars
<1> QED BY <1>5, <1>6, <1>7, <1>8, <1>9 DEF Next


\* What a replace of a task's snapshot does to a spent identity: nothing,
\* prune its settled row, or settle it for the task that claimed it.
LEMMA SpentRowWrite ==
  ASSUME DocumentInv, NEW t \in Task, Write(t), NEW k \in Key, Spent(k)
  PROVE  LET r == doc.rows[k]
             s == doc'.rows[k]
         IN \/ s = r
            \/ /\ s.phase = "absent" /\ r.phase = "settled"
               /\ r.settledAt < snap[t] - Retention(r)
            \/ /\ k = KeyOf[t] /\ pc[t] = "settle" /\ r.phase = "dispatched"
               /\ s.phase = "settled" /\ s.settledAt = snap[t]
               /\ s.payload = r.payload
<1> DEFINE now == snap[t]
           e == Reconciled(doc, now)
           r == doc.rows[k]
<1>1. /\ doc \in Document /\ now \in Time /\ issued \in [Key -> Time \cup {NoTime}]
      /\ t \in current /\ now # NoTime
  BY DEF DocumentInv, TypeOK, Write, Writer
<1>2. Valid(doc)
  BY <1>1 DEF DocumentInv, SnapshotsCurrent, DocumentStaysReadable
<1>3. e \in Document /\ Accepts(t, e, now) /\ doc' = Changed(t, e, now) /\ pc[t] \in ServicePc
  BY <1>1, ReconciledType DEF Write, Accepts, ServicePc
<1>4. SpentIn(e, k) /\ KeyOf[t] \in Key
  BY <1>1, <1>2, ReconciledSpent, TasksAssumption DEF Spent, KeptSpent
<1>5. r.phase # "reserved" /\ r.phase # "released"
  BY DEF Spent, SpentIn
<1>6. \/ e.rows[k] = r
      \/ /\ e.rows[k].phase = "absent" /\ r.phase = "settled"
         /\ r.settledAt < now - Retention(r)
  <2>1. Expire(r, now) = r
    BY <1>5 DEF Expire
  <2> QED BY <1>1, <1>5, <2>1, ReconciledRow DEF Absent
<1> HIDE DEF now, e
<1>7. CASE k # KeyOf[t]
  <2>1. doc'.rows[k] = e.rows[k]
    BY <1>1, <1>3, <1>7, OtherRows
  <2> QED BY <1>6, <2>1 DEF now
<1>8. CASE k = KeyOf[t]
  <2>1. ASSUME NEW s PROVE WithRow(e, KeyOf[t], s).rows[k] = s
    BY <1>3, <1>4, <1>8 DEF WithRow, Document
  <2>2. CASE pc[t] = "reserve"
    <3>1. e.rows[k].phase # "absent"
      BY <1>1, <1>3, <1>4, <1>8, <2>2
         DEF Accepts, CanReserve, IdentityValid, SpentIn, Document, Time, NoTime
    <3>2. doc' = e
      BY <1>3, <1>8, <2>2, <3>1 DEF Changed, Reserved
    <3> QED BY <1>6, <3>2 DEF now
  <2>3. CASE pc[t] = "dispatch"
    BY <1>3, <1>4, <1>8, <2>3 DEF Accepts, CanDispatch, SpentIn
  <2>4. CASE pc[t] = "release"
    BY <1>3, <1>4, <1>8, <2>4 DEF Accepts, CanRelease, SpentIn
  <2>5. CASE pc[t] = "settle"
    <3>1. e.rows[k].phase # "absent" /\ CanSettle(t, e)
      BY <1>3, <1>8, <2>5 DEF Accepts, CanSettle, Owns
    <3>2. e.rows[k] = r
      BY <1>6, <3>1
    <3>3. CASE r.settlement = "outcome"
      <4>1. doc' = e
        BY <1>3, <1>8, <2>5, <3>2, <3>3 DEF Changed, Settled
      <4> QED BY <3>2, <4>1
    <3>4. CASE r.settlement # "outcome"
      <4> DEFINE s == [r EXCEPT !.phase = "settled", !.settledAt = now,
                                !.settlement = "outcome"]
      <4>1. r.phase = "dispatched"
        BY <1>8, <3>1, <3>2, <3>4 DEF CanSettle
      <4>2. doc'.rows[k] = s
        BY <1>3, <1>8, <2>1, <2>5, <3>2, <3>4 DEF Changed, Settled
      <4>3. r \in Row
        BY <1>1 DEF Document
      <4>4. s.phase = "settled" /\ s.settledAt = now /\ s.payload = r.payload
        BY <4>3 DEF Row
      <4> HIDE DEF s
      <4> QED BY <1>8, <2>5, <4>1, <4>2, <4>4 DEF now
    <3> QED BY <3>3, <3>4
  <2> QED BY <1>3, <2>2, <2>3, <2>4, <2>5 DEF ServicePc
<1> QED BY <1>7, <1>8

\* What one step may do to a task: once down it stays where it is, it sends
\* from "authorize" only, which it enters by winning its dispatch claim.
Moves(t) ==
  /\ status[t] = "down" => status'[t] = "down" /\ pc'[t] = pc[t]
  /\ sentAt'[t] = sentAt[t] \/ Send(t)
  /\ pc'[t] = "authorize" => pc[t] = "authorize" \/ (pc[t] = "dispatch" /\ Commit(t))
  /\ pc'[t] = "settle" => pc[t] \in {"authorize", "settle"}
  /\ status'[t] = "raised" => status[t] = "raised" \/ pc[t] = "settle"
  /\ pc'[t] = "done" => pc[t] \in {"settle", "done"}
  /\ pc[t] = "settle" /\ pc'[t] # "settle" => status[t] = "up" /\ status'[t] = "up"
  /\ status'[t] = "up" => status[t] \in {"up", "raised"}

\* Every step takes a task one of these ways.
LEMMA MovesHold ==
  ASSUME TypeOK, Next, NEW t \in Task
  PROVE  Moves(t)
<1>1. ASSUME UNCHANGED <<pc, status, sentAt>> PROVE Moves(t)
  BY <1>1 DEF Moves
<1>2. CASE Operator \/ Environment
  BY <1>1, <1>2 DEF Operator, Bootstrap, PlanResolution, ReadHolds, WriteHolds,
                    AbandonAttempt, Environment, Tick, ChangePolicy, LegacySend
<1>3. ASSUME NEW u \in Task, Step(u), u # t PROVE Moves(t)
  <2>1. pc'[t] = pc[t] /\ status'[t] = status[t] /\ sentAt'[t] = sentAt[t]
    BY <1>3 DEF Step, Begin, RefuseBegin, Recheck, Send, RefuseSend, Snapshot, Refuse,
                Commit, LostRace, Raise, TypeOK
  <2> QED BY <2>1 DEF Moves
<1>4. ASSUME NEW u \in Task, Fault(u), u # t PROVE Moves(t)
  <2>1. pc'[t] = pc[t] /\ status'[t] = status[t] /\ sentAt'[t] = sentAt[t]
    BY <1>4 DEF Fault, Stop, Deliver, RetrySettle, Raise, TypeOK
  <2> QED BY <2>1 DEF Moves
<1>5. CASE Step(t)
  <2> USE DEF Moves, TypeOK
  <2>1. CASE Begin(t) \/ RefuseBegin(t)
    BY <2>1 DEF Begin, RefuseBegin, Raise
  <2>2. CASE Recheck(t) \/ RefuseSend(t)
    BY <2>2 DEF Recheck, RefuseSend
  <2>3. CASE Send(t)
    BY <2>3 DEF Send
  <2>4. CASE Snapshot(t)
    BY <2>4, <1>1 DEF Snapshot
  <2>5. CASE Refuse(t) \/ LostRace(t)
    BY <2>5 DEF Refuse, LostRace, Raise, Calling
  <2>6. CASE Commit(t)
    BY <2>6 DEF Commit, Calling, After, ServicePc
  <2> QED BY <1>5, <2>1, <2>2, <2>3, <2>4, <2>5, <2>6 DEF Step
<1>6. CASE Fault(t)
  BY <1>6 DEF Moves, TypeOK, Fault, Stop, Deliver, RetrySettle, Raise
<1> QED BY <1>2, <1>3, <1>4, <1>5, <1>6 DEF Next

-----------------------------------------------------------------------------
(* Planned holds                                                           *)

\* A plan that only shrinks stays a plan for tasks that are gone.
LEMMA PlanShrinks ==
  ASSUME CapInv, Next, plan' \subseteq plan,
         snap'["operator"] \in {snap["operator"], NoTime}
  PROVE  PlanHeld'
<1>1. TypeOK /\ DocumentInv /\ KeepsSpent /\ plan \subseteq [key : Key, row : Row]
  BY DocumentStep DEF CapInv, DocumentInv, TypeOK
<1>2. SUFFICES ASSUME NEW h \in plan
               PROVE  /\ Spent(h.key)'
                      /\ \A t \in Task : KeyOf[t] = h.key =>
                           /\ pc'[t] \in {"authorize", "settle"} => status'[t] = "down"
                           /\ sentAt'[t] # NoTime /\ snap'["operator"] # NoTime
                                => snap'["operator"] >= sentAt'[t] - Lag
  BY DEF PlanHeld
<1>3. h.key \in Key /\ Spent(h.key)
  BY <1>1 DEF CapInv, PlanHeld
<1>4. ASSUME NEW t \in Task, KeyOf[t] = h.key
      PROVE  /\ pc'[t] \in {"authorize", "settle"} => status'[t] = "down"
             /\ sentAt'[t] = sentAt[t]
  <2>1. pc[t] \in {"authorize", "settle"} => status[t] = "down"
    BY <1>4 DEF CapInv, PlanHeld
  <2>2. Moves(t)
    BY <1>1, MovesHold
  <2>3. ~Send(t)
    BY <2>1 DEF Send
  <2>4. ASSUME Commit(t), pc[t] = "dispatch" PROVE FALSE
    BY <1>1, <1>3, <1>4, <2>4, ClaimIsFirst DEF Commit, Spent, SpentIn
  <2> QED BY <2>1, <2>2, <2>3, <2>4 DEF Moves
<1> QED
  BY <1>1, <1>3, <1>4 DEF CapInv, PlanHeld, KeepsSpent

\* What a plan says of the holders of its identities is kept.
LEMMA PlanHeldStep ==
  ASSUME CapInv, [Next]_vars
  PROVE  PlanHeld'
<1>1. TypeOK /\ "operator" \notin Task /\ clock \in Time
  BY TasksAssumption DEF CapInv, DocumentInv, TypeOK
<1>2. CASE UNCHANGED vars
  BY <1>2 DEF vars, CapInv, PlanHeld, Spent, SpentIn
<1>3. ASSUME NEW t \in Task, Step(t) \/ Fault(t) PROVE PlanHeld'
  <2>1. plan' = plan /\ snap'["operator"] = snap["operator"] /\ Next
    BY <1>1, <1>3 DEF Next, TypeOK, Writer, Step, Begin, RefuseBegin, Recheck, Send,
           RefuseSend, Snapshot, Refuse, Commit, LostRace, Fault, Stop, Deliver,
           RetrySettle, Write
  <2> QED BY <2>1, PlanShrinks
<1>4. CASE Environment
  BY <1>4, PlanShrinks DEF Next, Environment, Tick, ChangePolicy, LegacySend
<1>5. CASE Bootstrap \/ WriteHolds \/ AbandonAttempt
  <2>1. plan' \subseteq plan /\ snap'["operator"] \in {snap["operator"], NoTime} /\ Next
    BY <1>1, <1>5 DEF Next, Operator, Bootstrap, WriteHolds, AbandonAttempt, TypeOK, Writer
  <2> QED BY <2>1, PlanShrinks
<1>6. CASE PlanResolution
  <2>1. PICK now \in StoreNow : \E cutoff \in 0..(now - HoldMinAge) :
          /\ HoldersGone(Holds(cutoff))
          /\ plan' = {[key |-> k, row |-> doc.rows[k]] : k \in Holds(cutoff)}
    BY <1>6 DEF PlanResolution
  <2>2. PICK cutoff \in 0..(now - HoldMinAge) :
          /\ HoldersGone(Holds(cutoff))
          /\ plan' = {[key |-> k, row |-> doc.rows[k]] : k \in Holds(cutoff)}
    BY <2>1
  <2>3. /\ UNCHANGED <<doc, issued, snap, pc, status, sentAt>> /\ snap["operator"] = NoTime
    BY <1>6 DEF PlanResolution, CapInv, DocumentInv, PlanSound
  <2>4. ASSUME NEW h \in plan'
        PROVE  h.key \in Holds(cutoff) /\ Spent(h.key)'
    <3>1. h.key \in Holds(cutoff)
      BY <2>2
    <3> QED BY <2>3, <3>1 DEF Holds, Spent, SpentIn
  <2> QED BY <2>2, <2>3, <2>4 DEF PlanHeld, HoldersGone
<1>7. CASE ReadHolds
  <2>1. PICK now \in StoreNow : snap' = [snap EXCEPT !["operator"] = now]
    BY <1>7 DEF ReadHolds
  <2>2. now \in Time /\ snap'["operator"] = now /\ now >= clock - Lag
    <3>1. now \in Time /\ snap'["operator"] = now
      BY <1>1, <2>1, StoreNowType DEF TypeOK, Writer
    <3>2. now >= Later(0, clock - Lag) /\ Later(0, clock - Lag) >= clock - Lag
      BY <1>1, <3>1, TimesAssumption DEF StoreNow, Later, Time
    <3> QED BY <1>1, <3>1, <3>2, TimesAssumption DEF Time, Later
  <2>3. UNCHANGED <<doc, issued, plan, pc, status, sentAt>>
    BY <1>7 DEF ReadHolds
  <2>4. ASSUME NEW t \in Task, sentAt[t] # NoTime PROVE now >= sentAt[t] - Lag
    <3>1. sentAt[t] <= clock /\ sentAt[t] \in Time
      BY <1>1, <2>4 DEF CapInv, SendsRecorded, TypeOK
    <3> QED BY <1>1, <2>2, <3>1, TimesAssumption DEF Time
  <2> QED BY <2>2, <2>3, <2>4 DEF CapInv, PlanHeld, Spent, SpentIn
<1> QED BY <1>2, <1>3, <1>4, <1>5, <1>6, <1>7 DEF Next, Operator

-----------------------------------------------------------------------------
(* The rows of the sends, kept by every step                               *)

\* Steps that neither change the document nor send.
LEMMA QuietStep ==
  ASSUME CapInv, Next, UNCHANGED <<doc, clock, sentAt>>,
         \A t \in Task : pc'[t] = "authorize" => pc[t] = "authorize",
         \A t \in Task : pc'[t] = "done" => pc[t] = "done",
         \A t \in Task : snap'[t] \in {snap[t], NoTime} \/ snap'[t] >= clock - Lag
  PROVE  SendsRecorded'
<1>1. TypeOK
  BY DEF CapInv, DocumentInv
<1>2. SUFFICES ASSUME NEW t \in Task
               PROVE  /\ Claimed(t)' => Claimed(t)
                      /\ status'[t] = "raised" => pc'[t] = "settle"
                      /\ pc'[t] = "authorize" /\ status'[t] = "up"
                           => pc[t] = "authorize" /\ status[t] = "up"
                      /\ sentAt[t] # NoTime /\ snap'[t] # NoTime => snap'[t] >= sentAt[t] - Lag
  BY DEF CapInv, SendsRecorded, KeepFor
<1>3. Moves(t)
  BY <1>1, MovesHold
<1>4. status[t] = "raised" => pc[t] = "settle"
  BY DEF CapInv, SendsRecorded
<1>5. sentAt[t] # NoTime /\ snap'[t] # NoTime => snap'[t] >= sentAt[t] - Lag
  <2>1. CASE snap'[t] \in {snap[t], NoTime}
    BY <2>1 DEF CapInv, SendsRecorded
  <2>2. CASE snap'[t] >= clock - Lag /\ snap'[t] # NoTime
    <3>1. snap'[t] \in Time /\ sentAt[t] \in Time \cup {NoTime} /\ clock \in Time
      BY <1>1, <2>2, TypeStep DEF TypeOK, Writer
    <3>2. sentAt[t] # NoTime => sentAt[t] <= clock
      BY DEF CapInv, SendsRecorded
    <3> QED BY <2>2, <3>1, <3>2, TimesAssumption DEF Time, NoTime
  <2> QED BY <2>1, <2>2
<1> QED BY <1>3, <1>4, <1>5 DEF Moves, Claimed

\* A replace of a task's snapshot, landing while the task waits for it or later.
LEMMA WriteRecorded ==
  ASSUME CapInv, NEW t \in Task, Commit(t) \/ Deliver(t)
  PROVE  SendsRecorded'
<1>1. /\ TypeOK /\ DocumentInv /\ ClaimsSpent /\ SendsRecorded /\ Write(t) /\ Next
      /\ UNCHANGED <<clock, sentAt, status, issued>> /\ TypeOK'
  BY TypeStep DEF CapInv, DocumentInv, Commit, Deliver, Next, Step, Fault
<1>2. SUFFICES ASSUME NEW u \in Task
               PROVE  (/\ Claimed(u) /\ doc.rows[KeyOf[u]].phase # "absent"
                            => doc.rows[KeyOf[u]].payload = PayloadOf[u]
                       /\ status[u] = "raised" => pc[u] = "settle"
                       /\ pc[u] = "authorize" /\ status[u] = "up"
                            => doc.rows[KeyOf[u]].phase = "dispatched"
                       /\ sentAt[u] # NoTime =>
                            /\ sentAt[u] <= clock
                            /\ snap[u] # NoTime => snap[u] >= sentAt[u] - Lag
                            /\ doc.rows[KeyOf[u]].phase = "settled"
                                 => doc.rows[KeyOf[u]].settledAt >= sentAt[u] - Lag
                            /\ doc.rows[KeyOf[u]].phase = "absent"
                                 => sentAt[u] - Lag < clock - KeepFor(u))'
  BY DEF SendsRecorded
<1> DEFINE k == KeyOf[u]
           r == doc.rows[k]
           s == doc'.rows[k]
<1>3. k \in Key /\ r \in Row /\ s \in Row /\ Moves(u)
  BY <1>1, TasksAssumption, MovesHold DEF TypeOK, Document
<1>4. snap'[u] \in {snap[u], NoTime} /\ snap[t] \in Time /\ snap[t] <= clock
  BY <1>1 DEF Write, TypeOK, Writer, CapInv, SnapshotsPast
<1>5. CASE Claimed(u)
  <2>1. Spent(k)
    BY <1>1, <1>5 DEF ClaimsSpent
  <2>2. \/ s = r
        \/ /\ s.phase = "absent" /\ r.phase = "settled"
           /\ r.settledAt < snap[t] - Retention(r)
        \/ /\ k = KeyOf[t] /\ pc[t] = "settle" /\ r.phase = "dispatched"
           /\ s.phase = "settled" /\ s.settledAt = snap[t] /\ s.payload = r.payload
    BY <1>1, <1>3, <2>1, SpentRowWrite
  <2>3. r.phase # "absent" => r.payload = PayloadOf[u]
    BY <1>1, <1>5 DEF SendsRecorded
  <2>4. s.phase # "absent" => s.payload = PayloadOf[u]
    BY <2>2, <2>3
  <2>5. status'[u] = "raised" => pc'[u] = "settle"
    BY <1>1, <1>3 DEF Moves, SendsRecorded
  <2>6. k = KeyOf[t] /\ pc[t] = "settle" => u = t
    BY <1>1, <1>5 DEF ClaimsSpent, Claimed
  <2>7. pc'[u] = "authorize" /\ status'[u] = "up" => s.phase = "dispatched"
    <3>1. pc'[u] = "authorize" => pc[u] = "authorize"
      BY <1>3, <1>5 DEF Moves, Claimed
    <3>2. pc[u] = "authorize" /\ status[u] = "up" => r.phase = "dispatched"
      BY <1>1 DEF SendsRecorded
    <3> QED BY <1>1, <2>2, <2>6, <3>1, <3>2
  <2>8. ASSUME sentAt[u] # NoTime
        PROVE  /\ sentAt[u] <= clock
               /\ snap'[u] # NoTime => snap'[u] >= sentAt[u] - Lag
               /\ s.phase = "settled" => s.settledAt >= sentAt[u] - Lag
               /\ s.phase = "absent" => sentAt[u] - Lag < clock - KeepFor(u)
    <3>1. /\ sentAt[u] <= clock
          /\ snap[u] # NoTime => snap[u] >= sentAt[u] - Lag
          /\ r.phase = "settled" => r.settledAt >= sentAt[u] - Lag
          /\ r.phase = "absent" => sentAt[u] - Lag < clock - KeepFor(u)
      BY <1>1, <2>8 DEF SendsRecorded
    <3>2. CASE s = r
      BY <1>4, <3>1, <3>2
    <3>3. CASE s.phase = "absent" /\ r.phase = "settled"
               /\ r.settledAt < snap[t] - Retention(r)
      <4>1. Retention(r) = KeepFor(u) /\ KeepFor(u) \in Nat
        BY <2>3, <3>3, TimesAssumption DEF Retention, KeepFor
      <4>2. sentAt[u] \in Time /\ clock \in Time /\ r.settledAt \in Int
        BY <1>1, <1>3, <2>8 DEF TypeOK, Row, Time, NoTime
      <4>3. sentAt[u] - Lag < clock - KeepFor(u)
        <5> HIDE DEF r
        <5> QED BY <1>4, <3>1, <3>3, <4>1, <4>2, TimesAssumption DEF Time
      <4> QED BY <1>4, <3>1, <3>3, <4>3
    <3>4. CASE k = KeyOf[t] /\ pc[t] = "settle" /\ s.phase = "settled" /\ s.settledAt = snap[t]
      BY <1>4, <2>6, <3>1, <3>4 DEF Time, NoTime
    <3> QED BY <2>2, <3>2, <3>3, <3>4
  <2> HIDE DEF r, s
  <2> QED BY <1>1, <2>4, <2>5, <2>7, <2>8 DEF r, s, KeepFor
<1>6. CASE ~Claimed(u)
  <2>1. sentAt'[u] = NoTime
    BY <1>1, <1>6 DEF ClaimsSpent, Claimed
  <2>2. status'[u] = "raised" => pc'[u] = "settle"
    BY <1>1, <1>6 DEF SendsRecorded, Claimed
  <2>3. Claimed(u)' => pc[u] = "dispatch" /\ pc'[u] = "authorize" /\ Commit(u)
    BY <1>3, <1>6 DEF Moves, Claimed
  <2>4. ASSUME pc[u] = "dispatch", Commit(u)
        PROVE  s.phase = "dispatched" /\ s.payload = PayloadOf[u]
    BY <1>1, <2>4, ClaimIsFirst DEF Commit
  <2> QED BY <2>1, <2>2, <2>3, <2>4 DEF Claimed
<1> QED BY <1>5, <1>6

\* What is recorded of a send is kept by every step.
LEMMA SendsRecordedStep ==
  ASSUME CapInv, [Next]_vars
  PROVE  SendsRecorded'
<1>1. /\ TypeOK /\ DocumentInv /\ ClaimsSpent /\ SendsRecorded /\ TypeOK'
      /\ "operator" \notin Task /\ clock \in Time
  BY TypeStep, TasksAssumption DEF CapInv, DocumentInv, TypeOK
<1>2. CASE UNCHANGED vars
  BY <1>1, <1>2 DEF vars, SendsRecorded, Claimed, KeepFor
<1>3. ASSUME Next, UNCHANGED <<doc, clock, sentAt, pc>>,
             \A t \in Task : snap'[t] \in {snap[t], NoTime} \/ snap'[t] >= clock - Lag
      PROVE  SendsRecorded'
  BY <1>3, QuietStep
<1>4. ASSUME NEW t \in Task, Step(t) PROVE SendsRecorded'
  <2>1. Next
    BY <1>4 DEF Next
  <2>2. CASE Begin(t) \/ RefuseBegin(t) \/ Recheck(t) \/ RefuseSend(t)
    <3>1. UNCHANGED <<doc, clock, sentAt, snap>>
      BY <2>2 DEF Begin, RefuseBegin, Recheck, RefuseSend
    <3>2. \A u \in Task : /\ pc'[u] = "authorize" => pc[u] = "authorize"
                          /\ pc'[u] = "done" => pc[u] = "done"
      BY <1>1, <2>2 DEF Begin, RefuseBegin, Recheck, RefuseSend, TypeOK
    <3> QED BY <2>1, <3>1, <3>2, QuietStep
  <2>3. CASE Snapshot(t)
    <3>1. PICK now \in StoreNow : snap' = [snap EXCEPT ![t] = now]
      BY <2>3 DEF Snapshot
    <3>2. now >= clock - Lag
      BY <1>1, <3>1, TimesAssumption DEF StoreNow, Later, Time
    <3>3. \A u \in Task : snap'[u] \in {snap[u], NoTime} \/ snap'[u] >= clock - Lag
      BY <1>1, <3>1, <3>2 DEF TypeOK, Writer
    <3> QED BY <1>3, <2>1, <2>3, <3>3 DEF Snapshot
  <2>4. CASE Refuse(t)
    BY <1>3, <2>1, <2>4 DEF Refuse
  <2>5. CASE LostRace(t)
    <3>1. \A u \in Task : snap'[u] \in {snap[u], NoTime}
      BY <1>1, <2>5 DEF LostRace, TypeOK, Writer
    <3> QED BY <1>3, <2>1, <2>5, <3>1 DEF LostRace
  <2>6. CASE Commit(t)
    BY <2>6, WriteRecorded DEF CapInv
  <2>7. CASE Send(t)
    <3>1. /\ UNCHANGED <<doc, clock, snap, status>> /\ pc[t] = "authorize" /\ status[t] = "up"
          /\ sentAt' = [sentAt EXCEPT ![t] = clock] /\ pc' = [pc EXCEPT ![t] = "settle"]
      BY <2>7 DEF Send
    <3>2. doc.rows[KeyOf[t]].phase = "dispatched" /\ snap[t] = NoTime
      BY <1>1, <3>1 DEF SendsRecorded, CapInv, SnapshotsPast, ServicePc
    <3>3. \A u \in Task : /\ pc'[u] = IF u = t THEN "settle" ELSE pc[u]
                          /\ sentAt'[u] = IF u = t THEN clock ELSE sentAt[u]
      BY <1>1, <3>1 DEF TypeOK
    <3>4. \A u \in Task : Claimed(u)' <=> Claimed(u)
      BY <3>1, <3>3 DEF Claimed
    <3>5. clock <= clock
      BY <1>1 DEF Time
    <3> QED BY <1>1, <3>1, <3>2, <3>3, <3>4, <3>5 DEF SendsRecorded, KeepFor
  <2> QED BY <1>4, <2>2, <2>3, <2>4, <2>5, <2>6, <2>7 DEF Step
<1>5. ASSUME NEW t \in Task, Fault(t) PROVE SendsRecorded'
  <2>1. Next
    BY <1>5 DEF Next
  <2>2. CASE Stop(t)
    BY <1>3, <2>1, <2>2 DEF Stop
  <2>3. CASE Deliver(t)
    BY <2>3, WriteRecorded
  <2>4. CASE RetrySettle(t)
    <3>1. \A u \in Task : snap'[u] \in {snap[u], NoTime}
      BY <1>1, <2>4 DEF RetrySettle, TypeOK, Writer
    <3> QED BY <1>3, <2>1, <2>4, <3>1 DEF RetrySettle
  <2> QED BY <1>5, <2>2, <2>3, <2>4 DEF Fault
<1>6. CASE Bootstrap
  <2>1. ~doc.exists /\ UNCHANGED <<clock, pc, status, sentAt>>
    BY <1>6 DEF Bootstrap
  <2>2. \A t \in Task : ~Claimed(t)
    BY <1>1, <2>1, TasksAssumption
       DEF ClaimsSpent, Spent, SpentIn, DocumentInv, NothingBefore
  <2> QED BY <1>1, <2>1, <2>2 DEF SendsRecorded, ClaimsSpent, Claimed
<1>7. CASE WriteHolds
  <2> DEFINE now == snap["operator"]
             held == {h.key : h \in plan}
  <2>1. /\ UNCHANGED <<clock, pc, status, sentAt>> /\ now \in Time
        /\ \A t \in Task : snap'[t] = snap[t]
    BY <1>1, <1>7 DEF WriteHolds, TypeOK, Writer
  <2>2. \A k \in Key : doc'.rows[k] = IF k \in held THEN ResolvedRow(doc.rows[k], now)
                                                    ELSE doc.rows[k]
    BY <1>1, <1>7 DEF WriteHolds, TypeOK, Document
  <2>3. ASSUME NEW k \in Key
        PROVE  LET r == ResolvedRow(doc.rows[k], now)
               IN r.phase = "settled" /\ r.settledAt = now /\ r.payload = doc.rows[k].payload
    BY <1>1 DEF ResolvedRow, TypeOK, Document, Row
  <2>4. \A k \in held : doc.rows[k].phase = "dispatched"
    BY <1>1, <1>7 DEF DocumentInv, PlanSound, Unchanged, WriteHolds
  <2>5. ASSUME NEW t \in Task, KeyOf[t] \in held
        PROVE  /\ pc[t] \in {"authorize", "settle"} => status[t] = "down"
               /\ sentAt[t] # NoTime => now >= sentAt[t] - Lag
    BY <2>1, <2>5 DEF CapInv, PlanHeld, Time, NoTime
  <2>6. \A t \in Task : KeyOf[t] \in Key
    BY TasksAssumption
  <2> HIDE DEF now, held
  <2> QED BY <1>1, <2>1, <2>2, <2>3, <2>4, <2>5, <2>6 DEF SendsRecorded, Claimed, KeepFor
<1>8. CASE PlanResolution \/ ReadHolds \/ AbandonAttempt
  <2>1. Next /\ UNCHANGED <<doc, clock, sentAt, pc>>
    BY <1>8 DEF Next, Operator, PlanResolution, ReadHolds, AbandonAttempt
  <2>2. \A t \in Task : snap'[t] = snap[t]
    BY <1>1, <1>8 DEF PlanResolution, ReadHolds, AbandonAttempt, TypeOK, Writer
  <2> QED BY <1>3, <2>1, <2>2
<1>9. CASE Tick
  <2>1. clock' = clock + 1 /\ UNCHANGED <<doc, snap, pc, status, sentAt>>
    BY <1>9 DEF Tick
  <2>2. \A t \in Task : KeepFor(t) \in Nat /\ sentAt[t] \in Time \cup {NoTime}
    BY <1>1, TimesAssumption DEF KeepFor, TypeOK
  <2>3. ASSUME NEW t \in Task, sentAt[t] # NoTime
        PROVE  /\ sentAt[t] <= clock'
               /\ doc.rows[KeyOf[t]].phase = "absent" => sentAt[t] - Lag < clock' - KeepFor(t)
    <3>1. /\ sentAt[t] <= clock
          /\ doc.rows[KeyOf[t]].phase = "absent" => sentAt[t] - Lag < clock - KeepFor(t)
      BY <1>1, <2>3 DEF SendsRecorded
    <3> QED BY <1>1, <2>1, <2>2, <2>3, <3>1, TimesAssumption DEF Time, NoTime
  <2> QED BY <1>1, <2>1, <2>3 DEF SendsRecorded, Claimed, KeepFor
<1>10. CASE ChangePolicy \/ LegacySend
  BY <1>3, <1>10 DEF Next, Environment, ChangePolicy, LegacySend
<1> QED
  BY <1>2, <1>4, <1>5, <1>6, <1>7, <1>8, <1>9, <1>10 DEF Next, Operator, Environment

-----------------------------------------------------------------------------
(* The theorems                                                            *)

\* The invariants hold before anything has happened.
LEMMA InitCaps == Init => CapInv
<1> SUFFICES ASSUME Init PROVE CapInv
  OBVIOUS
<1>1. DocumentInv /\ ClaimsSpent
  BY InitDocument, InitClaims
<1>2. \A k \in Key : doc.rows[k].phase = "absent"
  BY DEF Init, NoDocument, FreshDocument, Absent
<1>3. CountedWithinCaps
  <2>1. \A w : Counted(doc, w, clock) = {}
    BY <1>2 DEF Counted, Present
  <2> QED BY <2>1, FS_EmptySet, PolicyAssumption DEF CountedWithinCaps
<1>4. SnapshotsPast /\ SendsRecorded /\ PlanHeld
  BY DEF Init, SnapshotsPast, SendsRecorded, PlanHeld, Claimed, Writer, NoTime
<1> QED BY <1>1, <1>3, <1>4 DEF CapInv

\* Every step keeps the invariants.
LEMMA CapStep == CapInv /\ [Next]_vars => CapInv'
<1> SUFFICES ASSUME CapInv, [Next]_vars PROVE CapInv'
  OBVIOUS
<1>1. DocumentInv' /\ ClaimsSpent'
  BY DocumentStep, ClaimsStep DEF CapInv
<1> QED BY <1>1, CountedStep, PastStep, SendsRecordedStep, PlanHeldStep DEF CapInv

\* Tasks that claimed, each under an identity that counts, are within the cap.
LEMMA ClaimsCounted ==
  ASSUME CapInv, NEW w \in Windows, NEW S \in SUBSET Task,
         \A t \in S : Claimed(t) /\ KeyOf[t] \in Counted(doc, w, clock)
  PROVE  Cardinality(S) <= HighestCap[w]
<1> DEFINE C == Counted(doc, w, clock)
           f == [t \in S |-> KeyOf[t]]
<1>1. f \in Injection(S, C)
  BY DEF CapInv, ClaimsSpent, Injection, IsInjective
<1>2. IsFiniteSet(C) /\ Cardinality(C) \in Nat
  BY CountedFinite
<1>3. IsFiniteSet(S) /\ Cardinality(S) <= Cardinality(C)
  <2> HIDE DEF f, C
  <2> QED BY <1>1, <1>2, FS_Injection
<1>4. Cardinality(S) \in Nat /\ HighestCap[w] \in Nat /\ Cardinality(C) <= HighestCap[w]
  BY <1>3, FS_CardinalityType, PolicyAssumption DEF CapInv, CountedWithinCaps
<1> HIDE DEF C
<1> QED BY <1>2, <1>3, <1>4

\* A send still in its window has a row that counts.
LEMMA SendCounts ==
  ASSUME CapInv, NEW w \in Windows, NEW t \in Task, sentAt[t] # NoTime,
         Meters(w, PayloadOf[t]), sentAt[t] >= clock - (Span[w] - Lag)
  PROVE  Claimed(t) /\ KeyOf[t] \in Counted(doc, w, clock)
<1> DEFINE k == KeyOf[t]
           r == doc.rows[k]
<1>1. /\ TypeOK /\ k \in Key /\ r \in Row /\ sentAt[t] \in Time /\ clock \in Time
      /\ Span[w] \in Nat /\ Lag \in Nat
  BY TasksAssumption, SpanType, TimesAssumption DEF CapInv, DocumentInv, TypeOK, Document
<1>2. Claimed(t) /\ Spent(k)
  BY DEF CapInv, ClaimsSpent, Claimed
<1>3. /\ r.phase # "absent" => r.payload = PayloadOf[t]
      /\ r.phase = "settled" => r.settledAt >= sentAt[t] - Lag
      /\ r.phase = "absent" => sentAt[t] - Lag < clock - KeepFor(t)
  BY <1>2 DEF CapInv, SendsRecorded
<1>4. r.phase # "absent"
  <2>1. KeepFor(t) \in Nat /\ KeepFor(t) >= Span[w]
    BY TimesAssumption DEF KeepFor, Span, Windows, Meters
  <2> HIDE DEF r
  <2> QED BY <1>1, <1>3, <2>1 DEF Time
<1>5. r.charged = 1
  <2>1. doc.exists /\ ValidRow(doc, k)
    BY <1>1, <1>4 DEF CapInv, DocumentInv, NothingBefore, DocumentStaysReadable, Valid, Present
  <2> QED BY <1>2, <1>4, <2>1 DEF ValidRow, Spent, SpentIn
<1>6. Protected(r) \/ r.settledAt >= clock - Span[w]
  <2>1. CASE r.phase = "dispatched"
    BY <2>1 DEF Protected
  <2>2. CASE r.phase = "settled"
    <3>1. r.settledAt \in Int /\ r.settledAt >= sentAt[t] - Lag
      BY <1>1, <1>3, <2>2 DEF Row, Time, NoTime
    <3> HIDE DEF r
    <3> QED BY <1>1, <3>1 DEF Time
  <2> QED BY <1>2, <1>4, <2>1, <2>2 DEF Spent, SpentIn
<1> QED BY <1>1, <1>2, <1>3, <1>4, <1>5, <1>6 DEF Counted, Present

\* The rolling caps hold for what was really sent, whatever the number of
\* tasks, the caps, the spans of the windows and the lag of the Dates.
THEOREM CapsKept == Spec => []CapsHold
<1>1. CapInv => CapsHold
  <2> SUFFICES ASSUME CapInv, NEW w \in Windows
               PROVE  Cardinality(RecentlySent(w)) <= HighestCap[w]
    BY DEF CapsHold
  <2>1. RecentlySent(w) \in SUBSET Task
    BY DEF RecentlySent, Sent
  <2>2. \A t \in RecentlySent(w) : Claimed(t) /\ KeyOf[t] \in Counted(doc, w, clock)
    BY SendCounts DEF RecentlySent, Sent
  <2> QED BY <2>1, <2>2, ClaimsCounted
<1> QED BY <1>1, InitCaps, CapStep, PTL DEF Spec

\* A send of the system is a send the promise allows.
LEMMA SendPromised ==
  ASSUME CapInv, NEW t \in Task, Send(t)
  PROVE  Limit!Send(t)
<1>1. /\ pc[t] = "authorize" /\ status[t] = "up" /\ Claimed(t) /\ UNCHANGED clock
      /\ sentAt' = [sentAt EXCEPT ![t] = clock] /\ ClaimsSpent
  BY DEF Send, Claimed, CapInv
<1>2. \A u \in Task : KeyOf[u] = KeyOf[t] => sentAt[u] = NoTime
  BY <1>1 DEF ClaimsSpent, Claimed
<1>3. ASSUME NEW w \in Windows, Meters(w, PayloadOf[t])
      PROVE  Limit!Cardinality(Limit!Recent(w) \cup {t}) <= HighestCap[w]
  <2> DEFINE S == Limit!Recent(w) \cup {t}
  <2>1. S \in SUBSET Task
    BY DEF Limit!Recent
  <2>2. KeyOf[t] \in Counted(doc, w, clock)
    <3> DEFINE k == KeyOf[t]
               r == doc.rows[k]
    <3>1. k \in Key /\ r.phase = "dispatched" /\ r.payload = PayloadOf[t]
      BY <1>1, TasksAssumption DEF CapInv, SendsRecorded
    <3>2. doc.exists /\ ValidRow(doc, k)
      BY <3>1 DEF CapInv, DocumentInv, NothingBefore, DocumentStaysReadable, Valid, Present
    <3>3. r.charged = 1
      BY <3>1, <3>2 DEF ValidRow
    <3> QED BY <1>3, <3>1, <3>3 DEF Counted, Present, Protected
  <2>3. ASSUME NEW u \in S PROVE Claimed(u) /\ KeyOf[u] \in Counted(doc, w, clock)
    <3>1. CASE u = t
      BY <1>1, <2>2, <3>1
    <3>2. CASE u \in Limit!Recent(w)
      <4>1. u \in Task /\ sentAt[u] # NoTime /\ Meters(w, PayloadOf[u])
            /\ sentAt[u] >= clock - (Span[w] - Lag)
        BY <3>2 DEF Limit!Recent
      <4> QED BY <4>1, SendCounts
    <3> QED BY <3>1, <3>2
  <2> HIDE DEF S
  <2>4. Cardinality(S) <= HighestCap[w]
    BY <2>1, <2>3, ClaimsCounted
  <2>5. Limit!Cardinality(S) = Cardinality(S)
    BY DEF Limit!Cardinality, Cardinality
  <2> QED BY <2>4, <2>5 DEF S
<1> QED BY <1>1, <1>2, <1>3 DEF Limit!Send

\* HardQuota implements SendLimit: what the owner sees of the coordinated
\* system is at most one send per identity, each made while every window that
\* meters it has room.
THEOREM PromiseKept == Spec => KeepsPromise
<1>1. Init => Limit!Init
  BY DEF Init, Limit!Init
<1>2. CapInv /\ [Next]_vars => [Limit!Next]_(Limit!vars)
  <2> SUFFICES ASSUME CapInv, [Next]_vars
               PROVE  Limit!Next \/ UNCHANGED <<clock, sentAt>>
    BY DEF Limit!vars
  <2>1. ASSUME NEW t \in Task, Send(t) PROVE Limit!Next
    BY <2>1, SendPromised DEF Limit!Next
  <2>2. CASE Tick
    BY <2>2 DEF Tick, Limit!Next, Limit!Tick
  <2>3. ASSUME NEW t \in Task, Step(t), ~Send(t) PROVE UNCHANGED <<clock, sentAt>>
    BY <2>3 DEF Step, Begin, RefuseBegin, Recheck, RefuseSend, Snapshot, Refuse,
                Commit, LostRace
  <2>4. ASSUME NEW t \in Task, Fault(t) PROVE UNCHANGED <<clock, sentAt>>
    BY <2>4 DEF Fault, Stop, Deliver, RetrySettle
  <2>5. CASE Operator
    BY <2>5 DEF Operator, Bootstrap, PlanResolution, ReadHolds, WriteHolds, AbandonAttempt
  <2>6. CASE Environment /\ ~Tick
    BY <2>6 DEF Environment, ChangePolicy, LegacySend
  <2>7. CASE UNCHANGED vars
    BY <2>7 DEF vars
  <2> QED BY <2>1, <2>2, <2>3, <2>4, <2>5, <2>6, <2>7 DEF Next
<1>3. Limit!Init /\ [][Limit!Next]_(Limit!vars) => KeepsPromise
  BY DEF KeepsPromise, Limit!Spec
<1> QED BY <1>1, <1>2, <1>3, InitCaps, CapStep, PTL DEF Spec

-----------------------------------------------------------------------------
(* Caps that change                                                        *)
(*                                                                         *)
(* When an administrator changes the caps meanwhile, the rows that count   *)
(* may exceed any one of them.  What holds is said of every set of their   *)
(* tasks: the one that was admitted last was admitted while its own cap    *)
(* covered the rest.  The invariant is over all subsets, since the rows of *)
(* some of them may age out of the window and leave any others behind.     *)

\* Every task claims an identity of its own.
OwnIdentities == \A t, u \in Task : KeyOf[t] = KeyOf[u] => t = u

\* A task that has not begun has no row.
Unbegun == \A t \in Task : pc[t] = "start" => doc.rows[KeyOf[t]].phase = "absent"

\* The tasks whose rows count now.
Holding(w) == {t \in Task : KeyOf[t] \in Counted(doc, w, clock)}

\* The cap that a task was admitted under covers a set of tasks.
Fits(t, w, S) ==
  seen[t].cap[w] = Uncapped \/ Cardinality(S) <= seen[t].cap[w]

AdmissionsCover ==
  \A w \in Windows : \A S \in SUBSET Holding(w) :
    S # {} => \E t \in S : Fits(t, w, S)

AdmissionInv == CapInv /\ Unbegun /\ AdmissionsCover

\* A replace leaves the rows of the other tasks as reconciliation left them.
LEMMA OthersReconciled ==
  ASSUME CapInv, OwnIdentities, NEW t \in Task, Write(t), NEW u \in Task, u # t,
         doc.rows[KeyOf[u]].phase = "absent"
  PROVE  doc'.rows[KeyOf[u]].phase = "absent"
<1> DEFINE e == Reconciled(doc, snap[t])
<1>1. /\ doc \in Document /\ snap[t] \in Time /\ KeyOf[u] \in Key /\ KeyOf[u] # KeyOf[t]
  BY TasksAssumption DEF CapInv, DocumentInv, TypeOK, Write, Writer, OwnIdentities
<1>2. e \in Document /\ doc' = Changed(t, e, snap[t]) /\ pc[t] \in ServicePc
  BY <1>1, ReconciledType DEF Write, Accepts, ServicePc
<1>3. e.rows[KeyOf[u]].phase = "absent"
  <2>1. Expire(doc.rows[KeyOf[u]], snap[t]).phase = "absent"
    BY DEF Expire
  <2> QED BY <1>1, <2>1, ReconciledRow DEF Absent
<1> HIDE DEF e
<1> QED BY <1>1, <1>2, <1>3, OtherRows

\* Every step keeps the rows of the tasks that have not begun absent.
LEMMA UnbegunStep ==
  ASSUME AdmissionInv, OwnIdentities, [Next]_vars
  PROVE  Unbegun'
<1>1. TypeOK /\ DocumentInv /\ CapInv /\ Unbegun
  BY DEF AdmissionInv, CapInv, DocumentInv
<1>2. ASSUME doc' = doc, \A u \in Task : pc'[u] = "start" => pc[u] = "start"
      PROVE  Unbegun'
  BY <1>1, <1>2 DEF Unbegun
<1>3. ASSUME NEW t \in Task, Write(t), pc[t] # "start", pc'[t] # "start",
             \A u \in Task : u # t => pc'[u] = pc[u]
      PROVE  Unbegun'
  BY <1>1, <1>3, OthersReconciled DEF Unbegun
<1>4. ASSUME NEW t \in Task, Step(t) PROVE Unbegun'
  <2>1. CASE Commit(t)
    <3>1. pc[t] \in ServicePc /\ Write(t) /\ pc' = [pc EXCEPT ![t] = After[pc[t]]]
      BY <2>1 DEF Commit, Calling
    <3>2. pc[t] # "start" /\ After[pc[t]] # "start"
      BY <3>1 DEF ServicePc, After
    <3>3. pc'[t] # "start" /\ \A u \in Task : u # t => pc'[u] = pc[u]
      BY <1>1, <3>1, <3>2 DEF TypeOK
    <3> QED BY <1>3, <3>1, <3>2, <3>3
  <2>2. CASE ~Commit(t)
    BY <1>1, <1>2, <1>4, <2>2
       DEF Step, Begin, RefuseBegin, Recheck, Send, RefuseSend, Snapshot, Refuse,
           LostRace, TypeOK
  <2> QED BY <2>1, <2>2
<1>5. ASSUME NEW t \in Task, Fault(t) PROVE Unbegun'
  <2>1. pc' = pc
    BY <1>5 DEF Fault, Stop, Deliver, RetrySettle
  <2>2. CASE Deliver(t)
    <3>1. Write(t) /\ pc[t] # "start"
      BY <2>2 DEF Deliver, Write, Accepts
    <3> QED BY <1>3, <2>1, <3>1
  <2>3. CASE ~Deliver(t)
    BY <1>2, <1>5, <2>1, <2>3 DEF Fault, Stop, RetrySettle
  <2> QED BY <2>2, <2>3
<1>6. CASE Operator
  <2>1. pc' = pc
    BY <1>6 DEF Operator, Bootstrap, PlanResolution, ReadHolds, WriteHolds, AbandonAttempt
  <2>2. CASE Bootstrap
    <3>1. \A k \in Key : doc'.rows[k].phase = "absent"
      BY <2>2 DEF Bootstrap, FreshDocument, Absent
    <3> QED BY <3>1, TasksAssumption DEF Unbegun
  <2>3. CASE WriteHolds
    <3> DEFINE held == {h.key : h \in plan}
    <3>1. \A k \in Key \ held : doc'.rows[k] = doc.rows[k]
      BY <1>1, <2>3 DEF WriteHolds, TypeOK, Document
    <3>2. \A k \in held : doc.rows[k].phase = "dispatched"
      BY <1>1, <2>3 DEF DocumentInv, PlanSound, Unchanged, WriteHolds
    <3>3. \A u \in Task : KeyOf[u] \in Key
      BY TasksAssumption
    <3> HIDE DEF held
    <3> QED BY <1>1, <2>1, <3>1, <3>2, <3>3 DEF Unbegun
  <2>4. CASE ~Bootstrap /\ ~WriteHolds
    BY <1>2, <1>6, <2>1, <2>4 DEF Operator, PlanResolution, ReadHolds, AbandonAttempt
  <2> QED BY <2>2, <2>3, <2>4
<1>7. CASE Environment \/ UNCHANGED vars
  BY <1>2, <1>7 DEF Environment, Tick, ChangePolicy, LegacySend, vars
<1> QED BY <1>4, <1>5, <1>6, <1>7 DEF Next

\* A task whose row counts keeps the policy it was admitted under.
LEMMA SeenStep ==
  ASSUME AdmissionInv, [Next]_vars, NEW w \in Windows, NEW t \in Holding(w)
  PROVE  seen'[t] = seen[t]
<1>1. TypeOK /\ t \in Task /\ pc[t] # "start"
  BY DEF AdmissionInv, CapInv, DocumentInv, Unbegun, Holding, Counted, Present
<1>2. CASE seen' = seen
  BY <1>2
<1>3. ASSUME NEW u \in Task, Begin(u) PROVE seen'[t] = seen[t]
  BY <1>1, <1>3 DEF Begin, TypeOK
<1>4. ASSUME NEW u \in Task, Step(u), ~Begin(u) PROVE seen' = seen
  BY <1>4 DEF Step, RefuseBegin, Recheck, Send, RefuseSend, Snapshot, Refuse,
              Commit, LostRace
<1>5. ASSUME NEW u \in Task, Fault(u) PROVE seen' = seen
  BY <1>5 DEF Fault, Stop, Deliver, RetrySettle
<1>6. CASE Operator
  BY <1>6 DEF Operator, Bootstrap, PlanResolution, ReadHolds, WriteHolds, AbandonAttempt
<1>7. CASE Environment
  BY <1>7 DEF Environment, Tick, ChangePolicy, LegacySend
<1>8. CASE UNCHANGED vars
  BY <1>8 DEF vars
<1> QED BY <1>2, <1>3, <1>4, <1>5, <1>6, <1>7, <1>8 DEF Next

\* A reservation changes no policy that was seen.
LEMMA ReservesSeen ==
  ASSUME NEW t \in Task, Reserves(t), [Next]_vars, TypeOK, PlanSound
  PROVE  seen' = seen
<1>1. ASSUME NEW u \in Task, Begin(u) PROVE seen' = seen
  <2>1. snap[t] # NoTime /\ snap'[t] = NoTime /\ snap' = snap
    BY <1>1 DEF Begin, Reserves, Write, TypeOK, Writer
  <2> QED BY <2>1
<1>2. ASSUME NEW u \in Task, Step(u), ~Begin(u) PROVE seen' = seen
  BY <1>2 DEF Step, RefuseBegin, Recheck, Send, RefuseSend, Snapshot, Refuse,
              Commit, LostRace
<1>3. ASSUME NEW u \in Task, Fault(u) PROVE seen' = seen
  BY <1>3 DEF Fault, Stop, Deliver, RetrySettle
<1>4. CASE Operator \/ Environment \/ UNCHANGED vars
  BY <1>4 DEF Operator, Bootstrap, PlanResolution, ReadHolds, WriteHolds, AbandonAttempt,
              Environment, Tick, ChangePolicy, LegacySend, vars
<1> QED BY <1>1, <1>2, <1>3, <1>4 DEF Next

\* What a reservation adds to what counts: its own row, within its own cap.
LEMMA ReservationFits ==
  ASSUME CapInv, NEW t \in Task, Reserves(t), clock' = clock, NEW w \in Windows
  PROVE  LET k == KeyOf[t]
             others == Counted(doc', w, clock') \ {k}
         IN /\ others \subseteq Counted(doc, w, clock)
            /\ IsFiniteSet(others) /\ Cardinality(others) \in Nat
            /\ k \in Counted(doc', w, clock') =>
                 \/ seen[t].cap[w] = Uncapped
                 \/ Cardinality(others) + 1 <= seen[t].cap[w]
<1> DEFINE k == KeyOf[t]
           now == snap[t]
           e == Reconciled(doc, now)
           others == Counted(doc', w, clock') \ {k}
<1>1. /\ doc \in Document /\ now \in Time /\ clock \in Time /\ now <= clock
      /\ seen[t] \in Policy /\ k \in Key
  BY TasksAssumption DEF CapInv, DocumentInv, TypeOK, Reserves, Write, Writer, SnapshotsPast
<1>2. e \in Document /\ CanReserve(t, e, now) /\ doc' = Reserved(t, e, now)
      /\ e.rows[k].phase = "absent"
  BY <1>1, ReconciledType DEF Reserves, Write, Accepts, Changed
<1> HIDE DEF e
<1>3. \A j \in Key : doc'.rows[j] = IF j = k THEN NewRow(PayloadOf[t], now) ELSE e.rows[j]
  BY <1>1, <1>2 DEF Reserved, WithRow, Document
<1>4. others \subseteq Counted(e, w, clock) /\ others \subseteq Counted(e, w, now) \ {k}
  <2>1. SUFFICES ASSUME NEW j \in others
                 PROVE  j \in Counted(e, w, clock) /\ j \in Counted(e, w, now) \ {k}
    OBVIOUS
  <2>2. j \in Key /\ j # k /\ doc'.rows[j] = e.rows[j] /\ e.rows[j] \in Row
    BY <1>2, <1>3, <2>1 DEF Counted, Present, Document
  <2>3. e.rows[j].settledAt >= clock - Span[w] => e.rows[j].settledAt >= now - Span[w]
    BY <1>1, <2>2, SpanType DEF Row, Time, NoTime
  <2> QED BY <2>1, <2>2, <2>3 DEF Counted, Present
<1>5. Counted(e, w, clock) \subseteq Counted(doc, w, clock)
  BY <1>1, ReconciledCounted DEF e
<1>6. /\ IsFiniteSet(others) /\ Cardinality(others) \in Nat
      /\ Cardinality(Counted(e, w, now) \ {k}) \in Nat
      /\ Cardinality(others) <= Cardinality(Counted(e, w, now) \ {k})
  <2>1. IsFiniteSet(Counted(e, w, now) \ {k})
    BY CountedFinite, FS_RemoveElement
  <2> HIDE DEF others
  <2> QED BY <1>4, <2>1, FS_Subset, FS_CardinalityType
<1>7. ASSUME k \in Counted(doc', w, clock'), seen[t].cap[w] # Uncapped
      PROVE  Cardinality(others) + 1 <= seen[t].cap[w]
  <2>1. Meters(w, PayloadOf[t])
    BY <1>1, <1>3, <1>7 DEF Counted, Present, NewRow
  <2>2. WithinLimits(e, k, PayloadOf[t], seen[t], now)
    BY <1>2 DEF CanReserve, Owns
  <2>3. Cardinality(Counted(e, w, now) \ {k}) + 1 <= seen[t].cap[w]
        /\ seen[t].cap[w] \in Int
    BY <1>1, <1>7, <2>1, <2>2, PolicyAssumption DEF WithinLimits, Uncapped
  <2> HIDE DEF others
  <2> QED BY <1>6, <2>3
<1> QED BY <1>4, <1>5, <1>6, <1>7

\* Every step keeps every set of admissions covered.
LEMMA AdmissionsStep ==
  ASSUME AdmissionInv, OwnIdentities, [Next]_vars
  PROVE  AdmissionsCover'
<1>1. TypeOK /\ PlanSound /\ CapInv /\ AdmissionsCover
  BY DEF AdmissionInv, CapInv, DocumentInv
<1>2. SUFFICES ASSUME NEW w \in Windows,
                      NEW S \in SUBSET {t \in Task : KeyOf[t] \in Counted(doc', w, clock')},
                      S # {}
               PROVE  \E t \in S : \/ seen'[t].cap[w] = Uncapped
                                   \/ Cardinality(S) <= seen'[t].cap[w]
  BY DEF AdmissionsCover, Holding, Fits, Counted, Present
<1>3. CASE S \subseteq Holding(w)
  <2>1. PICK t \in S : Fits(t, w, S)
    BY <1>1, <1>2, <1>3 DEF AdmissionsCover
  <2>2. seen'[t] = seen[t]
    BY <1>3, <2>1, SeenStep
  <2> QED BY <2>1, <2>2 DEF Fits
<1>4. CASE ~(S \subseteq Holding(w))
  <2>1. ~Shrinks
    BY <1>2, <1>4 DEF Shrinks, Holding
  <2>2. PICK t \in Task : Reserves(t) /\ clock' = clock
    BY <1>1, <2>1, CountedMoves
  <2> DEFINE k == KeyOf[t]
             others == Counted(doc', w, clock') \ {k}
             f == [u \in S |-> KeyOf[u]]
  <2>3. /\ others \subseteq Counted(doc, w, clock)
        /\ IsFiniteSet(others) /\ Cardinality(others) \in Nat
        /\ k \in Counted(doc', w, clock') =>
             \/ seen[t].cap[w] = Uncapped
             \/ Cardinality(others) + 1 <= seen[t].cap[w]
    BY <1>1, <2>2, ReservationFits
  <2>4. t \in S
    <3>1. PICK u \in S : u \in Task /\ KeyOf[u] \notin Counted(doc, w, clock)
      BY <1>2, <1>4 DEF Holding
    <3>2. KeyOf[u] = k
      BY <1>2, <2>3, <3>1
    <3> QED BY <3>1, <3>2 DEF OwnIdentities
  <2>5. k \in Counted(doc', w, clock') /\ seen' = seen
    BY <1>1, <1>2, <2>2, <2>4, ReservesSeen
  <2>6. f \in Injection(S, others \cup {k})
    BY <1>2 DEF OwnIdentities, Injection, IsInjective
  <2>7. IsFiniteSet(others \cup {k}) /\ Cardinality(others \cup {k}) = Cardinality(others) + 1
    BY <2>3, FS_AddElement
  <2>8. Cardinality(S) <= Cardinality(others) + 1 /\ Cardinality(S) \in Nat
    <3> HIDE DEF f, others
    <3> QED BY <2>6, <2>7, FS_Injection, FS_CardinalityType
  <2>9. seen[t].cap[w] \in Int
    BY <1>1, PolicyAssumption DEF TypeOK, Uncapped
  <2> HIDE DEF f, others
  <2> QED BY <2>3, <2>4, <2>5, <2>8, <2>9
<1> QED BY <1>3, <1>4

\* The sharper form of the caps when an administrator changes them: whenever
\* sends share a window, one of them was admitted under a policy whose own cap
\* covers them all.  For tasks with identities of their own, every number of
\* tasks and every set of policies.
THEOREM CapsFollowAdmissions == OwnIdentities /\ Spec => []CapsHoldAsAdmitted
<1> SUFFICES ASSUME OwnIdentities PROVE Spec => []CapsHoldAsAdmitted
  OBVIOUS
<1>1. Init => AdmissionInv
  <2> SUFFICES ASSUME Init PROVE AdmissionInv
    OBVIOUS
  <2>1. \A k \in Key : doc.rows[k].phase = "absent"
    BY DEF Init, NoDocument, FreshDocument, Absent
  <2>2. Unbegun
    BY <2>1, TasksAssumption DEF Unbegun
  <2>3. \A w : Holding(w) = {}
    BY <2>1 DEF Holding, Counted, Present
  <2> QED BY <2>2, <2>3, InitCaps DEF AdmissionInv, AdmissionsCover
<1>2. AdmissionInv /\ [Next]_vars => AdmissionInv'
  BY CapStep, UnbegunStep, AdmissionsStep DEF AdmissionInv
<1>3. AdmissionInv => CapsHoldAsAdmitted
  <2> SUFFICES ASSUME AdmissionInv, NEW w \in Windows, RecentlySent(w) # {}
               PROVE  \E t \in RecentlySent(w) : Fits(t, w, RecentlySent(w))
    BY DEF CapsHoldAsAdmitted, Fits
  <2>1. RecentlySent(w) \in SUBSET Holding(w)
    BY SendCounts DEF RecentlySent, Sent, Holding, AdmissionInv
  <2> QED BY <2>1 DEF AdmissionInv, AdmissionsCover
<1> QED BY <1>1, <1>2, <1>3, PTL DEF Spec
=============================================================================
