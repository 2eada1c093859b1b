--------------------------- MODULE HardQuotaProofs ---------------------------
(***************************************************************************)
(* Theorems about HardQuota for every value of its constants.              *)
(***************************************************************************)
EXTENDS HardQuota, TLAPS

-----------------------------------------------------------------------------
(* Lemmas on rows and documents                                            *)

\* A response Date is a time, and never ahead of the store's clock.
LEMMA StoreNowType ==
  ASSUME clock \in Time, NEW now \in StoreNow
  PROVE  now \in Time /\ now <= clock
BY TimesAssumption DEF StoreNow, Later, Time

\* Expiry keeps the type of a row.
LEMMA ExpireType ==
  ASSUME NEW r \in Row, NEW now \in Time
  PROVE  Expire(r, now) \in Row
BY DEF Expire, Row, Phases

\* An absent row is a row.
LEMMA AbsentType == Absent \in Row
BY DEF Absent, Row

\* Reconciliation keeps the type of a document.
LEMMA ReconciledType ==
  ASSUME NEW d \in Document, NEW now \in Time
  PROVE  Reconciled(d, now) \in Document
<1> DEFINE floor == Later(d.replayFloor, now - Replay)
           rows == [k \in Key |-> IF Prunable(k, Expire(d.rows[k], now), floor, now)
                                  THEN Absent ELSE Expire(d.rows[k], now)]
<1>1. floor \in Time
  BY TimesAssumption DEF Later, Document, Time
<1>2. \A k \in Key : d.rows[k] \in Row
  BY DEF Document
<1>3. rows \in [Key -> Row]
  BY <1>2, ExpireType, AbsentType
<1>4. Reconciled(d, now) = [d EXCEPT !.replayFloor = floor, !.observedAt = now,
                                     !.rows = rows]
  BY DEF Reconciled
<1> QED
  BY <1>1, <1>3, <1>4 DEF Document

\* Replacing one row keeps the type of a document.
LEMMA WithRowType ==
  ASSUME NEW d \in Document, NEW k \in Key, NEW r \in Row
  PROVE  WithRow(d, k, r) \in Document
BY DEF WithRow, Document

\* A new reservation is a row.
LEMMA NewRowType ==
  ASSUME NEW p \in Payload, NEW now \in Time
  PROVE  NewRow(p, now) \in Row
BY TimesAssumption DEF NewRow, Row, Time, Phases

\* Every change of the service keeps the type of a document.
LEMMA ChangedType ==
  ASSUME NEW t \in Task, NEW d \in Document, NEW now \in Time, pc[t] \in ServicePc
  PROVE  Changed(t, d, now) \in Document
<1> DEFINE k == KeyOf[t]
<1>1. k \in Key /\ PayloadOf[t] \in Payload /\ d.rows[k] \in Row
  BY TasksAssumption DEF Document
<1>2. Reserved(t, d, now) \in Document
  BY <1>1, NewRowType, WithRowType DEF Reserved
<1>3. Dispatched(t, d, now) \in Document
  <2>1. [d.rows[k] EXCEPT !.phase = "dispatched", !.dispatchedAt = now] \in Row
    BY <1>1 DEF Row, Phases
  <2> QED BY <1>1, <2>1, WithRowType DEF Dispatched
<1>4. Released(t, d, now) \in Document
  <2>1. [d.rows[k] EXCEPT !.phase = "released", !.settledAt = now, !.charged = 0] \in Row
    BY <1>1 DEF Row, Phases
  <2> QED BY <1>1, <2>1, WithRowType DEF Released
<1>5. Settled(t, d, now) \in Document
  <2>1. [d.rows[k] EXCEPT !.phase = "settled", !.settledAt = now,
                          !.settlement = "outcome"] \in Row
    BY <1>1 DEF Row, Phases
  <2> QED BY <1>1, <2>1, WithRowType DEF Settled
<1> QED
  BY <1>2, <1>3, <1>4, <1>5 DEF Changed, ServicePc

\* What one replace of a task's snapshot does, apart from the change itself.
LEMMA WriteType ==
  ASSUME TypeOK, NEW t \in Task, Write(t)
  PROVE  doc' \in Document /\ current' \subseteq Writer
         /\ snap' \in [Writer -> Time \cup {NoTime}]
<1>1. snap[t] \in Time
  BY DEF Write, TypeOK, Writer
<1>2. Reconciled(doc, snap[t]) \in Document
  BY <1>1, ReconciledType DEF TypeOK
<1>3. pc[t] \in ServicePc
  BY DEF Write, Accepts, ServicePc
<1> QED
  BY <1>1, <1>2, <1>3, ChangedType DEF Write, TypeOK, Writer

-----------------------------------------------------------------------------
(* Type correctness                                                        *)

\* The initial states are in the types.
LEMMA InitType == Init => TypeOK
<1> SUFFICES ASSUME Init PROVE TypeOK
  OBVIOUS
<1>1. FreshDocument(0) \in Document
  BY AbsentType DEF FreshDocument, Document, Time
<1>2. doc \in Document
  BY <1>1 DEF Init, NoDocument, Document
<1> QED
  BY <1>2 DEF Init, TypeOK, Writer, Pcs, Time, Row

\* A step of a task keeps the types.
LEMMA StepType ==
  ASSUME TypeOK, NEW t \in Task, Step(t)
  PROVE  TypeOK'
<1> USE DEF TypeOK, Pcs, ServicePc, Writer
<1>1. CASE Begin(t)
  BY <1>1, TasksAssumption, StoreNowType DEF Begin
<1>2. CASE RefuseBegin(t)
  BY <1>2 DEF RefuseBegin, Raise
<1>3. CASE Recheck(t)
  BY <1>3 DEF Recheck
<1>4. CASE Send(t)
  BY <1>4 DEF Send
<1>5. CASE RefuseSend(t)
  BY <1>5 DEF RefuseSend
<1>6. CASE Snapshot(t)
  BY <1>6, StoreNowType DEF Snapshot
<1>7. CASE Refuse(t)
  BY <1>7 DEF Refuse, Raise
<1>8. CASE Commit(t)
  <2>1. Write(t)
    BY <1>8 DEF Commit
  <2>2. pc' \in [Task -> Pcs]
    BY <1>8 DEF Commit, Calling, After
  <2>3. tries' \in [Task -> Nat]
    BY <1>8 DEF Commit
  <2> QED BY <1>8, <2>1, <2>2, <2>3, WriteType DEF Commit
<1>9. CASE LostRace(t)
  BY <1>9 DEF LostRace, Raise
<1> QED
  BY <1>1, <1>2, <1>3, <1>4, <1>5, <1>6, <1>7, <1>8, <1>9 DEF Step

\* A fault keeps the types.
LEMMA FaultType ==
  ASSUME TypeOK, NEW t \in Task, Fault(t)
  PROVE  TypeOK'
<1> USE DEF TypeOK, Writer
<1>1. CASE Stop(t)
  BY <1>1 DEF Stop, Raise
<1>2. CASE Deliver(t)
  BY <1>2, WriteType DEF Deliver
<1>3. CASE RetrySettle(t)
  BY <1>3 DEF RetrySettle
<1> QED
  BY <1>1, <1>2, <1>3 DEF Fault

\* A step of the operator keeps the types.
LEMMA OperatorType ==
  ASSUME TypeOK, Operator
  PROVE  TypeOK'
<1> USE DEF TypeOK, Writer
<1>1. CASE Bootstrap
  <2>1. PICK now \in StoreNow : doc' = FreshDocument(now)
    BY <1>1 DEF Bootstrap
  <2>2. doc' \in Document
    BY <2>1, StoreNowType, AbsentType DEF FreshDocument, Document
  <2> QED BY <1>1, <2>2 DEF Bootstrap
<1>2. CASE PlanResolution
  <2>1. plan' \subseteq [key : Key, row : Row]
    BY <1>2 DEF PlanResolution, Holds, Document
  <2> QED BY <1>2, <2>1 DEF PlanResolution
<1>3. CASE ReadHolds
  BY <1>3, StoreNowType DEF ReadHolds
<1>4. CASE WriteHolds
  <2> DEFINE now == snap["operator"]
             held == {h.key : h \in plan}
             rows == [k \in Key |-> IF k \in held THEN ResolvedRow(doc.rows[k], now)
                                                  ELSE doc.rows[k]]
  <2>1. now \in Time
    BY <1>4 DEF WriteHolds
  <2>2. \A r \in Row : ResolvedRow(r, now) \in Row
    BY ZenonT(40), <2>1 DEF ResolvedRow, Row, Phases
  <2>3. rows \in [Key -> Row]
    BY <2>2 DEF Document
  <2>4. Later(doc.observedAt, now) \in Time
    BY <2>1 DEF Later, Document
  <2>5. doc' = [doc EXCEPT !.observedAt = Later(@, now), !.rows = rows]
    BY <1>4 DEF WriteHolds, Document
  <2>6. doc' \in Document
    BY <2>3, <2>4, <2>5 DEF Document
  <2> QED BY <1>4, <2>6 DEF WriteHolds
<1>5. CASE AbandonAttempt
  BY <1>5 DEF AbandonAttempt
<1> QED
  BY <1>1, <1>2, <1>3, <1>4, <1>5 DEF Operator

\* A step of the environment keeps the types.
LEMMA EnvironmentType ==
  ASSUME TypeOK, Environment
  PROVE  TypeOK'
BY DEF Environment, Tick, ChangePolicy, LegacySend, TypeOK, Time

\* Every variable of HardQuota stays in its type.
THEOREM TypeCorrect == Spec => []TypeOK
<1>1. TypeOK /\ [Next]_vars => TypeOK'
  <2> SUFFICES ASSUME TypeOK, [Next]_vars PROVE TypeOK'
    OBVIOUS
  <2>1. CASE UNCHANGED vars
    BY <2>1 DEF vars, TypeOK
  <2> QED
    BY <2>1, StepType, FaultType, OperatorType, EnvironmentType DEF Next
<1> QED
  BY <1>1, InitType, PTL DEF Spec

-----------------------------------------------------------------------------
(* Valid documents                                                         *)

\* What reconciliation does to one row: expires it, keeps it or prunes it.
LEMMA ReconciledRow ==
  ASSUME NEW d \in Document, NEW now \in Time, NEW k \in Key
  PROVE  LET r == d.rows[k]
             s == Reconciled(d, now).rows[k]
             floor == Reconciled(d, now).replayFloor
         IN \/ s = Expire(r, now)
            \/ /\ s = Absent
               /\ r.phase \in {"settled", "released"}
               /\ issued[k] < floor
               /\ r.settledAt < now - Retention(r)
<1> DEFINE r == d.rows[k]
           floor == Later(d.replayFloor, now - Replay)
<1>1. r \in Row
  BY DEF Document
<1>2. /\ Reconciled(d, now).rows[k] = IF Prunable(k, Expire(r, now), floor, now)
                                      THEN Absent ELSE Expire(r, now)
      /\ Reconciled(d, now).replayFloor = floor
  BY DEF Reconciled, Document
<1>3. ASSUME Prunable(k, Expire(r, now), floor, now)
      PROVE  /\ r.phase \in {"settled", "released"}
             /\ issued[k] < floor
             /\ r.settledAt < now - Retention(r)
  <2>1. Retention(Expire(r, now)) \in Nat
    BY TimesAssumption DEF Retention
  <2>2. Expire(r, now) = r
    BY <1>1, <1>3, <2>1 DEF Expire, Prunable, Row, Time
  <2> QED BY <1>3, <2>2 DEF Prunable
<1> QED BY <1>2, <1>3

\* The scalar fields of a reconciled document.
LEMMA ReconciledFields ==
  ASSUME NEW d \in Document, NEW now \in Time
  PROVE  /\ Reconciled(d, now).exists = d.exists
         /\ Reconciled(d, now).validAfter = d.validAfter
         /\ Reconciled(d, now).blocked = d.blocked
         /\ Reconciled(d, now).observedAt = now
         /\ Reconciled(d, now).replayFloor \in Time
         /\ Reconciled(d, now).replayFloor >= d.replayFloor
         /\ d.replayFloor <= now => Reconciled(d, now).replayFloor <= now
<1> DEFINE floor == Later(d.replayFloor, now - Replay)
<1>1. Reconciled(d, now).replayFloor = floor
  BY DEF Reconciled, Document
<1>2. floor \in Time /\ floor >= d.replayFloor /\ (d.replayFloor <= now => floor <= now)
  BY TimesAssumption DEF Later, Document, Time
<1> QED BY <1>1, <1>2 DEF Reconciled, Document

\* Reconciliation keeps a valid document valid, and its leases run past "now".
LEMMA ReconciledValid ==
  ASSUME NEW d \in Document, Valid(d), NEW now \in Time, now >= d.observedAt,
         issued \in [Key -> Time \cup {NoTime}]
  PROVE  /\ Valid(Reconciled(d, now))
         /\ \A k \in Key : Reconciled(d, now).rows[k].phase = "reserved"
                            => Reconciled(d, now).rows[k].expiresAt >= now
<1> DEFINE e == Reconciled(d, now)
<1>1. e \in Document
  BY ReconciledType
<1>2. e.validAfter <= e.replayFloor /\ e.replayFloor <= e.observedAt
  BY ReconciledFields DEF Valid, Document, Time
<1>3. ASSUME NEW k \in Key, e.rows[k] # Absent
      PROVE  e.rows[k] = Expire(d.rows[k], now)
  BY <1>3, ReconciledRow
<1>4. ASSUME NEW k \in Present(e)
      PROVE  ValidRow(e, k)
  <2>1. k \in Key /\ e.rows[k] # Absent
    BY DEF Present, Absent
  <2>2. e.rows[k] = Expire(d.rows[k], now)
    BY <1>3, <2>1
  <2>3. d.rows[k] \in Row /\ d.rows[k].phase # "absent"
    BY <2>1, <2>2 DEF Expire, Document, Present
  <2>4. ValidRow(d, k)
    BY <2>1, <2>3 DEF Valid, Present
  <2>5. e.validAfter = d.validAfter /\ e.observedAt = now
    BY ReconciledFields
  <2>6. CASE d.rows[k].phase = "reserved" /\ d.rows[k].expiresAt < now
    BY <2>2, <2>3, <2>4, <2>5, <2>6 DEF ValidRow, Expire, Row, Document, Time, NoTime
  <2>7. CASE ~(d.rows[k].phase = "reserved" /\ d.rows[k].expiresAt < now)
    <3>1. e.rows[k] = d.rows[k]
      BY <2>2, <2>7 DEF Expire
    <3> QED
      BY <2>1, <2>3, <2>4, <2>5, <3>1 DEF ValidRow, Row, Document, Time, NoTime
  <2> QED BY <2>6, <2>7
<1>5. ASSUME NEW k \in Key, e.rows[k].phase = "reserved"
      PROVE  e.rows[k].expiresAt >= now
  <2>1. e.rows[k] = Expire(d.rows[k], now)
    BY <1>3, <1>5 DEF Absent
  <2>2. d.rows[k] \in Row
    BY DEF Document
  <2>3. d.rows[k].phase = "reserved" /\ e.rows[k] = d.rows[k]
        /\ ~(d.rows[k].expiresAt < now)
    BY <1>5, <2>1, <2>2 DEF Expire, Row
  <2>4. k \in Present(d)
    BY <2>3 DEF Present
  <2>5. d.rows[k].expiresAt \in Time \cup {NoTime}
    BY <2>2 DEF Row
  <2> QED BY <2>3, <2>5 DEF Time, NoTime
<1> QED BY <1>2, <1>4, <1>5 DEF Valid

\* Replacing one row by a valid one keeps a document valid.
LEMMA WithRowValid ==
  ASSUME NEW d \in Document, Valid(d), NEW k \in Key, NEW r \in Row,
         ValidRow(WithRow(d, k, r), k)
  PROVE  Valid(WithRow(d, k, r))
<1> DEFINE e == WithRow(d, k, r)
<1>1. e.validAfter = d.validAfter /\ e.replayFloor = d.replayFloor
      /\ e.observedAt = d.observedAt
      /\ \A j \in Key : e.rows[j] = IF j = k THEN r ELSE d.rows[j]
  BY DEF WithRow, Document
<1>2. ASSUME NEW j \in Present(e) PROVE ValidRow(e, j)
  <2>1. CASE j = k
    BY <2>1
  <2>2. CASE j # k
    <3>1. j \in Key /\ e.rows[j] = d.rows[j] /\ j \in Present(d)
      BY <1>1, <2>2 DEF Present
    <3>2. ValidRow(d, j)
      BY <3>1 DEF Valid
    <3> QED BY <1>1, <3>1, <3>2 DEF ValidRow
  <2> QED BY <2>1, <2>2
<1> QED BY <1>1, <1>2 DEF Valid

\* Every change of the service keeps a valid document valid.
LEMMA ChangedValid ==
  ASSUME NEW t \in Task, NEW d \in Document, Valid(d), NEW now \in Time,
         d.observedAt = now, issued \in [Key -> Time \cup {NoTime}],
         \A k \in Key : d.rows[k].phase = "reserved" => d.rows[k].expiresAt >= now,
         Accepts(t, d, now)
  PROVE  Valid(Changed(t, d, now))
<1> DEFINE k == KeyOf[t]
           r == d.rows[k]
<1>1. k \in Key /\ PayloadOf[t] \in Payload /\ r \in Row /\ "absent" \notin Phases
  BY TasksAssumption DEF Document, Phases
<1>2. ASSUME NEW s \in Row
      PROVE  /\ WithRow(d, k, s).rows[k] = s
             /\ WithRow(d, k, s).validAfter = d.validAfter
             /\ WithRow(d, k, s).observedAt = now
  BY <1>1 DEF WithRow, Document
<1>3. r.phase # "absent" => ValidRow(d, k)
  BY <1>1 DEF Valid, Present
<1>4. CASE pc[t] = "reserve"
  <2>1. CanReserve(t, d, now)
    BY <1>4 DEF Accepts
  <2>2. CASE r.phase # "absent"
    BY <1>4, <2>2 DEF Changed, Reserved
  <2>3. CASE r.phase = "absent"
    <3> DEFINE s == NewRow(PayloadOf[t], now)
    <3>1. s \in Row
      BY <1>1, NewRowType
    <3>2. issued[k] # NoTime /\ issued[k] >= d.validAfter
      BY <1>1, <2>1 DEF CanReserve, IdentityValid, Valid, Document, Time, NoTime
    <3>3. ValidRow(WithRow(d, k, s), k)
      BY <1>2, <3>1, <3>2, TimesAssumption DEF ValidRow, NewRow, Time, NoTime
    <3>4. Changed(t, d, now) = WithRow(d, k, s)
      BY <1>4, <2>3 DEF Changed, Reserved
    <3> QED BY <1>1, <3>1, <3>3, <3>4, WithRowValid
  <2> QED BY <2>2, <2>3
<1>5. CASE pc[t] = "dispatch"
  <2> DEFINE s == [r EXCEPT !.phase = "dispatched", !.dispatchedAt = now]
  <2>1. r.phase = "reserved" /\ r.expiresAt >= now
    BY <1>1, <1>5 DEF Accepts, CanDispatch
  <2>2. s \in Row
    BY <1>1 DEF Row, Phases
  <2>3. ValidRow(d, k)
    BY <1>3, <2>1
  <2>4. /\ s.phase = "dispatched" /\ s.dispatchedAt = now /\ s.settledAt = r.settledAt
        /\ s.reservedAt = r.reservedAt /\ s.expiresAt = r.expiresAt
        /\ s.settlement = r.settlement /\ s.charged = r.charged
    BY <1>1 DEF Row
  <2>6. ValidRow(WithRow(d, k, s), k)
    <3> HIDE DEF s
    <3> QED BY <1>1, <1>2, <2>1, <2>2, <2>3, <2>4 DEF ValidRow, Row, Time, NoTime
  <2>5. Changed(t, d, now) = WithRow(d, k, s)
    BY <1>5 DEF Changed, Dispatched
  <2> QED BY <1>1, <2>2, <2>5, <2>6, WithRowValid
<1>6. CASE pc[t] = "release"
  <2> DEFINE s == [r EXCEPT !.phase = "released", !.settledAt = now, !.charged = 0]
  <2>1. CASE r.phase = "released"
    BY <1>6, <2>1 DEF Changed, Released
  <2>2. CASE r.phase # "released"
    <3>1. r.phase = "reserved"
      BY <1>6, <2>2 DEF Accepts, CanRelease
    <3>2. s \in Row
      BY <1>1 DEF Row, Phases
    <3>3. /\ s.phase = "released" /\ s.settledAt = now /\ s.dispatchedAt = r.dispatchedAt
          /\ s.reservedAt = r.reservedAt /\ s.expiresAt = r.expiresAt
          /\ s.settlement = r.settlement /\ s.charged = 0
      BY <1>1 DEF Row
    <3>5. ValidRow(WithRow(d, k, s), k)
      <4> HIDE DEF s
      <4> QED BY <1>1, <1>2, <1>3, <3>1, <3>2, <3>3 DEF ValidRow, Row, Time, NoTime
    <3>4. Changed(t, d, now) = WithRow(d, k, s)
      BY <1>6, <2>2 DEF Changed, Released
    <3> QED BY <1>1, <3>2, <3>4, <3>5, WithRowValid
  <2> QED BY <2>1, <2>2
<1>7. CASE pc[t] = "settle"
  <2> DEFINE s == [r EXCEPT !.phase = "settled", !.settledAt = now,
                            !.settlement = "outcome"]
  <2>1. CASE r.settlement = "outcome"
    BY <1>7, <2>1 DEF Changed, Settled
  <2>2. CASE r.settlement # "outcome"
    <3>1. r.phase = "dispatched"
      BY <1>7, <2>2 DEF Accepts, CanSettle
    <3>2. s \in Row
      BY <1>1 DEF Row, Phases
    <3>3. /\ s.phase = "settled" /\ s.settledAt = now /\ s.dispatchedAt = r.dispatchedAt
          /\ s.reservedAt = r.reservedAt /\ s.expiresAt = r.expiresAt
          /\ s.settlement = "outcome" /\ s.charged = r.charged
      BY <1>1 DEF Row
    <3>5. ValidRow(WithRow(d, k, s), k)
      <4> HIDE DEF s
      <4> QED BY <1>1, <1>2, <1>3, <3>1, <3>2, <3>3 DEF ValidRow, Row, Time, NoTime
    <3>4. Changed(t, d, now) = WithRow(d, k, s)
      BY <1>7, <2>2 DEF Changed, Settled
    <3> QED BY <1>1, <3>2, <3>4, <3>5, WithRowValid
  <2> QED BY <2>1, <2>2
<1> QED BY <1>4, <1>5, <1>6, <1>7 DEF Accepts

-----------------------------------------------------------------------------
(* Spent identities, from one document to the next                         *)

\* How document e, written over d, treats an identity that d had spent.
KeptSpent(d, e, k) ==
  /\ SpentIn(e, k)
  /\ d.rows[k].phase = "absent" => e.rows[k].phase = "absent"
  /\ d.rows[k].phase = "settled" => e.rows[k].phase = "absent" \/ e.rows[k] = d.rows[k]
  /\ e.rows[k].phase # "absent" => e.rows[k].charged = 1

\* Reconciliation keeps spent identities.
LEMMA ReconciledSpent ==
  ASSUME NEW d \in Document, Valid(d), NEW now \in Time,
         issued \in [Key -> Time \cup {NoTime}],
         NEW k \in Key, SpentIn(d, k)
  PROVE  KeptSpent(d, Reconciled(d, now), k)
<1> DEFINE e == Reconciled(d, now)
           r == d.rows[k]
<1>1. r \in Row /\ "absent" \notin Phases
  BY DEF Document, Phases
<1>2. e.replayFloor \in Time /\ e.replayFloor >= d.replayFloor
  BY ReconciledFields
<1>3. r.phase # "absent" => ValidRow(d, k)
  BY DEF Valid, Present
<1>4. r.phase # "reserved"
  BY DEF SpentIn
<1>5. CASE e.rows[k] = Expire(r, now)
  <2>1. e.rows[k] = r
    BY <1>4, <1>5 DEF Expire
  <2>2. r.phase = "absent" => issued[k] < e.replayFloor
    BY <1>2 DEF SpentIn, Document, Time, NoTime
  <2>3. r.phase # "absent" => r.charged = 1
    BY <1>3 DEF ValidRow, SpentIn
  <2> QED BY <2>1, <2>2, <2>3 DEF KeptSpent, SpentIn
<1>6. CASE e.rows[k] = Absent /\ r.phase \in {"settled", "released"}
           /\ issued[k] < e.replayFloor
  <2>1. issued[k] # NoTime
    BY <1>3, <1>6 DEF ValidRow
  <2> QED BY <1>6, <2>1 DEF KeptSpent, SpentIn, Absent
<1> QED BY <1>5, <1>6, ReconciledRow

\* Every change of the service keeps spent identities.
LEMMA ChangedSpent ==
  ASSUME NEW t \in Task, NEW d \in Document, Valid(d), NEW now \in Time,
         issued \in [Key -> Time \cup {NoTime}], Accepts(t, d, now),
         NEW k \in Key, SpentIn(d, k)
  PROVE  KeptSpent(d, Changed(t, d, now), k)
<1> DEFINE e == Changed(t, d, now)
           r == d.rows[k]
<1>1. KeyOf[t] \in Key /\ r \in Row
  BY TasksAssumption DEF Document
<1>2. r.phase # "absent" => ValidRow(d, k)
  BY DEF Valid, Present
<1>3. r.phase # "absent" => r.charged = 1 /\ (r.phase = "settled" <=> r.settlement # "none")
  BY <1>2 DEF ValidRow, SpentIn
<1>4. KeptSpent(d, d, k)
  BY <1>3 DEF KeptSpent
<1>5. ASSUME NEW s PROVE WithRow(d, KeyOf[t], s).replayFloor = d.replayFloor
  BY DEF WithRow, Document
<1>6. ASSUME NEW s, k # KeyOf[t]
      PROVE  WithRow(d, KeyOf[t], s).rows[k] = r
  BY <1>1, <1>6 DEF WithRow, Document
<1>7. ASSUME NEW s, k = KeyOf[t]
      PROVE  WithRow(d, KeyOf[t], s).rows[k] = s
  BY <1>1, <1>7 DEF WithRow, Document
<1>8. CASE k # KeyOf[t]
  <2>1. ASSUME NEW s PROVE KeptSpent(d, WithRow(d, KeyOf[t], s), k)
    BY <1>4, <1>5, <1>6, <1>8 DEF KeptSpent, SpentIn
  <2> QED BY <1>4, <2>1 DEF Accepts, Changed, Reserved, Dispatched, Released, Settled
<1>9. CASE k = KeyOf[t]
  <2>1. CASE pc[t] = "reserve"
    <3>1. r.phase # "absent"
      BY <1>9, <2>1 DEF Accepts, CanReserve, IdentityValid, SpentIn, Document, Time, NoTime
    <3> QED BY <1>4, <1>9, <2>1, <3>1 DEF Changed, Reserved
  <2>2. CASE pc[t] = "dispatch"
    BY <1>9, <2>2 DEF Accepts, CanDispatch, SpentIn
  <2>3. CASE pc[t] = "release"
    BY <1>9, <2>3 DEF Accepts, CanRelease, SpentIn
  <2>4. CASE pc[t] = "settle"
    <3>1. CASE r.settlement = "outcome"
      BY <1>4, <1>9, <2>4, <3>1 DEF Changed, Settled
    <3>2. CASE r.settlement # "outcome"
      <4> DEFINE s == [r EXCEPT !.phase = "settled", !.settledAt = now,
                                !.settlement = "outcome"]
      <4>1. r.phase = "dispatched"
        BY <1>9, <2>4, <3>2 DEF Accepts, CanSettle
      <4>2. e = WithRow(d, KeyOf[t], s)
        BY <1>9, <2>4, <3>2 DEF Changed, Settled
      <4>3. e.rows[k] = s /\ s.phase = "settled" /\ s.charged = r.charged
        BY ZenonT(40), <1>1, <1>7, <1>9, <4>2 DEF Row
      <4> QED BY <1>3, <4>1, <4>3 DEF KeptSpent, SpentIn
    <3> QED BY <3>1, <3>2
  <2> QED BY <2>1, <2>2, <2>3, <2>4 DEF Accepts
<1> QED BY <1>8, <1>9

-----------------------------------------------------------------------------
(* The inductive invariant behind the safety theorems                      *)

\* A snapshot that may still be written is of the stored document.
SnapshotsCurrent ==
  \A x \in current : snap[x] # NoTime =>
    doc.exists /\ (x \in Task => snap[x] >= doc.observedAt)

\* An approved plan names dispatched rows, as they are in the snapshot the
\* operator may still write over.
PlanSound ==
  /\ plan # {} => doc.exists
  /\ plan = {} => snap["operator"] = NoTime
  /\ \A h \in plan : h.row.phase = "dispatched"
  /\ "operator" \in current /\ snap["operator"] # NoTime =>
       \A h \in plan : Unchanged(h) /\ h.row.dispatchedAt <= snap["operator"]

\* Nothing is issued or recorded before the owner's document exists.
NothingBefore ==
  ~doc.exists => \A k \in Key : doc.rows[k].phase = "absent" /\ issued[k] = NoTime

Claimed(t) == pc[t] \in {"authorize", "settle", "done"}

\* The identity of a task that won its dispatch claim is spent, and the task is
\* the only one that won it; only such a task ever sends.
ClaimsSpent ==
  /\ \A t \in Task : Claimed(t) => Spent(KeyOf[t])
  /\ \A t, u \in Task : Claimed(t) /\ Claimed(u) /\ KeyOf[t] = KeyOf[u] => t = u
  /\ \A t \in Task : sentAt[t] # NoTime => pc[t] \in {"settle", "done"}

DocumentInv == /\ TypeOK
               /\ DocumentStaysReadable
               /\ SnapshotsCurrent
               /\ PlanSound
               /\ NothingBefore

\* Every step keeps the types.
LEMMA TypeStep == TypeOK /\ [Next]_vars => TypeOK'
<1> SUFFICES ASSUME TypeOK, [Next]_vars PROVE TypeOK'
  OBVIOUS
<1>1. CASE UNCHANGED vars
  BY <1>1 DEF vars, TypeOK
<1> QED
  BY <1>1, StepType, FaultType, OperatorType, EnvironmentType DEF Next

\* A replace of a task's snapshot keeps the document valid and every spent
\* identity spent.
LEMMA WriteKeeps ==
  ASSUME DocumentInv, NEW t \in Task, Write(t), issued' = issued
  PROVE  /\ DocumentStaysReadable'
         /\ doc'.exists
         /\ \A k \in Key : Spent(k) => KeptSpent(doc, doc', k)
<1> DEFINE now == snap[t]
           e == Reconciled(doc, now)
<1>1. /\ doc \in Document /\ now \in Time /\ issued \in [Key -> Time \cup {NoTime}]
      /\ t \in current /\ now # NoTime
  BY DEF DocumentInv, TypeOK, Write, Writer
<1>2. doc.exists /\ now >= doc.observedAt /\ Valid(doc)
  BY <1>1 DEF DocumentInv, SnapshotsCurrent, DocumentStaysReadable
<1>3. Accepts(t, e, now) /\ doc' = Changed(t, e, now)
  BY DEF Write
<1>4. e \in Document /\ Valid(e) /\ e.observedAt = now /\ e.exists
      /\ \A k \in Key : e.rows[k].phase = "reserved" => e.rows[k].expiresAt >= now
  BY <1>1, <1>2, ReconciledType, ReconciledValid, ReconciledFields
<1>5. Valid(doc')
  <2> HIDE DEF now, e
  <2> QED BY <1>1, <1>3, <1>4, ChangedValid
<1>6. doc'.exists
  <2>1. ASSUME NEW k, NEW s PROVE WithRow(e, k, s).exists
    BY <1>4 DEF WithRow, Document
  <2> HIDE DEF e
  <2> QED BY <1>3, <1>4, <2>1
          DEF Accepts, Changed, Reserved, Dispatched, Released, Settled
<1>7. ASSUME NEW k \in Key, Spent(k) PROVE KeptSpent(doc, doc', k)
  <2>1. KeptSpent(doc, e, k)
    BY <1>1, <1>2, <1>7, ReconciledSpent DEF Spent
  <2>2. KeptSpent(e, doc', k)
    <3>1. SpentIn(e, k)
      BY <2>1 DEF KeptSpent
    <3> HIDE DEF now, e
    <3> QED BY <1>1, <1>3, <1>4, <3>1, ChangedSpent
  <2> QED BY <2>1, <2>2 DEF KeptSpent
<1>8. Valid(doc)'
  BY <1>5 DEF Valid, ValidRow, Present
<1> QED BY <1>6, <1>7, <1>8 DEF DocumentStaysReadable

\* The operator's replace does so too.
LEMMA WriteHoldsKeeps ==
  ASSUME DocumentInv, WriteHolds
  PROVE  /\ DocumentStaysReadable'
         /\ \A k \in Key : Spent(k) => KeptSpent(doc, doc', k)
         /\ doc'.exists
<1> DEFINE now == snap["operator"]
           held == {h.key : h \in plan}
           rows == [k \in Key |-> IF k \in held THEN ResolvedRow(doc.rows[k], now)
                                                ELSE doc.rows[k]]
<1>1. /\ doc \in Document /\ now \in Time /\ issued \in [Key -> Time \cup {NoTime}]
      /\ issued' = issued /\ plan \subseteq [key : Key, row : Row]
  BY DEF DocumentInv, TypeOK, WriteHolds, Writer
<1>2. doc.exists /\ Valid(doc)
  BY <1>1 DEF DocumentInv, SnapshotsCurrent, DocumentStaysReadable, WriteHolds
<1>3. /\ doc'.exists /\ doc'.rows = rows
      /\ doc'.validAfter = doc.validAfter /\ doc'.replayFloor = doc.replayFloor
      /\ doc'.observedAt = Later(doc.observedAt, now)
  BY <1>1, <1>2 DEF WriteHolds, Document
<1>4. doc'.observedAt >= doc.observedAt /\ doc'.observedAt >= now
      /\ doc'.observedAt \in Time
  BY <1>1, <1>3 DEF Later, Document, Time
<1>5. ASSUME NEW k \in held
      PROVE  k \in Key /\ doc.rows[k].phase = "dispatched" /\ doc.rows[k].dispatchedAt <= now
  BY <1>1 DEF DocumentInv, PlanSound, Unchanged, WriteHolds
<1>6. ASSUME NEW k \in Key
      PROVE  doc.rows[k] \in Row /\ (doc.rows[k].phase # "absent" => ValidRow(doc, k))
  BY <1>1, <1>2 DEF Document, Valid, Present
<1>7. ASSUME NEW k \in held
      PROVE  /\ rows[k].phase = "settled" /\ rows[k].settledAt = now
             /\ rows[k].settlement = "resolution"
             /\ rows[k].dispatchedAt = doc.rows[k].dispatchedAt
             /\ rows[k].reservedAt = doc.rows[k].reservedAt
             /\ rows[k].expiresAt = doc.rows[k].expiresAt
             /\ rows[k].charged = doc.rows[k].charged
  BY ZenonT(40), <1>5, <1>6 DEF ResolvedRow, Row
<1>8. ASSUME NEW k \in Key, rows[k].phase # "absent" PROVE ValidRow(doc, k)'
  <2>1. CASE k \in held
    <3>1. ValidRow(doc, k) /\ doc.rows[k] \in Row
      BY <1>5, <1>6, <2>1
    <3> HIDE DEF rows, held, now
    <3> QED BY <1>1, <1>3, <1>4, <1>5, <1>7, <2>1, <3>1
            DEF ValidRow, Row, Document, Time, NoTime
  <2>2. CASE k \notin held
    <3>1. rows[k] = doc.rows[k]
      BY <2>2
    <3>2. ValidRow(doc, k) /\ doc.rows[k] \in Row
      BY <1>6, <1>8, <3>1
    <3> HIDE DEF rows, held, now
    <3> QED BY <1>1, <1>3, <1>4, <3>1, <3>2 DEF ValidRow, Row, Document, Time, NoTime
  <2> QED BY <2>1, <2>2
<1>9. Valid(doc)'
  BY <1>1, <1>2, <1>3, <1>4, <1>8 DEF Valid, Present, Document, Time
<1>10. ASSUME NEW k \in Key, Spent(k) PROVE KeptSpent(doc, doc', k)
  <2>1. CASE k \in held
    <3>1. doc.rows[k].phase = "dispatched" /\ doc.rows[k].charged = 1
      BY <1>5, <1>6, <2>1 DEF ValidRow
    <3>2. rows[k].phase = "settled" /\ rows[k].charged = 1
      BY <1>7, <2>1, <3>1
    <3> HIDE DEF rows, held, now
    <3> QED BY <1>3, <3>1, <3>2 DEF KeptSpent, SpentIn
  <2>2. CASE k \notin held
    <3>1. rows[k] = doc.rows[k]
      BY <2>2
    <3> HIDE DEF rows, held, now
    <3> QED BY <1>3, <1>6, <1>10, <3>1 DEF KeptSpent, Spent, SpentIn, ValidRow
  <2> QED BY <2>1, <2>2
<1> QED BY <1>3, <1>9, <1>10 DEF DocumentStaysReadable

\* DocumentInv holds before anything has happened.
LEMMA InitDocument == Init => DocumentInv
<1> SUFFICES ASSUME Init PROVE DocumentInv
  OBVIOUS
<1>1. \A k \in Key : doc.rows[k].phase = "absent"
  BY DEF Init, NoDocument, FreshDocument, Absent
<1>2. doc.validAfter = 0 /\ doc.replayFloor = 0 /\ doc.observedAt = 0
  BY DEF Init, NoDocument, FreshDocument
<1>3. Valid(doc)
  BY <1>1, <1>2 DEF Valid, Present
<1>4. snap["operator"] = NoTime
  BY DEF Init, Writer
<1> QED BY <1>1, <1>3, <1>4, InitType
        DEF Init, DocumentInv, DocumentStaysReadable, SnapshotsCurrent, PlanSound,
            NothingBefore

\* Actions that leave the document and every snapshot of it alone.
LEMMA DocumentUntouched ==
  ASSUME DocumentInv, TypeOK', UNCHANGED <<doc, issued, current, snap, plan>>
  PROVE  DocumentInv' /\ KeepsSpent
<1>1. DocumentStaysReadable'
  BY DEF DocumentInv, DocumentStaysReadable, Valid, ValidRow, Present
<1>2. SnapshotsCurrent' /\ PlanSound' /\ NothingBefore'
  BY DEF DocumentInv, SnapshotsCurrent, PlanSound, NothingBefore, Unchanged
<1>3. ASSUME NEW k \in Key, Spent(k), doc.rows[k].phase # "absent"
      PROVE  doc.rows[k].charged = 1
  <2>1. doc.exists
    BY <1>3 DEF DocumentInv, NothingBefore
  <2>2. ValidRow(doc, k)
    BY <1>3, <2>1 DEF DocumentInv, DocumentStaysReadable, Valid, Present
  <2> QED BY <1>3, <2>2 DEF ValidRow, Spent, SpentIn
<1>4. KeepsSpent
  BY <1>3 DEF KeepsSpent, Spent, SpentIn
<1> QED BY <1>1, <1>2, <1>4 DEF DocumentInv

\* What the spent identities are owed, in terms of KeptSpent.
LEMMA KeptSpentSuffices ==
  ASSUME issued' = issued, \A k \in Key : Spent(k) => KeptSpent(doc, doc', k)
  PROVE  KeepsSpent
BY DEF KeepsSpent, KeptSpent, Spent, SpentIn

\* Every step keeps DocumentInv, and every spent identity spent.
LEMMA DocumentStep ==
  ASSUME DocumentInv, [Next]_vars
  PROVE  DocumentInv' /\ KeepsSpent
<1>1. TypeOK'
  BY TypeStep DEF DocumentInv
<1>2. TypeOK
  BY DEF DocumentInv
<1>3. "operator" \notin Task
  BY TasksAssumption
<1>4. ASSUME NEW k \in Key, Spent(k)
      PROVE  /\ doc.exists /\ issued[k] # NoTime
             /\ doc.rows[k].phase # "absent" => doc.rows[k].charged = 1
  <2>1. doc.exists
    BY <1>4 DEF DocumentInv, NothingBefore, Spent, SpentIn
  <2>2. doc.rows[k].phase # "absent" => ValidRow(doc, k)
    BY <2>1 DEF DocumentInv, DocumentStaysReadable, Valid, Present
  <2> QED BY <1>4, <2>1, <2>2 DEF ValidRow, Spent, SpentIn
<1>5. ASSUME NEW t \in Task, Begin(t)
      PROVE  DocumentInv' /\ KeepsSpent
  <2>1. /\ UNCHANGED <<doc, current, snap, plan>> /\ doc.exists
        /\ \A k \in Key : issued[k] # NoTime => issued'[k] = issued[k]
    BY <1>2, <1>5, TasksAssumption DEF Begin, TypeOK
  <2>2. DocumentStaysReadable'
    BY <2>1 DEF DocumentInv, DocumentStaysReadable, Valid, ValidRow, Present
  <2>3. SnapshotsCurrent' /\ PlanSound' /\ NothingBefore'
    BY <2>1 DEF DocumentInv, SnapshotsCurrent, PlanSound, NothingBefore, Unchanged
  <2>4. KeepsSpent
    BY <1>4, <2>1 DEF KeepsSpent, Spent, SpentIn
  <2> QED BY <1>1, <2>2, <2>3, <2>4 DEF DocumentInv
<1>6. ASSUME NEW t \in Task, Snapshot(t)
      PROVE  DocumentInv' /\ KeepsSpent
  <2>1. PICK now \in StoreNow : Readable(t, now) /\ snap' = [snap EXCEPT ![t] = now]
    BY <1>6 DEF Snapshot
  <2>2. doc.exists /\ now >= doc.observedAt /\ UNCHANGED <<doc, issued, plan>>
        /\ current' = current \cup {t}
    BY <1>6, <2>1 DEF Snapshot, Readable
  <2>3. snap'[t] = now /\ \A x \in Writer : x # t => snap'[x] = snap[x]
    BY <1>2, <2>1 DEF TypeOK, Writer
  <2>4. DocumentStaysReadable' /\ NothingBefore'
    BY <2>2 DEF DocumentInv, DocumentStaysReadable, Valid, ValidRow, Present, NothingBefore
  <2>5. SnapshotsCurrent'
    BY <1>2, <2>2, <2>3 DEF DocumentInv, SnapshotsCurrent, TypeOK, Writer
  <2>6. PlanSound'
    BY <1>3, <2>2, <2>3 DEF DocumentInv, PlanSound, Unchanged, Writer
  <2>7. KeepsSpent
    BY <1>4, <2>2 DEF KeepsSpent, Spent, SpentIn
  <2> QED BY <1>1, <2>4, <2>5, <2>6, <2>7 DEF DocumentInv
<1>7. ASSUME NEW t \in Task, Write(t), UNCHANGED <<issued, plan>>
      PROVE  DocumentInv' /\ KeepsSpent
  <2>1. DocumentStaysReadable' /\ doc'.exists
        /\ \A k \in Key : Spent(k) => KeptSpent(doc, doc', k)
    BY <1>7, WriteKeeps
  <2>2. current' = {} /\ snap'["operator"] = snap["operator"]
    BY <1>2, <1>3, <1>7 DEF Write, TypeOK, Writer
  <2>3. SnapshotsCurrent' /\ PlanSound' /\ NothingBefore'
    BY <1>7, <2>1, <2>2 DEF DocumentInv, SnapshotsCurrent, PlanSound, NothingBefore
  <2>4. KeepsSpent
    BY <1>7, <2>1, KeptSpentSuffices
  <2> QED BY <1>1, <2>1, <2>3, <2>4 DEF DocumentInv
<1>8. ASSUME NEW t \in Task, UNCHANGED <<doc, issued, plan>>, current' \subseteq current,
             snap' = [snap EXCEPT ![t] = NoTime]
      PROVE  DocumentInv' /\ KeepsSpent
  <2>1. \A x \in Writer : snap'[x] = IF x = t THEN NoTime ELSE snap[x]
    BY <1>2, <1>8 DEF TypeOK, Writer
  <2>2. DocumentStaysReadable' /\ NothingBefore'
    BY <1>8 DEF DocumentInv, DocumentStaysReadable, Valid, ValidRow, Present, NothingBefore
  <2>3. SnapshotsCurrent'
    BY <1>2, <1>8, <2>1 DEF DocumentInv, SnapshotsCurrent, TypeOK
  <2>4. PlanSound'
    BY <1>3, <1>8, <2>1 DEF DocumentInv, PlanSound, Unchanged, Writer
  <2>5. KeepsSpent
    BY <1>4, <1>8 DEF KeepsSpent, Spent, SpentIn
  <2> QED BY <1>1, <2>2, <2>3, <2>4, <2>5 DEF DocumentInv
<1>9. CASE UNCHANGED vars
  BY <1>1, <1>9, DocumentUntouched DEF vars
<1>10. ASSUME NEW t \in Task, Step(t)
       PROVE  DocumentInv' /\ KeepsSpent
  <2>1. CASE Begin(t)
    BY <1>5, <2>1
  <2>2. CASE RefuseBegin(t)
    BY <1>1, <2>2, DocumentUntouched DEF RefuseBegin
  <2>3. CASE Recheck(t)
    BY <1>1, <2>3, DocumentUntouched DEF Recheck
  <2>4. CASE Send(t)
    BY <1>1, <2>4, DocumentUntouched DEF Send
  <2>5. CASE RefuseSend(t)
    BY <1>1, <2>5, DocumentUntouched DEF RefuseSend
  <2>6. CASE Snapshot(t)
    BY <1>6, <2>6
  <2>7. CASE Refuse(t)
    BY <1>1, <2>7, DocumentUntouched DEF Refuse
  <2>8. CASE Commit(t)
    BY <1>7, <2>8 DEF Commit
  <2>9. CASE LostRace(t)
    BY <1>8, <2>9 DEF LostRace
  <2> QED BY <1>10, <2>1, <2>2, <2>3, <2>4, <2>5, <2>6, <2>7, <2>8, <2>9 DEF Step
<1>11. ASSUME NEW t \in Task, Fault(t)
       PROVE  DocumentInv' /\ KeepsSpent
  <2>1. CASE Stop(t)
    BY <1>1, <2>1, DocumentUntouched DEF Stop
  <2>2. CASE Deliver(t)
    BY <1>7, <2>2 DEF Deliver
  <2>3. CASE RetrySettle(t)
    <3>1. CASE UNCHANGED <<snap, current>>
      BY <1>1, <2>3, <3>1, DocumentUntouched DEF RetrySettle
    <3>2. CASE snap' = [snap EXCEPT ![t] = NoTime] /\ current' = current \ {t}
      BY <1>8, <2>3, <3>2 DEF RetrySettle
    <3> QED BY <2>3, <3>1, <3>2 DEF RetrySettle
  <2> QED BY <1>11, <2>1, <2>2, <2>3 DEF Fault
<1>12. ASSUME Operator
       PROVE  DocumentInv' /\ KeepsSpent
  <2>1. CASE Bootstrap
    <3>1. PICK now \in StoreNow : doc' = FreshDocument(now)
      BY <2>1 DEF Bootstrap
    <3>2. /\ now \in Time /\ doc'.exists /\ doc'.validAfter = now /\ doc'.replayFloor = now
          /\ doc'.observedAt = now /\ \A k \in Key : doc'.rows[k].phase = "absent"
      BY <1>2, <3>1, StoreNowType DEF FreshDocument, Absent, TypeOK
    <3>3. DocumentStaysReadable'
      BY <3>2 DEF DocumentStaysReadable, Valid, Present, Time
    <3>4. ~doc.exists /\ UNCHANGED <<issued, current, snap, plan>>
      BY <2>1 DEF Bootstrap
    <3>5. SnapshotsCurrent' /\ PlanSound' /\ NothingBefore'
      BY <3>2, <3>4 DEF DocumentInv, SnapshotsCurrent, PlanSound, NothingBefore
    <3>6. KeepsSpent
      BY <1>4, <3>4 DEF KeepsSpent
    <3> QED BY <1>1, <3>3, <3>5, <3>6 DEF DocumentInv
  <2>2. CASE PlanResolution
    <3>1. /\ UNCHANGED <<doc, issued, current, snap>> /\ doc.exists /\ plan = {}
          /\ \A h \in plan' : h.row.phase = "dispatched"
          /\ plan' # {}
      <4>1. PICK now \in StoreNow : \E cutoff \in 0..(now - HoldMinAge) :
              /\ Holds(cutoff) # {}
              /\ plan' = {[key |-> k, row |-> doc.rows[k]] : k \in Holds(cutoff)}
        BY <2>2 DEF PlanResolution
      <4>2. PICK cutoff \in 0..(now - HoldMinAge) :
              /\ Holds(cutoff) # {}
              /\ plan' = {[key |-> k, row |-> doc.rows[k]] : k \in Holds(cutoff)}
        BY <4>1
      <4>3. \A k \in Holds(cutoff) : doc.rows[k].phase = "dispatched"
        BY DEF Holds
      <4>4. \A h \in plan' : h.row.phase = "dispatched"
        BY <4>2, <4>3
      <4>5. plan' # {}
        BY <4>2
      <4>6. UNCHANGED <<doc, issued, current, snap>> /\ doc.exists /\ plan = {}
        BY <2>2 DEF PlanResolution
      <4> QED BY <4>4, <4>5, <4>6
    <3>2. DocumentStaysReadable' /\ NothingBefore' /\ SnapshotsCurrent'
      BY <3>1 DEF DocumentInv, DocumentStaysReadable, Valid, ValidRow, Present,
                  NothingBefore, SnapshotsCurrent
    <3>3. PlanSound'
      BY <3>1 DEF DocumentInv, PlanSound
    <3>4. KeepsSpent
      BY <1>4, <3>1 DEF KeepsSpent, Spent, SpentIn
    <3> QED BY <1>1, <3>2, <3>3, <3>4 DEF DocumentInv
  <2>3. CASE ReadHolds
    <3>1. PICK now \in StoreNow :
            /\ \A h \in plan : h.row.dispatchedAt < now - HoldMinAge
            /\ snap' = [snap EXCEPT !["operator"] = now]
      BY <2>3 DEF ReadHolds
    <3>2. /\ UNCHANGED <<doc, issued, plan>> /\ plan # {} /\ \A h \in plan : Unchanged(h)
          /\ current' = current \cup {"operator"}
      BY <2>3 DEF ReadHolds
    <3>3. /\ now \in Time /\ snap'["operator"] = now
          /\ \A t \in Task : snap'[t] = snap[t]
      BY <1>2, <1>3, <3>1, StoreNowType DEF TypeOK, Writer
    <3>4. \A h \in plan : h.row.dispatchedAt <= now
      BY <1>2, <3>1, <3>3, TimesAssumption DEF TypeOK, Row, Time, NoTime
    <3>5. DocumentStaysReadable' /\ NothingBefore'
      BY <3>2 DEF DocumentInv, DocumentStaysReadable, Valid, ValidRow, Present, NothingBefore
    <3>6. SnapshotsCurrent'
      BY <1>2, <1>3, <3>2, <3>3 DEF DocumentInv, SnapshotsCurrent, PlanSound, TypeOK, Writer
    <3>7. PlanSound'
      BY <3>2, <3>3, <3>4 DEF DocumentInv, PlanSound, Unchanged
    <3>8. KeepsSpent
      BY <1>4, <3>2 DEF KeepsSpent, Spent, SpentIn
    <3> QED BY <1>1, <3>5, <3>6, <3>7, <3>8 DEF DocumentInv
  <2>4. CASE WriteHolds
    <3>1. DocumentStaysReadable' /\ doc'.exists
          /\ \A k \in Key : Spent(k) => KeptSpent(doc, doc', k)
      BY <2>4, WriteHoldsKeeps
    <3>2. current' = {} /\ plan' = {} /\ issued' = issued /\ snap'["operator"] = NoTime
      BY <1>2, <2>4 DEF WriteHolds, TypeOK, Writer
    <3>3. SnapshotsCurrent' /\ PlanSound' /\ NothingBefore'
      BY <3>1, <3>2 DEF SnapshotsCurrent, PlanSound, NothingBefore
    <3>4. KeepsSpent
      BY <3>1, <3>2, KeptSpentSuffices
    <3> QED BY <1>1, <3>1, <3>3, <3>4 DEF DocumentInv
  <2>5. CASE AbandonAttempt
    <3>1. /\ UNCHANGED <<doc, issued>> /\ current' \subseteq current
          /\ plan' = plan \/ plan' = {}
          /\ snap'["operator"] = NoTime /\ \A t \in Task : snap'[t] = snap[t]
      BY <1>2, <1>3, <2>5 DEF AbandonAttempt, TypeOK, Writer
    <3>2. DocumentStaysReadable' /\ NothingBefore'
      BY <3>1 DEF DocumentInv, DocumentStaysReadable, Valid, ValidRow, Present, NothingBefore
    <3>3. SnapshotsCurrent'
      BY <1>2, <1>3, <3>1 DEF DocumentInv, SnapshotsCurrent, TypeOK, Writer
    <3>4. PlanSound'
      BY <3>1 DEF DocumentInv, PlanSound
    <3>5. KeepsSpent
      BY <1>4, <3>1 DEF KeepsSpent, Spent, SpentIn
    <3> QED BY <1>1, <3>2, <3>3, <3>4, <3>5 DEF DocumentInv
  <2> QED BY <1>12, <2>1, <2>2, <2>3, <2>4, <2>5 DEF Operator
<1>13. CASE Environment
  BY <1>1, <1>13, DocumentUntouched DEF Environment, Tick, ChangePolicy, LegacySend
<1> QED
  BY <1>9, <1>10, <1>11, <1>12, <1>13 DEF Next

\* No behaviour stores a document that the next read would refuse.
THEOREM DocumentReadable == Spec => []DocumentStaysReadable
<1>1. DocumentInv /\ [Next]_vars => DocumentInv'
  BY DocumentStep
<1>2. DocumentInv => DocumentStaysReadable
  BY DEF DocumentInv
<1> QED
  BY <1>1, <1>2, InitDocument, PTL DEF Spec

\* A spent identity is never given back, reopened or settled twice.
THEOREM SpentForGood == Spec => SpentStaysSpent
<1>1. DocumentInv /\ [Next]_vars => DocumentInv' /\ KeepsSpent
  BY DocumentStep
<1> QED
  BY <1>1, InitDocument, PTL DEF Spec, SpentStaysSpent

-----------------------------------------------------------------------------
(* One send per identity                                                   *)

\* A dispatch claim is won only on an identity that nobody had spent.
LEMMA ClaimIsFirst ==
  ASSUME DocumentInv, NEW t \in Task, Write(t), pc[t] = "dispatch"
  PROVE  /\ doc.rows[KeyOf[t]].phase = "reserved"
         /\ doc'.rows[KeyOf[t]].phase = "dispatched"
         /\ doc'.rows[KeyOf[t]].payload = PayloadOf[t]
<1> DEFINE now == snap[t]
           e == Reconciled(doc, now)
           k == KeyOf[t]
<1>1. doc \in Document /\ now \in Time /\ k \in Key
  BY TasksAssumption DEF DocumentInv, TypeOK, Write, Writer
<1>2. e \in Document
  BY <1>1, ReconciledType
<1>3. e.rows[k].phase = "reserved" /\ e.rows[k].payload = PayloadOf[t]
      /\ doc' = Dispatched(t, e, now)
  BY DEF Write, Accepts, CanDispatch, Owns, Changed
<1>4. doc.rows[k] \in Row /\ e.rows[k] \in Row
  BY <1>1, <1>2 DEF Document
<1>5. e.rows[k] = Expire(doc.rows[k], now)
  BY <1>1, <1>3, ReconciledRow DEF Absent
<1>6. doc.rows[k].phase = "reserved"
  BY <1>3, <1>4, <1>5 DEF Expire, Row
<1>7. LET s == [e.rows[k] EXCEPT !.phase = "dispatched", !.dispatchedAt = now]
      IN s.phase = "dispatched" /\ s.payload = e.rows[k].payload
  BY <1>4 DEF Row
<1>8. doc'.rows[k] = [e.rows[k] EXCEPT !.phase = "dispatched", !.dispatchedAt = now]
  <2> HIDE DEF e, now
  <2> QED BY <1>1, <1>2, <1>3 DEF Dispatched, WithRow, Document
<1> QED BY <1>3, <1>6, <1>7, <1>8

\* Claims are kept by every step.
LEMMA ClaimsStep ==
  ASSUME DocumentInv, ClaimsSpent, [Next]_vars
  PROVE  ClaimsSpent'
<1>1. TypeOK /\ KeepsSpent
  BY DocumentStep DEF DocumentInv
<1>2. \A t \in Task : KeyOf[t] \in Key
  BY TasksAssumption
<1>3. ASSUME UNCHANGED <<pc, sentAt>>
      PROVE  ClaimsSpent'
  BY <1>1, <1>2, <1>3 DEF ClaimsSpent, Claimed, KeepsSpent
<1>4. ASSUME NEW t \in Task, NEW p, pc' = [pc EXCEPT ![t] = p], ~Claimed(t),
             p \notin {"authorize", "settle", "done"}, sentAt' = sentAt
      PROVE  ClaimsSpent'
  <2>1. \A u \in Task : pc'[u] = IF u = t THEN p ELSE pc[u]
    BY <1>1, <1>4 DEF TypeOK
  <2> QED BY <1>1, <1>2, <1>4, <2>1 DEF ClaimsSpent, Claimed, KeepsSpent
<1>5. ASSUME NEW t \in Task, NEW p \in {"settle", "done"}, pc' = [pc EXCEPT ![t] = p],
             Claimed(t), \A u \in Task : u # t => sentAt'[u] = sentAt[u]
      PROVE  ClaimsSpent'
  <2>1. \A u \in Task : pc'[u] = IF u = t THEN p ELSE pc[u]
    BY <1>1, <1>5 DEF TypeOK
  <2>2. \A u \in Task : Claimed(u)' <=> Claimed(u)
    BY <1>5, <2>1 DEF Claimed
  <2> QED BY <1>1, <1>2, <1>5, <2>1, <2>2 DEF ClaimsSpent, KeepsSpent
<1>6. ASSUME NEW t \in Task, Commit(t), pc[t] = "dispatch"
      PROVE  ClaimsSpent'
  <2>1. Write(t) /\ sentAt' = sentAt /\ pc' = [pc EXCEPT ![t] = "authorize"]
    BY <1>6 DEF Commit, After, ServicePc
  <2>2. doc.rows[KeyOf[t]].phase = "reserved" /\ Spent(KeyOf[t])'
    BY <1>6, <2>1, ClaimIsFirst DEF Spent, SpentIn
  <2>3. \A u \in Task : Claimed(u) => KeyOf[u] # KeyOf[t]
    BY <2>2 DEF ClaimsSpent, Spent, SpentIn
  <2>4. \A u \in Task : pc'[u] = IF u = t THEN "authorize" ELSE pc[u]
    BY <1>1, <2>1 DEF TypeOK
  <2>5. \A u \in Task : Claimed(u)' <=> (Claimed(u) \/ u = t)
    BY <1>6, <2>4 DEF Claimed
  <2> QED BY <1>1, <1>2, <1>6, <2>1, <2>2, <2>3, <2>4, <2>5 DEF ClaimsSpent, KeepsSpent
<1>7. ASSUME NEW t \in Task, Step(t)
      PROVE  ClaimsSpent'
  <2>1. CASE Begin(t)
    BY <1>4, <2>1 DEF Begin, Claimed
  <2>2. CASE RefuseBegin(t)
    BY <1>3, <2>2 DEF RefuseBegin
  <2>3. CASE Recheck(t)
    BY <1>4, <2>3 DEF Recheck, Claimed
  <2>4. CASE Send(t)
    BY <1>1, <1>5, <2>4 DEF Send, Claimed, TypeOK
  <2>5. CASE RefuseSend(t)
    BY <1>5, <2>5 DEF RefuseSend, Claimed
  <2>6. CASE Snapshot(t)
    BY <1>3, <2>6 DEF Snapshot
  <2>7. CASE Refuse(t)
    BY <1>3, <2>7 DEF Refuse
  <2>8. CASE Commit(t)
    <3>1. pc[t] \in ServicePc /\ pc' = [pc EXCEPT ![t] = After[pc[t]]] /\ sentAt' = sentAt
      BY <2>8 DEF Commit, Calling
    <3>2. CASE pc[t] = "dispatch"
      BY <1>6, <2>8, <3>2
    <3>3. CASE pc[t] = "settle"
      BY <1>5, <3>1, <3>3 DEF After, Claimed
    <3>4. CASE pc[t] = "reserve"
      BY <1>4, <3>1, <3>4 DEF After, Claimed
    <3>5. CASE pc[t] = "release"
      BY <1>4, <3>1, <3>5 DEF After, Claimed
    <3> QED BY <3>1, <3>2, <3>3, <3>4, <3>5 DEF ServicePc
  <2>9. CASE LostRace(t)
    BY <1>3, <2>9 DEF LostRace
  <2> QED BY <1>7, <2>1, <2>2, <2>3, <2>4, <2>5, <2>6, <2>7, <2>8, <2>9 DEF Step
<1>8. ASSUME NEW t \in Task, Fault(t)
      PROVE  ClaimsSpent'
  BY <1>3, <1>8 DEF Fault, Stop, Deliver, RetrySettle
<1>9. CASE Operator
  BY <1>3, <1>9 DEF Operator, Bootstrap, PlanResolution, ReadHolds, WriteHolds, AbandonAttempt
<1>10. CASE Environment
  BY <1>3, <1>10 DEF Environment, Tick, ChangePolicy, LegacySend
<1>11. CASE UNCHANGED vars
  BY <1>3, <1>11 DEF vars
<1> QED
  BY <1>7, <1>8, <1>9, <1>10, <1>11 DEF Next

\* Nobody has claimed at the start.
LEMMA InitClaims == Init => ClaimsSpent
BY DEF Init, ClaimsSpent, Claimed

\* An operation identity is sent at most once, whatever retries, lost
\* acknowledgements, crashes and hold resolutions do.
THEOREM SentOnce == Spec => []AtMostOneSend
<1>1. DocumentInv /\ ClaimsSpent /\ [Next]_vars => DocumentInv' /\ ClaimsSpent'
  BY DocumentStep, ClaimsStep
<1>2. ClaimsSpent => AtMostOneSend
  BY DEF ClaimsSpent, Claimed, AtMostOneSend, Sent
<1> QED
  BY <1>1, <1>2, InitDocument, InitClaims, PTL DEF Spec
=============================================================================
