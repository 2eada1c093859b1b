------------------------------ MODULE HardQuota ------------------------------
(***************************************************************************)
(* Hard admission of one owner under the approved request-count scope:     *)
(* app/api/src/ai4ia_api/hard_quota/{service,dispatch,models,store,        *)
(* cosmos_store,operator}.py.                                              *)
(*                                                                         *)
(* One coordination document holds a row per operation.  Every change is   *)
(* a read of the document and an If-Match replace of it, run by tasks on   *)
(* any number of API replicas and by the operator's command line tool.  A  *)
(* task claims an operation (reserve, read the policy again, dispatch),    *)
(* sends it, and settles it.                                               *)
(*                                                                         *)
(* An ETag is modelled by membership in "current": the writers whose       *)
(* snapshot is still the stored document.  A commit empties the set, so a  *)
(* writer outside it holds a stale ETag and its replace is a lost race.    *)
(***************************************************************************)
EXTENDS Integers, FiniteSets

CONSTANTS
  Task,           \* runs of admitted_dispatch, on any replica
  Key,            \* operation identities (root and sequence number)
  Payload,        \* canonical payloads: what the digest tells apart
  KeyOf,          \* the identity a task claims; a retried scope shares one
  PayloadOf,      \* the frozen payload of a task
  ComputePayload, \* the payloads of the compute surface
  Policy,         \* the entitlements an administrator may set
  HighestCap,     \* per window, the largest cap any of them grants
  Minute, Day,    \* the spans of the two windows of the scope
  Lease,          \* RESERVATION_SECONDS
  Replay,         \* REQUEST_COUNT_REPLAY_SECONDS
  HoldMinAge,     \* HOLD_MIN_AGE_SECONDS
  CoverageStart,  \* the rollout record's coverageStart
  MaxAttempts,    \* MAX_CAS_ATTEMPTS
  MaxEntries,     \* MAX_ENTRIES
  RowBytes,       \* bytes of a row in each phase
  FullRowBytes,   \* bytes of the transition envelope of a row
  MaxBytes,       \* MAX_STATE_BYTES
  Lag,            \* how far a response Date may trail the store clock
  MaxClock        \* bound of the model: the last instant explored

NoTime == -1
Uncapped == -1
Time == Nat
Windows == {"requestsPerMinute", "computeExecutionsPerDay"}
Span == [w \in Windows |-> IF w = "requestsPerMinute" THEN Minute ELSE Day]
Phases == {"reserved", "dispatched", "settled", "released"}

ASSUME TasksAssumption ==
  /\ IsFiniteSet(Task) /\ IsFiniteSet(Key)
  /\ KeyOf \in [Task -> Key]
  /\ PayloadOf \in [Task -> Payload]
  /\ ComputePayload \subseteq Payload
  /\ "operator" \notin Task

\* A policy without a cap in a window grants as many dispatches as there are
\* identities.
ASSUME PolicyAssumption ==
  /\ Policy \subseteq [disabled : BOOLEAN, spend : BOOLEAN,
                       cap : [Windows -> Nat \cup {Uncapped}]]
  /\ HighestCap \in [Windows -> Nat]
  /\ \A p \in Policy, w \in Windows :
       IF p.cap[w] = Uncapped THEN HighestCap[w] >= Cardinality(Key)
                              ELSE HighestCap[w] >= p.cap[w]

ASSUME TimesAssumption ==
  /\ Minute \in Nat /\ Day \in Nat /\ Minute <= Day
  /\ Lease \in Nat /\ Replay \in Nat /\ HoldMinAge \in Nat
  /\ CoverageStart \in Nat /\ Lag \in Nat /\ MaxClock \in Nat
  /\ MaxAttempts \in Nat /\ MaxEntries \in Nat

ASSUME BytesAssumption ==
  /\ RowBytes \in [Phases -> Nat]
  /\ FullRowBytes \in Nat /\ MaxBytes \in Nat
  /\ \A p \in Phases : RowBytes[p] <= FullRowBytes

VARIABLES
  clock,      \* the store's clock, in whole seconds
  doc,        \* the coordination document
  issued,     \* issued[k]: the store time embedded in identity k
  policy,     \* the owner's stored entitlement
  current,    \* writers whose snapshot still has the stored ETag
  snap,       \* snap[x]: "now" of writer x's pending snapshot, or NoTime
  pc,         \* the step a task is at
  status,     \* "up", "raised" (its caller lives) or "down" (process gone)
  tries,      \* lost races of the task's present _change
  seen,       \* the policy a task read before reserving
  plan,       \* the operator's approved holds: a set of [key, row]
  sentAt,     \* history: when task t sent, or NoTime
  lastLegacy  \* history: the last send of a non-enforcing writer

vars == <<clock, doc, issued, policy, current, snap, pc, status, tries,
          seen, plan, sentAt, lastLegacy>>

Writer == Task \cup {"operator"}

-----------------------------------------------------------------------------
(* Rows and documents                                                      *)

\* A row of the document.  An absent row is a key the document does not hold.
Row == [phase : Phases \cup {"absent"}, payload : Payload \cup {"none"},
        reservedAt : Time \cup {NoTime}, expiresAt : Time \cup {NoTime},
        dispatchedAt : Time \cup {NoTime}, settledAt : Time \cup {NoTime},
        settlement : {"none", "outcome", "resolution"}, charged : {0, 1}]

Absent == [phase |-> "absent", payload |-> "none", reservedAt |-> NoTime,
           expiresAt |-> NoTime, dispatchedAt |-> NoTime,
           settledAt |-> NoTime, settlement |-> "none", charged |-> 0]

Document == [exists : BOOLEAN, validAfter : Time, replayFloor : Time,
             observedAt : Time, blocked : BOOLEAN, rows : [Key -> Row]]

FreshDocument(now) ==
  [exists |-> TRUE, validAfter |-> now, replayFloor |-> now,
   observedAt |-> now, blocked |-> FALSE, rows |-> [k \in Key |-> Absent]]

NoDocument == [FreshDocument(0) EXCEPT !.exists = FALSE]

Later(a, b) == IF a >= b THEN a ELSE b

Present(d) == {k \in Key : d.rows[k].phase # "absent"}

Protected(r) == r.phase \in {"reserved", "dispatched"}

\* Mutant: a settled execution is kept no longer than a request.
RetentionOfRequest(r) == Minute

Retention(r) ==
  IF r.payload \in ComputePayload /\ r.phase = "settled" THEN Day ELSE Minute

Meters(w, payload) == w = "requestsPerMinute" \/ payload \in ComputePayload

\* The instants a response Date may carry.
StoreNow == Later(0, clock - Lag)..clock

-----------------------------------------------------------------------------
(* The change functions of the reservation service, on a snapshot          *)

\* Mutant: the lease also runs out on dispatched work.
ExpireAnyHold(r, now) ==
  IF Protected(r) /\ r.expiresAt < now
  THEN [r EXCEPT !.phase = "released", !.settledAt = now, !.charged = 0]
  ELSE r

Expire(r, now) ==
  IF r.phase = "reserved" /\ r.expiresAt < now
  THEN [r EXCEPT !.phase = "released", !.settledAt = now, !.charged = 0]
  ELSE r

Prunable(k, r, floor, now) ==
  /\ r.phase \in {"settled", "released"}
  /\ issued[k] < floor
  /\ r.settledAt < now - Retention(r)

\* Mutant: the replay floor follows the clock instead of only rising.
ReconciledToClock(d, now) ==
  LET floor == now - Replay
      Kept(k, r) == IF Prunable(k, r, floor, now) THEN Absent ELSE r
  IN [d EXCEPT !.replayFloor = floor, !.observedAt = now,
               !.rows = [k \in Key |-> Kept(k, Expire(d.rows[k], now))]]

Reconciled(d, now) ==
  LET floor == Later(d.replayFloor, now - Replay)
      Kept(k, r) == IF Prunable(k, r, floor, now) THEN Absent ELSE r
  IN [d EXCEPT !.replayFloor = floor, !.observedAt = now,
               !.rows = [k \in Key |-> Kept(k, Expire(d.rows[k], now))]]

IdentityValid(d, k, now) == d.replayFloor <= issued[k] /\ issued[k] <= now

\* Mutant: authoritative from its creation, before every writer enforced.
FenceAtCreation(d) == d.validAfter

Fence(d) == Later(d.validAfter, CoverageStart)

\* Mutant: off by one at the old edge of the window.
CountedExclusive(d, w, now) ==
  {k \in Present(d) : /\ d.rows[k].charged = 1
                      /\ Meters(w, d.rows[k].payload)
                      /\ \/ Protected(d.rows[k])
                         \/ d.rows[k].settledAt > now - Span[w]}

\* The rows whose charge counts in window w at instant now.
Counted(d, w, now) ==
  {k \in Present(d) : /\ d.rows[k].charged = 1
                      /\ Meters(w, d.rows[k].payload)
                      /\ \/ Protected(d.rows[k])
                         \/ d.rows[k].settledAt >= now - Span[w]}

\* _check_limits for one more dispatch of this payload under identity k.
WithinLimits(d, k, payload, limits, now) ==
  /\ ~limits.spend
  /\ \A w \in Windows :
       \/ limits.cap[w] = Uncapped
       \/ ~Meters(w, payload)
       \/ /\ now - Span[w] >= Fence(d)
          /\ Cardinality(Counted(d, w, now) \ {k}) + 1 <= limits.cap[w]

\* The bytes a document takes, one element each, when the row of k takes size[k].
BytesOf(d, size) == {c \in Present(d) \X (1..FullRowBytes) : c[2] <= size[c[1]]}

SizeToday(d) == [k \in Present(d) |-> RowBytes[d.rows[k].phase]]

\* Outstanding rows are charged at full growth.
SizeGrown(d) == [k \in Present(d) |-> IF Protected(d.rows[k]) THEN FullRowBytes
                                                         ELSE RowBytes[d.rows[k].phase]]

Bytes(d) == Cardinality(BytesOf(d, SizeToday(d)))

\* Mutant: only the bytes of today.
FitsToday(d) == Bytes(d) <= MaxBytes

\* ensure_transition_capacity.
TransitionsFit(d) == Cardinality(BytesOf(d, SizeGrown(d))) <= MaxBytes

WithRow(d, k, r) == [d EXCEPT !.rows[k] = r]

\* Mutant: the lease is taken from the wrong side.
NewRowExpired(payload, now) ==
  [phase |-> "reserved", payload |-> payload, reservedAt |-> now,
   expiresAt |-> now - Lease, dispatchedAt |-> NoTime, settledAt |-> NoTime,
   settlement |-> "none", charged |-> 1]

NewRow(payload, now) ==
  [phase |-> "reserved", payload |-> payload, reservedAt |-> now,
   expiresAt |-> now + Lease, dispatchedAt |-> NoTime, settledAt |-> NoTime,
   settlement |-> "none", charged |-> 1]

Owns(t, d) == d.rows[KeyOf[t]].phase # "absent"
              /\ d.rows[KeyOf[t]].payload = PayloadOf[t]

CanReserve(t, d, now) ==
  LET k == KeyOf[t]
      r == d.rows[k]
  IN /\ IdentityValid(d, k, now)
     /\ ~seen[t].disabled
     /\ ~d.blocked
     /\ \/ /\ r.phase = "absent"
           /\ WithinLimits(d, k, PayloadOf[t], seen[t], now)
           /\ Cardinality(Present(d)) < MaxEntries
           /\ TransitionsFit(WithRow(d, k, NewRow(PayloadOf[t], now)))
        \/ /\ Owns(t, d)
           /\ r.phase = "reserved" => /\ WithinLimits(d, k, r.payload, seen[t], now)
                                      /\ TransitionsFit(d)

Reserved(t, d, now) ==
  IF d.rows[KeyOf[t]].phase = "absent"
  THEN WithRow(d, KeyOf[t], NewRow(PayloadOf[t], now))
  ELSE d

\* Mutant: a row already dispatched may be claimed again.
CanDispatchAgain(t, d) ==
  Owns(t, d) /\ Protected(d.rows[KeyOf[t]]) /\ ~d.blocked /\ TransitionsFit(d)

CanDispatch(t, d) ==
  /\ Owns(t, d)
  /\ d.rows[KeyOf[t]].phase = "reserved"
  /\ ~d.blocked
  /\ TransitionsFit(d)

Dispatched(t, d, now) ==
  WithRow(d, KeyOf[t], [d.rows[KeyOf[t]] EXCEPT !.phase = "dispatched",
                                                !.dispatchedAt = now])

CanRelease(t, d) ==
  Owns(t, d) /\ d.rows[KeyOf[t]].phase \in {"released", "reserved"}

Released(t, d, now) ==
  IF d.rows[KeyOf[t]].phase = "released" THEN d
  ELSE WithRow(d, KeyOf[t], [d.rows[KeyOf[t]] EXCEPT !.phase = "released",
                                                     !.settledAt = now,
                                                     !.charged = 0])

CanSettle(t, d) ==
  /\ Owns(t, d)
  /\ \/ d.rows[KeyOf[t]].settlement = "outcome"
     \/ /\ d.rows[KeyOf[t]].settlement = "none"
        /\ d.rows[KeyOf[t]].phase = "dispatched"

\* Mutant: the charge ages from the claim, not from the settlement.
SettledAtClaim(t, d, now) ==
  IF d.rows[KeyOf[t]].settlement = "outcome" THEN d
  ELSE WithRow(d, KeyOf[t], [d.rows[KeyOf[t]] EXCEPT !.phase = "settled",
                                                     !.settledAt = d.rows[KeyOf[t]].dispatchedAt,
                                                     !.settlement = "outcome"])

Settled(t, d, now) ==
  IF d.rows[KeyOf[t]].settlement = "outcome" THEN d
  ELSE WithRow(d, KeyOf[t], [d.rows[KeyOf[t]] EXCEPT !.phase = "settled",
                                                     !.settledAt = now,
                                                     !.settlement = "outcome"])

-----------------------------------------------------------------------------
(* One _change: read, compute on the snapshot, replace if the ETag holds   *)

ServicePc == {"reserve", "dispatch", "release", "settle"}
Pcs == ServicePc \cup {"start", "recheck", "authorize", "done", "withdrawn"}

Accepts(t, d, now) ==
  \/ pc[t] = "reserve" /\ CanReserve(t, d, now)
  \/ pc[t] = "dispatch" /\ CanDispatch(t, d)
  \/ pc[t] = "release" /\ CanRelease(t, d)
  \/ pc[t] = "settle" /\ CanSettle(t, d)

Changed(t, d, now) ==
  CASE pc[t] = "reserve" -> Reserved(t, d, now)
    [] pc[t] = "dispatch" -> Dispatched(t, d, now)
    [] pc[t] = "release" -> Released(t, d, now)
    [] pc[t] = "settle" -> Settled(t, d, now)

After == [p \in ServicePc |-> CASE p = "reserve" -> "recheck"
                                [] p = "dispatch" -> "authorize"
                                [] p = "release" -> "withdrawn"
                                [] p = "settle" -> "done"]

\* The document may be read at "now" and the change raises nothing on it.
Readable(t, now) ==
  /\ doc.exists
  /\ now >= doc.observedAt
  /\ Accepts(t, Reconciled(doc, now), now)

\* Mutant: a refused call is swallowed and asked again for ever.
RaiseNothing(t) == UNCHANGED status

\* A settlement that raises leaves its caller alive; any other call that
\* raises ends the claim, and the task takes no further step.
Raise(t) ==
  status' = [status EXCEPT ![t] = IF pc[t] = "settle" THEN "raised" ELSE "down"]

Calling(t) == status[t] = "up" /\ pc[t] \in ServicePc

\* store.read, and the change computed on the snapshot: it stands.
Snapshot(t) ==
  /\ Calling(t)
  /\ snap[t] = NoTime
  /\ \E now \in StoreNow : /\ Readable(t, now)
                           /\ snap' = [snap EXCEPT ![t] = now]
  /\ current' = current \cup {t}
  /\ UNCHANGED <<clock, doc, issued, policy, pc, status, tries, seen, plan,
                 sentAt, lastLegacy>>

\* store.read or the change computed on the snapshot raises: nothing written.
Refuse(t) ==
  /\ Calling(t)
  /\ snap[t] = NoTime
  /\ \E now \in StoreNow : ~Readable(t, now)
  /\ Raise(t)
  /\ UNCHANGED <<clock, doc, issued, policy, current, snap, pc, tries, seen,
                 plan, sentAt, lastLegacy>>

\* The replace of a pending snapshot that is still the stored document.  The
\* state_document that runs before it has no guard here: DocumentStaysReadable
\* and DocumentFits say that it never refuses.
Write(t) ==
  /\ snap[t] # NoTime
  /\ t \in current
  /\ Accepts(t, Reconciled(doc, snap[t]), snap[t])
  /\ doc' = Changed(t, Reconciled(doc, snap[t]), snap[t])
  /\ current' = {}
  /\ snap' = [snap EXCEPT ![t] = NoTime]

Commit(t) ==
  /\ Calling(t)
  /\ Write(t)
  /\ pc' = [pc EXCEPT ![t] = After[pc[t]]]
  /\ tries' = [tries EXCEPT ![t] = 0]
  /\ UNCHANGED <<clock, issued, policy, status, seen, plan, sentAt, lastLegacy>>

\* 412: read again, at most MaxAttempts times in all.
LostRace(t) ==
  /\ Calling(t)
  /\ snap[t] # NoTime
  /\ t \notin current
  /\ snap' = [snap EXCEPT ![t] = NoTime]
  /\ \/ /\ tries[t] + 1 < MaxAttempts
        /\ tries' = [tries EXCEPT ![t] = @ + 1]
        /\ UNCHANGED status
     \/ /\ tries[t] + 1 >= MaxAttempts
        /\ Raise(t)
        /\ UNCHANGED tries
  /\ UNCHANGED <<clock, doc, issued, policy, current, pc, seen, plan, sentAt,
                 lastLegacy>>

-----------------------------------------------------------------------------
(* admitted_dispatch                                                       *)

\* claim: the first policy read, then the store read that dates the identity; a
\* scope entered again with its root and issued_at keeps the first date.
Begin(t) ==
  /\ status[t] = "up"
  /\ pc[t] = "start"
  /\ clock >= CoverageStart
  /\ ~policy.disabled
  /\ doc.exists
  /\ \E now \in StoreNow :
       issued' = [issued EXCEPT ![KeyOf[t]] = IF @ = NoTime THEN now ELSE @]
  /\ seen' = [seen EXCEPT ![t] = policy]
  /\ pc' = [pc EXCEPT ![t] = "reserve"]
  /\ UNCHANGED <<clock, doc, policy, current, snap, status, tries, plan,
                 sentAt, lastLegacy>>

RefuseBegin(t) ==
  /\ status[t] = "up"
  /\ pc[t] = "start"
  /\ clock >= CoverageStart
  /\ policy.disabled \/ ~doc.exists
  /\ Raise(t)
  /\ UNCHANGED <<clock, doc, issued, policy, current, snap, pc, tries, seen,
                 plan, sentAt, lastLegacy>>

\* claim: the policy is read again after the reservation has committed.
Recheck(t) ==
  /\ status[t] = "up"
  /\ pc[t] = "recheck"
  /\ pc' = [pc EXCEPT ![t] = IF policy.disabled \/ policy # seen[t]
                             THEN "release" ELSE "dispatch"]
  /\ UNCHANGED <<clock, doc, issued, policy, current, snap, status, tries,
                 seen, plan, sentAt, lastLegacy>>

\* The lease is yielded and the body sends; the finally clause will settle.
Send(t) ==
  /\ status[t] = "up"
  /\ pc[t] = "authorize"
  /\ sentAt' = [sentAt EXCEPT ![t] = clock]
  /\ pc' = [pc EXCEPT ![t] = "settle"]
  /\ UNCHANGED <<clock, doc, issued, policy, current, snap, status, tries,
                 seen, plan, lastLegacy>>

\* Mutant: a refused body skips the finally clause.
RefuseSendUnsettled(t) ==
  /\ status[t] = "up"
  /\ pc[t] = "authorize"
  /\ pc' = [pc EXCEPT ![t] = "done"]
  /\ UNCHANGED <<clock, doc, issued, policy, current, snap, status, tries,
                 seen, plan, sentAt, lastLegacy>>

\* The final authorisation raises before the body: settled without a send.
RefuseSend(t) ==
  /\ status[t] = "up"
  /\ pc[t] = "authorize"
  /\ pc' = [pc EXCEPT ![t] = "settle"]
  /\ UNCHANGED <<clock, doc, issued, policy, current, snap, status, tries,
                 seen, plan, sentAt, lastLegacy>>

-----------------------------------------------------------------------------
(* Faults                                                                  *)

\* A store error, a cancelled await or the end of the process.  A replace that
\* was under way keeps its snapshot and may still reach the store.
Stop(t) ==
  /\ status[t] = "up"
  /\ pc[t] \notin {"start", "done", "withdrawn"}
  /\ \/ status' = [status EXCEPT ![t] = "down"]
     \/ pc[t] = "settle" /\ Raise(t)
  /\ UNCHANGED <<clock, doc, issued, policy, current, snap, pc, tries, seen,
                 plan, sentAt, lastLegacy>>

\* The replace of a stopped task lands: its acknowledgement reaches nobody.
Deliver(t) ==
  /\ status[t] # "up"
  /\ Write(t)
  /\ UNCHANGED <<clock, issued, policy, pc, status, tries, seen, plan, sentAt,
                 lastLegacy>>

\* A caller whose settlement raised asks again, or its process ends.
RetrySettle(t) ==
  /\ status[t] = "raised"
  /\ \/ /\ status' = [status EXCEPT ![t] = "up"]
        /\ snap' = [snap EXCEPT ![t] = NoTime]
        /\ tries' = [tries EXCEPT ![t] = 0]
        /\ current' = current \ {t}
     \/ /\ status' = [status EXCEPT ![t] = "down"]
        /\ UNCHANGED <<snap, tries, current>>
  /\ UNCHANGED <<clock, doc, issued, policy, pc, seen, plan, sentAt, lastLegacy>>

-----------------------------------------------------------------------------
(* The operator's tool: bootstrap and hold resolution                      *)

Bootstrap ==
  /\ ~doc.exists
  /\ \E now \in StoreNow : doc' = FreshDocument(now)
  /\ UNCHANGED <<clock, issued, policy, current, snap, pc, status, tries,
                 seen, plan, sentAt, lastLegacy>>

Holds(cutoff) == {k \in Key : /\ doc.rows[k].phase = "dispatched"
                              /\ doc.rows[k].dispatchedAt < cutoff}

\* External: the evidence that every replica alive at the cutoff is gone.
HoldersGone(holds) ==
  \A t \in Task : KeyOf[t] \in holds /\ pc[t] \in {"authorize", "settle"}
                    => status[t] = "down"

PlanResolution ==
  /\ plan = {}
  /\ doc.exists
  /\ ~doc.blocked
  /\ \E now \in StoreNow : \E cutoff \in 0..(now - HoldMinAge) :
       /\ Holds(cutoff) # {}
       /\ HoldersGone(Holds(cutoff))
       /\ plan' = {[key |-> k, row |-> doc.rows[k]] : k \in Holds(cutoff)}
  /\ UNCHANGED <<clock, doc, issued, policy, current, snap, pc, status, tries,
                 seen, sentAt, lastLegacy>>

\* Mutant: a planned hold is looked up and not compared.
StillThere(h) == doc.rows[h.key].phase # "absent"

Unchanged(h) == doc.rows[h.key] = h.row

\* resolve_owner: a fresh read on which every planned hold is as approved.
ReadHolds ==
  /\ plan # {}
  /\ snap["operator"] = NoTime
  /\ \A h \in plan : Unchanged(h)
  /\ \E now \in StoreNow :
       /\ \A h \in plan : h.row.dispatchedAt < now - HoldMinAge
       /\ snap' = [snap EXCEPT !["operator"] = now]
  /\ current' = current \cup {"operator"}
  /\ UNCHANGED <<clock, doc, issued, policy, pc, status, tries, seen, plan,
                 sentAt, lastLegacy>>

ResolvedRow(r, now) ==
  [r EXCEPT !.phase = "settled", !.settledAt = now, !.settlement = "resolution"]

WriteHolds ==
  /\ snap["operator"] # NoTime
  /\ "operator" \in current
  /\ LET now == snap["operator"]
         held == {h.key : h \in plan}
     IN doc' = [doc EXCEPT
                  !.observedAt = Later(@, now),
                  !.rows = [k \in Key |-> IF k \in held THEN ResolvedRow(@[k], now)
                                                        ELSE @[k]]]
  /\ current' = {}
  /\ snap' = [snap EXCEPT !["operator"] = NoTime]
  /\ plan' = {}
  /\ UNCHANGED <<clock, issued, policy, pc, status, tries, seen, sentAt, lastLegacy>>

\* 412 and a fresh attempt, a planned hold that changed, or a failed run.
AbandonAttempt ==
  /\ plan # {}
  /\ snap' = [snap EXCEPT !["operator"] = NoTime]
  /\ current' = current \ {"operator"}
  /\ \/ /\ snap["operator"] # NoTime
        /\ "operator" \notin current
        /\ UNCHANGED plan
     \/ plan' = {}
  /\ UNCHANGED <<clock, doc, issued, policy, pc, status, tries, seen, sentAt,
                 lastLegacy>>

-----------------------------------------------------------------------------
(* The environment                                                         *)

Tick ==
  /\ clock < MaxClock
  /\ clock' = clock + 1
  /\ UNCHANGED <<doc, issued, policy, current, snap, pc, status, tries, seen,
                 plan, sentAt, lastLegacy>>

\* An administrator stores another entitlement.
ChangePolicy ==
  /\ \E p \in Policy \ {policy} : policy' = p
  /\ UNCHANGED <<clock, doc, issued, current, snap, pc, status, tries, seen,
                 plan, sentAt, lastLegacy>>

\* External: a revision without hard mode sends, unrecorded, before the cutover.
LegacySend ==
  /\ clock <= CoverageStart
  /\ lastLegacy' = clock
  /\ UNCHANGED <<clock, doc, issued, policy, current, snap, pc, status, tries,
                 seen, plan, sentAt>>

-----------------------------------------------------------------------------
Init ==
  /\ clock = 0
  /\ doc \in {NoDocument} \cup {[FreshDocument(0) EXCEPT !.blocked = b] : b \in BOOLEAN}
  /\ issued = [k \in Key |-> NoTime]
  /\ policy \in Policy
  /\ current = {}
  /\ snap = [x \in Writer |-> NoTime]
  /\ pc = [t \in Task |-> "start"]
  /\ status = [t \in Task |-> "up"]
  /\ tries = [t \in Task |-> 0]
  /\ seen = [t \in Task |-> policy]
  /\ plan = {}
  /\ sentAt = [t \in Task |-> NoTime]
  /\ lastLegacy = NoTime

Step(t) == \/ Begin(t) \/ RefuseBegin(t) \/ Recheck(t)
           \/ Send(t) \/ RefuseSend(t)
           \/ Snapshot(t) \/ Refuse(t) \/ Commit(t) \/ LostRace(t)

Fault(t) == Stop(t) \/ Deliver(t) \/ RetrySettle(t)

Operator == Bootstrap \/ PlanResolution \/ ReadHolds \/ WriteHolds \/ AbandonAttempt

Environment == Tick \/ ChangePolicy \/ LegacySend

Next == \/ \E t \in Task : Step(t) \/ Fault(t)
        \/ Operator
        \/ Environment

Spec == Init /\ [][Next]_vars

\* Undisturbed: no task stops, and a replica keeps running the tasks it has.
CalmNext == (\E t \in Task : Step(t)) \/ Operator \/ Environment

CalmSpec == /\ Init /\ [][CalmNext]_vars
            /\ \A t \in Task : WF_vars(Step(t))
-----------------------------------------------------------------------------
(* Properties                                                              *)

\* Every variable stays in its type: dispatch.py's task states, models.py's
\* document, and the history the properties speak of.
TypeOK ==
  /\ clock \in Time
  /\ doc \in Document
  /\ issued \in [Key -> Time \cup {NoTime}]
  /\ policy \in Policy
  /\ current \subseteq Writer
  /\ snap \in [Writer -> Time \cup {NoTime}]
  /\ pc \in [Task -> Pcs]
  /\ status \in [Task -> {"up", "raised", "down"}]
  /\ tries \in [Task -> Nat]
  /\ seen \in [Task -> Policy]
  /\ plan \subseteq [key : Key, row : Row]
  /\ sentAt \in [Task -> Time \cup {NoTime}]
  /\ lastLegacy \in Time \cup {NoTime}

\* The rules validate_entries imposes on one row of a stored document.
ValidRow(d, k) ==
  LET r == d.rows[k]
  IN /\ issued[k] # NoTime /\ issued[k] >= d.validAfter
     /\ r.charged = IF r.phase = "released" THEN 0 ELSE 1
     /\ r.reservedAt # NoTime /\ r.reservedAt <= r.expiresAt
     /\ r.reservedAt <= d.observedAt
     /\ r.phase \in {"reserved", "released"} <=> r.dispatchedAt = NoTime
     /\ r.phase \in {"reserved", "dispatched"} <=> r.settledAt = NoTime
     /\ r.phase = "settled" <=> r.settlement # "none"
     /\ r.dispatchedAt # NoTime => /\ r.reservedAt <= r.dispatchedAt
                                   /\ r.dispatchedAt <= r.expiresAt
                                   /\ r.dispatchedAt <= d.observedAt
     /\ r.settledAt # NoTime => /\ r.reservedAt <= r.settledAt
                                /\ r.settledAt <= d.observedAt
                                /\ r.dispatchedAt <= r.settledAt

\* What validate_entries accepts of a whole document.
Valid(d) == /\ d.validAfter <= d.replayFloor
            /\ d.replayFloor <= d.observedAt
            /\ \A k \in Present(d) : ValidRow(d, k)

\* No interleaving of claims, late writes, expiry and hold resolution stores a
\* document that validate_entries would refuse at the next read: such a
\* document would shut its owner out until it is repaired by hand.
DocumentStaysReadable == doc.exists => Valid(doc)

\* The transition envelope reserved at admission suffices: no commit ever
\* stores more than MAX_STATE_BYTES, so no settlement is refused for its size.
DocumentFits == Bytes(doc) <= MaxBytes

Sent == {t \in Task : sentAt[t] # NoTime}

\* A send is at most Lag older, on the clock of the Dates, than its settlement
\* can say: windows are promised up to that error.
RecentlySent(w) ==
  {t \in Sent : Meters(w, PayloadOf[t]) /\ sentAt[t] >= clock - (Span[w] - Lag)}

\* The rolling caps, in terms of what was really sent: whatever the tasks,
\* retries, late writes and resolutions do, no window ends with more sends in
\* it than the largest cap a policy grants.
CapsHold == \A w \in Windows : Cardinality(RecentlySent(w)) <= HighestCap[w]

\* The sharper form when caps change: some send in the window was admitted
\* under a policy whose own cap covers every send in the window.
CapsHoldAsAdmitted ==
  \A w \in Windows :
    RecentlySent(w) # {} =>
      \E t \in RecentlySent(w) :
        \/ seen[t].cap[w] = Uncapped
        \/ Cardinality(RecentlySent(w)) <= seen[t].cap[w]

\* An operation identity is sent at most once, by the winner of its dispatch
\* claim, also when an acknowledgement was lost and the claim is run again.
AtMostOneSend ==
  \A t, u \in Sent : KeyOf[t] = KeyOf[u] => t = u

\* No send admitted under a cap shares its window with a send of a revision
\* that recorded nothing: the fence counts the uncovered window as consumed.
FenceCoversLegacy ==
  \A t \in Sent, w \in Windows :
    /\ lastLegacy # NoTime
    /\ seen[t].cap[w] # Uncapped
    /\ Meters(w, PayloadOf[t])
    => lastLegacy <= sentAt[t] - Span[w]

\* A claimed identity is spent for good: its row is dispatched or settled, or
\* it has been pruned and its identity lies below the replay floor.
SpentIn(d, k) ==
  \/ d.rows[k].phase \in {"dispatched", "settled"}
  \/ /\ d.rows[k].phase = "absent"
     /\ issued[k] # NoTime /\ issued[k] < d.replayFloor

Spent(k) == SpentIn(doc, k)

\* What a step may never do to a spent identity: give its charge back, reopen
\* it, date its settlement again, or overwrite a settlement with another.
KeepsSpent ==
  \A k \in Key :
    Spent(k) =>
      /\ Spent(k)'
      /\ doc.rows[k].phase = "settled" /\ doc.rows[k]'.phase # "absent"
           => doc.rows[k]' = doc.rows[k]
      /\ doc.rows[k]'.phase # "absent" => doc.rows[k]'.charged = 1

\* Every step of every behaviour keeps every spent identity spent.
SpentStaysSpent == [][KeepsSpent]_vars

\* What a step may never do to the fences of a document: forget it, date its
\* coverage again, take its replay floor or its last observation back, unblock it.
KeepsFences ==
  doc.exists =>
    /\ doc'.exists
    /\ doc'.validAfter = doc.validAfter
    /\ doc'.replayFloor >= doc.replayFloor
    /\ doc'.observedAt >= doc.observedAt
    /\ doc.blocked => doc'.blocked

\* The fences of the document only move forward, although every snapshot brings
\* a "now" of its own and the operator writes over the tasks' documents.
FencesAdvance == [][KeepsFences]_vars

\* The promise to the owner (module SendLimit), with the coordination erased.
Limit == INSTANCE SendLimit WITH
           Metered <- [w \in Windows |-> {t \in Task : Meters(w, PayloadOf[t])}],
           Width <- [w \in Windows |-> Span[w] - Lag]

\* Every behaviour of the coordinated system is one of the promised ones.
KeepsPromise == Limit!Spec

\* With no crash and no store outage, every claimed operation is settled: a
\* hold outlives its task only through the causes the documentation lists.
ClaimsSettle ==
  \A k \in Key : doc.rows[k].phase = "dispatched" ~> doc.rows[k].phase # "dispatched"

\* A task never spins in the CAS loop: it ends, or its call raises.
TasksEnd ==
  \A t \in Task : pc[t] # "start" ~> \/ pc[t] \in {"done", "withdrawn"}
                                     \/ status[t] # "up"
=============================================================================
