------------------------- MODULE WorkflowRunProofs -------------------------
(* Theorems about WorkflowRun for every value of its constants.              *)
EXTENDS WorkflowRun, TLAPS

OwnerSame == UNCHANGED <<capped, handle, logical, dispatch, account>>

\* The actions that write the owner document.
OwnerWrite ==
    \/ \E t \in Tabs: Admit(t)
    \/ \E w \in Workers: \/ Reserve(w) \/ Claim(w) \/ Hold(w) \/ Refuse(w) \/ Answer(w) \/ Abandon(w)
                         \/ ConcludeOperation(w) \/ RaiseFloor(w)
    \/ \E a \in Actors: Mark(a) \/ Fence(a) \/ FinishHandle(a)

\* A step of an ending is one of these writers of the owner document, or leaves it.
LEMMA EndingOwner ==
  ASSUME NEW a \in Actors, Ending(a)
  PROVE  OwnerWrite \/ OwnerSame
BY DEF Ending, OwnerSame, OwnerWrite, SetStatus, Snapshot, Record, Delivered, SameRun, ownerVars

\* So is a step of an execution that advances the run.
LEMMA AdvanceOwner ==
  ASSUME NEW w \in Workers, Advance(w)
  PROVE  OwnerWrite \/ OwnerSame
BY EndingOwner
DEF Advance, OwnerSame, OwnerWrite, SameRun, ownerVars, AdvanceOver, AdvanceLate, AdvanceExpired, AdvanceReady, Advancing,
    PolicyDenied, SignInNeeded, ContextRevoked, Acquire, Pause, Begin, SaveClaim, CheckAndSave, Before,
    SaveRefused, Authorize, Send, RunTool, Interrupted, SaveResult, Close, Actors

\* So is every step.
LEMMA OwnerWriters ==
  ASSUME Next PROVE  OwnerWrite \/ OwnerSame
<1>1. ASSUME NEW t \in Tabs, Ask(t) \/ Respond(t) PROVE OwnerWrite \/ OwnerSame
  BY <1>1, EndingOwner
  DEF Ask, Respond, OwnerSame, OwnerWrite, Starting, CreateCheckpoint, Launch, LaunchUnknown, LaunchRejected, Review, Approve, Cancel, Refusal,
      ReadDraft, ClearConversation, Request, SameRun, ownerVars, Actors
<1>2. Outside => OwnerSame
  BY DEF Outside, OwnerSame, Crash, LeaseExpires, DeadlinePasses, DraftExpires, ownerVars
<1> QED BY <1>1, <1>2, AdvanceOwner DEF Next

CheckSame == UNCHANGED <<checkpoint, conversation>>

\* The actions that write the checkpoint.
CheckWrite ==
    \/ \E t \in Tabs: \/ CreateCheckpoint(t) \/ LaunchUnknown(t) \/ LaunchRejected(t)
                      \/ Review(t) \/ Approve(t) \/ ClearConversation(t)
    \/ \E w \in Workers: \/ PolicyDenied(w) \/ SignInNeeded(w) \/ Acquire(w) \/ Pause(w) \/ Begin(w)
                         \/ SaveClaim(w) \/ SaveRefused(w) \/ SaveResult(w) \/ Close(w)
    \/ \E a \in Actors: SetStatus(a)
    \/ LeaseExpires

\* A step of an ending is one of these writers of the checkpoint, or leaves it.
LEMMA EndingCheck ==
  ASSUME NEW a \in Actors, Ending(a)
  PROVE  CheckWrite \/ CheckSame
BY DEF Ending, CheckSame, CheckWrite, Fence, Snapshot, Record, Mark, Delivered, FinishHandle, checkVars

\* So is a step of an execution that advances the run.
LEMMA AdvanceCheck ==
  ASSUME NEW w \in Workers, Advance(w)
  PROVE  CheckWrite \/ CheckSame
BY EndingCheck
DEF Advance, CheckSame, CheckWrite, checkVars, AdvanceOver, AdvanceLate, AdvanceExpired, AdvanceReady, Advancing,
    ContextRevoked, Drop, Reserve, Claim, Before, Hold, Refuse, Authorize, Send, Answer, Abandon, RunTool,
    Interrupted, ConcludeOperation, RaiseFloor, Actors

\* So is every step.
LEMMA CheckWriters ==
  ASSUME Next PROVE  CheckWrite \/ CheckSame
<1>1. ASSUME NEW t \in Tabs, Ask(t) \/ Respond(t) PROVE CheckWrite \/ CheckSame
  BY <1>1, EndingCheck
  DEF Ask, Respond, CheckSame, CheckWrite, Starting, Admit, Launch, Drop, Cancel, Refusal,
      ReadDraft, Request, checkVars, Actors
<1>2. Outside => CheckWrite \/ CheckSame
  BY DEF Outside, CheckSame, CheckWrite, Crash, DeadlinePasses, DraftExpires, checkVars
<1> QED BY <1>1, <1>2, AdvanceCheck DEF Next

-----------------------------------------------------------------------------
(* Types.                                                                    *)

Checkpoints ==
    [status: Status, lease: Workers \cup {None}, live: BOOLEAN, next: 1..(Last + 1),
     opState: {"idle", "reserved", "dispatched", "complete", "unknown"},
     answered: BOOLEAN, draft: {"none", "pending", "approved", "dispatched"},
     challenge: Tabs \cup {None}]

DispatchEffects ==
    [state: EffectStates \ {"reserved"}, delivered: BOOLEAN, money: DispatchMoney]

OwnerOK ==
    /\ capped \in BOOLEAN
    /\ handle \in [admitted: BOOLEAN, active: BOOLEAN, terminal: BOOLEAN, floor: 0..Last]
    /\ logical \in [Ops -> EffectStates]
    /\ dispatch \in [Ops -> DispatchEffects]
    /\ account \in RunMoney

CheckOK == checkpoint \in Checkpoints /\ conversation \in {"kept", "cleared"}

WorldOK ==
    /\ fresh \subseteq Actors
    /\ host \in {"none", "accepted", "done", "revoked"}
    /\ ledger \subseteq Ops
    /\ egress \in [Ops -> Nat]
    /\ granted \subseteq Ops

\* An execution works on an operation, or delivers entries in the middle of it.
Working == {"pause", "begin", "reserve", "recheck", "claim", "run", "before", "hold", "refuse",
            "refused", "authorize", "send", "answer", "abandon", "conclude", "keep", "raise"}

Places == Working \cup
    {"idle", "create", "launch", "checked", "reload", "fence", "status", "flush", "record", "mark",
     "finish", "reviewing", "approving"}

Whys == Terminal \cup {"none", "paused", "advanced"}

InOperation(w) ==
    pc[w] \in Working \/ (pc[w] \in {"flush", "record", "mark"} /\ then[w] = "conclude")

\* What an actor holds in memory, as far as its next step reads it.
LocalOK(a) ==
    /\ pc[a] \in {"fence", "status"} => why[a] \in Terminal
    /\ pc[a] = "reload" => why[a] \in {"paused", "failed", "advanced"}
    /\ pc[a] \in {"flush", "record", "mark"} => then[a] # "none"
    /\ a \in Workers /\ InOperation(a) => at[a] \in Ops

ActorSets ==
    /\ pc \in [Actors -> Places]
    /\ why \in [Actors -> Whys]
    /\ then \in [Actors -> {"none", "idle", "finish", "conclude"}]
    /\ at \in [Workers -> 0..Last]
    /\ todo \in [Actors -> SUBSET Ops]

ActorOK == ActorSets /\ \A a \in Actors: LocalOK(a)

\* The operation an execution is about to take up exists: the checkpoint is past
\* the last one only with its answer, or when the run is over.
NextOK ==
    /\ checkpoint.next = Last + 1 => checkpoint.answered \/ Over
    /\ checkpoint.draft = "pending" => checkpoint.next \in Ops

\* An execution whose copy is the stored one knows how far the run is.
CopiesOK ==
    /\ \A w \in Workers \cap fresh:
          /\ pc[w] = "checked" => ~Over
          /\ pc[w] \in {"pause", "begin"} => checkpoint.next = at[w]
          /\ pc[w] = "raise" \/ (pc[w] = "reload" /\ why[w] = "advanced")
                => checkpoint.next = at[w] + 1
    /\ \A t \in Tabs \cap fresh: pc[t] = "approving" => checkpoint.draft = "pending"

TypeInv == OwnerOK /\ CheckOK /\ WorldOK /\ ActorOK /\ NextOK /\ CopiesOK

\* The invariant holds of a run that has just been admitted.
LEMMA TypeInit == Init => TypeInv
<1> USE RunAssumption, MoneyAssumption DEF Init, Ops, Actors, Terminal
<1>1. Init => OwnerOK
  BY DEF OwnerOK, EffectStates, NoDispatch, DispatchEffects, NoMoney, DispatchMoney, NewAccount, RunMoney, Reasons
<1>2. Init => CheckOK
  BY DEF CheckOK, Checkpoints, Status
<1>3. Init => WorldOK
  BY DEF WorldOK
<1>4. Init => ActorOK
  BY DEF ActorOK, ActorSets, LocalOK, InOperation, Working, Places, Whys
<1>5. Init => NextOK /\ CopiesOK
  BY DEF NextOK, CopiesOK
<1> QED
  BY <1>1, <1>2, <1>3, <1>4, <1>5 DEF TypeInv

\* The types the runs check are part of it.
LEMMA TypeInvTypes == TypeInv => TypeOK
BY DEF TypeInv, TypeOK, OwnerOK, CheckOK, WorldOK, ActorOK, ActorSets, Checkpoints, DispatchEffects

\* Settling keeps the types of the account and of the effect's money.
LEMMA MoneyType ==
  ASSUME NEW acc \in RunMoney, NEW money \in DispatchMoney, NEW actual \in Actuals \cup {Unmetered}
  PROVE  /\ SettledMoney(acc, money, actual) \in DispatchMoney
         /\ SettleMoney(acc, money, actual) \in RunMoney
<1>1. actual # Unmetered => actual \in Nat
  BY MoneyAssumption
<1>2. SettledMoney(acc, money, actual) \in DispatchMoney
  BY <1>1 DEF SettledMoney, Provable, DispatchMoney
<1>3. ReasonAfter(acc, money, actual) \in Reasons
  BY DEF ReasonAfter, Reasons, RunMoney, Blocked
<1>4. /\ acc.settled \in Nat /\ acc.held \in Int /\ acc.unknown \in Nat /\ acc.compacted \in Nat
      /\ acc.compactedReservations \in Nat /\ acc.reservations \in Nat /\ money.charged \in Nat
  BY DEF RunMoney, DispatchMoney
<1>5. Provable(acc, actual) => SettleMoney(acc, money, actual) \in RunMoney
  <2> SUFFICES ASSUME Provable(acc, actual) PROVE SettleMoney(acc, money, actual) \in RunMoney
    OBVIOUS
  <2>1. acc.settled + actual \in Nat /\ acc.held - money.charged \in Int
    BY <1>1, <1>4 DEF Provable
  <2> QED
    BY <1>3, <2>1 DEF SettleMoney, RunMoney
<1>6. acc.unknown + money.charged \in Nat
  BY <1>4
<1>7. ~Provable(acc, actual) => SettleMoney(acc, money, actual) \in RunMoney
  BY <1>3, <1>6 DEF SettleMoney, RunMoney
<1> QED
  BY <1>2, <1>5, <1>7

\* So do reserving and compacting.
LEMMA MoneyTypeReserve ==
  ASSUME NEW acc \in RunMoney
  PROVE  /\ ReserveMoney(acc) \in RunMoney
         /\ \A money \in DispatchMoney: CompactMoney(acc, money) \in RunMoney
<1>1. acc.held + Bound \in Int /\ acc.reservations + 1 \in Nat /\ acc.compactedReservations + 1 \in Nat
  BY MoneyAssumption DEF RunMoney
<1>2. \A money \in DispatchMoney: acc.compacted + money.charged \in Nat
  BY DEF RunMoney, DispatchMoney
<1> QED
  BY <1>1, <1>2 DEF ReserveMoney, CompactMoney, RunMoney

\* An effect starts without money, or with its reservation.
LEMMA EffectType ==
  /\ NoDispatch \in DispatchEffects
  /\ [state |-> "dispatched", delivered |-> FALSE, money |-> IF capped THEN Reservation ELSE NoMoney]
        \in DispatchEffects
BY MoneyAssumption
DEF DispatchEffects, EffectStates, DispatchMoney, NoDispatch, NoMoney, Reservation

\* Every step keeps the types of the owner document.
LEMMA OwnerType ==
  ASSUME TypeInv, Next PROVE OwnerOK'
<1> USE RunAssumption DEF TypeInv, OwnerOK
<1>1. ASSUME NEW t \in Tabs, Admit(t) PROVE OwnerOK'
  BY <1>1 DEF Admit
<1>2. ASSUME NEW w \in Workers, Reserve(w) \/ Claim(w) \/ Refuse(w) \/ ConcludeOperation(w) PROVE OwnerOK'
  BY <1>2 DEF Reserve, Claim, Refuse, ConcludeOperation, EffectStates, SameRun
<1>3. ASSUME NEW w \in Workers, Hold(w) PROVE OwnerOK'
  <2>1. dispatch' \in [Ops -> DispatchEffects]
    BY <1>3, EffectType DEF Hold
  <2>2. account' \in RunMoney
    BY <1>3, MoneyTypeReserve DEF Hold
  <2> QED
    BY <1>3, <2>1, <2>2 DEF Hold, SameRun
<1>4. ASSUME NEW w \in Workers, at[w] \in Ops, NEW actual \in Actuals \cup {Unmetered}, NEW completed \in BOOLEAN,
              Conclude(at[w], actual, completed), UNCHANGED <<capped, handle, logical>>
      PROVE OwnerOK'
  <2>1. dispatch[at[w]] \in DispatchEffects
    BY <1>4
  <2>2. SettledMoney(account, dispatch[at[w]].money, actual) \in DispatchMoney
        /\ SettleMoney(account, dispatch[at[w]].money, actual) \in RunMoney
    BY <2>1, MoneyType DEF DispatchEffects
  <2>3. account' \in RunMoney
    BY <1>4, <2>2 DEF Conclude
  <2>4. dispatch' \in [Ops -> DispatchEffects]
    BY <1>4, <2>1, <2>2 DEF Conclude, EffectStates, DispatchEffects
  <2> QED
    BY <1>4, <2>3, <2>4
<1>5. ASSUME NEW w \in Workers, Answer(w) \/ Abandon(w) PROVE OwnerOK'
  <2>1. at[w] \in Ops
    BY <1>5 DEF Answer, Abandon, ActorOK, ActorSets, LocalOK, InOperation, Working, Actors
  <2> QED
    BY <1>4, <1>5, <2>1 DEF Answer, Abandon, SameRun
<1>6. ASSUME NEW w \in Workers, RaiseFloor(w) PROVE OwnerOK'
  <2>1. handle' \in [admitted: BOOLEAN, active: BOOLEAN, terminal: BOOLEAN, floor: 0..Last]
    BY <1>6 DEF RaiseFloor, ActorOK, ActorSets
  <2>2. logical' \in [Ops -> EffectStates]
    BY <1>6 DEF RaiseFloor, EffectStates
  <2>3. dispatch' \in [Ops -> DispatchEffects]
    BY <1>6, EffectType DEF RaiseFloor
  <2>4. at[w] \in Ops
    BY <1>6 DEF RaiseFloor, ActorOK, ActorSets, LocalOK, InOperation, Working, Actors
  <2>5. dispatch[at[w]].money \in DispatchMoney
    BY <2>4 DEF DispatchEffects
  <2>6. account' \in RunMoney
    BY <1>6, <2>5, MoneyTypeReserve DEF RaiseFloor
  <2> QED
    BY <1>6, <2>1, <2>2, <2>3, <2>6 DEF RaiseFloor, SameRun
<1>7. ASSUME NEW a \in Actors, Mark(a) \/ Fence(a) \/ FinishHandle(a) PROVE OwnerOK'
  <2>1. CASE Mark(a)
    <3> DEFINE op == Entry(a)
    <3>1. dispatch' \in {dispatch, [dispatch EXCEPT ![op].delivered = TRUE]}
      BY <2>1 DEF Mark
    <3> HIDE DEF op
    <3>2. [dispatch EXCEPT ![op].delivered = TRUE] \in [Ops -> DispatchEffects]
      BY DEF DispatchEffects
    <3> QED
      BY <2>1, <3>1, <3>2 DEF Mark, SameRun
  <2>2. CASE Fence(a)
    BY <2>2 DEF Fence, SameRun
  <2>3. CASE FinishHandle(a)
    <3> DEFINE held == \E op \in Ops: Unresolved(op) \/ Undelivered(op)
    <3>1. held \in BOOLEAN
      OBVIOUS
    <3>2. handle' = [handle EXCEPT !.terminal = TRUE, !.active = held]
      BY <2>3 DEF FinishHandle
    <3> HIDE DEF held
    <3> QED
      BY <2>3, <3>1, <3>2 DEF FinishHandle, SameRun
  <2> QED
    BY <1>7, <2>1, <2>2, <2>3
<1>8. OwnerSame => OwnerOK'
  BY DEF OwnerSame
<1> QED BY <1>1, <1>2, <1>3, <1>5, <1>6, <1>7, <1>8, OwnerWriters DEF OwnerWrite

\* A checkpoint with one field replaced is a checkpoint.
LEMMA FieldTypes ==
  ASSUME NEW c \in Checkpoints
  PROVE  /\ \A x \in Status: [c EXCEPT !.status = x] \in Checkpoints
         /\ \A x \in Workers \cup {None}: [c EXCEPT !.lease = x] \in Checkpoints
         /\ \A x \in BOOLEAN: [c EXCEPT !.live = x] \in Checkpoints
         /\ \A x \in 1..(Last + 1): [c EXCEPT !.next = x] \in Checkpoints
         /\ \A x \in {"idle", "reserved", "dispatched", "complete", "unknown"}:
               [c EXCEPT !.opState = x] \in Checkpoints
         /\ \A x \in BOOLEAN: [c EXCEPT !.answered = x] \in Checkpoints
         /\ \A x \in {"none", "pending", "approved", "dispatched"}:
               [c EXCEPT !.draft = x] \in Checkpoints
         /\ \A x \in Tabs \cup {None}: [c EXCEPT !.challenge = x] \in Checkpoints
BY DEF Checkpoints

\* A checkpoint without its lease is a checkpoint.
LEMMA UnleasedType ==
  ASSUME NEW c \in Checkpoints PROVE Unleased(c) \in Checkpoints
BY FieldTypes DEF Unleased

\* So is one on which an execution has recorded its step.
LEMMA SavedType ==
  ASSUME NEW c \in Checkpoints, NEW next \in 1..(Last + 1), NEW live \in BOOLEAN, NEW answered \in BOOLEAN,
         NEW opState \in {"unknown", "complete"}, NEW status \in Status
  PROVE  [c EXCEPT !.next = next, !.draft = "none", !.live = live, !.opState = opState,
                   !.answered = answered, !.status = status] \in Checkpoints
BY DEF Checkpoints

\* Every step keeps the types of the checkpoint.
LEMMA CheckType ==
  ASSUME TypeInv, Next PROVE CheckOK'
<1>0. \A w \in Workers: at[w] + 1 \in 1..(Last + 1)
  BY RunAssumption DEF TypeInv, ActorOK, ActorSets
<1> USE RunAssumption, FieldTypes, UnleasedType DEF TypeInv, CheckOK, Terminal, Status, Commit, LastCommit, Drop, checkVars
<1>1. ASSUME NEW t \in Tabs, CreateCheckpoint(t) \/ LaunchUnknown(t) \/ LaunchRejected(t)
      PROVE CheckOK'
  <2>1. CASE CreateCheckpoint(t)
    <3>1. checkpoint' = checkpoint \/ checkpoint' = [checkpoint EXCEPT !.status = "pending"]
      BY <2>1 DEF CreateCheckpoint
    <3>2. UNCHANGED conversation
      BY <2>1 DEF CreateCheckpoint
    <3>3. [checkpoint EXCEPT !.status = "pending"] \in Checkpoints
      OBVIOUS
    <3> QED
      BY <3>1, <3>2, <3>3
  <2>2. CASE LaunchUnknown(t)
    BY <2>2 DEF LaunchUnknown
  <2>3. CASE LaunchRejected(t)
    BY <2>3 DEF LaunchRejected
  <2> QED
    BY <1>1, <2>1, <2>2, <2>3
<1>2. ASSUME NEW t \in Tabs, Review(t) \/ Approve(t) \/ ClearConversation(t)
      PROVE CheckOK'
  BY ZenonT(40), <1>2 DEF Review, Approve, ClearConversation
<1>3. ASSUME NEW w \in Workers, PolicyDenied(w) \/ SignInNeeded(w) \/ Acquire(w)
      PROVE CheckOK'
  BY <1>3 DEF PolicyDenied, SignInNeeded, Acquire
<1>4. ASSUME NEW w \in Workers, Pause(w) \/ Begin(w) \/ SaveClaim(w) \/ SaveRefused(w)
      PROVE CheckOK'
  BY ZenonT(40), <1>4 DEF Pause, Begin, SaveClaim, SaveRefused, CheckAndSave
<1>5. ASSUME NEW w \in Workers, SaveResult(w) PROVE CheckOK'
  <2> DEFINE answered == EndsStep(at[w])
             live == checkpoint.live \/ checkpoint.lease # None
             opState == IF Unknown(at[w]) THEN "unknown" ELSE "complete"
             status == IF Unknown(at[w]) THEN "outcome_unknown"
                       ELSE IF why[w] = "failed" THEN "failed" ELSE checkpoint.status
  <2>1. CASE ~Current(w)
    BY <1>5, <2>1 DEF SaveResult
  <2>2. CASE Current(w)
    <3>1. checkpoint' = [checkpoint EXCEPT !.next = at[w] + 1, !.draft = "none", !.live = live,
                                           !.opState = opState, !.answered = answered, !.status = status]
          /\ UNCHANGED conversation
      BY <1>5, <2>2 DEF SaveResult
    <3>2. answered \in BOOLEAN
      BY DEF EndsStep
    <3>3. live \in BOOLEAN /\ opState \in {"unknown", "complete"}
      OBVIOUS
    <3>4. status \in Status
      BY DEF Checkpoints
    <3> HIDE DEF answered, live, opState, status
    <3> QED
      BY ZenonT(40), <1>0, <3>1, <3>2, <3>3, <3>4, SavedType
  <2> QED
    BY <2>1, <2>2
<1>6. ASSUME NEW w \in Workers, Close(w) PROVE CheckOK'
  <2>1. CASE ~Loadable \/ Over \/ ~Current(w)
    BY <1>6, <2>1 DEF Close
  <2>2. CASE ~(~Loadable \/ Over \/ ~Current(w))
    <3>1. checkpoint' = ResultOf(w) /\ UNCHANGED conversation
      BY <1>6, <2>2 DEF Close
    <3>2. why[w] \in {"paused", "failed", "advanced"}
      BY <1>6 DEF Close, ActorOK, ActorSets, LocalOK, Actors
    <3>3. ResultOf(w) \in Checkpoints
      <4>1. CASE why[w] = "paused"
        BY <4>1 DEF ResultOf
      <4>2. CASE why[w] = "failed"
        BY <4>2 DEF ResultOf
      <4>3. CASE why[w] = "advanced"
        <5> DEFINE idle == [[Unleased(checkpoint) EXCEPT !.opState = "idle"] EXCEPT !.answered = FALSE]
        <5>1. idle \in Checkpoints
          OBVIOUS
        <5>2. idle.status \in Status
          BY <5>1 DEF Checkpoints
        <5>3. ResultOf(w) = IF at[w] = Last THEN [idle EXCEPT !.status = "completed"]
                                            ELSE [idle EXCEPT !.status = idle.status]
          BY <4>3 DEF ResultOf
        <5> HIDE DEF idle
        <5>4. [idle EXCEPT !.status = "completed"] \in Checkpoints
          BY <5>1
        <5>5. [idle EXCEPT !.status = idle.status] \in Checkpoints
          BY <5>1, <5>2
        <5> QED
          BY <5>3, <5>4, <5>5
      <4> QED
        BY <3>2, <4>1, <4>2, <4>3
    <3> QED
      BY <3>1, <3>3
  <2> QED
    BY <2>1, <2>2
<1>7. ASSUME NEW a \in Actors, SetStatus(a) PROVE CheckOK'
  <2>1. why[a] \in Status
    BY <1>7 DEF SetStatus, ActorOK, LocalOK
  <2>2. checkpoint' = checkpoint \/ checkpoint' = Unleased([checkpoint EXCEPT !.status = why[a]])
    BY <1>7 DEF SetStatus
  <2> QED
    BY <1>7, <2>1, <2>2 DEF SetStatus
<1>8. LeaseExpires \/ CheckSame => CheckOK'
  BY DEF LeaseExpires, CheckSame
<1> QED BY <1>1, <1>2, <1>3, <1>4, <1>5, <1>6, <1>7, <1>8, CheckWriters DEF CheckWrite

\* Every step keeps the types of what lies outside the two documents.
LEMMA WorldType ==
  ASSUME TypeInv, Next PROVE WorldOK'
<1> USE DEF TypeInv, WorldOK, Commit, LastCommit, Drop, checkVars, worldVars, SameRun, Actors
<1>1. ASSUME NEW a \in Actors, Ending(a) PROVE WorldOK'
  <2>1. Record(a) => Entry(a) \in Ops
    BY DEF Record, Entry, ActorOK, ActorSets
  <2> QED
    BY <1>1, <2>1 DEF Ending, Fence, SetStatus, Snapshot, Record, Mark, Delivered, FinishHandle
<1>2. ASSUME NEW t \in Tabs, Ask(t) PROVE WorldOK'
  BY <1>2 DEF Ask, Admit, Cancel, Refusal, ReadDraft, ClearConversation, Request
<1>3. ASSUME NEW t \in Tabs, Starting(t) PROVE WorldOK'
  BY <1>3 DEF Starting, CreateCheckpoint, Launch, LaunchUnknown, LaunchRejected
<1>4. ASSUME NEW t \in Tabs, Review(t) \/ Approve(t) PROVE WorldOK'
  <2>1. Approve(t) /\ Current(t) => checkpoint.next \in Ops
    BY DEF Approve, Current, CopiesOK, NextOK
  <2> QED
    BY <1>4, <2>1 DEF Review, Approve
<1>5. ASSUME Outside PROVE WorldOK'
  BY <1>5 DEF Outside, Crash, LeaseExpires, DeadlinePasses, DraftExpires
<1>6. ASSUME NEW w \in Workers, Send(w) \/ RunTool(w) PROVE WorldOK'
  BY <1>6 DEF Send, RunTool
<1>7. ASSUME NEW w \in Workers, Advance(w) PROVE WorldOK'
  BY <1>1, <1>6, <1>7
  DEF Advance, AdvanceOver, AdvanceLate, AdvanceExpired, AdvanceReady, Advancing, PolicyDenied, SignInNeeded,
      ContextRevoked, Acquire, Pause, Begin, Reserve, SaveClaim, CheckAndSave, Claim, Before, Hold, Refuse,
      SaveRefused, Authorize, Answer, Abandon, Interrupted, ConcludeOperation, SaveResult, RaiseFloor, Close
<1> QED
  BY <1>1, <1>2, <1>3, <1>4, <1>5, <1>7 DEF Next, Respond

-----------------------------------------------------------------------------
(* Every step is one actor's, and changes the memory of no other.            *)

\* All but actor a are where they were.
Alone(a) ==
    \A b \in Actors \ {a}:
        /\ pc'[b] = pc[b] /\ why'[b] = why[b] /\ then'[b] = then[b] /\ todo'[b] = todo[b]
        /\ b \in Workers => at'[b] = at[b]

Moved(a) == ActorSets' /\ Alone(a)

SameAt(a) == a \in Workers => at'[a] = at[a]

\* Replacing one value of a function leaves the others.
LEMMA Replaced ==
  ASSUME NEW S, NEW T, NEW f \in [S -> T], NEW a \in S, NEW x \in T
  PROVE  /\ [f EXCEPT ![a] = x] \in [S -> T]
         /\ [f EXCEPT ![a] = x][a] = x
         /\ \A b \in S \ {a}: [f EXCEPT ![a] = x][b] = f[b]
OBVIOUS

\* The memory of actor a is written anew.
New(a, p, y, h, d) ==
    /\ pc' = [pc EXCEPT ![a] = p]
    /\ why' = [why EXCEPT ![a] = y]
    /\ then' = [then EXCEPT ![a] = h]
    /\ todo' = [todo EXCEPT ![a] = d]

NewAt(a) == at' = at \/ (a \in Workers /\ \E i \in 0..Last: at' = [at EXCEPT ![a] = i])

\* What an actor takes up anew is its own.
LEMMA NewMoves ==
  ASSUME ActorSets, NEW a \in Actors, NEW p \in Places, NEW y \in Whys,
         NEW h \in {"none", "idle", "finish", "conclude"}, NEW d \in SUBSET Ops,
         New(a, p, y, h, d), NewAt(a)
  PROVE  Moved(a) /\ pc'[a] = p /\ why'[a] = y /\ then'[a] = h
<1>1. pc' \in [Actors -> Places] /\ pc'[a] = p /\ \A b \in Actors \ {a}: pc'[b] = pc[b]
  BY Replaced DEF ActorSets, New
<1>2. why' \in [Actors -> Whys] /\ why'[a] = y /\ \A b \in Actors \ {a}: why'[b] = why[b]
  BY Replaced DEF ActorSets, New
<1>3. then' \in [Actors -> {"none", "idle", "finish", "conclude"}] /\ then'[a] = h
      /\ \A b \in Actors \ {a}: then'[b] = then[b]
  BY Replaced DEF ActorSets, New
<1>4. todo' \in [Actors -> SUBSET Ops] /\ \A b \in Actors \ {a}: todo'[b] = todo[b]
  BY Replaced DEF ActorSets, New
<1>5. at' \in [Workers -> 0..Last] /\ \A b \in Workers \ {a}: at'[b] = at[b]
  BY RunAssumption DEF ActorSets, NewAt
<1> QED
  BY <1>1, <1>2, <1>3, <1>4, <1>5 DEF Moved, Alone, ActorSets

\* What a step leaves as it is can be written anew too.
LEMMA Kept ==
  ASSUME ActorSets, NEW a \in Actors
  PROVE  /\ pc[a] \in Places /\ why[a] \in Whys /\ then[a] \in {"none", "idle", "finish", "conclude"}
         /\ todo[a] \in SUBSET Ops
         /\ pc = [pc EXCEPT ![a] = pc[a]] /\ why = [why EXCEPT ![a] = why[a]]
         /\ then = [then EXCEPT ![a] = then[a]] /\ todo = [todo EXCEPT ![a] = todo[a]]
BY DEF ActorSets

\* The helpers move one actor and leave the others where they are.
LEMMA Memory ==
  ASSUME ActorSets, NEW a \in Actors
  PROVE  /\ Leave(a) => Moved(a) /\ pc'[a] = "idle"
         /\ \A to \in Places: Go(a, to) => /\ Moved(a) /\ SameAt(a)
                                           /\ pc'[a] = to /\ why'[a] = why[a] /\ then'[a] = then[a]
         /\ \A to \in {"idle", "finish", "conclude"}:
               Flush(a, to) => /\ Moved(a) /\ SameAt(a)
                               /\ pc'[a] = "flush" /\ why'[a] = why[a] /\ then'[a] = to
         /\ \A status \in Terminal:
               StopFor(a, status) => /\ Moved(a) /\ SameAt(a)
                                     /\ pc'[a] = "fence" /\ why'[a] = status /\ then'[a] = then[a]
         /\ Fail(a) => /\ Moved(a) /\ SameAt(a)
                        /\ pc'[a] = "reload" /\ why'[a] = "failed" /\ then'[a] = then[a]
         /\ UNCHANGED actorVars => Moved(a) /\ SameAt(a) /\ pc'[a] = pc[a] /\ why'[a] = why[a] /\ then'[a] = then[a]
<1>0. /\ pc[a] \in Places /\ why[a] \in Whys /\ then[a] \in {"none", "idle", "finish", "conclude"}
      /\ todo[a] \in SUBSET Ops
      /\ pc = [pc EXCEPT ![a] = pc[a]] /\ why = [why EXCEPT ![a] = why[a]]
      /\ then = [then EXCEPT ![a] = then[a]] /\ todo = [todo EXCEPT ![a] = todo[a]]
  BY Kept
<1>1. ASSUME Leave(a) PROVE Moved(a) /\ pc'[a] = "idle"
  <2>1. \E d \in SUBSET Ops: New(a, "idle", "none", "none", d)
    BY <1>1 DEF Leave, New
  <2>2. NewAt(a)
    BY <1>1, RunAssumption DEF Leave, NewAt
  <2> QED
    BY NewMoves, <2>1, <2>2 DEF Places, Working, Whys
<1>2. ASSUME NEW to \in Places, Go(a, to)
      PROVE  Moved(a) /\ SameAt(a) /\ pc'[a] = to /\ why'[a] = why[a] /\ then'[a] = then[a]
  <2>1. New(a, to, why[a], then[a], todo[a]) /\ at' = at /\ NewAt(a)
    BY <1>0, <1>2 DEF Go, Step, New, NewAt
  <2> QED
    BY NewMoves, <1>0, <2>1 DEF SameAt
<1>3. ASSUME NEW to \in {"idle", "finish", "conclude"}, Flush(a, to)
      PROVE  Moved(a) /\ SameAt(a) /\ pc'[a] = "flush" /\ why'[a] = why[a] /\ then'[a] = to
  <2>1. New(a, "flush", why[a], to, todo[a]) /\ at' = at /\ NewAt(a)
    BY <1>0, <1>3 DEF Flush, Step, New, NewAt
  <2>2. "flush" \in Places
    BY DEF Places, Working, Whys, Terminal
  <2> QED
    BY NewMoves, <1>0, <2>1, <2>2 DEF SameAt
<1>4. ASSUME NEW status \in Terminal, StopFor(a, status)
      PROVE  Moved(a) /\ SameAt(a) /\ pc'[a] = "fence" /\ why'[a] = status /\ then'[a] = then[a]
  <2>1. New(a, "fence", status, then[a], todo[a]) /\ at' = at /\ NewAt(a)
    BY <1>0, <1>4 DEF StopFor, Step, New, NewAt
  <2>2. "fence" \in Places /\ status \in Whys
    BY DEF Places, Working, Whys, Terminal
  <2> QED
    BY NewMoves, <1>0, <2>1, <2>2 DEF SameAt
<1>5. ASSUME Fail(a)
      PROVE  Moved(a) /\ SameAt(a) /\ pc'[a] = "reload" /\ why'[a] = "failed" /\ then'[a] = then[a]
  <2>1. New(a, "reload", "failed", then[a], todo[a]) /\ at' = at /\ NewAt(a)
    BY <1>0, <1>5 DEF Fail, Reload, Step, New, NewAt
  <2>2. "reload" \in Places /\ "failed" \in Whys
    BY DEF Places, Working, Whys, Terminal
  <2> QED
    BY NewMoves, <1>0, <2>1, <2>2 DEF SameAt
<1>6. ASSUME UNCHANGED actorVars
      PROVE  Moved(a) /\ SameAt(a) /\ pc'[a] = pc[a] /\ why'[a] = why[a] /\ then'[a] = then[a]
  <2>1. New(a, pc[a], why[a], then[a], todo[a]) /\ at' = at /\ NewAt(a)
    BY <1>0, <1>6 DEF actorVars, New, NewAt
  <2> QED
    BY NewMoves, <1>0, <2>1 DEF SameAt
<1> QED
  BY <1>1, <1>2, <1>3, <1>4, <1>5, <1>6

-----------------------------------------------------------------------------
(* Where the actions that are not a plain move leave their actor.            *)

\* An outbox that is delivered ends, or goes on to what it was flushed for.
LEMMA DeliveredMoves ==
  ASSUME TypeInv, NEW a \in Actors, Delivered(a)
  PROVE  /\ Moved(a)
         /\ \/ pc'[a] = "idle"
            \/ SameAt(a) /\ then[a] \in {"finish", "conclude"} /\ pc'[a] = then[a]
<1> USE DEF TypeInv, ActorOK, SameAt
<1>1. then[a] \in {"idle", "finish", "conclude"}
  BY DEF Delivered, LocalOK, ActorSets
<1>2. CASE then[a] = "idle"
  BY <1>2, Memory DEF Delivered
<1>3. CASE then[a] \in {"finish", "conclude"}
  <2>1. New(a, then[a], why[a], "none", todo[a]) /\ at' = at /\ NewAt(a)
    BY <1>3, Kept DEF Delivered, Step, New, NewAt
  <2>2. then[a] \in Places
    BY <1>3 DEF Places, Working
  <2>3. Moved(a) /\ pc'[a] = then[a]
    BY <2>1, <2>2, NewMoves, Kept
  <2> QED
    BY <1>3, <2>1, <2>3
<1> QED
  BY <1>1, <1>2, <1>3

\* An execution with the lease goes on at the next operation of its copy.
LEMMA AcquireMoves ==
  ASSUME TypeInv, NEW w \in Workers, Acquire(w)
  PROVE  /\ Moved(w)
         /\ \/ pc'[w] = "idle"
            \/ /\ Current(w)
               /\ pc'[w] = "reload" /\ why'[w] = "advanced" /\ at'[w] = checkpoint.next - 1
            \/ /\ Current(w)
               /\ pc'[w] \in {"pause", "begin"} /\ at'[w] = checkpoint.next /\ at'[w] \in Ops
<1> USE DEF TypeInv, ActorOK, Actors
<1>1. CASE ~Current(w)
  BY <1>1, Memory DEF Acquire
<1>2. CASE Current(w)
  <2>1. checkpoint.next \in 1..(Last + 1) /\ (~checkpoint.answered => checkpoint.next \in Ops)
    <3>1. checkpoint.next \in 1..(Last + 1)
      BY DEF CheckOK, Checkpoints
    <3>2. ~Over
      BY <1>2 DEF Acquire, Current, CopiesOK
    <3>3. checkpoint.next = Last + 1 => checkpoint.answered
      BY <3>2 DEF NextOK
    <3> QED
      BY <3>1, <3>3, RunAssumption DEF Ops
  <2>2. CASE checkpoint.answered
    <3>1. New(w, "reload", "advanced", then[w], todo[w])
      BY <1>2, <2>2, Kept DEF Acquire, Reload, Step, New
    <3>2. checkpoint.next - 1 \in 0..Last
      BY <2>1, RunAssumption
    <3>3. at' = [at EXCEPT ![w] = checkpoint.next - 1]
      BY <1>2, <2>2 DEF Acquire
    <3>4. NewAt(w) /\ at'[w] = checkpoint.next - 1
      BY <3>2, <3>3 DEF NewAt, ActorSets
    <3>5. "reload" \in Places /\ "advanced" \in Whys
      BY DEF Places, Whys
    <3>6. Moved(w) /\ pc'[w] = "reload" /\ why'[w] = "advanced"
      BY <3>1, <3>4, <3>5, NewMoves, Kept
    <3> QED
      BY <1>2, <3>4, <3>6
  <2>3. CASE ~checkpoint.answered
    <3> DEFINE to == TakeUp(checkpoint.next)
    <3>1. New(w, to, why[w], then[w], todo[w]) /\ to \in {"pause", "begin"}
      BY <1>2, <2>3, Kept DEF Acquire, Step, New, TakeUp
    <3>2. at' = [at EXCEPT ![w] = checkpoint.next]
      BY <1>2, <2>3 DEF Acquire
    <3>3. checkpoint.next \in Ops /\ checkpoint.next \in 0..Last
      BY <2>1, <2>3, RunAssumption DEF Ops
    <3>4. NewAt(w) /\ at'[w] = checkpoint.next
      BY <3>2, <3>3 DEF NewAt, ActorSets
    <3> HIDE DEF to
    <3>5. to \in Places
      BY <3>1 DEF Places, Working
    <3>6. Moved(w) /\ pc'[w] = to
      BY <3>1, <3>4, <3>5, NewMoves, Kept
    <3> QED
      BY <1>2, <3>1, <3>3, <3>4, <3>6
  <2> QED
    BY <2>2, <2>3
<1> QED
  BY <1>1, <1>2

\* A pause reads the checkpoint again.
LEMMA PauseMoves ==
  ASSUME TypeInv, NEW w \in Workers, Pause(w)
  PROVE  Moved(w) /\ pc'[w] = "reload" /\ why'[w] \in {"paused", "failed"}
<1> USE DEF TypeInv, ActorOK, Actors
<1>1. CASE Reload(w, "paused") /\ UNCHANGED <<at, todo, then>>
  <2>1. New(w, "reload", "paused", then[w], todo[w]) /\ NewAt(w)
    BY <1>1, Kept DEF Reload, Step, New, NewAt
  <2>2. "reload" \in Places /\ "paused" \in Whys
    BY DEF Places, Whys
  <2> QED
    BY <2>1, <2>2, NewMoves, Kept
<1>2. CASE Fail(w)
  BY <1>2, Memory
<1> QED
  BY <1>1, <1>2 DEF Pause

\* A tool that has run is flushed before its step is concluded.
LEMMA RunToolMoves ==
  ASSUME TypeInv, NEW w \in Workers, RunTool(w)
  PROVE  Moved(w) /\ SameAt(w) /\ pc'[w] = "flush" /\ then'[w] = "conclude"
<1> USE DEF TypeInv, ActorOK, Actors
<1>1. PICK result \in {"none", "failed"}: why' = [why EXCEPT ![w] = result]
  BY DEF RunTool
<1>2. New(w, "flush", result, "conclude", todo[w]) /\ at' = at /\ NewAt(w)
  BY <1>1, Kept DEF RunTool, Step, New, NewAt
<1>3. result \in Whys /\ "flush" \in Places
  BY DEF Whys, Terminal, Places
<1> QED
  BY <1>2, <1>3, NewMoves, Kept DEF SameAt

\* The floor rises to the operation that comes next, or the step fails.
LEMMA RaiseFloorMoves ==
  ASSUME TypeInv, NEW w \in Workers, RaiseFloor(w)
  PROVE  /\ Moved(w)
         /\ \/ pc'[w] = "reload" /\ why'[w] \in {"failed", "advanced"} /\ SameAt(w)
            \/ pc'[w] \in {"pause", "begin"} /\ at'[w] = at[w] + 1 /\ at'[w] \in Ops
<1> USE DEF TypeInv, ActorOK, Actors
<1>1. CASE Fail(w)
  BY <1>1, Memory
<1>2. CASE Reload(w, "advanced") /\ UNCHANGED <<at, todo, then>>
  <2>1. New(w, "reload", "advanced", then[w], todo[w]) /\ at' = at /\ NewAt(w)
    BY <1>2, Kept DEF Reload, Step, New, NewAt
  <2>2. "reload" \in Places /\ "advanced" \in Whys
    BY DEF Places, Whys
  <2> QED
    BY <2>1, <2>2, NewMoves, Kept DEF SameAt
<1>3. CASE /\ ~EndsStep(at[w])
           /\ at' = [at EXCEPT ![w] = at[w] + 1]
           /\ Step(w, IF IsGated(at[w] + 1) THEN "pause" ELSE "begin")
           /\ UNCHANGED <<why, todo, then>>
  <2>1. at[w] \in Ops /\ at[w] # Last
    BY <1>3 DEF RaiseFloor, EndsStep, LocalOK, InOperation, Working
  <2>2. at[w] + 1 \in Ops /\ at[w] + 1 \in 0..Last
    BY <2>1, RunAssumption DEF Ops
  <2> DEFINE to == IF IsGated(at[w] + 1) THEN "pause" ELSE "begin"
  <2>3. New(w, to, why[w], then[w], todo[w]) /\ to \in {"pause", "begin"}
    BY <1>3, Kept DEF Step, New
  <2>4. NewAt(w) /\ at'[w] = at[w] + 1
    BY <1>3, <2>2 DEF NewAt, ActorSets
  <2> HIDE DEF to
  <2>5. to \in Places
    BY <2>3 DEF Places, Working
  <2>6. Moved(w) /\ pc'[w] = to
    BY <2>3, <2>4, <2>5, NewMoves, Kept
  <2> QED
    BY <2>2, <2>3, <2>4, <2>6
<1> QED
  BY <1>1, <1>2, <1>3 DEF RaiseFloor

\* A snapshot of the outbox is recorded next.
LEMMA SnapshotMoves ==
  ASSUME TypeInv, NEW a \in Actors, Snapshot(a)
  PROVE  Moved(a) /\ SameAt(a) /\ pc'[a] = "record" /\ then'[a] = then[a]
<1> USE DEF TypeInv, ActorOK
<1>1. New(a, "record", why[a], then[a], Outbox) /\ NewAt(a) /\ at' = at
  BY Kept DEF Snapshot, Step, New, NewAt
<1>2. Outbox \in SUBSET Ops
  BY DEF Outbox
<1>3. "record" \in Places
  BY DEF Places
<1> QED
  BY <1>1, <1>2, <1>3, NewMoves, Kept DEF SameAt

\* A delivered row leads to the next one, or to the end of the flush.
LEMMA MarkMoves ==
  ASSUME TypeInv, NEW a \in Actors, Mark(a)
  PROVE  /\ Moved(a)
         /\ \/ pc'[a] = "record" /\ then'[a] = then[a] /\ SameAt(a)
            \/ pc'[a] = "reload" /\ why'[a] = "failed"
            \/ pc'[a] = "idle"
<1> USE DEF TypeInv, ActorOK
<1> DEFINE op == Entry(a)
<1>1. CASE dispatch[op].state # "none"
  <2>1. New(a, "record", why[a], then[a], todo[a] \ {op}) /\ NewAt(a) /\ at' = at
    BY <1>1, Kept DEF Mark, Step, New, NewAt
  <2>2. todo[a] \ {op} \in SUBSET Ops
    BY Kept
  <2>3. "record" \in Places
    BY DEF Places
  <2> QED
    BY <2>1, <2>2, <2>3, NewMoves, Kept DEF SameAt
<1>2. CASE dispatch[op].state = "none" /\ then[a] = "conclude"
  <2>1. \E d \in SUBSET Ops: New(a, "reload", "failed", "none", d) /\ NewAt(a)
    BY <1>2 DEF Mark, Reload, Step, New, NewAt
  <2>2. "reload" \in Places /\ "failed" \in Whys
    BY DEF Places, Whys, Terminal
  <2> QED
    BY <2>1, <2>2, NewMoves
<1>3. CASE dispatch[op].state = "none" /\ then[a] # "conclude"
  BY <1>3, Memory DEF Mark
<1> QED
  BY <1>1, <1>2, <1>3

\* A step of one actor keeps the types of them all.
LEMMA OneMoves ==
  ASSUME ActorOK, NEW a \in Actors, Moved(a), LocalOK(a)' PROVE ActorOK'
<1>1. ASSUME NEW b \in Actors, b # a PROVE LocalOK(b)'
  BY <1>1 DEF Moved, Alone, ActorOK, LocalOK, InOperation
<1> QED
  BY <1>1 DEF ActorOK, Moved

\* Every step keeps the types of the actors.
LEMMA ActorType ==
  ASSUME TypeInv, Next PROVE ActorOK'
<1> USE DEF TypeInv, ActorOK, LocalOK, InOperation, Working, Actors, Terminal, SameAt, Places
<1>0. ActorSets
  OBVIOUS
<1>1. ASSUME NEW a \in Actors, Fence(a) \/ SetStatus(a) \/ FinishHandle(a) \/ Record(a) PROVE ActorOK'
  BY <1>0, <1>1, Memory, OneMoves DEF Fence, SetStatus, FinishHandle, Record
<1>3. ASSUME NEW a \in Actors, Delivered(a) PROVE ActorOK'
  BY <1>3, DeliveredMoves, OneMoves DEF Delivered
<1>4. ASSUME NEW t \in Tabs, Ask(t) PROVE ActorOK'
  BY <1>0, <1>4, Memory, OneMoves DEF Ask, Admit, Cancel, Refusal, ReadDraft, ClearConversation, Request
<1>5. ASSUME NEW t \in Tabs, Starting(t) \/ Review(t) \/ Approve(t) PROVE ActorOK'
  BY <1>0, <1>5, Memory, OneMoves DEF Starting, CreateCheckpoint, Launch, LaunchUnknown, LaunchRejected, Review, Approve
<1>6. ASSUME Outside PROVE ActorOK'
  <2>1. UNCHANGED actorVars => ActorOK'
    BY DEF actorVars, ActorSets
  <2>2. ASSUME NEW a \in Actors, Crash(a) PROVE ActorOK'
    BY <1>0, <2>2, Memory, OneMoves DEF Crash
  <2> QED
    BY <1>6, <2>1, <2>2 DEF Outside, LeaseExpires, DeadlinePasses, DraftExpires
<1>7. ASSUME NEW w \in Workers, AdvanceOver(w) \/ AdvanceLate(w) \/ AdvanceExpired(w) \/ AdvanceReady(w)
      PROVE ActorOK'
  BY <1>0, <1>7, Memory, OneMoves DEF AdvanceOver, AdvanceLate, AdvanceExpired, AdvanceReady
<1>8. ASSUME NEW w \in Workers, PolicyDenied(w) \/ SignInNeeded(w) \/ ContextRevoked(w)
      PROVE ActorOK'
  BY <1>0, <1>8, Memory, OneMoves DEF PolicyDenied, SignInNeeded, ContextRevoked
<1>10. ASSUME NEW w \in Workers, Begin(w) \/ Reserve(w) \/ SaveClaim(w) \/ Claim(w)
       PROVE ActorOK'
  BY <1>0, <1>10, Memory, OneMoves DEF Begin, Reserve, SaveClaim, CheckAndSave, Claim
<1>11. ASSUME NEW w \in Workers, Before(w) \/ Hold(w) \/ Refuse(w) \/ SaveRefused(w) \/ Authorize(w) \/ Send(w)
       PROVE ActorOK'
  BY <1>0, <1>11, Memory, OneMoves DEF Before, Hold, Refuse, SaveRefused, Authorize, Send
<1>12. ASSUME NEW w \in Workers, Answer(w) \/ Abandon(w) \/ Interrupted(w)
       PROVE ActorOK'
  BY <1>0, <1>12, Memory, OneMoves DEF Answer, Abandon, Interrupted
<1>13. ASSUME NEW w \in Workers, ConcludeOperation(w) \/ SaveResult(w)
       PROVE ActorOK'
  BY <1>0, <1>13, Memory, OneMoves DEF ConcludeOperation, SaveResult
<1>9. ASSUME NEW w \in Workers, Acquire(w) PROVE ActorOK'
  BY <1>9, AcquireMoves, OneMoves DEF Acquire
<1>14. ASSUME NEW w \in Workers, Pause(w) PROVE ActorOK'
  BY <1>14, PauseMoves, OneMoves DEF Pause
<1>15. ASSUME NEW w \in Workers, RunTool(w) PROVE ActorOK'
  BY <1>15, RunToolMoves, OneMoves DEF RunTool
<1>16. ASSUME NEW w \in Workers, RaiseFloor(w) PROVE ActorOK'
  BY <1>16, RaiseFloorMoves, OneMoves DEF RaiseFloor
<1>17. ASSUME NEW w \in Workers, Close(w) PROVE ActorOK'
  BY <1>0, <1>17, Memory, OneMoves DEF Close, Following
<1>18. ASSUME NEW a \in Actors, Snapshot(a) PROVE ActorOK'
  BY <1>18, SnapshotMoves, OneMoves DEF Snapshot
<1>19. ASSUME NEW a \in Actors, Mark(a) PROVE ActorOK'
  BY <1>19, MarkMoves, OneMoves DEF Mark
<1> QED
  BY <1>1, <1>3, <1>4, <1>5, <1>6, <1>7, <1>8, <1>9, <1>10, <1>11, <1>12, <1>13, <1>14, <1>15, <1>16, <1>17,
     <1>18, <1>19
  DEF Next, Respond, Advance, Ending

-----------------------------------------------------------------------------
(* Copies of the checkpoint.                                                 *)

\* The fields the invariants about copies read.
SameProgress ==
    /\ checkpoint'.next = checkpoint.next
    /\ checkpoint'.status = checkpoint.status
    /\ checkpoint'.draft = checkpoint.draft

CopyOK(a) ==
    a \in fresh =>
        /\ a \in Workers =>
              /\ pc[a] = "checked" => ~Over
              /\ pc[a] \in {"pause", "begin"} => checkpoint.next = at[a]
              /\ pc[a] = "raise" \/ (pc[a] = "reload" /\ why[a] = "advanced")
                    => checkpoint.next = at[a] + 1
        /\ a \in Tabs => (pc[a] = "approving" => checkpoint.draft = "pending")

\* Nobody but actor a got a copy, and nobody kept an old one.
OthersCopies(a) == \A b \in Actors \ {a}: b \in fresh' => b \in fresh /\ SameProgress

\* A step of one actor keeps the types of all copies.
LEMMA OneCopy ==
  ASSUME CopiesOK, NEW a \in Actors, Alone(a), OthersCopies(a), CopyOK(a)' PROVE CopiesOK'
<1>1. ASSUME NEW b \in Actors PROVE CopyOK(b)'
  <2>1. CASE b # a
    BY <1>1, <2>1 DEF Alone, OthersCopies, CopiesOK, CopyOK, SameProgress, Over, Actors
  <2> QED
    BY <2>1
<1> QED
  BY <1>1 DEF CopiesOK, CopyOK, Actors

\* A conditional write, and a step that leaves the stored document as it is.
LEMMA Writes ==
  ASSUME NEW a \in Actors
  PROVE  /\ \A x: Commit(a, x) \/ LastCommit(x) => OthersCopies(a)
         /\ \A x: LastCommit(x) => a \notin fresh'
         /\ Drop(a) => OthersCopies(a) /\ a \notin fresh'
         /\ UNCHANGED checkVars => OthersCopies(a)
         /\ UNCHANGED <<checkpoint, fresh>> => OthersCopies(a)
         /\ UNCHANGED checkpoint /\ fresh' = fresh \cup {a} => OthersCopies(a)
         /\ UNCHANGED checkpoint /\ fresh' \subseteq fresh => OthersCopies(a)
         /\ fresh' = {} => OthersCopies(a)
BY DEF OthersCopies, SameProgress, Commit, LastCommit, Drop, checkVars

\* Every step keeps the types of the copies.
LEMMA CopiesType ==
  ASSUME TypeInv, Next PROVE CopiesOK'
<1> USE DEF TypeInv, ActorOK, LocalOK, Actors, Terminal, SameAt
<1>0. ActorSets
  OBVIOUS
<1>1. ASSUME NEW a \in Actors, Fence(a) \/ SetStatus(a) \/ FinishHandle(a) \/ Record(a) PROVE CopiesOK'
  BY <1>0, <1>1, Memory, OneCopy, Writes DEF Moved, CopyOK, Fence, SetStatus, FinishHandle, Record, Places
<1>2. ASSUME NEW a \in Actors, Snapshot(a) \/ Mark(a) \/ Delivered(a) PROVE CopiesOK'
  BY <1>0, <1>2, SnapshotMoves, MarkMoves, DeliveredMoves, OneCopy, Writes DEF Moved, CopyOK, Snapshot, Mark, Delivered
<1>3. ASSUME NEW t \in Tabs, Ask(t) PROVE CopiesOK'
  BY <1>0, <1>3, Memory, OneCopy, Writes, RunAssumption
  DEF Moved, CopyOK, Ask, Admit, Cancel, Refusal, ReadDraft, ClearConversation, Request, AwaitsDecision, Places
<1>4. ASSUME NEW t \in Tabs, Starting(t) \/ Review(t) \/ Approve(t) PROVE CopiesOK'
  BY <1>0, <1>4, Memory, OneCopy, Writes, RunAssumption
  DEF Moved, CopyOK, Starting, CreateCheckpoint, Launch, LaunchUnknown, LaunchRejected, Review, Approve, Places
<1>5. ASSUME Outside PROVE CopiesOK'
  <2>1. ASSUME NEW a \in Actors, Crash(a) PROVE CopiesOK'
    BY <1>0, <2>1, Memory, OneCopy, Writes DEF Moved, CopyOK, Crash
  <2>2. CASE LeaseExpires
    BY <2>2 DEF LeaseExpires, CopiesOK, CheckOK, Checkpoints, Over, actorVars
  <2>3. CASE DeadlinePasses \/ DraftExpires
    BY <2>3 DEF DeadlinePasses, DraftExpires, CopiesOK, Over, actorVars, checkVars
  <2> QED
    BY <1>5, <2>1, <2>2, <2>3 DEF Outside
<1>6. ASSUME NEW w \in Workers, AdvanceOver(w) \/ AdvanceLate(w) \/ AdvanceExpired(w) \/ AdvanceReady(w)
      PROVE CopiesOK'
  BY <1>0, <1>6, Memory, OneCopy, Writes, RunAssumption
  DEF Moved, CopyOK, AdvanceOver, AdvanceLate, AdvanceExpired, AdvanceReady, Advancing, Over, Places, Working
<1>7. ASSUME NEW w \in Workers, PolicyDenied(w) \/ SignInNeeded(w) \/ ContextRevoked(w)
      PROVE CopiesOK'
  BY <1>0, <1>7, Memory, OneCopy, Writes, RunAssumption DEF Moved, CopyOK, PolicyDenied, SignInNeeded, ContextRevoked
<1>8. ASSUME NEW w \in Workers, Begin(w) \/ SaveClaim(w) \/ SaveRefused(w)
      PROVE CopiesOK'
  BY <1>0, <1>8, Memory, OneCopy, Writes, RunAssumption
  DEF Moved, CopyOK, Begin, SaveClaim, SaveRefused, CheckAndSave, Places, Working
<1>9. ASSUME NEW w \in Workers, Reserve(w) \/ Claim(w) \/ Before(w) \/ Hold(w) \/ Refuse(w) \/ Authorize(w) \/ Send(w)
      PROVE CopiesOK'
  BY <1>0, <1>9, Memory, OneCopy, Writes, RunAssumption
  DEF Moved, CopyOK, Reserve, Claim, Before, Hold, Refuse, Authorize, Send, Places, Working
<1>10. ASSUME NEW w \in Workers, Answer(w) \/ Abandon(w) \/ Interrupted(w) \/ ConcludeOperation(w)
      PROVE CopiesOK'
  <2>1. OthersCopies(w)
    BY <1>10, Writes DEF Answer, Abandon, Interrupted, ConcludeOperation
  <2>2. Moved(w) /\ \/ pc'[w] = "reload" /\ why'[w] = "failed"
                    \/ pc'[w] \in {"flush", "fence", "keep"}
    BY <1>0, <1>10, Memory DEF Answer, Abandon, Interrupted, ConcludeOperation, Places, Working
  <2> QED
    BY <2>1, <2>2, OneCopy, RunAssumption DEF Moved, CopyOK
<1>11. ASSUME NEW w \in Workers, RunTool(w) PROVE CopiesOK'
  BY <1>11, RunToolMoves, OneCopy, Writes, RunAssumption DEF Moved, CopyOK, RunTool
<1>12. ASSUME NEW w \in Workers, Pause(w) PROVE CopiesOK'
  BY <1>12, PauseMoves, OneCopy, Writes, RunAssumption DEF Moved, CopyOK, Pause
<1>13. ASSUME NEW w \in Workers, Acquire(w) PROVE CopiesOK'
  <2>1. OthersCopies(w)
    BY <1>13, Writes DEF Acquire
  <2>2. Current(w) => checkpoint'.next = checkpoint.next
    BY <1>13 DEF Acquire, Commit, CheckOK, Checkpoints
  <2>3. checkpoint.next \in Int
    BY DEF CheckOK, Checkpoints
  <2> QED
    BY <1>13, <2>1, <2>2, <2>3, AcquireMoves, OneCopy, RunAssumption DEF Moved, CopyOK
<1>14. ASSUME NEW w \in Workers, SaveResult(w) PROVE CopiesOK'
  <2>1. OthersCopies(w)
    BY <1>14, Writes DEF SaveResult
  <2>2. Current(w) => checkpoint'.next = at[w] + 1
    BY <1>14 DEF SaveResult, Commit, CheckOK, Checkpoints
  <2>3. ~Current(w) => Fail(w)
    BY <1>14 DEF SaveResult
  <2>4. Fail(w) \/ Go(w, "raise")
    BY <1>14 DEF SaveResult
  <2> QED
    BY <1>0, <2>1, <2>2, <2>3, <2>4, Memory, OneCopy, RunAssumption DEF Moved, CopyOK, Places, Working
<1>15. ASSUME NEW w \in Workers, RaiseFloor(w) PROVE CopiesOK'
  <2>1. w \in fresh' => checkpoint'.next = at[w] + 1
    BY <1>15 DEF RaiseFloor, CopiesOK, checkVars
  <2>2. OthersCopies(w)
    BY <1>15, Writes DEF RaiseFloor
  <2> QED
    BY <1>15, <2>1, <2>2, RaiseFloorMoves, OneCopy, RunAssumption DEF Moved, CopyOK
<1>16. ASSUME NEW w \in Workers, Close(w) PROVE CopiesOK'
  <2>1. OthersCopies(w)
    BY <1>16, Writes DEF Close
  <2>2. Moved(w) /\ pc'[w] \in {"flush", "idle"}
    BY <1>0, <1>16, Memory DEF Close, Following
  <2> QED
    BY <2>1, <2>2, OneCopy, RunAssumption DEF Moved, CopyOK
<1> QED
  BY <1>1, <1>2, <1>3, <1>4, <1>5, <1>6, <1>7, <1>8, <1>9, <1>10, <1>11, <1>12, <1>13, <1>14, <1>15, <1>16
  DEF Next, Respond, Advance, Ending

\* A write that does not move the run on, and does not make it go on again.
Stays ==
    /\ checkpoint'.next = checkpoint.next
    /\ checkpoint'.answered = checkpoint.answered
    /\ checkpoint'.draft \in {checkpoint.draft, "none", "approved", "dispatched"}
    /\ Over => Over'

\* Every step keeps the operation an execution works at within reach.
LEMMA NextType ==
  ASSUME TypeInv, Next PROVE NextOK'
<1> USE DEF TypeInv, CheckOK, LastCommit, Commit
<1>1. Stays => NextOK'
  BY DEF Stays, NextOK
<1>2. Over' /\ checkpoint'.draft # "pending" => NextOK'
  BY DEF NextOK
<1>3. ASSUME NEW t \in Tabs, \/ CreateCheckpoint(t) \/ LaunchUnknown(t) \/ LaunchRejected(t)
                              \/ Review(t) \/ Approve(t) \/ ClearConversation(t)
      PROVE NextOK'
  <2>1. CASE CreateCheckpoint(t) \/ LaunchUnknown(t)
    BY <1>1, <2>1
    DEF CreateCheckpoint, LaunchUnknown, Checkpoints, Unleased, Stays, Over, Exists, Unstarted, Terminal, checkVars, Drop
  <2>2. CASE LaunchRejected(t)
    BY <1>1, <2>2 DEF LaunchRejected, Checkpoints, Unleased, Stays, Over, Terminal, checkVars, Drop
  <2>3. CASE Review(t) \/ Approve(t)
    BY <1>1, <2>3 DEF Review, Approve, Checkpoints, Stays, Over, checkVars
  <2>4. CASE ClearConversation(t)
    BY <1>2, <2>4 DEF ClearConversation, Checkpoints, Unleased, Over, Terminal
  <2> QED
    BY <1>3, <2>1, <2>2, <2>3, <2>4
<1>4. ASSUME NEW w \in Workers, PolicyDenied(w) PROVE NextOK'
  BY <1>1, <1>4 DEF PolicyDenied, Checkpoints, Unleased, Stays, Over, Terminal, Drop
<1>5. ASSUME NEW w \in Workers, SignInNeeded(w) PROVE NextOK'
  BY <1>1, <1>5 DEF SignInNeeded, Checkpoints, Unleased, Stays, Over, Terminal
<1>6. ASSUME NEW w \in Workers, Acquire(w) PROVE NextOK'
  <2>1. Current(w) => ~Over
    BY <1>6 DEF Acquire, Current, CopiesOK
  <2> QED
    BY <1>1, <1>6, <2>1 DEF Acquire, Checkpoints, Stays, Over, checkVars
<1>7. ASSUME NEW w \in Workers, Pause(w) PROVE NextOK'
  <2>1. Current(w) => checkpoint.next \in Ops
    BY <1>7 DEF Pause, Current, CopiesOK, ActorOK, LocalOK, InOperation, Working, Actors
  <2>2. CASE ~Permitted(w)
    BY <1>1, <1>7, <2>2 DEF Pause, Stays, Over, checkVars
  <2>3. CASE Permitted(w)
    <3>1. checkpoint'.next = checkpoint.next
      BY <1>7, <2>3 DEF Pause, Unleased, Checkpoints
    <3> QED
      BY <2>1, <2>3, <3>1, RunAssumption DEF Permitted, NextOK, Ops
  <2> QED
    BY <2>2, <2>3
<1>8. ASSUME NEW w \in Workers, Begin(w) \/ SaveClaim(w) \/ SaveRefused(w) PROVE NextOK'
  BY <1>1, <1>8 DEF Begin, SaveClaim, SaveRefused, CheckAndSave, Checkpoints, Stays, Over, checkVars
<1>9. ASSUME NEW w \in Workers, SaveResult(w) PROVE NextOK'
  <2>1. CASE ~Current(w)
    BY <1>1, <1>9, <2>1 DEF SaveResult, Stays, Over, checkVars
  <2>2. CASE Current(w)
    <3>1. /\ checkpoint'.next = at[w] + 1
          /\ checkpoint'.draft = "none"
          /\ checkpoint'.answered = EndsStep(at[w])
      BY <1>9, <2>2 DEF SaveResult, Checkpoints
    <3>2. at[w] \in Ops
      BY <1>9 DEF SaveResult, ActorOK, LocalOK, InOperation, Working, Actors
    <3>3. at[w] + 1 = Last + 1 => EndsStep(at[w])
      BY <3>2, RunAssumption DEF EndsStep, Ops
    <3> QED
      BY <3>1, <3>3 DEF NextOK
  <2> QED
    BY <2>1, <2>2
<1>10. ASSUME NEW w \in Workers, Close(w) PROVE NextOK'
  <2>1. CASE ~Loadable \/ Over \/ ~Current(w)
    BY <1>1, <1>10, <2>1 DEF Close, Stays, Over, checkVars
  <2>2. CASE ~(~Loadable \/ Over \/ ~Current(w))
    <3>1. checkpoint' = ResultOf(w)
      BY <1>10, <2>2 DEF Close
    <3>2. why[w] \in {"paused", "failed", "advanced"}
      BY <1>10 DEF Close, ActorOK, LocalOK, Actors
    <3>3. CASE why[w] \in {"paused", "failed"}
      BY <1>1, <2>2, <3>1, <3>3 DEF ResultOf, Unleased, Checkpoints, Stays, Over
    <3>4. CASE why[w] = "advanced"
      <4>1. checkpoint.next = at[w] + 1
        BY <1>10, <2>2, <3>4 DEF Close, Current, CopiesOK
      <4>2. at[w] \in 0..Last
        BY DEF ActorOK, ActorSets
      <4>3. /\ checkpoint'.next = checkpoint.next
            /\ checkpoint'.draft = checkpoint.draft
            /\ at[w] = Last => checkpoint'.status = "completed"
        BY <3>1, <3>4 DEF ResultOf, Unleased, Checkpoints
      <4>4. checkpoint'.next = Last + 1 => checkpoint'.status = "completed"
        BY <4>1, <4>2, <4>3, RunAssumption
      <4> QED
        BY <4>3, <4>4 DEF NextOK, Over, Terminal
    <3> QED
      BY <3>2, <3>3, <3>4
  <2> QED
    BY <2>1, <2>2
<1>11. ASSUME NEW a \in Actors, SetStatus(a) PROVE NextOK'
  BY <1>1, <1>11 DEF SetStatus, ActorOK, LocalOK, Checkpoints, Unleased, Stays, Over, Drop
<1>12. LeaseExpires \/ CheckSame => NextOK'
  BY <1>1 DEF LeaseExpires, CheckSame, Checkpoints, Stays, Over
<1> QED
  BY <1>3, <1>4, <1>5, <1>6, <1>7, <1>8, <1>9, <1>10, <1>11, <1>12, CheckWriters DEF CheckWrite

\* The types, and what the copies tell, survive every step.
LEMMA TypeNext == TypeInv /\ [Next]_vars => TypeInv'
<1>1. TypeInv /\ Next => TypeInv'
  BY OwnerType, CheckType, WorldType, ActorType, NextType, CopiesType DEF TypeInv
<1>2. TypeInv /\ UNCHANGED vars => TypeInv'
  BY DEF vars, ownerVars, checkVars, actorVars, worldVars, TypeInv, OwnerOK, CheckOK, WorldOK, ActorOK, ActorSets,
         LocalOK, InOperation, NextOK, CopiesOK, Over
<1> QED
  BY <1>1, <1>2

\* Every state of a run has its type (models and stores of workflows/).
THEOREM TypeCorrect == Spec => []TypeOK
BY TypeInit, TypeNext, TypeInvTypes, PTL DEF Spec
=============================================================================
