---------------------------- MODULE WorkflowRun ----------------------------
(* One resumable workflow run: its handle and effects in the owner document  *)
(* (changed by conditional writes), its checkpoint in the conversation       *)
(* (replaced only by an actor whose copy is the stored one), the activities  *)
(* that advance it, the browser tabs that decide and cancel, and the durable *)
(* host that delivers an activity again when a worker dies.                  *)
(* Sources: workflows/automation_service.py, run_controller.py,              *)
(* automation_models.py, checkpoint_contract.py, durable_automation.py.      *)
EXTENDS WorkflowMoney

CONSTANTS
    Workers,      \* executions of the advance activity that may overlap
    Tabs,         \* browser tabs of the owner
    Last,         \* logical operations of the run: model calls and tool calls
    Tools,        \* those that are calls of a local tool
    Profiles,     \* whether the run is capped: {FALSE}, {TRUE} or both
    Gated,        \* the tool calls that need an approval
    MaxCrashes,   \* bound: executions that die between two steps
    MaxRequests,  \* bound: requests the tabs make after the start
    None

Ops == 1..Last
Actors == Workers \cup Tabs

ASSUME RunAssumption ==
    /\ Last \in Nat \ {0}
    /\ Tools \subseteq Ops
    /\ Gated \subseteq Tools
    \* a turn ends in an answer of the model
    /\ Last \notin Tools
    /\ Profiles \subseteq BOOLEAN
    /\ MaxCrashes \in Nat
    /\ MaxRequests \in Nat
    /\ None \notin Actors
    /\ Workers \cap Tabs = {}

VARIABLES
    capped,        \* the run has a finite USD limit (and so no tools)
    handle,        \* RunHandle in the owner document
    logical,       \* EffectIntent.state of each operation; "none" once pruned
    dispatch,      \* the dispatch effect of each operation
    account,       \* RunHandle.money
    checkpoint,    \* WorkflowCheckpoint
    fresh,         \* actors whose copy of the checkpoint is the stored one
    conversation,  \* "kept" or "cleared"
    host,          \* the orchestration instance
    pc,            \* the step an actor takes next
    at,            \* the operation an execution works on
    why,           \* the status an actor is going to write
    todo,          \* the outbox entries an actor has still to deliver
    then,          \* what an actor does once they are delivered
    late,          \* the deadline of the run has passed
    draftLate,     \* the pending draft has expired
    crashes, requests,
    ledger,        \* dispatches with a row in the usage ledger
    egress,        \* how often each operation reached the outside
    granted        \* operations the owner approved

ownerVars == <<handle, logical, dispatch, account>>
checkVars == <<checkpoint, fresh, conversation>>
actorVars == <<pc, at, why, todo, then>>
timeVars == <<late, draftLate>>
boundVars == <<crashes, requests>>
worldVars == <<ledger, egress, granted>>
vars == <<capped, ownerVars, checkVars, host, actorVars, timeVars, boundVars, worldVars>>

-----------------------------------------------------------------------------
Terminal == {"completed", "failed", "cancelled", "denied", "expired", "timed_out",
             "context_revoked", "policy_revoked", "outcome_unknown"}
Status == Terminal \cup {"absent", "pending", "acceptance_unknown", "running",
                         "awaiting_approval", "reauthentication_required"}
EffectStates == {"none", "reserved", "dispatched", "complete", "unknown"}

NoDispatch == [state |-> "none", delivered |-> TRUE, money |-> NoMoney]

\* A capped run has no tools: every operation is a model call and a step.
IsTool(op) == ~capped /\ op \in Tools
\* Mutant of IsGated: only the first call of a turn asks for approval.
IsGatedAtFirst(op) == ~capped /\ op \in Gated /\ handle.floor = 0

IsGated(op) == ~capped /\ op \in Gated
\* Mutant of EndsStep: the last answer of a turn is not recognised.
NeverEndsStep(op) == op > Last

EndsStep(op) == capped \/ op = Last

Unstarted == {"pending", "acceptance_unknown"}

Over == checkpoint.status \in Terminal
Exists == checkpoint.status # "absent"
\* load() finds the checkpoint and its message.
Loadable == Exists /\ conversation = "kept"

\* The lease another execution may still be working under (_advance).
LeaseHeld ==
    /\ checkpoint.lease # None
    /\ checkpoint.live \/ checkpoint.opState \in {"dispatched", "unknown"}

\* The effects finish_handle looks at before it gives the slot back.
Unresolved(op) == logical[op] \in {"dispatched", "unknown"}
                    \/ dispatch[op].state \in {"dispatched", "unknown"}
Undelivered(op) == dispatch[op].state # "none" /\ ~dispatch[op].delivered
Outbox == {op \in Ops: Undelivered(op) /\ dispatch[op].state \in {"complete", "unknown"}}

Step(a, to) == pc' = [pc EXCEPT ![a] = to]

\* replace_workflow_checkpoint: only over the very document the actor read.
Current(a) == a \in fresh

Commit(a, updated) ==
    /\ checkpoint' = updated
    /\ fresh' = {a}
    /\ UNCHANGED conversation

\* The same, by an actor that will not write over its copy again.
LastCommit(updated) ==
    /\ checkpoint' = updated
    /\ fresh' = {}
    /\ UNCHANGED conversation

Drop(a) == fresh' = fresh \ {a} /\ UNCHANGED <<checkpoint, conversation>>

\* What an action leaves alone, beside the variables it names.
SameRun == UNCHANGED <<capped, timeVars, boundVars, worldVars>>

Unleased(value) == [value EXCEPT !.lease = None, !.live = FALSE]

\* Every actor leaves through here: what it held in memory is gone.
Leave(a) ==
    /\ pc' = [pc EXCEPT ![a] = "idle"]
    /\ at' = IF a \in Workers THEN [at EXCEPT ![a] = 0] ELSE at
    /\ why' = [why EXCEPT ![a] = "none"]
    /\ todo' = [todo EXCEPT ![a] = {}]
    /\ then' = [then EXCEPT ![a] = "none"]

Go(a, to) == Step(a, to) /\ UNCHANGED <<at, why, todo, then>>

\* flush_usage, and what follows it.
Flush(a, following) ==
    /\ Step(a, "flush")
    /\ then' = [then EXCEPT ![a] = following]
    /\ UNCHANGED <<at, why, todo>>

\* stop(status): the fence in the owner document comes first.
StopFor(a, status) ==
    /\ Step(a, "fence")
    /\ why' = [why EXCEPT ![a] = status]
    /\ UNCHANGED <<at, todo, then>>

\* The end of a step's work: the run is read again before its result is written.
Reload(w, status) ==
    /\ Step(w, "reload")
    /\ why' = [why EXCEPT ![w] = status]

Init ==
    /\ capped \in Profiles
    /\ handle = [admitted |-> FALSE, active |-> FALSE, terminal |-> FALSE, floor |-> 0]
    /\ logical = [op \in Ops |-> "none"]
    /\ dispatch = [op \in Ops |-> NoDispatch]
    /\ account = NewAccount
    /\ checkpoint = [status |-> "absent", lease |-> None, live |-> FALSE, next |-> 1,
                     opState |-> "idle", answered |-> FALSE, draft |-> "none",
                     challenge |-> None]
    /\ fresh = {}
    /\ conversation = "kept"
    /\ host = "none"
    /\ pc = [a \in Actors |-> "idle"]
    /\ at = [w \in Workers |-> 0]
    /\ why = [a \in Actors |-> "none"]
    /\ todo = [a \in Actors |-> {}]
    /\ then = [a \in Actors |-> "none"]
    /\ late = FALSE
    /\ draftLate = FALSE
    /\ crashes = 0
    /\ requests = 0
    /\ ledger = {}
    /\ egress = [op \in Ops |-> 0]
    /\ granted = {}

-----------------------------------------------------------------------------
(* start and recover_start.                                                  *)

\* claim: the handle enters the owner document before any checkpoint exists.
Admit(t) ==
    /\ pc[t] = "idle"
    /\ IF handle.admitted
       THEN /\ requests < MaxRequests
            /\ requests' = requests + 1
            /\ UNCHANGED handle
       ELSE /\ handle' = [handle EXCEPT !.admitted = TRUE, !.active = TRUE]
            /\ UNCHANGED requests
    /\ Go(t, "create")
    /\ UNCHANGED <<capped, logical, dispatch, account, checkVars, host, timeVars, crashes,
                   worldVars>>

CreateCheckpoint(t) ==
    /\ pc[t] = "create"
    /\ IF Exists
       THEN /\ IF checkpoint.status \in Unstarted THEN Go(t, "launch") ELSE Leave(t)
            /\ UNCHANGED checkVars
       ELSE /\ Commit(t, [checkpoint EXCEPT !.status = "pending"])
            /\ Go(t, "launch")
    /\ UNCHANGED <<ownerVars, host>> /\ SameRun

\* The scheduler takes the fixed instance identity; a second call finds it.
Launch(t) ==
    /\ pc[t] = "launch"
    /\ host' = IF host = "none" THEN "accepted" ELSE host
    /\ Leave(t)
    /\ Drop(t)
    /\ UNCHANGED ownerVars /\ SameRun

\* The acknowledgement is lost, whether or not the scheduler took the run.
LaunchUnknown(t) ==
    /\ pc[t] = "launch"
    /\ host' \in IF host = "none" THEN {"none", "accepted"} ELSE {host}
    /\ IF Loadable /\ checkpoint.status \in Unstarted
       THEN LastCommit(Unleased([checkpoint EXCEPT !.status = "acceptance_unknown"]))
       ELSE Drop(t)
    /\ Leave(t)
    /\ UNCHANGED ownerVars /\ SameRun

LaunchRejected(t) ==
    /\ pc[t] = "launch"
    /\ host = "none"
    /\ IF Loadable /\ checkpoint.status \in Unstarted
       THEN /\ LastCommit(Unleased([checkpoint EXCEPT !.status = "failed"]))
            /\ Flush(t, "finish")
       ELSE Leave(t) /\ Drop(t)
    /\ UNCHANGED <<ownerVars, host>> /\ SameRun

-----------------------------------------------------------------------------
(* _advance: what an execution decides from the checkpoint it loads.         *)

Advancing(w) ==
    /\ host = "accepted"
    /\ pc[w] = "idle"
    /\ UNCHANGED <<ownerVars, checkpoint, conversation, host>> /\ SameRun

\* The run is over, or its conversation was cleared.
AdvanceOver(w) ==
    /\ Advancing(w)
    /\ Over
    /\ Flush(w, "finish")
    /\ UNCHANGED fresh

\* Mutant of AdvanceLate: the deadline is only looked at without a lease.
AdvanceLateUnleased(w) ==
    /\ Advancing(w)
    /\ ~Over /\ late /\ ~LeaseHeld
    /\ StopFor(w, "timed_out")
    /\ UNCHANGED fresh

\* The deadline, seen by an activity or by the orchestrator's own timer.
AdvanceLate(w) ==
    /\ Advancing(w)
    /\ ~Over /\ late
    /\ StopFor(w, "timed_out")
    /\ UNCHANGED fresh

AdvanceExpired(w) ==
    /\ Advancing(w)
    /\ ~Over /\ ~late
    /\ checkpoint.draft = "pending" /\ draftLate
    /\ StopFor(w, "expired")
    /\ UNCHANGED fresh

\* Nothing pending and no lease in force: the copy goes to the policy checks.
AdvanceReady(w) ==
    /\ Advancing(w)
    /\ ~Over /\ ~late
    /\ checkpoint.draft # "pending"
    /\ ~LeaseHeld
    /\ fresh' = fresh \cup {w}
    /\ Go(w, "checked")

\* The policy service denies: set_status, and the orchestration is over.
PolicyDenied(w) ==
    /\ pc[w] = "checked"
    /\ IF Loadable /\ ~Over
       THEN LastCommit(Unleased([checkpoint EXCEPT !.status = "policy_revoked"]))
       ELSE Drop(w)
    /\ host' = IF Loadable /\ host = "accepted" THEN "revoked" ELSE host
    /\ Leave(w)
    /\ UNCHANGED ownerVars /\ SameRun

\* The owner has to sign in again: the run waits and asks again later.
SignInNeeded(w) ==
    /\ pc[w] = "checked"
    /\ Loadable /\ ~Over
    /\ LastCommit(Unleased([checkpoint EXCEPT !.status = "reauthentication_required"]))
    /\ Leave(w)
    /\ UNCHANGED <<ownerVars, host>> /\ SameRun

ContextRevoked(w) ==
    /\ pc[w] = "checked"
    /\ StopFor(w, "context_revoked")
    /\ Drop(w)
    /\ UNCHANGED <<ownerVars, host>> /\ SameRun

\* Where an execution takes up operation op.
TakeUp(op) == IF IsGated(op) /\ checkpoint.draft # "approved" THEN "pause" ELSE "begin"

\* The lease is written over the copy read before the policy checks.
Acquire(w) ==
    /\ pc[w] = "checked"
    /\ IF Current(w)
       THEN /\ Commit(w, [checkpoint EXCEPT !.status = "running", !.lease = w, !.live = TRUE])
            /\ IF checkpoint.answered
               THEN /\ at' = [at EXCEPT ![w] = checkpoint.next - 1]
                    /\ Reload(w, "advanced")
               ELSE /\ at' = [at EXCEPT ![w] = checkpoint.next]
                    /\ Step(w, TakeUp(checkpoint.next))
                    /\ UNCHANGED why
            /\ UNCHANGED <<todo, then>>
       ELSE Leave(w) /\ UNCHANGED checkVars
    /\ UNCHANGED <<ownerVars, host>> /\ SameRun

-----------------------------------------------------------------------------
(* RunController.hold, begin.                                                *)

\* check_current: the owner document, then the checkpoint, then policy.
Permitted(w) ==
    /\ handle.active /\ ~handle.terminal
    /\ ~late
    /\ capped => ~Blocked(account)
    /\ Current(w)
    /\ checkpoint.lease = w
    /\ checkpoint.status = "running"

Fail(w) == Reload(w, "failed") /\ UNCHANGED <<at, todo, then>>

\* hold: a gated call waits for the owner; the lease is given back.
Pause(w) ==
    /\ pc[w] = "pause"
    /\ IF Permitted(w)
       THEN /\ Commit(w, Unleased([checkpoint EXCEPT
                              !.status = "awaiting_approval", !.draft = "pending",
                              !.opState = "idle", !.challenge = None]))
            /\ draftLate' = FALSE
            /\ Reload(w, "paused") /\ UNCHANGED <<at, todo, then>>
       ELSE Fail(w) /\ UNCHANGED <<checkVars, draftLate>>
    /\ UNCHANGED <<capped, ownerVars, host, late, boundVars, worldVars>>

\* A check and the conditional write after it are one step: a stop that lands
\* between them is not seen by the write either, and every other change of the
\* checkpoint makes both fail.
CheckAndSave(w, from, allowed, updated, to) ==
    /\ pc[w] = from
    /\ IF Permitted(w) /\ allowed THEN Commit(w, updated) /\ Go(w, to)
                                   ELSE Fail(w) /\ UNCHANGED checkVars
    /\ UNCHANGED <<ownerVars, host>> /\ SameRun

\* begin, with the approval before_tool asks for.
Begin(w) ==
    CheckAndSave(w, "begin",
                 IsGated(at[w]) => checkpoint.draft = "approved" /\ ~draftLate,
                 [checkpoint EXCEPT !.opState = "reserved", !.live = TRUE], "reserve")

\* Mutant of Reserve: an earlier attempt of the operation is not looked at.
ReserveAgain(w) ==
    /\ pc[w] = "reserve"
    /\ IF ~handle.terminal /\ handle.active /\ at[w] > handle.floor
       THEN logical' = [logical EXCEPT ![at[w]] = "reserved"] /\ Go(w, "recheck")
       ELSE Fail(w) /\ UNCHANGED logical
    /\ UNCHANGED <<handle, dispatch, account, checkVars, host>> /\ SameRun

\* reserve: one attempt per operation, ever.
Reserve(w) ==
    /\ pc[w] = "reserve"
    /\ IF /\ ~handle.terminal /\ handle.active
          /\ at[w] > handle.floor
          /\ logical[at[w]] \in {"none", "reserved"}
       THEN logical' = [logical EXCEPT ![at[w]] = "reserved"] /\ Go(w, "recheck")
       ELSE Fail(w) /\ UNCHANGED logical
    /\ UNCHANGED <<handle, dispatch, account, checkVars, host>> /\ SameRun

SaveClaim(w) ==
    CheckAndSave(w, "recheck", TRUE,
                 [checkpoint EXCEPT !.opState = "dispatched",
                     !.draft = IF IsTool(at[w]) /\ @ # "none" THEN "dispatched" ELSE @],
                 "claim")

\* dispatch: the operation is claimed; from here it is never attempted again.
Claim(w) ==
    /\ pc[w] = "claim"
    /\ IF ~handle.terminal /\ logical[at[w]] = "reserved"
       THEN /\ logical' = [logical EXCEPT ![at[w]] = "dispatched"]
            /\ Go(w, IF IsTool(at[w]) THEN "run" ELSE "before")
       ELSE Fail(w) /\ UNCHANGED logical
    /\ UNCHANGED <<handle, dispatch, account, checkVars, host>> /\ SameRun

-----------------------------------------------------------------------------
(* admitted_dispatch around one request of a model call: before_dispatch,    *)
(* authorize_dispatch, the send, after_dispatch.                             *)

\* before_dispatch checks before it prices the request and claims it.
Before(w) ==
    /\ pc[w] = "before"
    /\ IF Permitted(w) THEN Go(w, "hold") ELSE Fail(w)
    /\ UNCHANGED <<ownerVars, checkVars, host>> /\ SameRun

\* Mutant of Hold: the request does not look whether the run was stopped.
HoldAfterStop(w) ==
    LET op == at[w]
    IN  /\ pc[w] = "hold"
        /\ dispatch[op].state = "none" /\ ~capped
        /\ dispatch' = [dispatch EXCEPT ![op].state = "dispatched", ![op].delivered = FALSE]
        /\ Go(w, "authorize")
        /\ UNCHANGED <<handle, logical, account, checkVars, host>> /\ SameRun

\* claim of before_dispatch: the request enters the owner document, held money
\* with it.  Too little money refuses the operation as a whole.  An operation has
\* one request here; the code holds only a capped run to that.
Hold(w) ==
    LET op == at[w]
    IN  /\ pc[w] = "hold"
        /\ IF handle.terminal \/ ~handle.active \/ dispatch[op].state # "none"
           THEN Fail(w) /\ UNCHANGED <<dispatch, account>>
           ELSE IF capped /\ ~MayReserve(account)
           THEN Go(w, "refuse") /\ UNCHANGED <<dispatch, account>>
           ELSE /\ dispatch' = [dispatch EXCEPT ![op] =
                       [state |-> "dispatched", delivered |-> FALSE,
                        money |-> IF capped THEN Reservation ELSE NoMoney]]
                /\ account' = IF capped THEN ReserveMoney(account) ELSE account
                /\ Go(w, "authorize")
        /\ UNCHANGED <<handle, logical, checkVars, host>> /\ SameRun

\* refuse_undispatched_model: no request was recorded, so the claim is closed.
Refuse(w) ==
    /\ pc[w] = "refuse"
    /\ IF logical[at[w]] = "dispatched" /\ dispatch[at[w]].state = "none"
       THEN logical' = [logical EXCEPT ![at[w]] = "complete"] /\ Go(w, "refused")
       ELSE Fail(w) /\ UNCHANGED logical
    /\ UNCHANGED <<handle, dispatch, account, checkVars, host>> /\ SameRun

SaveRefused(w) ==
    /\ pc[w] = "refused"
    /\ IF Current(w) THEN Commit(w, [checkpoint EXCEPT !.opState = "complete"])
                     ELSE UNCHANGED checkVars
    /\ Fail(w)
    /\ UNCHANGED <<ownerVars, host>> /\ SameRun

\* The last look before the request leaves.
Authorize(w) ==
    /\ pc[w] = "authorize"
    /\ Go(w, IF Permitted(w) THEN "send" ELSE "abandon")
    /\ UNCHANGED <<ownerVars, checkVars, host>> /\ SameRun

\* The request leaves for the gateway.
Send(w) ==
    /\ pc[w] = "send"
    /\ egress' = [egress EXCEPT ![at[w]] = @ + 1]
    /\ Go(w, "answer")
    /\ UNCHANGED <<capped, ownerVars, checkVars, host, timeVars, boundVars, ledger, granted>>

\* after_dispatch, for a request whose money and state nobody settled before.
Conclude(op, actual, completed) ==
    LET money == dispatch[op].money
        settled == SettledMoney(account, money, actual)
    IN  /\ account' = IF capped THEN SettleMoney(account, money, actual) ELSE account
        /\ dispatch' = [dispatch EXCEPT
               ![op].state = IF completed /\ (capped => settled.phase = "settled")
                             THEN "complete" ELSE "unknown",
               ![op].money = IF capped THEN settled ELSE money]

\* The answer came; what it cost may or may not be known.
Answer(w) ==
    /\ pc[w] = "answer"
    /\ \E actual \in IF capped THEN Actuals \cup {Unmetered} ELSE {Unmetered}:
          Conclude(at[w], actual, TRUE)
    /\ Flush(w, "conclude")
    /\ UNCHANGED <<handle, logical, checkVars, host>> /\ SameRun

\* No answer: refused before the send, an error, a disconnect or the deadline.
Abandon(w) ==
    /\ pc[w] \in {"answer", "abandon"}
    /\ Conclude(at[w], Unmetered, FALSE)
    /\ \/ Fail(w)
       \/ late /\ StopFor(w, "timed_out")
    /\ UNCHANGED <<handle, logical, checkVars, host>> /\ SameRun

\* A local tool needs no request; it may report an error.  (A remote one enters a
\* request like a model call, and is left out.)
RunTool(w) ==
    /\ pc[w] = "run"
    /\ egress' = [egress EXCEPT ![at[w]] = @ + 1]
    /\ \E result \in {"none", "failed"}: why' = [why EXCEPT ![w] = result]
    /\ Step(w, "flush")
    /\ then' = [then EXCEPT ![w] = "conclude"]
    /\ UNCHANGED <<at, todo, capped, ownerVars, checkVars, host, timeVars, boundVars, ledger,
                   granted>>

\* A write of the owner document lost three races, a policy check failed, or the
\* deadline cut the step short.
Interrupted(w) ==
    /\ pc[w] \in {"pause", "begin", "reserve", "recheck", "claim", "before", "hold", "answer",
                  "run", "conclude", "keep", "raise"}
    /\ \/ Fail(w)
       \/ late /\ StopFor(w, "timed_out")
    /\ UNCHANGED <<ownerVars, checkVars, host>> /\ SameRun

-----------------------------------------------------------------------------
(* RunController.complete and flush_usage.                                   *)

\* Mutant of Snapshot: entries are marked delivered before their rows exist.
SnapshotMarks(a) ==
    /\ pc[a] = "flush"
    /\ todo' = [todo EXCEPT ![a] = Outbox]
    /\ dispatch' = [op \in Ops |-> IF op \in Outbox THEN [dispatch[op] EXCEPT !.delivered = TRUE]
                                                   ELSE dispatch[op]]
    /\ Step(a, "record")
    /\ UNCHANGED <<at, why, then, handle, logical, account, checkVars, host>> /\ SameRun

\* The outbox as one read of the owner document shows it.
Snapshot(a) ==
    /\ pc[a] = "flush"
    /\ todo' = [todo EXCEPT ![a] = Outbox]
    /\ Step(a, "record")
    /\ UNCHANGED <<at, why, then, ownerVars, checkVars, host>> /\ SameRun

\* The entries are delivered one after the other.
Entry(a) == CHOOSE op \in todo[a]: TRUE

\* record_frozen: the ledger row has the identity of the request.
Record(a) ==
    /\ pc[a] = "record"
    /\ todo[a] # {}
    /\ ledger' = ledger \cup {Entry(a)}
    /\ Go(a, "mark")
    /\ UNCHANGED <<capped, ownerVars, checkVars, host, timeVars, boundVars, egress, granted>>

Mark(a) ==
    LET op == Entry(a)
    IN  /\ pc[a] = "mark"
        /\ IF dispatch[op].state # "none"
           THEN /\ dispatch' = [dispatch EXCEPT ![op].delivered = TRUE]
                /\ todo' = [todo EXCEPT ![a] = @ \ {op}]
                /\ Step(a, "record")
                /\ UNCHANGED <<at, why, then>>
           ELSE /\ IF then[a] = "conclude"
                   THEN /\ Reload(a, "failed")
                        /\ todo' = [todo EXCEPT ![a] = {}]
                        /\ then' = [then EXCEPT ![a] = "none"]
                        /\ UNCHANGED at
                   ELSE Leave(a)
                /\ UNCHANGED dispatch
        /\ UNCHANGED <<handle, logical, account, checkVars, host>> /\ SameRun

Delivered(a) ==
    /\ pc[a] = "record"
    /\ todo[a] = {}
    /\ IF then[a] = "idle"
       THEN Leave(a)
       ELSE Step(a, then[a]) /\ then' = [then EXCEPT ![a] = "none"]
            /\ UNCHANGED <<at, why, todo>>
    /\ UNCHANGED <<ownerVars, checkVars, host>> /\ SameRun

Unknown(op) == dispatch[op].state \in {"dispatched", "unknown"}

\* The operation's own effect takes the outcome of its request.
ConcludeOperation(w) ==
    LET op == at[w]
    IN  /\ pc[w] = "conclude"
        /\ IF logical[op] = "dispatched"
           THEN /\ logical' = [logical EXCEPT ![op] = IF Unknown(op) THEN "unknown" ELSE "complete"]
                /\ Go(w, "keep")
           ELSE Fail(w) /\ UNCHANGED logical
        /\ UNCHANGED <<handle, dispatch, account, checkVars, host>> /\ SameRun

\* The continuation moves past the operation; an unknown outcome ends the run.
SaveResult(w) ==
    LET op == at[w]
    IN  /\ pc[w] = "keep"
        /\ IF Current(w)
           THEN /\ Commit(w, [checkpoint EXCEPT
                       !.next = op + 1, !.draft = "none", !.live = @ \/ checkpoint.lease # None,
                       !.opState = IF Unknown(op) THEN "unknown" ELSE "complete",
                       !.answered = EndsStep(op),
                       !.status = IF Unknown(op) THEN "outcome_unknown"
                                  ELSE IF why[w] = "failed" THEN "failed" ELSE @])
                /\ Go(w, "raise")
           ELSE Fail(w) /\ UNCHANGED checkVars
        /\ UNCHANGED <<ownerVars, host>> /\ SameRun

\* The floor forbids the operation for ever; then its effects may be pruned.
RaiseFloor(w) ==
    LET op == at[w]
        prune == dispatch[op].state = "complete" /\ dispatch[op].delivered
    IN  /\ pc[w] = "raise"
        /\ handle' = [handle EXCEPT !.floor = IF @ < op THEN op ELSE @]
        /\ logical' = [logical EXCEPT ![op] = IF @ = "complete" THEN "none" ELSE @]
        /\ dispatch' = [dispatch EXCEPT ![op] = IF prune THEN NoDispatch ELSE @]
        /\ account' = IF prune /\ capped THEN CompactMoney(account, dispatch[op].money)
                                         ELSE account
        /\ IF Unknown(op) \/ why[w] = "failed"
           THEN Fail(w)
           ELSE IF EndsStep(op)
           THEN Reload(w, "advanced") /\ UNCHANGED <<at, todo, then>>
           ELSE /\ at' = [at EXCEPT ![w] = op + 1]
                /\ Step(w, IF IsGated(op + 1) THEN "pause" ELSE "begin")
                /\ UNCHANGED <<why, todo, then>>
        /\ UNCHANGED <<checkVars, host>> /\ SameRun

-----------------------------------------------------------------------------
(* The end of an execution, stop and finish_handle.                          *)

\* What _advance writes over the copy it read again.
ResultOf(w) ==
    LET idle == [Unleased(checkpoint) EXCEPT !.opState = "idle", !.answered = FALSE]
    IN  CASE why[w] = "paused" -> Unleased(checkpoint)
          [] why[w] = "failed" -> [Unleased(checkpoint) EXCEPT !.status = "failed"]
          [] why[w] = "advanced" ->
                [idle EXCEPT !.status = IF at[w] = Last THEN "completed" ELSE @]

Following(w) ==
    CASE why[w] = "failed" -> "finish"
      [] why[w] = "advanced" -> IF at[w] = Last THEN "finish" ELSE "idle"

\* Mutant of Close: the copy read again is not compared with the execution's own.
CloseBlindly(w) ==
    /\ pc[w] = "reload"
    /\ IF ~Loadable \/ Over
       THEN Drop(w) /\ Flush(w, "finish")
       ELSE /\ LastCommit(ResultOf(w))
            /\ IF why[w] = "paused" THEN Leave(w) ELSE Flush(w, Following(w))
    /\ UNCHANGED <<ownerVars, host>> /\ SameRun

\* A run that ended meanwhile may still take this execution's receipt.
Close(w) ==
    /\ pc[w] = "reload"
    /\ IF ~Loadable \/ Over
       THEN /\ fresh' \in {fresh \ {w}, {}}
            /\ UNCHANGED <<checkpoint, conversation>>
            /\ Flush(w, "finish")
       ELSE IF ~Current(w)
       THEN Leave(w) /\ UNCHANGED checkVars
       ELSE /\ LastCommit(ResultOf(w))
            /\ IF why[w] = "paused" THEN Leave(w) ELSE Flush(w, Following(w))
    /\ UNCHANGED <<ownerVars, host>> /\ SameRun

Fence(a) ==
    /\ pc[a] = "fence"
    /\ handle' = [handle EXCEPT !.terminal = TRUE]
    /\ Go(a, "status")
    /\ UNCHANGED <<logical, dispatch, account, checkVars, host>> /\ SameRun

\* Mutant of SetStatus: a run that is over takes another status.
SetStatusAgain(a) ==
    /\ pc[a] = "status"
    /\ IF Loadable THEN LastCommit(Unleased([checkpoint EXCEPT !.status = why[a]])) ELSE Drop(a)
    /\ IF Loadable \/ why[a] = "cancelled" THEN Flush(a, "finish") ELSE Leave(a)
    /\ UNCHANGED <<ownerVars, host>> /\ SameRun

\* set_status over the stored checkpoint; a cancel goes on without one.
SetStatus(a) ==
    /\ pc[a] = "status"
    /\ IF Loadable /\ ~Over
       THEN LastCommit(Unleased([checkpoint EXCEPT !.status = why[a]]))
       ELSE Drop(a)
    /\ IF Loadable \/ why[a] = "cancelled" THEN Flush(a, "finish") ELSE Leave(a)
    /\ UNCHANGED <<ownerVars, host>> /\ SameRun

\* Mutants of FinishHandle: the end always, or never after a claim, frees the slot.
FinishReleases(a) ==
    /\ pc[a] = "finish"
    /\ handle' = [handle EXCEPT !.terminal = TRUE, !.active = FALSE]
    /\ host' = IF a \in Workers /\ host = "accepted" THEN "done" ELSE host
    /\ Leave(a)
    /\ UNCHANGED <<logical, dispatch, account, checkVars>> /\ SameRun

FinishHoldsReserved(a) ==
    /\ pc[a] = "finish"
    /\ handle' = [handle EXCEPT !.terminal = TRUE, !.active = \E op \in Ops: logical[op] # "none"]
    /\ host' = IF a \in Workers /\ host = "accepted" THEN "done" ELSE host
    /\ Leave(a)
    /\ UNCHANGED <<logical, dispatch, account, checkVars>> /\ SameRun

\* The run counts as active for as long as something it sent is unresolved.
FinishHandle(a) ==
    /\ pc[a] = "finish"
    /\ handle' = [handle EXCEPT !.terminal = TRUE,
                                !.active = \E op \in Ops: Unresolved(op) \/ Undelivered(op)]
    /\ host' = IF a \in Workers /\ host = "accepted" THEN "done" ELSE host
    /\ Leave(a)
    /\ UNCHANGED <<logical, dispatch, account, checkVars>> /\ SameRun

-----------------------------------------------------------------------------
(* cancel, review, decide, and the clearing of the conversation.             *)

Request(t) ==
    /\ pc[t] = "idle"
    /\ handle.admitted
    /\ requests < MaxRequests
    /\ requests' = requests + 1
    /\ UNCHANGED <<capped, ownerVars, checkpoint, conversation, host, timeVars, crashes, worldVars>>

Cancel(t) ==
    /\ Request(t)
    /\ StopFor(t, "cancelled")
    /\ UNCHANGED fresh

AwaitsDecision ==
    Loadable /\ checkpoint.status = "awaiting_approval" /\ checkpoint.draft = "pending"

\* A denial, or any decision on a draft that has expired.
Refusal(t) ==
    /\ Request(t)
    /\ AwaitsDecision
    /\ StopFor(t, IF draftLate THEN "expired" ELSE "denied")
    /\ UNCHANGED fresh

\* The tab reads the draft, to be shown it anew or to approve it with the grant
\* of the review it holds.
ReadDraft(t) ==
    /\ Request(t)
    /\ AwaitsDecision /\ ~draftLate
    /\ fresh' = fresh \cup {t}
    /\ \/ Go(t, "reviewing")
       \/ checkpoint.challenge = t /\ Go(t, "approving")

\* The policy checks passed: a new challenge, over the draft that was read.
Review(t) ==
    /\ pc[t] = "reviewing"
    /\ IF Current(t) THEN LastCommit([checkpoint EXCEPT !.challenge = t]) ELSE UNCHANGED checkVars
    /\ Leave(t)
    /\ UNCHANGED <<ownerVars, host>> /\ SameRun

\* The grant is consumed together with the draft's new state.
Approve(t) ==
    /\ pc[t] = "approving"
    /\ IF Current(t)
       THEN /\ LastCommit([checkpoint EXCEPT !.draft = "approved"])
            /\ granted' = granted \cup {checkpoint.next}
       ELSE UNCHANGED <<checkVars, granted>>
    /\ Leave(t)
    /\ UNCHANGED <<capped, ownerVars, host, timeVars, boundVars, ledger, egress>>

\* The owner clears the conversation, and with it the text of the checkpoint.
ClearConversation(t) ==
    /\ pc[t] = "idle"
    /\ requests < MaxRequests
    /\ Loadable
    /\ requests' = requests + 1
    /\ conversation' = "cleared"
    /\ checkpoint' = [Unleased(checkpoint) EXCEPT !.status = "cancelled", !.draft = "none",
                                                  !.answered = FALSE]
    /\ fresh' = {}
    /\ UNCHANGED <<capped, ownerVars, host, actorVars, timeVars, crashes, worldVars>>

-----------------------------------------------------------------------------
(* What happens to the run from outside.                                     *)

\* The process dies; the durable host will deliver the activity again.  A store
\* call that fails where Interrupted has no place (a flush, a mark, a fence, a
\* status, a finish) also ends the activity or the request there, as this does.
Crash(a) ==
    /\ pc[a] # "idle"
    /\ crashes < MaxCrashes
    /\ crashes' = crashes + 1
    /\ fresh' = fresh \ {a}
    /\ Leave(a)
    /\ UNCHANGED <<capped, ownerVars, checkpoint, conversation, host, timeVars, requests, worldVars>>

\* Thirty seconds without a checkpoint write; the holder may still be working.
LeaseExpires ==
    /\ checkpoint.live
    /\ checkpoint' = [checkpoint EXCEPT !.live = FALSE]
    /\ UNCHANGED <<capped, ownerVars, fresh, conversation, host, actorVars, timeVars, boundVars,
                   worldVars>>

DeadlinePasses ==
    /\ handle.admitted /\ ~late
    /\ late' = TRUE
    /\ draftLate' = TRUE
    /\ UNCHANGED <<capped, ownerVars, checkVars, host, actorVars, boundVars, worldVars>>

DraftExpires ==
    /\ checkpoint.draft \in {"pending", "approved"} /\ ~draftLate
    /\ draftLate' = TRUE
    /\ UNCHANGED <<capped, ownerVars, checkVars, host, actorVars, late, boundVars, worldVars>>

-----------------------------------------------------------------------------
\* What any actor does once it ends or stops a run.
Ending(a) ==
    Fence(a) \/ SetStatus(a) \/ Snapshot(a) \/ Record(a) \/ Mark(a) \/ Delivered(a) \/ FinishHandle(a)

Advance(w) ==
    \/ AdvanceOver(w) \/ AdvanceLate(w) \/ AdvanceExpired(w) \/ AdvanceReady(w)
    \/ PolicyDenied(w) \/ SignInNeeded(w) \/ ContextRevoked(w) \/ Acquire(w)
    \/ Pause(w) \/ Begin(w) \/ Reserve(w) \/ SaveClaim(w) \/ Claim(w)
    \/ Before(w) \/ Hold(w) \/ Refuse(w) \/ SaveRefused(w) \/ Authorize(w)
    \/ Send(w) \/ Answer(w) \/ Abandon(w) \/ RunTool(w) \/ Interrupted(w)
    \/ ConcludeOperation(w) \/ SaveResult(w) \/ RaiseFloor(w) \/ Close(w)
    \/ Ending(w)

Starting(t) == CreateCheckpoint(t) \/ Launch(t) \/ LaunchUnknown(t) \/ LaunchRejected(t)

Respond(t) == Starting(t) \/ Review(t) \/ Approve(t) \/ Ending(t)

Ask(t) == Admit(t) \/ Cancel(t) \/ Refusal(t) \/ ReadDraft(t) \/ ClearConversation(t)

Outside ==
    \/ \E a \in Actors: Crash(a)
    \/ LeaseExpires \/ DeadlinePasses \/ DraftExpires

Next ==
    \/ \E w \in Workers: Advance(w)
    \/ \E t \in Tabs: Ask(t) \/ Respond(t)
    \/ Outside

Spec == Init /\ [][Next]_vars

\* The host delivers an activity until one returns; a request that was taken up
\* is answered; time passes.
Fairness ==
    /\ \A w \in Workers: WF_vars(Advance(w))
    /\ \A t \in Tabs: WF_vars(Respond(t))
    /\ WF_vars(DeadlinePasses)

LiveSpec == Spec /\ Fairness

-----------------------------------------------------------------------------
(* Properties.                                                               *)

TypeOK ==
    /\ capped \in BOOLEAN
    /\ handle \in [admitted: BOOLEAN, active: BOOLEAN, terminal: BOOLEAN, floor: 0..Last]
    /\ logical \in [Ops -> EffectStates]
    /\ dispatch \in [Ops -> [state: EffectStates \ {"reserved"}, delivered: BOOLEAN,
                             money: DispatchMoney]]
    /\ account \in RunMoney
    /\ checkpoint \in [status: Status, lease: Workers \cup {None}, live: BOOLEAN,
                       next: 1..(Last + 1),
                       opState: {"idle", "reserved", "dispatched", "complete", "unknown"},
                       answered: BOOLEAN,
                       draft: {"none", "pending", "approved", "dispatched"},
                       challenge: Tabs \cup {None}]
    /\ fresh \subseteq Actors
    /\ conversation \in {"kept", "cleared"}
    /\ host \in {"none", "accepted", "done", "revoked"}
    /\ at \in [Workers -> 0..Last]
    /\ todo \in [Actors -> SUBSET Ops]
    /\ ledger \subseteq Ops
    /\ egress \in [Ops -> Nat]
    /\ granted \subseteq Ops

\* However executions overlap, crash and resume, no operation of the run is taken
\* up and sent a second time (run_controller.begin: one claim for ever).  What an
\* uncapped operation dispatches besides, nested in the same claim, is left out.
AtMostOnce == \A op \in Ops: egress[op] <= 1

\* A run holds its place among the owner's active runs while anything it claimed
\* or sent is unresolved, whoever stopped it and whatever became of the
\* execution that sent it (finish_handle).
InFlightHoldsRun ==
    (\E op \in Ops: Unresolved(op)) => handle.admitted /\ handle.active

\* A tool that needs an approval never runs without the owner's grant for that
\* very call, whatever was resumed, expired or cancelled before (before_tool).
NoUnapprovedCall ==
    ~capped => \A op \in Gated: egress[op] > 0 => op \in granted

\* The reason a run ended for is never replaced by a later one: not by a racing
\* stop, a late result or a second execution.  Only clearing the conversation
\* rewrites it (validate_transition, set_status).
EndStands == [][Over => \/ checkpoint'.status = checkpoint.status
                        \/ conversation' # conversation]_vars

\* The lease of a running execution goes only by a step of its own: an activity
\* that paused earlier and ends late does not clear the lease of the execution
\* that resumed after the approval (the reload before the last commit of _advance).
LeaseStands ==
    [][checkpoint.lease # None /\ checkpoint'.lease = None /\ checkpoint'.status = "running"
          => pc'[checkpoint.lease] # pc[checkpoint.lease]]_vars

\* The books of a capped run: what is held, unknown, settled and compacted adds
\* up to its requests, and the cap holds unless the account is blocked
\* (validate_money_balances, coherent_totals, both asserted on every read).
BooksBalance ==
    capped => /\ CoherentTotals(account)
              /\ MoneyBalances(account, [op \in Ops |-> dispatch[op].money])

\* When the run gives its place back, every request that left has its row in the
\* usage ledger, also if the process died between the row and its mark
\* (flush_usage before finish_handle).
BilledBeforeReleased ==
    handle.admitted /\ ~handle.active
        => \A op \in Ops: egress[op] > 0 /\ ~IsTool(op) => op \in ledger

\* Once the orchestration of a run has ended, no execution is under way and none
\* died, only something unresolved or undelivered still occupies its place.  (In
\* a cleared conversation an execution nobody waits for may stop the run at the
\* deadline and leave without finish_handle: set_status finds no checkpoint.)
ReleasedWhenQuiet ==
    /\ host = "done"
    /\ conversation = "kept"
    /\ crashes = 0
    /\ \A a \in Actors: pc[a] = "idle"
    => /\ handle.terminal
       /\ handle.active => \E op \in Ops: Unresolved(op) \/ Undelivered(op)

\* A run the host accepted comes to its end, whatever crashes, expires, is
\* cancelled or cleared.
RunEnds == host = "accepted" ~> host \in {"done", "revoked"}

\* What docs/workflow-automation.md says of overlap: only an active or unresolved
\* run of a workflow blocks another one.
OverMeansReleased ==
    host \in {"done", "revoked"} /\ Over /\ (\A a \in Actors: pc[a] = "idle")
        => ~handle.active \/ \E op \in Ops: Unresolved(op) \/ Undelivered(op)

-----------------------------------------------------------------------------
\* RunPromise: how far an operation has come.
Stage(op) ==
    CASE op <= handle.floor \/ logical[op] = "complete" -> "resolved"
      [] op > handle.floor /\ logical[op] \in {"none", "reserved"} -> "idle"
      [] op > handle.floor /\ logical[op] \in {"dispatched", "unknown"} ->
            IF egress[op] > 0 THEN "sent"
            ELSE IF IsTool(op) \/ dispatch[op].state # "none" THEN "permitted"
            ELSE "claimed"

Promise == INSTANCE RunPromise WITH
    stage <- [op \in Ops |-> Stage(op)],
    stopped <- handle.terminal,
    released <- handle.admitted /\ ~handle.active

PromiseKept == Promise!Spec
=============================================================================
