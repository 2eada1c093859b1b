# Formal models of AI4IA

AI4IA is a FastAPI service (`app/api`) in front of large language models, with a
React client (`app/web`), a gateway proxy and Azure infrastructure.  This
directory holds TLA+ models of the parts of the service whose correctness rests
on concurrency: several replicas, an ETag-guarded document store, lost
acknowledgements, restarts and administrators who change policy in between.

Present state: five parts are modelled, model-checked and proved about: **hard quota
admission** (section 3), **a resumable workflow run** with its money (section 4),
**workflow schedules** (section 5), **the deletion of a conversation** (section 6) and
**the memories of a user** (section 7).  Sections 8 to 10 say what is proved, what is
only model-checked and what is not modelled.

## 1. Inventory

Paths are below `src/app/api/src/ai4ia_api/`.

| Component | State it keeps | Operations | Interacts with | Hard behaviour |
| --- | --- | --- | --- | --- |
| Hard quota service and seam (`hard_quota/service.py`, `dispatch.py`, `models.py`) | one document per owner: fences, one row per operation | claim = read policy, reserve, read policy, dispatch; settle; release; expiry and pruning inside each | every provider call; entitlements; store | races of replicas, lost acknowledgements, expiry against a late claim, pruning against replay, windows that roll, crash between dispatch and settlement |
| Hard quota store (`cosmos_store.py`, `store.py`) | the document, its ETag, the `Date` of its responses | read, If-Match replace without retry | service, operator | ambiguous writes, a clock that trails |
| Operator tool (`operator.py`) | an approved plan | bootstrap, resolve holds | the same document | a plan that is stale when applied |
| Activation and bounds (`rollout.py`, `factory.py`, `coverage.py`) | rollout record | validated at startup | service | the cutover from revisions that record nothing |
| Entitlements (`entitlements/`) | override per owner, a cache | get, get_for_admission, set, clear | claim | changed between two reads |
| Workflow automation (`workflows/automation_service.py`, `automation_store.py`, `run_controller.py`) | owner document (run handles, effects) and one checkpoint per run | start, stop, cancel, decide, advance, recover_start, before/authorize/after dispatch | sessions, scheduler, hard quota, usage | two documents written in turn, leases, one-time grants, outbox |
| Monetary ledger (`workflows/monetary_ledger.py`) | held, unknown, settled, compacted totals | reserve, settle, compact | automation | totals against effects, late outcomes |
| Workflow schedules (`workflows/schedule_service.py`) | schedule record, pending slot | save, tick, pause, disable | automation, scheduler | a slot claimed, run and recorded in three writes |
| Durable host (`workflows/durable*.py`) | orchestrations | start, wake, timers | automation | unknown acceptance, repeated activities |
| Session deletion (`sessions/cosmos_deletion.py`) | fences, leases, pages | begin, claim, clean, settle uploads | sessions, uploads | a lease that moves while its holder works |
| Sessions, chat continuation (`sessions/`) | messages, saved turn | append, pause, resume | agents | resume twice |
| Library ingestion (`library/ingest.py`) | document, chunks, background tasks | ingest, enrich, purge, reindex, recover | memory, search | enrichment against delete and restart |
| Memory (`memory/cosmos_store.py`, `cosmos_service.py`, `preferences.py`; the routes in `routers/library.py`) | state document (epoch, cutoffs, preference), records, document markers | create, update, delete, remember, save a document, forget, delete a document, set the preference | agents, library | writes planned before a forget, a save against the deletion of its document, a preference turned off and on under an automatic write |
| Approvals and consent (`agents/approvals.py`, `consent*.py`) | one-time grants | mint, consume | automation, chat | used twice |
| Photo avatars, realtime, publishing, images, search, MCP, agents, gateway, usage, directory, policy, auth, routers | see `PROJECT.json` | | | mostly input and output around the above |
| Web client, proxy, infrastructure | | | | not modelled: a client, third-party code, configuration |

What makes each component correct:

* **Hard quota**: the rolling caps hold for what was really sent; an operation is
  sent at most once; what was sent stays charged and its identity stays spent; the
  stored document can always be read again; work in flight can always be settled;
  history that nobody recorded counts as consumed; claims end.
* **Workflow automation**: one active run per workflow; a stopped run dispatches
  nothing more; an effect is performed at most once per operation; an approval is
  consumed once; usage reaches the ledger; a run ends in one terminal state.
* **Monetary ledger**: the totals equal the sum over effects and never exceed the
  run's limit by more than a proven overrun, which blocks the run.
* **Schedules**: a slot launches at most one run and is consumed exactly once.
* **Session deletion**: after the fences close nothing is added; everything is
  erased although workers die.
* **Memory**: what a finished forget covers never comes back; a deleted document is
  not remembered again; automatic writes stop with the preference.
* **Library**: only a `ready` document contributes to search; nothing of a deleted
  document comes back.

## 2. Plan

Done, in the order in which they were written:

| Modules | Part | Abstract promise |
| --- | --- | --- |
| `HardQuota`, `MCHardQuota`, `HardQuotaProofs`, `HardQuotaCaps`, `HardQuotaFences` | admission of one owner | `SendLimit` |
| `WorkflowMoney`, `WorkflowRun`, `MCWorkflowRun`, `WorkflowRunProofs`, `WorkflowRunSafety` | one run, from admission to the release of its place, and its account | `RunPromise` |
| `WorkflowSchedule`, `MCWorkflowSchedule`, `WorkflowScheduleProofs` | one schedule and the place of its workflow | |
| `SessionDeletion`, `MCSessionDeletion`, `SessionDeletionProofs` | one conversation | |
| `MemoryForget`, `MCMemoryForget`, `MemoryForgetProofs` | the memories of one user | |

`WorkflowRun` composes the run with `WorkflowMoney`, whose operators it applies inside its
own conditional writes.  `WorkflowRun` and `WorkflowSchedule` meet in the owner document: a
run is one handle there, so `WorkflowSchedule` keeps of a run only its handle, which
`WorkflowRun` shows to be held until nothing is unresolved.  A claim of `HardQuota` is, for a
run, the step `Send`: whatever `_quota_dispatch` refuses is an `Abandon`.

Next: `LibraryIngest` (enrichment against delete, reindex and the recovery sweep) and
`QuotaMeter` (the historical scope: token axes, the `unknown` phase, another epoch after
recreation).

## 3. The hard quota model

### Modules

| Module | What it is |
| --- | --- |
| `HardQuota` | the system: one owner's document, the tasks that claim from it, the operator, faults, the environment; its properties |
| `SendLimit` | what the owner is promised, with no document in it |
| `MCHardQuota` | small instances for TLC |
| `HardQuotaProofs` | type correctness, a readable document, spent identities, one send per identity |
| `HardQuotaCaps` | the rolling caps, and that `HardQuota` implements `SendLimit` |
| `HardQuotaFences` | fences that only advance, unrecorded history, the size of the document |

### State and actions against the code

A *task* is one execution of `_quota_dispatch` (`dispatch.py:174`) on some replica.
Its `pc` follows `claim` (`dispatch.py:116`) and the context manager:
`start` → `reserve` → `recheck` → `dispatch` (or `release`) → `authorize` → `settle`
→ `done` (or `withdrawn`).

| Code | Model |
| --- | --- |
| first policy read, store read that dates the identity | `Begin`, `RefuseBegin` |
| `_change`: read, validate, reconcile, compute | `Snapshot`, `Refuse` |
| `_change`: replace succeeded | `Commit` (the whole change: expiry and pruning of every row, then the operation) |
| `_change`: 412, next of `MAX_CAS_ATTEMPTS` | `LostRace` |
| second policy read, `release` or `dispatch` | `Recheck` |
| the final authorisation passes, the body sends / it raises | `Send`, `RefuseSend` |
| cancelled await, store error, end of the process | `Stop` |
| an ambiguous replace that lands later | `Deliver` |
| a caller repeats a settlement that raised | `RetrySettle` |
| `operator.py` bootstrap; plan, verify, apply, fail | `Bootstrap`, `PlanResolution`, `ReadHolds`, `WriteHolds`, `AbandonAttempt` |
| `entitlements` `set` / `clear` | `ChangePolicy` |
| an older revision that records nothing | `LegacySend` (external) |

`doc.rows` is `QuotaState.entries`; `Absent` is a key the document does not hold.
`Reconciled` is `_reconcile`, `WithinLimits` is `_check_limits`, `TransitionsFit` is
`ensure_transition_capacity`, `Valid` is `validate_entries`.

How data is abstracted:

* An ETag is membership in `current`, the set of writers whose snapshot is still the
  stored document: a commit empties it.  So a snapshot need not be stored: while a
  writer is in `current` its snapshot *is* the document, and the change can be
  recomputed at the commit; once it is out, only the 412 remains.
* A snapshot's `now` is any instant within `Lag` of the store's clock (`StoreNow`):
  a response `Date` has whole seconds and another request may have been answered
  since.
* A payload is what the digest tells apart; the frozen copy in `_quota_dispatch` makes
  it a constant of the task.
* A charge is 1 or 0: under the scope only the request and compute counters are
  metered, and both are fixed at dispatch.
* Bytes are `RowBytes` per phase and `FullRowBytes` for the envelope; the assumption
  that a row never outgrows its envelope is the comment at `models.py:275`.  The size of a
  document is the cardinality of a set with one element per byte, which a proof can
  reason about where it cannot about a recursive sum.
* The task's identity is a constant, its date is set by the first `Begin`.  Two tasks
  share one when `admission_scope(root=, issued_at=)` is entered again with the same
  arguments (`dispatch.py:62`), as the lost-acknowledgement test does.
* `state_document` before a replace has no guard in `Write`: `DocumentStaysReadable` and
  `DocumentFits` say that it never refuses, so the guard would only hide a fault.
* `RetrySettle` forgets an ambiguous write of the settlement that is still pending.  One that
  lands after the retry began is as if it had landed before it, save for one attempt the
  retry then loses to it.
* `HoldersGone` is the operator's evidence that the replicas of the planned holds have
  ended (docs/hard-quota-admission.md:621).  Nothing in the code checks it; without
  it the caps do not hold, since a live task could send after its hold was resolved.
* The policy is compared by value.  The code also compares `updatedAt`, and so refuses
  in more cases.

### Properties

* `CapsHold`, `CapsHoldAsAdmitted`: over *sends*, not over rows.  A settlement may be
  dated up to `Lag` before the send it covers, so windows are promised up to `Lag`.
* `KeepsPromise`: the refinement of `SendLimit`.
* `AtMostOneSend`, `SpentStaysSpent`, `DocumentStaysReadable`, `DocumentFits`,
  `FenceCoversLegacy`, `FencesAdvance`, `ClaimsSettle`, `TasksEnd`.

### Runs

All runs are `MCHardQuota` with two tasks unless said otherwise, two attempts per
change, and a clock that stops at `MaxClock`, which is why deadlock is not checked:
tasks end and time runs out.  Spans keep the order of the real ones
(60 < 120 < 300 < 86400 seconds) where the question depends on it.

| Run | Question | Bounds | Result |
| --- | --- | --- | --- |
| `quota_caps` | do the rolling caps and the promise hold? is unrecorded history covered? | one request per window of 2, lag 1, clock to 6: a row is admitted, sent, settled, counted, aged and pruned, and the window rolls twice; cutover at 1, creation and sends of an older revision before or after it | holds, 2.8 million states |
| `quota_replay` | can an identity be claimed twice? | both tasks share it; clock to 5 reaches the replay floor, pruning, and a hold resolution; all states well typed | holds, 2.3 million |
| `quota_bytes` | can work in flight outgrow the document? | 5 bytes against two envelopes of 3; any of four policies at any time; clock to 3 | holds, 1.8 million |
| `quota_calm` | do claims end? which policy covers a window when it changes meanwhile? | four attempts against at most three competing replaces; policies change between any two steps; compute payloads, a day of 1 against a minute of 0 | holds, 0.3 million |
| `quota_contention` | and if contention exceeds the attempts? | two attempts | violated, see below |

Two tasks are enough for the safety questions: a violation of a cap of one needs two
sends, a second send of an identity needs two tasks.  The theorems below remove
the bounds for the properties they cover.

**Fairness.** `CalmSpec` asks weak fairness of each task's own `Step` and has no
`Fault`.  It stands for an event loop that keeps running the coroutine of a live
request and a store that answers.  The code justifies no more: with faults, a hold
may last for ever, which is why the operator's tool exists.  `Spec` has no fairness.

### Finding

`docs/hard-quota-admission.md:606` lists the causes of a hold under the scope: a crash, a
scale-in or deployment kill, a lost settlement acknowledgement or a store outage.
`quota_contention` shows another: a settlement that loses `MAX_CAS_ATTEMPTS` (16)
replaces to other writers of the same owner raises out of the `finally` clause
(`service.py:76`, `dispatch.py:243`), and the row stays dispatched although no replica
and no request to the store failed.  A response `Date` behind `observedAt`
(`service.py:83`) has the same effect.

## 4. The workflow run model

### Modules

| Module | What it is |
| --- | --- |
| `WorkflowMoney` | the account of a capped run and the reservation of one request: operators only |
| `WorkflowRun` | one run: handle and effects in the owner document, checkpoint, executions, tabs, host; its properties |
| `RunPromise` | what the owner is promised: operations in order, each sent once, nothing claimed after a stop, the place kept while something is unresolved |
| `MCWorkflowRun` | small instances for TLC |
| `WorkflowRunProofs`, `WorkflowRunSafety` | type correctness; the safety invariants |

### State and actions against the code

A run writes two documents, which no transaction joins.  The owner document holds its
`handle` (`RunHandle`), per operation the state of its effect (`logical`) and of its
request (`dispatch`), and its `account`; each of its changes is one action on the stored
values, since `mutate_owner` (`automation_store.py:104`) recomputes the change on what it
reads and keeps nothing in between.  The `checkpoint` is replaced only by an actor whose
copy is the stored one: `fresh` is the set of those actors, as `current` is in `HardQuota`.

An *execution* (`Workers`) is one delivery of the advance activity.  Its `pc` follows
`_advance` and `RunController` through one operation:
`checked` → `begin` → `reserve` → `recheck` → `claim` → `before` → `hold` → `authorize` →
`send` → `answer` → `flush`, `record`, `mark` → `conclude` → `keep` → `raise`, then the next
operation, or `reload` and `finish`.

| Code | Model |
| --- | --- |
| `start`: claim of the handle; checkpoint; the host's answer | `Admit`, `CreateCheckpoint`, `Launch`, `LaunchUnknown`, `LaunchRejected` |
| `_advance` from its read to its lease | `AdvanceOver`, `AdvanceLate`, `AdvanceExpired`, `AdvanceReady`, `PolicyDenied`, `SignInNeeded`, `ContextRevoked`, `Acquire` |
| `RunController.hold`, `begin` | `Pause`, `Begin`, `Reserve`, `SaveClaim`, `Claim` |
| `before_dispatch`, `authorize_dispatch`, the send, `after_dispatch` | `Before`, `Hold`, `Refuse`, `SaveRefused`, `Authorize`, `Send`, `Answer`, `Abandon` |
| a local tool | `RunTool` |
| `flush_usage` | `Snapshot`, `Record`, `Mark`, `Delivered` |
| `RunController.complete` | `ConcludeOperation`, `SaveResult`, `RaiseFloor` |
| the end of `_advance` over the run read again | `Close` |
| `stop`, `set_status`, `finish_handle` | `Fence`, `SetStatus`, `FinishHandle` |
| `cancel`, `review`, `decide` | `Cancel`, `ReadDraft`, `Review`, `Approve`, `Refusal` |
| a conversation is cleared | `ClearConversation` |
| a store or policy call fails, three lost races, the step's deadline | `Interrupted` |
| the process dies; 30 seconds without a write; run or draft deadline | `Crash`, `LeaseExpires`, `DeadlinePasses`, `DraftExpires` |

How data is abstracted:

* An operation is a number: model calls and tool calls in the order of the turn, the last
  one a model call.  A turn of several steps is the capped run, where each call ends its
  step (`EndsStep`).
* `check_current` and the conditional save after it are one step (`CheckAndSave`).  A stop
  between them is seen by neither, and any other change of the checkpoint makes both fail.
* `Admit` also serves a start that is repeated: it finds its own handle, whatever the host
  answered the first time, and goes on to the checkpoint.
* An operation enters one request of its own.  The code insists on that for capped runs
  (`run_controller.py:401-405`); an uncapped one may dispatch more under the same claim, and
  those nested dispatches are left out.
* `Interrupted` is a write of the owner document that lost three races, a policy check that
  fails, or the step's deadline.  A call that fails in a flush, a record, a mark, a fence, a
  status or a finish ends the activity where it is: the model has that as `Crash` only.
* Money is whole units: a request reserves `Bound` and turns out to have cost one of
  `Actuals`, or nothing that can be proved (`Unmetered`).  Digests and the token axis are
  left out; one run has one account here.  The sum of some charges is the cardinality of
  a set with one element per unit (`Charges`).
* The policy checks of `_advance` and of the approval tabs answer anything.

### Properties

* `AtMostOnce` says that no operation's own request is sent twice, whatever executions do.
  `AtMostOnce`, `NoUnapprovedCall`, `InFlightHoldsRun`: over what left the process
  (`egress`), not over what the documents say.
* `EndStands`, `LeaseStands`: what a late stop, result or execution may not overwrite.
* `BooksBalance`, `BilledBeforeReleased`: the assertions `validate_money_balances` and
  `coherent_totals` make on every read, and the outbox against the release of the place.
* `ReleasedWhenQuiet`, `RunEnds`: a run ends and gives its place back.
* `PromiseKept`: the refinement of `RunPromise`; `Stage` is the mapping.

### Runs

| Run | Question | Bounds | Result |
| --- | --- | --- | --- |
| `run_life` | can overlapping executions, a cancel, an approval, a clearing or a death break the run? | two executions, one crash, one tab with two requests, a tool, a gated tool and an answer | holds, 2.3 million states |
| `run_money` | do the books balance and does the run end although processes die? | one execution, two crashes, capped (limit 5, reservations of 2 that cost 1, 2, 3 or an unknown amount, a largest total of 5) and uncapped, one request of the tab | holds, 0.56 million |
| `run_overlap` | does a run that is over give its place back? | as `run_life` | violated, see below |

Three operations are the fewest with a tool, a gated tool and an answer.  A limit of 5
under reservations of 2 lets two requests be held together, refuses a third, and is exceeded
when an actual of 3 follows, which blocks the account; where it would take
the settled total above the largest one, that overflows (`accounting_overflow`, which also
blocks).  Two
executions are needed for a late one to meet its successor.  The crash of `run_life` strikes
either of them or the tab, also between the handle and the checkpoint, which the tab's second
request then completes or cancels; that the run ends after two deaths is asked of one
execution, since a death and a takeover are already two deliveries.

**Fairness.** `LiveSpec` asks weak fairness of the steps of each execution (the host
delivers an activity again until one returns), of a request that was taken up (it is
answered, or its process crashes), and of the deadline.  No fairness makes a tab ask for
anything, an approval arrive or a lease be renewed: without them the deadline ends the run.

### Finding

`docs/workflow-automation.md:134`: "An active or unresolved run of that workflow blocks
another occurrence".  When the policy service denies a run, `_advance`
(`automation_service.py:646`) writes `policy_revoked` and reports a terminal result: the
orchestration ends and nobody calls `finish_handle`.  `run_overlap` shows the run over,
nothing unresolved, and the handle still active, so the workflow stays blocked until the
owner cancels the ended run.

## 5. The schedule model

`WorkflowSchedule` is one saved schedule (`workflows/schedule_service.py`), the scheduled half
of `WorkflowAutomationService.start`, and the place of its workflow in the owner document.
Schedule and owner document change in one conditional batch (`automation_store.py:149`), so
one set `fresh` covers both.

| Code | Model |
| --- | --- |
| the controller's activity is delivered | `Deliver` |
| `tick`: stopped, not due, switched off | `LookInVain`, `LookAndPause` |
| `tick`: a claimed occurrence; a due one; missed ones | `Resume`, `LookAtDue`, `ClaimSlot`, `RecordMissed` |
| `start` for the occurrence | `TryStart`, `StartRefused`, `AdmitRun`, `Launch`, `LaunchUnknown`, `LaunchRejected` |
| `tick`: the outcome consumes the slot | `ReadOutcome`, `RecordOutcome` |
| `pause` | `ReadPause`, `Pause` |
| `save`: the read of both documents; the batch | `ReadEdit`, `WriteEdit` |
| `ensure_started`: the host's answer; its record; `disable` | `StartController`, `Acknowledge`, `Disable` |
| `start` by hand; `finish_handle` | `StartByHand`, `RunEnds` |
| the worker dies; time | `Crash`, `ClockTicks` |

Wall-clock rules are one slot every `Period`: the service needs of them only that slots are
ordered and that the first one lies after now.  A bounded loop counts its `tries`; the error
after the last one fails the activity, and the host delivers it again.  A scheduled
admission that loses all its attempts pauses the schedule (`schedule_service.py:251`): that is the
code's behaviour and the model has it.

* An edit reads both documents, and the `Date` of that answer places the first slot of the
  new generation (`schedule_service.py:63`, `:94`); ticks go on until its batch lands or is
  lost.  `drafts` holds the time of the read while the copies are still the stored ones.  Of
  several edits under way the last read stands for all, as the write of one makes the copies of
  the others stale; a save that gives up has changed nothing.
* The host may be asked several times to start a generation's controller, by the save and by its
  repeats, and `answers` are those that wait to be recorded.  An answer to an older generation is
  recorded nowhere (`schedule_service.py:125`), so an edit empties the set.
* `next_slot` keeps the latest `MAX_SCHEDULE_HISTORY` entries (20; `schedule_service.py:183`, and
  docs/workflow-automation.md:142), while a rule may have 366 occurrences: `MaxHistory`.

The clock is the account's, and its `Date` headers are taken never to go back from one read to a
later one; the hard quota model has the skew.

* `SlotRunsOnce`: across generations, whose keys differ; `NoOverlap`; `RevokedAdmitsNothing`:
  against the claim a tick made before the edit; `ClaimsResolve`: a claimed occurrence gets its
  outcome.
* `HistoryComplete` is about the stored history: the last `MaxHistory` outcomes, or all while
  there are fewer, ending right before the next slot; no slot between them is skipped, doubled or
  called launched without a run.  What was truncated before is out of its reach, but was
  covered when it was recorded.

| Run | Question | Bounds | Result |
| --- | --- | --- | --- |
| `schedule_ticks` | two overlapping ticks against the owner | two ticks, period 2, grace 1, two occurrences of which the history keeps one, two generations, two tries, clock to 4, no fault | holds, 3.6 million states |
| `schedule_claims` | is a claim resolved although its tick dies? | the same with one tick and one fault | holds, 0.3 million |

Clock 4 is the second slot: one is launched, missed or denied while the other becomes due, and
an edit at a slot meets the old generation's claim on it, or is overtaken by it between its
read and its batch.  **Fairness**: the host keeps
delivering the ticks of a live controller and time passes; a lost acknowledgement or a crash
may happen at any step, within the bound.

## 6. The session deletion model

`SessionDeletion` is one version-1 conversation from its reservation to the verified tombstone:
`sessions/cosmos_deletion.py`, `deletion_service.py`, the fenced writes of `cosmos_repo.py`
and the upload route.

| Code | Model |
| --- | --- |
| `_create_fenced_session` | `Reserve`, `CreateFence`, `Publish` |
| an ordinary write: parent, fence, batch | `BeginWrite`, `ReadFence`, `WriteMessage`, `RemoveDocument`, `PurgeOriginal`, `LostRace` |
| `upload_document` | `BeginText`, `BeginUpload`, `ReadTicketFence`, `CreateTicket`, `LostTicketRace`, `StartPut`, `PutReturns`, `PutFails`, `Settle`, `BeginAdd`, `AddDocument` |
| the Blob store performs a PUT, perhaps long after | `PutLands` |
| `begin_deletion` | `BeginDeletion` |
| `reconcile`: lease, fences, checkpoints, pages, verdict, release | `Claim`, `CloseFence`, `Checkpoint`, `QueryRows`, `EraseRow`, `QueryUnsettled`, `ListOriginals`, `EraseOriginal`, `QuerySettled`, `ForgetTicket`, `Release`, `Report` |
| a process dies, a call fails, a checkpoint is not acknowledged, the store is another one | `Crash`, `CallFails`, `CheckpointUnknown`, `OtherStore` |

A read of one document followed by its conditional replace, repeated after a lost race and
with nothing kept in between, is one step: another interleaving repeats it.  A fence that is
read for a later batch is not: `fresh` says whose copy is still the stored one, `holder`
whose copy of the tombstone is.  How often a loop tries is nondeterministic (`LostRace` reads
again or gives up), which allows more than `CAS_ATTEMPTS` does.

* `EvidenceHolds`: what the tombstone calls verified is so.  `TicketsCover`: no original is
  stored or on its way without a ticket that holds the cleanup up.  `VerifiedIsFinal`: no
  pass that lost its lease writes over a verdict.  `NothingReturns`: nothing is added behind
  a closed fence and no deleted conversation is published.  `CleanupCompletes`.

`deletion` checks them with one writer, one uploader, the creating request, two passes,
pages of one item and one fault: 0.4 million states.  One item per page makes every list
longer than a page; two passes are needed for a lease to move while its first holder works.
**Fairness**: the owner keeps asking for passes; a request taken up is served; time passes.
That somebody asks again is an assumption about people: the client asks for six passes at
most, and stops earlier at a recorded retry reason or a pass without progress
(docs/runbooks/conversation-deletion.md:399-410); after that the owner has to choose **Finish cleanup**.
`CleanupCompletes` says that asking often enough suffices.  A lease (60 seconds) outlives a pass (20
seconds, and 5 for its last report; `deletion_service.py:21`, `:119`), so it runs out under a working pass only by a stall,
which counts as a fault.

## 7. The memory model

`MemoryForget` is the partition of one user in the memory container (`memory/cosmos_store.py`,
driven by `cosmos_service.py`) and the routes of the library that save, forget and delete a
document.  Every write is one batch with an If-Match replace of the state document, which
holds the epoch, the pending cutoffs and the preference; only the purge of a forget deletes by
the ETags of the records, and leaves the state alone.

| Code | Model |
| --- | --- |
| `create_memory`, `update_memory`, `delete_memory`, what `remember` applies | `PlanCreate`, `PlanChange`, `Commit`, `RefuseCommit`, `Recapture` |
| `replace_document` | `StartSave`, `ReadSource`, `ReplaceSource`, `ReplaceLost` |
| `forget`: cutoff, pages, verification, the cutoff taken back | `StartForget`, `BeginForget`, `ListPage`, `DeletePage`, `PageLost`, `Verify`, `ClearCutoff` |
| the library's `delete_document` around it | `StartDelete`, `MarkDeleted`, `RemoveManifest` |
| the owner sets the preference | `SetPreference` |
| a crash, a failed call, a cancelled request | `Stop` |

* A capture of the state followed by its conditional replace, repeated after a lost race and
  with nothing kept in between, is one step.  A capture that a model call or an embedding
  follows is not: `fresh` is the set of requests whose captured state is still the stored one.
* A record is its own ETag: an update raises its version, and no identity is used twice.
* How often a loop tries is nondeterministic (`Again`): giving up is always possible, which
  allows more than the counted attempts do.
* One save stores one record; the batch of the code stores a bounded few under the same
  conditions.  `MaxMoves` bounds forgets and preference changes together, `MaxVersion` the
  updates of a memory; both stop the run, which is why deadlock is not checked.
* `basis` and `generation` of a record, and `finished`, are history: under which epoch and
  preference a write was begun, and what the successful forgets covered.  The `basis` of a save
  is the epoch when its gist was embedded (`StartSave`), which the code does not record.

`ForgottenForGood` is about what was stored before a forget, and about planned and retried
writes that land after it has reported success; `TombstonesHold` about a save that read the
marker before the deletion; `AutomaticStaysOff` about a preference turned off and on again
under an automatic write or deletion.

**A save is not fenced as the documentation says.**  docs/memory.md:210-214: "Every planned or
explicit write captures the state ETag and epoch before model or embedding work", and "A write
that started before forget loses the conditional state check and returns a conflict instead of
resurrecting old data".  Saving a document embeds first (`cosmos_service.py:425`), captures
afterwards (`cosmos_store.py:679`), and captures again after each lost race.  So a save that
began before a forget may land after its success: `StartSave`, then `StartForget`,
`BeginForget`, `ListPage`, `ReadSource`, `ReplaceSource`, `Verify`, `ClearCutoff`, and the memory
of the document is there under the new epoch.  `ForgottenForGood` therefore exempts what a
save has stored (`FromSave`) from its clause about plans; without the exemption `memory_forget`
is violated by a trace of this kind.  The deletion of a document is safe all the same: its
tombstone makes the late save fail (`TombstonesHold`).

`memory_forget` checks them with two requests, two memories, one document and pages of one
memory: 4.4 million states.  Two requests are a writer and the forget it races; two memories
make a purge longer than a page.  No conversation is in the instance: a session scope meets
`Applies` exactly as a document scope does, and the theorems have both.  No fairness is assumed:
nothing is promised about when a forget ends.  Type correctness is a theorem and not run.

Two behaviours are worth knowing; no property here speaks of either.  `_begin_forget` takes over a
pending cutoff of the same scope as it is (`cosmos_store.py:835`): a save of a document that
commits after that cutoff was recorded, while its forget is still pending, carries the newer
epoch, and a deletion of the document that takes over the pending cutoff does not purge it.
The memory stays recallable after its document is gone (docs/memory.md:230 reads stronger).
And `_clear_cutoff` removes the cutoff of its scope whichever forget recorded it.

## 8. Proofs

`tlapm` checks every proof below, for every value of the constants.  What is assumed of
them is stated in the modules and evaluated by TLC on each run.

### Hard quota

* `TasksAssumption`: finitely many tasks and identities; the operator is not a task.
* `PolicyAssumption`: `HighestCap` bounds every cap an administrator may set; a policy
  without a cap admits as many dispatches as there are identities.
* `TimesAssumption`: spans, leases and lag are natural numbers, and a minute is no
  longer than a day.  Nothing else relates them: the theorems do not need the lease to
  be shorter than a window, or `Replay` longer.
* `BytesAssumption`: a row never outgrows its envelope (only `RoomLasts` needs it).

| Theorem | States |
| --- | --- |
| `TypeCorrect` | `TypeOK` |
| `DocumentReadable` | `DocumentStaysReadable` |
| `SpentForGood` | `SpentStaysSpent` |
| `SentOnce` | `AtMostOneSend` |
| `CapsKept` | `CapsHold` |
| `PromiseKept` | `KeepsPromise`: `HardQuota` implements `SendLimit` |
| `FencesKept` | `FencesAdvance` |
| `LegacyCovered` | `FenceCoversLegacy` |
| `CapsFollowAdmissions` | `CapsHoldAsAdmitted`, where each task has an identity of its own |
| `RoomLasts` | `DocumentFits` |

**Readable document, spent identities** (`HardQuotaProofs`).  Neither property is inductive
alone.  `DocumentInv` adds:

* `SnapshotsCurrent`: a writer whose ETag still holds has a snapshot that is not older
  than the document's `observedAt`.  Without it a replace could take the floor and the
  dates of rows back; it is what the ETag and the check `now < observed_at`
  (`service.py:83`) give together.
* `PlanSound`: while the operator's ETag holds, its planned rows are the stored ones,
  still dispatched, and no younger than its "now".
* `NothingBefore`: nothing is issued or recorded before the document exists.

`ReconciledValid`, `ChangedValid` and `ReconciledSpent`, `ChangedSpent` are the lemmas on the
pure functions; `WriteKeeps` and `WriteHoldsKeeps` lift them to a replace, and
`DocumentStep` to every step.  `ClaimsSpent` then says that a task that won its claim has
spent its identity and won it alone: `ClaimIsFirst` shows that a dispatch commits only
on a row nobody had spent.

**Rolling caps** (`HardQuotaCaps`).  The argument has two halves, joined in `CapInv`:

1. `CountedWithinCaps`: the rows that count *now* are within the cap.  Only a
   reservation adds one, and it counts the rest on its own snapshot, at a "now" no later
   than the clock (`SnapshotsPast`), where no fewer rows count.
2. `SendsRecorded`: every send still in its window has such a row.  Its settlement is
   dated by a snapshot taken after the send, so at most `Lag` before it; the row is
   pruned only after the retention that its payload and phase call for, which is at
   least the window it is metered in; and a hold is resolved only once its holder is
   gone (`PlanHeld`), so nobody sends on a row that already ages.

`SpentRowWrite` is the key lemma: a replace does nothing to a spent row but prune it after
its retention or settle it for its own task.  Identities inject the sends into the
counted rows (`ClaimsCounted`), which bounds their number.  `PromiseKept` is the same
argument one step earlier, at the instant of a send.

**Fences** (`HardQuotaFences`).  `FenceInv`: a task past its reservation has windows that begin
after the cutover, or its identity is closed and its dispatch bound to be refused.  The
second case is real: `reserve` accepts a row that is already dispatched, settled or
released without checking the caps (`service.py:147`), and only the later `dispatch`
refuses it.

**Caps that change** (end of `HardQuotaCaps`).  When an administrator lowers a cap, the rows that
count may exceed it.  `AdmissionsCover` is said of every set of tasks whose rows count: some
task of the set was admitted under a policy whose own cap covers the whole set, the one
admitted last.  Quantifying over the subsets replaces the order of admissions, and makes the
statement survive rows that age out.

**Room** (end of `HardQuotaFences`).  `TransitionsFit` of the stored document is inductive by
itself: every row at its envelope, if it is still outstanding, fits.  Only a reservation adds an
outstanding row, and it checks; every other change takes rows from the document or moves an
outstanding row on, so the set of bytes at full growth shrinks (`FitsStill`), and today's bytes
are a subset of it (`GrownFits`).

### The workflow run

`RunAssumption` and `MoneyAssumption` relate the constants (operations, tools and gated
calls; natural amounts); nothing bounds executions, tabs, operations or crashes.

| Theorem | States |
| --- | --- |
| `WorkflowRunProofs!TypeCorrect` | `TypeOK` |
| `SentOnce` | `AtMostOnce` |
| `UnresolvedHolds` | `InFlightHoldsRun` |
| `BilledFirst` | `BilledBeforeReleased` |
| `EndsForOneReason` | `EndStands` |
| `LeaseIsOwn` | `LeaseStands` |
| `GrantedFirst` | `NoUnapprovedCall` |
| `SpendWithinCap` | `CapHolds`: settled and held money of an account that is not blocked stay within the limit |
| `BooksKept` | `BooksBalance` |
| `PlaceReleased` | `ReleasedWhenQuiet` |
| `PromiseImplemented` | `PromiseKept`: `WorkflowRun` implements `RunPromise` |

`WorkflowRunProofs` proves `TypeInv`: the types, what each `pc` says of an actor's own
variables, and `CopiesOK`, what an execution knows of the checkpoint while its copy is the
stored one.  A run that is not over has a next operation only because of that
(`NextOK`).  `WorkflowRunSafety` has one invariant per question:

* `OnceInv`: two executions never work on one operation past its claim, because the effect
  then says `dispatched`; the sent operation stays forbidden after its effect is pruned,
  because the floor rose before.  Lemma `Courses` is the frame: a step moves one actor at
  most, and only along the course of its operation.
* `HoldInv` with `SendInv`: whoever may send has its request in the owner document, and a
  document with an unresolved or undelivered effect keeps the run active.
* `LedgerInv`: a request is marked only with its row, and pruned only when marked.
* `CopyInv`: an execution with the stored copy works in a run that is not over, under its own
  lease or none.  `EndStands` and `LeaseStands` follow step by step (`EndStep`, `LeaseStep`).
* `GrantInv`: past `begin`, a gated call is one the owner granted.
* `BookInv`: the money of a request follows its state (`MoneyFollows`) and the totals balance.  A
  reservation, a settlement and a pruning each change the effect of one operation, so each sum
  changes by that effect's share (`Rebooked`, `Recounted`), and the account is changed by as
  much.  `CoherentTotals` follows from the balance together with `CapHolds`.
* `OrderInv`: the operations before the checkpoint's next one, and before the one an execution
  works on, are resolved (below the floor, or complete), unless the run is over.  The
  invariants on single operations do not give this: an operation whose outcome is unknown is left
  behind too, and only the run's end (`outcome_unknown`) keeps a later one from being taken up.

* `ReleaseInv` adds four invariants to `OnceInv`, `HoldInv` and `CopyInv`.  `HeldInv`: a claimed
  operation stays `dispatched` until its own execution concludes it, and a request that is under way
  or not delivered belongs to an operation that is not resolved.  `StartedInv` orders the start
  (handle, checkpoint, host).  `EndedInv`: whoever heads for `finish_handle`, and a host that is
  done, mean a run that is over and, for the host, a handle that is fenced.  `OwedInv` is the
  point: an ended run without a crash, whose effects are all resolved and which still counts as
  active, has an execution on its way to `finish_handle` (`Owes`).  An execution that resolves the
  last effect after another one ended the run is such an execution from that step on
  (`ResolvedStep`), and each of its steps keeps it so, since every check it meets fails in a run that
  is over (`OwesStep`).

The refinement rests on `OrderInv` with `OnceInv`, `SendInv`, `HoldInv` and `LedgerInv`.
`StageOK` restates the mapping as one case per stage.  Then each writer of the owner document is
a step of the promise that moves one operation (`OnePromised`) or shows it nothing
(`StageStays`): a claim is `Claim`, an entered request `Permit`, the request that leaves
`Send`, an outcome or the floor that passes it `Resolve`.  A fence is `Stop`, and the end of a
run is `Release`, or a `Stop` when something is still unresolved.

### Schedules

`ScheduleAssumption`: the grace is shorter than the period; everything else is arbitrary.

| Theorem | States |
| --- | --- |
| `WorkflowScheduleProofs!TypeCorrect` | `TypeOK` |
| `SlotOnce` | `SlotRunsOnce` |
| `OneActive` | `NoOverlap` |
| `HistoryKeptWhole` | `HistoryComplete`, for any `MaxHistory` |
| `RevokedStaysOut` | `RevokedAdmitsNothing` |

The invariant is `TypeInv`, `ScheduleInv` (a claimed slot is the next one, and due), `HandInv`
(what a tick holds in hand is an occurrence, and one it calls launched has a run), `CopyInv`
(`Knows`: while its copies are the stored ones, what a tick is about to write is still
right), `DraftInv` (every run was due when a pending edit read the documents), `RunInv`,
`PlaceInv` and `HistoryInv`.  `RunInv` is the heart of `SlotOnce`: every run is
due, and a run of an earlier generation has a slot before any that is still to come, since
`first_occurrence` starts strictly after the time of the edit's read and, while the edit's copies
hold, no later slot has run.

### Session deletion

`DeletionAssumption`: the actors are distinct, the requests finitely many (each is a call
served once), a page holds at least one item.

| Theorem | States |
| --- | --- |
| `SessionDeletionProofs!TypeCorrect` | `TypeOK` |
| `EvidenceTrue` | `EvidenceHolds` |
| `UploadsCovered` | `TicketsCover` |
| `VerdictStands` | `VerifiedIsFinal` |
| `StaysGone` | `NothingReturns` |

The invariant is `TypeInv`, `StartInv`, `FenceInv` (only an open fence can be written over; a
pass beyond its first steps has closed both), `CoverInv` (a ticket before its PUT, on a
parent that names the store), `EvidenceInv` and `FinalInv`.  `EvidenceInv` is about every status
some pass has in hand, not only the stored one: a pass without its lease still
holds true evidence, which is why a late `Report` cannot lie.  Lemma `Kept` carries it: no step
of anybody takes back that a partition behind its closed fence is empty, that no ticket is
unsettled, or that no original is stored.

### Memory

`MemoryAssumption`: the scopes are distinct, and the bounds are natural numbers.  Requests,
memories, conversations and documents are arbitrary sets, so is the page size.

| Theorem | States |
| --- | --- |
| `MemoryForgetProofs!TypeCorrect` | `TypeOK` |
| `Forgotten` | `ForgottenForGood` |
| `TombstonesKept` | `TombstonesHold` |
| `AutomaticWritesConsent` | `AutomaticStaysOff` |

The invariant has three parts beside the types.  `Errand`: what a request carries at each of its
steps.  `InHand`: while its captured state is the stored one, a request knows the epoch and the
marker; a forget that has verified its purge leaves nothing its cutoff applies to.  `StoreInv`: no
cutoff lies ahead of the epoch; a memory bears the epoch its writer planned under, or a save
stored it (`Bears`); and a finished cutoff applies to none.  The last conjunct is what has to
survive every later write: a write stores under the current epoch, and no finished cutoff lies
above it.  That the epoch it stores is also the one it was planned under (`RefuseCommit`,
`Recapture` and the emptied `fresh`) makes the second half of `ForgottenForGood` a statement about
plans and not about labels; a save has no such step, and the theorem says nothing about when it
was begun.

## 9. Only model-checked

* `ClaimsSettle`, `TasksEnd`, `RunEnds`, `ClaimsResolve`, `CleanupCompletes`: liveness under
  fairness is out of the prover's reach.

## 10. Not modelled

Hard quota:

* The historical scope (`scope=None`): token and dollar axes, the `unknown` phase, a
  bound violation that blocks the document.  `blocked` is only an initial value.
* `reconcile` as an operation of its own (`service.py:293`): nothing under `src/` calls it
  outside tests; its work is part of every other change.
* Deleting a document and creating it again with another epoch.
* The layout checks, the rollout record's parsing, the operator's reports: they only
  refuse.  The bound `MAX_RESOLVE_ATTEMPTS` is dropped: the model's operator may
  retry longer, which allows more behaviours.
* A replace of the operator that lands after its run was abandoned.
* A crash before a task has read anything: it changes nothing.

Workflow runs and schedules:

* `compact()`, which retires handles after thirty days, and the limits on active runs and
  handles of an owner: one run is modelled from its admission to its release.
* The owner epoch.
* A revoked consent (`automation_service.py:610`), the switch that turns the feature off
  (`:616`) and a restricted request (`:560`): they stop a run as a cancel does.
* What memory captures from a run, wake hints, the digests that bind money records together,
  the token axis, several accounts per run.
* An execution of a cleared conversation that stops the run at the deadline finds no checkpoint
  and leaves without `finish_handle`: the model has it, and `ReleasedWhenQuiet` leaves it out.
* Remote tools: in the code they pass `before_dispatch` and `after_dispatch` with usage rows of
  their own; here a tool runs without a request.  Dispatches nested in an uncapped operation.
* Failures of single store calls outside `Interrupted`, other than as a crash of their actor.
* The schedule's wall-clock arithmetic in its time zone; skew between the `Date` headers of
  successive reads; a request to start a controller that reaches the host only after a later
  edit, where that controller's first tick finds another generation and ends.

Session deletion:

* The deletion of a conversation without fences (no version): it is one unconditional sweep.
* The clocks of the replicas: a lease is written and judged by `now_utc()` of two processes
  (`cosmos_deletion.py:439-446`), here it runs out at one time for all.
* The `phase` and `pendingUploads` fields that the client is shown, and the lists of
  conversations that still wait for their publication.

Memory:

* Recall and its ranking, the planner that proposes writes, idempotency receipts, migration, and
  the other backends: `ForgottenForGood` is about what is stored, which recall only reads.
* A save without a document identity (`cosmos_service.py:449`): it captures after embedding as
  well, and stores its items one by one.
* The bound on the pages of one purge: the model's forget may go on longer, or stop anywhere.

The components marked `not_modelled` in `PROJECT.json`, each with its reason.
