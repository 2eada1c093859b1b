-------------------------- MODULE WorkflowSchedule --------------------------
(* One saved schedule of a workflow (workflows/schedule_service.py) and the   *)
(* scheduled half of WorkflowAutomationService.start: the schedule document   *)
(* and the owner document change together in one conditional batch; a tick of *)
(* the durable controller claims the due occurrence, admits its run and        *)
(* records the outcome in three such batches, and may be delivered twice.     *)
(* A run is only its place in the owner document here (WorkflowRun has the    *)
(* rest); the run a user starts by hand stands for every other run of the     *)
(* same workflow.  Wall-clock rules are abstracted to one slot every Period.  *)
EXTENDS Integers, Sequences, FiniteSets

CONSTANTS
    Workers,         \* executions of the tick activity that may overlap
    Period,          \* distance of two slots
    Grace,           \* MISSED_GRACE_SECONDS
    MaxOccurrences,  \* maxOccurrences of the rule
    MaxHistory,      \* MAX_SCHEDULE_HISTORY: 20 in the code
    MaxTries,        \* attempts of every read-and-replace loop: 3 in the code
    MaxGeneration,   \* bound: times the schedule is saved
    MaxClock,        \* bound on the clock
    MaxFaults        \* bound: ticks that die, starts that are not acknowledged

ASSUME ScheduleAssumption ==
    /\ Period \in Nat \ {0}
    /\ Grace \in 0..(Period - 1)
    /\ MaxOccurrences \in Nat \ {0}
    /\ MaxHistory \in Nat \ {0}
    /\ MaxTries \in Nat \ {0}
    /\ MaxGeneration \in Nat \ {0}
    /\ MaxClock \in Nat
    /\ MaxFaults \in Nat

VARIABLES
    schedule,     \* WorkflowSchedule
    runs,         \* the handle of each occurrence's run
    manual,       \* the handle of the run started by hand
    fresh,        \* ticks whose copies of both documents are the stored ones
    drafts,       \* the time of an edit's read, while its copies are the stored ones
    controllers,  \* generations whose durable controller still ticks
    pc, gen, key, outcome, tries,    \* one execution of tick each
    answers,      \* the host's to starts of the generation's controller, not recorded yet
    clock, faults

docs == <<schedule, runs, manual, fresh, drafts>>
tick == <<pc, gen, key, outcome, tries>>
vars == <<docs, controllers, tick, answers, clock, faults>>

Generations == 1..MaxGeneration
Slots == 1..(MaxClock \div Period + MaxOccurrences + 1)
Occurrences == Generations \X Slots
NoSlot == 0

Due(slot) == Period * slot
Missed(slot, now) == now > Due(slot) + Grace

\* first_occurrence: the first slot after now.
FirstSlot(now) == now \div Period + 1

\* What is kept of a history: its latest entries.
Recent(entries) ==
    SubSeq(entries, 1 + (IF Len(entries) > MaxHistory THEN Len(entries) - MaxHistory ELSE 0),
           Len(entries))

\* One entry for each of the given outcomes, from slot first on.
Consumed(first, results) ==
    [i \in 1..Len(results) |-> [slot |-> first + i - 1, outcome |-> results[i]]]

\* Mutant of Consume: the claim outlives the occurrence it was for.
ConsumeKeepsClaim(value, first, results) ==
    LET count == Len(results)
        more == value.consumed + count < MaxOccurrences
    IN  [value EXCEPT
            !.consumed = @ + count,
            !.next = IF more THEN first + count ELSE NoSlot,
            !.history = Recent(@ \o Consumed(first, results)),
            !.status = IF more THEN @ ELSE "completed",
            !.enabled = @ /\ more]

\* next_slot, once for each of the given outcomes, from slot first on.
Consume(value, first, results) ==
    LET count == Len(results)
        more == value.consumed + count < MaxOccurrences
    IN  [value EXCEPT
            !.consumed = @ + count,
            !.next = IF more THEN first + count ELSE NoSlot,
            !.pending = NoSlot,
            !.history = Recent(@ \o Consumed(first, results)),
            !.status = IF more THEN @ ELSE "completed",
            !.enabled = @ /\ more]

\* The slots past their grace at the time now are missed without backfill.
MissedSlots(value, now) ==
    {slot \in Slots: /\ slot \in value.next..(value.next + MaxOccurrences - value.consumed - 1)
                     /\ Missed(slot, now)}

\* The document of a saved schedule, and, for the properties, its first slot.
Saved(generation, now) ==
    [generation |-> generation, enabled |-> TRUE, status |-> "pending", next |-> FirstSlot(now),
     pending |-> NoSlot, consumed |-> 0, history |-> <<>>, first |-> FirstSlot(now)]

Init ==
    /\ schedule = Saved(1, 0)
    /\ runs = [o \in Occurrences |-> "none"]
    /\ manual = "none"
    /\ fresh = {}
    /\ drafts = {}
    /\ controllers = {}
    /\ pc = [w \in Workers |-> "idle"]
    /\ gen = [w \in Workers |-> 0]
    /\ key = [w \in Workers |-> NoSlot]
    /\ outcome = [w \in Workers |-> "none"]
    /\ tries = [w \in Workers |-> 0]
    /\ answers = {}
    /\ clock = 0
    /\ faults = 0

-----------------------------------------------------------------------------
(* Helpers of one tick.                                                      *)

Go(w, to) == pc' = [pc EXCEPT ![w] = to]

Enter(w, to) == Go(w, to) /\ tries' = [tries EXCEPT ![w] = 0]

Leave(w) ==
    /\ Go(w, "idle")
    /\ gen' = [gen EXCEPT ![w] = 0]
    /\ key' = [key EXCEPT ![w] = NoSlot]
    /\ outcome' = [outcome EXCEPT ![w] = "none"]
    /\ tries' = [tries EXCEPT ![w] = 0]

\* pause is called next: what the tick had in hand is of no more use.
ToPause(w) ==
    /\ Go(w, "pausing")
    /\ key' = [key EXCEPT ![w] = NoSlot]
    /\ tries' = [tries EXCEPT ![w] = 0]
    /\ UNCHANGED <<gen, outcome>>

Read(w) == fresh' = fresh \cup {w} /\ UNCHANGED <<schedule, runs, manual, drafts>>
NoRead == UNCHANGED docs

\* Every writer of the schedule replaces the owner document with it, so that the
\* owner's ETag alone tells whether either changed since it was read.
Unchanged(w) == w \in fresh

\* write_schedule lost its batch: read again, as often as the loop allows; the
\* error after the last attempt fails the activity, which is delivered again.
Retry(w, again) ==
    IF tries[w] + 1 < MaxTries
    THEN /\ Go(w, again)
         /\ tries' = [tries EXCEPT ![w] = @ + 1]
         /\ key' = [key EXCEPT ![w] = IF again = "tick" THEN NoSlot ELSE @]
         /\ UNCHANGED <<gen, outcome>>
    ELSE Leave(w)

\* A terminal result ends the controller that asked.
EndController(w) == controllers' = controllers \ {gen[w]}

World == <<answers, clock, faults>>

-----------------------------------------------------------------------------
(* tick: the claim of the due occurrence, or the outcome of the missed ones. *)

Deliver(w, g) ==
    /\ pc[w] = "idle"
    /\ g \in controllers
    /\ gen' = [gen EXCEPT ![w] = g]
    /\ Enter(w, "tick")
    /\ UNCHANGED <<docs, controllers, key, outcome, World>>

Stopped(g) ==
    \/ schedule.generation # g
    \/ ~schedule.enabled
    \/ schedule.status \in {"paused", "completed", "disabled"}

\* The schedule is no longer this controller's, or nothing is due.
LookInVain(w) ==
    /\ pc[w] = "tick"
    /\ \/ Stopped(gen[w]) /\ EndController(w)
       \/ /\ ~Stopped(gen[w])
          /\ schedule.pending = NoSlot /\ clock < Due(schedule.next)
          /\ UNCHANGED controllers
    /\ Leave(w)
    /\ NoRead /\ UNCHANGED World

\* Scheduling was switched off, or the timezone's rules changed.
LookAndPause(w) ==
    /\ pc[w] = "tick"
    /\ ToPause(w)
    /\ NoRead /\ UNCHANGED <<controllers, World>>

\* Mutant of Resume: a claimed occurrence is left to the tick that claimed it.
ResumeElsewhere(w) ==
    /\ pc[w] = "tick"
    /\ ~Stopped(gen[w])
    /\ schedule.pending # NoSlot
    /\ Leave(w)
    /\ NoRead /\ UNCHANGED <<controllers, World>>

\* An occurrence claimed before is taken up again, with its key.
Resume(w) ==
    /\ pc[w] = "tick"
    /\ ~Stopped(gen[w])
    /\ schedule.pending # NoSlot
    /\ key' = [key EXCEPT ![w] = schedule.pending]
    /\ Enter(w, "start")
    /\ NoRead /\ UNCHANGED <<controllers, gen, outcome, World>>

\* The claim, or the missed slots, as computed at the time of the read.
LookAtDue(w) ==
    /\ pc[w] = "tick"
    /\ ~Stopped(gen[w])
    /\ schedule.pending = NoSlot /\ clock >= Due(schedule.next)
    /\ Read(w)
    /\ LET missed == Cardinality(MissedSlots(schedule, clock))
       IN  IF missed > 0
           THEN Go(w, "miss") /\ key' = [key EXCEPT ![w] = missed]
           ELSE Go(w, "claim") /\ key' = [key EXCEPT ![w] = schedule.next]
    /\ UNCHANGED <<controllers, gen, outcome, tries, World>>

ClaimSlot(w) ==
    /\ pc[w] = "claim"
    /\ IF Unchanged(w)
       THEN /\ schedule' = [schedule EXCEPT !.pending = key[w], !.status = "active"]
            /\ fresh' = {} /\ drafts' = {}
            /\ Enter(w, "start")
            /\ UNCHANGED <<gen, key, outcome, runs, manual>>
       ELSE Retry(w, "tick") /\ NoRead
    /\ UNCHANGED <<controllers, World>>

RecordMissed(w) ==
    /\ pc[w] = "miss"
    /\ IF Unchanged(w)
       THEN LET passed == Consume(schedule, schedule.next, [i \in 1..key[w] |-> "missed"])
            IN  /\ schedule' = IF passed.enabled THEN [passed EXCEPT !.status = "active"] ELSE passed
                /\ fresh' = {} /\ drafts' = {}
                /\ UNCHANGED <<runs, manual>>
                /\ Leave(w)
                /\ IF passed.enabled THEN UNCHANGED controllers ELSE EndController(w)
       ELSE Retry(w, "tick") /\ NoRead /\ UNCHANGED controllers
    /\ UNCHANGED World

-----------------------------------------------------------------------------
(* start, as the scheduled occurrence calls it.                              *)

Occurrence(w) == <<gen[w], key[w]>>

Decide(w, result) ==
    /\ outcome' = [outcome EXCEPT ![w] = result]
    /\ Enter(w, "finish")
    /\ UNCHANGED <<gen, key>>

\* Mutant of Authorized: an occurrence that was claimed is admitted as it stands.
AuthorizedOnceClaimed(w) == TRUE

\* The occurrence still belongs to the enabled, current generation.
Authorized(w) ==
    /\ schedule.enabled
    /\ schedule.generation = gen[w]
    /\ schedule.pending = key[w]

Busy == manual = "active" \/ \E o \in Occurrences: runs[o] = "active"

\* What one attempt finds: the run of an earlier tick, an occurrence that was
\* revoked or missed, a run in the way, or a place to take.
TryStart(w) ==
    /\ pc[w] = "start"
    /\ IF runs[Occurrence(w)] # "none"
       THEN Enter(w, "launch") /\ UNCHANGED <<gen, key, outcome>> /\ NoRead
       ELSE IF ~Authorized(w)
       THEN ToPause(w) /\ NoRead
       ELSE IF Missed(key[w], clock)
       THEN Decide(w, "missed") /\ NoRead
       ELSE IF Busy
       THEN Decide(w, "overlap") /\ NoRead
       ELSE Go(w, "admit") /\ Read(w) /\ UNCHANGED <<gen, key, outcome, tries>>
    /\ UNCHANGED <<controllers, World>>

\* A policy check refuses before, or the conversation's preparation fails after
\* the admission.
StartRefused(w) ==
    /\ pc[w] \in {"start", "launch"}
    /\ ToPause(w)
    /\ NoRead /\ UNCHANGED <<controllers, World>>

\* Mutant of AdmitRun: only the schedule is replaced conditionally.
AdmitRunBlindly(w) ==
    /\ pc[w] = "admit"
    /\ runs' = [runs EXCEPT ![Occurrence(w)] = "active"]
    /\ fresh' = {} /\ drafts' = {}
    /\ Enter(w, "launch")
    /\ UNCHANGED <<schedule, manual, controllers, gen, key, outcome, World>>

\* The handle is created, in one batch with the schedule that authorises it.
AdmitRun(w) ==
    /\ pc[w] = "admit"
    /\ IF Unchanged(w)
       THEN /\ runs' = [runs EXCEPT ![Occurrence(w)] = "active"]
            /\ fresh' = {} /\ drafts' = {}
            /\ Enter(w, "launch")
            /\ UNCHANGED <<schedule, manual, gen, key, outcome>>
       ELSE /\ IF tries[w] + 1 < MaxTries
               THEN Retry(w, "start")
               ELSE ToPause(w)
            /\ NoRead
    /\ UNCHANGED <<controllers, World>>

\* The durable host takes the run, or had it already.
Launch(w) ==
    /\ pc[w] = "launch"
    /\ Decide(w, "launched")
    /\ NoRead /\ UNCHANGED <<controllers, World>>

\* No acknowledgement: the tick ends and asks again with the same key.
LaunchUnknown(w) ==
    /\ pc[w] = "launch"
    /\ faults < MaxFaults
    /\ faults' = faults + 1
    /\ Leave(w)
    /\ NoRead /\ UNCHANGED <<controllers, answers, clock>>

\* The host refuses the run: it ends, and the occurrence counts as launched.
LaunchRejected(w) ==
    /\ pc[w] = "launch"
    /\ runs[Occurrence(w)] = "active"
    /\ runs' = [runs EXCEPT ![Occurrence(w)] = "over"]
    /\ fresh' = {} /\ drafts' = {}
    /\ Decide(w, "launched")
    /\ UNCHANGED <<schedule, manual, controllers, World>>

-----------------------------------------------------------------------------
(* tick: the outcome consumes the slot.                                      *)

\* Mutant of StillPending: any occurrence of the generation is consumed.
PendingOrNot(w) == schedule.generation = gen[w] /\ schedule.next # NoSlot

StillPending(w) == schedule.generation = gen[w] /\ schedule.pending = key[w]

ReadOutcome(w) ==
    /\ pc[w] = "finish"
    /\ IF StillPending(w)
       THEN Go(w, "record") /\ Read(w) /\ UNCHANGED <<gen, key, outcome, tries, controllers>>
       ELSE /\ Leave(w)
            /\ NoRead
            /\ IF schedule.generation = gen[w] THEN UNCHANGED controllers ELSE EndController(w)
    /\ UNCHANGED World

RecordOutcome(w) ==
    /\ pc[w] = "record"
    /\ IF Unchanged(w)
       THEN /\ schedule' = Consume(schedule, key[w], <<outcome[w]>>)
            /\ fresh' = {} /\ drafts' = {}
            /\ UNCHANGED <<runs, manual>>
            /\ Leave(w)
            /\ IF schedule'.enabled THEN UNCHANGED controllers ELSE EndController(w)
       ELSE Retry(w, "finish") /\ NoRead /\ UNCHANGED controllers
    /\ UNCHANGED World

(* pause: for one generation, while it is enabled.                           *)
ReadPause(w) ==
    /\ pc[w] = "pausing"
    /\ IF schedule.generation = gen[w] /\ schedule.enabled
       THEN Go(w, "pause") /\ Read(w) /\ UNCHANGED <<gen, key, outcome, tries, controllers>>
       ELSE Leave(w) /\ NoRead /\ EndController(w)
    /\ UNCHANGED World

Pause(w) ==
    /\ pc[w] = "pause"
    /\ IF Unchanged(w)
       THEN /\ schedule' = [schedule EXCEPT !.status = "paused"]
            /\ fresh' = {} /\ drafts' = {}
            /\ UNCHANGED <<runs, manual>>
            /\ Leave(w) /\ EndController(w)
       ELSE Retry(w, "pausing") /\ NoRead /\ UNCHANGED controllers
    /\ UNCHANGED World

\* The worker dies; the host delivers the tick again.
Crash(w) ==
    /\ pc[w] # "idle"
    /\ faults < MaxFaults
    /\ faults' = faults + 1
    /\ fresh' = fresh \ {w}
    /\ Leave(w)
    /\ UNCHANGED <<schedule, runs, manual, drafts, controllers, answers, clock>>

-----------------------------------------------------------------------------
(* The owner: save, ensure_started, disable, and a run by hand.              *)

\* save reads both documents; the Date of that answer will place the first slot.
\* Of two edits under way, the write of either makes the other's copies stale.
ReadEdit ==
    /\ schedule.generation < MaxGeneration
    /\ drafts' = {clock}
    /\ UNCHANGED <<schedule, runs, manual, fresh, controllers, tick, World>>

\* Mutant of WriteEdit: a batch tried again keeps the Date of an earlier read.
WriteEditFromFirstRead ==
    /\ schedule.generation < MaxGeneration
    /\ \E now \in 0..clock: schedule' = Saved(schedule.generation + 1, now)
    /\ fresh' = {} /\ drafts' = {} /\ answers' = {}
    /\ UNCHANGED <<runs, manual, controllers, tick, clock, faults>>

\* The edit is a new generation.  One whose batch is lost leaves without a trace
\* here, or reads again; an answer to an older save will not be recorded.
WriteEdit ==
    /\ schedule.generation < MaxGeneration
    /\ \E now \in drafts: schedule' = Saved(schedule.generation + 1, now)
    /\ fresh' = {} /\ drafts' = {} /\ answers' = {}
    /\ UNCHANGED <<runs, manual, controllers, tick, clock, faults>>

\* The schedule as it was just saved, or found saved, waits for its controller.
Unacknowledged == schedule.enabled /\ schedule.status \in {"pending", "acceptance_unknown"}

\* ensure_started: the host takes the controller, perhaps without saying so.  A
\* save that is asked for again asks again.
StartController ==
    /\ Unacknowledged
    /\ \E answer \in {"active", "acceptance_unknown", "paused"}:
          /\ answers' = answers \cup {answer}
          /\ CASE answer = "active" -> controllers' = controllers \cup {schedule.generation}
               [] answer = "paused" -> UNCHANGED controllers
               [] OTHER -> controllers' \in {controllers, controllers \cup {schedule.generation}}
    /\ UNCHANGED <<docs, tick, clock, faults>>

\* An answer is recorded, unless a tick or another answer was faster.
Acknowledge ==
    /\ \E answer \in answers:
          /\ answers' = answers \ {answer}
          /\ IF schedule.status \in {"pending", "acceptance_unknown"}
             THEN /\ schedule' = [schedule EXCEPT !.status = answer]
                  /\ fresh' = {} /\ drafts' = {}
                  /\ UNCHANGED <<runs, manual>>
             ELSE NoRead
    /\ UNCHANGED <<controllers, tick, clock, faults>>

Disable ==
    /\ schedule.enabled
    /\ schedule' = [schedule EXCEPT !.enabled = FALSE, !.status = "disabled"]
    /\ fresh' = {} /\ drafts' = {}
    /\ UNCHANGED <<runs, manual, controllers, tick, World>>

StartByHand ==
    /\ manual = "none" /\ ~Busy
    /\ manual' = "active"
    /\ fresh' = {} /\ drafts' = {}
    /\ UNCHANGED <<schedule, runs, controllers, tick, World>>

\* finish_handle of a run: its place in the owner document is free again.
RunEnds ==
    /\ \/ manual = "active" /\ manual' = "over" /\ UNCHANGED runs
       \/ /\ \E o \in Occurrences: runs[o] = "active" /\ runs' = [runs EXCEPT ![o] = "over"]
          /\ UNCHANGED manual
    /\ fresh' = {} /\ drafts' = {}
    /\ UNCHANGED <<schedule, controllers, tick, World>>

ClockTicks ==
    /\ clock < MaxClock
    /\ clock' = clock + 1
    /\ UNCHANGED <<docs, controllers, tick, answers, faults>>

-----------------------------------------------------------------------------
Tick(w) ==
    \/ \E g \in Generations: Deliver(w, g)
    \/ LookInVain(w) \/ LookAndPause(w) \/ Resume(w) \/ LookAtDue(w)
    \/ ClaimSlot(w) \/ RecordMissed(w)
    \/ TryStart(w) \/ StartRefused(w) \/ AdmitRun(w)
    \/ Launch(w) \/ LaunchUnknown(w) \/ LaunchRejected(w)
    \/ ReadOutcome(w) \/ RecordOutcome(w) \/ ReadPause(w) \/ Pause(w)

Owner ==
    \/ ReadEdit \/ WriteEdit \/ StartController \/ Acknowledge
    \/ Disable \/ StartByHand

Next ==
    \/ \E w \in Workers: Tick(w) \/ Crash(w)
    \/ Owner
    \/ RunEnds
    \/ ClockTicks

Spec == Init /\ [][Next]_vars

\* The host keeps delivering the ticks of a live controller; time passes.
LiveSpec == Spec /\ (\A w \in Workers: WF_vars(Tick(w))) /\ WF_vars(ClockTicks)

-----------------------------------------------------------------------------
(* Properties.                                                               *)

TypeOK ==
    /\ schedule.generation \in Generations
    /\ schedule.enabled \in BOOLEAN
    /\ schedule.status \in {"pending", "active", "acceptance_unknown", "paused", "completed",
                            "disabled"}
    /\ schedule.next \in Slots \cup {NoSlot}
    /\ schedule.pending \in {NoSlot, schedule.next}
    /\ schedule.consumed \in 0..MaxOccurrences
    /\ runs \in [Occurrences -> {"none", "active", "over"}]
    /\ manual \in {"none", "active", "over"}
    /\ fresh \subseteq Workers
    /\ drafts \subseteq 0..MaxClock
    /\ controllers \subseteq Generations
    /\ tries \in [Workers -> 0..(MaxTries - 1)]

\* A wall-clock slot runs once, however often its tick is delivered, resumed or
\* overlapped, and although an edit starts a new generation with new keys.
SlotRunsOnce ==
    \A slot \in Slots: Cardinality({g \in Generations: runs[<<g, slot>>] # "none"}) <= 1

\* Two runs of the workflow are never active together, scheduled or by hand
\* (overlapPolicy deny: the check is in the owner document's conditional write).
NoOverlap ==
    Cardinality({o \in Occurrences: runs[o] = "active"}) + (IF manual = "active" THEN 1 ELSE 0) <= 1

\* A disabled or edited schedule admits nothing more, also not the occurrence
\* one of its ticks has already claimed.
RevokedAdmitsNothing ==
    [][\A o \in Occurrences: runs[o] = "none" /\ runs'[o] # "none"
         => schedule.enabled /\ schedule.generation = o[1]]_vars

\* The history has the latest slots of its generation, each once and in order up
\* to the next one, as far back as it is kept: none was skipped, consumed twice
\* or given two outcomes, and one recorded as launched has its run (next_slot).
HistoryComplete ==
    LET kept == Len(schedule.history)
        next == schedule.first + schedule.consumed
    IN  /\ kept = IF schedule.consumed < MaxHistory THEN schedule.consumed ELSE MaxHistory
        /\ \A i \in 1..kept:
              LET entry == schedule.history[i]
              IN  /\ entry.slot = next - kept + i - 1
                  /\ entry.outcome = "launched" => runs[<<schedule.generation, entry.slot>>] # "none"
        /\ schedule.next \in {NoSlot, next}

\* An occurrence that was claimed gets its outcome, unless the schedule stops
\* being active: a tick that died is resumed by the next one.
ClaimsResolve ==
    \A slot \in Slots:
        (schedule.pending = slot /\ schedule.status = "active")
            ~> (schedule.pending # slot \/ schedule.status # "active")
=============================================================================
