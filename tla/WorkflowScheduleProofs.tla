----------------------- MODULE WorkflowScheduleProofs -----------------------
(* What WorkflowSchedule keeps for every number of overlapping ticks, edits   *)
(* and faults, every period, grace and number of occurrences.  The argument:  *)
(* a tick whose copies are the stored ones still knows what it read (CopyInv), *)
(* since every write of a document makes all other copies stale; an admission *)
(* therefore takes a place that is free, for the pending slot of the current  *)
(* generation (RunInv); and an edit starts after every slot that was due when  *)
(* it was read, hence after every run that was admitted (DraftInv), so that a  *)
(* slot belongs to one generation only.                                       *)
EXTENDS WorkflowSchedule, FiniteSetTheorems, SequenceTheorems, TLAPS

Steps == {"idle", "tick", "claim", "miss", "start", "admit", "launch", "finish", "record",
          "pausing", "pause"}
Outcomes == {"missed", "overlap", "launched"}
Entries == [slot: Int, outcome: Outcomes]

Records == [generation: Generations, enabled: BOOLEAN,
            status: {"pending", "active", "acceptance_unknown", "paused", "completed",
                     "disabled"},
            next: Nat, pending: Nat, consumed: 0..MaxOccurrences, history: Seq(Entries),
            first: Nat]

\* TypeOK in two parts, the ticks included.
DocsType ==
    /\ schedule \in Records
    /\ runs \in [Occurrences -> {"none", "active", "over"}]
    /\ manual \in {"none", "active", "over"}
    /\ fresh \subseteq Workers
    /\ drafts \subseteq 0..MaxClock

TickType ==
    /\ pc \in [Workers -> Steps]
    /\ gen \in [Workers -> 0..MaxGeneration]
    /\ key \in [Workers -> Nat]
    /\ outcome \in [Workers -> Outcomes \cup {"none"}]
    /\ tries \in [Workers -> 0..(MaxTries - 1)]
    /\ controllers \subseteq Generations
    /\ clock \in 0..MaxClock
    /\ answers \subseteq {"active", "acceptance_unknown", "paused"}
    /\ faults \in Nat

TypeInv == DocsType /\ TickType

\* The next slot lies at most as many slots after the last edit as were consumed
\* since, and an enabled schedule has one; a claimed slot is the next one, and due.
ScheduleInv ==
    /\ schedule.enabled => schedule.next # NoSlot
    /\ schedule.next # NoSlot => /\ schedule.consumed < MaxOccurrences
                                 /\ schedule.next <= MaxClock \div Period + 1 + schedule.consumed
    /\ schedule.pending # NoSlot => schedule.pending = schedule.next /\ Due(schedule.next) <= clock

\* What a tick has in hand: its generation, its slot and the run it has found.
Hand(w) ==
    /\ pc[w] # "idle" => gen[w] \in Generations
    /\ pc[w] \in {"start", "admit", "launch", "finish", "record"} => key[w] \in Slots
    /\ pc[w] = "launch" => runs[Occurrence(w)] # "none"
    /\ pc[w] \in {"finish", "record"} => /\ outcome[w] \in Outcomes
                                         /\ outcome[w] = "launched" => runs[Occurrence(w)] # "none"

HandInv == \A w \in Workers: Hand(w)

\* What a tick that is about to write knows of the documents while its copies are
\* the stored ones.
Knows(w) ==
    /\ pc[w] \in {"claim", "miss"} => /\ schedule.enabled /\ schedule.next # NoSlot
                                      /\ schedule.pending = NoSlot
    /\ pc[w] = "claim" => key[w] = schedule.next /\ Due(schedule.next) <= clock
    /\ pc[w] = "miss" => key[w] \in 1..(MaxOccurrences - schedule.consumed)
    /\ pc[w] = "admit" => Authorized(w) /\ ~Busy
    /\ pc[w] = "record" => StillPending(w)

CopyInv == \A w \in fresh: Knows(w)

\* A run is due, and of no later generation; one of an earlier generation has a
\* slot before any that is still to come; a slot has the run of one generation.
RunInv ==
    /\ \A o \in Occurrences: runs[o] # "none" => Due(o[2]) <= clock /\ o[1] <= schedule.generation
    /\ schedule.next # NoSlot
          => \A o \in Occurrences: runs[o] # "none" /\ o[1] # schedule.generation
                                      => o[2] < schedule.next
    /\ \A o1, o2 \in Occurrences: runs[o1] # "none" /\ runs[o2] # "none" /\ o1[2] = o2[2]
                                      => o1 = o2

\* While the copies of an edit are the stored ones, every run was due when they
\* were read.
DraftInv ==
    /\ \A read \in drafts: read <= clock
    /\ \A o \in Occurrences, read \in drafts: runs[o] # "none" => Due(o[2]) <= read

\* One place for all runs of the workflow.
PlaceInv ==
    /\ \A o1, o2 \in Occurrences: runs[o1] = "active" /\ runs[o2] = "active" => o1 = o2
    /\ manual = "active" => \A o \in Occurrences: runs[o] # "active"

\* A run that was recorded as launched is one of an occurrence.
HistoryInv ==
    /\ HistoryComplete
    /\ \A i \in 1..Len(schedule.history):
          schedule.history[i].outcome = "launched" => schedule.history[i].slot \in Slots

IInv == TypeInv /\ ScheduleInv /\ HandInv /\ CopyInv /\ RunInv /\ DraftInv /\ PlaceInv
        /\ HistoryInv

-----------------------------------------------------------------------------
(* Slots and times.                                                          *)

\* Division by the period, with its remainder.
LEMMA Quotient ==
    ASSUME NEW now \in Nat
    PROVE  /\ now \div Period \in Nat
           /\ Period * (now \div Period) <= now
           /\ now < Period * (now \div Period) + Period
BY ScheduleAssumption, SMT

\* The first slot after an earlier time is not the later one.
LEMMA FirstSlotRises ==
    ASSUME NEW now \in Nat, NEW later \in Nat, now <= later
    PROVE  FirstSlot(now) \in Nat \ {0} /\ FirstSlot(now) <= later \div Period + 1
<1>1. Period \in Nat \ {0}
  BY ScheduleAssumption
<1> DEFINE q == now \div Period  r == later \div Period
<1>2. q \in Nat /\ r \in Nat /\ Period * q <= now /\ later < Period * r + Period
  BY <1>1, Quotient
<1> HIDE DEF q, r
<1>3. ASSUME r < q PROVE FALSE
  <2>1. Period * (r + 1) <= Period * q
    BY <1>1, <1>2, <1>3
  <2>2. Period * (r + 1) = Period * r + Period
    BY <1>1, <1>2
  <2> QED
    BY <1>1, <1>2, <2>1, <2>2
<1>4. q \in Nat /\ q <= r
  BY <1>2, <1>3
<1> QED
  BY <1>2, <1>4 DEF q, r, FirstSlot

\* A slot that is due lies before the first slot of an edit (first_occurrence).
LEMMA DueIsBefore ==
    ASSUME NEW now \in Nat, NEW slot \in Nat, Due(slot) <= now
    PROVE  slot < FirstSlot(now)
<1>1. Period \in Nat \ {0}
  BY ScheduleAssumption
<1> DEFINE q == now \div Period
<1>2. q \in Nat /\ now < Period * q + Period
  BY Quotient
<1> HIDE DEF q
<1>3. ASSUME q + 1 <= slot PROVE FALSE
  <2>1. Period * (q + 1) <= Period * slot
    BY <1>1, <1>2, <1>3
  <2>2. Period * (q + 1) = Period * q + Period
    BY <1>1, <1>2
  <2> QED
    BY <1>1, <1>2, <2>1, <2>2 DEF Due
<1>4. slot < q + 1
  BY <1>2, <1>3
<1> QED
  BY <1>4 DEF q, FirstSlot

\* Due dates and the numbers of slots are natural numbers.
LEMMA SlotTypes ==
    /\ \A slot \in Nat: Due(slot) \in Nat
    /\ MaxClock \div Period \in Nat
    /\ Slots \subseteq Nat \ {0}
<1>1. MaxClock \div Period \in Nat
  BY Quotient, ScheduleAssumption
<1>2. \A slot \in Nat: Due(slot) \in Nat
  BY ScheduleAssumption DEF Due
<1> QED
  BY <1>1, <1>2, ScheduleAssumption DEF Slots

\* An occurrence is a pair of numbers.
LEMMA OccurrenceNumbers == \A o \in Occurrences: o[1] \in Nat /\ o[2] \in Nat
<1>1. Generations \subseteq Nat /\ Slots \subseteq Nat
  BY SlotTypes, ScheduleAssumption DEF Generations
<1> QED
  BY <1>1 DEF Occurrences

\* No more slots are missed than the schedule has left.
LEMMA MissedAreLeft ==
    ASSUME TypeInv, ScheduleInv, schedule.next # NoSlot
    PROVE  Cardinality(MissedSlots(schedule, clock)) \in 0..(MaxOccurrences - schedule.consumed)
<1>1. /\ schedule.next \in Nat /\ schedule.consumed \in Nat
      /\ MaxOccurrences \in Nat /\ schedule.consumed < MaxOccurrences
  BY ScheduleAssumption DEF TypeInv, DocsType, Records, ScheduleInv
<1> DEFINE last == schedule.next + MaxOccurrences - schedule.consumed - 1
<1> DEFINE left == schedule.next..last
<1>2. IsFiniteSet(left) /\ Cardinality(left) = MaxOccurrences - schedule.consumed
  <2>1. last \in Int /\ last - schedule.next + 1 = MaxOccurrences - schedule.consumed
        /\ ~(schedule.next > last)
    BY <1>1
  <2> HIDE DEF last
  <2>2. schedule.next \in Int
    BY <1>1
  <2>3. /\ IsFiniteSet(schedule.next..last)
        /\ Cardinality(schedule.next..last)
              = IF schedule.next > last THEN 0 ELSE last - schedule.next + 1
    BY <2>1, <2>2, FS_Interval
  <2> QED
    BY <2>1, <2>3
<1> DEFINE missed == MissedSlots(schedule, clock)
<1>3. missed \in SUBSET left
  BY DEF MissedSlots
<1> HIDE DEF missed, left
<1>4. IsFiniteSet(missed) /\ Cardinality(missed) <= Cardinality(left)
  BY <1>2, <1>3, FS_Subset
<1>5. Cardinality(missed) \in Nat
  BY <1>4, FS_CardinalityType
<1>6. Cardinality(missed) \in 0..(MaxOccurrences - schedule.consumed)
  BY <1>1, <1>2, <1>4, <1>5
<1> QED
  BY <1>6 DEF missed

\* A slot that is claimed, or about to be, is one of the slots.
LEMMA NextIsSlot ==
    ASSUME TypeInv, ScheduleInv, schedule.next # NoSlot
    PROVE  schedule.next \in Slots
<1> DEFINE last == MaxClock \div Period
<1>1. last \in Nat /\ MaxOccurrences \in Nat
  BY SlotTypes, ScheduleAssumption
<1>2. /\ schedule.next \in Nat /\ schedule.consumed \in Nat
      /\ schedule.consumed < MaxOccurrences
      /\ schedule.next <= last + 1 + schedule.consumed
  BY DEF TypeInv, DocsType, Records, ScheduleInv
<1> HIDE DEF last
<1>3. schedule.next \in 1..(last + MaxOccurrences + 1)
  BY <1>1, <1>2 DEF NoSlot
<1> QED
  BY <1>3 DEF Slots, last

-----------------------------------------------------------------------------
(* What consuming slots does to a schedule (next_slot).                      *)

\* What is kept of a history are its last entries, as many as MaxHistory allows.
LEMMA RecentEntries ==
    ASSUME NEW all \in Seq(Entries)
    PROVE  LET kept == IF Len(all) > MaxHistory THEN MaxHistory ELSE Len(all)
           IN  /\ Recent(all) \in Seq(Entries)
               /\ Len(Recent(all)) = kept
               /\ \A i \in 1..kept: Recent(all)[i] = all[Len(all) - kept + i]
<1> DEFINE len == Len(all)
           kept == IF len > MaxHistory THEN MaxHistory ELSE len
           m == 1 + (IF len > MaxHistory THEN len - MaxHistory ELSE 0)
<1>1. len \in Nat /\ MaxHistory \in Nat \ {0} /\ \A i \in 1..len: all[i] \in Entries
  BY ScheduleAssumption
<1> HIDE DEF len
<1>2. /\ m \in Int /\ kept \in Nat /\ m = 1 + len - kept
      /\ \A i \in m..len: i \in 1..len
  BY <1>1
<1> HIDE DEF m, kept
<1>3. /\ SubSeq(all, m, len) \in Seq(Entries)
      /\ Len(SubSeq(all, m, len)) = IF m <= len THEN len - m + 1 ELSE 0
      /\ \A i \in 1..(len - m + 1): SubSeq(all, m, len)[i] = all[m + i - 1]
  <2>1. m \in Int /\ len \in Int /\ \A i \in m..len: all[i] \in Entries
    BY <1>1, <1>2
  <2> QED
    BY <2>1, SubSeqProperties
<1>4. /\ len - m + 1 = kept
      /\ (IF m <= len THEN len - m + 1 ELSE 0) = kept
      /\ \A i \in 1..kept: m + i - 1 = len - kept + i
  BY <1>1, <1>2
<1>5. Recent(all) = SubSeq(all, m, len)
  BY DEF Recent, m, len
<1> QED
  BY <1>3, <1>4, <1>5 DEF kept, len

\* Each of the results becomes one entry of the history.
LEMMA ConsumedEntries ==
    ASSUME NEW value, NEW first \in Nat, NEW results \in Seq(Outcomes)
    PROVE  /\ Consumed(first, results) \in Seq(Entries)
           /\ Len(Consumed(first, results)) = Len(results)
BY DEF Consumed, Entries

\* The fields of a schedule after its slots were consumed.
LEMMA ConsumeFields ==
    ASSUME NEW value \in Records, NEW first \in Nat, NEW results \in Seq(Outcomes),
           value.consumed + Len(results) <= MaxOccurrences
    PROVE  LET after == Consume(value, first, results)
               more == value.consumed + Len(results) < MaxOccurrences
           IN  /\ after \in Records
               /\ after.generation = value.generation
               /\ after.consumed = value.consumed + Len(results)
               /\ after.next = IF more THEN first + Len(results) ELSE NoSlot
               /\ after.pending = NoSlot
               /\ after.enabled = (value.enabled /\ more)
               /\ after.history = Recent(value.history \o Consumed(first, results))
               /\ after.first = value.first
<1> DEFINE count == Len(results)
           more == value.consumed + count < MaxOccurrences
           after == Consume(value, first, results)
<1>1. after = [value EXCEPT !.consumed = value.consumed + count,
                            !.next = IF more THEN first + count ELSE NoSlot,
                            !.pending = NoSlot,
                            !.history = Recent(value.history \o Consumed(first, results)),
                            !.status = IF more THEN value.status ELSE "completed",
                            !.enabled = value.enabled /\ more]
  BY DEF Consume
<1>2. /\ value.consumed + count \in 0..MaxOccurrences
      /\ (IF more THEN first + count ELSE NoSlot) \in Nat
      /\ (IF more THEN value.status ELSE "completed")
            \in {"pending", "active", "acceptance_unknown", "paused", "completed", "disabled"}
      /\ (value.enabled /\ more) \in BOOLEAN
  BY ScheduleAssumption DEF Records, NoSlot
<1>3. Recent(value.history \o Consumed(first, results)) \in Seq(Entries)
  <2>1. value.history \o Consumed(first, results) \in Seq(Entries)
    BY ConsumedEntries DEF Records
  <2> QED
    BY <2>1, RecentEntries
<1> HIDE DEF count, more, after
<1>4. /\ after.generation = value.generation
      /\ after.consumed = value.consumed + count
      /\ after.next = IF more THEN first + count ELSE NoSlot
      /\ after.pending = NoSlot
      /\ after.enabled = (value.enabled /\ more)
      /\ after.history = Recent(value.history \o Consumed(first, results))
      /\ after.first = value.first
  BY <1>1 DEF Records
<1>5. after \in Records
  BY <1>1, <1>2, <1>3 DEF Records, NoSlot
<1> QED
  BY <1>4, <1>5 DEF after, more, count

\* The schedule after the given outcomes of its next slots.
Took(results) ==
    LET more == schedule.consumed + Len(results) < MaxOccurrences
    IN  /\ results \in Seq(Outcomes)
        /\ schedule.next # NoSlot
        /\ schedule.consumed + Len(results) <= MaxOccurrences
        /\ schedule' \in Records
        /\ schedule'.generation = schedule.generation
        /\ schedule'.consumed = schedule.consumed + Len(results)
        /\ schedule'.next = IF more THEN schedule.next + Len(results) ELSE NoSlot
        /\ schedule'.pending = NoSlot
        /\ schedule'.enabled => more
        /\ schedule'.history = Recent(schedule.history \o Consumed(schedule.next, results))
        /\ schedule'.first = schedule.first

\* The missed slots fit into what the schedule has left.
LEMMA MissedTaken ==
    ASSUME IInv, NEW w \in Workers, RecordMissed(w), w \in fresh
    PROVE  Took([i \in 1..key[w] |-> "missed"])
<1> DEFINE results == [i \in 1..key[w] |-> "missed"]
           passed == Consume(schedule, schedule.next, results)
<1>1. /\ schedule \in Records /\ schedule.next \in Nat /\ schedule.next # NoSlot
      /\ key[w] \in Nat /\ schedule.consumed \in Nat /\ MaxOccurrences \in Nat
      /\ schedule.consumed + key[w] <= MaxOccurrences
  BY SMTT(30), ScheduleAssumption DEF IInv, TypeInv, DocsType, TickType, CopyInv, Knows, RecordMissed,
     Records
<1>2. results \in Seq(Outcomes) /\ Len(results) = key[w]
  BY <1>1 DEF Outcomes
<1>3. schedule' = IF passed.enabled THEN [passed EXCEPT !.status = "active"] ELSE passed
  BY DEF RecordMissed, Unchanged
<1> HIDE DEF results, passed
<1>4. LET more == schedule.consumed + Len(results) < MaxOccurrences
      IN  /\ passed \in Records
          /\ passed.generation = schedule.generation
          /\ passed.consumed = schedule.consumed + Len(results)
          /\ passed.next = IF more THEN schedule.next + Len(results) ELSE NoSlot
          /\ passed.pending = NoSlot
          /\ passed.enabled = (schedule.enabled /\ more)
          /\ passed.history = Recent(schedule.history \o Consumed(schedule.next, results))
          /\ passed.first = schedule.first
  BY <1>1, <1>2, ConsumeFields DEF passed
<1>5. /\ schedule' \in Records
      /\ schedule'.generation = passed.generation /\ schedule'.consumed = passed.consumed
      /\ schedule'.next = passed.next /\ schedule'.pending = passed.pending
      /\ schedule'.enabled = passed.enabled /\ schedule'.history = passed.history
      /\ schedule'.first = passed.first
  BY <1>3, <1>4 DEF Records
<1>6. Took(results)
  BY <1>1, <1>2, <1>4, <1>5 DEF Took
<1> QED
  BY <1>6 DEF results

\* The outcome of a claimed slot is that of the next one.
LEMMA OutcomeTaken ==
    ASSUME IInv, NEW w \in Workers, RecordOutcome(w), w \in fresh
    PROVE  Took(<<outcome[w]>>) /\ key[w] = schedule.next
<1>1. /\ schedule \in Records /\ schedule.next \in Nat /\ schedule.consumed \in Nat
      /\ MaxOccurrences \in Nat /\ outcome[w] \in Outcomes
  BY ScheduleAssumption DEF IInv, TypeInv, DocsType, HandInv, Hand, RecordOutcome, Records
<1>2. schedule.pending = key[w] /\ key[w] # NoSlot
  BY SlotTypes DEF IInv, HandInv, Hand, CopyInv, Knows, StillPending, RecordOutcome, NoSlot
<1>3. key[w] = schedule.next /\ schedule.next # NoSlot /\ schedule.consumed < MaxOccurrences
  BY <1>2 DEF IInv, ScheduleInv
<1>4. <<outcome[w]>> \in Seq(Outcomes) /\ Len(<<outcome[w]>>) = 1
  BY <1>1
<1>5. schedule' = Consume(schedule, schedule.next, <<outcome[w]>>)
  BY <1>3 DEF RecordOutcome, Unchanged
<1> DEFINE results == <<outcome[w]>>
           after == Consume(schedule, schedule.next, results)
<1> HIDE DEF results, after
<1>6. results \in Seq(Outcomes) /\ Len(results) = 1 /\ schedule' = after
  BY <1>4, <1>5 DEF results, after
<1>7. LET more == schedule.consumed + Len(results) < MaxOccurrences
      IN  /\ schedule.consumed + Len(results) <= MaxOccurrences
          /\ after \in Records
          /\ after.generation = schedule.generation
          /\ after.consumed = schedule.consumed + Len(results)
          /\ after.next = IF more THEN schedule.next + Len(results) ELSE NoSlot
          /\ after.pending = NoSlot
          /\ after.enabled = (schedule.enabled /\ more)
          /\ after.history = Recent(schedule.history \o Consumed(schedule.next, results))
          /\ after.first = schedule.first
  <2>1. schedule.consumed + Len(results) <= MaxOccurrences
    BY <1>1, <1>3, <1>6
  <2> QED
    BY <1>1, <1>6, <2>1, ConsumeFields DEF after
<1>8. Took(results)
  BY <1>3, <1>6, <1>7 DEF Took
<1> QED
  BY <1>3, <1>8 DEF results

\* The documents keep their types.
LEMMA DocsStep == IInv /\ [Next]_vars => DocsType'
<1> SUFFICES ASSUME IInv, [Next]_vars PROVE DocsType'
  OBVIOUS
<1> USE ScheduleAssumption DEF docs, Go
<1>h. DocsType /\ TickType /\ ScheduleInv
  BY DEF IInv, TypeInv
<1>1. ASSUME NEW w \in Workers, NEW g \in Generations, Deliver(w, g) PROVE DocsType'
  BY <1>h, <1>1 DEF Deliver, Enter, World, DocsType
<1>2. ASSUME NEW w \in Workers, LookInVain(w) PROVE DocsType'
  BY <1>h, <1>2 DEF LookInVain, Leave, NoRead, EndController, World, DocsType
<1>3. ASSUME NEW w \in Workers, LookAndPause(w) PROVE DocsType'
  BY <1>h, <1>3 DEF LookAndPause, ToPause, NoRead, World, DocsType
<1>4. ASSUME NEW w \in Workers, Resume(w) PROVE DocsType'
  BY <1>h, <1>4 DEF Resume, Enter, NoRead, World, DocsType
<1>5. ASSUME NEW w \in Workers, LookAtDue(w) PROVE DocsType'
  BY <1>h, <1>5 DEF LookAtDue, Read, World, DocsType
<1>6. ASSUME NEW w \in Workers, ClaimSlot(w) PROVE DocsType'
  <2>1. CASE w \in fresh
    <3>1. schedule' = [schedule EXCEPT !.pending = key[w], !.status = "active"]
          /\ fresh' = {} /\ drafts' = {} /\ UNCHANGED <<runs, manual>>
      BY <1>6, <2>1 DEF ClaimSlot, Unchanged
    <3>2. key[w] \in Nat
      BY <1>h DEF TickType
    <3>3. schedule' \in Records
      BY <1>h, <3>1, <3>2 DEF DocsType, Records
    <3> QED
      BY <1>h, <3>1, <3>3 DEF DocsType
  <2>2. CASE w \notin fresh
    BY <1>h, <1>6, <2>2 DEF ClaimSlot, Unchanged, NoRead, DocsType
  <2> QED
    BY <2>1, <2>2
<1>7. ASSUME NEW w \in Workers, RecordMissed(w) PROVE DocsType'
  <2>1. CASE w \in fresh
    BY <1>h, <1>7, <2>1, MissedTaken DEF RecordMissed, Unchanged, Took, DocsType
  <2>2. CASE w \notin fresh
    BY <1>h, <1>7, <2>2 DEF RecordMissed, Unchanged, Retry, NoRead, DocsType, docs
  <2> QED
    BY <2>1, <2>2
<1>8. ASSUME NEW w \in Workers, TryStart(w) PROVE DocsType'
  BY <1>h, <1>8 DEF TryStart, Enter, NoRead, ToPause, Decide, Read, World, DocsType
<1>9. ASSUME NEW w \in Workers, StartRefused(w) PROVE DocsType'
  BY <1>h, <1>9 DEF StartRefused, ToPause, NoRead, World, DocsType
<1>10. ASSUME NEW w \in Workers, AdmitRun(w) PROVE DocsType'
  BY <1>h, <1>10 DEF AdmitRun, Unchanged, Enter, Retry, Leave, ToPause, NoRead, World, DocsType
<1>11. ASSUME NEW w \in Workers, Launch(w) PROVE DocsType'
  BY <1>h, <1>11 DEF Launch, Decide, Enter, NoRead, World, DocsType
<1>12. ASSUME NEW w \in Workers, LaunchUnknown(w) PROVE DocsType'
  BY <1>h, <1>12 DEF LaunchUnknown, Leave, NoRead, DocsType
<1>13. ASSUME NEW w \in Workers, LaunchRejected(w) PROVE DocsType'
  BY <1>h, <1>13 DEF LaunchRejected, Decide, Enter, World, DocsType
<1>14. ASSUME NEW w \in Workers, ReadOutcome(w) PROVE DocsType'
  BY <1>h, <1>14 DEF ReadOutcome, Read, Leave, NoRead, EndController, World, DocsType
<1>15. ASSUME NEW w \in Workers, RecordOutcome(w) PROVE DocsType'
  <2>1. CASE w \in fresh
    BY <1>h, <1>15, <2>1, OutcomeTaken DEF RecordOutcome, Unchanged, Took, DocsType
  <2>2. CASE w \notin fresh
    BY <1>h, <1>15, <2>2 DEF RecordOutcome, Unchanged, Retry, NoRead, DocsType, docs
  <2> QED
    BY <2>1, <2>2
<1>16. ASSUME NEW w \in Workers, ReadPause(w) PROVE DocsType'
  BY <1>h, <1>16 DEF ReadPause, Read, Leave, NoRead, EndController, World, DocsType
<1>17. ASSUME NEW w \in Workers, Pause(w) PROVE DocsType'
  BY <1>h, <1>17 DEF Pause, Unchanged, Leave, EndController, Retry, NoRead, World, DocsType,
     Records
<1>18. ASSUME NEW w \in Workers, Crash(w) PROVE DocsType'
  BY <1>h, <1>18 DEF Crash, Leave, DocsType
<1>19. CASE WriteEdit
  <2>1. PICK now \in drafts: schedule' = Saved(schedule.generation + 1, now)
    BY <1>19 DEF WriteEdit
  <2>2. now \in Nat /\ FirstSlot(now) \in Nat
    BY <1>h, FirstSlotRises DEF DocsType
  <2>3. schedule.generation + 1 \in Generations
    BY <1>h, <1>19 DEF WriteEdit, DocsType, Records, Generations
  <2>4. <<>> \in Seq(Entries) /\ 0 \in 0..MaxOccurrences
    OBVIOUS
  <2>5. schedule' \in Records
    BY <2>1, <2>2, <2>3, <2>4 DEF Saved, Records, NoSlot
  <2> QED
    BY <1>h, <1>19, <2>5 DEF WriteEdit, DocsType
<1>20. CASE StartController
  BY <1>h, <1>20 DEF StartController, DocsType
<1>21. CASE Acknowledge
  <2>1. CASE UNCHANGED docs
    BY <1>h, <2>1 DEF DocsType
  <2>2. ASSUME NEW answer \in answers,
               schedule' = [schedule EXCEPT !.status = answer],
               fresh' = {}, drafts' = {}, UNCHANGED <<runs, manual>>
        PROVE  DocsType'
    <3>1. schedule' \in Records
      BY <1>h, <2>2 DEF DocsType, TickType, Records
    <3> QED
      BY <1>h, <2>2, <3>1 DEF DocsType
  <2> QED
    BY <1>21, <2>1, <2>2 DEF Acknowledge, NoRead
<1>22. CASE Disable
  BY <1>h, <1>22 DEF Disable, World, DocsType, Records
<1>23. CASE StartByHand
  BY <1>h, <1>23 DEF StartByHand, World, DocsType
<1>24. CASE RunEnds
  BY <1>h, <1>24 DEF RunEnds, World, DocsType
<1>25. CASE ClockTicks
  BY <1>h, <1>25 DEF ClockTicks, DocsType
<1>26. CASE UNCHANGED vars
  BY <1>h, <1>26 DEF DocsType, vars
<1>27. CASE ReadEdit
  BY <1>h, <1>27 DEF ReadEdit, DocsType, TickType
<1> QED
  BY <1>1, <1>2, <1>3, <1>4, <1>5, <1>6, <1>7, <1>8, <1>9, <1>10, <1>11, <1>12, <1>13, <1>14,
     <1>15, <1>16, <1>17, <1>18, <1>19, <1>20, <1>21, <1>22, <1>23, <1>24, <1>25, <1>26, <1>27 DEF
     Next, Tick, Owner

\* So does what the ticks have in hand.
LEMMA TickStep == IInv /\ [Next]_vars => TickType'
<1> SUFFICES ASSUME IInv, [Next]_vars PROVE TickType'
  OBVIOUS
<1> USE ScheduleAssumption DEF tick, Go, TickType, Steps, NoSlot
<1>h. TickType /\ DocsType /\ ScheduleInv /\ HandInv
  BY DEF IInv, TypeInv
<1>1. ASSUME NEW w \in Workers, NEW g \in Generations, Deliver(w, g) PROVE TickType'
  BY <1>h, <1>1 DEF Deliver, Enter, World, Generations
<1>2. ASSUME NEW w \in Workers, LookInVain(w) PROVE TickType'
  BY <1>h, <1>2 DEF LookInVain, Leave, NoRead, EndController, World
<1>3. ASSUME NEW w \in Workers, LookAndPause(w) PROVE TickType'
  BY <1>h, <1>3 DEF LookAndPause, ToPause, NoRead, World
<1>4. ASSUME NEW w \in Workers, Resume(w) PROVE TickType'
  BY <1>h, <1>4 DEF Resume, Enter, NoRead, World, DocsType, Records
<1>5. ASSUME NEW w \in Workers, LookAtDue(w) PROVE TickType'
  <2>1. schedule.next \in Nat /\ schedule.next # NoSlot
    BY <1>h, <1>5 DEF LookAtDue, Stopped, ScheduleInv, DocsType, Records
  <2>2. Cardinality(MissedSlots(schedule, clock)) \in Nat
    BY SMTT(30), <1>h, <2>1, MissedAreLeft DEF TypeInv, DocsType, Records
  <2>3. PICK k \in Nat, step \in {"miss", "claim"}:
          key' = [key EXCEPT ![w] = k] /\ pc' = [pc EXCEPT ![w] = step]
    BY <1>5, <2>1, <2>2 DEF LookAtDue
  <2> QED
    BY <1>h, <1>5, <2>3 DEF LookAtDue, World
<1>6. ASSUME NEW w \in Workers, ClaimSlot(w) PROVE TickType'
  BY <1>h, <1>6 DEF ClaimSlot, Unchanged, Enter, Retry, Leave, NoRead, World
<1>7. ASSUME NEW w \in Workers, RecordMissed(w) PROVE TickType'
  <2>1. Leave(w) \/ Retry(w, "tick")
    BY <1>7 DEF RecordMissed
  <2>2. controllers' \subseteq controllers /\ World' = World
    BY <1>7 DEF RecordMissed, EndController, World
  <2> QED
    BY <1>h, <2>1, <2>2 DEF Leave, Retry, World
<1>8. ASSUME NEW w \in Workers, TryStart(w) PROVE TickType'
  BY <1>h, <1>8 DEF TryStart, Enter, NoRead, ToPause, Decide, Read, World, Outcomes
<1>9. ASSUME NEW w \in Workers, StartRefused(w) PROVE TickType'
  BY <1>h, <1>9 DEF StartRefused, ToPause, NoRead, World
<1>10. ASSUME NEW w \in Workers, AdmitRun(w) PROVE TickType'
  BY <1>h, <1>10 DEF AdmitRun, Unchanged, Enter, Retry, Leave, ToPause, NoRead, World
<1>11. ASSUME NEW w \in Workers, Launch(w) PROVE TickType'
  BY <1>h, <1>11 DEF Launch, Decide, Enter, NoRead, World, Outcomes
<1>12. ASSUME NEW w \in Workers, LaunchUnknown(w) PROVE TickType'
  BY <1>h, <1>12 DEF LaunchUnknown, Leave, NoRead
<1>13. ASSUME NEW w \in Workers, LaunchRejected(w) PROVE TickType'
  BY <1>h, <1>13 DEF LaunchRejected, Decide, Enter, World, Outcomes
<1>14. ASSUME NEW w \in Workers, ReadOutcome(w) PROVE TickType'
  BY <1>h, <1>14 DEF ReadOutcome, Read, Leave, NoRead, EndController, World
<1>15. ASSUME NEW w \in Workers, RecordOutcome(w) PROVE TickType'
  BY <1>h, <1>15 DEF RecordOutcome, Unchanged, Leave, EndController, Retry, NoRead, World
<1>16. ASSUME NEW w \in Workers, ReadPause(w) PROVE TickType'
  BY <1>h, <1>16 DEF ReadPause, Read, Leave, NoRead, EndController, World
<1>17. ASSUME NEW w \in Workers, Pause(w) PROVE TickType'
  BY <1>h, <1>17 DEF Pause, Unchanged, Leave, EndController, Retry, NoRead, World
<1>18. ASSUME NEW w \in Workers, Crash(w) PROVE TickType'
  BY <1>h, <1>18 DEF Crash, Leave
<1>19. CASE WriteEdit
  BY <1>h, <1>19 DEF WriteEdit
<1>20. CASE StartController
  BY SMTT(30), <1>h, <1>20 DEF StartController, DocsType, Records
<1>21. CASE Acknowledge
  BY <1>h, <1>21 DEF Acknowledge, NoRead
<1>22. CASE Disable
  BY <1>h, <1>22 DEF Disable, World
<1>23. CASE StartByHand
  BY <1>h, <1>23 DEF StartByHand, World
<1>24. CASE RunEnds
  BY <1>h, <1>24 DEF RunEnds, World
<1>25. CASE ClockTicks
  BY <1>h, <1>25 DEF ClockTicks
<1>26. CASE UNCHANGED vars
  BY <1>h, <1>26 DEF vars
<1>27. CASE ReadEdit
  BY <1>h, <1>27 DEF ReadEdit, World
<1> QED
  BY <1>1, <1>2, <1>3, <1>4, <1>5, <1>6, <1>7, <1>8, <1>9, <1>10, <1>11, <1>12, <1>13, <1>14,
     <1>15, <1>16, <1>17, <1>18, <1>19, <1>20, <1>21, <1>22, <1>23, <1>24, <1>25, <1>26, <1>27 DEF
     Next, Tick, Owner

\* The next slot stays within reach, and a claimed slot is due.
LEMMA ScheduleStep == IInv /\ [Next]_vars => ScheduleInv'
<1> SUFFICES ASSUME IInv, [Next]_vars PROVE ScheduleInv'
  OBVIOUS
<1> USE ScheduleAssumption DEF docs
<1>h. TypeInv /\ ScheduleInv /\ CopyInv
  BY DEF IInv
<1>1. ASSUME NEW w \in Workers, NEW g \in Generations, Deliver(w, g) PROVE ScheduleInv'
  BY <1>h, <1>1 DEF Deliver, Enter, World, ScheduleInv
<1>2. ASSUME NEW w \in Workers, LookInVain(w) PROVE ScheduleInv'
  BY <1>h, <1>2 DEF LookInVain, Leave, NoRead, EndController, World, ScheduleInv
<1>3. ASSUME NEW w \in Workers, LookAndPause(w) PROVE ScheduleInv'
  BY <1>h, <1>3 DEF LookAndPause, ToPause, NoRead, World, ScheduleInv
<1>4. ASSUME NEW w \in Workers, Resume(w) PROVE ScheduleInv'
  BY <1>h, <1>4 DEF Resume, Enter, NoRead, World, ScheduleInv
<1>5. ASSUME NEW w \in Workers, LookAtDue(w) PROVE ScheduleInv'
  BY <1>h, <1>5 DEF LookAtDue, Read, World, ScheduleInv
<1>6. ASSUME NEW w \in Workers, ClaimSlot(w) PROVE ScheduleInv'
  BY <1>h, <1>6 DEF ClaimSlot, Unchanged, Enter, Retry, Leave, NoRead, World, ScheduleInv,
     CopyInv, Knows, TypeInv, DocsType, Records, NoSlot
<1>7. ASSUME NEW w \in Workers, RecordMissed(w) PROVE ScheduleInv'
  <2>1. CASE w \in fresh
    <3>1. PICK results \in Seq(Outcomes): Took(results)
      BY <1>7, <2>1, MissedTaken DEF Took
    <3>2. Len(results) \in Nat /\ schedule.consumed \in Nat /\ schedule.next \in Nat
      BY <1>h, <3>1 DEF TypeInv, DocsType, Records
    <3>3. MaxClock \div Period \in Nat
      BY SlotTypes
    <3>4. schedule.next <= MaxClock \div Period + 1 + schedule.consumed
      BY <1>h, <3>1 DEF ScheduleInv, Took
    <3> QED
      BY <3>1, <3>2, <3>3, <3>4 DEF ScheduleInv, Took, NoSlot
  <2>2. CASE w \notin fresh
    BY <1>h, <1>7, <2>2 DEF RecordMissed, Unchanged, NoRead, World, ScheduleInv
  <2> QED
    BY <2>1, <2>2
<1>8. ASSUME NEW w \in Workers, TryStart(w) PROVE ScheduleInv'
  BY <1>h, <1>8 DEF TryStart, Enter, NoRead, ToPause, Decide, Read, World, ScheduleInv
<1>9. ASSUME NEW w \in Workers, StartRefused(w) PROVE ScheduleInv'
  BY <1>h, <1>9 DEF StartRefused, ToPause, NoRead, World, ScheduleInv
<1>10. ASSUME NEW w \in Workers, AdmitRun(w) PROVE ScheduleInv'
  BY <1>h, <1>10 DEF AdmitRun, Unchanged, Enter, Retry, Leave, ToPause, NoRead, World,
     ScheduleInv
<1>11. ASSUME NEW w \in Workers, Launch(w) PROVE ScheduleInv'
  BY <1>h, <1>11 DEF Launch, Decide, Enter, NoRead, World, ScheduleInv
<1>12. ASSUME NEW w \in Workers, LaunchUnknown(w) PROVE ScheduleInv'
  BY <1>h, <1>12 DEF LaunchUnknown, Leave, NoRead, ScheduleInv
<1>13. ASSUME NEW w \in Workers, LaunchRejected(w) PROVE ScheduleInv'
  BY <1>h, <1>13 DEF LaunchRejected, Decide, Enter, World, ScheduleInv
<1>14. ASSUME NEW w \in Workers, ReadOutcome(w) PROVE ScheduleInv'
  BY <1>h, <1>14 DEF ReadOutcome, Read, Leave, NoRead, EndController, World, ScheduleInv
<1>15. ASSUME NEW w \in Workers, RecordOutcome(w) PROVE ScheduleInv'
  <2>1. CASE w \in fresh
    <3>1. PICK results \in Seq(Outcomes): Took(results)
      BY <1>15, <2>1, OutcomeTaken DEF Took
    <3>2. Len(results) \in Nat /\ schedule.consumed \in Nat /\ schedule.next \in Nat
      BY <1>h, <3>1 DEF TypeInv, DocsType, Records
    <3>3. MaxClock \div Period \in Nat
      BY SlotTypes
    <3>4. schedule.next <= MaxClock \div Period + 1 + schedule.consumed
      BY <1>h, <3>1 DEF ScheduleInv, Took
    <3> QED
      BY <3>1, <3>2, <3>3, <3>4 DEF ScheduleInv, Took, NoSlot
  <2>2. CASE w \notin fresh
    BY <1>h, <1>15, <2>2 DEF RecordOutcome, Unchanged, NoRead, World, ScheduleInv
  <2> QED
    BY <2>1, <2>2
<1>16. ASSUME NEW w \in Workers, ReadPause(w) PROVE ScheduleInv'
  BY <1>h, <1>16 DEF ReadPause, Read, Leave, NoRead, EndController, World, ScheduleInv
<1>17. ASSUME NEW w \in Workers, Pause(w) PROVE ScheduleInv'
  BY <1>h, <1>17 DEF Pause, Unchanged, Leave, EndController, Retry, NoRead, World, ScheduleInv,
     TypeInv, DocsType, Records
<1>18. ASSUME NEW w \in Workers, Crash(w) PROVE ScheduleInv'
  BY <1>h, <1>18 DEF Crash, Leave, ScheduleInv
<1>19. CASE WriteEdit
  <2>1. PICK now \in drafts: schedule' = Saved(schedule.generation + 1, now)
    BY <1>19 DEF WriteEdit
  <2>2. /\ FirstSlot(now) \in Nat \ {0} /\ FirstSlot(now) <= MaxClock \div Period + 1
        /\ MaxClock \div Period \in Nat
    <3>1. now \in Nat /\ MaxClock \in Nat /\ now <= MaxClock
      BY <1>h DEF TypeInv, DocsType
    <3> QED
      BY <3>1, SlotTypes, FirstSlotRises
  <2>3. /\ schedule'.next = FirstSlot(now) /\ schedule'.consumed = 0
        /\ schedule'.pending = NoSlot
    BY <2>1 DEF Saved
  <2> QED
    BY <2>2, <2>3 DEF ScheduleInv, NoSlot
<1>20. CASE StartController
  BY <1>h, <1>20 DEF StartController, ScheduleInv
<1>21. CASE Acknowledge
  BY <1>h, <1>21 DEF Acknowledge, NoRead, ScheduleInv, TypeInv, DocsType, Records
<1>22. CASE Disable
  BY <1>h, <1>22 DEF Disable, World, ScheduleInv, TypeInv, DocsType, Records
<1>23. CASE StartByHand
  BY <1>h, <1>23 DEF StartByHand, World, ScheduleInv
<1>24. CASE RunEnds
  BY <1>h, <1>24 DEF RunEnds, World, ScheduleInv
<1>25. CASE ClockTicks
  <2>1. clock' = clock + 1 /\ clock \in Nat /\ Due(schedule.next) \in Nat /\ schedule' = schedule
    BY <1>h, <1>25, SlotTypes DEF ClockTicks, TypeInv, DocsType, TickType, Records
  <2> QED
    BY <1>h, <2>1 DEF ScheduleInv, Due
<1>26. CASE UNCHANGED vars
  BY <1>h, <1>26 DEF ScheduleInv, vars
<1>27. CASE ReadEdit
  BY <1>h, <1>27 DEF ReadEdit, World, ScheduleInv
<1> QED
  BY <1>1, <1>2, <1>3, <1>4, <1>5, <1>6, <1>7, <1>8, <1>9, <1>10, <1>11, <1>12, <1>13, <1>14,
     <1>15, <1>16, <1>17, <1>18, <1>19, <1>20, <1>21, <1>22, <1>23, <1>24, <1>25, <1>26, <1>27 DEF
     Next, Tick, Owner

\* What no step takes back.
RunsStay == \A o \in Occurrences: runs[o] # "none" => runs'[o] # "none"

\* No run is forgotten.
LEMMA RunsStayStep == IInv /\ [Next]_vars => RunsStay
<1> SUFFICES ASSUME IInv, [Next]_vars PROVE RunsStay
  OBVIOUS
<1> USE ScheduleAssumption DEF docs, RunsStay
<1>h. TypeInv
  BY DEF IInv
<1>1. ASSUME NEW w \in Workers, NEW g \in Generations, Deliver(w, g) PROVE RunsStay
  BY <1>h, <1>1 DEF Deliver, Enter, World
<1>2. ASSUME NEW w \in Workers, LookInVain(w) PROVE RunsStay
  BY <1>h, <1>2 DEF LookInVain, Leave, NoRead, EndController, World
<1>3. ASSUME NEW w \in Workers, LookAndPause(w) PROVE RunsStay
  BY <1>h, <1>3 DEF LookAndPause, ToPause, NoRead, World
<1>4. ASSUME NEW w \in Workers, Resume(w) PROVE RunsStay
  BY <1>h, <1>4 DEF Resume, Enter, NoRead, World
<1>5. ASSUME NEW w \in Workers, LookAtDue(w) PROVE RunsStay
  BY <1>h, <1>5 DEF LookAtDue, Read, World
<1>6. ASSUME NEW w \in Workers, ClaimSlot(w) PROVE RunsStay
  BY <1>h, <1>6 DEF ClaimSlot, Unchanged, Enter, Retry, Leave, NoRead, World
<1>7. ASSUME NEW w \in Workers, RecordMissed(w) PROVE RunsStay
  BY <1>h, <1>7 DEF RecordMissed, Unchanged, Leave, EndController, Retry, NoRead, World
<1>8. ASSUME NEW w \in Workers, TryStart(w) PROVE RunsStay
  BY <1>h, <1>8 DEF TryStart, Enter, NoRead, ToPause, Decide, Read, World
<1>9. ASSUME NEW w \in Workers, StartRefused(w) PROVE RunsStay
  BY <1>h, <1>9 DEF StartRefused, ToPause, NoRead, World
<1>10. ASSUME NEW w \in Workers, AdmitRun(w) PROVE RunsStay
  BY <1>h, <1>10 DEF AdmitRun, Unchanged, Enter, Retry, Leave, ToPause, NoRead, World, TypeInv,
     DocsType
<1>11. ASSUME NEW w \in Workers, Launch(w) PROVE RunsStay
  BY <1>h, <1>11 DEF Launch, Decide, Enter, NoRead, World
<1>12. ASSUME NEW w \in Workers, LaunchUnknown(w) PROVE RunsStay
  BY <1>h, <1>12 DEF LaunchUnknown, Leave, NoRead
<1>13. ASSUME NEW w \in Workers, LaunchRejected(w) PROVE RunsStay
  BY <1>h, <1>13 DEF LaunchRejected, Decide, Enter, World, TypeInv, DocsType
<1>14. ASSUME NEW w \in Workers, ReadOutcome(w) PROVE RunsStay
  BY <1>h, <1>14 DEF ReadOutcome, Read, Leave, NoRead, EndController, World
<1>15. ASSUME NEW w \in Workers, RecordOutcome(w) PROVE RunsStay
  BY <1>h, <1>15 DEF RecordOutcome, Unchanged, Leave, EndController, Retry, NoRead, World
<1>16. ASSUME NEW w \in Workers, ReadPause(w) PROVE RunsStay
  BY <1>h, <1>16 DEF ReadPause, Read, Leave, NoRead, EndController, World
<1>17. ASSUME NEW w \in Workers, Pause(w) PROVE RunsStay
  BY <1>h, <1>17 DEF Pause, Unchanged, Leave, EndController, Retry, NoRead, World
<1>18. ASSUME NEW w \in Workers, Crash(w) PROVE RunsStay
  BY <1>h, <1>18 DEF Crash, Leave
<1>19. CASE WriteEdit
  BY <1>h, <1>19 DEF WriteEdit
<1>20. CASE StartController
  BY <1>h, <1>20 DEF StartController
<1>21. CASE Acknowledge
  BY <1>h, <1>21 DEF Acknowledge, NoRead
<1>22. CASE Disable
  BY <1>h, <1>22 DEF Disable, World
<1>23. CASE StartByHand
  BY <1>h, <1>23 DEF StartByHand, World
<1>24. CASE RunEnds
  BY <1>h, <1>24 DEF RunEnds, World, TypeInv, DocsType
<1>25. CASE ClockTicks
  BY <1>h, <1>25 DEF ClockTicks
<1>26. CASE UNCHANGED vars
  BY <1>h, <1>26 DEF vars
<1>27. CASE ReadEdit
  BY <1>h, <1>27 DEF ReadEdit
<1> QED
  BY <1>1, <1>2, <1>3, <1>4, <1>5, <1>6, <1>7, <1>8, <1>9, <1>10, <1>11, <1>12, <1>13, <1>14,
     <1>15, <1>16, <1>17, <1>18, <1>19, <1>20, <1>21, <1>22, <1>23, <1>24, <1>25, <1>26, <1>27 DEF
     Next, Tick, Owner

\* A tick in the middle of an occurrence names one.
LEMMA OccurrenceTyped ==
    ASSUME TypeInv, HandInv, NEW w \in Workers,
           pc[w] \in {"start", "admit", "launch", "finish", "record"}
    PROVE  Occurrence(w) \in Occurrences /\ Occurrence(w)[1] = gen[w] /\ Occurrence(w)[2] = key[w]
BY DEF HandInv, Hand, Occurrence, Occurrences

\* A tick that a step leaves alone keeps what it has in hand.
LEMMA HandKept ==
    ASSUME TypeInv, HandInv, RunsStay, NEW v \in Workers,
           pc'[v] = pc[v], gen'[v] = gen[v], key'[v] = key[v], outcome'[v] = outcome[v]
    PROVE  Hand(v)'
<1>1. Hand(v)
  BY DEF HandInv
<1>2. Occurrence(v)' = Occurrence(v)
  BY DEF Occurrence
<1>3. pc[v] \in {"start", "admit", "launch", "finish", "record"}
        => (runs[Occurrence(v)] # "none" => runs'[Occurrence(v)] # "none")
  BY OccurrenceTyped DEF RunsStay
<1> QED
  BY <1>1, <1>2, <1>3 DEF Hand

\* So does one that tries again.
LEMMA HandRetried ==
    ASSUME TypeInv, HandInv, RunsStay, NEW w \in Workers, NEW again \in Steps,
           Retry(w, again),
           \/ again \in {"tick", "pausing"} /\ pc[w] # "idle"
           \/ again = "start" /\ pc[w] = "admit"
           \/ again = "finish" /\ pc[w] = "record"
    PROVE  Hand(w)'
<1>1. CASE Leave(w)
  <2>1. pc'[w] = "idle"
    BY <1>1 DEF Leave, Go, TypeInv, TickType
  <2> QED
    BY <2>1 DEF Hand
<1>2. CASE /\ Go(w, again) /\ UNCHANGED <<gen, outcome>>
           /\ key' = [key EXCEPT ![w] = IF again = "tick" THEN NoSlot ELSE @]
  <2>1. pc'[w] = again /\ gen'[w] = gen[w] /\ outcome'[w] = outcome[w]
        /\ (again # "tick" => key'[w] = key[w])
    BY <1>2 DEF Go, TypeInv, TickType
  <2>2. Hand(w)
    BY DEF HandInv
  <2>3. again # "tick" => Occurrence(w)' = Occurrence(w)
    BY <2>1 DEF Occurrence
  <2>4. pc[w] = "record" /\ runs[Occurrence(w)] # "none" => runs'[Occurrence(w)] # "none"
    BY OccurrenceTyped DEF RunsStay
  <2> QED
    BY <2>1, <2>2, <2>3, <2>4 DEF Hand
<1> QED
  BY <1>1, <1>2 DEF Retry

\* Every tick keeps what it has in hand, also after a lost race.
LEMMA HandStep == IInv /\ [Next]_vars => HandInv'
<1> SUFFICES ASSUME IInv, [Next]_vars PROVE HandInv'
  OBVIOUS
<1> USE ScheduleAssumption DEF docs, tick, Go
<1>h. TypeInv /\ ScheduleInv /\ HandInv /\ CopyInv
  BY DEF IInv
<1>s. RunsStay
  BY RunsStayStep
<1>1. ASSUME NEW w \in Workers, NEW g \in Generations, Deliver(w, g) PROVE HandInv'
  <2>1. \A v \in Workers \ {w}: /\ pc'[v] = pc[v] /\ gen'[v] = gen[v]
                                /\ key'[v] = key[v] /\ outcome'[v] = outcome[v]
    BY <1>h, <1>1 DEF Deliver, Enter, TypeInv, TickType
  <2>2. Hand(w)'
    BY <1>h, <1>s, <1>1 DEF Deliver, Enter, Hand, HandInv, TypeInv, TickType
  <2> QED
    BY <1>h, <1>s, <2>1, <2>2, HandKept DEF HandInv
<1>2. ASSUME NEW w \in Workers, LookInVain(w) PROVE HandInv'
  <2>1. \A v \in Workers \ {w}: /\ pc'[v] = pc[v] /\ gen'[v] = gen[v]
                                /\ key'[v] = key[v] /\ outcome'[v] = outcome[v]
    BY <1>h, <1>2 DEF LookInVain, Leave, NoRead, EndController, TypeInv, TickType
  <2>2. Hand(w)'
    BY <1>h, <1>s, <1>2 DEF LookInVain, Leave, NoRead, EndController, Hand, HandInv, TypeInv,
       TickType
  <2> QED
    BY <1>h, <1>s, <2>1, <2>2, HandKept DEF HandInv
<1>3. ASSUME NEW w \in Workers, LookAndPause(w) PROVE HandInv'
  <2>1. \A v \in Workers \ {w}: /\ pc'[v] = pc[v] /\ gen'[v] = gen[v]
                                /\ key'[v] = key[v] /\ outcome'[v] = outcome[v]
    BY <1>h, <1>3 DEF LookAndPause, ToPause, NoRead, TypeInv, TickType
  <2>2. Hand(w)'
    BY <1>h, <1>s, <1>3 DEF LookAndPause, ToPause, NoRead, Hand, HandInv, TypeInv, TickType
  <2> QED
    BY <1>h, <1>s, <2>1, <2>2, HandKept DEF HandInv
<1>4. ASSUME NEW w \in Workers, Resume(w) PROVE HandInv'
  <2>1. \A v \in Workers \ {w}: /\ pc'[v] = pc[v] /\ gen'[v] = gen[v]
                                /\ key'[v] = key[v] /\ outcome'[v] = outcome[v]
    BY <1>h, <1>4 DEF Resume, Enter, NoRead, TypeInv, TickType
  <2>2. Hand(w)'
    <3>1. schedule.pending \in Slots
      BY <1>h, <1>4, NextIsSlot DEF Resume, ScheduleInv
    <3> QED
      BY <1>h, <1>4, <3>1 DEF Resume, Enter, Go, Hand, HandInv, TypeInv, TickType
  <2> QED
    BY <1>h, <1>s, <2>1, <2>2, HandKept DEF HandInv
<1>5. ASSUME NEW w \in Workers, LookAtDue(w) PROVE HandInv'
  <2>1. \A v \in Workers \ {w}: /\ pc'[v] = pc[v] /\ gen'[v] = gen[v]
                                /\ key'[v] = key[v] /\ outcome'[v] = outcome[v]
    BY <1>h, <1>5 DEF LookAtDue, Read, TypeInv, TickType
  <2>2. Hand(w)'
    BY <1>h, <1>s, <1>5 DEF LookAtDue, Read, Hand, HandInv, TypeInv, TickType
  <2> QED
    BY <1>h, <1>s, <2>1, <2>2, HandKept DEF HandInv
<1>6. ASSUME NEW w \in Workers, ClaimSlot(w) PROVE HandInv'
  <2>1. \A v \in Workers \ {w}: /\ pc'[v] = pc[v] /\ gen'[v] = gen[v]
                                /\ key'[v] = key[v] /\ outcome'[v] = outcome[v]
    BY <1>h, <1>6 DEF ClaimSlot, Unchanged, Enter, Retry, Leave, NoRead, TypeInv, TickType
  <2>2. Hand(w)'
    <3>1. CASE w \in fresh
      <4>1. key[w] \in Slots
        BY <1>h, <1>6, <3>1, NextIsSlot DEF ClaimSlot, CopyInv, Knows
      <4> QED
        BY <1>h, <1>6, <3>1, <4>1 DEF ClaimSlot, Unchanged, Enter, Go, Hand, HandInv, TypeInv,
           TickType
    <3>2. CASE w \notin fresh
      BY <1>h, <1>s, <1>6, <3>2, HandRetried DEF ClaimSlot, Unchanged, Steps
    <3> QED
      BY <3>1, <3>2
  <2> QED
    BY <1>h, <1>s, <2>1, <2>2, HandKept DEF HandInv
<1>7. ASSUME NEW w \in Workers, RecordMissed(w) PROVE HandInv'
  <2>1. \A v \in Workers \ {w}: /\ pc'[v] = pc[v] /\ gen'[v] = gen[v]
                                /\ key'[v] = key[v] /\ outcome'[v] = outcome[v]
    <3>1. Leave(w) \/ Retry(w, "tick")
      BY <1>7 DEF RecordMissed
    <3> QED
      BY <1>h, <3>1 DEF Leave, Retry, Go, TypeInv, TickType
  <2>2. Hand(w)'
    <3>1. CASE w \in fresh
      BY <1>h, <1>7, <3>1 DEF RecordMissed, Unchanged, Leave, Go, Hand, TypeInv, TickType
    <3>2. CASE w \notin fresh
      BY <1>h, <1>s, <1>7, <3>2, HandRetried DEF RecordMissed, Unchanged, Steps
    <3> QED
      BY <3>1, <3>2
  <2> QED
    BY <1>h, <1>s, <2>1, <2>2, HandKept DEF HandInv
<1>8. ASSUME NEW w \in Workers, TryStart(w) PROVE HandInv'
  <2>1. \A v \in Workers \ {w}: /\ pc'[v] = pc[v] /\ gen'[v] = gen[v]
                                /\ key'[v] = key[v] /\ outcome'[v] = outcome[v]
    BY <1>h, <1>8 DEF TryStart, Enter, NoRead, ToPause, Decide, Read, TypeInv, TickType
  <2>2. Hand(w)'
    <3>1. Occurrence(w) \in Occurrences
      BY <1>h, <1>8, OccurrenceTyped DEF TryStart
    <3>2. key'[w] = key[w] /\ gen'[w] = gen[w] => Occurrence(w)' = Occurrence(w)
      BY DEF Occurrence
    <3> QED
      BY <1>h, <1>s, <1>8, <3>1, <3>2 DEF TryStart, Enter, NoRead, ToPause, Decide, Read,
         RunsStay, Outcomes, Hand, HandInv, TypeInv, TickType
  <2> QED
    BY <1>h, <1>s, <2>1, <2>2, HandKept DEF HandInv
<1>9. ASSUME NEW w \in Workers, StartRefused(w) PROVE HandInv'
  <2>1. \A v \in Workers \ {w}: /\ pc'[v] = pc[v] /\ gen'[v] = gen[v]
                                /\ key'[v] = key[v] /\ outcome'[v] = outcome[v]
    BY <1>h, <1>9 DEF StartRefused, ToPause, NoRead, TypeInv, TickType
  <2>2. Hand(w)'
    BY <1>h, <1>s, <1>9 DEF StartRefused, ToPause, NoRead, Hand, HandInv, TypeInv, TickType
  <2> QED
    BY <1>h, <1>s, <2>1, <2>2, HandKept DEF HandInv
<1>10. ASSUME NEW w \in Workers, AdmitRun(w) PROVE HandInv'
  <2>1. \A v \in Workers \ {w}: /\ pc'[v] = pc[v] /\ gen'[v] = gen[v]
                                /\ key'[v] = key[v] /\ outcome'[v] = outcome[v]
    BY <1>h, <1>10 DEF AdmitRun, Unchanged, Enter, Retry, Leave, ToPause, NoRead, TypeInv,
       TickType
  <2>2. Hand(w)'
    <3>1. CASE w \in fresh
      <4>1. Occurrence(w) \in Occurrences /\ Occurrence(w)' = Occurrence(w)
        BY <1>h, <1>10, <3>1, OccurrenceTyped DEF AdmitRun, Unchanged, Occurrence
      <4>2. runs'[Occurrence(w)] = "active"
        BY <1>h, <1>10, <3>1, <4>1 DEF AdmitRun, Unchanged, TypeInv, DocsType
      <4> QED
        BY <1>h, <1>10, <3>1, <4>1, <4>2 DEF AdmitRun, Unchanged, Enter, Go, Hand, HandInv,
           TypeInv, TickType
    <3>2. CASE w \notin fresh
      BY <1>h, <1>s, <1>10, <3>2, HandRetried DEF AdmitRun, Unchanged, Steps, ToPause, Go, Hand,
         HandInv, TypeInv, TickType
    <3> QED
      BY <3>1, <3>2
  <2> QED
    BY <1>h, <1>s, <2>1, <2>2, HandKept DEF HandInv
<1>11. ASSUME NEW w \in Workers, Launch(w) PROVE HandInv'
  <2>1. \A v \in Workers \ {w}: /\ pc'[v] = pc[v] /\ gen'[v] = gen[v]
                                /\ key'[v] = key[v] /\ outcome'[v] = outcome[v]
    BY <1>h, <1>11 DEF Launch, Decide, Enter, NoRead, TypeInv, TickType
  <2>2. Hand(w)'
    <3>1. Occurrence(w) \in Occurrences
      BY <1>h, <1>11, OccurrenceTyped DEF Launch
    <3>2. key'[w] = key[w] /\ gen'[w] = gen[w] => Occurrence(w)' = Occurrence(w)
      BY DEF Occurrence
    <3> QED
      BY <1>h, <1>s, <1>11, <3>1, <3>2 DEF Launch, Decide, Enter, NoRead, RunsStay, Outcomes,
         Hand, HandInv, TypeInv, TickType
  <2> QED
    BY <1>h, <1>s, <2>1, <2>2, HandKept DEF HandInv
<1>12. ASSUME NEW w \in Workers, LaunchUnknown(w) PROVE HandInv'
  <2>1. \A v \in Workers \ {w}: /\ pc'[v] = pc[v] /\ gen'[v] = gen[v]
                                /\ key'[v] = key[v] /\ outcome'[v] = outcome[v]
    BY <1>h, <1>12 DEF LaunchUnknown, Leave, NoRead, TypeInv, TickType
  <2>2. Hand(w)'
    BY <1>h, <1>s, <1>12 DEF LaunchUnknown, Leave, NoRead, Hand, HandInv, TypeInv, TickType
  <2> QED
    BY <1>h, <1>s, <2>1, <2>2, HandKept DEF HandInv
<1>13. ASSUME NEW w \in Workers, LaunchRejected(w) PROVE HandInv'
  <2>1. \A v \in Workers \ {w}: /\ pc'[v] = pc[v] /\ gen'[v] = gen[v]
                                /\ key'[v] = key[v] /\ outcome'[v] = outcome[v]
    BY <1>h, <1>13 DEF LaunchRejected, Decide, Enter, TypeInv, TickType
  <2>2. Hand(w)'
    <3>1. Occurrence(w) \in Occurrences
      BY <1>h, <1>13, OccurrenceTyped DEF LaunchRejected
    <3>2. key'[w] = key[w] /\ gen'[w] = gen[w] => Occurrence(w)' = Occurrence(w)
      BY DEF Occurrence
    <3> QED
      BY <1>h, <1>s, <1>13, <3>1, <3>2 DEF LaunchRejected, Decide, Enter, RunsStay, Outcomes,
         Hand, HandInv, TypeInv, TickType
  <2> QED
    BY <1>h, <1>s, <2>1, <2>2, HandKept DEF HandInv
<1>14. ASSUME NEW w \in Workers, ReadOutcome(w) PROVE HandInv'
  <2>1. \A v \in Workers \ {w}: /\ pc'[v] = pc[v] /\ gen'[v] = gen[v]
                                /\ key'[v] = key[v] /\ outcome'[v] = outcome[v]
    BY <1>h, <1>14 DEF ReadOutcome, Read, Leave, NoRead, EndController, TypeInv, TickType
  <2>2. Hand(w)'
    <3>1. Occurrence(w) \in Occurrences
      BY <1>h, <1>14, OccurrenceTyped DEF ReadOutcome
    <3>2. key'[w] = key[w] /\ gen'[w] = gen[w] => Occurrence(w)' = Occurrence(w)
      BY DEF Occurrence
    <3> QED
      BY <1>h, <1>s, <1>14, <3>1, <3>2 DEF ReadOutcome, Read, Leave, NoRead, EndController,
         RunsStay, Outcomes, Hand, HandInv, TypeInv, TickType
  <2> QED
    BY <1>h, <1>s, <2>1, <2>2, HandKept DEF HandInv
<1>15. ASSUME NEW w \in Workers, RecordOutcome(w) PROVE HandInv'
  <2>1. \A v \in Workers \ {w}: /\ pc'[v] = pc[v] /\ gen'[v] = gen[v]
                                /\ key'[v] = key[v] /\ outcome'[v] = outcome[v]
    BY <1>h, <1>15 DEF RecordOutcome, Unchanged, Leave, EndController, Retry, NoRead, TypeInv,
       TickType
  <2>2. Hand(w)'
    <3>1. CASE w \in fresh
      BY <1>h, <1>15, <3>1 DEF RecordOutcome, Unchanged, Leave, Go, Hand, TypeInv, TickType
    <3>2. CASE w \notin fresh
      BY <1>h, <1>s, <1>15, <3>2, HandRetried DEF RecordOutcome, Unchanged, Steps
    <3> QED
      BY <3>1, <3>2
  <2> QED
    BY <1>h, <1>s, <2>1, <2>2, HandKept DEF HandInv
<1>16. ASSUME NEW w \in Workers, ReadPause(w) PROVE HandInv'
  <2>1. \A v \in Workers \ {w}: /\ pc'[v] = pc[v] /\ gen'[v] = gen[v]
                                /\ key'[v] = key[v] /\ outcome'[v] = outcome[v]
    BY <1>h, <1>16 DEF ReadPause, Read, Leave, NoRead, EndController, TypeInv, TickType
  <2>2. Hand(w)'
    BY <1>h, <1>s, <1>16 DEF ReadPause, Read, Leave, NoRead, EndController, Hand, HandInv,
       TypeInv, TickType
  <2> QED
    BY <1>h, <1>s, <2>1, <2>2, HandKept DEF HandInv
<1>17. ASSUME NEW w \in Workers, Pause(w) PROVE HandInv'
  <2>1. \A v \in Workers \ {w}: /\ pc'[v] = pc[v] /\ gen'[v] = gen[v]
                                /\ key'[v] = key[v] /\ outcome'[v] = outcome[v]
    BY <1>h, <1>17 DEF Pause, Unchanged, Leave, EndController, Retry, NoRead, TypeInv, TickType
  <2>2. Hand(w)'
    <3>1. CASE w \in fresh
      BY <1>h, <1>17, <3>1 DEF Pause, Unchanged, Leave, Go, Hand, TypeInv, TickType
    <3>2. CASE w \notin fresh
      BY <1>h, <1>s, <1>17, <3>2, HandRetried DEF Pause, Unchanged, Steps
    <3> QED
      BY <3>1, <3>2
  <2> QED
    BY <1>h, <1>s, <2>1, <2>2, HandKept DEF HandInv
<1>18. ASSUME NEW w \in Workers, Crash(w) PROVE HandInv'
  <2>1. \A v \in Workers \ {w}: /\ pc'[v] = pc[v] /\ gen'[v] = gen[v]
                                /\ key'[v] = key[v] /\ outcome'[v] = outcome[v]
    BY <1>h, <1>18 DEF Crash, Leave, TypeInv, TickType
  <2>2. Hand(w)'
    BY <1>h, <1>s, <1>18 DEF Crash, Leave, Hand, HandInv, TypeInv, TickType
  <2> QED
    BY <1>h, <1>s, <2>1, <2>2, HandKept DEF HandInv
<1>19. CASE WriteEdit
  BY <1>h, <1>s, <1>19, HandKept DEF WriteEdit, HandInv
<1>20. CASE StartController
  BY <1>h, <1>s, <1>20, HandKept DEF StartController, HandInv
<1>21. CASE Acknowledge
  BY <1>h, <1>s, <1>21, HandKept DEF Acknowledge, NoRead, HandInv
<1>22. CASE Disable
  BY <1>h, <1>s, <1>22, HandKept DEF Disable, World, HandInv
<1>23. CASE StartByHand
  BY <1>h, <1>s, <1>23, HandKept DEF StartByHand, World, HandInv
<1>24. CASE RunEnds
  BY <1>h, <1>s, <1>24, HandKept DEF RunEnds, World, HandInv
<1>25. CASE ClockTicks
  BY <1>h, <1>s, <1>25, HandKept DEF ClockTicks, HandInv
<1>26. CASE UNCHANGED vars
  BY <1>h, <1>s, <1>26, HandKept DEF vars, HandInv
<1>27. CASE ReadEdit
  BY <1>h, <1>s, <1>27, HandKept DEF ReadEdit, World, HandInv
<1> QED
  BY <1>1, <1>2, <1>3, <1>4, <1>5, <1>6, <1>7, <1>8, <1>9, <1>10, <1>11, <1>12, <1>13, <1>14,
     <1>15, <1>16, <1>17, <1>18, <1>19, <1>20, <1>21, <1>22, <1>23, <1>24, <1>25, <1>26, <1>27 DEF
     Next, Tick, Owner

\* A tick that a step leaves alone still knows what it read.
LEMMA KnowsKept ==
    ASSUME TypeInv, NEW v \in Workers, Knows(v), UNCHANGED <<schedule, runs, manual>>,
           clock' \in {clock, clock + 1},
           pc'[v] = pc[v], gen'[v] = gen[v], key'[v] = key[v]
    PROVE  Knows(v)'
<1>1. clock \in Nat /\ clock' \in Nat /\ clock <= clock' /\ Due(schedule.next) \in Nat
  <2>1. clock \in Nat /\ schedule.next \in Nat
    BY ScheduleAssumption DEF TypeInv, DocsType, TickType, Records
  <2>2. Due(schedule.next) \in Nat
    BY <2>1, SlotTypes
  <2> QED
    BY <2>1, <2>2
<1>2. Due(schedule.next)' = Due(schedule.next) /\ Busy' = Busy
  BY DEF Due, Busy
<1> QED
  BY <1>1, <1>2 DEF Knows, Authorized, StillPending

\* Every write makes the copies of all other ticks stale.
LEMMA CopyStep == IInv /\ [Next]_vars => CopyInv'
<1> SUFFICES ASSUME IInv, [Next]_vars PROVE CopyInv'
  OBVIOUS
<1> USE ScheduleAssumption DEF docs, tick, Go
<1>h. TypeInv /\ ScheduleInv /\ HandInv /\ CopyInv
  BY DEF IInv
<1>1. ASSUME NEW w \in Workers, NEW g \in Generations, Deliver(w, g) PROVE CopyInv'
  <2>1. \A v \in Workers \ {w}: pc'[v] = pc[v] /\ gen'[v] = gen[v] /\ key'[v] = key[v]
    BY <1>h, <1>1 DEF Deliver, Enter, TypeInv, TickType
  <2>2. \/ fresh' = {}
        \/ fresh' \subseteq fresh \cup {w} /\ UNCHANGED <<schedule, runs, manual, clock>>
    BY <1>h, <1>1 DEF Deliver, Enter, World
  <2>3. w \in fresh' => Knows(w)'
    BY <1>h, <1>1 DEF Deliver, Enter, Knows, TypeInv, TickType
  <2> QED
    BY <1>h, <2>1, <2>2, <2>3, KnowsKept DEF CopyInv, TypeInv, DocsType
<1>2. ASSUME NEW w \in Workers, LookInVain(w) PROVE CopyInv'
  <2>1. \A v \in Workers \ {w}: pc'[v] = pc[v] /\ gen'[v] = gen[v] /\ key'[v] = key[v]
    BY <1>h, <1>2 DEF LookInVain, Leave, NoRead, EndController, TypeInv, TickType
  <2>2. \/ fresh' = {}
        \/ fresh' \subseteq fresh \cup {w} /\ UNCHANGED <<schedule, runs, manual, clock>>
    BY <1>h, <1>2 DEF LookInVain, Leave, NoRead, EndController, World
  <2>3. w \in fresh' => Knows(w)'
    BY <1>h, <1>2 DEF LookInVain, Leave, NoRead, EndController, Knows, TypeInv, TickType
  <2> QED
    BY <1>h, <2>1, <2>2, <2>3, KnowsKept DEF CopyInv, TypeInv, DocsType
<1>3. ASSUME NEW w \in Workers, LookAndPause(w) PROVE CopyInv'
  <2>1. \A v \in Workers \ {w}: pc'[v] = pc[v] /\ gen'[v] = gen[v] /\ key'[v] = key[v]
    BY <1>h, <1>3 DEF LookAndPause, ToPause, NoRead, TypeInv, TickType
  <2>2. \/ fresh' = {}
        \/ fresh' \subseteq fresh \cup {w} /\ UNCHANGED <<schedule, runs, manual, clock>>
    BY <1>h, <1>3 DEF LookAndPause, ToPause, NoRead, World
  <2>3. w \in fresh' => Knows(w)'
    BY <1>h, <1>3 DEF LookAndPause, ToPause, NoRead, Knows, TypeInv, TickType
  <2> QED
    BY <1>h, <2>1, <2>2, <2>3, KnowsKept DEF CopyInv, TypeInv, DocsType
<1>4. ASSUME NEW w \in Workers, Resume(w) PROVE CopyInv'
  <2>1. \A v \in Workers \ {w}: pc'[v] = pc[v] /\ gen'[v] = gen[v] /\ key'[v] = key[v]
    BY <1>h, <1>4 DEF Resume, Enter, NoRead, TypeInv, TickType
  <2>2. \/ fresh' = {}
        \/ fresh' \subseteq fresh \cup {w} /\ UNCHANGED <<schedule, runs, manual, clock>>
    BY <1>h, <1>4 DEF Resume, Enter, NoRead, World
  <2>3. w \in fresh' => Knows(w)'
    BY <1>h, <1>4 DEF Resume, Enter, NoRead, Knows, TypeInv, TickType
  <2> QED
    BY <1>h, <2>1, <2>2, <2>3, KnowsKept DEF CopyInv, TypeInv, DocsType
<1>5. ASSUME NEW w \in Workers, LookAtDue(w) PROVE CopyInv'
  <2>1. \A v \in Workers \ {w}: pc'[v] = pc[v] /\ gen'[v] = gen[v] /\ key'[v] = key[v]
    BY <1>h, <1>5 DEF LookAtDue, Read, TypeInv, TickType
  <2>2. \/ fresh' = {}
        \/ fresh' \subseteq fresh \cup {w} /\ UNCHANGED <<schedule, runs, manual, clock>>
    BY <1>h, <1>5 DEF LookAtDue, Read, World
  <2>3. w \in fresh' => Knows(w)'
    <3>1. /\ schedule.enabled /\ schedule.next # NoSlot /\ schedule.pending = NoSlot
          /\ clock >= Due(schedule.next)
      BY <1>h, <1>5 DEF LookAtDue, Stopped, ScheduleInv
    <3>2. Cardinality(MissedSlots(schedule, clock)) \in 0..(MaxOccurrences - schedule.consumed)
      BY <1>h, <3>1, MissedAreLeft
    <3>3. UNCHANGED <<schedule, clock>> /\ Due(schedule.next)' = Due(schedule.next)
      BY <1>5 DEF LookAtDue, Read, World, Due
    <3>4. /\ clock \in Nat /\ Due(schedule.next) \in Nat
          /\ schedule.consumed \in Nat /\ MaxOccurrences \in Nat
      BY <1>h, SlotTypes DEF TypeInv, DocsType, TickType, Records
    <3>5. \/ pc'[w] = "claim" /\ key'[w] = schedule.next
          \/ /\ pc'[w] = "miss" /\ key'[w] = Cardinality(MissedSlots(schedule, clock))
             /\ Cardinality(MissedSlots(schedule, clock)) > 0
      BY <1>h, <1>5 DEF LookAtDue, TypeInv, TickType
    <3> QED
      BY <3>1, <3>2, <3>3, <3>4, <3>5 DEF Knows
  <2> QED
    BY <1>h, <2>1, <2>2, <2>3, KnowsKept DEF CopyInv, TypeInv, DocsType
<1>6. ASSUME NEW w \in Workers, ClaimSlot(w) PROVE CopyInv'
  <2>1. \A v \in Workers \ {w}: pc'[v] = pc[v] /\ gen'[v] = gen[v] /\ key'[v] = key[v]
    BY <1>h, <1>6 DEF ClaimSlot, Unchanged, Enter, Retry, Leave, NoRead, TypeInv, TickType
  <2>2. \/ fresh' = {}
        \/ fresh' \subseteq fresh \cup {w} /\ UNCHANGED <<schedule, runs, manual, clock>>
    BY <1>h, <1>6 DEF ClaimSlot, Unchanged, Enter, Retry, Leave, NoRead, World
  <2>3. w \in fresh' => Knows(w)'
    BY <1>h, <1>6 DEF ClaimSlot, Unchanged, Enter, Retry, Leave, NoRead, Knows, TypeInv,
       TickType
  <2> QED
    BY <1>h, <2>1, <2>2, <2>3, KnowsKept DEF CopyInv, TypeInv, DocsType
<1>7. ASSUME NEW w \in Workers, RecordMissed(w) PROVE CopyInv'
  <2>1. \A v \in Workers \ {w}: pc'[v] = pc[v] /\ gen'[v] = gen[v] /\ key'[v] = key[v]
    <3>1. Leave(w) \/ Retry(w, "tick")
      BY <1>7 DEF RecordMissed
    <3> QED
      BY <1>h, <3>1 DEF Leave, Retry, TypeInv, TickType
  <2>2. \/ fresh' = {}
        \/ fresh' \subseteq fresh \cup {w} /\ UNCHANGED <<schedule, runs, manual, clock>>
    BY <1>h, <1>7 DEF RecordMissed, Unchanged, Leave, EndController, Retry, NoRead, World
  <2>3. w \in fresh' => Knows(w)'
    BY <1>h, <1>7 DEF RecordMissed, Unchanged, Leave, EndController, Retry, NoRead, Knows,
       TypeInv, TickType
  <2> QED
    BY <1>h, <2>1, <2>2, <2>3, KnowsKept DEF CopyInv, TypeInv, DocsType
<1>8. ASSUME NEW w \in Workers, TryStart(w) PROVE CopyInv'
  <2>1. \A v \in Workers \ {w}: pc'[v] = pc[v] /\ gen'[v] = gen[v] /\ key'[v] = key[v]
    BY <1>h, <1>8 DEF TryStart, Enter, NoRead, ToPause, Decide, Read, TypeInv, TickType
  <2>2. \/ fresh' = {}
        \/ fresh' \subseteq fresh \cup {w} /\ UNCHANGED <<schedule, runs, manual, clock>>
    BY <1>h, <1>8 DEF TryStart, Enter, NoRead, ToPause, Decide, Read, World
  <2>3. w \in fresh' => Knows(w)'
    <3>1. ASSUME pc'[w] = "admit" PROVE Authorized(w)' /\ ~Busy'
      BY <1>h, <1>8, <3>1 DEF TryStart, Enter, ToPause, Decide, Read, NoRead, Authorized, Busy,
         TypeInv, TickType
    <3>2. pc'[w] \notin {"claim", "miss", "record"}
      BY <1>h, <1>8 DEF TryStart, Enter, ToPause, Decide, TypeInv, TickType
    <3> QED
      BY <3>1, <3>2 DEF Knows
  <2> QED
    BY <1>h, <2>1, <2>2, <2>3, KnowsKept DEF CopyInv, TypeInv, DocsType
<1>9. ASSUME NEW w \in Workers, StartRefused(w) PROVE CopyInv'
  <2>1. \A v \in Workers \ {w}: pc'[v] = pc[v] /\ gen'[v] = gen[v] /\ key'[v] = key[v]
    BY <1>h, <1>9 DEF StartRefused, ToPause, NoRead, TypeInv, TickType
  <2>2. \/ fresh' = {}
        \/ fresh' \subseteq fresh \cup {w} /\ UNCHANGED <<schedule, runs, manual, clock>>
    BY <1>h, <1>9 DEF StartRefused, ToPause, NoRead, World
  <2>3. w \in fresh' => Knows(w)'
    BY <1>h, <1>9 DEF StartRefused, ToPause, NoRead, Knows, TypeInv, TickType
  <2> QED
    BY <1>h, <2>1, <2>2, <2>3, KnowsKept DEF CopyInv, TypeInv, DocsType
<1>10. ASSUME NEW w \in Workers, AdmitRun(w) PROVE CopyInv'
  <2>1. \A v \in Workers \ {w}: pc'[v] = pc[v] /\ gen'[v] = gen[v] /\ key'[v] = key[v]
    BY <1>h, <1>10 DEF AdmitRun, Unchanged, Enter, Retry, Leave, ToPause, NoRead, TypeInv,
       TickType
  <2>2. \/ fresh' = {}
        \/ fresh' \subseteq fresh \cup {w} /\ UNCHANGED <<schedule, runs, manual, clock>>
    BY <1>h, <1>10 DEF AdmitRun, Unchanged, Enter, Retry, Leave, ToPause, NoRead, World
  <2>3. w \in fresh' => Knows(w)'
    BY <1>h, <1>10 DEF AdmitRun, Unchanged, Enter, Retry, Leave, ToPause, NoRead, Knows,
       TypeInv, TickType
  <2> QED
    BY <1>h, <2>1, <2>2, <2>3, KnowsKept DEF CopyInv, TypeInv, DocsType
<1>11. ASSUME NEW w \in Workers, Launch(w) PROVE CopyInv'
  <2>1. \A v \in Workers \ {w}: pc'[v] = pc[v] /\ gen'[v] = gen[v] /\ key'[v] = key[v]
    BY <1>h, <1>11 DEF Launch, Decide, Enter, NoRead, TypeInv, TickType
  <2>2. \/ fresh' = {}
        \/ fresh' \subseteq fresh \cup {w} /\ UNCHANGED <<schedule, runs, manual, clock>>
    BY <1>h, <1>11 DEF Launch, Decide, Enter, NoRead, World
  <2>3. w \in fresh' => Knows(w)'
    BY <1>h, <1>11 DEF Launch, Decide, Enter, NoRead, Knows, TypeInv, TickType
  <2> QED
    BY <1>h, <2>1, <2>2, <2>3, KnowsKept DEF CopyInv, TypeInv, DocsType
<1>12. ASSUME NEW w \in Workers, LaunchUnknown(w) PROVE CopyInv'
  <2>1. \A v \in Workers \ {w}: pc'[v] = pc[v] /\ gen'[v] = gen[v] /\ key'[v] = key[v]
    BY <1>h, <1>12 DEF LaunchUnknown, Leave, NoRead, TypeInv, TickType
  <2>2. \/ fresh' = {}
        \/ fresh' \subseteq fresh \cup {w} /\ UNCHANGED <<schedule, runs, manual, clock>>
    BY <1>h, <1>12 DEF LaunchUnknown, Leave, NoRead
  <2>3. w \in fresh' => Knows(w)'
    BY <1>h, <1>12 DEF LaunchUnknown, Leave, NoRead, Knows, TypeInv, TickType
  <2> QED
    BY <1>h, <2>1, <2>2, <2>3, KnowsKept DEF CopyInv, TypeInv, DocsType
<1>13. ASSUME NEW w \in Workers, LaunchRejected(w) PROVE CopyInv'
  <2>1. \A v \in Workers \ {w}: pc'[v] = pc[v] /\ gen'[v] = gen[v] /\ key'[v] = key[v]
    BY <1>h, <1>13 DEF LaunchRejected, Decide, Enter, TypeInv, TickType
  <2>2. \/ fresh' = {}
        \/ fresh' \subseteq fresh \cup {w} /\ UNCHANGED <<schedule, runs, manual, clock>>
    BY <1>h, <1>13 DEF LaunchRejected, Decide, Enter, World
  <2>3. w \in fresh' => Knows(w)'
    BY <1>h, <1>13 DEF LaunchRejected, Decide, Enter, Knows, TypeInv, TickType
  <2> QED
    BY <1>h, <2>1, <2>2, <2>3, KnowsKept DEF CopyInv, TypeInv, DocsType
<1>14. ASSUME NEW w \in Workers, ReadOutcome(w) PROVE CopyInv'
  <2>1. \A v \in Workers \ {w}: pc'[v] = pc[v] /\ gen'[v] = gen[v] /\ key'[v] = key[v]
    BY <1>h, <1>14 DEF ReadOutcome, Read, Leave, NoRead, EndController, TypeInv, TickType
  <2>2. \/ fresh' = {}
        \/ fresh' \subseteq fresh \cup {w} /\ UNCHANGED <<schedule, runs, manual, clock>>
    BY <1>h, <1>14 DEF ReadOutcome, Read, Leave, NoRead, EndController, World
  <2>3. w \in fresh' => Knows(w)'
    BY <1>h, <1>14 DEF ReadOutcome, Read, Leave, NoRead, EndController, Knows, TypeInv,
       TickType, StillPending
  <2> QED
    BY <1>h, <2>1, <2>2, <2>3, KnowsKept DEF CopyInv, TypeInv, DocsType
<1>15. ASSUME NEW w \in Workers, RecordOutcome(w) PROVE CopyInv'
  <2>1. \A v \in Workers \ {w}: pc'[v] = pc[v] /\ gen'[v] = gen[v] /\ key'[v] = key[v]
    BY <1>h, <1>15 DEF RecordOutcome, Unchanged, Leave, EndController, Retry, NoRead, TypeInv,
       TickType
  <2>2. \/ fresh' = {}
        \/ fresh' \subseteq fresh \cup {w} /\ UNCHANGED <<schedule, runs, manual, clock>>
    BY <1>h, <1>15 DEF RecordOutcome, Unchanged, Leave, EndController, Retry, NoRead, World
  <2>3. w \in fresh' => Knows(w)'
    BY <1>h, <1>15 DEF RecordOutcome, Unchanged, Leave, EndController, Retry, NoRead, Knows,
       TypeInv, TickType
  <2> QED
    BY <1>h, <2>1, <2>2, <2>3, KnowsKept DEF CopyInv, TypeInv, DocsType
<1>16. ASSUME NEW w \in Workers, ReadPause(w) PROVE CopyInv'
  <2>1. \A v \in Workers \ {w}: pc'[v] = pc[v] /\ gen'[v] = gen[v] /\ key'[v] = key[v]
    BY <1>h, <1>16 DEF ReadPause, Read, Leave, NoRead, EndController, TypeInv, TickType
  <2>2. \/ fresh' = {}
        \/ fresh' \subseteq fresh \cup {w} /\ UNCHANGED <<schedule, runs, manual, clock>>
    BY <1>h, <1>16 DEF ReadPause, Read, Leave, NoRead, EndController, World
  <2>3. w \in fresh' => Knows(w)'
    BY <1>h, <1>16 DEF ReadPause, Read, Leave, NoRead, EndController, Knows, TypeInv, TickType
  <2> QED
    BY <1>h, <2>1, <2>2, <2>3, KnowsKept DEF CopyInv, TypeInv, DocsType
<1>17. ASSUME NEW w \in Workers, Pause(w) PROVE CopyInv'
  <2>1. \A v \in Workers \ {w}: pc'[v] = pc[v] /\ gen'[v] = gen[v] /\ key'[v] = key[v]
    BY <1>h, <1>17 DEF Pause, Unchanged, Leave, EndController, Retry, NoRead, TypeInv, TickType
  <2>2. \/ fresh' = {}
        \/ fresh' \subseteq fresh \cup {w} /\ UNCHANGED <<schedule, runs, manual, clock>>
    BY <1>h, <1>17 DEF Pause, Unchanged, Leave, EndController, Retry, NoRead, World
  <2>3. w \in fresh' => Knows(w)'
    BY <1>h, <1>17 DEF Pause, Unchanged, Leave, EndController, Retry, NoRead, Knows, TypeInv,
       TickType
  <2> QED
    BY <1>h, <2>1, <2>2, <2>3, KnowsKept DEF CopyInv, TypeInv, DocsType
<1>18. ASSUME NEW w \in Workers, Crash(w) PROVE CopyInv'
  <2>1. \A v \in Workers \ {w}: pc'[v] = pc[v] /\ gen'[v] = gen[v] /\ key'[v] = key[v]
    BY <1>h, <1>18 DEF Crash, Leave, TypeInv, TickType
  <2>2. \/ fresh' = {}
        \/ fresh' \subseteq fresh \cup {w} /\ UNCHANGED <<schedule, runs, manual, clock>>
    BY <1>h, <1>18 DEF Crash, Leave
  <2>3. w \in fresh' => Knows(w)'
    BY <1>h, <1>18 DEF Crash, Leave, Knows, TypeInv, TickType
  <2> QED
    BY <1>h, <2>1, <2>2, <2>3, KnowsKept DEF CopyInv, TypeInv, DocsType
<1>19. CASE WriteEdit
  BY <1>19 DEF WriteEdit, CopyInv
<1>20. CASE StartController
  <2>1. \/ fresh' = {}
        \/ /\ fresh' = fresh /\ UNCHANGED <<schedule, runs, manual>>
           /\ clock' \in {clock, clock + 1}
    BY <1>20 DEF StartController
  <2>2. UNCHANGED tick
    BY <1>20 DEF StartController
  <2> QED
    BY <1>h, <2>1, <2>2, KnowsKept DEF CopyInv, TypeInv, DocsType
<1>21. CASE Acknowledge
  <2>1. \/ fresh' = {}
        \/ /\ fresh' = fresh /\ UNCHANGED <<schedule, runs, manual>>
           /\ clock' \in {clock, clock + 1}
    BY <1>21 DEF Acknowledge, NoRead
  <2>2. UNCHANGED tick
    BY <1>21 DEF Acknowledge
  <2> QED
    BY <1>h, <2>1, <2>2, KnowsKept DEF CopyInv, TypeInv, DocsType
<1>22. CASE Disable
  <2>1. \/ fresh' = {}
        \/ /\ fresh' = fresh /\ UNCHANGED <<schedule, runs, manual>>
           /\ clock' \in {clock, clock + 1}
    BY <1>22 DEF Disable, World
  <2>2. UNCHANGED tick
    BY <1>22 DEF Disable
  <2> QED
    BY <1>h, <2>1, <2>2, KnowsKept DEF CopyInv, TypeInv, DocsType
<1>23. CASE StartByHand
  <2>1. \/ fresh' = {}
        \/ /\ fresh' = fresh /\ UNCHANGED <<schedule, runs, manual>>
           /\ clock' \in {clock, clock + 1}
    BY <1>23 DEF StartByHand, World
  <2>2. UNCHANGED tick
    BY <1>23 DEF StartByHand
  <2> QED
    BY <1>h, <2>1, <2>2, KnowsKept DEF CopyInv, TypeInv, DocsType
<1>24. CASE RunEnds
  <2>1. \/ fresh' = {}
        \/ /\ fresh' = fresh /\ UNCHANGED <<schedule, runs, manual>>
           /\ clock' \in {clock, clock + 1}
    BY <1>24 DEF RunEnds, World
  <2>2. UNCHANGED tick
    BY <1>24 DEF RunEnds
  <2> QED
    BY <1>h, <2>1, <2>2, KnowsKept DEF CopyInv, TypeInv, DocsType
<1>25. CASE ClockTicks
  <2>1. \/ fresh' = {}
        \/ /\ fresh' = fresh /\ UNCHANGED <<schedule, runs, manual>>
           /\ clock' \in {clock, clock + 1}
    BY <1>25 DEF ClockTicks
  <2>2. UNCHANGED tick
    BY <1>25 DEF ClockTicks
  <2> QED
    BY <1>h, <2>1, <2>2, KnowsKept DEF CopyInv, TypeInv, DocsType
<1>26. CASE UNCHANGED vars
  BY <1>h, <1>26, KnowsKept DEF vars, CopyInv, TypeInv, DocsType
<1>27. CASE ReadEdit
  <2>1. UNCHANGED <<schedule, runs, manual, fresh, clock>> /\ UNCHANGED tick
    BY <1>27 DEF ReadEdit, World
  <2> QED
    BY <1>h, <2>1, KnowsKept DEF CopyInv, TypeInv, DocsType
<1> QED
  BY <1>1, <1>2, <1>3, <1>4, <1>5, <1>6, <1>7, <1>8, <1>9, <1>10, <1>11, <1>12, <1>13, <1>14,
     <1>15, <1>16, <1>17, <1>18, <1>19, <1>20, <1>21, <1>22, <1>23, <1>24, <1>25, <1>26, <1>27 DEF
     Next, Tick, Owner

\* An admission takes the place of a workflow only while it is free.
LEMMA PlaceStep == IInv /\ [Next]_vars => PlaceInv'
<1> SUFFICES ASSUME IInv, [Next]_vars PROVE PlaceInv'
  OBVIOUS
<1> USE ScheduleAssumption DEF docs
<1>h. TypeInv /\ HandInv /\ CopyInv /\ PlaceInv
  BY DEF IInv
<1>1. ASSUME NEW w \in Workers, NEW g \in Generations, Deliver(w, g) PROVE PlaceInv'
  BY <1>h, <1>1 DEF Deliver, Enter, World, PlaceInv
<1>2. ASSUME NEW w \in Workers, LookInVain(w) PROVE PlaceInv'
  BY <1>h, <1>2 DEF LookInVain, Leave, NoRead, EndController, World, PlaceInv
<1>3. ASSUME NEW w \in Workers, LookAndPause(w) PROVE PlaceInv'
  BY <1>h, <1>3 DEF LookAndPause, ToPause, NoRead, World, PlaceInv
<1>4. ASSUME NEW w \in Workers, Resume(w) PROVE PlaceInv'
  BY <1>h, <1>4 DEF Resume, Enter, NoRead, World, PlaceInv
<1>5. ASSUME NEW w \in Workers, LookAtDue(w) PROVE PlaceInv'
  BY <1>h, <1>5 DEF LookAtDue, Read, World, PlaceInv
<1>6. ASSUME NEW w \in Workers, ClaimSlot(w) PROVE PlaceInv'
  BY <1>h, <1>6 DEF ClaimSlot, Unchanged, Enter, Retry, Leave, NoRead, World, PlaceInv
<1>7. ASSUME NEW w \in Workers, RecordMissed(w) PROVE PlaceInv'
  BY <1>h, <1>7 DEF RecordMissed, Unchanged, Leave, EndController, Retry, NoRead, World,
     PlaceInv
<1>8. ASSUME NEW w \in Workers, TryStart(w) PROVE PlaceInv'
  BY <1>h, <1>8 DEF TryStart, Enter, NoRead, ToPause, Decide, Read, World, PlaceInv
<1>9. ASSUME NEW w \in Workers, StartRefused(w) PROVE PlaceInv'
  BY <1>h, <1>9 DEF StartRefused, ToPause, NoRead, World, PlaceInv
<1>10. ASSUME NEW w \in Workers, AdmitRun(w) PROVE PlaceInv'
  <2>1. CASE w \in fresh
    <3>1. ~Busy
      BY <1>h, <1>10, <2>1 DEF AdmitRun, CopyInv, Knows
    <3>2. runs' = [runs EXCEPT ![Occurrence(w)] = "active"] /\ manual' = manual
      BY <1>10, <2>1 DEF AdmitRun, Unchanged
    <3> QED
      BY <1>h, <3>1, <3>2 DEF Busy, PlaceInv, TypeInv, DocsType
  <2>2. CASE w \notin fresh
    BY <1>h, <1>10, <2>2 DEF AdmitRun, Unchanged, NoRead, PlaceInv
  <2> QED
    BY <2>1, <2>2
<1>11. ASSUME NEW w \in Workers, Launch(w) PROVE PlaceInv'
  BY <1>h, <1>11 DEF Launch, Decide, Enter, NoRead, World, PlaceInv
<1>12. ASSUME NEW w \in Workers, LaunchUnknown(w) PROVE PlaceInv'
  BY <1>h, <1>12 DEF LaunchUnknown, Leave, NoRead, PlaceInv
<1>13. ASSUME NEW w \in Workers, LaunchRejected(w) PROVE PlaceInv'
  BY <1>h, <1>13, OccurrenceTyped DEF LaunchRejected, Decide, Enter, World, PlaceInv, TypeInv,
     DocsType
<1>14. ASSUME NEW w \in Workers, ReadOutcome(w) PROVE PlaceInv'
  BY <1>h, <1>14 DEF ReadOutcome, Read, Leave, NoRead, EndController, World, PlaceInv
<1>15. ASSUME NEW w \in Workers, RecordOutcome(w) PROVE PlaceInv'
  BY <1>h, <1>15 DEF RecordOutcome, Unchanged, Leave, EndController, Retry, NoRead, World,
     PlaceInv
<1>16. ASSUME NEW w \in Workers, ReadPause(w) PROVE PlaceInv'
  BY <1>h, <1>16 DEF ReadPause, Read, Leave, NoRead, EndController, World, PlaceInv
<1>17. ASSUME NEW w \in Workers, Pause(w) PROVE PlaceInv'
  BY <1>h, <1>17 DEF Pause, Unchanged, Leave, EndController, Retry, NoRead, World, PlaceInv
<1>18. ASSUME NEW w \in Workers, Crash(w) PROVE PlaceInv'
  BY <1>h, <1>18 DEF Crash, Leave, PlaceInv
<1>19. CASE WriteEdit
  BY <1>h, <1>19 DEF WriteEdit, PlaceInv
<1>20. CASE StartController
  BY <1>h, <1>20 DEF StartController, PlaceInv
<1>21. CASE Acknowledge
  BY <1>h, <1>21 DEF Acknowledge, NoRead, PlaceInv
<1>22. CASE Disable
  BY <1>h, <1>22 DEF Disable, World, PlaceInv
<1>23. CASE StartByHand
  BY <1>h, <1>23 DEF StartByHand, World, PlaceInv, Busy, TypeInv, DocsType
<1>24. CASE RunEnds
  BY <1>h, <1>24 DEF RunEnds, World, PlaceInv, TypeInv, DocsType
<1>25. CASE ClockTicks
  BY <1>h, <1>25 DEF ClockTicks, PlaceInv
<1>26. CASE UNCHANGED vars
  BY <1>h, <1>26 DEF vars, PlaceInv
<1>27. CASE ReadEdit
  BY <1>h, <1>27 DEF ReadEdit, PlaceInv
<1> QED
  BY <1>1, <1>2, <1>3, <1>4, <1>5, <1>6, <1>7, <1>8, <1>9, <1>10, <1>11, <1>12, <1>13, <1>14,
     <1>15, <1>16, <1>17, <1>18, <1>19, <1>20, <1>21, <1>22, <1>23, <1>24, <1>25, <1>26, <1>27 DEF
     Next, Tick, Owner

\* A slot is run by one generation: an edit starts after every slot that is due.
LEMMA RunStep == IInv /\ [Next]_vars => RunInv'
<1> SUFFICES ASSUME IInv, [Next]_vars PROVE RunInv'
  OBVIOUS
<1> USE ScheduleAssumption DEF docs
<1>h. TypeInv /\ ScheduleInv /\ HandInv /\ CopyInv /\ RunInv /\ DraftInv
  BY DEF IInv
<1>1. ASSUME NEW w \in Workers, NEW g \in Generations, Deliver(w, g) PROVE RunInv'
  BY <1>h, <1>1 DEF Deliver, Enter, World, RunInv
<1>2. ASSUME NEW w \in Workers, LookInVain(w) PROVE RunInv'
  BY <1>h, <1>2 DEF LookInVain, Leave, NoRead, EndController, World, RunInv
<1>3. ASSUME NEW w \in Workers, LookAndPause(w) PROVE RunInv'
  BY <1>h, <1>3 DEF LookAndPause, ToPause, NoRead, World, RunInv
<1>4. ASSUME NEW w \in Workers, Resume(w) PROVE RunInv'
  BY <1>h, <1>4 DEF Resume, Enter, NoRead, World, RunInv
<1>5. ASSUME NEW w \in Workers, LookAtDue(w) PROVE RunInv'
  BY <1>h, <1>5 DEF LookAtDue, Read, World, RunInv
<1>6. ASSUME NEW w \in Workers, ClaimSlot(w) PROVE RunInv'
  BY ZenonT(40), <1>h, <1>6 DEF ClaimSlot, Unchanged, Enter, Retry, Leave, NoRead, World, RunInv, TypeInv,
     DocsType, Records
<1>7. ASSUME NEW w \in Workers, RecordMissed(w) PROVE RunInv'
  <2>1. CASE w \in fresh
    <3>1. PICK results \in Seq(Outcomes): Took(results)
      BY <1>7, <2>1, MissedTaken DEF Took
    <3>2. /\ Len(results) \in Nat /\ schedule.next \in Nat
          /\ \A o \in Occurrences: o[2] \in Nat
      BY <1>h, <3>1, OccurrenceNumbers DEF TypeInv, DocsType, Records
    <3>3. /\ UNCHANGED <<runs, clock>>
          /\ schedule'.next # NoSlot => schedule'.next >= schedule.next
      BY <1>7, <2>1, <3>1, <3>2 DEF RecordMissed, Unchanged, World, Took, NoSlot
    <3> QED
      BY <1>h, <3>1, <3>2, <3>3 DEF RunInv, Took, Due
  <2>2. CASE w \notin fresh
    BY <1>h, <1>7, <2>2 DEF RecordMissed, Unchanged, NoRead, World, RunInv
  <2> QED
    BY <2>1, <2>2
<1>8. ASSUME NEW w \in Workers, TryStart(w) PROVE RunInv'
  BY <1>h, <1>8 DEF TryStart, Enter, NoRead, ToPause, Decide, Read, World, RunInv
<1>9. ASSUME NEW w \in Workers, StartRefused(w) PROVE RunInv'
  BY <1>h, <1>9 DEF StartRefused, ToPause, NoRead, World, RunInv
<1>10. ASSUME NEW w \in Workers, AdmitRun(w) PROVE RunInv'
  <2>1. CASE w \in fresh
    <3>1. /\ Authorized(w) /\ UNCHANGED <<schedule, clock>>
          /\ runs' = [runs EXCEPT ![Occurrence(w)] = "active"]
      BY <1>h, <1>10, <2>1 DEF AdmitRun, Unchanged, CopyInv, Knows, World
    <3>2. /\ Occurrence(w) \in Occurrences
          /\ Occurrence(w)[1] = gen[w] /\ Occurrence(w)[2] = key[w] /\ key[w] \in Slots
      BY <1>h, <1>10, OccurrenceTyped DEF AdmitRun, HandInv, Hand
    <3>3. /\ schedule.generation = gen[w] /\ schedule.next = key[w] /\ schedule.next # NoSlot
          /\ Due(key[w]) <= clock
      BY <1>h, <3>1, <3>2, SlotTypes DEF Authorized, ScheduleInv, NoSlot
    <3>4. gen[w] \in Nat /\ key[w] \in Nat /\ \A o \in Occurrences: o[2] \in Nat
      BY <1>h, <3>2, OccurrenceNumbers DEF TypeInv, TickType
    <3>5. \A o \in Occurrences: /\ o[2] = key[w] /\ o[1] = gen[w] => o = Occurrence(w)
                                /\ o[2] = key[w] /\ o[1] # gen[w] => runs[o] = "none"
      BY <1>h, <3>2, <3>3, <3>4 DEF RunInv, Occurrences, Occurrence
    <3>6. \A o \in Occurrences: runs'[o] # "none" => runs[o] # "none" \/ o = Occurrence(w)
      BY <1>h, <3>1 DEF TypeInv, DocsType
    <3>7. \A o1, o2 \in Occurrences: runs'[o1] # "none" /\ runs'[o2] # "none" /\ o1[2] = o2[2]
                                        => o1 = o2
      BY <1>h, <3>2, <3>5, <3>6 DEF RunInv
    <3>8. \A o \in Occurrences:
            runs'[o] # "none" => Due(o[2]) <= clock /\ o[1] <= schedule.generation
      BY <1>h, <3>2, <3>3, <3>4, <3>6 DEF RunInv
    <3>9. \A o \in Occurrences:
            runs'[o] # "none" /\ o[1] # schedule.generation => o[2] < schedule.next
      BY <1>h, <3>2, <3>3, <3>6 DEF RunInv
    <3> QED
      BY <3>1, <3>7, <3>8, <3>9 DEF RunInv, Due
  <2>2. CASE w \notin fresh
    BY <1>h, <1>10, <2>2 DEF AdmitRun, Unchanged, NoRead, World, RunInv
  <2> QED
    BY <2>1, <2>2
<1>11. ASSUME NEW w \in Workers, Launch(w) PROVE RunInv'
  BY <1>h, <1>11 DEF Launch, Decide, Enter, NoRead, World, RunInv
<1>12. ASSUME NEW w \in Workers, LaunchUnknown(w) PROVE RunInv'
  BY <1>h, <1>12 DEF LaunchUnknown, Leave, NoRead, RunInv
<1>13. ASSUME NEW w \in Workers, LaunchRejected(w) PROVE RunInv'
  BY <1>h, <1>13, OccurrenceTyped DEF LaunchRejected, Decide, Enter, World, RunInv, TypeInv,
     DocsType, Records
<1>14. ASSUME NEW w \in Workers, ReadOutcome(w) PROVE RunInv'
  BY <1>h, <1>14 DEF ReadOutcome, Read, Leave, NoRead, EndController, World, RunInv
<1>15. ASSUME NEW w \in Workers, RecordOutcome(w) PROVE RunInv'
  <2>1. CASE w \in fresh
    <3>1. PICK results \in Seq(Outcomes): Took(results)
      BY <1>15, <2>1, OutcomeTaken DEF Took
    <3>2. /\ Len(results) \in Nat /\ schedule.next \in Nat
          /\ \A o \in Occurrences: o[2] \in Nat
      BY <1>h, <3>1, OccurrenceNumbers DEF TypeInv, DocsType, Records
    <3>3. /\ UNCHANGED <<runs, clock>>
          /\ schedule'.next # NoSlot => schedule'.next >= schedule.next
      BY <1>15, <2>1, <3>1, <3>2 DEF RecordOutcome, Unchanged, World, Took, NoSlot
    <3> QED
      BY <1>h, <3>1, <3>2, <3>3 DEF RunInv, Took, Due
  <2>2. CASE w \notin fresh
    BY <1>h, <1>15, <2>2 DEF RecordOutcome, Unchanged, NoRead, World, RunInv
  <2> QED
    BY <2>1, <2>2
<1>16. ASSUME NEW w \in Workers, ReadPause(w) PROVE RunInv'
  BY <1>h, <1>16 DEF ReadPause, Read, Leave, NoRead, EndController, World, RunInv
<1>17. ASSUME NEW w \in Workers, Pause(w) PROVE RunInv'
  BY SMTT(30), <1>h, <1>17 DEF Pause, Unchanged, Leave, EndController, Retry, NoRead, World, RunInv,
     TypeInv, DocsType, Records
<1>18. ASSUME NEW w \in Workers, Crash(w) PROVE RunInv'
  BY <1>h, <1>18 DEF Crash, Leave, RunInv
<1>19. CASE WriteEdit
  <2>1. PICK now \in drafts: schedule' = Saved(schedule.generation + 1, now)
    BY <1>19 DEF WriteEdit
  <2>2. /\ clock \in Nat /\ now \in Nat /\ schedule.generation \in Nat
        /\ \A o \in Occurrences: o[2] \in Nat /\ o[1] \in Nat
    <3>1. clock \in Nat /\ now \in Nat /\ schedule.generation \in Nat
      BY <1>h, ScheduleAssumption DEF TypeInv, DocsType, TickType, Records, Generations
    <3> QED
      BY <3>1, OccurrenceNumbers
  <2>3. /\ schedule'.generation = schedule.generation + 1 /\ schedule'.next = FirstSlot(now)
        /\ UNCHANGED <<runs, clock>>
    BY <1>19, <2>1 DEF WriteEdit, Saved
  <2>4. \A o \in Occurrences: runs[o] # "none" => o[2] < FirstSlot(now)
    BY <1>h, <2>2, DueIsBefore DEF DraftInv
  <2> QED
    BY <1>h, <2>2, <2>3, <2>4 DEF RunInv, Due
<1>20. CASE StartController
  BY <1>h, <1>20 DEF StartController, RunInv
<1>21. CASE Acknowledge
  BY SMTT(30), <1>h, <1>21 DEF Acknowledge, NoRead, RunInv, TypeInv, DocsType, Records
<1>22. CASE Disable
  BY <1>h, <1>22 DEF Disable, World, RunInv, TypeInv, DocsType, Records
<1>23. CASE StartByHand
  BY <1>h, <1>23 DEF StartByHand, World, RunInv
<1>24. CASE RunEnds
  BY <1>h, <1>24 DEF RunEnds, World, RunInv, TypeInv, DocsType, Records
<1>25. CASE ClockTicks
  <2>1. clock \in Nat /\ clock' = clock + 1 /\ UNCHANGED <<schedule, runs>>
    BY <1>h, <1>25 DEF ClockTicks, TypeInv, TickType
  <2>2. \A o \in Occurrences: Due(o[2]) \in Nat
    BY SlotTypes DEF Occurrences
  <2> QED
    BY <1>h, <2>1, <2>2 DEF RunInv, Due
<1>26. CASE UNCHANGED vars
  BY <1>h, <1>26 DEF vars, RunInv
<1>27. CASE ReadEdit
  BY <1>h, <1>27 DEF ReadEdit, World, RunInv
<1> QED
  BY <1>1, <1>2, <1>3, <1>4, <1>5, <1>6, <1>7, <1>8, <1>9, <1>10, <1>11, <1>12, <1>13, <1>14,
     <1>15, <1>16, <1>17, <1>18, <1>19, <1>20, <1>21, <1>22, <1>23, <1>24, <1>25, <1>26, <1>27 DEF
     Next, Tick, Owner

\* An admission makes the copies of an edit stale, whose read was before it.
LEMMA DraftStep == IInv /\ [Next]_vars => DraftInv'
<1> SUFFICES ASSUME IInv, [Next]_vars PROVE DraftInv'
  OBVIOUS
<1>1. /\ clock \in Nat /\ drafts \subseteq Nat
      /\ \A o \in Occurrences: Due(o[2]) \in Nat
  <2>1. clock \in Nat /\ drafts \subseteq Nat
    BY ScheduleAssumption DEF IInv, TypeInv, DocsType, TickType
  <2>2. \A o \in Occurrences: Due(o[2]) \in Nat
    BY SlotTypes, OccurrenceNumbers
  <2> QED
    BY <2>1, <2>2
<1> DEFINE Kept == drafts' = {} \/ UNCHANGED <<drafts, runs>>
           Past == clock' \in {clock, clock + 1}
<1>2. Past /\ (Kept \/ ReadEdit)
  <2>1. ASSUME NEW w \in Workers, Tick(w) PROVE Past /\ Kept
    <3>1. ASSUME NEW g \in Generations, Deliver(w, g) PROVE Past /\ Kept
      BY <3>1 DEF Deliver, docs, World
    <3>2. CASE LookInVain(w) \/ LookAndPause(w) \/ Resume(w) \/ LookAtDue(w)
      BY <3>2 DEF LookInVain, LookAndPause, Resume, LookAtDue, Read, NoRead, docs, World
    <3>3. CASE ClaimSlot(w) \/ RecordMissed(w) \/ TryStart(w) \/ StartRefused(w) \/ AdmitRun(w)
      BY <3>3 DEF ClaimSlot, RecordMissed, TryStart, StartRefused, AdmitRun, Read, NoRead,
         docs, World
    <3>4. CASE Launch(w) \/ LaunchUnknown(w) \/ LaunchRejected(w)
      BY <3>4 DEF Launch, LaunchUnknown, LaunchRejected, NoRead, docs, World
    <3>5. CASE ReadOutcome(w) \/ RecordOutcome(w) \/ ReadPause(w) \/ Pause(w)
      BY <3>5 DEF ReadOutcome, RecordOutcome, ReadPause, Pause, Read, NoRead, docs, World
    <3> QED
      BY <2>1, <3>1, <3>2, <3>3, <3>4, <3>5 DEF Tick
  <2>2. ASSUME NEW w \in Workers, Crash(w) PROVE Past /\ Kept
    BY <2>2 DEF Crash, docs, World
  <2>3. ASSUME Owner PROVE Past /\ (Kept \/ ReadEdit)
    <3>1. CASE ReadEdit \/ WriteEdit
      BY <3>1 DEF ReadEdit, WriteEdit, World
    <3>2. CASE StartController
      <4>1. UNCHANGED docs /\ clock' = clock
        BY <3>2 DEF StartController
      <4> QED
        BY <4>1 DEF docs
    <3>4. CASE Acknowledge
      BY <3>4 DEF Acknowledge, NoRead, docs
    <3>3. CASE Disable \/ StartByHand
      BY <3>3 DEF Disable, StartByHand, World
    <3> QED
      BY <2>3, <3>1, <3>2, <3>3, <3>4 DEF Owner
  <2>4. CASE RunEnds \/ ClockTicks \/ UNCHANGED vars
    BY <2>4 DEF RunEnds, ClockTicks, vars, docs, World
  <2> HIDE DEF Kept, Past
  <2> QED
    BY <2>1, <2>2, <2>3, <2>4 DEF Next
<1>3. CASE drafts' = {}
  BY <1>3 DEF DraftInv
<1>4. CASE ReadEdit
  <2>1. drafts' = {clock} /\ UNCHANGED <<runs, clock>>
    BY <1>4 DEF ReadEdit, World
  <2>2. \A o \in Occurrences: runs[o] # "none" => Due(o[2]) <= clock
    BY DEF IInv, RunInv
  <2> QED
    BY <1>1, <2>1, <2>2 DEF DraftInv, Due
<1>5. CASE UNCHANGED <<drafts, runs>>
  <2>1. DraftInv
    BY DEF IInv
  <2>2. ASSUME NEW read \in drafts
        PROVE  read <= clock'
    <3>1. clock \in Int /\ read \in Int /\ read <= clock
      BY <1>1, <2>1 DEF DraftInv
    <3>2. clock' = clock \/ clock' = clock + 1
      BY <1>2
    <3> QED
      BY <3>1, <3>2
  <2>3. ASSUME NEW read \in drafts, NEW o \in Occurrences, runs[o] # "none"
        PROVE  Due(o[2]) <= read
    BY <2>1, <2>3 DEF DraftInv
  <2>4. drafts' = drafts /\ runs' = runs
    BY <1>5
  <2>5. \A read \in drafts': read <= clock'
    BY <2>2, <2>4
  <2>6. \A o \in Occurrences, read \in drafts': runs'[o] # "none" => Due(o[2]) <= read
    BY <2>3, <2>4
  <2> QED
    BY <2>5, <2>6 DEF DraftInv, Due
<1> QED
  BY <1>2, <1>3, <1>4, <1>5

\* The slots of a generation are pairs with it.
LEMMA OfGeneration ==
    ASSUME TypeInv, NEW slot \in Slots
    PROVE  <<schedule.generation, slot>> \in Occurrences
BY DEF TypeInv, DocsType, Records, Occurrences

\* A history that is not written stays complete.
LEMMA HistoryKept ==
    ASSUME TypeInv, HistoryInv, RunsStay,
           schedule'.generation = schedule.generation, schedule'.history = schedule.history,
           schedule'.consumed = schedule.consumed, schedule'.next = schedule.next,
           schedule'.first = schedule.first
    PROVE  HistoryInv'
<1>1. Slots' = Slots /\ NoSlot' = NoSlot
  OBVIOUS
<1>2. ASSUME NEW i \in 1..Len(schedule.history), schedule.history[i].outcome = "launched"
      PROVE  runs'[<<schedule.generation, schedule.history[i].slot>>] # "none"
  <2>1. schedule.history[i].slot \in Slots
    BY <1>2 DEF HistoryInv
  <2>2. runs[<<schedule.generation, schedule.history[i].slot>>] # "none"
    BY <1>2 DEF HistoryInv, HistoryComplete
  <2> QED
    BY <2>1, <2>2, OfGeneration DEF RunsStay
<1> QED
  BY <1>2 DEF HistoryInv, HistoryComplete

\* What is recorded of the next slots continues the history.
LEMMA HistoryContinued ==
    ASSUME TypeInv, HistoryInv, RunsStay, NEW results, Took(results),
           \A i \in 1..Len(results): results[i] = "launched"
               => /\ schedule.next + i - 1 \in Slots
                  /\ runs'[<<schedule.generation, schedule.next + i - 1>>] # "none"
    PROVE  HistoryInv'
<1> DEFINE old == schedule.history  new == Consumed(schedule.next, results)
           all == old \o new
           kept == IF Len(all) > MaxHistory THEN MaxHistory ELSE Len(all)
<1>1. /\ results \in Seq(Outcomes) /\ schedule.next \in Nat /\ schedule.next # NoSlot
      /\ old \in Seq(Entries) /\ schedule.consumed \in Nat /\ Len(results) \in Nat
      /\ schedule.first \in Nat /\ MaxHistory \in Nat \ {0}
  BY ScheduleAssumption DEF Took, TypeInv, DocsType, Records
<1>2. /\ new \in Seq(Entries) /\ Len(new) = Len(results)
      /\ \A i \in 1..Len(results):
            new[i].slot = schedule.next + i - 1 /\ new[i].outcome = results[i]
  BY <1>1, ConsumedEntries DEF Consumed
<1>3. /\ Len(old) \in Nat
      /\ Len(old) = IF schedule.consumed < MaxHistory THEN schedule.consumed ELSE MaxHistory
      /\ schedule.next = schedule.first + schedule.consumed
      /\ \A i \in 1..Len(old): /\ old[i].slot = schedule.next - Len(old) + i - 1
                               /\ old[i].outcome = "launched"
                                     => /\ old[i].slot \in Slots
                                        /\ runs[<<schedule.generation, old[i].slot>>] # "none"
  BY <1>1 DEF HistoryInv, HistoryComplete
<1>4. \A i \in 1..Len(old): old[i].outcome = "launched"
                              => runs'[<<schedule.generation, old[i].slot>>] # "none"
  BY <1>3, OfGeneration DEF RunsStay
<1>5. /\ schedule'.history = Recent(all) /\ schedule'.first = schedule.first
      /\ schedule'.consumed = schedule.consumed + Len(new)
      /\ schedule'.generation = schedule.generation
      /\ schedule'.next \in {NoSlot, schedule.next + Len(new)}
  BY <1>2 DEF Took
<1> HIDE DEF old, new
<1>6. /\ all \in Seq(Entries) /\ Len(all) = Len(old) + Len(new)
      /\ \A i \in 1..(Len(old) + Len(new)):
            all[i] = IF i <= Len(old) THEN old[i] ELSE new[i - Len(old)]
  <2>1. old \in Seq(Entries) /\ new \in Seq(Entries)
    BY <1>1, <1>2
  <2> QED
    BY <2>1, ConcatProperties
<1>n. Len(old) \in Nat /\ Len(new) \in Nat /\ Len(all) \in Nat /\ Len(new) = Len(results)
  BY <1>2, <1>3, <1>6, <1>1
<1> HIDE DEF all
<1>7. /\ Len(Recent(all)) = kept
      /\ \A i \in 1..kept: Recent(all)[i] = all[Len(all) - kept + i]
  BY <1>6, RecentEntries
<1>8. ASSUME NEW i \in 1..Len(all)
      PROVE  /\ all[i].slot = schedule.next - Len(old) + i - 1
             /\ all[i].outcome = "launched"
                   => /\ all[i].slot \in Slots
                      /\ runs'[<<schedule.generation, all[i].slot>>] # "none"
  <2>1. CASE i <= Len(old)
    <3>1. i \in 1..Len(old) /\ all[i] = old[i]
      BY <1>3, <1>6, <2>1
    <3> QED
      BY <1>3, <1>4, <3>1
  <2>2. CASE i > Len(old)
    <3>1. /\ i - Len(old) \in 1..Len(new) /\ i - Len(old) \in 1..Len(results)
          /\ all[i] = new[i - Len(old)]
      <4>1. i \in Nat /\ i <= Len(old) + Len(new) /\ i \in 1..(Len(old) + Len(new))
        BY <1>n, <1>6
      <4>2. i - Len(old) \in 1..Len(new)
        BY <1>n, <4>1, <2>2
      <4>3. ~(i <= Len(old))
        BY <1>n, <4>1, <2>2
      <4> QED
        BY <1>n, <1>6, <4>1, <4>2, <4>3
    <3>2. /\ all[i].slot = schedule.next + (i - Len(old)) - 1
          /\ all[i].outcome = results[i - Len(old)]
      BY <1>2, <3>1
    <3>3. all[i].slot = schedule.next - Len(old) + i - 1
      BY <1>1, <1>3, <3>2
    <3>4. all[i].outcome = "launched"
            => /\ all[i].slot \in Slots
               /\ runs'[<<schedule.generation, all[i].slot>>] # "none"
      BY <3>1, <3>2
    <3> QED
      BY <3>3, <3>4
  <2>3. i <= Len(old) \/ i > Len(old)
    BY <1>1, <1>2, <1>3, <1>6
  <2> QED
    BY <2>1, <2>2, <2>3
<1> DEFINE next == schedule.first + schedule'.consumed
<1>9. /\ Len(all) \in Nat /\ kept \in 0..Len(all)
      /\ kept = IF schedule'.consumed < MaxHistory THEN schedule'.consumed ELSE MaxHistory
      /\ next = schedule.next + Len(new) /\ Len(all) = Len(old) + Len(new)
      /\ next \in Nat
  <2>1. schedule'.consumed = schedule.consumed + Len(new) /\ schedule.consumed \in Nat
        /\ schedule.first \in Nat /\ MaxHistory \in Nat \ {0}
    BY <1>1, <1>5
  <2>2. Len(all) = Len(old) + Len(new)
    BY <1>6
  <2>3. next = schedule.next + Len(new) /\ next \in Nat
    BY <1>n, <1>3, <2>1
  <2>4. /\ kept \in 0..Len(all)
        /\ kept = IF schedule'.consumed < MaxHistory THEN schedule'.consumed ELSE MaxHistory
    BY <1>n, <1>3, <2>1, <2>2
  <2> QED
    BY <1>n, <2>2, <2>3, <2>4
<1> HIDE DEF kept, next
<1>10. ASSUME NEW i \in 1..kept
       PROVE  /\ Recent(all)[i].slot = next - kept + i - 1
              /\ Recent(all)[i].outcome = "launched"
                   => /\ Recent(all)[i].slot \in Slots
                      /\ runs'[<<schedule.generation, Recent(all)[i].slot>>] # "none"
  <2>1. Len(all) - kept + i \in 1..Len(all)
    BY <1>9
  <2>2. Recent(all)[i] = all[Len(all) - kept + i]
    BY <1>7
  <2>3. schedule.next - Len(old) + (Len(all) - kept + i) - 1 = next - kept + i - 1
    <3> DEFINE x == schedule.next  a == Len(old)  b == Len(new)  k == kept
    <3>1. /\ x \in Int /\ a \in Int /\ b \in Int /\ k \in Int /\ i \in Int
          /\ next = x + b /\ Len(all) = a + b
      BY <1>1, <1>n, <1>9
    <3> HIDE DEF x, a, b, k
    <3>2. x - a + ((a + b) - k + i) - 1 = (x + b) - k + i - 1
      BY <3>1
    <3>3. x - a + (Len(all) - k + i) - 1 = next - k + i - 1
      BY <3>1, <3>2, Zenon
    <3> QED
      BY <3>3 DEF x, a, b, k
  <2> QED
    BY <1>8, <2>1, <2>2, <2>3
<1>11. next = schedule'.first + schedule'.consumed /\ schedule'.next \in {NoSlot, next}
  BY <1>5, <1>9 DEF next
<1> QED
  BY <1>5, <1>7, <1>9, <1>10, <1>11 DEF HistoryInv, HistoryComplete

\* The history has each slot once and in order, whoever consumes it.
LEMMA HistoryStep == IInv /\ [Next]_vars => HistoryInv'
<1> SUFFICES ASSUME IInv, [Next]_vars PROVE HistoryInv'
  OBVIOUS
<1> USE ScheduleAssumption DEF docs
<1>h. TypeInv /\ ScheduleInv /\ HandInv /\ CopyInv /\ HistoryInv
  BY DEF IInv
<1>s. RunsStay
  BY RunsStayStep
<1>1. ASSUME NEW w \in Workers, NEW g \in Generations, Deliver(w, g) PROVE HistoryInv'
  BY <1>h, <1>s, <1>1, HistoryKept DEF Deliver
<1>2. ASSUME NEW w \in Workers, LookInVain(w) PROVE HistoryInv'
  BY <1>h, <1>s, <1>2, HistoryKept DEF LookInVain, Leave, NoRead, EndController, World
<1>3. ASSUME NEW w \in Workers, LookAndPause(w) PROVE HistoryInv'
  BY <1>h, <1>s, <1>3, HistoryKept DEF LookAndPause, ToPause, NoRead, World
<1>4. ASSUME NEW w \in Workers, Resume(w) PROVE HistoryInv'
  BY <1>h, <1>s, <1>4, HistoryKept DEF Resume, Enter, NoRead, World
<1>5. ASSUME NEW w \in Workers, LookAtDue(w) PROVE HistoryInv'
  BY <1>h, <1>s, <1>5, HistoryKept DEF LookAtDue, Read, World
<1>6. ASSUME NEW w \in Workers, ClaimSlot(w) PROVE HistoryInv'
  BY <1>h, <1>s, <1>6, HistoryKept DEF ClaimSlot, Unchanged, Enter, Retry, Leave, NoRead, World,
     TypeInv, DocsType, Records
<1>7. ASSUME NEW w \in Workers, RecordMissed(w) PROVE HistoryInv'
  <2>1. CASE w \in fresh
    <3>1. Took([i \in 1..key[w] |-> "missed"])
      BY <1>7, <2>1, MissedTaken
    <3>2. key[w] \in Nat
      BY <1>h DEF TypeInv, TickType
    <3> QED
      BY <1>h, <1>s, <3>1, <3>2, HistoryContinued
  <2>2. CASE w \notin fresh
    BY <1>h, <1>s, <1>7, <2>2, HistoryKept DEF RecordMissed, Unchanged, NoRead
  <2> QED
    BY <2>1, <2>2
<1>8. ASSUME NEW w \in Workers, TryStart(w) PROVE HistoryInv'
  BY <1>h, <1>s, <1>8, HistoryKept DEF TryStart, Enter, NoRead, ToPause, Decide, Read, World
<1>9. ASSUME NEW w \in Workers, StartRefused(w) PROVE HistoryInv'
  BY <1>h, <1>s, <1>9, HistoryKept DEF StartRefused, ToPause, NoRead, World
<1>10. ASSUME NEW w \in Workers, AdmitRun(w) PROVE HistoryInv'
  BY <1>h, <1>s, <1>10, HistoryKept DEF AdmitRun, Unchanged, Enter, Retry, Leave, ToPause,
     NoRead, World
<1>11. ASSUME NEW w \in Workers, Launch(w) PROVE HistoryInv'
  BY <1>h, <1>s, <1>11, HistoryKept DEF Launch, Decide, Enter, NoRead, World
<1>12. ASSUME NEW w \in Workers, LaunchUnknown(w) PROVE HistoryInv'
  BY <1>h, <1>s, <1>12, HistoryKept DEF LaunchUnknown, Leave, NoRead
<1>13. ASSUME NEW w \in Workers, LaunchRejected(w) PROVE HistoryInv'
  BY <1>h, <1>s, <1>13, HistoryKept DEF LaunchRejected, Decide, Enter, World
<1>14. ASSUME NEW w \in Workers, ReadOutcome(w) PROVE HistoryInv'
  BY <1>h, <1>s, <1>14, HistoryKept DEF ReadOutcome, Read, Leave, NoRead, EndController, World
<1>15. ASSUME NEW w \in Workers, RecordOutcome(w) PROVE HistoryInv'
  <2>1. CASE w \in fresh
    <3>1. Took(<<outcome[w]>>) /\ key[w] = schedule.next
      BY <1>15, <2>1, OutcomeTaken
    <3>2. schedule.generation = gen[w] /\ key[w] \in Nat /\ key[w] \in Slots
      BY <1>h, <1>15, <2>1 DEF RecordOutcome, CopyInv, Knows, StillPending, HandInv, Hand,
         TypeInv, TickType
    <3>3. outcome[w] = "launched" => runs'[<<schedule.generation, key[w]>>] # "none"
      <4>1. outcome[w] = "launched" => runs[Occurrence(w)] # "none"
        BY <1>h, <1>15 DEF RecordOutcome, HandInv, Hand
      <4> QED
        BY <1>h, <1>s, <3>2, <4>1, OfGeneration DEF Occurrence, RunsStay
    <3>4. /\ Len(<<outcome[w]>>) = 1 /\ <<outcome[w]>>[1] = outcome[w]
          /\ schedule.next + 1 - 1 = schedule.next
      BY <3>1, <3>2
    <3>5. \A i \in 1..1: i = 1
      OBVIOUS
    <3> QED
      BY <1>h, <1>s, <3>1, <3>2, <3>3, <3>4, <3>5, HistoryContinued
  <2>2. CASE w \notin fresh
    BY <1>h, <1>s, <1>15, <2>2, HistoryKept DEF RecordOutcome, Unchanged, NoRead
  <2> QED
    BY <2>1, <2>2
<1>16. ASSUME NEW w \in Workers, ReadPause(w) PROVE HistoryInv'
  BY <1>h, <1>s, <1>16, HistoryKept DEF ReadPause, Read, Leave, NoRead, EndController, World
<1>17. ASSUME NEW w \in Workers, Pause(w) PROVE HistoryInv'
  BY <1>h, <1>s, <1>17, HistoryKept DEF Pause, Unchanged, Leave, EndController, Retry, NoRead,
     World, TypeInv, DocsType, Records
<1>18. ASSUME NEW w \in Workers, Crash(w) PROVE HistoryInv'
  BY <1>h, <1>s, <1>18, HistoryKept DEF Crash, Leave
<1>19. CASE WriteEdit
  <2>1. PICK now \in drafts: schedule' = Saved(schedule.generation + 1, now)
    BY <1>19 DEF WriteEdit
  <2>2. now \in Nat /\ FirstSlot(now) \in Nat
    BY <1>h, FirstSlotRises DEF TypeInv, DocsType
  <2>3. /\ schedule'.history = <<>> /\ schedule'.consumed = 0
        /\ schedule'.first = FirstSlot(now) /\ schedule'.next = FirstSlot(now)
    BY <2>1 DEF Saved
  <2> QED
    BY <2>2, <2>3 DEF HistoryInv, HistoryComplete
<1>20. CASE StartController
  BY <1>h, <1>s, <1>20, HistoryKept DEF StartController
<1>21. CASE Acknowledge
  BY <1>h, <1>s, <1>21, HistoryKept DEF Acknowledge, NoRead, TypeInv, DocsType, Records
<1>22. CASE Disable
  BY <1>h, <1>s, <1>22, HistoryKept DEF Disable, World, TypeInv, DocsType, Records
<1>23. CASE StartByHand
  BY <1>h, <1>s, <1>23, HistoryKept DEF StartByHand, World
<1>24. CASE RunEnds
  BY <1>h, <1>s, <1>24, HistoryKept DEF RunEnds, World
<1>25. CASE ClockTicks
  BY <1>h, <1>s, <1>25, HistoryKept DEF ClockTicks
<1>26. CASE UNCHANGED vars
  BY <1>h, <1>s, <1>26, HistoryKept DEF vars
<1>27. CASE ReadEdit
  BY <1>h, <1>s, <1>27, HistoryKept DEF ReadEdit
<1> QED
  BY <1>1, <1>2, <1>3, <1>4, <1>5, <1>6, <1>7, <1>8, <1>9, <1>10, <1>11, <1>12, <1>13, <1>14,
     <1>15, <1>16, <1>17, <1>18, <1>19, <1>20, <1>21, <1>22, <1>23, <1>24, <1>25, <1>26, <1>27 DEF
     Next, Tick, Owner

-----------------------------------------------------------------------------
(* The invariant and what follows from it.                                   *)

\* The first save, before any controller ticks.
LEMMA Initially == Init => IInv
<1> SUFFICES ASSUME Init PROVE IInv
  OBVIOUS
<1> USE ScheduleAssumption DEF Init
<1>1. /\ FirstSlot(0) \in Nat \ {0}
      /\ FirstSlot(0) <= MaxClock \div Period + 1 /\ MaxClock \div Period \in Nat
  BY SlotTypes, FirstSlotRises
<1>2. 1 \in Generations /\ 0 \in 0..MaxClock /\ 0 \in 0..MaxOccurrences /\ 0 \in 0..MaxGeneration
      /\ 0 \in 0..(MaxTries - 1) /\ <<>> \in Seq(Entries)
  BY DEF Generations
<1>3. Saved(1, 0) \in Records
  BY <1>1, <1>2 DEF Saved, Records, NoSlot
<1>4. TypeInv
  BY <1>2, <1>3 DEF TypeInv, DocsType, TickType, Steps, NoSlot
<1>5. ScheduleInv
  BY <1>1 DEF ScheduleInv, Saved, NoSlot
<1>6. HandInv /\ CopyInv /\ RunInv /\ DraftInv /\ PlaceInv
  BY DEF HandInv, Hand, CopyInv, RunInv, DraftInv, PlaceInv
<1>7. HistoryInv
  BY <1>1 DEF HistoryInv, HistoryComplete, Saved
<1> QED
  BY <1>4, <1>5, <1>6, <1>7 DEF IInv

\* Every step of a tick, of the owner and of time keeps the invariant.
LEMMA Inductive == IInv /\ [Next]_vars => IInv'
BY DocsStep, TickStep, ScheduleStep, HandStep, CopyStep, RunStep, DraftStep, PlaceStep, HistoryStep
   DEF IInv, TypeInv

\* The inductive invariant holds in every reachable state.
THEOREM Invariant == Spec => []IInv
BY Initially, Inductive, PTL DEF Spec

\* Every reachable state is well typed, for any number of ticks, edits and faults.
THEOREM TypeCorrect == Spec => []TypeOK
<1>1. IInv => TypeOK
  <2> SUFFICES ASSUME IInv PROVE TypeOK
    OBVIOUS
  <2>1. schedule.next \in Slots \cup {NoSlot}
    BY NextIsSlot DEF IInv
  <2> QED
    BY <2>1 DEF IInv, TypeInv, DocsType, TickType, Records, ScheduleInv, TypeOK
<1> QED
  BY <1>1, Invariant, PTL

\* A set without two different members has one at most.
LEMMA OneAtMost ==
    ASSUME NEW S, \A x, y \in S: x = y
    PROVE  IsFiniteSet(S) /\ Cardinality(S) \in {0, 1}
<1>1. CASE S = {}
  BY <1>1, FS_EmptySet
<1>2. ASSUME NEW x \in S PROVE IsFiniteSet(S) /\ Cardinality(S) \in {0, 1}
  <2>1. S = {x}
    BY <1>2
  <2> QED
    BY <2>1, FS_Singleton
<1> QED
  BY <1>1, <1>2

\* A wall-clock slot is run by one generation of the schedule at most
\* (first_occurrence after an edit, and the claim of the next slot).
THEOREM SlotOnce == Spec => []SlotRunsOnce
<1>1. IInv => SlotRunsOnce
  <2> SUFFICES ASSUME IInv, NEW slot \in Slots
               PROVE  Cardinality({g \in Generations: runs[<<g, slot>>] # "none"}) <= 1
    BY DEF SlotRunsOnce
  <2> DEFINE run == {g \in Generations: runs[<<g, slot>>] # "none"}
  <2>1. \A g, h \in run: g = h
    BY DEF IInv, RunInv, Occurrences
  <2> HIDE DEF run
  <2>2. Cardinality(run) \in {0, 1}
    BY <2>1, OneAtMost
  <2> QED
    BY <2>2 DEF run
<1> QED
  BY <1>1, Invariant, PTL

\* The place of a workflow holds one run, scheduled or started by hand (the
\* conditional replace of the owner document in start).
THEOREM OneActive == Spec => []NoOverlap
<1>1. IInv => NoOverlap
  <2> SUFFICES ASSUME IInv PROVE NoOverlap
    OBVIOUS
  <2> DEFINE active == {o \in Occurrences: runs[o] = "active"}
  <2>1. /\ \A o, other \in active: o = other
        /\ manual = "active" => active = {}
    BY DEF IInv, PlaceInv
  <2> HIDE DEF active
  <2>2. Cardinality(active) \in {0, 1}
    BY <2>1, OneAtMost
  <2>3. manual = "active" => Cardinality(active) = 0
    BY <2>1, FS_EmptySet
  <2>4. Cardinality(active) + (IF manual = "active" THEN 1 ELSE 0) <= 1
    BY <2>2, <2>3
  <2> QED
    BY <2>4 DEF NoOverlap, active
<1> QED
  BY <1>1, Invariant, PTL

\* The history has the last slots of its generation, as many as it may keep, each
\* once and in order up to the next one (RecordOutcome and RecordMissed, the
\* callers of next_slot).
THEOREM HistoryKeptWhole == Spec => []HistoryComplete
<1>1. IInv => HistoryComplete
  BY DEF IInv, HistoryInv
<1> QED
  BY <1>1, Invariant, PTL

\* What admits an occurrence is the enabled, current schedule, and not the claim
\* of a tick (the batch of start replaces both documents).
THEOREM RevokedStaysOut == Spec => RevokedAdmitsNothing
<1> DEFINE Step(o) == runs[o] = "none" /\ runs'[o] # "none"
                        => schedule.enabled /\ schedule.generation = o[1]
<1>1. ASSUME IInv, Next, NEW o \in Occurrences PROVE Step(o)
  <2>1. ASSUME NEW w \in Workers, AdmitRun(w) PROVE Step(o)
    <3>1. CASE w \in fresh
      <4>1. schedule.enabled /\ schedule.generation = gen[w]
        BY <1>1, <2>1, <3>1 DEF IInv, AdmitRun, CopyInv, Knows, Authorized
      <4>2. runs' = [runs EXCEPT ![Occurrence(w)] = "active"]
        BY <2>1, <3>1 DEF AdmitRun, Unchanged
      <4>3. runs \in [Occurrences -> {"none", "active", "over"}]
        BY <1>1 DEF IInv, TypeInv, DocsType
      <4>4. o # Occurrence(w) => runs'[o] = runs[o]
        BY <4>2, <4>3
      <4>5. o = Occurrence(w) => o[1] = gen[w]
        BY DEF Occurrence
      <4> QED
        BY <4>1, <4>4, <4>5
    <3>2. CASE w \notin fresh
      BY <2>1, <3>2 DEF AdmitRun, Unchanged, NoRead, docs
    <3> QED
      BY <3>1, <3>2
  <2>2. ASSUME NEW w \in Workers, LaunchRejected(w) PROVE Step(o)
    BY <1>1, <2>2 DEF LaunchRejected, IInv, TypeInv, DocsType
  <2>3. CASE RunEnds
    BY <1>1, <2>3 DEF RunEnds, IInv, TypeInv, DocsType
  <2>4. CASE runs' = runs
    BY <2>4
  <2>5. \/ runs' = runs \/ RunEnds
        \/ \E w \in Workers: AdmitRun(w) \/ LaunchRejected(w)
    BY <1>1 DEF Next, Tick, Owner, Deliver, LookInVain, LookAndPause, Resume, LookAtDue,
       ClaimSlot, RecordMissed, TryStart, StartRefused, Launch, LaunchUnknown, ReadOutcome,
       RecordOutcome, ReadPause, Pause, Crash, ReadEdit, WriteEdit, StartController, Acknowledge,
       Disable, StartByHand, ClockTicks, NoRead, Read, docs
  <2> QED
    BY <2>1, <2>2, <2>3, <2>4, <2>5
<1>2. ASSUME IInv, [Next]_vars
      PROVE  [\A o \in Occurrences: Step(o)]_vars
  BY <1>1, <1>2
<1> QED
  BY <1>2, Invariant, PTL DEF Spec, RevokedAdmitsNothing
=============================================================================
