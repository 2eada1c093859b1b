------------------------- MODULE WorkflowRunSafety -------------------------
(* The safety properties of WorkflowRun, for every value of its constants:   *)
(* each follows from an inductive strengthening below, beside the types.     *)
EXTENDS WorkflowRunProofs, FiniteSetTheorems

-----------------------------------------------------------------------------
(* The way of an actor through its steps.                                    *)

\* Places that say nothing of an operation.
Quiet(p, h) ==
    \/ p \in {"idle", "create", "launch", "checked", "reload", "fence", "status", "finish", "reviewing", "approving"}
    \/ p \in {"flush", "record"} /\ h # "conclude"

\* How an actor comes to the places inside an operation.
Course(a) ==
    \/ Quiet(pc'[a], then'[a]) /\ (pc'[a] = "reload" => InOperation(a) \/ Acquire(a))
    \/ SameAt(a) /\ then'[a] = then[a] /\
        \/ Snapshot(a) /\ pc[a] = "flush" /\ pc'[a] = "record"
        \/ Record(a) /\ pc[a] = "record" /\ pc'[a] = "mark"
        \/ Mark(a) /\ pc[a] = "mark" /\ pc'[a] = "record"
    \/ SameAt(a) /\ Delivered(a) /\ pc[a] = "record" /\ then[a] = "conclude" /\ pc'[a] = "conclude"
    \/ a \in Workers /\ SameAt(a) /\
        \/ Begin(a) /\ Current(a) /\ pc[a] = "begin" /\ pc'[a] = "reserve"
        \/ Reserve(a) /\ pc[a] = "reserve" /\ pc'[a] = "recheck"
        \/ SaveClaim(a) /\ Current(a) /\ pc[a] = "recheck" /\ pc'[a] = "claim"
        \/ Claim(a) /\ pc[a] = "claim" /\ pc'[a] \in {"run", "before"}
        \/ Before(a) /\ pc[a] = "before" /\ pc'[a] = "hold"
        \/ Hold(a) /\ pc[a] = "hold" /\ pc'[a] \in {"refuse", "authorize"}
        \/ Refuse(a) /\ pc[a] = "refuse" /\ pc'[a] = "refused"
        \/ Authorize(a) /\ pc[a] = "authorize" /\ pc'[a] \in {"send", "abandon"}
        \/ Send(a) /\ pc[a] = "send" /\ pc'[a] = "answer"
        \/ (RunTool(a) \/ Answer(a)) /\ pc[a] \in {"run", "answer"} /\ pc'[a] = "flush" /\ then'[a] = "conclude"
        \/ ConcludeOperation(a) /\ pc[a] = "conclude" /\ pc'[a] = "keep"
        \/ SaveResult(a) /\ Current(a) /\ pc[a] = "keep" /\ pc'[a] = "raise"
    \/ a \in Workers /\ Acquire(a) /\ Current(a) /\ pc'[a] \in {"pause", "begin"}
    \/ a \in Workers /\ RaiseFloor(a) /\ pc[a] = "raise" /\ pc'[a] \in {"pause", "begin"}

Idles(a) == pc'[a] = pc[a] /\ then'[a] = then[a] /\ todo'[a] = todo[a] /\ SameAt(a)

\* When one execution follows its course, every other is where it was.
LEMMA OneCourse ==
  ASSUME NEW a \in Actors, Moved(a), Course(a) PROVE \A b \in Actors: Idles(b) \/ (Moved(b) /\ Course(b))
BY DEF Moved, Alone, Idles, SameAt

\* Each action moves its actor, along its course.
LEMMA ActorCourse ==
  ASSUME TypeInv
  PROVE  /\ \A w \in Workers: Advance(w) => Moved(w) /\ Course(w)
         /\ \A t \in Tabs: Ask(t) \/ Respond(t) => Moved(t) /\ Course(t)
         /\ \A a \in Actors: Crash(a) => Moved(a) /\ Course(a)
<1> USE DEF TypeInv, ActorOK, LocalOK, Actors, Terminal, Quiet, InOperation, Working
<1>0. ActorSets
  OBVIOUS
<1>1. ASSUME NEW a \in Actors, Fence(a) \/ SetStatus(a) \/ FinishHandle(a) \/ Record(a)
      PROVE Moved(a) /\ Course(a)
  BY <1>0, <1>1, Memory DEF Course, Fence, SetStatus, FinishHandle, Record, Places
<1>2. ASSUME NEW a \in Actors, Snapshot(a) PROVE Moved(a) /\ Course(a)
  BY <1>2, SnapshotMoves DEF Course, Snapshot
<1>3. ASSUME NEW a \in Actors, Mark(a) PROVE Moved(a) /\ Course(a)
  <2>1. pc'[a] = "reload" => then[a] = "conclude"
    <3>1. Leave(a) => pc'[a] = "idle"
      BY <1>0, Memory
    <3>2. Step(a, "record") => pc'[a] = "record"
      BY <1>0 DEF Step, ActorSets
    <3> QED
      BY <1>3, <3>1, <3>2 DEF Mark
  <2> QED
    BY <1>3, <2>1, MarkMoves DEF Course, Mark
<1>4. ASSUME NEW a \in Actors, Delivered(a) PROVE Moved(a) /\ Course(a)
  BY <1>4, DeliveredMoves DEF Course, Delivered
<1>5. ASSUME NEW t \in Tabs, Ask(t) PROVE Moved(t) /\ Course(t)
  BY <1>0, <1>5, Memory DEF Course, Ask, Admit, Cancel, Refusal, ReadDraft, ClearConversation, Request, Places
<1>6. ASSUME NEW t \in Tabs, Starting(t) \/ Review(t) \/ Approve(t) PROVE Moved(t) /\ Course(t)
  BY <1>0, <1>6, Memory
  DEF Course, Starting, CreateCheckpoint, Launch, LaunchUnknown, LaunchRejected, Review, Approve, Places
<1>7. ASSUME NEW w \in Workers, AdvanceOver(w) \/ AdvanceLate(w) \/ AdvanceExpired(w) \/ AdvanceReady(w)
      PROVE Moved(w) /\ Course(w)
  BY <1>0, <1>7, Memory DEF Course, AdvanceOver, AdvanceLate, AdvanceExpired, AdvanceReady, Places
<1>8. ASSUME NEW w \in Workers, PolicyDenied(w) \/ SignInNeeded(w) \/ ContextRevoked(w)
      PROVE Moved(w) /\ Course(w)
  BY <1>0, <1>8, Memory DEF Course, PolicyDenied, SignInNeeded, ContextRevoked
<1>9. ASSUME NEW w \in Workers, Acquire(w) \/ Pause(w) PROVE Moved(w) /\ Course(w)
  BY <1>9, AcquireMoves, PauseMoves DEF Course, Pause
<1>10. ASSUME NEW w \in Workers, Begin(w) PROVE Moved(w) /\ Course(w)
  <2>1. "reserve" \in Places
    BY DEF Places, Working
  <2> QED
    BY <1>0, <1>10, <2>1, Memory DEF Course, Begin, CheckAndSave, Permitted
<1>11. ASSUME NEW w \in Workers, SaveClaim(w) PROVE Moved(w) /\ Course(w)
  <2>1. "claim" \in Places
    BY DEF Places, Working
  <2> QED
    BY <1>0, <1>11, <2>1, Memory DEF Course, SaveClaim, CheckAndSave, Permitted
<1>12. ASSUME NEW w \in Workers, Reserve(w) \/ Claim(w) \/ Before(w) PROVE Moved(w) /\ Course(w)
  <2>1. {"recheck", "run", "before", "hold"} \subseteq Places
    BY DEF Places, Working
  <2> QED
    BY <1>0, <1>12, <2>1, Memory DEF Course, Reserve, Claim, Before
<1>13. ASSUME NEW w \in Workers, Hold(w) \/ Refuse(w) \/ Authorize(w) \/ Send(w) PROVE Moved(w) /\ Course(w)
  <2>1. {"refuse", "authorize", "refused", "send", "abandon", "answer"} \subseteq Places
    BY DEF Places, Working
  <2> QED
    BY <1>0, <1>13, <2>1, Memory DEF Course, Hold, Refuse, Authorize, Send
<1>14. ASSUME NEW w \in Workers, SaveRefused(w) \/ Abandon(w) \/ Interrupted(w) PROVE Moved(w) /\ Course(w)
  BY <1>0, <1>14, Memory DEF Course, SaveRefused, Abandon, Interrupted
<1>15. ASSUME NEW w \in Workers, Answer(w) PROVE Moved(w) /\ Course(w)
  BY <1>0, <1>15, Memory DEF Course, Answer
<1>16. ASSUME NEW w \in Workers, RunTool(w) PROVE Moved(w) /\ Course(w)
  BY <1>16, RunToolMoves DEF Course, RunTool
<1>17. ASSUME NEW w \in Workers, ConcludeOperation(w) \/ SaveResult(w) PROVE Moved(w) /\ Course(w)
  <2>1. {"keep", "raise"} \subseteq Places
    BY DEF Places, Working
  <2> QED
    BY <1>0, <1>17, <2>1, Memory DEF Course, ConcludeOperation, SaveResult
<1>18. ASSUME NEW w \in Workers, RaiseFloor(w) PROVE Moved(w) /\ Course(w)
  BY <1>18, RaiseFloorMoves DEF Course, RaiseFloor
<1>19. ASSUME NEW w \in Workers, Close(w) PROVE Moved(w) /\ Course(w)
  BY <1>0, <1>19, Memory DEF Course, Close, Following
<1>20. ASSUME NEW a \in Actors, Crash(a) PROVE Moved(a) /\ Course(a)
  BY <1>0, <1>20, Memory DEF Course, Crash
<1> QED
  BY <1>1, <1>2, <1>3, <1>4, <1>5, <1>6, <1>7, <1>8, <1>9, <1>10, <1>11, <1>12, <1>13, <1>14, <1>15, <1>16, <1>17,
     <1>18, <1>19, <1>20
  DEF Respond, Advance, Ending

\* Every step moves one actor at most, along its course.
LEMMA Courses ==
  ASSUME TypeInv, Next PROVE \A b \in Actors: Idles(b) \/ (Moved(b) /\ Course(b))
<1>1. (LeaseExpires \/ DeadlinePasses \/ DraftExpires) => \A b \in Actors: Idles(b)
  BY DEF LeaseExpires, DeadlinePasses, DraftExpires, Idles, SameAt, actorVars
<1> QED
  BY <1>1, ActorCourse, OneCourse DEF Next, Outside, Actors

\* An execution moves only by a step of its own.
LEMMA OwnStep ==
  ASSUME TypeInv, Next, NEW w \in Workers
  PROVE  Idles(w) \/ Advance(w) \/ Crash(w)
<1>1. (LeaseExpires \/ DeadlinePasses \/ DraftExpires) => Idles(w)
  BY DEF LeaseExpires, DeadlinePasses, DraftExpires, Idles, SameAt, actorVars
<1>2. ASSUME NEW a \in Actors, a # w, Alone(a) PROVE Idles(w)
  BY <1>2 DEF Alone, Idles, SameAt, Actors
<1> QED
  BY <1>1, <1>2, ActorCourse, RunAssumption DEF Next, Outside, Moved, Actors

-----------------------------------------------------------------------------
(* One execution owns an operation, from its claim to its floor.             *)

AfterClaim == {"run", "before", "hold", "refuse", "refused", "authorize", "send", "answer", "abandon",
               "conclude", "keep", "raise"}

BeforeSend == {"run", "before", "hold", "refuse", "authorize", "send"}

Claimed(w) == pc[w] \in AfterClaim \/ (pc[w] \in {"flush", "record", "mark"} /\ then[w] = "conclude")

Taken == {"dispatched", "complete", "unknown"}

\* What was sent once can never be claimed again: its effect says so, or, when the
\* effect is pruned, the floor does.
OnceInv ==
    /\ \A w \in Workers: Claimed(w) => logical[at[w]] \in Taken
    /\ \A v, w \in Workers: Claimed(v) /\ Claimed(w) /\ at[v] = at[w] => v = w
    /\ \A w \in Workers: pc[w] \in BeforeSend => egress[at[w]] = 0
    /\ \A op \in Ops: egress[op] > 0 => logical[op] \in Taken \/ (logical[op] = "none" /\ op <= handle.floor)
    /\ \A op \in Ops: egress[op] <= 1

\* A step that sends nothing and claims nothing keeps the ledger of claims.
LEMMA OnceStep ==
  ASSUME OnceInv, NEW a \in Actors, Alone(a), UNCHANGED <<logical, egress>>, handle'.floor = handle.floor,
         a \in Workers /\ Claimed(a)' => Claimed(a) /\ at'[a] = at[a],
         a \in Workers /\ pc'[a] \in BeforeSend => pc[a] \in BeforeSend
  PROVE  OnceInv'
<1>1. \A w \in Workers: Claimed(w)' => Claimed(w) /\ at'[w] = at[w]
  BY DEF Alone, Claimed, Actors
<1>2. \A w \in Workers: pc'[w] \in BeforeSend => pc[w] \in BeforeSend
  BY DEF Alone, Actors
<1>3. \A w \in Workers: pc'[w] \in BeforeSend => Claimed(w)'
  BY DEF BeforeSend, Claimed, AfterClaim
<1> QED
  BY <1>1, <1>2, <1>3 DEF OnceInv

\* No step of a run sends an operation a second time.
LEMMA OnceNext ==
  ASSUME TypeInv, OnceInv, Next PROVE OnceInv'
<1> USE DEF TypeInv, ActorOK, Actors, SameAt
<1>0. ActorSets
  OBVIOUS
<1>1. ASSUME NEW a \in Actors, Fence(a) \/ SetStatus(a) \/ FinishHandle(a) \/ Record(a) PROVE OnceInv'
  <2>1. handle'.floor = handle.floor /\ UNCHANGED <<logical, egress>>
    BY <1>1 DEF Fence, SetStatus, FinishHandle, Record, SameRun, ownerVars, worldVars, OwnerOK
  <2> QED
    BY <1>0, <1>1, <2>1, Memory, OnceStep
    DEF Moved, Claimed, AfterClaim, BeforeSend, Fence, SetStatus, FinishHandle, Record, Places, LocalOK
<1>2. ASSUME NEW a \in Actors, Snapshot(a) \/ Mark(a) \/ Delivered(a) PROVE OnceInv'
  <2>1. handle'.floor = handle.floor /\ UNCHANGED <<logical, egress>>
    BY <1>2 DEF Snapshot, Mark, Delivered, SameRun, ownerVars, worldVars
  <2> QED
    BY <1>0, <1>2, <2>1, SnapshotMoves, MarkMoves, DeliveredMoves, OnceStep
    DEF Moved, Claimed, AfterClaim, BeforeSend, Snapshot, Mark, Delivered
<1>3. ASSUME NEW t \in Tabs, Ask(t) PROVE OnceInv'
  <2>1. handle'.floor = handle.floor /\ UNCHANGED <<logical, egress>>
    BY <1>3 DEF Ask, Admit, Cancel, Refusal, ReadDraft, ClearConversation, Request, ownerVars, worldVars, OwnerOK
  <2> QED
    BY <1>0, <1>3, <2>1, Memory, OnceStep, RunAssumption
    DEF Moved, Ask, Admit, Cancel, Refusal, ReadDraft, ClearConversation, Request, Places, Terminal
<1>4. ASSUME NEW t \in Tabs, Starting(t) \/ Review(t) \/ Approve(t) PROVE OnceInv'
  <2>1. handle'.floor = handle.floor /\ UNCHANGED <<logical, egress>>
    BY <1>4 DEF Starting, CreateCheckpoint, Launch, LaunchUnknown, LaunchRejected, Review, Approve, SameRun, ownerVars,
                worldVars
  <2> QED
    BY <1>0, <1>4, <2>1, Memory, OnceStep, RunAssumption
    DEF Moved, Starting, CreateCheckpoint, Launch, LaunchUnknown, LaunchRejected, Review, Approve, Places
<1>5. ASSUME Outside PROVE OnceInv'
  <2>1. ASSUME NEW a \in Actors, Crash(a) PROVE OnceInv'
    BY <1>0, <2>1, Memory, OnceStep DEF Moved, Claimed, AfterClaim, BeforeSend, Crash, ownerVars, worldVars
  <2>2. CASE LeaseExpires \/ DeadlinePasses \/ DraftExpires
    BY <2>2 DEF LeaseExpires, DeadlinePasses, DraftExpires, OnceInv, Claimed, actorVars, ownerVars, worldVars
  <2> QED
    BY <1>5, <2>1, <2>2 DEF Outside
<1>6. ASSUME NEW w \in Workers, \/ AdvanceOver(w) \/ AdvanceLate(w) \/ AdvanceExpired(w) \/ AdvanceReady(w)
                                \/ PolicyDenied(w) \/ SignInNeeded(w) \/ ContextRevoked(w)
      PROVE OnceInv'
  <2>1. handle'.floor = handle.floor /\ UNCHANGED <<logical, egress>>
    BY <1>6 DEF AdvanceOver, AdvanceLate, AdvanceExpired, AdvanceReady, Advancing, PolicyDenied, SignInNeeded,
                ContextRevoked, SameRun, ownerVars, worldVars
  <2>2. Moved(w) /\ (pc'[w] \in {"idle", "fence", "checked"} \/ (pc'[w] = "flush" /\ then'[w] = "finish"))
    BY <1>0, <1>6, Memory
    DEF AdvanceOver, AdvanceLate, AdvanceExpired, AdvanceReady, PolicyDenied, SignInNeeded, ContextRevoked, Places,
        Terminal
  <2> QED
    BY <2>1, <2>2, OnceStep DEF Moved, Claimed, AfterClaim, BeforeSend
<1>7. ASSUME NEW w \in Workers, Acquire(w) \/ Pause(w) \/ Close(w) PROVE OnceInv'
  <2>1. handle'.floor = handle.floor /\ UNCHANGED <<logical, egress>>
    BY <1>7 DEF Acquire, Pause, Close, SameRun, ownerVars, worldVars
  <2>2. Close(w) => Moved(w) /\ (pc'[w] = "idle" \/ (pc'[w] = "flush" /\ then'[w] \in {"finish", "idle"}))
    BY <1>0, Memory DEF Close, Following, LocalOK
  <2> QED
    BY <1>7, <2>1, <2>2, AcquireMoves, PauseMoves, OnceStep DEF Moved, Claimed, AfterClaim, BeforeSend
<1>8. ASSUME NEW w \in Workers, Begin(w) \/ SaveClaim(w) PROVE OnceInv'
  <2>1. handle'.floor = handle.floor /\ UNCHANGED <<logical, egress>>
    BY <1>8 DEF Begin, SaveClaim, CheckAndSave, SameRun, ownerVars, worldVars
  <2>2. Moved(w) /\ pc'[w] \in {"reserve", "claim", "reload"}
    BY <1>0, <1>8, Memory DEF Begin, SaveClaim, CheckAndSave, Places, Working
  <2> QED
    BY <2>1, <2>2, OnceStep DEF Moved, Claimed, AfterClaim, BeforeSend
<1>9. ASSUME NEW w \in Workers, \/ Before(w) \/ Hold(w) \/ SaveRefused(w) \/ Authorize(w) \/ Answer(w) \/ Abandon(w)
                                \/ Interrupted(w) \/ SaveResult(w)
      PROVE OnceInv'
  <2>1. handle'.floor = handle.floor /\ UNCHANGED <<logical, egress>>
    BY <1>9 DEF Before, Hold, SaveRefused, Authorize, Answer, Abandon, Interrupted, SaveResult, SameRun, ownerVars, worldVars
  <2>2. Before(w) => Moved(w) /\ SameAt(w) /\ pc[w] = "before" /\ pc'[w] \in {"hold", "reload"}
    BY <1>0, Memory DEF Before, Places, Working
  <2>3. Hold(w) => Moved(w) /\ SameAt(w) /\ pc[w] = "hold" /\ pc'[w] \in {"refuse", "authorize", "reload"}
    BY <1>0, Memory DEF Hold, Places, Working
  <2>4. Authorize(w) => Moved(w) /\ SameAt(w) /\ pc[w] = "authorize" /\ pc'[w] \in {"send", "abandon"}
    BY <1>0, Memory DEF Authorize, Places, Working
  <2>5. Answer(w) => Moved(w) /\ SameAt(w) /\ pc[w] = "answer" /\ pc'[w] = "flush"
    BY <1>0, Memory DEF Answer
  <2>6. SaveResult(w) => Moved(w) /\ SameAt(w) /\ pc[w] = "keep" /\ pc'[w] \in {"raise", "reload"}
    BY <1>0, Memory DEF SaveResult, Places, Working
  <2>7. SaveRefused(w) \/ Abandon(w) \/ Interrupted(w) => Moved(w) /\ pc'[w] \in {"reload", "fence"}
    BY <1>0, Memory DEF SaveRefused, Abandon, Interrupted, Terminal
  <2> QED
    BY <1>9, <2>1, <2>2, <2>3, <2>4, <2>5, <2>6, <2>7, OnceStep DEF Moved, Claimed, AfterClaim, BeforeSend
<1>10. ASSUME NEW w \in Workers, Reserve(w) PROVE OnceInv'
  <2>1. Moved(w) /\ pc[w] = "reserve" /\ pc'[w] \in {"recheck", "reload"} /\ UNCHANGED <<egress, handle>>
    BY <1>0, <1>10, Memory DEF Reserve, Places, Working, SameRun, worldVars
  <2>2. at[w] \in Ops
    BY <2>1 DEF LocalOK, InOperation, Working
  <2>3. CASE UNCHANGED logical
    BY <2>1, <2>3, OnceStep DEF Moved, Claimed, AfterClaim, BeforeSend
  <2>4. CASE logical' = [logical EXCEPT ![at[w]] = "reserved"] /\ logical[at[w]] \in {"none", "reserved"}
             /\ at[w] > handle.floor
    <3>1. handle.floor \in 0..Last /\ at[w] \in 0..Last
      BY <1>0 DEF OwnerOK, ActorSets
    <3>2. egress[at[w]] = 0
      BY <2>2, <2>4, <3>1 DEF OnceInv, Taken, WorldOK
    <3>3. \A op \in Ops: op # at[w] => logical'[op] = logical[op]
      BY <2>4 DEF OwnerOK
    <3>4. \A v \in Workers: Claimed(v) => at[v] # at[w]
      BY <2>4 DEF OnceInv, Taken
    <3>5. \A v \in Workers: Claimed(v)' => v # w /\ Claimed(v) /\ at'[v] = at[v] /\ at[v] \in Ops
      BY <2>1 DEF Moved, Alone, Claimed, AfterClaim, LocalOK, InOperation, Working
    <3>6. \A v \in Workers: pc'[v] \in BeforeSend => v # w /\ pc[v] \in BeforeSend /\ at'[v] = at[v]
      BY <2>1 DEF Moved, Alone, BeforeSend
    <3> QED
      BY <2>1, <2>2, <2>4, <3>1, <3>2, <3>3, <3>4, <3>5, <3>6 DEF OnceInv
  <2> QED
    BY <1>10, <2>3, <2>4 DEF Reserve
<1>11. ASSUME NEW w \in Workers, Claim(w) PROVE OnceInv'
  <2>1. Moved(w) /\ SameAt(w) /\ pc[w] = "claim" /\ pc'[w] \in {"run", "before", "reload"}
        /\ UNCHANGED <<egress, handle>>
    BY <1>0, <1>11, Memory DEF Claim, Places, Working, SameRun, worldVars
  <2>2. at[w] \in Ops
    BY <2>1 DEF LocalOK, InOperation, Working
  <2>3. CASE UNCHANGED logical /\ pc'[w] = "reload"
    BY <2>1, <2>3, OnceStep DEF Moved, Claimed, AfterClaim, BeforeSend
  <2>4. CASE logical' = [logical EXCEPT ![at[w]] = "dispatched"] /\ logical[at[w]] = "reserved"
    <3>1. egress[at[w]] = 0
      BY <2>2, <2>4 DEF OnceInv, Taken, WorldOK
    <3>2. /\ \A op \in Ops: op # at[w] => logical'[op] = logical[op]
          /\ logical'[at[w]] = "dispatched"
      BY <2>2, <2>4 DEF OwnerOK
    <3>3. \A v \in Workers: Claimed(v) => at[v] # at[w]
      BY <2>4 DEF OnceInv, Taken
    <3>4. \A v \in Workers: at'[v] = at[v]
      BY <2>1 DEF Moved, Alone
    <3>5. \A v \in Workers: Claimed(v)' => v = w \/ (Claimed(v) /\ at[v] \in Ops)
      BY <2>1 DEF Moved, Alone, Claimed, AfterClaim, LocalOK, InOperation, Working
    <3>6. \A v \in Workers: pc'[v] \in BeforeSend => v = w \/ pc[v] \in BeforeSend
      BY <2>1 DEF Moved, Alone, BeforeSend
    <3> QED
      BY <2>1, <2>2, <3>1, <3>2, <3>3, <3>4, <3>5, <3>6 DEF OnceInv, Taken
  <2> QED
    BY <1>11, <2>1, <2>3, <2>4, <1>0, Memory DEF Claim, Fail, Reload, Step
<1>12. ASSUME NEW w \in Workers, Refuse(w) \/ ConcludeOperation(w) PROVE OnceInv'
  <2>1. Moved(w) /\ SameAt(w) /\ pc[w] \in {"refuse", "conclude"} /\ pc'[w] \in {"refused", "keep", "reload"}
        /\ UNCHANGED <<egress, handle>>
    BY <1>0, <1>12, Memory DEF Refuse, ConcludeOperation, Places, Working, SameRun, worldVars
  <2>2. \A op \in Ops: logical'[op] = logical[op] \/ (logical[op] = "dispatched" /\ logical'[op] \in Taken)
    BY <1>12 DEF Refuse, ConcludeOperation, OwnerOK, Taken
  <2>3. \A v \in Workers: at'[v] = at[v]
    BY <2>1 DEF Moved, Alone
  <2>4. \A v \in Workers: Claimed(v)' => Claimed(v) /\ at[v] \in Ops
    BY <2>1 DEF Moved, Alone, Claimed, AfterClaim, LocalOK, InOperation, Working
  <2>5. \A v \in Workers: pc'[v] \in BeforeSend => pc[v] \in BeforeSend
    BY <2>1 DEF Moved, Alone, BeforeSend
  <2> QED
    BY <2>1, <2>2, <2>3, <2>4, <2>5 DEF OnceInv, Taken
<1>13. ASSUME NEW w \in Workers, Send(w) \/ RunTool(w) PROVE OnceInv'
  <2>0. "answer" \in Places
    BY DEF Places, Working
  <2>1. Moved(w) /\ SameAt(w) /\ pc[w] \in {"send", "run"} /\ Claimed(w)
        /\ (pc'[w] = "answer" \/ (pc'[w] = "flush" /\ then'[w] = "conclude"))
    <3>1. CASE Send(w)
      BY <1>0, <2>0, <3>1, Memory DEF Send, Claimed, AfterClaim
    <3>2. CASE RunTool(w)
      BY <3>2, RunToolMoves DEF RunTool, Claimed, AfterClaim
    <3> QED
      BY <1>13, <3>1, <3>2
  <2>2. egress' = [egress EXCEPT ![at[w]] = @ + 1] /\ UNCHANGED <<logical, handle>>
    BY <1>13 DEF Send, RunTool, ownerVars
  <2>3. at[w] \in Ops
    BY <2>1 DEF LocalOK, InOperation, Working
  <2>4. egress[at[w]] = 0 /\ logical[at[w]] \in Taken
    BY <2>1 DEF OnceInv, BeforeSend
  <2>5. egress'[at[w]] = 1 /\ \A op \in Ops: op # at[w] => egress'[op] = egress[op]
    BY <2>2, <2>3, <2>4 DEF WorldOK
  <2>6. \A v \in Workers: at'[v] = at[v] /\ (Claimed(v)' => Claimed(v))
    BY <2>1 DEF Moved, Alone, Claimed
  <2>7. \A v \in Workers: pc'[v] \in BeforeSend => v # w /\ pc[v] \in BeforeSend /\ Claimed(v)
    BY <2>1 DEF Moved, Alone, BeforeSend, Claimed, AfterClaim
  <2>8. \A v \in Workers: Claimed(v) => at[v] \in Ops
    BY DEF Claimed, AfterClaim, LocalOK, InOperation, Working
  <2> QED
    BY <2>1, <2>2, <2>3, <2>4, <2>5, <2>6, <2>7, <2>8 DEF OnceInv
<1>14. ASSUME NEW w \in Workers, RaiseFloor(w) PROVE OnceInv'
  <2>1. Moved(w) /\ pc[w] = "raise" /\ pc'[w] \in {"reload", "pause", "begin"} /\ UNCHANGED egress
    BY <1>0, <1>14, RaiseFloorMoves DEF RaiseFloor, SameRun, worldVars
  <2>2. at[w] \in Ops /\ Claimed(w)
    BY <2>1 DEF LocalOK, InOperation, Working, Claimed, AfterClaim
  <2>3. /\ handle'.floor >= handle.floor
        /\ handle'.floor >= at[w]
        /\ handle.floor \in 0..Last /\ handle'.floor \in 0..Last
    BY <1>14, <2>2 DEF RaiseFloor, OwnerOK, Ops
  <2>4. /\ \A op \in Ops: op # at[w] => logical'[op] = logical[op]
        /\ logical'[at[w]] = logical[at[w]] \/ logical'[at[w]] = "none"
    BY <1>14, <2>2 DEF RaiseFloor, OwnerOK
  <2>5. \A v \in Workers: Claimed(v)' => v # w /\ Claimed(v) /\ at'[v] = at[v] /\ at[v] # at[w] /\ at[v] \in Ops
    BY <2>1, <2>2 DEF Moved, Alone, Claimed, AfterClaim, OnceInv, LocalOK, InOperation, Working
  <2>6. \A v \in Workers: pc'[v] \in BeforeSend => pc[v] \in BeforeSend /\ at'[v] = at[v]
    BY <2>1 DEF Moved, Alone, BeforeSend
  <2>7. \A op \in Ops: op \in Int
    BY DEF Ops
  <2> QED
    BY <2>1, <2>2, <2>3, <2>4, <2>5, <2>6, <2>7 DEF OnceInv
<1> QED
  BY <1>1, <1>2, <1>3, <1>4, <1>5, <1>6, <1>7, <1>8, <1>9, <1>10, <1>11, <1>12, <1>13, <1>14
  DEF Next, Advance, Respond, Ending

\* Nothing is claimed at the start.
LEMMA OnceInit == Init => OnceInv
BY RunAssumption DEF Init, OnceInv, Claimed, AfterClaim, BeforeSend, Actors

\* A stutter claims nothing.
LEMMA OnceStutter == OnceInv /\ UNCHANGED vars => OnceInv'
BY DEF OnceInv, Claimed, vars, ownerVars, actorVars, worldVars

\* However executions overlap, crash and resume, no operation of a run reaches a
\* provider or a tool a second time (the claim of run_controller.begin).
THEOREM SentOnce == Spec => []AtMostOnce
<1>1. Init => TypeInv /\ OnceInv
  BY TypeInit, OnceInit
<1>2. TypeInv /\ OnceInv /\ [Next]_vars => (TypeInv /\ OnceInv)'
  BY TypeNext, OnceNext, OnceStutter
<1>3. OnceInv => AtMostOnce
  BY DEF OnceInv, AtMostOnce
<1> QED
  BY <1>1, <1>2, <1>3, PTL DEF Spec

-----------------------------------------------------------------------------
(* What holds the place of a run among the active runs.                      *)

Sending == {"authorize", "send", "answer", "abandon"}

\* A run that gave its place back is fenced and has nothing under way.
HoldInv ==
    /\ handle.active => handle.admitted
    /\ handle.admitted /\ ~handle.active => handle.terminal
    /\ \A op \in Ops: logical[op] # "none" \/ dispatch[op].state # "none" => handle.admitted
    /\ \A op \in Ops: Unresolved(op) \/ Undelivered(op) => handle.active

\* Whoever is about to send has its request in the owner document.
SendInv == \A w \in Workers: pc[w] \in Sending => dispatch[at[w]].state = "dispatched"

SameFlags ==
    handle'.admitted = handle.admitted /\ handle'.active = handle.active /\ handle'.terminal = handle.terminal

\* A write that leaves the flags of the handle, and brings nothing under way.
LEMMA HoldQuietly ==
  ASSUME HoldInv, SameFlags,
         \A op \in Ops: /\ logical'[op] # "none" \/ dispatch'[op].state # "none" => handle.admitted
                        /\ Unresolved(op)' \/ Undelivered(op)' => handle.active
  PROVE  HoldInv'
BY DEF HoldInv, SameFlags

\* No step frees the place of a run with an unresolved effect.
LEMMA HoldNext ==
  ASSUME TypeInv, OnceInv, HoldInv, SendInv, Next PROVE HoldInv'
<1> USE DEF TypeInv, OwnerOK
<1>0. \A w \in Workers: InOperation(w) => at[w] \in Ops
  BY DEF ActorOK, LocalOK, Actors
<1>1. ASSUME NEW t \in Tabs, Admit(t) PROVE HoldInv'
  BY <1>1 DEF Admit, HoldInv, Unresolved, Undelivered
<1>2. ASSUME NEW w \in Workers, Reserve(w) PROVE HoldInv'
  <2>1. at[w] \in Ops /\ SameFlags
    BY <1>0, <1>2 DEF Reserve, InOperation, Working, SameFlags
  <2>2. \A op \in Ops: \/ logical'[op] = logical[op]
                       \/ logical'[op] = "reserved" /\ handle.active
    BY <1>2, <2>1 DEF Reserve
  <2> QED
    BY <1>2, <2>1, <2>2, HoldQuietly DEF Reserve, HoldInv, Unresolved, Undelivered
<1>3. ASSUME NEW w \in Workers, Claim(w) PROVE HoldInv'
  <2>1. at[w] \in Ops /\ SameFlags
    BY <1>0, <1>3 DEF Claim, InOperation, Working, SameFlags
  <2>2. \A op \in Ops: \/ logical'[op] = logical[op]
                       \/ logical[op] = "reserved" /\ ~handle.terminal
    BY <1>3, <2>1 DEF Claim
  <2> QED
    BY <1>3, <2>1, <2>2, HoldQuietly DEF Claim, HoldInv, Unresolved, Undelivered
<1>4. ASSUME NEW w \in Workers, Refuse(w) \/ ConcludeOperation(w) PROVE HoldInv'
  <2>1. at[w] \in Ops /\ SameFlags
    BY <1>0, <1>4 DEF Refuse, ConcludeOperation, InOperation, Working, SameFlags
  <2>2. \A op \in Ops: logical'[op] = logical[op] \/ logical[op] = "dispatched"
    BY <1>4, <2>1 DEF Refuse, ConcludeOperation
  <2> QED
    BY <1>4, <2>1, <2>2, HoldQuietly DEF Refuse, ConcludeOperation, HoldInv, Unresolved, Undelivered
<1>5. ASSUME NEW w \in Workers, Hold(w) PROVE HoldInv'
  <2>1. at[w] \in Ops /\ SameFlags
    BY <1>0, <1>5 DEF Hold, InOperation, Working, SameFlags
  <2>2. \A op \in Ops: dispatch'[op] = dispatch[op] \/ handle.active
    BY <1>5, <2>1 DEF Hold
  <2> QED
    BY <1>5, <2>1, <2>2, HoldQuietly DEF Hold, HoldInv, Unresolved, Undelivered
<1>6. ASSUME NEW w \in Workers, Answer(w) \/ Abandon(w) PROVE HoldInv'
  <2>1. at[w] \in Ops /\ SameFlags /\ UNCHANGED logical /\ pc[w] \in Sending
    BY <1>0, <1>6 DEF Answer, Abandon, InOperation, Working, SameFlags, Sending
  <2>2. dispatch[at[w]].state = "dispatched"
    BY <2>1 DEF SendInv
  <2>3. \A op \in Ops: op # at[w] => dispatch'[op] = dispatch[op]
    BY <1>6, <2>1 DEF Answer, Abandon, Conclude
  <2>4. handle.active /\ handle.admitted
    BY <2>1, <2>2 DEF HoldInv, Unresolved
  <2> QED
    BY <2>1, <2>3, <2>4, HoldQuietly DEF HoldInv
<1>7. ASSUME NEW w \in Workers, RaiseFloor(w) PROVE HoldInv'
  <2>1. at[w] \in Ops /\ SameFlags
    BY <1>0, <1>7 DEF RaiseFloor, InOperation, Working, SameFlags
  <2>2. \A op \in Ops: /\ logical'[op] = logical[op] \/ logical'[op] = "none"
                       /\ dispatch'[op] = dispatch[op] \/ dispatch'[op].state = "none"
    BY <1>7, <2>1 DEF RaiseFloor, NoDispatch
  <2> QED
    BY <2>1, <2>2, HoldQuietly DEF HoldInv, Unresolved, Undelivered
<1>8. ASSUME NEW a \in Actors, Mark(a) PROVE HoldInv'
  <2> DEFINE entry == Entry(a)
  <2>1. dispatch' \in {dispatch, [dispatch EXCEPT ![entry].delivered = TRUE]} /\ UNCHANGED <<handle, logical>>
    BY <1>8 DEF Mark
  <2> HIDE DEF entry
  <2>2. \A op \in Ops: dispatch'[op].state = dispatch[op].state
                       /\ (dispatch'[op].delivered = dispatch[op].delivered \/ dispatch'[op].delivered = TRUE)
    BY <2>1 DEF DispatchEffects
  <2> QED
    BY <2>1, <2>2, HoldQuietly DEF HoldInv, Unresolved, Undelivered, SameFlags
<1>9. ASSUME NEW a \in Actors, Fence(a) PROVE HoldInv'
  BY <1>9 DEF Fence, HoldInv, Unresolved, Undelivered
<1>10. ASSUME NEW a \in Actors, FinishHandle(a) PROVE HoldInv'
  <2> DEFINE held == \E op \in Ops: Unresolved(op) \/ Undelivered(op)
  <2>1. handle' = [handle EXCEPT !.terminal = TRUE, !.active = held] /\ UNCHANGED <<logical, dispatch>>
    BY <1>10 DEF FinishHandle
  <2>2. \A op \in Ops: Unresolved(op) \/ Undelivered(op) => logical[op] # "none" \/ dispatch[op].state # "none"
    BY DEF Unresolved, Undelivered
  <2>3. held => handle.admitted
    BY <2>2 DEF HoldInv
  <2>4. \A op \in Ops: Unresolved(op)' \/ Undelivered(op)' => held
    BY <2>1 DEF Unresolved, Undelivered
  <2>5. held \in BOOLEAN
    OBVIOUS
  <2> HIDE DEF held
  <2>6. handle'.terminal = TRUE /\ handle'.active = held /\ handle'.admitted = handle.admitted
    BY <2>1, <2>5
  <2> QED
    BY <2>1, <2>3, <2>4, <2>6 DEF HoldInv
<1>11. OwnerSame => HoldInv'
  BY DEF OwnerSame, HoldInv, Unresolved, Undelivered
<1> QED
  BY <1>1, <1>2, <1>3, <1>4, <1>5, <1>6, <1>7, <1>8, <1>9, <1>10, <1>11, OwnerWriters DEF OwnerWrite

\* A request stays recorded until the execution that sends it concludes it.
LEMMA SendNext ==
  ASSUME TypeInv, OnceInv, SendInv, Next PROVE SendInv'
<1> USE DEF TypeInv, OwnerOK
<1>0. \A w \in Workers: InOperation(w) => at[w] \in Ops
  BY DEF ActorOK, LocalOK, Actors
<1> SUFFICES ASSUME NEW w \in Workers, pc'[w] \in Sending PROVE dispatch'[at'[w]].state = "dispatched"
  BY DEF SendInv
<1>1. \/ pc[w] \in Sending /\ pc'[w] \in Sending /\ at'[w] = at[w]
      \/ Hold(w) /\ pc[w] = "hold" /\ pc'[w] = "authorize" /\ at'[w] = at[w]
  BY Courses DEF Idles, Course, Quiet, Sending, SameAt, Actors
<1>2. CASE Hold(w) /\ pc[w] = "hold" /\ pc'[w] = "authorize" /\ at'[w] = at[w]
  <2>1. at[w] \in Ops
    BY <1>0, <1>2 DEF InOperation, Working
  <2>2. dispatch' = [dispatch EXCEPT ![at[w]] =
               [state |-> "dispatched", delivered |-> FALSE, money |-> IF capped THEN Reservation ELSE NoMoney]]
    <3>1. pc' = [pc EXCEPT ![w] = "reload"] \/ pc' = [pc EXCEPT ![w] = "refuse"] => pc'[w] # "authorize"
      BY DEF ActorOK, ActorSets, Actors
    <3> QED
      BY <1>2, <3>1 DEF Hold, Fail, Reload, Step, Go
  <2> QED
    BY <1>2, <2>1, <2>2
<1>3. CASE pc[w] \in Sending /\ pc'[w] \in Sending /\ at'[w] = at[w]
  <2>1. dispatch[at[w]].state = "dispatched" /\ at[w] \in Ops /\ Claimed(w)
    BY <1>0, <1>3 DEF SendInv, Sending, InOperation, Working, Claimed, AfterClaim
  <2>2. ASSUME NEW v \in Workers, Hold(v) PROVE dispatch'[at[w]] = dispatch[at[w]]
    BY <2>1, <2>2 DEF Hold
  <2>3. ASSUME NEW v \in Workers, Answer(v) \/ Abandon(v) PROVE dispatch'[at[w]] = dispatch[at[w]]
    <3>1. Claimed(v) /\ pc'[v] \notin Sending
      <4>1. Moved(v) /\ pc'[v] \in {"flush", "reload", "fence"}
        BY <2>3, Memory DEF ActorOK, Answer, Abandon, Actors, Terminal
      <4> QED
        BY <2>3, <4>1 DEF Answer, Abandon, Claimed, AfterClaim, Sending
    <3>2. at[v] # at[w]
      BY <1>3, <2>1, <3>1 DEF OnceInv
    <3> QED
      BY <2>1, <2>3, <3>2 DEF Answer, Abandon, Conclude
  <2>4. ASSUME NEW v \in Workers, RaiseFloor(v) PROVE dispatch'[at[w]] = dispatch[at[w]]
    BY <2>1, <2>4 DEF RaiseFloor
  <2>5. ASSUME NEW a \in Actors, Mark(a) PROVE dispatch'[at[w]].state = dispatch[at[w]].state
    <3> DEFINE entry == Entry(a)
    <3>1. dispatch' \in {dispatch, [dispatch EXCEPT ![entry].delivered = TRUE]}
      BY <2>5 DEF Mark
    <3> HIDE DEF entry
    <3> QED
      BY <2>1, <3>1 DEF DispatchEffects
  <2>6. dispatch' = dispatch \/ dispatch'[at[w]].state = dispatch[at[w]].state
    BY <2>2, <2>3, <2>4, <2>5, OwnerWriters
    DEF OwnerWrite, OwnerSame, Admit, Reserve, Claim, Refuse, ConcludeOperation, Fence, FinishHandle
  <2> QED
    BY <1>3, <2>1, <2>6
<1> QED
  BY <1>1, <1>2, <1>3
\* A run starts in its place, with nothing sent.
LEMMA HoldInit == Init => HoldInv /\ SendInv
BY RunAssumption DEF Init, HoldInv, SendInv, Sending, Unresolved, Undelivered, NoDispatch, Actors

\* A stutter leaves the place and the effects alone.
LEMMA HoldStutter == HoldInv /\ SendInv /\ UNCHANGED vars => (HoldInv /\ SendInv)'
BY DEF HoldInv, SendInv, Unresolved, Undelivered, vars, ownerVars, actorVars

\* What every reachable state satisfies, beside its types.
OwnerInv == OnceInv /\ HoldInv /\ SendInv

\* What the owner document keeps holds at the start.
LEMMA OwnerInvInit == Init => OwnerInv
BY OnceInit, HoldInit DEF OwnerInv

\* Every step, or none, keeps it.
LEMMA OwnerInvNext == TypeInv /\ OwnerInv /\ [Next]_vars => OwnerInv'
BY OnceNext, HoldNext, SendNext, OnceStutter, HoldStutter DEF OwnerInv

\* A run holds its place among the owner's active runs while anything it claimed
\* or sent is unresolved, however it was stopped (finish_handle).
THEOREM UnresolvedHolds == Spec => []InFlightHoldsRun
<1>1. OwnerInv => InFlightHoldsRun
  BY DEF OwnerInv, HoldInv, InFlightHoldsRun
<1> QED
  BY <1>1, TypeInit, TypeNext, OwnerInvInit, OwnerInvNext, PTL DEF Spec

-----------------------------------------------------------------------------
(* The usage ledger.                                                         *)

\* An entry is marked delivered only once its row is there, and pruned only once
\* it is marked.
LedgerInv ==
    /\ \A op \in Ops: dispatch[op].state # "none" /\ dispatch[op].delivered => op \in ledger
    /\ \A op \in Ops: egress[op] > 0 /\ ~IsTool(op) /\ op \notin ledger => dispatch[op].state # "none"
    /\ \A a \in Actors: pc[a] = "mark" => Entry(a) \in ledger
    /\ \A w \in Workers: pc[w] = "run" => IsTool(at[w])

\* The rows of a step, and the requests that leave in it.
LEMMA LedgerWorld ==
  ASSUME Next
  PROVE  /\ capped' = capped
         /\ ledger' = ledger \/ \E a \in Actors: Record(a)
         /\ egress' = egress \/ \E w \in Workers: Send(w) \/ RunTool(w)
<1>1. ASSUME NEW a \in Actors, Ending(a)
      PROVE UNCHANGED <<capped, egress>> /\ (ledger' = ledger \/ Record(a))
  BY <1>1 DEF Ending, Fence, SetStatus, Snapshot, Record, Mark, Delivered, FinishHandle, SameRun, worldVars
<1>2. ASSUME NEW w \in Workers, Advance(w), ~Send(w), ~RunTool(w), ~Ending(w)
      PROVE UNCHANGED <<capped, egress, ledger>>
  BY <1>2
  DEF Advance, SameRun, worldVars, AdvanceOver, AdvanceLate, AdvanceExpired, AdvanceReady, Advancing, PolicyDenied,
      SignInNeeded, ContextRevoked, Acquire, Pause, Begin, Reserve, SaveClaim, CheckAndSave, Claim, Before, Hold, Refuse,
      SaveRefused, Authorize, Answer, Abandon, Interrupted, ConcludeOperation, SaveResult, RaiseFloor, Close
<1>3. ASSUME NEW w \in Workers, Send(w) \/ RunTool(w) PROVE UNCHANGED <<capped, ledger>>
  BY <1>3 DEF Send, RunTool
<1>4. ASSUME NEW t \in Tabs, Ask(t) \/ (Respond(t) /\ ~Ending(t)) PROVE UNCHANGED <<capped, egress, ledger>>
  BY <1>4
  DEF Ask, Respond, Starting, Admit, CreateCheckpoint, Launch, LaunchUnknown, LaunchRejected, Review, Approve, Cancel,
      Refusal, ReadDraft, ClearConversation, Request, SameRun, worldVars
<1>5. Outside => UNCHANGED <<capped, egress, ledger>>
  BY DEF Outside, Crash, LeaseExpires, DeadlinePasses, DraftExpires, worldVars
<1> QED
  BY <1>1, <1>2, <1>3, <1>4, <1>5 DEF Next, Respond, Actors

\* What the end of a request leaves in its effect.
LEMMA ConcludeFields ==
  ASSUME OwnerOK, NEW op \in Ops, NEW actual, NEW completed, Conclude(op, actual, completed)
  PROVE  /\ \A o \in Ops: dispatch'[o].delivered = dispatch[o].delivered
         /\ \A o \in Ops \ {op}: dispatch'[o] = dispatch[o]
         /\ dispatch'[op].state \in {"complete", "unknown"}
<1> DEFINE money == dispatch[op].money
           settled == SettledMoney(account, money, actual)
           state == IF completed /\ (capped => settled.phase = "settled") THEN "complete" ELSE "unknown"
           kept == IF capped THEN settled ELSE money
<1>1. dispatch' = [dispatch EXCEPT ![op].state = state, ![op].money = kept]
  BY DEF Conclude
<1>2. state \in {"complete", "unknown"}
  OBVIOUS
<1> HIDE DEF state, kept
<1>3. dispatch' = [dispatch EXCEPT ![op] = [dispatch[op] EXCEPT !.state = state, !.money = kept]]
  BY <1>1 DEF OwnerOK, DispatchEffects
<1>4. dispatch'[op] = [dispatch[op] EXCEPT !.state = state, !.money = kept] /\ \A o \in Ops \ {op}: dispatch'[o] = dispatch[o]
  BY <1>3 DEF OwnerOK
<1>5. dispatch'[op].state = state /\ dispatch'[op].delivered = dispatch[op].delivered
  <2>1. dispatch[op] \in DispatchEffects
    BY DEF OwnerOK
  <2> QED
    BY <1>4, <2>1 DEF DispatchEffects
<1> QED
  BY <1>2, <1>4, <1>5

\* Every step that frees the place of a run has its rows recorded before.
LEMMA LedgerNext ==
  ASSUME TypeInv, OwnerInv, LedgerInv, Next PROVE LedgerInv'
<1> USE DEF TypeInv, OwnerOK
<1>0. \A w \in Workers: InOperation(w) => at[w] \in Ops
  BY DEF ActorOK, LocalOK, Actors
<1>1. ledger \subseteq ledger' /\ \A op: IsTool(op)' = IsTool(op)
  BY LedgerWorld DEF Record, IsTool
<1>2. \A op \in Ops: dispatch'[op].state # "none" /\ dispatch'[op].delivered => op \in ledger'
  <2>1. ASSUME NEW w \in Workers, Hold(w), NEW op \in Ops
        PROVE dispatch'[op] = dispatch[op] \/ dispatch'[op].delivered = FALSE
    BY <2>1 DEF Hold
  <2>2. ASSUME NEW w \in Workers, Answer(w) \/ Abandon(w), NEW op \in Ops
        PROVE dispatch'[op].delivered = dispatch[op].delivered /\ (dispatch[op].state = "none" => dispatch'[op].state = "none")
    <3>1. at[w] \in Ops /\ dispatch[at[w]].state = "dispatched"
      BY <1>0, <2>2 DEF Answer, Abandon, OwnerInv, SendInv, Sending, InOperation, Working
    <3> QED
      BY <2>2, <3>1, ConcludeFields DEF Answer, Abandon
  <2>3. ASSUME NEW w \in Workers, RaiseFloor(w), NEW op \in Ops
        PROVE dispatch'[op] = dispatch[op] \/ dispatch'[op].state = "none"
    BY <2>3 DEF RaiseFloor, NoDispatch
  <2>4. ASSUME NEW a \in Actors, Mark(a), NEW op \in Ops
        PROVE dispatch'[op] = dispatch[op] \/ op \in ledger
    BY <2>4 DEF Mark, LedgerInv
  <2> QED
    BY <1>1, <2>1, <2>2, <2>3, <2>4, OwnerWriters
    DEF LedgerInv, OwnerWrite, OwnerSame, Admit, Reserve, Claim, Refuse, ConcludeOperation, Fence, FinishHandle
<1>3. \A op \in Ops: egress'[op] > 0 /\ ~IsTool(op) /\ op \notin ledger' => dispatch'[op].state # "none"
  <2>1. ASSUME NEW op \in Ops, dispatch[op].state # "none", dispatch'[op].state = "none" PROVE op \in ledger
    <3>1. ASSUME NEW w \in Workers, Answer(w) \/ Abandon(w) PROVE dispatch'[op].state # "none"
      <4>1. at[w] \in Ops
        BY <1>0, <3>1 DEF Answer, Abandon, InOperation, Working
      <4> QED
        BY <2>1, <3>1, <4>1, ConcludeFields DEF Answer, Abandon
    <3>2. ASSUME NEW a \in Actors, Mark(a) PROVE dispatch'[op].state = dispatch[op].state
      <4> DEFINE entry == Entry(a)
      <4>1. dispatch' \in {dispatch, [dispatch EXCEPT ![entry].delivered = TRUE]}
        BY <3>2 DEF Mark
      <4> HIDE DEF entry
      <4> QED
        BY <4>1 DEF DispatchEffects
    <3>3. ASSUME NEW w \in Workers, Hold(w) PROVE dispatch'[op].state # "none"
      BY <2>1, <3>3 DEF Hold
    <3>4. \E w \in Workers: RaiseFloor(w)
      BY <2>1, <3>1, <3>2, <3>3, OwnerWriters
      DEF OwnerWrite, OwnerSame, Admit, Reserve, Claim, Refuse, ConcludeOperation, Fence, FinishHandle
    <3> QED
      BY <2>1, <3>4 DEF RaiseFloor, LedgerInv
  <2>2. ASSUME NEW op \in Ops, egress'[op] # egress[op], ~IsTool(op) PROVE dispatch'[op].state = "dispatched"
    <3>1. PICK w \in Workers: Send(w) \/ RunTool(w)
      BY <2>2, LedgerWorld
    <3>2. op = at[w]
      BY <2>2, <3>1 DEF Send, RunTool, WorldOK
    <3>3. Send(w)
      BY <2>2, <3>1, <3>2 DEF RunTool, LedgerInv
    <3> QED
      BY <3>2, <3>3 DEF Send, OwnerInv, SendInv, Sending, ownerVars
  <2> QED
    BY <1>1, <2>1, <2>2 DEF LedgerInv
<1>4. \A a \in Actors: pc'[a] = "mark" => Entry(a)' \in ledger'
  <2> SUFFICES ASSUME NEW a \in Actors, pc'[a] = "mark" PROVE Entry(a)' \in ledger'
    OBVIOUS
  <2>1. \/ pc[a] = "mark" /\ todo'[a] = todo[a]
        \/ Record(a)
    BY Courses DEF Idles, Course, Quiet
  <2>2. todo'[a] = todo[a] => Entry(a)' = Entry(a)
    BY DEF Entry
  <2>3. Record(a) => todo'[a] = todo[a] /\ Entry(a) \in ledger'
    BY DEF Record, Go
  <2> QED
    BY <1>1, <2>1, <2>2, <2>3 DEF LedgerInv
<1>5. \A w \in Workers: pc'[w] = "run" => IsTool(at'[w])
  <2> SUFFICES ASSUME NEW w \in Workers, pc'[w] = "run" PROVE IsTool(at'[w])
    OBVIOUS
  <2>1. at'[w] = at[w] /\ (pc[w] = "run" \/ Claim(w))
    BY Courses DEF Idles, Course, Quiet, SameAt, Actors
  <2>2. Claim(w) => IsTool(at[w])
    BY DEF Claim, Go, Fail, Reload, Step, ActorOK, ActorSets, Actors
  <2> QED
    BY <2>1, <2>2 DEF LedgerInv
<1> QED
  BY <1>1, <1>2, <1>3, <1>4, <1>5 DEF LedgerInv

\* At the start there is nothing to bill.
LEMMA LedgerInit == Init => LedgerInv
BY RunAssumption DEF Init, LedgerInv, NoDispatch, Actors

\* A stutter bills nothing.
LEMMA LedgerStutter == LedgerInv /\ UNCHANGED vars => LedgerInv'
BY DEF LedgerInv, IsTool, Entry, vars, ownerVars, actorVars, worldVars

\* When a run gives its place back, every request that left has its row in the
\* usage ledger, also if the process died between the row and its mark
\* (flush_usage before finish_handle).
THEOREM BilledFirst == Spec => []BilledBeforeReleased
<1>1. Init => TypeInv /\ OwnerInv /\ LedgerInv
  BY TypeInit, OwnerInvInit, LedgerInit
<1>2. TypeInv /\ OwnerInv /\ LedgerInv /\ [Next]_vars => (TypeInv /\ OwnerInv /\ LedgerInv)'
  BY TypeNext, OwnerInvNext, LedgerNext, LedgerStutter
<1>3. TypeInv /\ OwnerInv /\ LedgerInv => BilledBeforeReleased
  BY DEF OwnerInv, HoldInv, LedgerInv, BilledBeforeReleased, Undelivered, TypeInv, OwnerOK, DispatchEffects
<1> QED
  BY <1>1, <1>2, <1>3, PTL DEF Spec
-----------------------------------------------------------------------------
(* The copies of the checkpoint, and what they allow.                        *)

\* The writes an execution makes over its own copy.
OwnWrite(w) == Acquire(w) \/ Pause(w) \/ Begin(w) \/ SaveClaim(w) \/ SaveRefused(w) \/ SaveResult(w)

\* The copies only grow when an actor reads or writes the checkpoint.
LEMMA FreshGrows ==
  ASSUME Next
  PROVE  \/ fresh' \subseteq fresh
         \/ \E w \in Workers: AdvanceReady(w) \/ OwnWrite(w)
         \/ \E t \in Tabs: ReadDraft(t) \/ CreateCheckpoint(t)
<1>1. ASSUME NEW a \in Actors, Ending(a) PROVE fresh' \subseteq fresh
  BY <1>1
  DEF Ending, Fence, SetStatus, Snapshot, Record, Mark, Delivered, FinishHandle, checkVars, LastCommit, Drop
<1>2. ASSUME NEW w \in Workers, Advance(w), ~AdvanceReady(w), ~OwnWrite(w), ~Ending(w) PROVE fresh' \subseteq fresh
  BY <1>2
  DEF Advance, OwnWrite, checkVars, LastCommit, Drop, AdvanceOver, AdvanceLate, AdvanceExpired, PolicyDenied,
      SignInNeeded, ContextRevoked, Reserve, Claim, Before, Hold, Refuse, Authorize, Send, Answer, Abandon, RunTool,
      Interrupted, ConcludeOperation, RaiseFloor, Close
<1>3. ASSUME NEW t \in Tabs, Ask(t) \/ (Respond(t) /\ ~Ending(t)), ~ReadDraft(t), ~CreateCheckpoint(t)
      PROVE fresh' \subseteq fresh
  BY <1>3
  DEF Ask, Respond, Starting, checkVars, LastCommit, Drop, Admit, Launch, LaunchUnknown, LaunchRejected, Review,
      Approve, Cancel, Refusal, ClearConversation
<1>4. Outside => fresh' \subseteq fresh
  BY DEF Outside, Crash, LeaseExpires, DeadlinePasses, DraftExpires, checkVars
<1> QED
  BY <1>1, <1>2, <1>3, <1>4 DEF Next, Respond, Actors

\* An execution that still has the stored copy saw every write since it read it:
\* the writes were its own.
LEMMA FreshKept ==
  ASSUME TypeInv, Next, NEW w \in Workers, w \in fresh', pc'[w] # "checked"
  PROVE  /\ w \in fresh
         /\ \/ checkpoint'.status = checkpoint.status /\ checkpoint'.lease = checkpoint.lease
            \/ OwnWrite(w)
<1> USE DEF TypeInv
<1>1. ASSUME NEW v \in Workers, OwnWrite(v) PROVE (v = w /\ w \in fresh) \/ UNCHANGED <<checkpoint, fresh>>
  BY <1>1
  DEF OwnWrite, Acquire, Pause, Begin, SaveClaim, CheckAndSave, SaveRefused, SaveResult, Permitted, Current, Commit,
      checkVars
<1>2. ASSUME NEW v \in Workers, AdvanceReady(v) PROVE w \in fresh /\ CheckSame
  <2>1. fresh' = fresh \cup {v} /\ CheckSame /\ pc'[v] = "checked"
    BY <1>2 DEF AdvanceReady, Advancing, CheckSame, Go, Step, ActorOK, ActorSets, Actors
  <2> QED
    BY <2>1
<1>3. ASSUME NEW t \in Tabs, ReadDraft(t) \/ CreateCheckpoint(t) PROVE w \in fresh /\ CheckSame
  BY <1>3, RunAssumption DEF ReadDraft, Request, CreateCheckpoint, Commit, CheckSame, checkVars
<1>4. w \in fresh
  BY <1>1, <1>2, <1>3, FreshGrows
<1>5. ASSUME NEW t \in Tabs, LaunchUnknown(t) \/ LaunchRejected(t) \/ Review(t) \/ Approve(t) \/ ClearConversation(t)
      PROVE CheckSame
  BY <1>5 DEF LaunchUnknown, LaunchRejected, Review, Approve, ClearConversation, LastCommit, Drop, CheckSame, checkVars
<1>6. ASSUME NEW v \in Workers, PolicyDenied(v) \/ SignInNeeded(v) \/ Close(v) PROVE CheckSame
  BY <1>6 DEF PolicyDenied, SignInNeeded, Close, LastCommit, Drop, CheckSame, checkVars
<1>7. ASSUME NEW a \in Actors, SetStatus(a) PROVE CheckSame
  BY <1>7 DEF SetStatus, LastCommit, Drop, CheckSame
<1>8. LeaseExpires => checkpoint'.status = checkpoint.status /\ checkpoint'.lease = checkpoint.lease
  BY DEF LeaseExpires, CheckOK, Checkpoints
<1> QED
  BY <1>1, <1>3, <1>4, <1>5, <1>6, <1>7, <1>8, CheckWriters DEF CheckWrite, CheckSame, OwnWrite

\* A step under a copy of the stored checkpoint is taken in a run that goes on,
\* under a lease of this very execution or none.
Underway(w) ==
    \/ pc[w] \in {"reserve", "recheck", "claim", "run", "before", "hold", "authorize", "send", "answer", "conclude", "keep"}
    \/ pc[w] \in {"flush", "record", "mark"} /\ then[w] = "conclude"

CopyInv ==
    \A w \in Workers \cap fresh:
        /\ Underway(w) => ~Over
        /\ InOperation(w) \/ pc[w] = "reload" => checkpoint.lease \in {w, None}

\* A step that replaces the checkpoint makes every other copy of it stale.
LEMMA CopyNext ==
  ASSUME TypeInv, CopyInv, Next PROVE CopyInv'
<1> USE DEF TypeInv, CheckOK
<1> SUFFICES ASSUME NEW w \in Workers, w \in fresh'
             PROVE /\ Underway(w)' => ~Over'
                   /\ InOperation(w)' \/ pc'[w] = "reload" => checkpoint'.lease \in {w, None}
  BY DEF CopyInv
<1>1. CASE Acquire(w)
  <2>1. pc'[w] \in {"idle", "reload", "pause", "begin"} /\ (pc'[w] # "idle" => Current(w))
    BY <1>1, AcquireMoves
  <2>2. Current(w) => checkpoint'.lease = w
    BY <1>1 DEF Acquire, Commit, Checkpoints
  <2> QED
    BY <2>1, <2>2 DEF Underway, InOperation, Working
<1>2. CASE Pause(w)
  <2>1. pc'[w] = "reload"
    BY <1>2, PauseMoves
  <2>2. checkpoint' = checkpoint \/ checkpoint'.lease = None
    BY <1>2 DEF Pause, Commit, Unleased, checkVars, Checkpoints
  <2>3. w \in fresh /\ InOperation(w)
    BY <1>2 DEF Pause, Permitted, Current, checkVars, InOperation, Working
  <2> QED
    BY <2>1, <2>2, <2>3 DEF Underway, CopyInv
<1>3. CASE Begin(w) \/ SaveClaim(w)
  <2>1. pc'[w] \in {"reserve", "claim", "reload"} /\ (pc'[w] # "reload" => Permitted(w))
    BY <1>3, Memory DEF ActorOK, Begin, SaveClaim, CheckAndSave, Places, Working, Actors
  <2>2. checkpoint'.lease = checkpoint.lease /\ checkpoint'.status = checkpoint.status
    BY <1>3 DEF Begin, SaveClaim, CheckAndSave, Commit, checkVars, Checkpoints
  <2>3. w \in fresh /\ InOperation(w)
    BY <1>3 DEF Begin, SaveClaim, CheckAndSave, Commit, Permitted, Current, checkVars, InOperation, Working
  <2> QED
    BY <2>1, <2>2, <2>3 DEF Underway, Permitted, CopyInv, Over, Terminal
<1>4. CASE SaveRefused(w) \/ SaveResult(w)
  <2>1. pc'[w] \in {"raise", "reload"}
    BY <1>4, Memory DEF ActorOK, SaveRefused, SaveResult, Places, Working, Actors
  <2>2. checkpoint'.lease = checkpoint.lease
    BY <1>4 DEF SaveRefused, SaveResult, Commit, checkVars, Checkpoints
  <2>3. w \in fresh /\ InOperation(w)
    BY <1>4 DEF SaveRefused, SaveResult, Commit, Current, checkVars, InOperation, Working
  <2> QED
    BY <2>1, <2>2, <2>3 DEF Underway, CopyInv
<1>5. ASSUME ~OwnWrite(w), pc'[w] # "checked"
      PROVE /\ Underway(w)' => ~Over'
            /\ InOperation(w)' \/ pc'[w] = "reload" => checkpoint'.lease \in {w, None}
  <2>1. w \in fresh /\ checkpoint'.status = checkpoint.status /\ checkpoint'.lease = checkpoint.lease
    BY <1>5, FreshKept
  <2>2. Underway(w)' => Underway(w)
    BY <1>5, Courses DEF OwnWrite, Idles, Course, Quiet, Underway, Actors
  <2>3. InOperation(w)' => InOperation(w)
    BY <1>5, Courses DEF OwnWrite, Idles, Course, Quiet, InOperation, Working, Actors
  <2>4. pc'[w] = "reload" => pc[w] = "reload" \/ InOperation(w)
    BY <1>5, Courses DEF OwnWrite, Idles, Course, Quiet, InOperation, Working, Actors
  <2> QED
    BY <2>1, <2>2, <2>3, <2>4 DEF CopyInv, Over
<1> QED
  BY <1>1, <1>2, <1>3, <1>4, <1>5 DEF OwnWrite, Underway, InOperation, Working
\* At the start nobody has a copy.
LEMMA CopyInit == Init => CopyInv
BY DEF Init, CopyInv

\* A stutter leaves the copies alone.
LEMMA CopyStutter == CopyInv /\ UNCHANGED vars => CopyInv'
BY DEF CopyInv, Underway, InOperation, Over, vars, checkVars, actorVars

\* Every step, or none, keeps what the copies know.
LEMMA CopyInvNext == TypeInv /\ CopyInv /\ [Next]_vars => CopyInv'
BY CopyNext, CopyStutter

\* One step, and the reason a run ended for.
LEMMA EndStep ==
  ASSUME TypeInv, CopyInv, Next, Over
  PROVE  checkpoint'.status = checkpoint.status \/ conversation' # conversation
<1> USE DEF TypeInv, CheckOK, Commit, LastCommit, Drop, checkVars, Over, Terminal
<1>1. ASSUME NEW t \in Tabs, CreateCheckpoint(t) \/ LaunchUnknown(t) \/ LaunchRejected(t)
      PROVE checkpoint'.status = checkpoint.status
  BY <1>1 DEF CreateCheckpoint, LaunchUnknown, LaunchRejected, Exists, Unstarted
<1>2. ASSUME NEW t \in Tabs, Review(t) \/ Approve(t) PROVE checkpoint'.status = checkpoint.status
  BY <1>2 DEF Review, Approve, Checkpoints
<1>3. ASSUME NEW t \in Tabs, ClearConversation(t) PROVE conversation' # conversation
  BY <1>3 DEF ClearConversation, Loadable
<1>4. ASSUME NEW w \in Workers, PolicyDenied(w) \/ SignInNeeded(w) \/ Close(w) PROVE checkpoint'.status = checkpoint.status
  BY <1>4 DEF PolicyDenied, SignInNeeded, Close
<1>5. ASSUME NEW w \in Workers, Acquire(w) PROVE checkpoint'.status = checkpoint.status
  BY <1>5 DEF Acquire, Current, CopiesOK
<1>6. ASSUME NEW w \in Workers, Pause(w) \/ Begin(w) \/ SaveClaim(w) PROVE checkpoint'.status = checkpoint.status
  BY <1>6 DEF Pause, Begin, SaveClaim, CheckAndSave, Permitted
<1>7. ASSUME NEW w \in Workers, SaveRefused(w) PROVE checkpoint'.status = checkpoint.status
  BY <1>7 DEF SaveRefused, Checkpoints
<1>8. ASSUME NEW w \in Workers, SaveResult(w) PROVE checkpoint'.status = checkpoint.status
  BY <1>8 DEF SaveResult, Current, CopyInv, Underway
<1>9. ASSUME NEW a \in Actors, SetStatus(a) PROVE checkpoint'.status = checkpoint.status
  BY <1>9 DEF SetStatus
<1>10. LeaseExpires => checkpoint'.status = checkpoint.status
  BY DEF LeaseExpires, Checkpoints
<1> QED
  BY <1>1, <1>2, <1>3, <1>4, <1>5, <1>6, <1>7, <1>8, <1>9, <1>10, CheckWriters DEF CheckWrite, CheckSame

\* The reason a run ended for is never replaced by a later one: not by a racing
\* stop, a late result or a second execution (set_status, validate_transition).
THEOREM EndsForOneReason == Spec => EndStands
<1>1. TypeInv /\ CopyInv /\ [Next]_vars
        => [Over => \/ checkpoint'.status = checkpoint.status
                    \/ conversation' # conversation]_vars
  BY EndStep DEF vars, checkVars
<1> QED
  BY <1>1, TypeInit, TypeNext, CopyInit, CopyInvNext, PTL DEF Spec, EndStands

\* One step, and the lease it takes away.
LEMMA LeaseStep ==
  ASSUME TypeInv, CopyInv, Next, checkpoint.lease # None, checkpoint'.lease = None, checkpoint'.status = "running"
  PROVE  pc'[checkpoint.lease] # pc[checkpoint.lease]
<1> USE RunAssumption DEF TypeInv, CheckOK, Commit, LastCommit, Drop, checkVars, Unleased, Checkpoints
<1>1. ASSUME NEW t \in Tabs, CreateCheckpoint(t) \/ LaunchUnknown(t) \/ LaunchRejected(t) PROVE FALSE
  BY <1>1 DEF CreateCheckpoint, LaunchUnknown, LaunchRejected
<1>2. ASSUME NEW t \in Tabs, Review(t) \/ Approve(t) \/ ClearConversation(t) PROVE FALSE
  BY <1>2 DEF Review, Approve, ClearConversation
<1>3. ASSUME NEW w \in Workers, PolicyDenied(w) \/ SignInNeeded(w) PROVE FALSE
  BY <1>3 DEF PolicyDenied, SignInNeeded
<1>4. ASSUME NEW w \in Workers, Acquire(w) PROVE FALSE
  BY <1>4 DEF Acquire, Actors
<1>5. ASSUME NEW w \in Workers, Pause(w) PROVE FALSE
  <2>1. checkpoint' = checkpoint \/ checkpoint'.status = "awaiting_approval"
    BY <1>5 DEF Pause
  <2> QED
    BY <2>1
<1>6. ASSUME NEW w \in Workers, Begin(w) \/ SaveClaim(w) PROVE FALSE
  BY ZenonT(40), <1>6 DEF Begin, SaveClaim, CheckAndSave
<1>7. ASSUME NEW w \in Workers, SaveRefused(w) \/ SaveResult(w) PROVE FALSE
  BY ZenonT(40), <1>7 DEF SaveRefused, SaveResult
<1>8. ASSUME NEW a \in Actors, SetStatus(a) PROVE FALSE
  BY <1>8 DEF SetStatus, ActorOK, LocalOK, Terminal
<1>9. ASSUME NEW w \in Workers, Close(w) PROVE pc'[checkpoint.lease] # pc[checkpoint.lease]
  <2>1. w \in fresh /\ pc[w] = "reload"
    BY <1>9 DEF Close, Current
  <2>2. checkpoint.lease = w
    BY <2>1 DEF CopyInv
  <2>3. pc'[w] \in {"idle", "flush"}
    BY <1>9, Memory DEF Close, Following, ActorOK, Actors, LocalOK
  <2> QED
    BY <2>1, <2>2, <2>3
<1>10. ~LeaseExpires /\ ~CheckSame
  BY DEF LeaseExpires, CheckSame
<1> QED
  BY <1>1, <1>2, <1>3, <1>4, <1>5, <1>6, <1>7, <1>8, <1>9, <1>10, CheckWriters DEF CheckWrite

\* The lease of a running execution goes only by a step of its own: a late end of
\* an earlier activity does not take it (the reload before the commit of _advance).
THEOREM LeaseIsOwn == Spec => LeaseStands
<1>1. TypeInv /\ CopyInv /\ [Next]_vars
        => [checkpoint.lease # None /\ checkpoint'.lease = None /\ checkpoint'.status = "running"
               => pc'[checkpoint.lease] # pc[checkpoint.lease]]_vars
  BY LeaseStep DEF vars, checkVars
<1> QED
  BY <1>1, TypeInit, TypeNext, CopyInit, CopyInvNext, PTL DEF Spec, LeaseStands

-----------------------------------------------------------------------------
(* Approvals.                                                                *)

\* Past begin, a gated call is one the owner granted; so is an approved draft.
GrantInv ==
    /\ checkpoint.draft = "approved" => checkpoint.next \in granted
    /\ \A w \in Workers: InOperation(w) /\ pc[w] \notin {"pause", "begin"} /\ IsGated(at[w]) => at[w] \in granted
    /\ \A op \in Ops: egress[op] > 0 /\ IsGated(op) => op \in granted

\* A grant of the owner is never withdrawn.
LEMMA GrantWorld ==
  ASSUME Next PROVE granted \subseteq granted'
<1>1. ASSUME NEW a \in Actors, Ending(a) PROVE UNCHANGED granted
  BY <1>1 DEF Ending, Fence, SetStatus, Snapshot, Record, Mark, Delivered, FinishHandle, SameRun, worldVars
<1>2. ASSUME NEW w \in Workers, Advance(w), ~Ending(w) PROVE UNCHANGED granted
  BY <1>2
  DEF Advance, SameRun, worldVars, AdvanceOver, AdvanceLate, AdvanceExpired, AdvanceReady, Advancing, PolicyDenied,
      SignInNeeded, ContextRevoked, Acquire, Pause, Begin, Reserve, SaveClaim, CheckAndSave, Claim, Before, Hold, Refuse,
      SaveRefused, Authorize, Send, RunTool, Answer, Abandon, Interrupted, ConcludeOperation, SaveResult, RaiseFloor, Close
<1>3. ASSUME NEW t \in Tabs, Ask(t) \/ (Respond(t) /\ ~Ending(t)) PROVE granted \subseteq granted'
  BY <1>3
  DEF Ask, Respond, Starting, Admit, CreateCheckpoint, Launch, LaunchUnknown, LaunchRejected, Review, Approve, Cancel,
      Refusal, ReadDraft, ClearConversation, Request, SameRun, worldVars
<1>4. Outside => UNCHANGED granted
  BY DEF Outside, Crash, LeaseExpires, DeadlinePasses, DraftExpires, worldVars
<1> QED
  BY <1>1, <1>2, <1>3, <1>4 DEF Next, Respond, Actors

\* A step that neither approves nor moves the run on.
SameDraft == checkpoint'.next = checkpoint.next /\ checkpoint'.draft \in {checkpoint.draft, "none", "pending", "dispatched"}

\* The draft of the next operation is approved only with its grant.
LEMMA DraftStep ==
  ASSUME TypeInv, Next
  PROVE  SameDraft \/ checkpoint'.draft = "none" \/ (checkpoint'.next = checkpoint.next /\ checkpoint.next \in granted')
<1> USE DEF TypeInv, CheckOK, Commit, LastCommit, Drop, checkVars, Unleased, Checkpoints, SameDraft
<1>1. ASSUME NEW t \in Tabs, CreateCheckpoint(t) \/ LaunchUnknown(t) \/ LaunchRejected(t) PROVE SameDraft
  BY <1>1 DEF CreateCheckpoint, LaunchUnknown, LaunchRejected
<1>2. ASSUME NEW t \in Tabs, Review(t) \/ ClearConversation(t) PROVE SameDraft
  BY <1>2 DEF Review, ClearConversation
<1>3. ASSUME NEW t \in Tabs, Approve(t)
      PROVE SameDraft \/ (checkpoint'.next = checkpoint.next /\ checkpoint.next \in granted')
  BY <1>3 DEF Approve
<1>4. ASSUME NEW w \in Workers, PolicyDenied(w) \/ SignInNeeded(w) \/ Acquire(w) \/ Pause(w) PROVE SameDraft
  BY <1>4 DEF PolicyDenied, SignInNeeded, Acquire, Pause
<1>5. ASSUME NEW w \in Workers, Begin(w) \/ SaveRefused(w) PROVE SameDraft
  BY <1>5 DEF Begin, CheckAndSave, SaveRefused
<1>6. ASSUME NEW w \in Workers, SaveClaim(w) PROVE SameDraft
  BY <1>6 DEF SaveClaim, CheckAndSave
<1>7. ASSUME NEW w \in Workers, SaveResult(w) PROVE SameDraft \/ checkpoint'.draft = "none"
  BY <1>7 DEF SaveResult
<1>8. ASSUME NEW w \in Workers, Close(w) PROVE SameDraft
  BY <1>8 DEF Close, ResultOf, ActorOK, LocalOK, Actors
<1>9. ASSUME NEW a \in Actors, SetStatus(a) PROVE SameDraft
  BY <1>9 DEF SetStatus
<1>10. LeaseExpires \/ CheckSame => SameDraft
  BY DEF LeaseExpires, CheckSame
<1> QED
  BY <1>1, <1>2, <1>3, <1>4, <1>5, <1>6, <1>7, <1>8, <1>9, <1>10, CheckWriters DEF CheckWrite

\* No step runs a gated call that was not granted.
LEMMA GrantNext ==
  ASSUME TypeInv, GrantInv, Next PROVE GrantInv'
<1> USE DEF TypeInv
<1>1. granted \subseteq granted' /\ \A op: IsGated(op)' = IsGated(op)
  BY GrantWorld, LedgerWorld DEF IsGated
<1>2. checkpoint'.draft = "approved" => checkpoint'.next \in granted'
  BY <1>1, DraftStep DEF SameDraft, GrantInv
<1>3. ASSUME NEW w \in Workers, InOperation(w)', pc'[w] \notin {"pause", "begin"}, IsGated(at'[w])
      PROVE at'[w] \in granted'
  <2>1. \/ InOperation(w) /\ pc[w] \notin {"pause", "begin"} /\ at'[w] = at[w]
        \/ Begin(w) /\ Current(w) /\ pc[w] = "begin" /\ pc'[w] = "reserve" /\ at'[w] = at[w]
    BY <1>3, Courses DEF Idles, Course, Quiet, InOperation, Working, SameAt, Actors
  <2>2. CASE Begin(w) /\ Current(w) /\ pc[w] = "begin" /\ pc'[w] = "reserve" /\ at'[w] = at[w]
    <3>1. Fail(w) => pc'[w] = "reload"
      BY Memory DEF ActorOK, Actors
    <3>2. checkpoint.draft = "approved"
      BY <1>3, <2>2, <3>1 DEF Begin, CheckAndSave
    <3>3. checkpoint.next = at[w]
      BY <2>2 DEF Current, CopiesOK
    <3> QED
      BY <1>1, <2>2, <3>2, <3>3 DEF GrantInv
  <2> QED
    BY <1>1, <1>3, <2>1, <2>2 DEF GrantInv
<1>4. \A op \in Ops: egress'[op] > 0 /\ IsGated(op) => op \in granted'
  <2>1. ASSUME NEW op \in Ops, egress'[op] # egress[op], IsGated(op) PROVE op \in granted
    <3>1. PICK w \in Workers: Send(w) \/ RunTool(w)
      BY <2>1, LedgerWorld
    <3>2. op = at[w]
      BY <2>1, <3>1 DEF Send, RunTool, WorldOK
    <3> QED
      BY <2>1, <3>1, <3>2 DEF Send, RunTool, GrantInv, InOperation, Working
  <2> QED
    BY <1>1, <2>1 DEF GrantInv
<1> QED
  BY <1>1, <1>2, <1>3, <1>4 DEF GrantInv

\* At the start nothing is drafted.
LEMMA GrantInit == Init => GrantInv
BY RunAssumption DEF Init, GrantInv, InOperation, Working, Actors

\* A stutter drafts nothing.
LEMMA GrantStutter == GrantInv /\ UNCHANGED vars => GrantInv'
BY DEF GrantInv, InOperation, IsGated, vars, checkVars, actorVars, worldVars

\* A tool that needs an approval never runs without the owner's grant for that
\* very call, whatever was resumed, expired or cancelled before (before_tool).
THEOREM GrantedFirst == Spec => []NoUnapprovedCall
<1>1. GrantInv => NoUnapprovedCall
  BY RunAssumption DEF GrantInv, NoUnapprovedCall, IsGated
<1>2. TypeInv /\ GrantInv /\ [Next]_vars => (TypeInv /\ GrantInv)'
  BY TypeNext, GrantNext, GrantStutter
<1> QED
  BY <1>1, <1>2, TypeInit, GrantInit, PTL DEF Spec
-----------------------------------------------------------------------------
(* Money.                                                                    *)

WithinLimit(acc) == ~Blocked(acc) => acc.settled + acc.held <= Limit

\* The cap of a run: the part of coherent_totals that no sum over effects enters.
CapHolds == capped => WithinLimit(account)

\* A reservation that was allowed stays within the limit.
LEMMA CapReserve ==
  ASSUME NEW acc \in RunMoney, MayReserve(acc), WithinLimit(acc) PROVE WithinLimit(ReserveMoney(acc))
<1>1. acc.settled \in Nat /\ acc.held \in Int
  BY DEF RunMoney
<1>2. ReserveMoney(acc).settled = acc.settled /\ ReserveMoney(acc).held = acc.held + Bound
      /\ ReserveMoney(acc).reason = acc.reason
  BY DEF ReserveMoney, RunMoney
<1>3. Bound <= Limit - acc.settled - acc.held \/ Bound = 0
  BY <1>1, MoneyAssumption DEF MayReserve, Remaining
<1> QED
  BY <1>1, <1>2, <1>3, MoneyAssumption DEF WithinLimit, Blocked

\* A proven amount above its reservation blocks the account; any other fits in the
\* place of the reservation.
LEMMA CapSettle ==
  ASSUME NEW acc \in RunMoney, NEW money \in DispatchMoney, NEW actual \in Actuals \cup {Unmetered}, WithinLimit(acc)
  PROVE  WithinLimit(SettleMoney(acc, money, actual))
<1> DEFINE reason == ReasonAfter(acc, money, actual)
<1>0. acc.settled \in Nat /\ acc.held \in Int /\ money.charged \in Nat
  BY DEF RunMoney, DispatchMoney
<1>1. reason = "none" => acc.reason = "none"
  BY DEF ReasonAfter, Blocked
<1>2. CASE Provable(acc, actual)
  <2>1. actual \in Nat
    BY <1>2, MoneyAssumption DEF Provable
  <2>2. reason = "none" => actual <= money.charged
    BY <1>0, <1>2, <2>1 DEF ReasonAfter, Blocked, Provable
  <2> HIDE DEF reason
  <2>3. SettleMoney(acc, money, actual)
          = [acc EXCEPT !.settled = acc.settled + actual, !.held = acc.held - money.charged, !.reason = reason]
    BY <1>2 DEF SettleMoney, reason, RunMoney
  <2>4. /\ SettleMoney(acc, money, actual).settled = acc.settled + actual
        /\ SettleMoney(acc, money, actual).held = acc.held - money.charged
        /\ SettleMoney(acc, money, actual).reason = reason
    BY <2>3 DEF RunMoney
  <2> QED
    BY <1>0, <1>1, <2>1, <2>2, <2>4, MoneyAssumption DEF WithinLimit, Blocked
<1>3. CASE ~Provable(acc, actual)
  <2> HIDE DEF reason
  <2>1. SettleMoney(acc, money, actual) = [acc EXCEPT !.unknown = acc.unknown + money.charged, !.reason = reason]
    BY <1>3 DEF SettleMoney, reason, RunMoney
  <2>2. /\ SettleMoney(acc, money, actual).settled = acc.settled
        /\ SettleMoney(acc, money, actual).held = acc.held
        /\ SettleMoney(acc, money, actual).reason = reason
    BY <2>1 DEF RunMoney
  <2> QED
    BY <1>1, <2>2 DEF WithinLimit, Blocked
<1> QED
  BY <1>2, <1>3

\* Compacting a resolved effect frees what it held and no more.
LEMMA CapCompact ==
  ASSUME NEW acc \in RunMoney, NEW money, WithinLimit(acc) PROVE WithinLimit(CompactMoney(acc, money))
BY DEF CompactMoney, WithinLimit, Blocked, RunMoney

\* No step of the ledger goes over the limit of an account that is not blocked.
LEMMA CapNext ==
  ASSUME TypeInv, CapHolds, Next PROVE CapHolds'
<1> USE DEF TypeInv, OwnerOK
<1>0. capped' = capped
  BY LedgerWorld
<1>1. ASSUME capped, NEW w \in Workers, Hold(w) PROVE WithinLimit(account)'
  <2>1. account' = account \/ (MayReserve(account) /\ account' = ReserveMoney(account))
    BY <1>1 DEF Hold
  <2> QED
    BY <1>1, <2>1, CapReserve DEF CapHolds, WithinLimit, Blocked
<1>2. ASSUME capped, NEW w \in Workers, Answer(w) \/ Abandon(w) PROVE WithinLimit(account)'
  <2>1. at[w] \in Ops
    BY <1>2 DEF Answer, Abandon, ActorOK, LocalOK, InOperation, Working, Actors
  <2>2. \E actual \in Actuals \cup {Unmetered}: account' = SettleMoney(account, dispatch[at[w]].money, actual)
    BY <1>2 DEF Answer, Abandon, Conclude
  <2>3. dispatch[at[w]].money \in DispatchMoney
    BY <2>1 DEF DispatchEffects
  <2> QED
    BY <1>2, <2>2, <2>3, CapSettle DEF CapHolds, WithinLimit, Blocked
<1>3. ASSUME capped, NEW w \in Workers, RaiseFloor(w) PROVE WithinLimit(account)'
  <2>1. account' = account \/ account' = CompactMoney(account, dispatch[at[w]].money)
    BY <1>3 DEF RaiseFloor
  <2> QED
    BY <1>3, <2>1, CapCompact DEF CapHolds, WithinLimit, Blocked
<1>4. account' = account => CapHolds'
  BY <1>0 DEF CapHolds, WithinLimit, Blocked
<1> QED
  BY <1>0, <1>1, <1>2, <1>3, <1>4, OwnerWriters
  DEF CapHolds, OwnerWrite, OwnerSame, Admit, Reserve, Claim, Refuse, ConcludeOperation, Mark, Fence, FinishHandle

\* An account starts empty.
LEMMA CapInit == Init => CapHolds
BY MoneyAssumption DEF Init, CapHolds, WithinLimit, NewAccount

\* A stutter moves no money.
LEMMA CapStutter == CapHolds /\ UNCHANGED vars => CapHolds'
BY DEF CapHolds, WithinLimit, Blocked, vars, ownerVars

\* A capped run never commits more than its limit, settled and held together,
\* unless a request cost more than its reservation and the account is blocked
\* (reserve_money, settle_money, coherent_totals).
THEOREM SpendWithinCap == Spec => []CapHolds
<1>1. TypeInv /\ CapHolds /\ [Next]_vars => (TypeInv /\ CapHolds)'
  BY TypeNext, CapNext, CapStutter
<1> QED
  BY <1>1, TypeInit, CapInit, PTL DEF Spec

-----------------------------------------------------------------------------
(* The books: sums over the effects, counted as sets of units.               *)

Monies == [Ops -> DispatchMoney]

\* What one effect adds to the sum over some phases.
Share(money, phases) == IF money.phase \in phases THEN money.charged ELSE 0

\* The units of one effect are its share, and an effect has finitely many.
LEMMA UnitsOf ==
  ASSUME NEW op, NEW n \in Nat
  PROVE  IsFiniteSet({op} \X (1..n)) /\ Cardinality({op} \X (1..n)) = n
<1>1. IsFiniteSet({op}) /\ Cardinality({op}) = 1
  BY FS_Singleton
<1>2. IsFiniteSet(1..n) /\ Cardinality(1..n) = n
  BY FS_Interval
<1>3. /\ IsFiniteSet({op} \X (1..n))
      /\ Cardinality({op} \X (1..n)) = Cardinality({op}) * Cardinality(1..n)
  BY <1>1, <1>2, FS_Product
<1> QED
  BY <1>1, <1>2, <1>3

\* A unit belongs to an effect in one of the phases, and to no other.
LEMMA ChargesOf ==
  ASSUME NEW m \in Monies, NEW phases, NEW c
  PROVE  c \in Charges(m, phases) <=>
            \E op \in Ops: m[op].phase \in phases /\ c \in {op} \X (1..m[op].charged)
BY DEF Charges, Monies

\* The charges of a run are finitely many.
LEMMA ChargesFinite ==
  ASSUME NEW m \in Monies, NEW phases
  PROVE  IsFiniteSet(Charges(m, phases))
<1> DEFINE S == {op \in Ops: m[op].phase \in phases}
           T == {{op} \X (1..m[op].charged): op \in S}
           f == [op \in S |-> {op} \X (1..m[op].charged)]
<1>1. IsFiniteSet(S)
  <2>1. IsFiniteSet(Ops)
    BY RunAssumption, FS_Interval DEF Ops
  <2> QED
    BY <2>1, FS_Subset
<1>2. f \in Surjection(S, T)
  BY DEF Surjection
<1>3. IsFiniteSet(T)
  BY <1>1, <1>2, FS_Surjection
<1>4. \A op \in S: IsFiniteSet({op} \X (1..m[op].charged))
  BY UnitsOf DEF Monies, DispatchMoney
<1>5. IsFiniteSet(UNION T)
  <2>1. \A U \in T: IsFiniteSet(U)
    BY <1>4
  <2> HIDE DEF T
  <2> QED
    BY <1>3, <2>1, FS_UNION
<1> QED
  BY <1>5 DEF Charges, Monies

\* One effect and the others: the sum is the sum of both.
LEMMA ChargesApart ==
  ASSUME NEW m \in Monies, NEW phases, NEW op \in Ops
  PROVE  LET others == {c \in Charges(m, phases): c[1] # op}
         IN  /\ Cardinality(others) \in Nat
             /\ ChargedIn(m, phases) = Cardinality(others) + Share(m[op], phases)
<1> DEFINE others == {c \in Charges(m, phases): c[1] # op}
           own == IF m[op].phase \in phases THEN {op} \X (1..m[op].charged) ELSE {}
<1>1. IsFiniteSet(others) /\ Cardinality(others) \in Nat
  BY ChargesFinite, FS_Subset, FS_CardinalityType
<1>2. IsFiniteSet(own) /\ Cardinality(own) = Share(m[op], phases) /\ Share(m[op], phases) \in Nat
  <2>1. m[op].charged \in Nat
    BY DEF Monies, DispatchMoney
  <2> QED
    BY <2>1, UnitsOf, FS_EmptySet DEF Share
<1>3. Charges(m, phases) = others \cup own
  <2>1. ASSUME NEW c \in Charges(m, phases), c[1] = op PROVE c \in own
    <3>1. PICK o \in Ops: m[o].phase \in phases /\ c \in {o} \X (1..m[o].charged)
      BY ChargesOf
    <3>2. o = op
      BY <2>1, <3>1
    <3> QED
      BY <3>1, <3>2
  <2>2. own \subseteq Charges(m, phases)
    BY ChargesOf
  <2> QED
    BY <2>1, <2>2
<1>4. others \cap own = {}
  OBVIOUS
<1> HIDE DEF others, own
<1>5. Cardinality(others \cup own) = Cardinality(others) + Cardinality(own) - Cardinality(others \cap own)
  BY <1>1, <1>2, FS_Union
<1>6. Cardinality(others \cap own) = 0
  BY <1>4, FS_EmptySet
<1>7. ChargedIn(m, phases) = Cardinality(others) + Share(m[op], phases)
  BY <1>1, <1>2, <1>3, <1>5, <1>6 DEF ChargedIn
<1> QED
  BY <1>1, <1>7 DEF others

\* The sum after one effect changed.
LEMMA Rebooked ==
  ASSUME NEW m \in Monies, NEW op \in Ops, NEW new \in DispatchMoney, NEW phases
  PROVE  /\ ChargedIn(m, phases) \in Nat
         /\ ChargedIn([m EXCEPT ![op] = new], phases)
              = ChargedIn(m, phases) - Share(m[op], phases) + Share(new, phases)
<1> DEFINE n == [m EXCEPT ![op] = new]
           rest == {c \in Charges(m, phases): c[1] # op}
           after == {c \in Charges(n, phases): c[1] # op}
<1>1. n \in Monies /\ n[op] = new /\ \A o \in Ops: o # op => n[o] = m[o]
  BY DEF Monies
<1> HIDE DEF n
<1>2. rest = after
  <2>1. ASSUME NEW c, c[1] # op PROVE c \in Charges(m, phases) <=> c \in Charges(n, phases)
    <3>1. ASSUME NEW o \in Ops, c \in {o} \X (1..m[o].charged) \/ c \in {o} \X (1..n[o].charged) PROVE n[o] = m[o]
      BY <1>1, <2>1, <3>1
    <3> QED
      BY <1>1, <3>1, ChargesOf
  <2> QED
    BY <2>1
<1>3. Cardinality(rest) \in Nat /\ ChargedIn(m, phases) = Cardinality(rest) + Share(m[op], phases)
  BY ChargesApart
<1>4. ChargedIn(n, phases) = Cardinality(after) + Share(new, phases)
  BY <1>1, ChargesApart
<1>5. Share(m[op], phases) \in Nat /\ Share(new, phases) \in Nat
  BY DEF Share, Monies, DispatchMoney
<1> HIDE DEF rest, after
<1> QED
  BY <1>2, <1>3, <1>4, <1>5 DEF n

\* The count of reservations after one effect changed.
LEMMA Recounted ==
  ASSUME NEW m \in Monies, NEW op \in Ops, NEW new \in DispatchMoney
  PROVE  /\ ReservationsIn(m) \in Nat
         /\ (m[op].phase = "none") = (new.phase = "none") => ReservationsIn([m EXCEPT ![op] = new]) = ReservationsIn(m)
         /\ m[op].phase = "none" /\ new.phase # "none" => ReservationsIn([m EXCEPT ![op] = new]) = ReservationsIn(m) + 1
         /\ m[op].phase # "none" /\ new.phase = "none" => ReservationsIn([m EXCEPT ![op] = new]) = ReservationsIn(m) - 1
<1> DEFINE n == [m EXCEPT ![op] = new]
           R(x) == {o \in Ops: x[o].phase # "none"}
<1>1. n \in Monies /\ n[op] = new /\ \A o \in Ops: o # op => n[o] = m[o]
  BY DEF Monies
<1>2. ReservationsIn(m) = Cardinality(R(m)) /\ ReservationsIn(n) = Cardinality(R(n))
  BY <1>1 DEF ReservationsIn, Monies
<1> HIDE DEF n
<1>3. IsFiniteSet(R(m)) /\ Cardinality(R(m)) \in Nat
  <2>1. IsFiniteSet(Ops)
    BY RunAssumption, FS_Interval DEF Ops
  <2> QED
    BY <2>1, FS_Subset, FS_CardinalityType
<1>4. ASSUME (m[op].phase = "none") = (new.phase = "none") PROVE R(n) = R(m)
  BY <1>1, <1>4
<1>5. ASSUME m[op].phase = "none", new.phase # "none" PROVE R(n) = R(m) \cup {op} /\ op \notin R(m)
  BY <1>1, <1>5
<1>6. ASSUME m[op].phase # "none", new.phase = "none" PROVE R(n) = R(m) \ {op} /\ op \in R(m)
  BY <1>1, <1>6
<1> HIDE DEF R
<1>7. Cardinality(R(m) \cup {op}) = IF op \in R(m) THEN Cardinality(R(m)) ELSE Cardinality(R(m)) + 1
  BY <1>3, FS_AddElement
<1>8. Cardinality(R(m) \ {op}) = IF op \in R(m) THEN Cardinality(R(m)) - 1 ELSE Cardinality(R(m))
  BY <1>3, FS_RemoveElement
<1> QED
  BY <1>2, <1>3, <1>4, <1>5, <1>6, <1>7, <1>8 DEF n

\* A new reservation is booked.
LEMMA BalanceReserve ==
  ASSUME NEW acc \in RunMoney, NEW m \in Monies, NEW op \in Ops, m[op] = NoMoney, MoneyBalances(acc, m)
  PROVE  MoneyBalances(ReserveMoney(acc), [m EXCEPT ![op] = Reservation])
<1> DEFINE n == [m EXCEPT ![op] = Reservation]
<1>1. Reservation \in DispatchMoney /\ Bound \in Nat
  BY MoneyAssumption DEF Reservation, DispatchMoney
<1>2. /\ ReserveMoney(acc).settled = acc.settled /\ ReserveMoney(acc).held = acc.held + Bound
      /\ ReserveMoney(acc).unknown = acc.unknown /\ ReserveMoney(acc).compacted = acc.compacted
      /\ ReserveMoney(acc).reservations = acc.reservations + 1
      /\ ReserveMoney(acc).compactedReservations = acc.compactedReservations
  BY DEF ReserveMoney, RunMoney
<1>3. \A phases: ChargedIn(m, phases) \in Nat
                   /\ ChargedIn(n, phases) = ChargedIn(m, phases) - Share(NoMoney, phases) + Share(Reservation, phases)
  BY <1>1, Rebooked
<1>4. ReservationsIn(m) \in Nat /\ ReservationsIn(n) = ReservationsIn(m) + 1
  BY <1>1, Recounted DEF NoMoney, Reservation
<1> HIDE DEF n
<1>5. /\ ChargedIn(n, {"settled"}) = ChargedIn(m, {"settled"})
      /\ ChargedIn(n, {"unknown"}) = ChargedIn(m, {"unknown"})
      /\ ChargedIn(n, {"held", "unknown"}) = ChargedIn(m, {"held", "unknown"}) + Bound
  BY <1>1, <1>3 DEF Share, NoMoney, Reservation
<1>6. /\ acc.settled \in Nat /\ acc.held \in Int /\ acc.compacted \in Nat
      /\ acc.reservations \in Nat /\ acc.compactedReservations \in Nat
  BY DEF RunMoney
<1>7. MoneyBalances(ReserveMoney(acc), n)
  BY <1>1, <1>2, <1>4, <1>5, <1>6 DEF MoneyBalances
<1> QED
  BY <1>7 DEF n

\* A held reservation is settled, or becomes unknown for ever.
LEMMA BalanceSettle ==
  ASSUME NEW acc \in RunMoney, NEW m \in Monies, NEW op \in Ops, m[op].phase = "held", MoneyBalances(acc, m),
         NEW actual \in Actuals \cup {Unmetered}
  PROVE  MoneyBalances(SettleMoney(acc, m[op], actual), [m EXCEPT ![op] = SettledMoney(acc, m[op], actual)])
<1> DEFINE new == SettledMoney(acc, m[op], actual)
           n == [m EXCEPT ![op] = new]
           reason == ReasonAfter(acc, m[op], actual)
           after == SettleMoney(acc, m[op], actual)
<1>1. m[op] \in DispatchMoney /\ m[op].charged \in Nat /\ new \in DispatchMoney
  BY MoneyType DEF Monies, DispatchMoney
<1>2. /\ acc.settled \in Nat /\ acc.held \in Int /\ acc.unknown \in Nat /\ acc.compacted \in Nat
      /\ acc.reservations \in Nat /\ acc.compactedReservations \in Nat
  BY DEF RunMoney
<1> HIDE DEF new
<1>3. \A phases: ChargedIn(m, phases) \in Nat
                   /\ ChargedIn(n, phases) = ChargedIn(m, phases) - Share(m[op], phases) + Share(new, phases)
  BY <1>1, Rebooked
<1>4. new.phase # "none" => ReservationsIn(m) \in Nat /\ ReservationsIn(n) = ReservationsIn(m)
  BY <1>1, Recounted
<1> HIDE DEF n, reason
<1>5. CASE Provable(acc, actual)
  <2>1. actual \in Nat
    BY <1>5, MoneyAssumption DEF Provable
  <2>2. new.phase = "settled" /\ new.charged = actual
    BY <1>5 DEF new, SettledMoney
  <2>3. after = [acc EXCEPT !.settled = acc.settled + actual, !.held = acc.held - m[op].charged, !.reason = reason]
    BY <1>5 DEF SettleMoney, reason
  <2>4. /\ after.settled = acc.settled + actual /\ after.held = acc.held - m[op].charged
        /\ after.unknown = acc.unknown /\ after.compacted = acc.compacted
        /\ after.reservations = acc.reservations /\ after.compactedReservations = acc.compactedReservations
    BY <2>3 DEF RunMoney
  <2>5. /\ ChargedIn(n, {"settled"}) = ChargedIn(m, {"settled"}) + actual
        /\ ChargedIn(n, {"unknown"}) = ChargedIn(m, {"unknown"})
        /\ ChargedIn(n, {"held", "unknown"}) = ChargedIn(m, {"held", "unknown"}) - m[op].charged
    BY <1>1, <1>3, <2>1, <2>2 DEF Share
  <2> HIDE DEF after
  <2>6. MoneyBalances(after, n)
    BY <1>1, <1>2, <1>3, <1>4, <2>1, <2>2, <2>4, <2>5 DEF MoneyBalances
  <2> QED
    BY <2>6 DEF after, n, new
<1>6. CASE ~Provable(acc, actual)
  <2>1. new.phase = "unknown" /\ new.charged = m[op].charged
    BY <1>1, <1>6 DEF new, SettledMoney, DispatchMoney
  <2>2. after = [acc EXCEPT !.unknown = acc.unknown + m[op].charged, !.reason = reason]
    BY <1>6 DEF SettleMoney, reason, RunMoney
  <2>3. /\ after.settled = acc.settled /\ after.held = acc.held
        /\ after.unknown = acc.unknown + m[op].charged /\ after.compacted = acc.compacted
        /\ after.reservations = acc.reservations /\ after.compactedReservations = acc.compactedReservations
    BY <2>2 DEF RunMoney
  <2>4. /\ ChargedIn(n, {"settled"}) = ChargedIn(m, {"settled"})
        /\ ChargedIn(n, {"unknown"}) = ChargedIn(m, {"unknown"}) + m[op].charged
        /\ ChargedIn(n, {"held", "unknown"}) = ChargedIn(m, {"held", "unknown"})
    BY <1>1, <1>3, <2>1 DEF Share
  <2> HIDE DEF after
  <2>5. MoneyBalances(after, n)
    BY <1>1, <1>2, <1>4, <2>1, <2>3, <2>4 DEF MoneyBalances
  <2> QED
    BY <2>5 DEF after, n, new
<1> QED
  BY <1>5, <1>6

\* A settled effect is pruned; its charge moves to the compacted total.
LEMMA BalanceCompact ==
  ASSUME NEW acc \in RunMoney, NEW m \in Monies, NEW op \in Ops, m[op].phase = "settled", MoneyBalances(acc, m)
  PROVE  MoneyBalances(CompactMoney(acc, m[op]), [m EXCEPT ![op] = NoMoney])
<1> DEFINE n == [m EXCEPT ![op] = NoMoney]
           after == CompactMoney(acc, m[op])
<1>1. NoMoney \in DispatchMoney /\ m[op] \in DispatchMoney /\ m[op].charged \in Nat
  BY DEF NoMoney, DispatchMoney, Monies
<1>2. /\ after.settled = acc.settled /\ after.held = acc.held /\ after.unknown = acc.unknown
      /\ after.compacted = acc.compacted + m[op].charged /\ after.reservations = acc.reservations
      /\ after.compactedReservations = acc.compactedReservations + 1
  BY DEF CompactMoney, RunMoney
<1>3. \A phases: ChargedIn(m, phases) \in Nat
                   /\ ChargedIn(n, phases) = ChargedIn(m, phases) - Share(m[op], phases) + Share(NoMoney, phases)
  BY <1>1, Rebooked
<1>4. ReservationsIn(m) \in Nat /\ ReservationsIn(n) = ReservationsIn(m) - 1
  BY <1>1, Recounted DEF NoMoney
<1> HIDE DEF n, after
<1>5. /\ ChargedIn(n, {"settled"}) = ChargedIn(m, {"settled"}) - m[op].charged
      /\ ChargedIn(n, {"unknown"}) = ChargedIn(m, {"unknown"})
      /\ ChargedIn(n, {"held", "unknown"}) = ChargedIn(m, {"held", "unknown"})
  BY <1>1, <1>3 DEF Share, NoMoney
<1>6. /\ acc.settled \in Nat /\ acc.held \in Int /\ acc.unknown \in Nat /\ acc.compacted \in Nat
      /\ acc.reservations \in Nat /\ acc.compactedReservations \in Nat
  BY DEF RunMoney
<1>7. MoneyBalances(after, n)
  BY <1>1, <1>2, <1>3, <1>4, <1>5, <1>6 DEF MoneyBalances
<1> QED
  BY <1>7 DEF n, after

MoneyOf == [op \in Ops |-> dispatch[op].money]

\* The money of a request follows its state.
MoneyFollows(d) ==
    /\ d.state = "none" => d.money = NoMoney
    /\ d.state = "dispatched" => d.money.phase = "held"
    /\ d.state = "complete" => d.money.phase = "settled"
    /\ d.state = "unknown" => d.money.phase = "unknown"

BookInv ==
    capped => /\ \A op \in Ops: MoneyFollows(dispatch[op])
              /\ MoneyBalances(account, MoneyOf)

\* A step that rewrites the effect of one operation rewrites its money there.
LEMMA OneRebooked ==
  ASSUME OwnerOK, NEW op \in Ops, NEW d, dispatch' = [dispatch EXCEPT ![op] = d]
  PROVE  MoneyOf \in Monies /\ MoneyOf' = [MoneyOf EXCEPT ![op] = d.money]
BY DEF OwnerOK, MoneyOf, Monies, DispatchEffects

\* A request that ends: its effect, its money and its account.
LEMMA BookConclude ==
  ASSUME OwnerOK, BookInv, capped, capped', NEW op \in Ops, dispatch[op].state = "dispatched",
         NEW actual \in Actuals \cup {Unmetered}, NEW completed \in BOOLEAN,
         completed \/ actual = Unmetered, Conclude(op, actual, completed)
  PROVE  BookInv'
<1> DEFINE money == dispatch[op].money
           settled == SettledMoney(account, money, actual)
           state == IF completed /\ settled.phase = "settled" THEN "complete" ELSE "unknown"
           d == [dispatch[op] EXCEPT !.state = state, !.money = settled]
<1>1. money \in DispatchMoney /\ money.phase = "held" /\ account \in RunMoney /\ money = MoneyOf[op]
  BY DEF OwnerOK, DispatchEffects, BookInv, MoneyFollows, MoneyOf
<1>2. settled.phase \in {"settled", "unknown"} /\ (settled.phase = "settled" => completed)
  <2>1. Provable(account, actual) => settled.phase = "settled" /\ completed
    BY DEF SettledMoney, Provable
  <2>2. ~Provable(account, actual) => settled.phase = "unknown"
    BY <1>1 DEF SettledMoney, DispatchMoney
  <2> QED
    BY <2>1, <2>2
<1>3. account' = SettleMoney(account, money, actual)
  BY DEF Conclude
<1>4. dispatch' = [dispatch EXCEPT ![op].state = state, ![op].money = settled]
  BY DEF Conclude
<1> HIDE DEF settled
<1>5. dispatch' = [dispatch EXCEPT ![op] = d]
  BY <1>4 DEF OwnerOK, DispatchEffects
<1>6. d.money = settled /\ d.state = state
  BY DEF OwnerOK, DispatchEffects
<1>7. MoneyFollows(d)
  BY <1>2, <1>6 DEF MoneyFollows
<1> HIDE DEF d, state
<1>8. MoneyOf \in Monies /\ MoneyOf' = [MoneyOf EXCEPT ![op] = settled]
  BY <1>5, <1>6, OneRebooked
<1>9. MoneyBalances(account, MoneyOf)'
  BY <1>1, <1>3, <1>8, BalanceSettle DEF BookInv, settled
<1>10. \A o \in Ops: MoneyFollows(dispatch'[o])
  BY <1>5, <1>7 DEF BookInv, OwnerOK
<1> QED
  BY <1>9, <1>10 DEF BookInv, MoneyFollows

\* No step leaves the books unbalanced.
LEMMA BookNext ==
  ASSUME TypeInv, SendInv, BookInv, Next PROVE BookInv'
<1> SUFFICES ASSUME capped PROVE BookInv'
  BY LedgerWorld DEF BookInv
<1> USE DEF TypeInv
<1>0. capped' = capped
  BY LedgerWorld
<1>1. \A w \in Workers: InOperation(w) => at[w] \in Ops
  BY DEF ActorOK, LocalOK, Actors
<1>2. UNCHANGED <<account, dispatch>> => BookInv'
  BY <1>0 DEF BookInv, MoneyOf
<1>3. ASSUME NEW w \in Workers, Hold(w), ~UNCHANGED <<account, dispatch>> PROVE BookInv'
  <2> DEFINE op == at[w]
             d == [state |-> "dispatched", delivered |-> FALSE, money |-> Reservation]
  <2>1. /\ dispatch[op].state = "none"
        /\ dispatch' = [dispatch EXCEPT ![op] = d]
        /\ account' = ReserveMoney(account)
    BY <1>3 DEF Hold
  <2>2. op \in Ops
    BY <1>1, <1>3 DEF Hold, InOperation, Working
  <2>3. MoneyOf \in Monies /\ MoneyOf' = [MoneyOf EXCEPT ![op] = Reservation]
    <3>1. d.money = Reservation
      OBVIOUS
    <3> HIDE DEF op, d
    <3>2. MoneyOf \in Monies /\ MoneyOf' = [MoneyOf EXCEPT ![op] = d.money]
      BY <2>1, <2>2, OneRebooked
    <3> QED
      BY <3>1, <3>2
  <2>4. MoneyOf[op] = NoMoney
    BY <2>1, <2>2 DEF MoneyOf, BookInv, MoneyFollows
  <2>5. MoneyBalances(account, MoneyOf)'
    BY <2>1, <2>2, <2>3, <2>4, BalanceReserve DEF BookInv, OwnerOK
  <2>6. \A o \in Ops: MoneyFollows(dispatch'[o])
    BY <2>1, <2>2 DEF BookInv, OwnerOK, MoneyFollows, Reservation
  <2> QED
    BY <2>5, <2>6 DEF BookInv, MoneyFollows
<1>4. ASSUME NEW w \in Workers, Answer(w) \/ Abandon(w) PROVE BookInv'
  <2>1. at[w] \in Ops /\ dispatch[at[w]].state = "dispatched"
    BY <1>1, <1>4 DEF Answer, Abandon, InOperation, Working, SendInv, Sending
  <2>2. \E actual \in Actuals \cup {Unmetered}, completed \in BOOLEAN:
           (completed \/ actual = Unmetered) /\ Conclude(at[w], actual, completed)
    BY <1>4 DEF Answer, Abandon
  <2> QED
    BY <1>0, <2>1, <2>2, BookConclude
<1>5. ASSUME NEW w \in Workers, RaiseFloor(w) PROVE BookInv'
  <2> DEFINE op == at[w]
  <2>1. op \in Ops
    BY <1>1, <1>5 DEF RaiseFloor, InOperation, Working
  <2>2. CASE ~(dispatch[op].state = "complete" /\ dispatch[op].delivered)
    <3>1. UNCHANGED <<account, dispatch>>
      BY <1>5, <2>1, <2>2 DEF RaiseFloor, OwnerOK
    <3> QED
      BY <1>2, <3>1
  <2>3. CASE dispatch[op].state = "complete" /\ dispatch[op].delivered
    <3>1. dispatch' = [dispatch EXCEPT ![op] = NoDispatch] /\ account' = CompactMoney(account, dispatch[op].money)
      BY <1>5, <2>3 DEF RaiseFloor
    <3>2. MoneyOf \in Monies /\ MoneyOf' = [MoneyOf EXCEPT ![op] = NoMoney]
      <4>1. NoDispatch.money = NoMoney
        BY DEF NoDispatch
      <4> HIDE DEF op
      <4>2. MoneyOf \in Monies /\ MoneyOf' = [MoneyOf EXCEPT ![op] = NoDispatch.money]
        BY <2>1, <3>1, OneRebooked
      <4> QED
        BY <4>1, <4>2
    <3>3. MoneyOf[op] = dispatch[op].money /\ MoneyOf[op].phase = "settled"
      BY <2>1, <2>3 DEF MoneyOf, BookInv, MoneyFollows
    <3>4. MoneyBalances(account, MoneyOf)'
      BY <2>1, <3>1, <3>2, <3>3, BalanceCompact DEF BookInv, OwnerOK
    <3>5. \A o \in Ops: MoneyFollows(dispatch'[o])
      BY <2>1, <3>1 DEF BookInv, OwnerOK, MoneyFollows, NoDispatch
    <3> QED
      BY <3>4, <3>5 DEF BookInv, MoneyFollows
  <2> QED
    BY <2>2, <2>3
<1>6. ASSUME NEW a \in Actors, Mark(a) PROVE BookInv'
  <2> DEFINE entry == Entry(a)
  <2>1. dispatch' \in {dispatch, [dispatch EXCEPT ![entry].delivered = TRUE]} /\ account' = account
    BY <1>6 DEF Mark
  <2> HIDE DEF entry
  <2>2. \A op \in Ops: dispatch'[op].state = dispatch[op].state /\ dispatch'[op].money = dispatch[op].money
    BY <2>1 DEF OwnerOK, DispatchEffects
  <2>3. MoneyOf' = MoneyOf
    BY <2>2 DEF MoneyOf
  <2> QED
    BY <2>1, <2>2, <2>3 DEF BookInv, MoneyFollows
<1> QED
  BY <1>2, <1>3, <1>4, <1>5, <1>6, OwnerWriters
  DEF OwnerWrite, OwnerSame, Admit, Reserve, Claim, Refuse, ConcludeOperation, Fence, FinishHandle

\* An account starts with nothing booked.
LEMMA BookInit == Init => BookInv
<1> SUFFICES ASSUME Init PROVE BookInv
  OBVIOUS
<1>1. \A op \in Ops: dispatch[op] = NoDispatch /\ MoneyOf[op] = NoMoney
  BY DEF Init, MoneyOf, NoDispatch
<1>2. \A phases: "none" \notin phases => Charges(MoneyOf, phases) = {}
  <2>1. MoneyOf \in Monies
    BY <1>1 DEF MoneyOf, Monies, NoDispatch, NoMoney, DispatchMoney
  <2>2. \A op \in Ops: MoneyOf[op].phase = "none"
    BY <1>1 DEF NoMoney
  <2> HIDE DEF MoneyOf
  <2> QED
    BY <2>1, <2>2, ChargesOf
<1>3. \A phases: "none" \notin phases => ChargedIn(MoneyOf, phases) = 0
  BY <1>2, FS_EmptySet DEF ChargedIn
<1>4. {op \in DOMAIN MoneyOf: MoneyOf[op].phase # "none"} = {}
  BY <1>1 DEF MoneyOf, NoMoney
<1>5. ReservationsIn(MoneyOf) = 0
  BY <1>4, FS_EmptySet DEF ReservationsIn
<1>6. MoneyBalances(account, MoneyOf)
  BY <1>3, <1>5 DEF Init, NewAccount, MoneyBalances
<1> QED
  BY <1>1, <1>6 DEF BookInv, MoneyFollows, NoDispatch

\* A stutter books nothing.
LEMMA BookStutter == BookInv /\ UNCHANGED vars => BookInv'
BY DEF BookInv, MoneyOf, vars, ownerVars

\* Books that balance are ones that can be read back.
LEMMA BookCoherent ==
  ASSUME TypeInv, BookInv, CapHolds PROVE BooksBalance
<1> SUFFICES ASSUME capped PROVE CoherentTotals(account) /\ MoneyBalances(account, MoneyOf)
  BY DEF BooksBalance, MoneyOf
<1>1. MoneyOf \in Monies /\ account \in RunMoney
  BY DEF TypeInv, OwnerOK, MoneyOf, Monies, DispatchEffects
<1>2. MoneyBalances(account, MoneyOf) /\ WithinLimit(account)
  BY DEF BookInv, CapHolds
<1> HIDE DEF MoneyOf
<1>3. ChargedIn(MoneyOf, {"unknown"}) <= ChargedIn(MoneyOf, {"held", "unknown"})
  <2>1. Charges(MoneyOf, {"unknown"}) \subseteq Charges(MoneyOf, {"held", "unknown"})
    BY <1>1, ChargesOf
  <2> QED
    BY <1>1, <2>1, ChargesFinite, FS_Subset DEF ChargedIn
<1>4. /\ ChargedIn(MoneyOf, {"settled"}) \in Nat
      /\ ReservationsIn(MoneyOf) \in Nat
  <2>1. IsFiniteSet(Charges(MoneyOf, {"settled"}))
    BY <1>1, ChargesFinite
  <2>2. IsFiniteSet({op \in DOMAIN MoneyOf: MoneyOf[op].phase # "none"})
    <3>1. IsFiniteSet(Ops)
      BY RunAssumption, FS_Interval DEF Ops
    <3> QED
      BY <1>1, <3>1, FS_Subset DEF Monies
  <2> QED
    BY <2>1, <2>2, FS_CardinalityType DEF ChargedIn, ReservationsIn
<1> QED
  BY <1>1, <1>2, <1>3, <1>4 DEF MoneyBalances, CoherentTotals, WithinLimit, RunMoney

\* The books of a capped run: what is held, unknown, settled and compacted adds up
\* to its requests, and the cap holds unless the account is blocked
\* (validate_money_balances, coherent_totals).
THEOREM BooksKept == Spec => []BooksBalance
<1>1. Init => TypeInv /\ OwnerInv /\ CapHolds /\ BookInv
  BY TypeInit, OwnerInvInit, CapInit, BookInit
<1>2. TypeInv /\ OwnerInv /\ CapHolds /\ BookInv /\ [Next]_vars => (TypeInv /\ OwnerInv /\ CapHolds /\ BookInv)'
  BY TypeNext, OwnerInvNext, CapNext, CapStutter, BookNext, BookStutter DEF OwnerInv
<1>3. TypeInv /\ CapHolds /\ BookInv => BooksBalance
  BY BookCoherent
<1> QED
  BY <1>1, <1>2, <1>3, PTL DEF Spec

-----------------------------------------------------------------------------
(* The promise: operations in order, and the refinement of RunPromise.       *)

Resolved(op) == op <= handle.floor \/ logical[op] = "complete"

\* An operation is taken up once those before it are resolved, unless the run is
\* over; an execution that keeps a result knows how it came out.
OrderInv ==
    /\ ~Over => \A op \in Ops: op < checkpoint.next => Resolved(op)
    /\ \A w \in Workers: InOperation(w) => \A op \in Ops: op < at[w] => Resolved(op)
    /\ \A w \in Workers: pc[w] = "keep" => logical[at[w]] = "complete" \/ Unknown(at[w])

\* What is resolved stays so: an effect is pruned only below the floor.
LEMMA ResolvedStays ==
  ASSUME TypeInv, Next, NEW op \in Ops, Resolved(op) PROVE Resolved(op)'
<1> USE DEF TypeInv, OwnerOK, Resolved
<1>0. \A w \in Workers: InOperation(w) => at[w] \in Ops
  BY DEF ActorOK, LocalOK, Actors
<1>1. ASSUME NEW w \in Workers, Reserve(w) \/ Claim(w) \/ Refuse(w) \/ ConcludeOperation(w) PROVE Resolved(op)'
  <2>1. handle' = handle
    BY <1>1 DEF Reserve, Claim, Refuse, ConcludeOperation
  <2>2. logical[op] = "complete" => logical'[op] = "complete"
    BY <1>1 DEF Reserve, Claim, Refuse, ConcludeOperation
  <2> QED
    BY <2>1, <2>2
<1>2. ASSUME NEW w \in Workers, RaiseFloor(w) PROVE Resolved(op)'
  <2>1. at[w] \in Ops
    BY <1>0, <1>2 DEF RaiseFloor, InOperation, Working
  <2>2. handle'.floor = (IF handle.floor < at[w] THEN at[w] ELSE handle.floor)
    BY <1>2 DEF RaiseFloor
  <2>3. logical'[op] = logical[op] \/ op = at[w]
    BY <1>2 DEF RaiseFloor
  <2>4. handle.floor \in Int /\ at[w] \in Int /\ op \in Int
    BY <2>1 DEF Ops
  <2> QED
    BY <2>2, <2>3, <2>4
<1>3. logical' = logical /\ handle'.floor = handle.floor => Resolved(op)'
  OBVIOUS
<1>4. ASSUME NEW t \in Tabs, Admit(t) PROVE logical' = logical /\ handle'.floor = handle.floor
  BY <1>4 DEF Admit
<1>5. ASSUME NEW a \in Actors, Fence(a) \/ FinishHandle(a) PROVE logical' = logical /\ handle'.floor = handle.floor
  BY <1>5 DEF Fence, FinishHandle
<1> QED
  BY <1>1, <1>2, <1>3, <1>4, <1>5, OwnerWriters DEF OwnerWrite, OwnerSame, Hold, Answer, Abandon, Mark

\* While an execution stands still in its operation, nobody else touches the
\* operation's effects.
LEMMA EffectsHeld ==
  ASSUME TypeInv, OnceInv, Next, NEW w \in Workers, Claimed(w), pc'[w] = pc[w]
  PROVE  /\ logical'[at[w]] = logical[at[w]] /\ dispatch'[at[w]].state = dispatch[at[w]].state
         /\ dispatch[at[w]].delivered => dispatch'[at[w]].delivered
<1> USE DEF TypeInv, OwnerOK
<1>0. \A v \in Workers: InOperation(v) => at[v] \in Ops
  BY DEF ActorOK, LocalOK, Actors
<1>1. at[w] \in Ops /\ logical[at[w]] \in Taken
  BY <1>0 DEF OnceInv, Claimed, AfterClaim, InOperation, Working
<1>2. ASSUME NEW v \in Workers, \/ Hold(v) \/ Refuse(v) \/ Answer(v) \/ Abandon(v) \/ ConcludeOperation(v)
                                \/ RaiseFloor(v)
      PROVE  at[v] \in Ops /\ at[v] # at[w]
  <2>1. Claimed(v) /\ at[v] \in Ops
    BY <1>0, <1>2 DEF Hold, Refuse, Answer, Abandon, ConcludeOperation, RaiseFloor, Claimed, AfterClaim,
                      InOperation, Working
  <2>2. pc'[v] # pc[v]
    <3>1. (Refuse(v) => pc[v] = "refuse" /\ pc'[v] # "refuse") /\ (Hold(v) => pc[v] = "hold" /\ pc'[v] # "hold")
      BY DEF ActorOK, ActorSets, Actors, Refuse, Hold, Go, Fail, Reload, Step
    <3>2. ConcludeOperation(v) => pc[v] = "conclude" /\ pc'[v] # "conclude"
      BY DEF ActorOK, ActorSets, Actors, ConcludeOperation, Go, Fail, Reload, Step
    <3>3. Answer(v) \/ Abandon(v) => pc[v] \in {"answer", "abandon"} /\ pc'[v] \notin {"answer", "abandon"}
      BY DEF ActorOK, ActorSets, Actors, Answer, Abandon, Flush, StopFor, Fail, Reload, Step
    <3>4. RaiseFloor(v) => pc[v] = "raise" /\ pc'[v] # "raise"
      BY RaiseFloorMoves DEF RaiseFloor
    <3> QED
      BY <1>2, <3>1, <3>2, <3>3, <3>4
  <2> QED
    BY <2>1, <2>2 DEF OnceInv
<1>3. ASSUME NEW v \in Workers, Reserve(v) \/ Claim(v) PROVE logical'[at[w]] = logical[at[w]] /\ dispatch' = dispatch
  BY <1>1, <1>3 DEF Reserve, Claim, Taken
<1>4. ASSUME NEW v \in Workers, Hold(v) \/ Refuse(v) \/ ConcludeOperation(v) \/ RaiseFloor(v)
      PROVE logical'[at[w]] = logical[at[w]] /\ dispatch'[at[w]] = dispatch[at[w]]
  BY <1>1, <1>2, <1>4 DEF Hold, Refuse, ConcludeOperation, RaiseFloor
<1>5. ASSUME NEW v \in Workers, Answer(v) \/ Abandon(v)
      PROVE logical' = logical /\ dispatch'[at[w]] = dispatch[at[w]]
  BY <1>1, <1>2, <1>5 DEF Answer, Abandon, Conclude
<1>6. ASSUME NEW a \in Actors, Mark(a)
      PROVE /\ logical' = logical /\ dispatch'[at[w]].state = dispatch[at[w]].state
            /\ dispatch[at[w]].delivered => dispatch'[at[w]].delivered
  <2> DEFINE entry == Entry(a)
  <2>1. dispatch' \in {dispatch, [dispatch EXCEPT ![entry].delivered = TRUE]} /\ logical' = logical
    BY <1>6 DEF Mark
  <2> HIDE DEF entry
  <2> QED
    BY <1>1, <2>1 DEF DispatchEffects
<1> QED
  BY <1>3, <1>4, <1>5, <1>6, OwnerWriters DEF OwnerWrite, OwnerSame, Admit, Fence, FinishHandle

\* The checkpoint moves on only with the result of an operation.
LEMMA NextStep ==
  ASSUME TypeInv, Next
  PROVE  checkpoint'.next = checkpoint.next \/ \E w \in Workers: SaveResult(w) /\ Current(w)
<1> USE DEF TypeInv, CheckOK, Commit, LastCommit, Drop, checkVars, Unleased, Checkpoints
<1>1. ASSUME NEW t \in Tabs, CreateCheckpoint(t) \/ LaunchUnknown(t) \/ LaunchRejected(t)
      PROVE checkpoint'.next = checkpoint.next
  BY <1>1 DEF CreateCheckpoint, LaunchUnknown, LaunchRejected
<1>2. ASSUME NEW t \in Tabs, Review(t) \/ Approve(t) \/ ClearConversation(t) PROVE checkpoint'.next = checkpoint.next
  BY <1>2 DEF Review, Approve, ClearConversation
<1>3. ASSUME NEW w \in Workers, PolicyDenied(w) \/ SignInNeeded(w) \/ Acquire(w) \/ Pause(w)
      PROVE checkpoint'.next = checkpoint.next
  BY <1>3 DEF PolicyDenied, SignInNeeded, Acquire, Pause
<1>4. ASSUME NEW w \in Workers, Begin(w) \/ SaveClaim(w) \/ SaveRefused(w) PROVE checkpoint'.next = checkpoint.next
  BY <1>4 DEF Begin, SaveClaim, CheckAndSave, SaveRefused
<1>5. ASSUME NEW w \in Workers, SaveResult(w), ~Current(w) PROVE checkpoint'.next = checkpoint.next
  BY <1>5 DEF SaveResult
<1>6. ASSUME NEW w \in Workers, Close(w) PROVE checkpoint'.next = checkpoint.next
  BY <1>6 DEF Close, ResultOf, ActorOK, LocalOK, Actors
<1>7. ASSUME NEW a \in Actors, SetStatus(a) PROVE checkpoint'.next = checkpoint.next
  BY <1>7 DEF SetStatus
<1>8. LeaseExpires \/ CheckSame => checkpoint'.next = checkpoint.next
  BY DEF LeaseExpires, CheckSame
<1> QED
  BY <1>1, <1>2, <1>3, <1>4, <1>5, <1>6, <1>7, <1>8, CheckWriters DEF CheckWrite

\* A run that is over stays over, in whatever state its conversation is.
LEMMA OverStays ==
  ASSUME TypeInv, CopyInv, Next, Over PROVE Over'
<1>1. CASE checkpoint'.status = checkpoint.status
  BY <1>1 DEF Over
<1>2. CASE conversation' # conversation
  <2>1. \E t \in Tabs: ClearConversation(t)
    BY <1>2, CheckWriters
    DEF CheckWrite, CheckSame, CreateCheckpoint, LaunchUnknown, LaunchRejected, Review, Approve, PolicyDenied,
        SignInNeeded, Acquire, Pause, Begin, SaveClaim, CheckAndSave, SaveRefused, SaveResult, Close, SetStatus,
        LeaseExpires, Commit, LastCommit, Drop, checkVars
  <2> QED
    BY <2>1 DEF ClearConversation, Unleased, Over, Terminal, TypeInv, CheckOK, Checkpoints
<1> QED
  BY <1>1, <1>2, EndStep

\* No step takes up an operation out of order.
LEMMA OrderNext ==
  ASSUME TypeInv, OnceInv, CopyInv, OrderInv, Next PROVE OrderInv'
<1> USE DEF TypeInv
<1>0. \A w \in Workers: InOperation(w) => at[w] \in Ops
  BY DEF ActorOK, LocalOK, Actors
<1>1. \A op \in Ops: Resolved(op) => Resolved(op)'
  BY ResolvedStays
<1>2. ASSUME ~Over', NEW op \in Ops, op < checkpoint'.next PROVE Resolved(op)'
  <2>1. ~Over
    BY <1>2, OverStays
  <2>2. CASE checkpoint'.next = checkpoint.next
    BY <1>1, <1>2, <2>1, <2>2 DEF OrderInv
  <2>3. ASSUME NEW w \in Workers, SaveResult(w), Current(w) PROVE Resolved(op)'
    <3>1. /\ checkpoint'.next = at[w] + 1
          /\ Unknown(at[w]) => checkpoint'.status = "outcome_unknown"
          /\ pc[w] = "keep"
      BY <2>3 DEF SaveResult, Commit, CheckOK, Checkpoints
    <3>2. at[w] \in Ops /\ InOperation(w)
      BY <1>0, <3>1 DEF InOperation, Working
    <3>3. ~Unknown(at[w])
      BY <1>2, <3>1 DEF Over, Terminal
    <3>4. logical[at[w]] = "complete"
      BY <3>1, <3>3 DEF OrderInv
    <3>5. op < at[w] \/ op = at[w]
      BY <1>2, <3>1, <3>2 DEF Ops
    <3> QED
      BY <1>1, <3>2, <3>4, <3>5 DEF OrderInv, Resolved
  <2> QED
    BY <2>2, <2>3, NextStep
<1>3. ASSUME NEW w \in Workers, InOperation(w)', NEW op \in Ops, op < at'[w] PROVE Resolved(op)'
  <2>1. \/ InOperation(w) /\ at'[w] = at[w]
        \/ Acquire(w) /\ Current(w) /\ pc'[w] \in {"pause", "begin"}
        \/ RaiseFloor(w) /\ pc[w] = "raise" /\ pc'[w] \in {"pause", "begin"}
    BY <1>3, Courses DEF Idles, Course, Quiet, InOperation, Working, SameAt, Actors
  <2>2. CASE InOperation(w) /\ at'[w] = at[w]
    BY <1>1, <1>3, <2>2 DEF OrderInv
  <2>3. CASE Acquire(w) /\ Current(w) /\ pc'[w] \in {"pause", "begin"}
    <3>1. ~Over /\ at'[w] = checkpoint.next
      BY <2>3, AcquireMoves DEF Acquire, Current, CopiesOK
    <3> QED
      BY <1>1, <1>3, <3>1 DEF OrderInv
  <2>4. CASE RaiseFloor(w) /\ pc[w] = "raise" /\ pc'[w] \in {"pause", "begin"}
    <3>1. at[w] \in Ops /\ InOperation(w)
      BY <1>0, <2>4 DEF InOperation, Working
    <3>2. at'[w] = at[w] + 1
      BY <2>4, RaiseFloorMoves DEF RaiseFloor
    <3>3. handle'.floor >= at[w] /\ handle'.floor \in Int
      BY <2>4, <3>1 DEF RaiseFloor, OwnerOK, Ops
    <3>4. op < at[w] \/ op = at[w]
      BY <1>3, <3>1, <3>2 DEF Ops
    <3> QED
      BY <1>1, <3>1, <3>3, <3>4 DEF OrderInv, Resolved, Ops
  <2> QED
    BY <2>1, <2>2, <2>3, <2>4
<1>4. ASSUME NEW w \in Workers, pc'[w] = "keep" PROVE (logical[at[w]] = "complete" \/ Unknown(at[w]))'
  <2>1. at'[w] = at[w] /\ (pc[w] = "keep" \/ (ConcludeOperation(w) /\ pc[w] = "conclude"))
    BY <1>4, Courses DEF Idles, Course, Quiet, SameAt, Actors
  <2>2. CASE pc[w] = "keep"
    <3>1. Claimed(w)
      BY <2>2 DEF Claimed, AfterClaim
    <3> QED
      BY <1>4, <2>1, <2>2, <3>1, EffectsHeld DEF OrderInv, Unknown
  <2>3. CASE ConcludeOperation(w) /\ pc[w] = "conclude"
    <3>1. at[w] \in Ops
      BY <1>0, <2>3 DEF InOperation, Working
    <3>2. logical' = [logical EXCEPT ![at[w]] = IF Unknown(at[w]) THEN "unknown" ELSE "complete"] /\ dispatch' = dispatch
      BY <1>4, <2>3 DEF ConcludeOperation, Fail, Reload, Step, ActorOK, ActorSets, Actors
    <3> QED
      BY <2>1, <3>1, <3>2 DEF Unknown, OwnerOK
  <2> QED
    BY <2>1, <2>2, <2>3
<1> QED
  BY <1>2, <1>3, <1>4 DEF OrderInv

\* Nothing is taken up at the start.
LEMMA OrderInit == Init => OrderInv
BY RunAssumption DEF Init, OrderInv, InOperation, Working, Actors, Ops

\* A stutter takes nothing up.
LEMMA OrderStutter == OrderInv /\ UNCHANGED vars => OrderInv'
BY DEF OrderInv, Over, Resolved, InOperation, Unknown, vars, ownerVars, checkVars, actorVars

\* How far an operation has come, for the promise.
StageKept(op) == Stage(op)' = Stage(op)

\* What the promise sees of the handle.
FlagsStay ==
    /\ handle'.terminal = handle.terminal
    /\ (handle'.admitted /\ ~handle'.active) <=> (handle.admitted /\ ~handle.active)

InFlight(op) == ~Resolved(op) /\ logical[op] \in {"dispatched", "unknown"}
Entered(op) == IsTool(op) \/ dispatch[op].state # "none"

\* The stages, one by one.
StageOK(op) ==
    /\ Resolved(op) => Stage(op) = "resolved"
    /\ InFlight(op) /\ egress[op] > 0 => Stage(op) = "sent"
    /\ InFlight(op) /\ egress[op] = 0 /\ Entered(op) => Stage(op) = "permitted"
    /\ InFlight(op) /\ egress[op] = 0 /\ ~Entered(op) => Stage(op) = "claimed"
    /\ ~Resolved(op) /\ ~InFlight(op) => Stage(op) = "idle"

\* They are what the mapping says, before a step and after it.
LEMMA Stages ==
  ASSUME NEW op \in Ops
  PROVE  (TypeInv => StageOK(op)) /\ (TypeInv' => StageOK(op)')
<1>1. ASSUME TypeInv PROVE StageOK(op)
  <2>1. /\ egress[op] \in Nat /\ handle.floor \in Int /\ op \in Int
        /\ logical[op] \in {"none", "reserved", "dispatched", "complete", "unknown"}
    BY <1>1 DEF TypeInv, OwnerOK, WorldOK, Ops, EffectStates
  <2> QED
    BY <2>1 DEF StageOK, Stage, Resolved, InFlight, Entered
<1>2. ASSUME TypeInv' PROVE StageOK(op)'
  <2>1. /\ egress'[op] \in Nat /\ handle'.floor \in Int /\ op \in Int
        /\ logical'[op] \in {"none", "reserved", "dispatched", "complete", "unknown"}
    BY <1>2 DEF TypeInv, OwnerOK, WorldOK, Ops, EffectStates
  <2> QED
    BY <2>1 DEF StageOK, Stage, Resolved, InFlight, Entered
<1> QED
  BY <1>1, <1>2

\* Only these decide on the stage of an operation.
LEMMA StageStays ==
  ASSUME TypeInv, TypeInv', NEW op \in Ops,
         \/ Resolved(op) /\ Resolved(op)'
         \/ /\ Resolved(op)' <=> Resolved(op)
            /\ InFlight(op)' <=> InFlight(op)
            /\ InFlight(op) => egress'[op] = egress[op] /\ (Entered(op)' <=> Entered(op))
  PROVE  StageKept(op)
<1>1. egress[op] \in Nat
  BY DEF TypeInv, WorldOK
<1> QED
  BY <1>1, Stages DEF StageOK, StageKept

\* An operation whose records stay is where it was.
LEMMA RecordsStay ==
  ASSUME TypeInv, TypeInv', NEW op \in Ops, capped' = capped, handle'.floor = handle.floor,
         logical'[op] = logical[op], egress'[op] = egress[op],
         (dispatch'[op].state = "none") <=> (dispatch[op].state = "none")
  PROVE  StageKept(op)
BY StageStays DEF Resolved, InFlight, Entered, IsTool

\* Nothing the promise sees.
AllStay == FlagsStay /\ \A op \in Ops: StageKept(op)

\* A step of the promise moves one operation.
LEMMA OnePromised ==
  ASSUME NEW op \in Ops, NEW from, NEW to, Stage(op) \in from, Stage(op)' = to,
         FlagsStay, \A o \in Ops \ {op}: StageKept(o)
  PROVE  Promise!Move(op, from, to)
<1>1. [o \in Ops |-> Stage(o)]' = [[o \in Ops |-> Stage(o)] EXCEPT ![op] = to]
  BY DEF StageKept
<1>2. handle'.terminal = handle.terminal /\ (handle.admitted /\ ~handle.active)' = (handle.admitted /\ ~handle.active)
  BY DEF FlagsStay
<1> QED
  BY <1>1, <1>2 DEF Promise!Move
PromiseInv == TypeInv /\ OwnerInv /\ LedgerInv /\ CopyInv /\ OrderInv

\* What an execution knows of the operation it claimed.
LEMMA ClaimedOp ==
  ASSUME PromiseInv, NEW w \in Workers, Claimed(w)
  PROVE  /\ at[w] \in Ops
         /\ logical[at[w]] \in Taken
         /\ Resolved(at[w]) \/ InFlight(at[w])
         /\ \A op \in Ops: op < at[w] => Resolved(op)
<1>1. InOperation(w)
  BY DEF Claimed, AfterClaim, InOperation, Working
<1>2. at[w] \in Ops
  BY <1>1 DEF PromiseInv, TypeInv, ActorOK, LocalOK, Actors
<1>3. logical[at[w]] \in Taken
  BY DEF PromiseInv, OwnerInv, OnceInv
<1> QED
  BY <1>1, <1>2, <1>3 DEF PromiseInv, OrderInv, InFlight, Resolved, Taken

\* Claiming an operation is the promise's Claim, unless the floor forbids it for good.
LEMMA ClaimPromised ==
  ASSUME PromiseInv, TypeInv', NEW w \in Workers, NEW op \in Ops, op = at[w], Claim(w)
  PROVE  AllStay \/ Promise!Next
<1>1. op \in Ops /\ \A o \in Ops: o < op => Resolved(o)
  BY DEF Claim, PromiseInv, TypeInv, ActorOK, LocalOK, InOperation, Working, Actors, OrderInv
<1>2. UNCHANGED <<handle, dispatch, egress, capped>> /\ FlagsStay
  BY DEF Claim, SameRun, worldVars, FlagsStay
<1>3. \A o \in Ops: logical'[o] = logical[o] => StageKept(o)
  BY <1>2, RecordsStay DEF PromiseInv
<1>4. CASE UNCHANGED logical
  BY <1>2, <1>3, <1>4 DEF AllStay
<1>5. CASE logical' = [logical EXCEPT ![op] = "dispatched"] /\ logical[op] = "reserved" /\ ~handle.terminal
  <2>1. logical'[op] = "dispatched" /\ \A o \in Ops \ {op}: logical'[o] = logical[o]
    BY <1>1, <1>5 DEF PromiseInv, TypeInv, OwnerOK
  <2>2. \A o \in Ops \ {op}: StageKept(o)
    BY <1>3, <2>1
  <2>3. egress'[op] = 0
    BY <1>1, <1>2, <1>5 DEF PromiseInv, OwnerInv, OnceInv, Taken, TypeInv, WorldOK
  <2>4. CASE Resolved(op)
    <3>1. Resolved(op)'
      BY <1>2, <1>5, <2>4 DEF Resolved
    <3>2. StageKept(op)
      BY <1>1, <2>4, <3>1, StageStays DEF PromiseInv
    <3> QED
      BY <1>2, <2>2, <3>2 DEF AllStay
  <2>5. CASE ~Resolved(op)
    <3>1. ~InFlight(op) /\ InFlight(op)' /\ ~Resolved(op)'
      BY <1>2, <1>5, <2>1, <2>5 DEF InFlight, Resolved
    <3>2. Stage(op) = "idle"
      BY <1>1, <2>5, <3>1, Stages DEF PromiseInv, StageOK
    <3>3. Stage(op)' = "permitted" \/ Stage(op)' = "claimed"
      BY <1>1, <2>3, <3>1, Stages DEF StageOK
    <3>4. PICK to \in {"claimed", "permitted"}: Stage(op)' = to
      BY <3>3
    <3>5. Promise!Move(op, {"idle"}, to)
      BY <1>1, <1>2, <2>2, <3>2, <3>4, OnePromised
    <3>6. \A o \in Ops: o < op => [x \in Ops |-> Stage(x)][o] = "resolved"
      BY <1>1, Stages DEF PromiseInv, StageOK
    <3>7. Promise!Claim(op)
      BY <1>5, <3>5, <3>6 DEF Promise!Claim
    <3> QED
      BY <1>1, <3>7 DEF Promise!Next
  <2> QED
    BY <2>4, <2>5
<1> QED
  BY <1>4, <1>5 DEF Claim

\* Entering a request is the promise's Permit.
LEMMA HoldPromised ==
  ASSUME PromiseInv, TypeInv', NEW w \in Workers, NEW op \in Ops, op = at[w], Hold(w)
  PROVE  AllStay \/ Promise!Next
<1>1. Claimed(w) /\ pc[w] \in BeforeSend
  BY DEF Hold, Claimed, AfterClaim, BeforeSend
<1>2. op \in Ops /\ (Resolved(op) \/ InFlight(op)) /\ egress[op] = 0
  BY <1>1, ClaimedOp DEF PromiseInv, OwnerInv, OnceInv
<1>3. UNCHANGED <<handle, logical, egress, capped>> /\ FlagsStay
  BY DEF Hold, SameRun, worldVars, FlagsStay
<1>4. \A o \in Ops: dispatch'[o] = dispatch[o] => StageKept(o)
  BY <1>3, RecordsStay DEF PromiseInv
<1>5. CASE UNCHANGED dispatch
  BY <1>3, <1>4, <1>5 DEF AllStay
<1>6. CASE dispatch # dispatch'
  <2>1. /\ ~handle.terminal /\ dispatch[op].state = "none"
        /\ dispatch'[op].state = "dispatched"
        /\ \A o \in Ops \ {op}: dispatch'[o] = dispatch[o]
    BY <1>2, <1>6 DEF Hold, PromiseInv, TypeInv, OwnerOK
  <2>2. \A o \in Ops \ {op}: StageKept(o)
    BY <1>4, <2>1
  <2>3. (Resolved(op)' <=> Resolved(op)) /\ (InFlight(op)' <=> InFlight(op)) /\ egress'[op] = egress[op]
        /\ (IsTool(op)' <=> IsTool(op))
    BY <1>3 DEF Resolved, InFlight, IsTool
  <2>4. CASE Resolved(op) \/ IsTool(op)
    <3>1. StageKept(op)
      BY <1>2, <2>3, <2>4, StageStays DEF PromiseInv, Entered
    <3> QED
      BY <1>3, <2>2, <3>1 DEF AllStay
  <2>5. CASE InFlight(op) /\ ~IsTool(op)
    <3>1. Stage(op) = "claimed" /\ Stage(op)' = "permitted"
      BY <1>2, <2>1, <2>3, <2>5, Stages DEF PromiseInv, StageOK, Entered
    <3>2. Promise!Permit(op)
      BY <1>2, <1>3, <2>1, <2>2, <3>1, OnePromised DEF Promise!Permit
    <3> QED
      BY <1>2, <3>2 DEF Promise!Next
  <2> QED
    BY <1>2, <2>4, <2>5
<1> QED
  BY <1>5, <1>6

\* A request that leaves, or a tool that runs, is the promise's Send.
LEMMA SendPromised ==
  ASSUME PromiseInv, TypeInv', NEW w \in Workers, NEW op \in Ops, op = at[w], Send(w) \/ RunTool(w)
  PROVE  AllStay \/ Promise!Next
<1>1. Claimed(w) /\ pc[w] \in BeforeSend
  BY DEF Send, RunTool, Claimed, AfterClaim, BeforeSend
<1>2. op \in Ops /\ (Resolved(op) \/ InFlight(op)) /\ egress[op] = 0
  BY <1>1, ClaimedOp DEF PromiseInv, OwnerInv, OnceInv
<1>3. UNCHANGED <<handle, logical, dispatch, capped>> /\ FlagsStay
  BY DEF Send, RunTool, ownerVars, FlagsStay
<1>4. Entered(op)
  BY DEF Send, RunTool, Entered, PromiseInv, LedgerInv, OwnerInv, SendInv, Sending
<1>5. egress'[op] > 0 /\ \A o \in Ops \ {op}: egress'[o] = egress[o]
  BY <1>2 DEF Send, RunTool, PromiseInv, TypeInv, WorldOK
<1>6. \A o \in Ops \ {op}: StageKept(o)
  BY <1>3, <1>5, RecordsStay DEF PromiseInv
<1>7. (Resolved(op)' <=> Resolved(op)) /\ (InFlight(op)' <=> InFlight(op))
  BY <1>3 DEF Resolved, InFlight
<1>8. CASE Resolved(op)
  <2>1. StageKept(op)
    BY <1>2, <1>7, <1>8, StageStays DEF PromiseInv
  <2> QED
    BY <1>3, <1>6, <2>1 DEF AllStay
<1>9. CASE InFlight(op)
  <2>1. Stage(op) = "permitted" /\ Stage(op)' = "sent"
    BY <1>2, <1>4, <1>5, <1>7, <1>9, Stages DEF PromiseInv, StageOK
  <2>2. Promise!Send(op)
    BY <1>2, <1>3, <1>6, <2>1, OnePromised DEF Promise!Send
  <2> QED
    BY <1>2, <2>2 DEF Promise!Next
<1> QED
  BY <1>2, <1>8, <1>9

\* An outcome, or the floor, is the promise's Resolve.
LEMMA ResolvePromised ==
  ASSUME PromiseInv, TypeInv', NEW op \in Ops, Resolved(op) \/ InFlight(op), FlagsStay,
         \A o \in Ops \ {op}: StageKept(o),
         Resolved(op)' \/ StageKept(op)
  PROVE  AllStay \/ Promise!Next
<1>1. CASE StageKept(op)
  BY <1>1 DEF AllStay
<1>2. CASE Resolved(op)' /\ ~StageKept(op)
  <2>1. Stage(op)' = "resolved"
    BY <1>2, Stages DEF StageOK
  <2>2. InFlight(op)
    BY <1>2, StageStays DEF PromiseInv
  <2>3. egress[op] \in Nat
    BY DEF PromiseInv, TypeInv, WorldOK
  <2>4. Stage(op) \in Promise!InFlight
    BY <2>2, <2>3, Stages DEF PromiseInv, StageOK, Promise!InFlight
  <2>5. Promise!Resolve(op)
    BY <2>1, <2>4, OnePromised DEF Promise!Resolve
  <2> QED
    BY <2>5 DEF Promise!Next
<1> QED
  BY <1>1, <1>2

\* The writers that only bring an operation to its outcome.
LEMMA OutcomePromised ==
  ASSUME PromiseInv, TypeInv', NEW w \in Workers, NEW op \in Ops, op = at[w], Refuse(w) \/ ConcludeOperation(w)
  PROVE  AllStay \/ Promise!Next
<1>1. Claimed(w)
  BY DEF Refuse, ConcludeOperation, Claimed, AfterClaim
<1>2. op \in Ops /\ (Resolved(op) \/ InFlight(op))
  BY <1>1, ClaimedOp
<1>3. UNCHANGED <<handle, dispatch, egress, capped>> /\ FlagsStay
  BY DEF Refuse, ConcludeOperation, SameRun, worldVars, FlagsStay
<1>4. \A o \in Ops: logical'[o] = logical[o] => StageKept(o)
  BY <1>3, RecordsStay DEF PromiseInv
<1>5. \A o \in Ops \ {op}: logical'[o] = logical[o]
  BY <1>2 DEF Refuse, ConcludeOperation, PromiseInv, TypeInv, OwnerOK
<1>6. \/ logical'[op] = logical[op]
      \/ logical'[op] = "complete"
      \/ logical[op] = "dispatched" /\ logical'[op] = "unknown"
  BY <1>2 DEF Refuse, ConcludeOperation, PromiseInv, TypeInv, OwnerOK
<1>7. Resolved(op)' \/ StageKept(op)
  <2>1. CASE logical'[op] = logical[op]
    BY <1>2, <1>4, <2>1
  <2>2. CASE logical'[op] = "complete"
    BY <2>2 DEF Resolved
  <2>3. CASE logical[op] = "dispatched" /\ logical'[op] = "unknown"
    <3>1. (Resolved(op)' <=> Resolved(op)) /\ (InFlight(op)' <=> InFlight(op)) /\ (Entered(op)' <=> Entered(op))
      BY <1>3, <2>3 DEF Resolved, InFlight, Entered, IsTool
    <3> QED
      BY <1>2, <1>3, <3>1, StageStays DEF PromiseInv
  <2> QED
    BY <1>6, <2>1, <2>2, <2>3
<1> QED
  BY <1>2, <1>3, <1>4, <1>5, <1>7, ResolvePromised

\* So does the floor, which the earlier operations are below already.
LEMMA FloorPromised ==
  ASSUME PromiseInv, TypeInv', NEW w \in Workers, NEW op \in Ops, op = at[w], RaiseFloor(w)
  PROVE  AllStay \/ Promise!Next
<1>1. Claimed(w)
  BY DEF RaiseFloor, Claimed, AfterClaim
<1>2. op \in Ops /\ (Resolved(op) \/ InFlight(op)) /\ \A o \in Ops: o < op => Resolved(o)
  BY <1>1, ClaimedOp
<1>3. UNCHANGED <<egress, capped>> /\ FlagsStay
  BY DEF RaiseFloor, SameRun, worldVars, FlagsStay, PromiseInv, TypeInv, OwnerOK
<1>4. handle'.floor = IF handle.floor < op THEN op ELSE handle.floor
  BY DEF RaiseFloor, PromiseInv, TypeInv, OwnerOK
<1>5. handle.floor \in Int /\ op \in Int /\ \A o \in Ops: o \in Int
  BY <1>2 DEF PromiseInv, TypeInv, OwnerOK, Ops
<1>6. \A o \in Ops \ {op}: logical'[o] = logical[o] /\ dispatch'[o] = dispatch[o]
  BY <1>2 DEF RaiseFloor, PromiseInv, TypeInv, OwnerOK
<1>7. Resolved(op)'
  BY <1>4, <1>5 DEF Resolved
<1>8. ASSUME NEW o \in Ops \ {op} PROVE StageKept(o)
  <2>1. CASE o < op
    <3>1. Resolved(o) /\ Resolved(o)'
      BY <1>2, <1>4, <1>5, <1>6, <2>1 DEF Resolved
    <3> QED
      BY <3>1, StageStays DEF PromiseInv
  <2>2. CASE op < o
    <3>1. (o <= handle'.floor) <=> (o <= handle.floor)
      BY <1>4, <1>5, <2>2
    <3>2. logical'[o] = logical[o] /\ dispatch'[o] = dispatch[o] /\ capped' = capped /\ egress'[o] = egress[o]
      BY <1>3, <1>6
    <3>3. Resolved(o)' <=> Resolved(o)
      BY <3>1, <3>2 DEF Resolved
    <3>4. (InFlight(o)' <=> InFlight(o)) /\ (Entered(o)' <=> Entered(o))
      BY <3>2, <3>3 DEF InFlight, Entered, IsTool
    <3> QED
      BY <3>2, <3>3, <3>4, StageStays DEF PromiseInv
  <2> QED
    BY <1>5, <2>1, <2>2
<1> QED
  BY <1>2, <1>3, <1>7, <1>8, ResolvePromised

\* The end of a request, and its mark, show the promise nothing.
LEMMA LedgerPromised ==
  ASSUME PromiseInv, TypeInv', NEW a \in Actors, Mark(a) \/ (a \in Workers /\ (Answer(a) \/ Abandon(a) \/ Reserve(a)))
  PROVE  AllStay
<1>1. ASSUME Mark(a) PROVE AllStay
  <2> DEFINE entry == Entry(a)
  <2>1. UNCHANGED <<handle, logical, egress, capped>> /\ FlagsStay
    BY <1>1 DEF Mark, SameRun, worldVars, FlagsStay
  <2>2. dispatch' \in {dispatch, [dispatch EXCEPT ![entry].delivered = TRUE]}
    BY <1>1 DEF Mark
  <2> HIDE DEF entry
  <2>3. \A o \in Ops: dispatch'[o].state = dispatch[o].state
    BY <2>2 DEF PromiseInv, TypeInv, OwnerOK, DispatchEffects
  <2> QED
    BY <2>1, <2>3, RecordsStay DEF PromiseInv, AllStay
<1>2. ASSUME a \in Workers, Answer(a) \/ Abandon(a) PROVE AllStay
  <2>1. UNCHANGED <<handle, logical, egress, capped>> /\ FlagsStay
    BY <1>2 DEF Answer, Abandon, SameRun, worldVars, FlagsStay
  <2>2. Claimed(a) /\ dispatch[at[a]].state = "dispatched"
    BY <1>2 DEF Answer, Abandon, Claimed, AfterClaim, PromiseInv, OwnerInv, SendInv, Sending
  <2>3. at[a] \in Ops
    BY <1>2, <2>2, ClaimedOp
  <2>4. /\ \A o \in Ops \ {at[a]}: dispatch'[o] = dispatch[o]
        /\ dispatch'[at[a]].state \in {"complete", "unknown"}
    BY <1>2, <2>3, ConcludeFields DEF Answer, Abandon, PromiseInv, TypeInv
  <2>5. \A o \in Ops: (dispatch'[o].state = "none") <=> (dispatch[o].state = "none")
    BY <2>2, <2>4
  <2> QED
    BY <2>1, <2>5, RecordsStay DEF PromiseInv, AllStay
<1>3. ASSUME a \in Workers, Reserve(a) PROVE AllStay
  <2>1. UNCHANGED <<handle, dispatch, egress, capped>> /\ FlagsStay
    BY <1>3 DEF Reserve, SameRun, worldVars, FlagsStay
  <2>2. at[a] \in Ops
    BY <1>3 DEF Reserve, PromiseInv, TypeInv, ActorOK, LocalOK, InOperation, Working, Actors
  <2>3. \A o \in Ops: \/ logical'[o] = logical[o]
                      \/ logical[o] \in {"none", "reserved"} /\ logical'[o] = "reserved"
    BY <1>3, <2>2 DEF Reserve, PromiseInv, TypeInv, OwnerOK
  <2>4. \A o \in Ops: (Resolved(o)' <=> Resolved(o)) /\ (InFlight(o)' <=> InFlight(o)) /\ (Entered(o)' <=> Entered(o))
    BY <2>1, <2>3 DEF Resolved, InFlight, Entered, IsTool
  <2> QED
    BY <2>1, <2>4, StageStays DEF PromiseInv, AllStay
<1> QED
  BY <1>1, <1>2, <1>3

\* The writers of the handle: an admission shows nothing, a fence is the promise's
\* Stop, and the end of a run its Release, or a Stop while something is under way.
LEMMA HandlePromised ==
  ASSUME PromiseInv, TypeInv', NEW a \in Actors, (a \in Tabs /\ Admit(a)) \/ Fence(a) \/ FinishHandle(a)
  PROVE  AllStay \/ Promise!Next
<1>1. UNCHANGED <<logical, dispatch, egress, capped>> /\ handle'.floor = handle.floor
  BY DEF Admit, Fence, FinishHandle, SameRun, worldVars, PromiseInv, TypeInv, OwnerOK
<1>2. \A o \in Ops: StageKept(o)
  BY <1>1, RecordsStay DEF PromiseInv
<1>3. [o \in Ops |-> Stage(o)]' = [o \in Ops |-> Stage(o)]
  BY <1>2 DEF StageKept
<1>4. ASSUME a \in Tabs, Admit(a) PROVE FlagsStay
  BY <1>4 DEF Admit, FlagsStay, PromiseInv, OwnerInv, HoldInv, TypeInv, OwnerOK
<1>5. ASSUME Fence(a) PROVE Promise!Next
  <2>1. handle'.terminal = TRUE /\ handle'.admitted = handle.admitted /\ handle'.active = handle.active
    BY <1>5 DEF Fence, PromiseInv, TypeInv, OwnerOK
  <2>2. Promise!Stop
    BY <1>3, <2>1 DEF Promise!Stop
  <2> QED
    BY <2>2 DEF Promise!Next
<1>6. ASSUME FinishHandle(a) PROVE Promise!Next
  <2> DEFINE held == \E op \in Ops: Unresolved(op) \/ Undelivered(op)
  <2>1. held \in BOOLEAN
    OBVIOUS
  <2>2. handle' = [handle EXCEPT !.terminal = TRUE, !.active = held]
    BY <1>6 DEF FinishHandle
  <2>3. held => handle.active /\ handle.admitted
    BY DEF PromiseInv, OwnerInv, HoldInv
  <2>4. ~held => \A op \in Ops: ~InFlight(op)
    BY DEF InFlight, Unresolved
  <2> HIDE DEF held
  <2>5. handle'.terminal = TRUE /\ handle'.active = held /\ handle'.admitted = handle.admitted
    BY <2>1, <2>2 DEF PromiseInv, TypeInv, OwnerOK
  <2>6. CASE held \/ ~handle.admitted
    <3>1. (handle.admitted /\ ~handle.active)' = (handle.admitted /\ ~handle.active)
      BY <2>1, <2>3, <2>5, <2>6
    <3>2. Promise!Stop
      BY <1>3, <2>5, <3>1 DEF Promise!Stop
    <3> QED
      BY <3>2 DEF Promise!Next
  <2>7. CASE ~held /\ handle.admitted
    <3>1. (handle.admitted /\ ~handle.active)' = TRUE
      BY <2>1, <2>5, <2>7
    <3>2. \A op \in Ops: Stage(op) \notin Promise!InFlight
      BY <2>4, <2>7, Stages DEF PromiseInv, StageOK, Promise!InFlight
    <3>3. Promise!Release
      BY <1>3, <2>5, <3>1, <3>2 DEF Promise!Release
    <3> QED
      BY <3>3 DEF Promise!Next
  <2> QED
    BY <2>6, <2>7
<1> QED
  BY <1>2, <1>4, <1>5, <1>6 DEF AllStay

\* Every step of a run is one of the promise, or shows it nothing.
LEMMA StepPromised ==
  ASSUME PromiseInv, TypeInv', [Next]_vars
  PROVE  AllStay \/ Promise!Next
<1>1. CASE UNCHANGED vars
  <2>1. UNCHANGED <<handle, logical, dispatch, egress, capped>>
    BY <1>1 DEF vars, ownerVars, worldVars
  <2> QED
    BY <2>1, RecordsStay DEF PromiseInv, AllStay, FlagsStay
<1>2. CASE Next
  <2>1. ASSUME OwnerSame, egress' = egress PROVE AllStay
    BY <2>1, RecordsStay DEF OwnerSame, PromiseInv, AllStay, FlagsStay
  <2>2. ASSUME NEW w \in Workers, InOperation(w) PROVE \E op \in Ops: op = at[w]
    BY <2>2 DEF PromiseInv, TypeInv, ActorOK, LocalOK, Actors
  <2>3. ASSUME NEW w \in Workers, Send(w) \/ RunTool(w) PROVE AllStay \/ Promise!Next
    <3>1. InOperation(w)
      BY <2>3 DEF Send, RunTool, InOperation, Working
    <3> QED
      BY <2>2, <2>3, <3>1, SendPromised
  <2>4. ASSUME NEW w \in Workers, Claim(w) \/ Hold(w) \/ Refuse(w) \/ ConcludeOperation(w) \/ RaiseFloor(w)
        PROVE  AllStay \/ Promise!Next
    <3>1. InOperation(w)
      BY <2>4 DEF Claim, Hold, Refuse, ConcludeOperation, RaiseFloor, InOperation, Working
    <3>2. PICK op \in Ops: op = at[w]
      BY <2>2, <3>1
    <3> QED
      BY <2>4, <3>2, ClaimPromised, HoldPromised, OutcomePromised, FloorPromised
  <2>5. ASSUME OwnerWrite PROVE AllStay \/ Promise!Next
    BY <2>4, <2>5, LedgerPromised, HandlePromised DEF OwnerWrite, Actors
  <2> QED
    BY <1>2, <2>1, <2>3, <2>5, OwnerWriters, LedgerWorld
<1> QED
  BY <1>1, <1>2

\* A run implements its promise: operations are taken up in order, each sent once
\* and none after a stop, and the place is given back only when nothing that was
\* sent is unresolved, for any number of executions, tabs, operations and crashes.
THEOREM PromiseImplemented == Spec => PromiseKept
<1>1. Init => Promise!Init
  BY RunAssumption DEF Init, Promise!Init, Stage, Ops
<1>2. PromiseInv /\ TypeInv' /\ [Next]_vars => [Promise!Next]_(Promise!vars)
  <2>1. AllStay => UNCHANGED Promise!vars
    <3> SUFFICES ASSUME AllStay PROVE UNCHANGED Promise!vars
      OBVIOUS
    <3>1. [o \in Ops |-> Stage(o)]' = [o \in Ops |-> Stage(o)]
      BY DEF AllStay, StageKept
    <3>2. handle'.terminal = handle.terminal /\ (handle.admitted /\ ~handle.active)' = (handle.admitted /\ ~handle.active)
      BY DEF AllStay, FlagsStay
    <3> QED
      BY <3>1, <3>2 DEF Promise!vars
  <2> QED
    BY <2>1, StepPromised
<1>3. Init => PromiseInv
  BY TypeInit, OwnerInvInit, LedgerInit, CopyInit, OrderInit DEF PromiseInv
<1>4. PromiseInv /\ [Next]_vars => PromiseInv'
  <2>1. PromiseInv /\ [Next]_vars => (TypeInv /\ OwnerInv /\ CopyInv)'
    BY TypeNext, OwnerInvNext, CopyInvNext DEF PromiseInv
  <2>2. PromiseInv /\ [Next]_vars => LedgerInv'
    BY LedgerNext, LedgerStutter DEF PromiseInv
  <2>3. PromiseInv /\ [Next]_vars => OrderInv'
    BY OrderNext, OrderStutter DEF PromiseInv, OwnerInv
  <2> QED
    BY <2>1, <2>2, <2>3 DEF PromiseInv
<1>5. PromiseInv => TypeInv
  BY DEF PromiseInv
<1> QED
  BY <1>1, <1>2, <1>3, <1>4, <1>5, PTL DEF Spec, PromiseKept, Promise!Spec
-----------------------------------------------------------------------------
(* The end of a run gives its place back.                                    *)

\* Places in which an execution has claimed its operation and not concluded it.
Unconcluded(w) ==
    \/ pc[w] \in {"run", "before", "hold", "refuse", "authorize", "send", "answer", "abandon", "conclude"}
    \/ pc[w] \in {"flush", "record", "mark"} /\ then[w] = "conclude"

\* An effect that is claimed stays so until its own execution concludes it, and only
\* with it goes the request: nothing is under way or undelivered of an operation that
\* is concluded.
HeldInv ==
    /\ \A w \in Workers: Unconcluded(w) => logical[at[w]] = "dispatched"
    /\ \A op \in Ops: Unresolved(op) \/ Undelivered(op) => logical[op] \in {"dispatched", "unknown"}
    /\ \A w \in Workers:
          /\ pc[w] \in {"run", "conclude"} => ~Undelivered(at[w])
          /\ pc[w] \in {"flush", "record", "mark"} /\ then[w] = "conclude" /\ Undelivered(at[w])
                => /\ dispatch[at[w]].state # "dispatched"
                   /\ pc[w] = "flush" \/ at[w] \in todo[w]

\* An execution that will come to finish_handle once the run is over.
Owes(w) ==
    \/ pc[w] \in {"pause", "begin", "refused", "keep", "raise", "reload", "fence", "status", "finish"}
    \/ pc[w] = "flush" /\ then[w] = "finish"
    \/ pc[w] = "record" /\ then[w] = "finish" /\ todo[w] = {}

ResolvedAll == \A op \in Ops: logical[op] \notin {"dispatched", "unknown"}

StartedInv ==
    /\ Exists => handle.admitted
    /\ host # "none" => Exists
    /\ \A w \in Workers: pc[w] # "idle" => Exists
    /\ \A t \in Tabs: (pc[t] = "create" => handle.admitted) /\ (pc[t] = "launch" => Exists)

EndedInv ==
    /\ conversation = "cleared" => Over
    /\ \A w \in Workers: pc[w] = "finish" \/ then[w] = "finish" => Over
    /\ host = "done" => handle.terminal /\ Over

\* Who resolved the last effect of a run that is over gives its place back.
OwedInv ==
    /\ crashes \in Nat
    /\ host = "done" /\ handle.active /\ conversation = "kept" /\ crashes = 0 /\ ResolvedAll
          => \E w \in Workers: Owes(w)

\* A request is under way, or waits for its row.
Pending(op) == dispatch[op].state \in {"dispatched", "unknown"} \/ Undelivered(op)

\* What an execution in the middle of its operation does to the effects.
OwnCourse(w) ==
    \/ Snapshot(w) \/ Record(w) \/ Mark(w) \/ Delivered(w)
    \/ Before(w) \/ Hold(w) \/ Authorize(w) \/ Send(w) \/ RunTool(w) \/ Answer(w)

\* An execution comes to an unconcluded place from another, or by its claim.
LEMMA UnconcludedStep ==
  ASSUME TypeInv, Next, NEW w \in Workers, Unconcluded(w)'
  PROVE  /\ at'[w] = at[w]
         /\ \/ Unconcluded(w) /\ (Idles(w) \/ (OwnCourse(w) /\ logical' = logical))
            \/ Claim(w) /\ pc'[w] \in {"run", "before"}
<1>1. /\ at'[w] = at[w]
      /\ \/ Unconcluded(w) /\ (Idles(w) \/ OwnCourse(w))
         \/ Claim(w) /\ pc'[w] \in {"run", "before"}
  BY Courses DEF Idles, Course, Quiet, SameAt, Actors, Unconcluded, OwnCourse
<1>2. OwnCourse(w) => logical' = logical
  BY DEF OwnCourse, Snapshot, Record, Mark, Delivered, Before, Hold, Authorize, Send, RunTool, Answer, ownerVars
<1> QED
  BY <1>1, <1>2

\* Before its conclusion an execution has its claim.
LEMMA UnconcludedClaim ==
  ASSUME TypeInv, NEW w \in Workers, Unconcluded(w) PROVE Claimed(w) /\ at[w] \in Ops
<1>1. Claimed(w) /\ InOperation(w)
  BY DEF Unconcluded, Claimed, AfterClaim, InOperation, Working
<1> QED
  BY <1>1 DEF TypeInv, ActorOK, LocalOK, Actors

\* What is unresolved or undelivered is under way.
LEMMA HeldPending ==
  HeldInv => \A op \in Ops: Pending(op) => logical[op] \in {"dispatched", "unknown"}
BY DEF HeldInv, Pending, Unresolved

\* The claim stands until it is concluded.
LEMMA HeldClaims ==
  ASSUME TypeInv, OnceInv, HeldInv, Next, NEW w \in Workers, Unconcluded(w)'
  PROVE  logical'[at'[w]] = "dispatched"
<1>1. CASE Unconcluded(w) /\ Idles(w) /\ at'[w] = at[w]
  <2>1. Claimed(w) /\ pc'[w] = pc[w]
    BY <1>1, UnconcludedClaim DEF Idles
  <2> QED
    BY <1>1, <2>1, EffectsHeld DEF HeldInv
<1>2. CASE Unconcluded(w) /\ logical' = logical /\ at'[w] = at[w]
  BY <1>2 DEF HeldInv
<1>3. CASE Claim(w) /\ pc'[w] \in {"run", "before"} /\ at'[w] = at[w]
  <2>1. at[w] \in Ops
    BY <1>3 DEF Claim, TypeInv, ActorOK, LocalOK, Actors, InOperation, Working
  <2>2. logical' = [logical EXCEPT ![at[w]] = "dispatched"]
    <3>1. Fail(w) => pc'[w] = "reload"
      BY Memory DEF TypeInv, ActorOK, Actors
    <3> QED
      BY <1>3, <3>1 DEF Claim
  <2> QED
    BY <1>3, <2>1, <2>2 DEF TypeInv, OwnerOK
<1> QED
  BY <1>1, <1>2, <1>3, UnconcludedStep

\* A request is under way only while its operation is.
LEMMA HeldEffects ==
  ASSUME TypeInv, OwnerInv, HeldInv, Next, NEW op \in Ops, Pending(op)'
  PROVE  logical'[op] \in {"dispatched", "unknown"}
<1> USE DEF TypeInv, OwnerOK
<1>0. \A w \in Workers: InOperation(w) => at[w] \in Ops
  BY DEF ActorOK, LocalOK, Actors
<1>1. Pending(op) => logical[op] \in {"dispatched", "unknown"}
  BY HeldPending
<1>2. dispatch'[op] = dispatch[op] => Pending(op)
  BY DEF Pending, Undelivered
<1>3. ASSUME NEW w \in Workers, Reserve(w) \/ Claim(w) PROVE logical'[op] \in {"dispatched", "unknown"}
  BY <1>1, <1>2, <1>3 DEF Reserve, Claim
<1>4. ASSUME NEW w \in Workers, Hold(w) PROVE logical'[op] \in {"dispatched", "unknown"}
  <2>1. logical[at[w]] = "dispatched" /\ logical' = logical
    BY <1>4 DEF Hold, HeldInv, Unconcluded
  <2>2. op # at[w] => dispatch'[op] = dispatch[op]
    BY <1>4 DEF Hold
  <2> QED
    BY <1>1, <1>2, <2>1, <2>2
<1>5. ASSUME NEW w \in Workers, Answer(w) \/ Abandon(w) PROVE logical'[op] \in {"dispatched", "unknown"}
  <2>1. logical[at[w]] = "dispatched" /\ logical' = logical /\ at[w] \in Ops
    BY <1>0, <1>5 DEF Answer, Abandon, HeldInv, Unconcluded, InOperation, Working
  <2>2. op # at[w] => dispatch'[op] = dispatch[op]
    BY <1>5, <2>1, ConcludeFields DEF Answer, Abandon
  <2> QED
    BY <1>1, <1>2, <2>1, <2>2
<1>6. ASSUME NEW w \in Workers, Refuse(w) PROVE logical'[op] \in {"dispatched", "unknown"}
  <2>1. Pending(op)
    BY <1>2, <1>6 DEF Refuse
  <2>2. logical'[op] = logical[op]
    BY <1>6, <2>1 DEF Refuse, Pending, Undelivered
  <2> QED
    BY <1>1, <2>1, <2>2
<1>7. ASSUME NEW w \in Workers, ConcludeOperation(w) PROVE logical'[op] \in {"dispatched", "unknown"}
  <2>1. Pending(op)
    BY <1>2, <1>7 DEF ConcludeOperation
  <2>2. CASE op # at[w]
    BY <1>1, <1>7, <2>1, <2>2 DEF ConcludeOperation
  <2>3. CASE op = at[w]
    <3>1. Unknown(op)
      BY <1>7, <2>1, <2>3 DEF ConcludeOperation, HeldInv, Pending, Unknown
    <3> QED
      BY <1>1, <1>7, <2>1, <2>3, <3>1 DEF ConcludeOperation
  <2> QED
    BY <2>2, <2>3
<1>8. ASSUME NEW w \in Workers, RaiseFloor(w) PROVE logical'[op] \in {"dispatched", "unknown"}
  <2>1. dispatch'[op] = dispatch[op] \/ dispatch'[op] = NoDispatch
    BY <1>8 DEF RaiseFloor
  <2>2. Pending(op)
    BY <1>2, <2>1 DEF Pending, Undelivered, NoDispatch
  <2> QED
    BY <1>1, <1>8, <2>2 DEF RaiseFloor
<1>9. ASSUME NEW a \in Actors, Mark(a) PROVE logical'[op] \in {"dispatched", "unknown"}
  <2> DEFINE entry == Entry(a)
  <2>1. dispatch' \in {dispatch, [dispatch EXCEPT ![entry].delivered = TRUE]} /\ logical' = logical
    BY <1>9 DEF Mark
  <2> HIDE DEF entry
  <2>2. dispatch'[op].state = dispatch[op].state /\ (dispatch[op].delivered => dispatch'[op].delivered)
    BY <2>1 DEF DispatchEffects
  <2>3. Pending(op)
    BY <2>2 DEF Pending, Undelivered
  <2> QED
    BY <1>1, <2>1, <2>3
<1>10. dispatch' = dispatch /\ logical' = logical => logical'[op] \in {"dispatched", "unknown"}
  BY <1>1, <1>2
<1> QED
  BY <1>3, <1>4, <1>5, <1>6, <1>7, <1>8, <1>9, <1>10, OwnerWriters
  DEF OwnerWrite, OwnerSame, Admit, Fence, FinishHandle

\* An operation is concluded only with its row delivered.
LEMMA HeldRows ==
  ASSUME TypeInv, OwnerInv, HeldInv, Next, NEW w \in Workers
  PROVE  /\ pc'[w] \in {"run", "conclude"} => ~Undelivered(at[w])'
         /\ pc'[w] \in {"flush", "record", "mark"} /\ then'[w] = "conclude" /\ Undelivered(at[w])'
                => /\ dispatch'[at'[w]].state # "dispatched"
                   /\ pc'[w] = "flush" \/ at'[w] \in todo'[w]
<1> USE DEF TypeInv, OwnerOK
<1> DEFINE Rows == /\ pc[w] \in {"run", "conclude"} => ~Undelivered(at[w])
                   /\ pc[w] \in {"flush", "record", "mark"} /\ then[w] = "conclude" /\ Undelivered(at[w])
                          => /\ dispatch[at[w]].state # "dispatched"
                             /\ pc[w] = "flush" \/ at[w] \in todo[w]
<1> SUFFICES ASSUME Unconcluded(w)' PROVE Rows'
  BY DEF Unconcluded
<1>0. Rows
  BY DEF HeldInv
<1>1. at'[w] = at[w]
  BY UnconcludedStep
<1>2. ASSUME Unconcluded(w), Idles(w) PROVE Rows'
  <2>1. Claimed(w) /\ pc'[w] = pc[w] /\ then'[w] = then[w] /\ todo'[w] = todo[w]
    BY <1>2, UnconcludedClaim DEF Idles
  <2>2. /\ dispatch'[at[w]].state = dispatch[at[w]].state
        /\ dispatch[at[w]].delivered => dispatch'[at[w]].delivered
    BY <2>1, EffectsHeld DEF OwnerInv
  <2>3. Undelivered(at[w])' => Undelivered(at[w])
    BY <1>1, <2>2 DEF Undelivered
  <2> QED
    BY <1>0, <1>1, <2>1, <2>2, <2>3
<1>3. ASSUME Claim(w), pc'[w] \in {"run", "before"} PROVE Rows'
  <2>1. at[w] \in Ops /\ dispatch' = dispatch
    BY <1>3 DEF Claim, ActorOK, LocalOK, Actors, InOperation, Working
  <2>2. logical[at[w]] = "reserved"
    <3>1. Fail(w) => pc'[w] = "reload"
      BY Memory DEF ActorOK, Actors
    <3> QED
      BY <1>3, <3>1 DEF Claim
  <2>3. ~Undelivered(at[w])
    BY <2>1, <2>2 DEF HeldInv
  <2>4. ~Undelivered(at[w])'
    BY <1>1, <2>1, <2>3 DEF Undelivered
  <2> QED
    BY <1>3, <2>4
<1>4. ASSUME Unconcluded(w), Snapshot(w) PROVE Rows'
  <2>1. pc[w] = "flush" /\ pc'[w] = "record" /\ then'[w] = then[w] /\ todo'[w] = Outbox /\ dispatch' = dispatch
    BY <1>4, SnapshotMoves DEF Snapshot, ActorOK, ActorSets, Actors, ownerVars
  <2>2. at[w] \in Ops
    BY <1>4, UnconcludedClaim
  <2>3. Undelivered(at[w]) /\ dispatch[at[w]].state # "dispatched" => at[w] \in Outbox
    BY <2>2 DEF Outbox, Undelivered, DispatchEffects, EffectStates
  <2> QED
    BY <1>0, <1>1, <2>1, <2>3 DEF Undelivered
<1>5. ASSUME Unconcluded(w), Record(w) PROVE Rows'
  <2>1. pc[w] = "record" /\ then'[w] = then[w] /\ todo'[w] = todo[w] /\ dispatch' = dispatch /\ pc'[w] = "mark"
    BY <1>5 DEF Record, Go, Step, ActorOK, ActorSets, Actors, ownerVars
  <2> QED
    BY <1>0, <1>1, <2>1 DEF Undelivered
<1>6. ASSUME Unconcluded(w), Mark(w) PROVE Rows'
  <2> DEFINE entry == Entry(w)
  <2>1. pc[w] = "mark" /\ pc'[w] = "record" /\ then'[w] = then[w]
    BY <1>6, MarkMoves DEF Mark, Unconcluded, Actors
  <2>2. dispatch' = [dispatch EXCEPT ![entry].delivered = TRUE] /\ todo' = [todo EXCEPT ![w] = @ \ {entry}]
    BY <1>6, <2>1, Memory DEF Mark, Reload, Step, Leave, ActorOK, ActorSets, Actors
  <2>3. at[w] \in Ops
    BY <1>6, UnconcludedClaim
  <2> HIDE DEF entry
  <2>4. todo'[w] = todo[w] \ {entry}
    BY <2>2 DEF ActorOK, ActorSets, Actors
  <2>5. dispatch'[at[w]].state = dispatch[at[w]].state /\ (dispatch[at[w]].delivered => dispatch'[at[w]].delivered)
        /\ (at[w] = entry => dispatch'[at[w]].delivered)
    BY <2>2, <2>3 DEF DispatchEffects
  <2> QED
    BY <1>0, <1>1, <2>1, <2>4, <2>5 DEF Undelivered
<1>7. ASSUME Unconcluded(w), Delivered(w) PROVE Rows'
  <2>1. pc[w] = "record" /\ todo[w] = {} /\ dispatch' = dispatch /\ pc'[w] = "conclude" /\ then[w] = "conclude"
    BY <1>7, DeliveredMoves DEF Delivered, Unconcluded, ownerVars, Actors
  <2> QED
    BY <1>0, <1>1, <2>1 DEF Undelivered
<1>8. ASSUME Unconcluded(w), RunTool(w) PROVE Rows'
  <2>1. pc[w] = "run" /\ dispatch' = dispatch
    BY <1>8 DEF RunTool, ownerVars
  <2>2. ~Undelivered(at[w])'
    BY <1>0, <1>1, <2>1 DEF Undelivered
  <2>3. pc'[w] = "flush"
    BY <1>8, RunToolMoves
  <2> QED
    BY <2>2, <2>3
<1>9. ASSUME Unconcluded(w), Answer(w) PROVE Rows'
  <2>1. pc'[w] = "flush"
    BY <1>9, Memory DEF Answer, ActorOK, Actors
  <2>2. dispatch'[at[w]].state \in {"complete", "unknown"}
    BY <1>9, UnconcludedClaim, ConcludeFields DEF Answer
  <2> QED
    BY <1>1, <2>1, <2>2
<1>10. ASSUME Unconcluded(w), Before(w) \/ Hold(w) \/ Authorize(w) \/ Send(w) PROVE Rows'
  <2>1. pc'[w] \in {"hold", "reload", "refuse", "authorize", "send", "abandon", "answer"}
    BY <1>10, Memory DEF Before, Hold, Authorize, Send, ActorOK, Actors, Places, Working
  <2> QED
    BY <2>1
<1> QED
  BY <1>2, <1>3, <1>4, <1>5, <1>6, <1>7, <1>8, <1>9, <1>10, UnconcludedStep DEF OwnCourse

\* Every step keeps what the effects of an operation say of one another.
LEMMA HeldNext ==
  ASSUME TypeInv, OwnerInv, HeldInv, Next PROVE HeldInv'
<1>1. \A w \in Workers: Unconcluded(w)' => logical'[at'[w]] = "dispatched"
  BY HeldClaims DEF OwnerInv
<1>2. \A op \in Ops: Pending(op)' => logical'[op] \in {"dispatched", "unknown"}
  BY HeldEffects
<1>3. \A op \in Ops: (Unresolved(op) \/ Undelivered(op))' => logical'[op] \in {"dispatched", "unknown"}
  BY <1>2 DEF Pending, Unresolved
<1> QED
  BY <1>1, <1>3, HeldRows DEF HeldInv

\* At the start nothing is claimed; a stutter claims nothing.
LEMMA HeldStart ==
  /\ Init => HeldInv
  /\ HeldInv /\ UNCHANGED vars => HeldInv'
<1>1. Init => HeldInv
  BY DEF Init, HeldInv, Unconcluded, Unresolved, Undelivered, NoDispatch, Actors
<1>2. HeldInv /\ UNCHANGED vars => HeldInv'
  BY DEF HeldInv, Unconcluded, Unresolved, Undelivered, vars, ownerVars, actorVars
<1> QED
  BY <1>1, <1>2

\* A tab moves only by a step of its own.
LEMMA TabStep ==
  ASSUME TypeInv, Next, NEW t \in Tabs
  PROVE  Idles(t) \/ Ask(t) \/ Respond(t) \/ Crash(t)
<1>1. (LeaseExpires \/ DeadlinePasses \/ DraftExpires) => Idles(t)
  BY DEF LeaseExpires, DeadlinePasses, DraftExpires, Idles, SameAt, actorVars
<1>2. ASSUME NEW a \in Actors, a # t, Alone(a) PROVE Idles(t)
  BY <1>2 DEF Alone, Idles, SameAt, Actors
<1> QED
  BY <1>1, <1>2, ActorCourse, RunAssumption DEF Next, Outside, Moved, Actors

\* A tab comes to the creation of a run by its admission, and to the launch by the
\* checkpoint.
LEMMA TabPlaces ==
  ASSUME TypeInv, Next, NEW t \in Tabs
  PROVE  /\ pc'[t] = "create" => pc[t] = "create" \/ Admit(t)
         /\ pc'[t] = "launch" => pc[t] = "launch" \/ CreateCheckpoint(t)
<1> USE DEF TypeInv, ActorOK, Actors
<1>0. {"create", "launch", "fence", "status", "flush", "finish", "record", "mark", "reviewing", "approving"} \subseteq Places
  BY DEF Places
<1>1. Cancel(t) \/ Refusal(t) \/ ReadDraft(t) \/ ClearConversation(t) => pc'[t] \notin {"create", "launch"}
  BY <1>0, Memory DEF Cancel, Refusal, ReadDraft, ClearConversation, Request, Terminal
<1>2. Launch(t) \/ LaunchUnknown(t) \/ LaunchRejected(t) \/ Review(t) \/ Approve(t) => pc'[t] \notin {"create", "launch"}
  BY Memory DEF Launch, LaunchUnknown, LaunchRejected, Review, Approve
<1>3. Admit(t) => pc'[t] = "create"
  BY <1>0, Memory DEF Admit
<1>4. CreateCheckpoint(t) => pc'[t] # "create"
  BY <1>0, Memory DEF CreateCheckpoint
<1>5. Fence(t) \/ SetStatus(t) \/ Record(t) \/ FinishHandle(t) \/ Crash(t) => pc'[t] \notin {"create", "launch"}
  BY <1>0, Memory DEF Fence, SetStatus, Record, FinishHandle, Crash
<1>6. Snapshot(t) \/ Mark(t) \/ Delivered(t) => pc'[t] \notin {"create", "launch"}
  BY SnapshotMoves, MarkMoves, DeliveredMoves
<1> QED
  BY <1>1, <1>2, <1>3, <1>4, <1>5, <1>6, TabStep DEF Ask, Respond, Starting, Ending, Idles

\* Who changes the orchestration.
LEMMA HostStep ==
  ASSUME Next
  PROVE  \/ host' = host
         \/ \E t \in Tabs: pc[t] = "launch" /\ host = "none" /\ host' = "accepted"
         \/ host' = "revoked" /\ host = "accepted"
         \/ \E w \in Workers: FinishHandle(w) /\ host = "accepted" /\ host' = "done"
<1>1. ASSUME NEW a \in Actors, Ending(a)
      PROVE  host' = host \/ (FinishHandle(a) /\ a \in Workers /\ host = "accepted" /\ host' = "done")
  BY <1>1 DEF Ending, Fence, SetStatus, Snapshot, Record, Mark, Delivered, FinishHandle
<1>2. ASSUME NEW w \in Workers, Advance(w), ~Ending(w)
      PROVE  host' = host \/ (host' = "revoked" /\ host = "accepted")
  BY <1>2
  DEF Advance, AdvanceOver, AdvanceLate, AdvanceExpired, AdvanceReady, Advancing, PolicyDenied, SignInNeeded,
      ContextRevoked, Acquire, Pause, Begin, SaveClaim, CheckAndSave, Reserve, Claim, Before, Hold, Refuse,
      SaveRefused, Authorize, Send, Answer, Abandon, RunTool, Interrupted, ConcludeOperation, SaveResult, RaiseFloor,
      Close
<1>3. ASSUME NEW t \in Tabs, Ask(t) \/ Starting(t) \/ Review(t) \/ Approve(t)
      PROVE  host' = host \/ (pc[t] = "launch" /\ host = "none" /\ host' = "accepted")
  BY <1>3
  DEF Ask, Admit, Cancel, Refusal, ReadDraft, ClearConversation, Request, Starting, CreateCheckpoint, Launch,
      LaunchUnknown, LaunchRejected, Review, Approve
<1>4. Outside => host' = host
  BY DEF Outside, Crash, LeaseExpires, DeadlinePasses, DraftExpires
<1> QED
  BY <1>1, <1>2, <1>3, <1>4 DEF Next, Respond, Actors

\* A checkpoint that exists is there for good, and enters with the creation of an
\* admitted run.
LEMMA ExistsStep ==
  ASSUME TypeInv, StartedInv, Next
  PROVE  /\ Exists => Exists'
         /\ ~Exists /\ Exists' => \E t \in Tabs: CreateCheckpoint(t)
         /\ \A t \in Tabs: CreateCheckpoint(t) => Exists'
<1> USE DEF TypeInv, CheckOK, Checkpoints, Commit, LastCommit, Drop, checkVars, Exists, Unleased
<1>1. ASSUME NEW t \in Tabs, CreateCheckpoint(t) PROVE Exists'
  BY <1>1 DEF CreateCheckpoint
<1>2. ASSUME NEW t \in Tabs, LaunchUnknown(t) \/ LaunchRejected(t) \/ Review(t) \/ Approve(t) \/ ClearConversation(t)
      PROVE Exists' = Exists
  BY <1>2 DEF LaunchUnknown, LaunchRejected, Review, Approve, ClearConversation, Loadable
<1>3. ASSUME NEW w \in Workers, PolicyDenied(w) \/ SignInNeeded(w) PROVE Exists' = Exists
  BY <1>3 DEF PolicyDenied, SignInNeeded, Loadable
<1>4. ASSUME NEW w \in Workers, \/ Acquire(w) \/ Pause(w) \/ Begin(w) \/ SaveClaim(w) \/ SaveRefused(w)
                                \/ SaveResult(w) \/ Close(w)
      PROVE Exists /\ Exists'
  <2>1. Exists
    BY <1>4 DEF StartedInv, Acquire, Pause, Begin, SaveClaim, CheckAndSave, SaveRefused, SaveResult, Close
  <2>2. Close(w) => Exists'
    BY <2>1 DEF Close, ResultOf, ActorOK, LocalOK, Actors
  <2> QED
    BY <1>4, <2>1, <2>2 DEF Acquire, Pause, Begin, SaveClaim, CheckAndSave, SaveRefused, SaveResult
<1>5. ASSUME NEW a \in Actors, SetStatus(a) PROVE Exists' = Exists
  BY <1>5 DEF SetStatus, Loadable, ActorOK, LocalOK, Terminal
<1>6. LeaseExpires \/ CheckSame => Exists' = Exists
  BY DEF LeaseExpires, CheckSame
<1> QED
  BY <1>1, <1>2, <1>3, <1>4, <1>5, <1>6, CheckWriters DEF CheckWrite

\* What is admitted or stopped stays so; a run takes its place once, and it is
\* only at finish_handle that it is looked at again.
LEMMA HandleStep ==
  ASSUME TypeInv, Next
  PROVE  /\ handle.admitted => handle'.admitted
         /\ handle.terminal => handle'.terminal
         /\ \/ handle'.active = handle.active
            \/ ~handle.admitted
            \/ \E a \in Actors: FinishHandle(a)
BY OwnerWriters
DEF TypeInv, OwnerOK, OwnerWrite, OwnerSame, Admit, Reserve, Claim, Hold, Refuse, Answer, Abandon, ConcludeOperation,
    RaiseFloor, Mark, Fence, FinishHandle

\* No step starts what was not admitted, launched or accepted.
LEMMA StartedNext ==
  ASSUME TypeInv, StartedInv, Next PROVE StartedInv'
<1>1. handle.admitted => handle'.admitted
  BY HandleStep
<1>2. Exists => Exists'
  BY ExistsStep
<1>3. Exists' => handle'.admitted
  BY <1>1, ExistsStep DEF StartedInv, CreateCheckpoint
<1>4. host' # "none" => Exists'
  BY <1>2, HostStep DEF StartedInv
<1>5. ASSUME NEW w \in Workers, pc'[w] # "idle" PROVE Exists'
  <2>1. CASE pc[w] # "idle"
    BY <1>2, <2>1 DEF StartedInv
  <2>2. CASE pc[w] = "idle"
    <3>1. Advance(w)
      BY <1>5, <2>2, OwnStep DEF Idles, Crash
    <3>2. host = "accepted"
      BY <2>2, <3>1
      DEF Advance, AdvanceOver, AdvanceLate, AdvanceExpired, AdvanceReady, Advancing, PolicyDenied, SignInNeeded,
          ContextRevoked, Acquire, Pause, Begin, SaveClaim, CheckAndSave, Reserve, Claim, Before, Hold, Refuse,
          SaveRefused, Authorize, Send, Answer, Abandon, RunTool, Interrupted, ConcludeOperation, SaveResult,
          RaiseFloor, Close, Ending, Fence, SetStatus, Snapshot, Record, Mark, Delivered, FinishHandle
    <3> QED
      BY <1>2, <3>2 DEF StartedInv
  <2> QED
    BY <2>1, <2>2
<1>6. ASSUME NEW t \in Tabs PROVE (pc'[t] = "create" => handle'.admitted) /\ (pc'[t] = "launch" => Exists')
  <2>1. Admit(t) => handle'.admitted
    BY DEF Admit, TypeInv, OwnerOK
  <2> QED
    BY <1>1, <1>2, <2>1, TabPlaces, ExistsStep DEF StartedInv
<1> QED
  BY <1>3, <1>4, <1>5, <1>6 DEF StartedInv

\* The conversation is only ever cleared, and that ends the run.
LEMMA ConversationStep ==
  ASSUME TypeInv, Next
  PROVE  \/ conversation' = conversation
         \/ conversation = "kept" /\ conversation' = "cleared" /\ Over'
<1>1. ASSUME NEW t \in Tabs, ClearConversation(t)
      PROVE conversation = "kept" /\ conversation' = "cleared" /\ Over'
  BY <1>1 DEF ClearConversation, Loadable, Unleased, Over, Terminal, TypeInv, CheckOK, Checkpoints
<1>2. (\A t \in Tabs: ~ClearConversation(t)) => conversation' = conversation
  BY CheckWriters
  DEF CheckWrite, CheckSame, CreateCheckpoint, LaunchUnknown, LaunchRejected, Review, Approve, PolicyDenied,
      SignInNeeded, Acquire, Pause, Begin, SaveClaim, CheckAndSave, SaveRefused, SaveResult, Close, SetStatus,
      LeaseExpires, Commit, LastCommit, Drop, checkVars
<1> QED
  BY <1>1, <1>2

\* An execution heads for finish_handle from the end of a run, or from the write
\* that ends it.
LEMMA FinishStep ==
  ASSUME TypeInv, Next, NEW w \in Workers, pc'[w] = "finish" \/ then'[w] = "finish"
  PROVE  pc[w] = "finish" \/ then[w] = "finish" \/ AdvanceOver(w) \/ Close(w) \/ SetStatus(w)
<1> USE DEF TypeInv, ActorOK, Actors, Terminal
<1>0. Working \cup {"checked", "reload", "fence", "status"} \subseteq Places
  BY DEF Places
<1>1. Leave(w) => pc'[w] = "idle" /\ then'[w] = "none"
  BY DEF Leave, ActorSets
<1>2. AdvanceLate(w) \/ AdvanceExpired(w) \/ AdvanceReady(w) \/ PolicyDenied(w) \/ SignInNeeded(w) \/ ContextRevoked(w)
        => pc'[w] # "finish" /\ then'[w] \in {then[w], "none"}
  BY <1>0, <1>1, Memory
  DEF AdvanceLate, AdvanceExpired, AdvanceReady, PolicyDenied, SignInNeeded, ContextRevoked
<1>3. Acquire(w) => pc'[w] # "finish" /\ then'[w] \in {then[w], "none"}
  <2>1. Acquire(w) /\ ~Leave(w) => then' = then
    BY DEF Acquire
  <2> QED
    BY <1>1, <2>1, AcquireMoves
<1>4. Pause(w) \/ RaiseFloor(w) => pc'[w] # "finish" /\ then'[w] = then[w]
  <2>1. Pause(w) \/ RaiseFloor(w) => then' = then
    BY DEF Pause, RaiseFloor, Fail
  <2> QED
    BY <2>1, PauseMoves, RaiseFloorMoves
<1>5. Begin(w) \/ Reserve(w) \/ SaveClaim(w) \/ Claim(w) \/ Before(w) \/ Hold(w) \/ Refuse(w)
        => pc'[w] # "finish" /\ then'[w] = then[w]
  BY <1>0, Memory DEF Begin, Reserve, SaveClaim, CheckAndSave, Claim, Before, Hold, Refuse, Working
<1>6. SaveRefused(w) \/ Authorize(w) \/ Send(w) \/ Abandon(w) \/ Interrupted(w) \/ ConcludeOperation(w) \/ SaveResult(w)
        => pc'[w] # "finish" /\ then'[w] = then[w]
  BY <1>0, Memory DEF SaveRefused, Authorize, Send, Abandon, Interrupted, ConcludeOperation, SaveResult, Working
<1>7. Answer(w) \/ RunTool(w) => pc'[w] = "flush" /\ then'[w] = "conclude"
  BY RunToolMoves, Memory DEF Answer
<1>8. Fence(w) \/ Record(w) \/ FinishHandle(w) \/ Crash(w) => pc'[w] # "finish" /\ then'[w] \in {then[w], "none"}
  <2>1. {"status", "mark"} \subseteq Places
    BY DEF Places
  <2> QED
    BY <1>1, <2>1, Memory DEF Fence, Record, FinishHandle, Crash
<1>9. Snapshot(w) => pc'[w] # "finish" /\ then'[w] = then[w]
  BY SnapshotMoves
<1>10. Mark(w) => pc'[w] # "finish" /\ then'[w] \in {then[w], "none"}
  <2>1. Mark(w) => Leave(w) \/ then' = then \/ then' = [then EXCEPT ![w] = "none"]
    BY DEF Mark
  <2> QED
    BY <1>1, <2>1, MarkMoves DEF ActorSets
<1>11. Delivered(w) => then'[w] = "none" /\ (pc'[w] = "finish" => then[w] = "finish")
  <2>1. Delivered(w) => then'[w] = "none"
    BY <1>1 DEF Delivered, ActorSets
  <2> QED
    BY <2>1, DeliveredMoves
<1> QED
  BY <1>2, <1>3, <1>4, <1>5, <1>6, <1>7, <1>8, <1>9, <1>10, <1>11, OwnStep DEF Advance, Ending, Idles

\* An execution that heads for finish_handle, an orchestration that has ended and a
\* conversation that was cleared all mean that the run is over.
LEMMA EndedNext ==
  ASSUME TypeInv, CopyInv, StartedInv, EndedInv, Next PROVE EndedInv'
<1> USE DEF TypeInv, CheckOK
<1>1. Over => Over'
  BY OverStays
<1>2. conversation' = "cleared" => Over'
  BY <1>1, ConversationStep DEF EndedInv
<1>3. ASSUME NEW w \in Workers, pc'[w] = "finish" \/ then'[w] = "finish" PROVE Over'
  <2>1. CASE pc[w] = "finish" \/ then[w] = "finish"
    BY <1>1, <2>1 DEF EndedInv
  <2>2. CASE AdvanceOver(w)
    BY <1>1, <2>2 DEF AdvanceOver
  <2>3. CASE Close(w) \/ SetStatus(w)
    <3>1. ~Loadable => Over
      BY <2>3 DEF Loadable, StartedInv, EndedInv, Close, SetStatus
    <3>2. CASE Loadable /\ ~Over /\ Close(w)
      <4>1. LastCommit(ResultOf(w)) /\ then'[w] = Following(w) /\ why[w] \in {"failed", "advanced"} /\ pc'[w] = "flush"
        <5>1. Leave(w) => pc'[w] = "idle" /\ then'[w] = "none"
          BY DEF Leave, ActorOK, ActorSets, Actors
        <5>2. pc[w] = "reload" /\ why[w] \in {"paused", "failed", "advanced"}
          BY <3>2 DEF Close, ActorOK, LocalOK, Actors
        <5>3. Flush(w, Following(w)) => then'[w] = Following(w) /\ pc'[w] = "flush"
          BY DEF Flush, Step, ActorOK, ActorSets, Actors
        <5> QED
          BY <1>3, <3>2, <5>1, <5>2, <5>3 DEF Close
      <4>2. why[w] = "failed" \/ (why[w] = "advanced" /\ at[w] = Last)
        BY <1>3, <4>1 DEF Following
      <4> QED
        BY <4>1, <4>2 DEF LastCommit, ResultOf, Unleased, Over, Terminal, Checkpoints
    <3>3. CASE Loadable /\ ~Over /\ SetStatus(w)
      BY <3>3 DEF SetStatus, LastCommit, Unleased, Over, Checkpoints, ActorOK, LocalOK, Actors
    <3> QED
      BY <1>1, <2>3, <3>1, <3>2, <3>3
  <2> QED
    BY <1>3, <2>1, <2>2, <2>3, FinishStep
<1>4. ASSUME host' = "done" PROVE handle'.terminal /\ Over'
  <2>1. CASE host = "done"
    BY <1>1, <2>1, HandleStep DEF EndedInv
  <2>2. CASE host # "done"
    <3>1. PICK w \in Workers: FinishHandle(w)
      BY <1>4, <2>2, HostStep
    <3> QED
      BY <1>1, <3>1 DEF FinishHandle, EndedInv, OwnerOK
  <2> QED
    BY <2>1, <2>2
<1> QED
  BY <1>2, <1>3, <1>4 DEF EndedInv

\* Who resolves the last effect of a run concludes its operation.
LEMMA ResolvedStep ==
  ASSUME TypeInv, Next, ~ResolvedAll, ResolvedAll'
  PROVE  \E w \in Workers: pc'[w] \in {"refused", "keep"}
<1> USE DEF TypeInv, OwnerOK
<1>1. PICK op \in Ops: logical[op] \in {"dispatched", "unknown"} /\ logical'[op] \notin {"dispatched", "unknown"}
  BY DEF ResolvedAll
<1>2. PICK w \in Workers: Refuse(w) \/ ConcludeOperation(w)
  <2>1. \A w \in Workers: ~Claim(w) /\ ~Reserve(w)
    BY <1>1 DEF Claim, Reserve
  <2>2. \A w \in Workers: ~RaiseFloor(w)
    BY <1>1 DEF RaiseFloor
  <2>3. \A w \in Workers: ~Hold(w) /\ ~Answer(w) /\ ~Abandon(w)
    BY <1>1 DEF Hold, Answer, Abandon
  <2>4. /\ \A a \in Actors: ~Mark(a) /\ ~Fence(a) /\ ~FinishHandle(a)
        /\ \A t \in Tabs: ~Admit(t)
    BY <1>1 DEF Mark, Fence, FinishHandle, Admit
  <2> QED
    BY <1>1, <2>1, <2>2, <2>3, <2>4, OwnerWriters DEF OwnerWrite, OwnerSame
<1>3. Go(w, "refused") \/ Go(w, "keep")
  BY <1>1, <1>2 DEF Refuse, ConcludeOperation
<1> QED
  BY <1>3 DEF Go, Step, ActorOK, ActorSets, Actors

\* In a run that is over, and whose effects are resolved, an execution on its way to
\* finish_handle goes on, unless it dies.
LEMMA OwesStep ==
  ASSUME TypeInv, HeldInv, StartedInv, EndedInv, Next, host = "done", conversation = "kept", ResolvedAll,
         NEW w \in Workers, Owes(w), Advance(w), ~FinishHandle(w)
  PROVE  Owes(w)'
<1> USE DEF TypeInv, ActorOK, Actors, Terminal
<1>0. {"status", "mark"} \subseteq Places
  BY DEF Places
<1>1. Over /\ Loadable /\ ~Permitted(w)
  BY DEF EndedInv, StartedInv, Loadable, Owes, Over, Permitted
<1>2. pc[w] \in {"pause", "begin", "refused", "keep", "raise", "reload", "fence", "status"}
      \/ (pc[w] = "flush" /\ then[w] = "finish")
      \/ (pc[w] = "record" /\ then[w] = "finish" /\ todo[w] = {})
      \/ pc[w] = "finish"
  BY DEF Owes
<1>3. CASE Pause(w) \/ RaiseFloor(w)
  BY <1>3, PauseMoves, RaiseFloorMoves DEF Owes
<1>4. CASE Begin(w) \/ SaveRefused(w) \/ Interrupted(w)
  BY <1>1, <1>4, Memory DEF Begin, CheckAndSave, SaveRefused, Interrupted, Owes
<1>5. CASE SaveResult(w)
  <2>1. "raise" \in Places
    BY DEF Places, Working
  <2> QED
    BY <1>5, <2>1, Memory DEF SaveResult, Owes
<1>6. CASE Close(w) \/ SetStatus(w)
  <2>1. Flush(w, "finish")
    BY <1>1, <1>6 DEF Close, SetStatus
  <2> QED
    BY <2>1, Memory DEF Owes
<1>7. CASE Fence(w)
  BY <1>0, <1>7, Memory DEF Fence, Owes
<1>8. CASE Snapshot(w)
  <2>1. pc[w] = "flush" /\ todo' = [todo EXCEPT ![w] = Outbox]
    BY <1>8 DEF Snapshot
  <2>2. Outbox = {}
    BY DEF ResolvedAll, HeldInv, Outbox
  <2>3. todo'[w] = {}
    BY <2>1, <2>2 DEF ActorSets
  <2> QED
    BY <1>2, <1>8, <2>1, <2>3, SnapshotMoves DEF Owes
<1>9. CASE Delivered(w)
  <2>1. pc[w] = "record" /\ then[w] = "finish"
    BY <1>2, <1>9 DEF Delivered
  <2>2. Step(w, "finish")
    BY <1>9, <2>1 DEF Delivered
  <2>3. pc'[w] = "finish"
    BY <2>2 DEF Step, ActorSets
  <2> QED
    BY <2>3 DEF Owes
<1>10. CASE Record(w)
  BY <1>2, <1>10 DEF Record
<1>11. pc[w] \notin {"idle", "checked", "reserve", "recheck", "claim", "before", "hold", "refuse", "authorize", "send",
                    "answer", "abandon", "run", "conclude", "mark"}
  BY DEF Owes
<1> QED
  BY <1>3, <1>4, <1>5, <1>6, <1>7, <1>8, <1>9, <1>10, <1>11
  DEF Advance, Ending, AdvanceOver, AdvanceLate, AdvanceExpired, AdvanceReady, Advancing, PolicyDenied, SignInNeeded,
      ContextRevoked, Acquire, Reserve, SaveClaim, CheckAndSave, Claim, Before, Hold, Refuse, Authorize, Send, Answer,
      Abandon, RunTool, ConcludeOperation, Mark

\* A death is counted.
LEMMA CrashStep ==
  ASSUME Next, crashes \in Nat
  PROVE  /\ crashes' \in Nat
         /\ crashes' = 0 => crashes = 0 /\ \A a \in Actors: ~Crash(a)
<1>1. ASSUME NEW a \in Actors, Ending(a) PROVE crashes' = crashes
  BY <1>1 DEF Ending, Fence, SetStatus, Snapshot, Record, Mark, Delivered, FinishHandle, SameRun, boundVars
<1>2. ASSUME NEW w \in Workers, Advance(w), ~Ending(w) PROVE crashes' = crashes
  BY <1>2
  DEF Advance, AdvanceOver, AdvanceLate, AdvanceExpired, AdvanceReady, Advancing, PolicyDenied, SignInNeeded,
      ContextRevoked, Acquire, Pause, Begin, SaveClaim, CheckAndSave, Reserve, Claim, Before, Hold, Refuse,
      SaveRefused, Authorize, Send, Answer, Abandon, RunTool, Interrupted, ConcludeOperation, SaveResult, RaiseFloor,
      Close, SameRun, boundVars
<1>3. ASSUME NEW t \in Tabs, Ask(t) \/ Starting(t) \/ Review(t) \/ Approve(t) PROVE crashes' = crashes
  BY <1>3
  DEF Ask, Admit, Cancel, Refusal, ReadDraft, ClearConversation, Request, Starting, CreateCheckpoint, Launch,
      LaunchUnknown, LaunchRejected, Review, Approve, SameRun, boundVars
<1>4. LeaseExpires \/ DeadlinePasses \/ DraftExpires => crashes' = crashes
  BY DEF LeaseExpires, DeadlinePasses, DraftExpires, boundVars
<1>5. ASSUME NEW a \in Actors, Crash(a) PROVE crashes' \in Nat /\ crashes' # 0
  BY <1>5 DEF Crash
<1>6. crashes' = crashes \/ \E a \in Actors: Crash(a)
  BY <1>1, <1>2, <1>3, <1>4 DEF Next, Respond, Outside, Actors
<1>7. CASE \E a \in Actors: Crash(a)
  BY <1>5, <1>7
<1>8. CASE \A a \in Actors: ~Crash(a)
  BY <1>6, <1>8
<1> QED
  BY <1>7, <1>8

\* A run that is over and resolved keeps its place only while an execution is on its
\* way to give it back.
LEMMA OwedNext ==
  ASSUME TypeInv, OwnerInv, HeldInv, StartedInv, EndedInv, OwedInv, Next PROVE OwedInv'
<1> SUFFICES ASSUME host' = "done", handle'.active, conversation' = "kept", crashes' = 0, ResolvedAll'
             PROVE  \E w \in Workers: Owes(w)'
  BY CrashStep DEF OwedInv
<1>1. \A a \in Actors: ~FinishHandle(a)
  <2>1. HeldInv'
    BY HeldNext
  <2>2. \A op \in Ops: ~(Unresolved(op) \/ Undelivered(op))'
    BY <2>1 DEF HeldInv, ResolvedAll
  <2>3. \A a \in Actors: FinishHandle(a) => \E op \in Ops: (Unresolved(op) \/ Undelivered(op))'
    BY DEF FinishHandle, Unresolved, Undelivered, TypeInv, OwnerOK
  <2> QED
    BY <2>2, <2>3
<1>2. host = "done" /\ conversation = "kept" /\ crashes = 0 /\ \A a \in Actors: ~Crash(a)
  BY <1>1, HostStep, ConversationStep, CrashStep DEF OwedInv, Actors
<1>3. handle.active
  BY <1>1, <1>2, HandleStep DEF StartedInv
<1>4. CASE ~ResolvedAll
  BY <1>4, ResolvedStep DEF Owes
<1>5. CASE ResolvedAll
  <2>1. PICK w \in Workers: Owes(w)
    BY <1>2, <1>3, <1>5 DEF OwedInv
  <2>2. CASE Idles(w)
    BY <2>1, <2>2 DEF Idles, Owes
  <2>3. CASE Advance(w)
    BY <1>1, <1>2, <1>5, <2>1, <2>3, OwesStep DEF Actors
  <2> QED
    BY <1>2, <2>2, <2>3, OwnStep DEF Actors
<1> QED
  BY <1>4, <1>5

\* What every reachable state satisfies of the end of a run.
ReleaseInv == TypeInv /\ OwnerInv /\ CopyInv /\ HeldInv /\ StartedInv /\ EndedInv /\ OwedInv

\* At the start nothing has ended.
LEMMA ReleaseInit == Init => ReleaseInv
<1>1. Init => StartedInv /\ EndedInv /\ OwedInv
  BY DEF Init, StartedInv, EndedInv, OwedInv, Exists, Actors
<1> QED
  BY <1>1, TypeInit, OwnerInvInit, CopyInit, HeldStart DEF ReleaseInv

\* Every step, or none, keeps it.
LEMMA ReleaseNext == ReleaseInv /\ [Next]_vars => ReleaseInv'
<1>1. ReleaseInv /\ [Next]_vars => (TypeInv /\ OwnerInv /\ CopyInv)'
  BY TypeNext, OwnerInvNext, CopyInvNext DEF ReleaseInv
<1>2. ReleaseInv /\ Next => (HeldInv /\ StartedInv /\ EndedInv /\ OwedInv)'
  BY HeldNext, StartedNext, EndedNext, OwedNext DEF ReleaseInv
<1>3. ReleaseInv /\ UNCHANGED vars => (StartedInv /\ EndedInv /\ OwedInv)'
  BY DEF ReleaseInv, StartedInv, EndedInv, OwedInv, Exists, Over, Owes, ResolvedAll, vars, ownerVars, checkVars, actorVars,
         boundVars
<1> QED
  BY <1>1, <1>2, <1>3, HeldStart DEF ReleaseInv

\* Once the orchestration of a run has ended, nobody is at work and nobody died, the
\* run is fenced, and it still counts among the owner's active runs only for an
\* effect that is unresolved or a row that is undelivered (finish_handle).
THEOREM PlaceReleased == Spec => []ReleasedWhenQuiet
<1>1. ReleaseInv => ReleasedWhenQuiet
  <2> SUFFICES ASSUME ReleaseInv, host = "done", conversation = "kept", crashes = 0, \A a \in Actors: pc[a] = "idle"
               PROVE  handle.terminal /\ (handle.active => \E op \in Ops: Unresolved(op) \/ Undelivered(op))
    BY DEF ReleasedWhenQuiet
  <2>1. \A w \in Workers: ~Owes(w)
    BY DEF Owes, Actors
  <2>2. handle.active => ~ResolvedAll
    BY <2>1 DEF ReleaseInv, OwedInv
  <2> QED
    BY <2>2 DEF ReleaseInv, EndedInv, ResolvedAll, Unresolved
<1> QED
  BY <1>1, ReleaseInit, ReleaseNext, PTL DEF Spec
=============================================================================
