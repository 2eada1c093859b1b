---------------------------- MODULE RunPromise ----------------------------
(* What a resumable run promises its owner (docs/workflow-automation.md,     *)
(* "Recovery and uncertainty"): its operations are taken up in order, each   *)
(* reaches a provider at most once and is never repeated to reconstruct a    *)
(* lost answer; a stop prevents every operation and request not yet claimed; *)
(* the run gives back its place among the owner's active runs only when it   *)
(* is stopped and nothing it sent is still unresolved.                       *)
EXTENDS Naturals

CONSTANT Ops

VARIABLES
    stage,      \* how far each operation has come
    stopped,    \* the run has been told to stop, or has ended
    released    \* the run no longer counts as active

vars == <<stage, stopped, released>>

Stages == {"idle", "claimed", "permitted", "sent", "resolved"}
InFlight == {"claimed", "permitted", "sent"}

TypeOK ==
    /\ stage \in [Ops -> Stages]
    /\ stopped \in BOOLEAN
    /\ released \in BOOLEAN

Init ==
    /\ stage = [op \in Ops |-> "idle"]
    /\ stopped = FALSE
    /\ released = FALSE

Move(op, from, to) ==
    /\ stage[op] \in from
    /\ stage' = [stage EXCEPT ![op] = to]
    /\ UNCHANGED <<stopped, released>>

\* An operation is claimed once those before it are resolved; a local tool has
\* nothing more to ask for.
Claim(op) ==
    /\ ~stopped
    /\ \A earlier \in Ops: earlier < op => stage[earlier] = "resolved"
    /\ \E to \in {"claimed", "permitted"}: Move(op, {"idle"}, to)

\* A request of a claimed operation is entered in the owner's document.
Permit(op) == ~stopped /\ Move(op, {"claimed"}, "permitted")

\* The one request leaves; the stop may have come after its permit.
Send(op) == Move(op, {"permitted"}, "sent")

Resolve(op) == Move(op, InFlight, "resolved")

Stop ==
    /\ stopped' = TRUE
    /\ UNCHANGED <<stage, released>>

Release ==
    /\ \A op \in Ops: stage[op] \notin InFlight
    /\ released' = TRUE
    /\ stopped' = TRUE
    /\ UNCHANGED stage

Next ==
    \/ \E op \in Ops: Claim(op) \/ Permit(op) \/ Send(op) \/ Resolve(op)
    \/ Stop
    \/ Release

Spec == Init /\ [][Next]_vars
=============================================================================
