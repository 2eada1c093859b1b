---------------------------- MODULE MCHardQuota ----------------------------
(***************************************************************************)
(* Small instances of HardQuota for TLC.                                   *)
(***************************************************************************)
EXTENDS HardQuota, TLC

CONSTANTS t1, t2, t3, k1, k2

\* Every task claims an identity of its own, which bears its name: a
\* permutation of the tasks then permutes the identities with them.
OwnKeys == [t \in Task |-> t]
AnyTask == Permutations(Task)

\* t1 and t2 claim one identity: a scope entered twice with one root.
SharedKey == [t \in Task |-> k1]

AllText == [t \in Task |-> "text"]
AllCompute == [t \in Task |-> "compute"]

Cap(requests, compute) ==
  [disabled |-> FALSE, spend |-> FALSE,
   cap |-> ("requestsPerMinute" :> requests) @@ ("computeExecutionsPerDay" :> compute)]

Disabled == [Cap(1, 1) EXCEPT !.disabled = TRUE]
Spending == [Cap(1, 1) EXCEPT !.spend = TRUE]

OneRequest == {Cap(1, Uncapped)}
NoCaps == {Cap(Uncapped, Uncapped)}
Changing == {Cap(2, Uncapped), Cap(Uncapped, 1)}
AnyPolicy == Changing \cup {Disabled, Spending}

UpTo(requests, compute) ==
  ("requestsPerMinute" :> requests) @@ ("computeExecutionsPerDay" :> compute)
UpToOne == UpTo(1, 3)
UpToTwo == UpTo(2, 3)
UpToThree == UpTo(3, 3)

BytesByPhase == [p \in Phases |-> CASE p = "reserved" -> 1 [] p = "dispatched" -> 2
                                    [] p = "settled" -> 3 [] p = "released" -> 2]
=============================================================================
