------------------------------ MODULE SendLimit ------------------------------
(***************************************************************************)
(* What hard admission promises the owner, with no mention of documents,   *)
(* reservations or settlements: an operation is sent at most once, and a   *)
(* send is only made while every window that meters it has room.           *)
(***************************************************************************)
EXTENDS Integers, FiniteSets

CONSTANTS Task, KeyOf, NoTime, Windows, Metered, Width, HighestCap

VARIABLES clock, sentAt

vars == <<clock, sentAt>>

Recent(w) == {t \in Task : /\ sentAt[t] # NoTime
                           /\ t \in Metered[w]
                           /\ sentAt[t] >= clock - Width[w]}

Init == clock = 0 /\ sentAt = [t \in Task |-> NoTime]

Send(t) ==
  /\ \A u \in Task : KeyOf[u] = KeyOf[t] => sentAt[u] = NoTime
  /\ \A w \in Windows :
       t \in Metered[w] => Cardinality(Recent(w) \cup {t}) <= HighestCap[w]
  /\ sentAt' = [sentAt EXCEPT ![t] = clock]
  /\ UNCHANGED clock

Tick == clock' = clock + 1 /\ UNCHANGED sentAt

Next == Tick \/ \E t \in Task : Send(t)

Spec == Init /\ [][Next]_vars
=============================================================================
