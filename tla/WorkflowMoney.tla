--------------------------- MODULE WorkflowMoney ---------------------------
(* The money of one capped workflow run (workflows/monetary_ledger.py and    *)
(* monetary_models.py): a run account and one reservation per application    *)
(* dispatch, changed only inside the conditional writes of the owner         *)
(* document.  Operators only; WorkflowRun keeps the account and applies them. *)
(* A digest that only proves two records belong together (budgetId,          *)
(* settlementDigest, approvalSpendDigest) and the account's own revision are *)
(* left out: one run has one account here and it is never replaced.          *)
EXTENDS Integers, FiniteSets

CONSTANTS
    Limit,        \* maxSpendMicroUsd of the run
    Bound,        \* the conservative amount one dispatch reserves
    Actuals,      \* what a finished dispatch may turn out to have cost
    MaxQuantity   \* MAX_QUANTITY, the largest total an account can hold

ASSUME MoneyAssumption ==
    /\ Limit \in Nat
    /\ Bound \in Nat
    /\ Actuals \subseteq Nat
    /\ MaxQuantity \in Nat

Reasons == {"none", "bound_exceeded", "accounting_overflow"}

RunMoney == [settled: Nat, held: Int, unknown: Nat, compacted: Nat,
             compactedReservations: Nat, reservations: Nat, reason: Reasons]

\* The reservation inside a dispatch effect; "none" where the run is uncapped.
DispatchMoney == [phase: {"none", "held", "settled", "unknown"}, charged: Nat]

NoMoney == [phase |-> "none", charged |-> 0]

NewAccount ==
    [settled |-> 0, held |-> 0, unknown |-> 0, compacted |-> 0,
     compactedReservations |-> 0, reservations |-> 0, reason |-> "none"]

Blocked(account) == account.reason # "none"

\* A usage record that is missing or partial proves no amount.
Unmetered == -1

Remaining(account) ==
    LET left == Limit - account.settled - account.held
    IN  IF left > 0 THEN left ELSE 0

MayReserve(account) == ~Blocked(account) /\ Bound <= Remaining(account)

ReserveMoney(account) ==
    [account EXCEPT !.held = @ + Bound, !.reservations = @ + 1]

Reservation == [phase |-> "held", charged |-> Bound]

-----------------------------------------------------------------------------
(* settle_money: a proven amount replaces the reservation; anything else     *)
(* keeps the whole reservation held for ever.  The first reason sticks.      *)

Overflows(account, actual) == account.settled + actual > MaxQuantity

Provable(account, actual) == actual # Unmetered /\ ~Overflows(account, actual)

ReasonAfter(account, money, actual) ==
    CASE Blocked(account) -> account.reason
      [] ~Blocked(account) /\ actual # Unmetered /\ Overflows(account, actual)
            -> "accounting_overflow"
      [] ~Blocked(account) /\ Provable(account, actual) /\ actual > money.charged
            -> "bound_exceeded"
      [] OTHER -> "none"

SettledMoney(account, money, actual) ==
    IF Provable(account, actual)
    THEN [phase |-> "settled", charged |-> actual]
    ELSE [money EXCEPT !.phase = "unknown"]

SettleMoney(account, money, actual) ==
    LET reason == ReasonAfter(account, money, actual)
    IN  IF Provable(account, actual)
        THEN [account EXCEPT !.settled = @ + actual, !.held = @ - money.charged,
                             !.reason = reason]
        ELSE [account EXCEPT !.unknown = @ + money.charged, !.reason = reason]

\* Mutant of CompactMoney: the charge of a pruned effect is forgotten.
CompactNothing(account, money) == [account EXCEPT !.compactedReservations = @ + 1]

\* compact_money: the delivered effect is pruned, its charge stays counted.
CompactMoney(account, money) ==
    [account EXCEPT !.compacted = @ + money.charged, !.compactedReservations = @ + 1]

-----------------------------------------------------------------------------
\* What the operations in one of the given phases are charged, one element per unit.
Charges(money, phases) ==
    UNION {{op} \X (1..money[op].charged): op \in {o \in DOMAIN money: money[o].phase \in phases}}

ChargedIn(money, phases) == Cardinality(Charges(money, phases))

ReservationsIn(money) == Cardinality({op \in DOMAIN money: money[op].phase # "none"})

\* RunMoney.coherent_totals: what a record must satisfy to be read back at all.
CoherentTotals(account) ==
    /\ account.unknown <= account.held
    /\ account.compacted <= account.settled
    /\ account.compactedReservations <= account.reservations
    /\ ~Blocked(account) => account.settled + account.held <= Limit

\* validate_money_balances, over the dispatch effects still in the document.
MoneyBalances(account, money) ==
    /\ account.settled = account.compacted + ChargedIn(money, {"settled"})
    /\ account.held = ChargedIn(money, {"held", "unknown"})
    /\ account.unknown = ChargedIn(money, {"unknown"})
    /\ account.reservations = account.compactedReservations + ReservationsIn(money)
=============================================================================
