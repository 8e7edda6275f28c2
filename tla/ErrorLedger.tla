---------------------------- MODULE ErrorLedger ----------------------------
(***************************************************************************)
(* What the error-budget governor of app/main.go promises, with every      *)
(* operation one atomic step: respOK and respErr count the responses sent, *)
(* held counts the error reservations that stand.  A reservation is made   *)
(* only when the error it charges still fits the budget, may be given back *)
(* when the request is served after all, and every other error is charged  *)
(* unconditionally.  ShedBudget shows that the compare-and-swap loop of    *)
(* the code implements this, and RiskGate uses it step by step.            *)
(***************************************************************************)
EXTENDS Integers

CONSTANTS
  Scale,     \* what one whole is in budget units (10000: basis points)
  BudgetBP,  \* riskShedBudgetBP, the share of all responses that may be shed
  MinTotal   \* responses below which nothing is shed (500 in the code)

VARIABLES respOK, respErr, held

ledger == <<respOK, respErr, held>>

(* The charge of one more error fits: shedReserveError answers true.       *)
Fits(ok, err) ==
  /\ ok + err >= MinTotal
  /\ (err + 1) * Scale <= (ok + err) * BudgetBP

Init ==
  /\ respOK = 0
  /\ respErr = 0
  /\ held = 0

Reserve ==
  /\ Fits(respOK, respErr)
  /\ respErr' = respErr + 1
  /\ held' = held + 1
  /\ UNCHANGED respOK

Refund ==
  /\ held > 0
  /\ respErr' = respErr - 1
  /\ held' = held - 1
  /\ UNCHANGED respOK

CountOK ==
  /\ respOK' = respOK + 1
  /\ UNCHANGED <<respErr, held>>

(* One critical section may charge several errors at once (riskTakeWork).  *)
Charge ==
  /\ respErr' > respErr
  /\ UNCHANGED <<respOK, held>>

Next == Reserve \/ Refund \/ CountOK \/ Charge

Spec == Init /\ [][Next]_ledger

=============================================================================
