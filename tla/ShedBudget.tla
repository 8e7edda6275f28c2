----------------------------- MODULE ShedBudget -----------------------------
(***************************************************************************)
(* The governor of app/main.go at the grain of its atomic operations:      *)
(* goroutines run shedReserveError (load respOK once, then load respErr,   *)
(* check, compare-and-swap, and try again) while other goroutines count    *)
(* responses.  A granted reservation is either spent on a 503 or, when the *)
(* waiter turns out to be taken, given back.                               *)
(***************************************************************************)
EXTENDS Integers, FiniteSets

CONSTANTS
  Procs,      \* goroutines that may ask for a reservation
  Scale, BudgetBP, MinTotal,
  MaxOK,      \* bound: responses counted in respOK
  MaxCharges  \* bound: errors charged without a reservation

ASSUME ShedBudgetAssumption ==
  /\ IsFiniteSet(Procs)
  /\ Scale \in Nat \ {0}
  /\ BudgetBP \in 0 .. Scale
  /\ MinTotal \in Nat
  /\ MaxOK \in Nat
  /\ MaxCharges \in Nat

VARIABLES
  respOK, respErr,
  held,      \* history: reservations granted and not given back
  charges,   \* history: errors charged without a reservation
  pc,        \* where each goroutine is in shedReserveError
  okSeen,    \* its local ok, loaded once before the loop
  erSeen     \* its local er, the value the compare-and-swap expects

counters == <<respOK, respErr, held, charges>>
locals == <<pc, okSeen, erSeen>>
vars == <<counters, locals>>

Ledger == INSTANCE ErrorLedger

Init ==
  /\ Ledger!Init
  /\ charges = 0
  /\ pc = [p \in Procs |-> "idle"]
  /\ okSeen = [p \in Procs |-> 0]
  /\ erSeen = [p \in Procs |-> 0]

TypeOK ==
  /\ respOK \in Nat
  /\ respErr \in Nat
  /\ held \in Nat
  /\ charges \in Nat
  /\ pc \in [Procs -> {"idle", "load", "cas", "granted"}]
  /\ okSeen \in [Procs -> Nat]
  /\ erSeen \in [Procs -> Nat]

-----------------------------------------------------------------------------
LoadOK(p) ==
  /\ pc[p] = "idle"
  /\ okSeen' = [okSeen EXCEPT ![p] = respOK]
  /\ pc' = [pc EXCEPT ![p] = "load"]
  /\ UNCHANGED <<counters, erSeen>>

(* Mutant: the budget check forgets the error it is about to add.          *)
LoadErrOffByOne(p) ==
  /\ pc[p] = "load"
  /\ erSeen' = [erSeen EXCEPT ![p] = respErr]
  /\ pc' = [pc EXCEPT ![p] = IF Ledger!Fits(okSeen[p], respErr - 1)
                             THEN "cas" ELSE "idle"]
  /\ UNCHANGED <<counters, okSeen>>

(* Load respErr and check it against the budget with the ok loaded before. *)
LoadErr(p) ==
  /\ pc[p] = "load"
  /\ erSeen' = [erSeen EXCEPT ![p] = respErr]
  /\ pc' = [pc EXCEPT ![p] = IF Ledger!Fits(okSeen[p], respErr)
                             THEN "cas" ELSE "idle"]
  /\ UNCHANGED <<counters, okSeen>>

(* Mutant: check, then add without comparing (the racy form of 821-822).   *)
CasRacy(p) ==
  /\ pc[p] = "cas"
  /\ respErr' = respErr + 1
  /\ held' = held + 1
  /\ pc' = [pc EXCEPT ![p] = "granted"]
  /\ UNCHANGED <<respOK, charges, okSeen, erSeen>>

(* Mutant: a failed compare-and-swap tries again without loading er again. *)
CasNoReload(p) ==
  /\ pc[p] = "cas"
  /\ IF respErr = erSeen[p]
       THEN /\ respErr' = erSeen[p] + 1
            /\ held' = held + 1
            /\ pc' = [pc EXCEPT ![p] = "granted"]
       ELSE UNCHANGED <<respErr, held, pc>>
  /\ UNCHANGED <<respOK, charges, okSeen, erSeen>>

Cas(p) ==
  /\ pc[p] = "cas"
  /\ IF respErr = erSeen[p]
       THEN /\ respErr' = erSeen[p] + 1
            /\ held' = held + 1
            /\ pc' = [pc EXCEPT ![p] = "granted"]
       ELSE /\ pc' = [pc EXCEPT ![p] = "load"]
            /\ UNCHANGED <<respErr, held>>
  /\ UNCHANGED <<respOK, charges, okSeen, erSeen>>

(* The 503 is written through writeJSONUncounted: no counter moves.        *)
Spend(p) ==
  /\ pc[p] = "granted"
  /\ pc' = [pc EXCEPT ![p] = "idle"]
  /\ UNCHANGED <<counters, okSeen, erSeen>>

(* Mutant: the refund is issued although no reservation was granted.       *)
GiveBackUnreserved(p) ==
  /\ pc[p] \in {"idle", "granted"}
  /\ respErr' = respErr - 1
  /\ held' = held - 1
  /\ pc' = [pc EXCEPT ![p] = "idle"]
  /\ UNCHANGED <<respOK, charges, okSeen, erSeen>>

(* The waiter was taken meanwhile: riskSubmit gives the reservation back.  *)
GiveBack(p) ==
  /\ pc[p] = "granted"
  /\ respErr' = respErr - 1
  /\ held' = held - 1
  /\ pc' = [pc EXCEPT ![p] = "idle"]
  /\ UNCHANGED <<respOK, charges, okSeen, erSeen>>

(* writeJSON of a response below 400.                                      *)
CountOK ==
  /\ respOK < MaxOK
  /\ respOK' = respOK + 1
  /\ UNCHANGED <<respErr, held, charges, locals>>

(* writeJSON of an error, or an explicit charge in riskSubmit and          *)
(* riskTakeWork.                                                           *)
CountErr ==
  /\ charges < MaxCharges
  /\ charges' = charges + 1
  /\ respErr' = respErr + 1
  /\ UNCHANGED <<respOK, held, locals>>

Reserving(p) == LoadErr(p) \/ Cas(p)

Next ==
  \/ \E p \in Procs :
       LoadOK(p) \/ LoadErr(p) \/ Cas(p) \/ Spend(p) \/ GiveBack(p)
  \/ CountOK
  \/ CountErr

Spec == Init /\ [][Next]_vars

(* A goroutine inside shedReserveError keeps running.                      *)
FairSpec == Spec /\ \A p \in Procs : WF_vars(Reserving(p))

-----------------------------------------------------------------------------
(* The sheds that stand never exceed the budget's share of all responses   *)
(* counted so far, whatever loads, checks, swaps, refunds and responses    *)
(* interleave: the governor's reason to make check and charge one step.    *)
BudgetHolds == held * Scale <= (respOK + respErr) * BudgetBP

(* shedReserveError behaves as one atomic step of the ledger: although ok  *)
(* is loaded once and er again on every turn, a grant is a grant the       *)
(* ledger could make at that instant.                                      *)
ImplementsLedger == Ledger!Spec

(* The loop is lock-free: the goroutines cannot all keep failing their     *)
(* compare-and-swap, for a failure means that a counter moved.             *)
LockFree == []<>(\E p \in Procs : pc[p] \in {"idle", "granted"})

=============================================================================
