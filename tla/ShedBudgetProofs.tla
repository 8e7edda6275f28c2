-------------------------- MODULE ShedBudgetProofs --------------------------
(***************************************************************************)
(* What ShedBudget promises, for any number of goroutines, any budget and  *)
(* any traffic; with the budget that main derives it keeps the graded      *)
(* error gate.                                                             *)
(***************************************************************************)
EXTENDS ShedBudget, BootConfig, FiniteSetTheorems, TLAPS

Granted == {p \in Procs : pc[p] = "granted"}

(* The inductive invariant: what a goroutine has checked is still worth    *)
(* what it was when it reaches the compare-and-swap, for respOK only grows *)
(* and respErr must not have moved; and nobody gives back a reservation    *)
(* that is not standing.                                                   *)
Seen ==
  \A p \in Procs :
    /\ okSeen[p] <= respOK
    /\ pc[p] = "cas" => Ledger!Fits(okSeen[p], erSeen[p])

Standing ==
  /\ held <= respErr
  /\ Cardinality(Granted) <= held

IInv == TypeOK /\ Seen /\ Standing /\ BudgetHolds

-----------------------------------------------------------------------------
(* Multiplication by a natural number is monotone.                         *)
LEMMA TimesMonotone ==
  ASSUME NEW a \in Nat, NEW b \in Nat, NEW c \in Nat, a <= b
  PROVE  a * c <= b * c
<1>1. PICK d \in Nat : b = a + d
  BY b - a \in Nat, b = a + (b - a)
<1>2. b * c = a * c + d * c
  BY <1>1, SMT
<1>3. d * c \in Nat /\ a * c \in Nat
  BY SMT
<1> QED
  BY <1>2, <1>3, SMT

(* Responses counted since the check can only make room.                   *)
LEMMA FitsMonotone ==
  ASSUME NEW ok \in Nat, NEW okNow \in Nat, NEW err \in Nat,
         ok <= okNow, Ledger!Fits(ok, err)
  PROVE  Ledger!Fits(okNow, err)
<1>1. BudgetBP \in Nat /\ Scale \in Nat /\ MinTotal \in Nat
  BY ShedBudgetAssumption
<1>2. (ok + err) * BudgetBP <= (okNow + err) * BudgetBP
  BY <1>1, TimesMonotone, ok + err \in Nat, okNow + err \in Nat, ok + err <= okNow + err
<1>3. (err + 1) * Scale \in Nat /\ (ok + err) * BudgetBP \in Nat
        /\ (okNow + err) * BudgetBP \in Nat
  BY <1>1, SMT
<1> QED
  BY <1>1, <1>2, <1>3 DEF Ledger!Fits

(* One more reservation that fits keeps the standing ones in the budget.   *)
LEMMA GrantHolds ==
  ASSUME NEW ok \in Nat, NEW err \in Nat, NEW h \in Nat,
         h <= err, Ledger!Fits(ok, err)
  PROVE  (h + 1) * Scale <= (ok + (err + 1)) * BudgetBP
<1>1. BudgetBP \in Nat /\ Scale \in Nat
  BY ShedBudgetAssumption
<1>2. (h + 1) * Scale <= (err + 1) * Scale
  BY <1>1, TimesMonotone, h + 1 \in Nat, err + 1 \in Nat, h + 1 <= err + 1
<1>3. (ok + err) * BudgetBP <= (ok + (err + 1)) * BudgetBP
  BY <1>1, TimesMonotone, ok + err \in Nat, ok + (err + 1) \in Nat,
     ok + err <= ok + (err + 1)
<1>4. (err + 1) * Scale <= (ok + err) * BudgetBP
  BY DEF Ledger!Fits
<1>5. /\ (h + 1) * Scale \in Nat
      /\ (err + 1) * Scale \in Nat
      /\ (ok + err) * BudgetBP \in Nat
      /\ (ok + (err + 1)) * BudgetBP \in Nat
  BY <1>1, SMT
<1> QED
  BY <1>2, <1>3, <1>4, <1>5

(* A counter that grows leaves the budget kept.                            *)
LEMMA MoreResponses ==
  ASSUME NEW h \in Nat, NEW n \in Nat, NEW m \in Nat, n <= m,
         h * Scale <= n * BudgetBP
  PROVE  h * Scale <= m * BudgetBP
<1>1. BudgetBP \in Nat /\ Scale \in Nat
  BY ShedBudgetAssumption
<1>2. n * BudgetBP <= m * BudgetBP
  BY <1>1, TimesMonotone
<1>3. h * Scale \in Nat /\ n * BudgetBP \in Nat /\ m * BudgetBP \in Nat
  BY <1>1, SMT
<1> QED
  BY <1>2, <1>3

(* A refund frees at least the share its own response took.                *)
LEMMA RefundHolds ==
  ASSUME NEW h \in Nat, NEW n \in Nat, 0 < h, 0 < n,
         h * Scale <= n * BudgetBP
  PROVE  (h - 1) * Scale <= (n - 1) * BudgetBP
<1>1. BudgetBP \in Nat /\ Scale \in Nat /\ BudgetBP <= Scale
  BY ShedBudgetAssumption
<1>2. (h - 1) * Scale = h * Scale - Scale /\ (n - 1) * BudgetBP = n * BudgetBP - BudgetBP
  BY <1>1, SMT
<1>3. h * Scale \in Nat /\ n * BudgetBP \in Nat
  BY <1>1, SMT
<1> QED
  BY <1>1, <1>2, <1>3

-----------------------------------------------------------------------------
LEMMA GrantedFinite == IsFiniteSet(Granted) /\ Cardinality(Granted) \in Nat
<1>1. IsFiniteSet(Granted)
  BY ShedBudgetAssumption, FS_Subset DEF Granted
<1> QED
  BY <1>1, FS_CardinalityType

LEMMA InitIInv == Init => IInv
<1> SUFFICES ASSUME Init PROVE IInv
  OBVIOUS
<1>1. TypeOK /\ Seen
  BY DEF Init, TypeOK, Seen, Ledger!Init
<1>2. Cardinality(Granted) = 0
  <2>1. Granted = {}
    BY DEF Init, Granted
  <2> QED
    BY <2>1, FS_EmptySet
<1>3. Standing
  BY <1>2 DEF Init, Ledger!Init, Standing
<1>4. BudgetHolds
  BY ShedBudgetAssumption, SMT DEF Init, Ledger!Init, BudgetHolds
<1> QED
  BY <1>1, <1>3, <1>4 DEF IInv

(* One step of Next, action by action.                                     *)
LEMMA NextIInv == IInv /\ [Next]_vars => IInv'
<1> SUFFICES ASSUME IInv, [Next]_vars PROVE IInv'
  OBVIOUS
<1> USE DEF IInv
<1>0. TypeOK /\ Seen /\ Standing /\ BudgetHolds
  OBVIOUS
<1>1. ASSUME NEW p \in Procs, LoadOK(p) PROVE IInv'
  <2>1. TypeOK' /\ Seen'
    BY <1>0, <1>1 DEF TypeOK, Seen, LoadOK, counters, Ledger!Fits
  <2>2. Granted' = Granted
    BY <1>0, <1>1 DEF TypeOK, LoadOK, Granted
  <2> QED
    BY <1>0, <1>1, <2>1, <2>2 DEF LoadOK, counters, Standing, BudgetHolds
<1>2. ASSUME NEW p \in Procs, LoadErr(p) PROVE IInv'
  <2>1. TypeOK'
    BY <1>0, <1>2 DEF TypeOK, LoadErr, counters
  <2>2. Seen'
    BY <1>0, <1>2 DEF TypeOK, Seen, LoadErr, counters, Ledger!Fits
  <2>3. Granted' = Granted
    BY <1>0, <1>2 DEF TypeOK, LoadErr, Granted
  <2> QED
    BY <1>0, <1>2, <2>1, <2>2, <2>3 DEF LoadErr, counters, Standing, BudgetHolds
<1>3. ASSUME NEW p \in Procs, Cas(p) PROVE IInv'
  <2>1. TypeOK' /\ Seen'
    BY <1>0, <1>3 DEF TypeOK, Seen, Cas, Ledger!Fits
  <2>2. CASE respErr = erSeen[p]
    <3>1. respErr' = respErr + 1 /\ held' = held + 1 /\ UNCHANGED respOK
      BY <1>3, <2>2 DEF Cas
    <3>2. Granted' = Granted \cup {p} /\ p \notin Granted
      BY <1>0, <1>3, <2>2 DEF TypeOK, Cas, Granted
    <3>3. Cardinality(Granted') = Cardinality(Granted) + 1
      BY <3>2, GrantedFinite, FS_AddElement
    <3>4. Standing'
      BY <1>0, <3>1, <3>3, GrantedFinite DEF TypeOK, Standing
    <3>5. Ledger!Fits(respOK, respErr)
      BY <1>0, <1>3, <2>2, FitsMonotone DEF TypeOK, Seen, Cas
    <3>6. BudgetHolds'
      BY <1>0, <3>1, <3>5, GrantHolds DEF TypeOK, Standing, BudgetHolds
    <3> QED
      BY <2>1, <3>4, <3>6
  <2>3. CASE respErr # erSeen[p]
    <3>1. Granted' = Granted
      BY <1>0, <1>3, <2>3 DEF TypeOK, Cas, Granted
    <3> QED
      BY <1>0, <1>3, <2>1, <2>3, <3>1 DEF Cas, Standing, BudgetHolds
  <2> QED
    BY <2>2, <2>3
<1>4. ASSUME NEW p \in Procs, pc[p] = "granted",
             pc' = [pc EXCEPT ![p] = "idle"]
      PROVE  /\ Cardinality(Granted') = Cardinality(Granted) - 1
             /\ Cardinality(Granted) > 0
  <2>1. Granted' = Granted \ {p} /\ p \in Granted
    BY <1>0, <1>4 DEF TypeOK, Granted
  <2>2. Cardinality(Granted') = Cardinality(Granted) - 1
    BY <2>1, GrantedFinite, FS_RemoveElement
  <2>3. Cardinality(Granted) # 0
    BY <2>1, GrantedFinite, FS_EmptySet
  <2> QED
    BY <2>2, <2>3, GrantedFinite
<1>5. ASSUME NEW p \in Procs, Spend(p) PROVE IInv'
  <2>1. TypeOK' /\ Seen'
    BY <1>0, <1>5 DEF TypeOK, Seen, Spend, counters, Ledger!Fits
  <2>2. Cardinality(Granted') = Cardinality(Granted) - 1
    BY <1>4, <1>5 DEF Spend
  <2> QED
    BY <1>0, <1>5, <2>1, <2>2, GrantedFinite DEF TypeOK, Spend, counters, Standing, BudgetHolds
<1>6. ASSUME NEW p \in Procs, GiveBack(p) PROVE IInv'
  <2>1. /\ Cardinality(Granted') = Cardinality(Granted) - 1
        /\ Cardinality(Granted) > 0
    BY <1>4, <1>6 DEF GiveBack
  <2>2. held > 0 /\ respErr > 0
    BY <1>0, <2>1, GrantedFinite DEF TypeOK, Standing
  <2>3. TypeOK' /\ Seen'
    BY <1>0, <1>6, <2>2 DEF TypeOK, Seen, GiveBack, Ledger!Fits
  <2>4. Standing'
    BY <1>0, <1>6, <2>1, GrantedFinite DEF TypeOK, Standing, GiveBack
  <2>5. BudgetHolds'
    <3>1. (held - 1) * Scale <= ((respOK + respErr) - 1) * BudgetBP
      BY <1>0, <2>2, RefundHolds DEF TypeOK, BudgetHolds
    <3>2. respOK' + respErr' = (respOK + respErr) - 1 /\ held' = held - 1
      BY <1>0, <1>6 DEF TypeOK, GiveBack
    <3> QED
      BY <3>1, <3>2 DEF BudgetHolds
  <2> QED
    BY <2>3, <2>4, <2>5
<1>7. CASE CountOK \/ CountErr
  <2>1. TypeOK' /\ Seen'
    BY <1>0, <1>7 DEF TypeOK, Seen, CountOK, CountErr, locals, Ledger!Fits
  <2>2. Granted' = Granted
    BY <1>7 DEF CountOK, CountErr, locals, Granted
  <2>3. Standing'
    BY <1>0, <1>7, <2>2 DEF TypeOK, Standing, CountOK, CountErr
  <2>4. BudgetHolds'
    <3>1. respOK' + respErr' \in Nat /\ respOK + respErr <= respOK' + respErr' /\ held' = held
      BY <1>0, <1>7 DEF TypeOK, CountOK, CountErr
    <3> QED
      BY <1>0, <3>1, MoreResponses DEF TypeOK, BudgetHolds
  <2> QED
    BY <2>1, <2>3, <2>4
<1>8. CASE UNCHANGED vars
  <2>1. Granted' = Granted
    BY <1>8 DEF vars, locals, Granted
  <2> QED
    BY <1>0, <1>8, <2>1
    DEF vars, counters, locals, TypeOK, Seen, Standing, BudgetHolds, Ledger!Fits
<1> QED
  BY <1>1, <1>2, <1>3, <1>5, <1>6, <1>7, <1>8 DEF Next

-----------------------------------------------------------------------------
(* What was checked is still worth as much at the compare-and-swap, and no *)
(* more is given back than stands, in every state.                         *)
THEOREM SpecIInv == Spec => []IInv
<1> QED
  BY InitIInv, NextIInv, PTL DEF Spec

(* The counters of the governor and its goroutines' locals have their      *)
(* types in every reachable state; in particular no refund takes respErr   *)
(* below zero.                                                             *)
THEOREM TypeCorrect == Spec => []TypeOK
<1>1. IInv => TypeOK
  BY DEF IInv
<1> QED
  BY SpecIInv, <1>1, PTL

(* The sheds that stand never exceed the budget, for any number of         *)
(* goroutines in shedReserveError.                                         *)
THEOREM BudgetAlwaysHolds == Spec => []BudgetHolds
<1>1. IInv => BudgetHolds
  BY DEF IInv
<1> QED
  BY SpecIInv, <1>1, PTL

(* The loop of atomic loads and compare-and-swaps implements the abstract  *)
(* ledger, in which check and charge are one step.                         *)
THEOREM LoopImplementsLedger == Spec => ImplementsLedger
<1>1. Init => Ledger!Init
  BY DEF Init
<1>2. IInv /\ [Next]_vars => [Ledger!Next]_(Ledger!ledger)
  <2> SUFFICES ASSUME IInv, [Next]_vars PROVE [Ledger!Next]_(Ledger!ledger)
    OBVIOUS
  <2> USE DEF Ledger!ledger, Ledger!Next
  <2>0. TypeOK /\ Seen /\ Standing
    BY DEF IInv
  <2>1. ASSUME NEW p \in Procs, LoadOK(p) \/ LoadErr(p) \/ Spend(p)
        PROVE  UNCHANGED Ledger!ledger
    BY <2>1 DEF LoadOK, LoadErr, Spend, counters
  <2>2. ASSUME NEW p \in Procs, Cas(p) PROVE [Ledger!Next]_(Ledger!ledger)
    <3>1. CASE respErr = erSeen[p]
      <4>1. Ledger!Fits(respOK, respErr)
        BY <2>0, <2>2, <3>1, FitsMonotone DEF TypeOK, Seen, Cas
      <4>2. Ledger!Reserve
        BY <2>2, <3>1, <4>1 DEF Cas, Ledger!Reserve
      <4> QED
        BY <4>2
    <3>2. CASE respErr # erSeen[p]
      BY <2>2, <3>2 DEF Cas
    <3> QED
      BY <3>1, <3>2
  <2>3. ASSUME NEW p \in Procs, GiveBack(p) PROVE Ledger!Refund
    <3>1. Granted # {}
      BY <2>3 DEF GiveBack, Granted
    <3>2. Cardinality(Granted) # 0
      BY <3>1, GrantedFinite, FS_EmptySet
    <3>3. held > 0
      BY <2>0, <3>2, GrantedFinite DEF TypeOK, Standing
    <3> QED
      BY <2>3, <3>3 DEF GiveBack, Ledger!Refund
  <2>4. CASE CountOK
    BY <2>4 DEF CountOK, Ledger!CountOK
  <2>5. CASE CountErr
    BY <2>0, <2>5 DEF TypeOK, CountErr, Ledger!Charge
  <2>6. CASE UNCHANGED vars
    BY <2>6 DEF vars, counters
  <2> QED
    BY <2>1, <2>2, <2>3, <2>4, <2>5, <2>6 DEF Next
<1> QED
  BY <1>1, <1>2, SpecIInv, PTL DEF Spec, ImplementsLedger, Ledger!Spec

-----------------------------------------------------------------------------
(* No setting of RISK_SHED_BUDGET_BP or RISK_ERR_GATE_BP takes the shed    *)
(* budget above 95% of the error gate.                                     *)
THEOREM BudgetAlwaysBelowGate ==
  ASSUME NEW gate \in Int, NEW env \in Int
  PROVE  BudgetBelowGate(gate, env)
<1>1. gateBP(gate) \in 10 .. 1000
  BY DEF gateBP
<1> QED
  BY <1>1 DEF BudgetBelowGate, riskShedBudgetBP

LEMMA BudgetNat == BudgetBP \in Nat
BY ShedBudgetAssumption

(* The budget that main derives composed with the governor: whatever       *)
(* RISK_ERR_GATE_BP and RISK_SHED_BUDGET_BP say, the sheds that stand stay *)
(* below 95% of the graded error gate.                                     *)
GateHolds(gate) == held * 1000000 <= (respOK + respErr) * (95 * gateBP(gate))

THEOREM GateNeverCrossed ==
  ASSUME NEW gate \in Int, NEW env \in Int,
         Scale = 10000, BudgetBP = riskShedBudgetBP(gate, env)
  PROVE  Spec => []GateHolds(gate)
<1>1. ASSUME TypeOK, BudgetHolds
      PROVE  GateHolds(gate)
  <2> DEFINE total == respOK + respErr
             gateShare == 95 * gateBP(gate)
  <2>1. total \in Nat /\ held \in Nat /\ BudgetBP \in Nat /\ gateShare \in Nat
    <3>1. gateBP(gate) \in 10 .. 1000
      BY DEF gateBP
    <3>2. BudgetBP \in Nat
      BY BudgetNat
    <3> QED
      BY <1>1, <3>1, <3>2 DEF TypeOK
  <2>2. 100 * BudgetBP <= gateShare
    BY BudgetAlwaysBelowGate DEF BudgetBelowGate
  <2>3. held * 10000 <= total * BudgetBP
    BY <1>1 DEF BudgetHolds
  <2> HIDE DEF total, gateShare
  <2>4. (100 * BudgetBP) * total <= gateShare * total
    BY <2>1, <2>2, TimesMonotone, 100 * BudgetBP \in Nat
  <2>5. (100 * BudgetBP) * total = 100 * (total * BudgetBP)
        /\ gateShare * total = total * gateShare /\ total * BudgetBP \in Nat
    BY <2>1
  <2>6. held * 1000000 <= total * gateShare
    BY <2>1, <2>3, <2>4, <2>5
  <2> QED
    BY <2>6 DEF GateHolds, total, gateShare
<1> QED
  BY <1>1, TypeCorrect, BudgetAlwaysHolds, PTL

=============================================================================
