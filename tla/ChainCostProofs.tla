--------------------------- MODULE ChainCostProofs ---------------------------
(***************************************************************************)
(* What the chain-cost estimate promises for any number of slots, any      *)
(* clamps and any costs, and the number of slots that main derives.        *)
(***************************************************************************)
EXTENDS ChainCost, TLAPS

-----------------------------------------------------------------------------
(* The slots of a box.                                                     *)

LEMMA DivBounds ==
  ASSUME NEW n \in Nat, NEW d \in Nat \ {0}
  PROVE  /\ n \div d \in Nat
         /\ d * (n \div d) <= n
         /\ n < d * (n \div d) + d
OBVIOUS

(* Whatever the cgroup files say, the budget is a fraction.                *)
LEMMA BudgetIsFraction ==
  ASSUME NEW v2 \in Files, NEW v1 \in Files
  PROVE  \E q \in Nat, p \in Nat \ {0} :
           cgroupCPUBudget(v2, v1) = [quota |-> q, period |-> p]
<1> DEFINE f == IF v2.read THEN v2 ELSE v1
<1>1. f \in Files /\ f.quota \in Int /\ f.period \in Nat
  BY DEF Files
<1>2. cgroupCPUBudget(v2, v1) =
        IF HasQuota(f) THEN [quota |-> f.quota, period |-> f.period] ELSE NoBudget
  BY DEF cgroupCPUBudget
<1> HIDE DEF f
<1>3. CASE HasQuota(f)
  <2>1. f.quota \in Nat /\ f.period \in Nat \ {0}
    BY <1>1, <1>3 DEF HasQuota
  <2> QED
    BY <2>1, <1>2, <1>3
<1>4. CASE ~HasQuota(f)
  BY <1>2, <1>4 DEF NoBudget
<1> QED
  BY <1>3, <1>4

(* The rounding of one fraction.                                           *)
LEMMA FractionFollowed ==
  ASSUME NEW q \in Nat, NEW p \in Nat \ {0}, NEW env \in Int
  PROVE  SlotsFollow([quota |-> q, period |-> p], env)
<1> DEFINE b == [quota |-> q, period |-> p]
           n == 2 * q + p
           d == 2 * p
           s == n \div d
<1>1. b.quota = q /\ b.period = p
  OBVIOUS
<1>2. n \in Nat /\ d \in Nat \ {0}
  OBVIOUS
<1> HIDE DEF n, d
<1>3. s \in Nat /\ d * s <= n /\ n < d * s + d
  BY <1>2, DivBounds
<1>4. QuotaSlots(b) = IF 2 * q >= p THEN s ELSE 2
  BY <1>1 DEF QuotaSlots, cpuCap, n, d
<1>5. riskSlots(b, env) \in 1 .. MaxSlots
  BY <1>3, <1>4 DEF riskSlots, Clamp, MaxSlots
<1>6. ASSUME env < 1, p <= 2 * q, 2 * q < (2 * MaxSlots + 1) * p
      PROVE  /\ 2 * q <= (2 * riskSlots(b, env) + 1) * p
             /\ (2 * riskSlots(b, env) - 1) * p <= 2 * q
  <2>1. 2 * (p * s) <= 2 * q + p /\ 2 * q + p < 2 * (p * s) + 2 * p
    <3>1. d * s = 2 * (p * s)
      BY <1>3 DEF d
    <3> QED
      BY <3>1, <1>3 DEF n, d
  <2>2. s \in 1 .. 4
    <3>1. s # 0
      BY <2>1, <1>6
    <3>2. ASSUME s >= 5 PROVE FALSE
      <4>1. p * s >= p * 5
        BY <3>2, <1>3
      <4>2. 2 * q < 9 * p
        BY <1>6 DEF MaxSlots
      <4>3. p * s \in Nat
        BY <1>3
      <4> HIDE DEF s
      <4> QED
        BY <4>1, <4>2, <4>3, <2>1
    <3> QED
      BY <3>1, <3>2, <1>3
  <2>3. riskSlots(b, env) = s
    BY <2>2, <1>4, <1>6 DEF riskSlots, Clamp, MaxSlots
  <2>4. (2 * s + 1) * p = 2 * (p * s) + p /\ (2 * s - 1) * p = 2 * (p * s) - p
    BY <1>3
  <2>5. p * s \in Nat
    BY <1>3
  <2> HIDE DEF s
  <2>6. 2 * q <= (2 * s + 1) * p /\ (2 * s - 1) * p <= 2 * q
    BY <2>1, <2>4, <2>5
  <2> QED
    BY <2>3, <2>6
<1> QED
  BY <1>1, <1>5, <1>6 DEF SlotsFollow

(* Whatever the cgroup files and RISK_SLOTS say there are one to four      *)
(* slots, and unless RISK_SLOTS sets them their number is never more than  *)
(* half a CPU away from a quota of at least half a CPU that the clamp      *)
(* leaves alone.                                                           *)
THEOREM SlotsAlwaysFollow ==
  ASSUME NEW v2 \in Files, NEW v1 \in Files, NEW env \in Int
  PROVE  SlotsFollow(cgroupCPUBudget(v2, v1), env)
BY BudgetIsFraction, FractionFollowed

-----------------------------------------------------------------------------
(* The estimate.                                                           *)

Clamped(d) == Clamp(d, MinCost, MaxCost)

(* The inductive invariant: types, bounds, and that a pending sample is    *)
(* within the clamps.                                                      *)
IInv == TypeOK /\ CostBounded

-----------------------------------------------------------------------------
(* One fold lands between the average and the sample: Go's division        *)
(* truncates toward zero and overshoots at neither end.                    *)
LEMMA FoldBetween ==
  ASSUME NEW old \in Int, NEW d \in Int
  PROVE  /\ Fold(old, d) \in Int
         /\ old <= d => old <= Fold(old, d) /\ Fold(old, d) <= d
         /\ d <= old => d <= Fold(old, d) /\ Fold(old, d) <= old
<1>1. ASSUME NEW n \in Nat
      PROVE  n \div 8 \in Nat /\ n \div 8 <= n
  OBVIOUS
<1>2. CASE d >= old
  <2>1. d - old \in Nat /\ Fold(old, d) = old + (d - old) \div 8
    BY <1>2 DEF Fold, Eighth
  <2> QED
    BY <2>1, <1>1, <1>2
<1>3. CASE ~(d >= old)
  <2>1. old - d \in Nat /\ -(d - old) = old - d /\ ~(d - old >= 0)
    BY <1>3
  <2>2. Fold(old, d) = old + (-((old - d) \div 8))
    BY <2>1 DEF Fold, Eighth
  <2> QED
    BY <2>1, <2>2, <1>1, <1>3
<1> QED
  BY <1>2, <1>3

LEMMA ClampWithin ==
  ASSUME NEW d \in Nat
  PROVE  Clamped(d) \in MinCost .. MaxCost
BY ChainCostAssumption DEF Clamped, Clamp

LEMMA WindowOrder ==
  ASSUME NEW a \in Int, NEW b \in Int, a <= b
  PROVE  Window(a) \in Int /\ Window(b) <= Window(a)
BY ChainCostAssumption DEF Window

(* A fold of a clamped sample into a bounded average is bounded.           *)
LEMMA FoldInBounds ==
  ASSUME NEW old \in Int, NEW d \in MinCost .. MaxCost, seed \in Int, InBounds(old)
  PROVE  InBounds(Fold(old, d))
<1>1. MinCost \in Int /\ MaxCost \in Int /\ d \in Int /\ MinCost <= d /\ d <= MaxCost
  BY ChainCostAssumption
<1>2. /\ Fold(old, d) \in Int
      /\ old <= d => old <= Fold(old, d) /\ Fold(old, d) <= d
      /\ d <= old => d <= Fold(old, d) /\ Fold(old, d) <= old
  BY <1>1, FoldBetween
<1> QED
  BY <1>1, <1>2 DEF InBounds

LEMMA WindowInBounds ==
  ASSUME NEW avg \in Int, seed \in Int, InBounds(avg)
  PROVE  /\ Window(MaxCost) <= Window(avg) \/ Window(seed) <= Window(avg)
         /\ Window(avg) <= Window(MinCost) \/ Window(avg) <= Window(seed)
<1>1. MinCost \in Int /\ MaxCost \in Int
  BY ChainCostAssumption
<1> QED
  BY <1>1, WindowOrder DEF InBounds

-----------------------------------------------------------------------------
LEMMA InitIInv == Init => IInv
<1> SUFFICES ASSUME Init PROVE IInv
  OBVIOUS
<1>1. ewma \in Costs /\ ewma \in Nat /\ seed = ewma
  BY ChainCostAssumption DEF Init
<1>2. slots \in Slots
  <2>1. PICK box \in Boxes, e \in SlotsEnv : slots = BootSlots(box, e)
    BY DEF Init
  <2>2. box[1] \in Files /\ box[2] \in Files /\ e \in Int
    BY ChainCostAssumption
  <2>3. PICK q \in Nat, p \in Nat \ {0} :
          cgroupCPUBudget(box[1], box[2]) = [quota |-> q, period |-> p]
    BY <2>2, BudgetIsFraction
  <2> QED
    BY <2>1, <2>2, <2>3, SlotsAlwaysFollow DEF BootSlots, SlotsFollow, Slots
<1>3. patience = Window(ewma) /\ patience \in Int
  BY <1>1, WindowOrder DEF Init
<1>4. TypeOK
  <2>1. MinCost \in MinCost .. MaxCost /\ 0 \in 0 .. MaxLanes
    BY ChainCostAssumption
  <2>2. /\ pc \in [Slots -> {"hash", "load", "store", "window"}]
        /\ cost \in [Slots -> MinCost .. MaxCost]
        /\ left \in [Slots -> 0 .. MaxLanes]
        /\ mine \in [Slots -> Int]
        /\ calm \in BOOLEAN
    <3>1. ewma \in Int
      BY <1>1
    <3> QED
      BY <2>1, <3>1 DEF Init
  <2>3. \A w \in Slots : left[w] = 0 <=> pc[w] = "hash"
    BY DEF Init
  <2> QED
    BY <2>2, <2>3, <1>1, <1>2, <1>3 DEF TypeOK
<1>5. CostBounded
  BY <1>1, <1>3, WindowInBounds DEF Init, CostBounded, InBounds
<1> QED
  BY <1>4, <1>5 DEF IInv

LEMMA NextIInv == IInv /\ [Next]_vars => IInv'
<1> SUFFICES ASSUME IInv, [Next]_vars PROVE IInv'
  OBVIOUS
<1> USE DEF IInv
<1>0. seed \in Int /\ \A w \in Slots : cost[w] \in MinCost .. MaxCost /\ mine[w] \in Int
  BY ChainCostAssumption DEF TypeOK
<1>1. ASSUME NEW w \in 1 .. slots, Finish(w)
      PROVE  IInv'
  <2>1. w \in Slots
    BY <1>1 DEF TypeOK, Slots, MaxSlots
  <2>2. PICK d \in Nat : cost' = [cost EXCEPT ![w] = Clamped(d)]
    BY <1>1, ChainCostAssumption DEF Finish, Clamped
  <2>3. TypeOK'
    <3>1. cost' \in [Slots -> MinCost .. MaxCost]
      BY <2>1, <2>2, ClampWithin DEF TypeOK
    <3>2. PICK n \in 1 .. MaxLanes : left' = [left EXCEPT ![w] = n]
      BY <1>1 DEF Finish
    <3>3. n \in 0 .. MaxLanes /\ n # 0
      BY <3>2, ChainCostAssumption
    <3>4. pc' = [pc EXCEPT ![w] = "load"]
      BY <1>1 DEF Finish
    <3>5. /\ left' \in [Slots -> 0 .. MaxLanes]
          /\ pc' \in [Slots -> {"hash", "load", "store", "window"}]
          /\ \A v \in Slots : left'[v] = 0 <=> pc'[v] = "hash"
      BY <2>1, <3>2, <3>3, <3>4 DEF TypeOK
    <3> QED
      BY <3>1, <3>5, <1>1 DEF Finish, TypeOK
  <2>4. CostBounded'
    BY <1>1 DEF Finish, CostBounded, InBounds
  <2> QED
    BY <2>3, <2>4
<1>2. ASSUME NEW w \in 1 .. slots, Load(w)
      PROVE  IInv'
  <2>1. w \in Slots
    BY <1>2 DEF TypeOK, Slots, MaxSlots
  <2>2. Fold(ewma, cost[w]) \in Int /\ InBounds(Fold(ewma, cost[w]))
    BY <2>1, <1>0, FoldBetween, FoldInBounds DEF TypeOK, CostBounded
  <2>3. TypeOK'
    BY <2>1, <2>2, <1>2 DEF Load, TypeOK
  <2>4. CostBounded'
    BY <2>1, <2>2, <1>2 DEF Load, CostBounded, InBounds, TypeOK
  <2> QED
    BY <2>3, <2>4
<1>3. ASSUME NEW w \in 1 .. slots, Store(w)
      PROVE  IInv'
  <2>1. w \in Slots
    BY <1>3 DEF TypeOK, Slots, MaxSlots
  <2>3. TypeOK'
    BY <2>1, <1>3 DEF Store, TypeOK
  <2>4. CostBounded'
    BY <2>1, <1>3 DEF Store, CostBounded, InBounds
  <2> QED
    BY <2>3, <2>4
<1>4. ASSUME NEW w \in 1 .. slots, StoreWindow(w)
      PROVE  IInv'
  <2>1. w \in Slots
    BY <1>4 DEF TypeOK, Slots, MaxSlots
  <2>2. Window(mine[w]) \in Int
    BY <2>1, <1>0, WindowOrder
  <2>3. TypeOK'
    <3>1. left[w] \in 1 .. MaxLanes /\ left[w] - 1 \in 0 .. MaxLanes
      BY <2>1, <1>4, ChainCostAssumption DEF StoreWindow, TypeOK
    <3>2. left' \in [Slots -> 0 .. MaxLanes]
      BY <3>1, <1>4 DEF StoreWindow, TypeOK
    <3>3. \A v \in Slots : left'[v] = 0 <=> pc'[v] = "hash"
      BY <3>1, <2>1, <1>4 DEF StoreWindow, TypeOK
    <3> QED
      BY <2>1, <2>2, <3>2, <3>3, <1>4 DEF StoreWindow, TypeOK
  <2>4. CostBounded'
    BY <2>1, <1>0, <1>4, WindowInBounds DEF StoreWindow, CostBounded, InBounds
  <2> QED
    BY <2>3, <2>4
<1>5. CASE CalmDown
  BY <1>5 DEF CalmDown, TypeOK, CostBounded, InBounds
<1>6. CASE UNCHANGED vars
  BY <1>6 DEF vars, TypeOK, CostBounded, InBounds
<1> QED
  BY <1>1, <1>2, <1>3, <1>4, <1>5, <1>6 DEF Next, riskWorker

(* Types, bounds, and pending samples within the clamps, in every state.   *)
THEOREM SpecIInv == Spec => []IInv
BY InitIInv, NextIInv, PTL DEF Spec

(* The types of the estimate and of the workers' locals.                   *)
THEOREM TypeCorrect == Spec => []TypeOK
<1>1. IInv => TypeOK
  BY DEF IInv
<1> QED
  BY <1>1, SpecIInv, PTL

(* However loads and stores interleave, average and window stay within the *)
(* clamps or between them and the seed.                                    *)
THEOREM CostAlwaysBounded == Spec => []CostBounded
<1>1. IInv => CostBounded
  BY DEF IInv
<1> QED
  BY <1>1, SpecIInv, PTL

-----------------------------------------------------------------------------
(* A fold is no farther from the calm cost than the farther one of what it *)
(* folds.                                                                  *)
LEMMA FoldNoFarther ==
  ASSUME NEW old \in Int, NEW d \in Int
  PROVE  Dist(Fold(old, d)) <= Dist(old) \/ Dist(Fold(old, d)) <= Dist(d)
<1>1. Clamped(Steady) \in Int
  BY ChainCostAssumption DEF Clamped, Clamp
<1>2. \A x \in Int : Dist(x) = IF x < Clamped(Steady) THEN Clamped(Steady) - x
                                 ELSE x - Clamped(Steady)
  BY DEF Dist, Clamped
<1>3. /\ Fold(old, d) \in Int
      /\ old <= d => old <= Fold(old, d) /\ Fold(old, d) <= d
      /\ d <= old => d <= Fold(old, d) /\ Fold(old, d) <= old
  BY FoldBetween
<1> QED
  BY <1>1, <1>2, <1>3

LEMMA DistNat ==
  ASSUME NEW x \in Int
  PROVE  Dist(x) \in Nat /\ Dist(Clamped(Steady)) <= Dist(x)
<1>1. Clamped(Steady) \in Int
  BY ChainCostAssumption DEF Clamped, Clamp
<1> QED
  BY <1>1 DEF Dist, Clamped

(* What a step of a calm machine makes the average, or leaves about to     *)
(* become it, was there before, is the calm cost, or is folded from both.  *)
LEMMA CalmStep ==
  ASSUME IInv, [Next]_vars, calm
  PROVE  \A e \in Estimates' : \E f \in Estimates : Dist(e) <= Dist(f)
<1> DEFINE Covered == \A e \in Estimates' : \E f \in Estimates : Dist(e) <= Dist(f)
<1>1. /\ Estimates \subseteq Int
      /\ \A w \in Slots : cost[w] \in Int /\ mine[w] \in Int
  BY ChainCostAssumption DEF IInv, TypeOK, Estimates
<1>2. /\ ewma \in Estimates
      /\ \A w \in Slots : pc[w] = "store" => mine[w] \in Estimates
      /\ \A w \in Slots : left[w] > 0 => cost[w] \in Estimates
  BY DEF Estimates
<1>3. \A e \in Estimates : Dist(e) <= Dist(e)
  BY <1>1, DistNat
<1>4. \A w \in 1 .. slots : w \in Slots
  BY DEF IInv, TypeOK, Slots, MaxSlots
<1>5. ASSUME NEW w \in 1 .. slots, Finish(w)
      PROVE  Covered
  <2>1. w \in Slots
    BY <1>4
  <2>2. cost' = [cost EXCEPT ![w] = Clamped(Steady)]
    BY <1>5 DEF Finish, Clamped
  <2>3. \A v \in Slots : v # w => left'[v] = left[v]
    BY <1>5 DEF Finish
  <2>4. \A v \in Slots : v # w => cost'[v] = cost[v]
    BY <2>2
  <2>5. \A v \in Slots : pc'[v] = "store" => pc[v] = "store"
    BY <1>5 DEF Finish, IInv, TypeOK
  <2>6. cost'[w] = Clamped(Steady)
    BY <2>1, <2>2 DEF IInv, TypeOK
  <2>7. \A e \in Estimates' : e \in Estimates \/ e = Clamped(Steady)
    BY <2>3, <2>4, <2>5, <2>6, <1>5 DEF Finish, Estimates
  <2>8. Dist(Clamped(Steady)) <= Dist(ewma)
    BY <1>1, <1>2, DistNat
  <2> QED
    BY <2>7, <2>8, <1>2, <1>3
<1>6. ASSUME NEW w \in 1 .. slots, Load(w)
      PROVE  Covered
  <2>1. w \in Slots /\ left[w] > 0
    BY <1>4, <1>6 DEF Load, IInv, TypeOK
  <2>2. /\ \A v \in Slots : v # w => mine'[v] = mine[v] /\ pc'[v] = pc[v]
        /\ mine'[w] = Fold(ewma, cost[w])
        /\ ewma' = ewma /\ cost' = cost /\ left' = left
    BY <2>1, <1>6 DEF Load, IInv, TypeOK
  <2>3. \A e \in Estimates' : e \in Estimates \/ e = Fold(ewma, cost[w])
    BY <2>2 DEF Estimates
  <2>4. \/ Dist(Fold(ewma, cost[w])) <= Dist(ewma)
        \/ Dist(Fold(ewma, cost[w])) <= Dist(cost[w])
    BY <1>1, <1>2, <2>1, FoldNoFarther
  <2> QED
    BY <2>1, <2>3, <2>4, <1>2, <1>3
<1>7. ASSUME NEW w \in 1 .. slots, Store(w)
      PROVE  Covered
  <2>1. w \in Slots
    BY <1>4
  <2>2. \A v \in Slots : pc'[v] = "store" => pc[v] = "store"
    BY <1>7 DEF Store, IInv, TypeOK
  <2>3. ewma' \in Estimates
    BY <2>1, <1>2, <1>7 DEF Store
  <2>4. Estimates' \subseteq Estimates
    BY <2>2, <2>3, <1>7 DEF Store, Estimates
  <2> QED
    BY <2>4, <1>3
<1>8. ASSUME NEW w \in 1 .. slots, StoreWindow(w)
      PROVE  Covered
  <2>1. w \in Slots
    BY <1>4
  <2>2. \A v \in Slots : pc'[v] = "store" => pc[v] = "store"
    BY <1>8 DEF StoreWindow, IInv, TypeOK
  <2>3. left[w] > 0
    BY <2>1, <1>8 DEF StoreWindow, IInv, TypeOK
  <2>4. \A v \in Slots : left'[v] > 0 => left[v] > 0
    BY <2>1, <2>3, <1>8 DEF StoreWindow, IInv, TypeOK
  <2>5. Estimates' \subseteq Estimates
    BY <2>2, <2>4, <1>8 DEF StoreWindow, Estimates
  <2> QED
    BY <2>5, <1>3
<1>9. CASE UNCHANGED vars
  <2>1. Estimates' = Estimates
    BY <1>9 DEF vars, Estimates
  <2> QED
    BY <2>1, <1>3
<1> QED
  BY <1>5, <1>6, <1>7, <1>8, <1>9 DEF Next, riskWorker, CalmDown

(* Once the machine is calm, no interleaving of loads, stores and lost     *)
(* samples takes the estimate farther away from what chains cost.          *)
THEOREM CalmIsNeverWorse == Spec => NeverWorse
<1>1. IInv /\ [Next]_vars =>
        [calm => \A e \in Estimates' : \E f \in Estimates : Dist(e) <= Dist(f)]_vars
  BY CalmStep
<1> QED
  BY <1>1, SpecIInv, PTL DEF Spec, NeverWorse

-----------------------------------------------------------------------------
(* The parts of Recovers that need no fairness.                            *)

(* Everything that is or may still become the average, or the window, lies *)
(* within what the truncating division drops.                              *)
Settled ==
  /\ calm
  /\ \A e \in Estimates : Dist(e) < 8
  /\ \A w \in Slots : pc[w] = "window" => Dist(mine[w]) < 8
  /\ patience - Window(Clamped(Steady)) \in -7 .. 7

(* From eight or more away, a fold of a calm sample comes strictly nearer: *)
(* the truncating division cannot swallow the whole step.                  *)
FoldsApproach(w) ==
  calm /\ Load(w) /\ cost[w] = Clamped(Steady) /\ Dist(ewma) >= 8
    => Dist(mine'[w]) < Dist(ewma)

LEMMA FoldCloser ==
  ASSUME NEW old \in Int, Dist(old) >= 8
  PROVE  Dist(Fold(old, Clamped(Steady))) < Dist(old)
<1> DEFINE c == Clamped(Steady)
<1>1. c \in Int
  BY ChainCostAssumption DEF Clamped, Clamp
<1>2. \A x \in Int : Dist(x) = IF x < c THEN c - x ELSE x - c
  BY DEF Dist, Clamped
<1>3. ASSUME NEW n \in Nat, n >= 8
      PROVE  n \div 8 \in 1 .. n
  BY <1>3
<1> HIDE DEF c
<1>4. CASE c >= old
  <2>1. c - old \in Nat /\ c - old >= 8 /\ Fold(old, c) = old + (c - old) \div 8
    BY <1>1, <1>2, <1>4 DEF Fold, Eighth
  <2>2. (c - old) \div 8 \in 1 .. (c - old)
    BY <2>1, <1>3
  <2> QED
    BY <2>1, <2>2, <1>1, <1>2, <1>4 DEF c
<1>5. CASE ~(c >= old)
  <2>1. old - c \in Nat /\ old - c >= 8 /\ -(c - old) = old - c /\ ~(c - old >= 0)
    BY <1>1, <1>2, <1>5
  <2>2. Fold(old, c) = old + (-((old - c) \div 8))
    BY <2>1 DEF Fold, Eighth
  <2>3. (old - c) \div 8 \in 1 .. (old - c)
    BY <2>1, <1>3
  <2> QED
    BY <2>1, <2>2, <2>3, <1>1, <1>2, <1>5 DEF c
<1> QED
  BY <1>4, <1>5

(* The window is as far from the calm one as its average is at most.       *)
LEMMA WindowNear ==
  ASSUME NEW a \in Int, Dist(a) < 8
  PROVE  Window(a) - Window(Clamped(Steady)) \in -7 .. 7
<1>1. Clamped(Steady) \in Int
  BY ChainCostAssumption DEF Clamped, Clamp
<1>2. a - Clamped(Steady) \in -7 .. 7
  BY <1>1 DEF Dist, Clamped
<1> QED
  BY <1>1, <1>2, ChainCostAssumption DEF Window

LEMMA SettledStays ==
  ASSUME IInv, IInv', [Next]_vars, Settled
  PROVE  Settled'
<1>1. \A w \in 1 .. slots : w \in Slots
  BY DEF IInv, TypeOK, Slots, MaxSlots
<1>2. \A w \in Slots : mine[w] \in Int
  BY DEF IInv, TypeOK
<1>3. calm'
  BY DEF Settled, Next, riskWorker, CalmDown, Finish, Load, Store, StoreWindow, vars
<1>4. \A e \in Estimates' : Dist(e) < 8
  <2>1. Estimates \subseteq Int /\ Estimates' \subseteq Int
    BY ChainCostAssumption DEF IInv, TypeOK, Estimates
  <2>2. \A e \in Estimates' : \E f \in Estimates : Dist(e) <= Dist(f)
    BY CalmStep DEF Settled
  <2>3. TAKE e \in Estimates'
  <2>4. PICK f \in Estimates : Dist(e) <= Dist(f)
    BY <2>2
  <2>5. Dist(e) \in Nat /\ Dist(f) \in Nat /\ Dist(f) < 8
    BY <2>1, DistNat DEF Settled
  <2> QED
    BY <2>4, <2>5
<1>5. \A w \in Slots : pc'[w] = "window" => Dist(mine'[w]) < 8
  <2>1. ASSUME NEW v \in 1 .. slots, Store(v)
        PROVE  \A w \in Slots : pc'[w] = "window" => Dist(mine'[w]) < 8
    <3>1. v \in Slots /\ mine[v] \in Estimates /\ mine' = mine
      BY <1>1, <2>1 DEF Store, Estimates
    <3>2. \A w \in Slots : pc'[w] = "window" => pc[w] = "window" \/ w = v
      BY <3>1, <2>1 DEF Store, IInv, TypeOK
    <3> QED
      BY <3>1, <3>2 DEF Settled
  <2>2. ASSUME NEW v \in 1 .. slots, Finish(v) \/ Load(v) \/ StoreWindow(v)
        PROVE  \A w \in Slots : pc'[w] = "window" => Dist(mine'[w]) < 8
    <3>1. v \in Slots
      BY <1>1
    <3>2. \A w \in Slots : pc'[w] = "window" => pc[w] = "window" /\ w # v
      BY <3>1, <2>2 DEF Finish, Load, StoreWindow, IInv, TypeOK
    <3>3. \A w \in Slots : w # v => mine'[w] = mine[w]
      BY <2>2 DEF Finish, Load, StoreWindow, IInv, TypeOK
    <3> QED
      BY <3>2, <3>3 DEF Settled
  <2> QED
    BY <2>1, <2>2 DEF Next, riskWorker, CalmDown, vars, Settled
<1>6. patience' - Window(Clamped(Steady)) \in -7 .. 7
  <2>1. ASSUME NEW v \in 1 .. slots, StoreWindow(v)
        PROVE  patience' - Window(Clamped(Steady)) \in -7 .. 7
    <3>1. v \in Slots /\ mine[v] \in Int /\ Dist(mine[v]) < 8
      BY <1>1, <1>2, <2>1 DEF StoreWindow, Settled
    <3> QED
      BY <3>1, <2>1, WindowNear DEF StoreWindow
  <2>2. CASE UNCHANGED patience
    BY <2>2 DEF Settled
  <2> QED
    BY <2>1, <2>2 DEF Next, riskWorker, CalmDown, Finish, Load, Store, vars
<1> QED
  BY <1>3, <1>4, <1>5, <1>6 DEF Settled

(* "The EWMA recovers on its own either way", but for fairness: on a calm  *)
(* machine every fold from farther away comes strictly nearer, and once    *)
(* average, window and what is on its way into them are near they stay.    *)
THEOREM NearIsKept ==
  Spec => [][(\A w \in Slots : FoldsApproach(w)) /\ (Settled => Settled' /\ Near')]_vars
<1>1. Settled' => Near'
  <2>1. ewma' \in Estimates'
    BY DEF Estimates
  <2> QED
    BY <2>1 DEF Settled, Near, Clamped
<1>2. ASSUME IInv, NEW w \in Slots
      PROVE  FoldsApproach(w)
  <2>1. SUFFICES ASSUME Load(w), cost[w] = Clamped(Steady), Dist(ewma) >= 8
                 PROVE  Dist(mine'[w]) < Dist(ewma)
    BY DEF FoldsApproach
  <2>2. mine'[w] = Fold(ewma, Clamped(Steady)) /\ ewma \in Int
    BY <1>2, <2>1 DEF Load, IInv, TypeOK
  <2> QED
    BY <2>1, <2>2, FoldCloser
<1>3. IInv /\ IInv' /\ [Next]_vars =>
        [(\A w \in Slots : FoldsApproach(w)) /\ (Settled => Settled' /\ Near')]_vars
  BY <1>1, <1>2, SettledStays
<1> QED
  BY <1>3, SpecIInv, PTL DEF Spec

=============================================================================
