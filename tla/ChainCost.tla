------------------------------ MODULE ChainCost ------------------------------
(***************************************************************************)
(* The running estimate of a chain's wall time and the patience window     *)
(* derived from it (observeChainCost in app/main.go).  Hash workers fold   *)
(* the time of every chain they complete into a shared average by separate *)
(* atomic loads and stores, without a lock or a compare-and-swap, and then *)
(* store the window that belongs to the value they have just computed.     *)
(*                                                                         *)
(* The seed comes from the contended rounds of calibrateRisk.  Traffic and *)
(* machine are the environment: a chain takes any of Costs until the       *)
(* machine calms down, and Steady from then on.                            *)
(***************************************************************************)
EXTENDS BootConfig, FiniteSets

CONSTANTS
  Boxes,      \* cgroup files of the containers it may run in, v2 and v1
  SlotsEnv,   \* settings of RISK_SLOTS
  MaxRun,     \* bound: no more slots than this are run
  Costs,      \* wall times of chains
  Steady,     \* the wall time of every chain on a calm machine
  MinCost, MaxCost,  \* clamps of a sample (1 ms and 500 ms)
  Allowance,  \* riskLatencyBudget - riskSafetyMargin (1200 ms)
  Floor,      \* the shortest window (100 ms)
  MaxLanes    \* the most chains of a batch (16)

BootSlots(box, env) == riskSlots(cgroupCPUBudget(box[1], box[2]), env)

ASSUME ChainCostAssumption ==
  /\ Boxes \subseteq Files \X Files
  /\ SlotsEnv \subseteq Int
  /\ MaxRun \in Nat
  /\ \E box \in Boxes, e \in SlotsEnv : BootSlots(box, e) <= MaxRun
  /\ Costs \subseteq Nat
  /\ Costs # {}
  /\ Steady \in Nat
  /\ MinCost \in Nat
  /\ MaxCost \in Nat
  /\ MinCost <= MaxCost
  /\ Allowance \in Nat
  /\ Floor \in Nat
  /\ MaxLanes \in Nat \ {0}

VARIABLES
  slots,     \* riskSlots
  ewma,      \* riskChainEWMANs
  patience,  \* riskPatienceNs
  pc, cost, left, mine,  \* per worker: where it is, the clamped time of the
             \* batch it completed, how often it still has to fold it in, and
             \* the average it has computed
  seed,      \* history: the average calibrateRisk left
  calm       \* history: every chain that ends from now on takes Steady

vars == <<slots, ewma, patience, pc, cost, left, mine, seed, calm>>

Slots == 1 .. MaxSlots

(* d / 8 of Go, which truncates toward zero.                               *)
Eighth(d) == IF d >= 0 THEN d \div 8 ELSE -((-d) \div 8)

(* Mutants: a sample far from the average is thrown away; the two weights  *)
(* are divided apart and one of them is rounded up.                        *)
FoldUnlessFreak(old, d) ==
  IF d - old \in -10 .. 10 THEN old + Eighth(d - old) ELSE old

FoldRoundingUp(old, d) == old - Eighth(old) + Eighth(d + 7)

Fold(old, d) == old + Eighth(d - old)

Window(avg) == IF Allowance - avg < Floor THEN Floor ELSE Allowance - avg

(* contended[len / 2] of the sorted samples: the upper of the two middle   *)
(* ones, of two rounds of as many chains as there are slots.               *)
IsUpperMedian(c, s, n) ==
  /\ Cardinality({i \in DOMAIN s : s[i] < c}) <= n
  /\ Cardinality({i \in DOMAIN s : s[i] <= c}) > n

Init ==
  /\ \E box \in Boxes, e \in SlotsEnv : slots = BootSlots(box, e) /\ slots <= MaxRun
  /\ \E s \in [1 .. 2 * slots -> Costs] :
       ewma \in {c \in Costs : IsUpperMedian(c, s, slots)}
  /\ patience = Window(ewma)
  /\ pc = [w \in Slots |-> "hash"]
  /\ cost = [w \in Slots |-> MinCost]
  /\ left = [w \in Slots |-> 0]
  /\ mine = [w \in Slots |-> ewma]
  /\ seed = ewma
  /\ calm = FALSE

TypeOK ==
  /\ slots \in Slots
  /\ ewma \in Int
  /\ patience \in Int
  /\ pc \in [Slots -> {"hash", "load", "store", "window"}]
  /\ cost \in [Slots -> MinCost .. MaxCost]
  /\ left \in [Slots -> 0 .. MaxLanes]
  /\ mine \in [Slots -> Int]
  /\ seed \in Costs
  /\ calm \in BOOLEAN
  /\ \A w \in Slots : left[w] = 0 <=> pc[w] = "hash"

-----------------------------------------------------------------------------
(* A batch of n chains ends; its time is folded in once for each.          *)
Finish(w) ==
  /\ pc[w] = "hash"
  /\ \E d \in IF calm THEN {Steady} ELSE Costs :
       cost' = [cost EXCEPT ![w] = Clamp(d, MinCost, MaxCost)]
  /\ \E n \in 1 .. MaxLanes : left' = [left EXCEPT ![w] = n]
  /\ pc' = [pc EXCEPT ![w] = "load"]
  /\ UNCHANGED <<slots, ewma, patience, mine, seed, calm>>

(* Mutant: the worker folds into the average it computed last.             *)
LoadOwn(w) ==
  /\ pc[w] = "load"
  /\ mine' = [mine EXCEPT ![w] = Fold(mine[w], cost[w])]
  /\ pc' = [pc EXCEPT ![w] = "store"]
  /\ UNCHANGED <<slots, ewma, patience, cost, left, seed, calm>>

Load(w) ==
  /\ pc[w] = "load"
  /\ mine' = [mine EXCEPT ![w] = Fold(ewma, cost[w])]
  /\ pc' = [pc EXCEPT ![w] = "store"]
  /\ UNCHANGED <<slots, ewma, patience, cost, left, seed, calm>>

Store(w) ==
  /\ pc[w] = "store"
  /\ ewma' = mine[w]
  /\ pc' = [pc EXCEPT ![w] = "window"]
  /\ UNCHANGED <<slots, patience, cost, left, mine, seed, calm>>

(* Mutant: one time too many.                                              *)
StoreWindowOnceMore(w) ==
  /\ pc[w] = "window"
  /\ patience' = Window(mine[w])
  /\ left' = [left EXCEPT ![w] = @ - 1]
  /\ pc' = [pc EXCEPT ![w] = IF left[w] >= 1 THEN "load" ELSE "hash"]
  /\ UNCHANGED <<slots, ewma, cost, mine, seed, calm>>

StoreWindow(w) ==
  /\ pc[w] = "window"
  /\ patience' = Window(mine[w])
  /\ left' = [left EXCEPT ![w] = @ - 1]
  /\ pc' = [pc EXCEPT ![w] = IF left[w] > 1 THEN "load" ELSE "hash"]
  /\ UNCHANGED <<slots, ewma, cost, mine, seed, calm>>

CalmDown ==
  /\ ~calm
  /\ calm' = TRUE
  /\ UNCHANGED <<slots, ewma, patience, pc, cost, left, mine, seed>>

riskWorker(w) == Finish(w) \/ Load(w) \/ Store(w) \/ StoreWindow(w)

Next == CalmDown \/ \E w \in 1 .. slots : riskWorker(w)

Spec == Init /\ [][Next]_vars

(* Traffic goes on: every worker keeps completing chains.                  *)
FairSpec == Spec /\ \A w \in Slots : WF_vars(w <= slots /\ riskWorker(w))

-----------------------------------------------------------------------------
(* Values that are or may still become the average, or pull it.            *)
Estimates ==
  {ewma} \cup {mine[w] : w \in {v \in Slots : pc[v] = "store"}}
         \cup {cost[w] : w \in {v \in Slots : left[v] > 0}}

Dist(x) == IF x < Clamp(Steady, MinCost, MaxCost)
             THEN Clamp(Steady, MinCost, MaxCost) - x
             ELSE x - Clamp(Steady, MinCost, MaxCost)

(* Lost samples, stale loads and overtaking stores never push the average  *)
(* outside the clamps, except for a seed that was outside: the truncating  *)
(* division overshoots at neither end, and the window follows within the   *)
(* bounds that belong to them.                                             *)
InBounds(x) ==
  /\ MinCost <= x \/ seed <= x
  /\ x <= MaxCost \/ x <= seed

CostBounded ==
  /\ InBounds(ewma)
  /\ \A w \in Slots : InBounds(mine[w])
  /\ Window(MaxCost) <= patience \/ Window(seed) <= patience
  /\ patience <= Window(MinCost) \/ patience <= Window(seed)

(* Once the machine is calm, no interleaving of the workers takes the      *)
(* estimate away from what chains cost again: whatever a step makes the    *)
(* average, or leaves about to become it, is no farther from the cost of a *)
(* chain than something was before.                                        *)
NeverWorse ==
  [][calm => \A e \in Estimates' : \E f \in Estimates : Dist(e) <= Dist(f)]_vars

(* "The EWMA recovers on its own either way": once chains cost the same,   *)
(* average and window come within the eighth that the division drops and   *)
(* stay there, although samples get lost and stale values are stored.      *)
Near ==
  /\ Dist(ewma) < 8
  /\ patience - Window(Clamp(Steady, MinCost, MaxCost)) \in -7 .. 7

Recovers == calm ~> []Near

=============================================================================
