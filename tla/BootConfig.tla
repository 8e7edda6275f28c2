----------------------------- MODULE BootConfig -----------------------------
(***************************************************************************)
(* What main derives from the box and the environment before anything      *)
(* runs: the number of hash slots, from the container's CPU quota or       *)
(* RISK_SLOTS, and the shed budget, from the error gate or its override.   *)
(*                                                                         *)
(* A cgroup file is a record: whether it could be read, and the quota and  *)
(* the period it holds, a quota of 0 standing for "max" or nonsense.  An   *)
(* environment variable is an integer, Unset when absent or no number.     *)
(* The quotient of the code, a float, is kept as a pair.                   *)
(***************************************************************************)
EXTENDS Integers

Unset == -1
cpuCap == 2
MaxSlots == 4

Files == [read : BOOLEAN, quota : Int, period : Nat]
NoBudget == [quota |-> 0, period |-> 1]

HasQuota(f) == f.read /\ f.quota > 0 /\ f.period > 0

(* The v1 pair is a fallback for a v2 file that cannot be read, not for one *)
(* that says "max".                                                        *)
cgroupCPUBudget(v2, v1) ==
  LET f == IF v2.read THEN v2 ELSE v1
  IN  IF HasQuota(f) THEN [quota |-> f.quota, period |-> f.period] ELSE NoBudget

Clamp(n, lo, hi) == IF n < lo THEN lo ELSE IF n > hi THEN hi ELSE n

(* Half a CPU or more is rounded to the nearest slot; less counts as no    *)
(* budget at all.                                                          *)
QuotaSlots(b) ==
  IF 2 * b.quota >= b.period THEN (2 * b.quota + b.period) \div (2 * b.period)
  ELSE cpuCap

riskSlots(b, env) == Clamp(IF env >= 1 THEN env ELSE QuotaSlots(b), 1, MaxSlots)

gateBP(env) == IF env \in 10 .. 1000 THEN env ELSE 100

riskShedBudgetBP(gate, env) ==
  LET wanted == IF env >= 0 THEN env ELSE (gateBP(gate) * 88) \div 100
      max == (gateBP(gate) * 95) \div 100
  IN  IF wanted > max THEN max ELSE wanted

-----------------------------------------------------------------------------
(* Slots follow the quota: unless RISK_SLOTS overrides it, a quota the     *)
(* clamp leaves alone is at most half a CPU away from the number of slots. *)
SlotsFollow(b, env) ==
  /\ riskSlots(b, env) \in 1 .. MaxSlots
  /\ env < 1 /\ b.period <= 2 * b.quota /\ 2 * b.quota < (2 * MaxSlots + 1) * b.period =>
       /\ 2 * b.quota <= (2 * riskSlots(b, env) + 1) * b.period
       /\ (2 * riskSlots(b, env) - 1) * b.period <= 2 * b.quota

(* "Clamped to 95% of the gate so no knob can cross it".                   *)
BudgetBelowGate(gate, env) ==
  /\ riskShedBudgetBP(gate, env) >= 0
  /\ 100 * riskShedBudgetBP(gate, env) <= 95 * gateBP(gate)

=============================================================================
