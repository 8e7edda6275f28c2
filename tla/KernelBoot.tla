----------------------------- MODULE KernelBoot -----------------------------
(***************************************************************************)
(* How a boot chooses the hash kernels (main.go, shakernel_amd64.go,       *)
(* sha4lane_amd64.go, shakernel_x16_amd64.go): main runs its steps one     *)
(* after the other, each reads what the earlier ones left, and what they   *)
(* install is what the workers call for as long as the process lives.      *)
(*                                                                         *)
(* A kernel routine is a name.  On a given machine it is sound, that is    *)
(* bit-identical to crypto/sha256, or it is not, and a self-test tells     *)
(* which; timings are chosen freely from a set.                            *)
(***************************************************************************)
EXTENDS Integers, Sequences

CONSTANTS
  Environments,         \* settings of RISK_KERNEL, RISK_KERNEL_V3, RISK_X4,
                        \* RISK_X16 and RISK_YIELD_STRIDE
  Processors,           \* sets of features read from /proc/cpuinfo
  Machines,             \* sets of routines that are sound
  Costs,                \* wall times a race may measure
  Wrap,                 \* 2^32, where a uint32 wraps
  MinStride, MaxStride, \* 256 and 8192
  X16Lanes, X16Floor    \* 16 and 8

(* The gates of the three files: sse is sse4_1 and ssse3, avx512 is f, dq, *)
(* bw and vl.                                                              *)
Features == {"sha_ni", "sse", "avx", "avx2", "bmi2", "avx512"}

Needs == [
  stdlib |-> {},
  blockAVX2 |-> {"avx", "avx2", "bmi2"},
  blockSHANI |-> {"sha_ni", "sse", "avx"},
  blockSHANI2 |-> {"sha_ni", "sse", "avx"},
  pairHashHex |-> {"sha_ni", "sse", "avx"},
  hashHex1 |-> {"sha_ni", "sse", "avx"},
  pairHashHexN |-> {"sha_ni", "sse", "avx"},
  hashHex1N |-> {"sha_ni", "sse", "avx"},
  riskChain4x |-> {"sha_ni", "sse"},
  sha256X16Avx512 |-> {"avx512"}]

Routines == DOMAIN Needs
nil == "nil"

Unset == -1                        \* RISK_YIELD_STRIDE is not set
DefaultStride == MaxStride \div 2   \* 4096

ASSUME KernelBootAssumption ==
  /\ Environments \subseteq [kernel : {"", "off", "avx512"}, v3 : BOOLEAN,
                             x4 : {"", "off", "on"}, x16 : {"", "off", "on"},
                             stride : Int]
  /\ Processors \subseteq SUBSET Features
  /\ \A m \in Machines : m \subseteq Routines /\ "stdlib" \in m
  /\ Costs \subseteq Nat \ {0} /\ Costs # {}
  /\ Wrap \in Nat \ {0}
  /\ MinStride \in Nat \ {0} /\ MaxStride \in Nat /\ MinStride < MaxStride
  /\ MaxStride < Wrap
  /\ X16Floor \in Nat \ {0} /\ X16Lanes \in Nat /\ X16Floor <= X16Lanes

VARIABLES
  env, isa, sound,  \* the process's environment and its machine
  step,             \* where main is in BootOrder
  kernelUseSHANI,
  riskSum64, riskSumPair, riskPairIter, riskIter1, riskPairIterN, riskIter1N,
  riskChainQuad, riskChainX16, riskX16MinBatch,
  riskYieldMask,
  calibrated,       \* history: the routine that calibrateRisk timed
  race,             \* history: what the race of the 16-lane kernel measured
  ran               \* history: routines that were executed

machine == <<env, isa, sound>>
lone == <<riskSum64, riskIter1, riskIter1N>>
pairs == <<riskSumPair, riskPairIter, riskPairIterN>>
x16 == <<riskChainX16, riskX16MinBatch, race>>
calibration == <<riskYieldMask, calibrated>>
bootVars == <<machine, step, kernelUseSHANI, lone, pairs, riskChainQuad, x16,
              calibration, ran>>

(* The routines behind riskChain and riskChainPair.                        *)
Lone ==
  IF riskIter1N # nil THEN riskIter1N
  ELSE IF riskIter1 # nil THEN riskIter1 ELSE riskSum64

Pair ==
  IF riskPairIterN # nil THEN riskPairIterN
  ELSE IF riskPairIter # nil THEN riskPairIter ELSE riskSumPair

(* The routines a worker may call.                                         *)
Serving ==
  {Lone}
    \cup (IF riskSumPair = nil THEN {} ELSE {Pair})
    \cup ({riskChainQuad, riskChainX16} \ {nil})

BootInit ==
  /\ env \in Environments
  /\ isa \in Processors
  /\ sound \in Machines
  /\ step = 1
  /\ kernelUseSHANI = FALSE
  /\ riskSum64 = "stdlib"
  /\ riskSumPair = nil
  /\ riskPairIter = nil
  /\ riskIter1 = nil
  /\ riskPairIterN = nil
  /\ riskIter1N = nil
  /\ riskChainQuad = nil
  /\ riskChainX16 = nil
  /\ riskX16MinBatch = X16Floor
  /\ riskYieldMask = DefaultStride - 1
  /\ calibrated = nil
  /\ race = [batch |-> 0, displaced |-> 0]
  /\ ran = {"stdlib"}

(* Mutant: calibration comes before the choice of the kernel.              *)
CalibrateFirst == <<"calibrate", "kernel", "race", "x4", "x16">>

BootOrder == <<"kernel", "calibrate", "race", "x4", "x16">>

Ready == step > Len(BootOrder)
At(s) == ~Ready /\ BootOrder[step] = s /\ step' = step + 1

-----------------------------------------------------------------------------
(* initRiskKernel: a ladder of self-tests, each on top of the last one.    *)

ShaNI == env.kernel # "avx512" /\ {"sha_ni", "sse", "avx"} \subseteq isa
Tries == env.kernel # "off" /\ (ShaNI \/ {"avx", "avx2", "bmi2"} \subseteq isa)
Block == IF ShaNI THEN "blockSHANI" ELSE "blockAVX2"

BlockOK == Tries /\ Block \in sound
PairOK == BlockOK /\ ShaNI /\ "blockSHANI2" \in sound
FusedOK == PairOK /\ "pairHashHex" \in sound
SingleOK == FusedOK /\ "hashHex1" \in sound

(* Mutant: the loops inside the assembly are not tested.                   *)
LoopsUntested == SingleOK /\ env.v3

LoopsOK == SingleOK /\ env.v3 /\ {"pairHashHexN", "hashHex1N"} \subseteq sound

InitRiskKernel ==
  /\ At("kernel")
  /\ kernelUseSHANI' = (BlockOK /\ ShaNI)
  /\ riskSum64' = IF BlockOK THEN Block ELSE riskSum64
  /\ riskSumPair' = IF PairOK THEN "blockSHANI2" ELSE nil
  /\ riskPairIter' = IF FusedOK THEN "pairHashHex" ELSE nil
  /\ riskIter1' = IF SingleOK THEN "hashHex1" ELSE nil
  /\ riskPairIterN' = IF LoopsOK THEN "pairHashHexN" ELSE nil
  /\ riskIter1N' = IF LoopsOK THEN "hashHex1N" ELSE nil
  /\ ran' = ran
       \cup (IF Tries THEN {Block} ELSE {})
       \cup (IF BlockOK /\ ShaNI THEN {"blockSHANI2"} ELSE {})
       \cup (IF PairOK THEN {"pairHashHex"} ELSE {})
       \cup (IF FusedOK THEN {"hashHex1"} ELSE {})
       \cup (IF SingleOK /\ env.v3 THEN {"pairHashHexN", "hashHex1N"} ELSE {})
  /\ UNCHANGED <<machine, riskChainQuad, x16, calibration>>

-----------------------------------------------------------------------------
(* calibrateRisk: the yield stride, from the cost of lone chains or from   *)
(* RISK_YIELD_STRIDE: a big one is truncated, and the default stays when   *)
(* it is negative or no number, which is written -2 here.                  *)

CalibratedStrides == {s \in MinStride .. MaxStride : \E k \in 0 .. MaxStride : s = MinStride * 2 ^ k}

Strides ==
  CASE env.stride = Unset -> CalibratedStrides
    [] env.stride >= 0 -> {env.stride % Wrap}
    [] OTHER -> {DefaultStride}

CalibrateRisk ==
  /\ At("calibrate")
  /\ \E s \in Strides : riskYieldMask' = IF s = 0 THEN Wrap - 1 ELSE s - 1
  /\ calibrated' = Lone
  /\ UNCHANGED <<machine, kernelUseSHANI, lone, pairs, riskChainQuad, x16, ran>>

-----------------------------------------------------------------------------
(* raceKernelPairing, initRiskKernelX4, initRiskKernelX16.                 *)

RaceKernelPairing ==
  /\ At("race")
  /\ \/ riskSumPair = nil /\ UNCHANGED riskSumPair
     \/ \E serial, paired \in Costs :
          riskSumPair' = IF paired * 100 >= serial * 95 THEN nil ELSE riskSumPair
  /\ UNCHANGED <<machine, kernelUseSHANI, lone, riskPairIter, riskPairIterN,
                 riskChainQuad, x16, calibration, ran>>

InitRiskKernelX4 ==
  /\ At("x4")
  /\ LET tries == env.x4 # "off" /\ kernelUseSHANI /\ riskSumPair # nil
     IN  /\ ran' = ran \cup (IF tries THEN {"riskChain4x"} ELSE {})
         /\ \E pair2, quad \in Costs :
              riskChainQuad' =
                IF /\ tries
                   /\ "riskChain4x" \in sound
                   /\ env.x4 = "on" \/ quad * 100 < pair2 * 95
                THEN "riskChain4x" ELSE nil
  /\ UNCHANGED <<machine, kernelUseSHANI, lone, pairs, x16, calibration>>

(* Mutants: RISK_KERNEL=off is not asked; RISK_KERNEL=avx512 needs no      *)
(* AVX-512.                                                                *)
X16EligibleWhenOff ==
  /\ env.x16 # "off"
  /\ "avx512" \in isa
  /\ kernelUseSHANI => env.x16 = "on"

X16EligibleForced ==
  /\ env.x16 # "off"
  /\ "avx512" \in isa \/ env.kernel = "avx512"
  /\ env.kernel # "off"
  /\ kernelUseSHANI => env.kernel = "avx512" \/ env.x16 = "on"

X16Eligible ==
  /\ env.x16 # "off"
  /\ "avx512" \in isa
  /\ env.kernel # "off"
  /\ kernelUseSHANI => env.kernel = "avx512" \/ env.x16 = "on"

(* The fewest waiters for which a batch costs less per chain than the path *)
(* it displaces, by about ten percent.                                     *)
(* Mutant: the default, whatever the race measured.                        *)
MinBatchFloor(batch, displaced) == X16Floor

MinBatch(batch, displaced) ==
  LET perChain == displaced \div X16Lanes
      least == IF perChain > 0 THEN (batch * 10) \div (perChain * 9) + 1 ELSE X16Lanes
  IN  IF least < X16Floor THEN X16Floor
      ELSE IF least > X16Lanes THEN X16Lanes ELSE least

InitRiskKernelX16 ==
  /\ At("x16")
  /\ ran' = ran \cup (IF X16Eligible THEN {"sha256X16Avx512"} ELSE {})
  /\ \E batch, displaced \in Costs :
       IF /\ X16Eligible
          /\ "sha256X16Avx512" \in sound
          /\ batch * (IF riskSumPair # nil THEN 11 ELSE 13) < displaced * 10
       THEN /\ riskChainX16' = "sha256X16Avx512"
            /\ riskX16MinBatch' = MinBatch(batch, displaced)
            /\ race' = [batch |-> batch, displaced |-> displaced]
       ELSE UNCHANGED x16
  /\ UNCHANGED <<machine, kernelUseSHANI, lone, pairs, riskChainQuad, calibration>>

BootNext ==
  \/ InitRiskKernel \/ CalibrateRisk \/ RaceKernelPairing
  \/ InitRiskKernelX4 \/ InitRiskKernelX16

BootSpec == BootInit /\ [][BootNext]_bootVars

-----------------------------------------------------------------------------
(* Whatever the workers may call is bit-identical to crypto/sha256 on this *)
(* machine, although each self-test and race looks at one routine only and *)
(* later ones replace what earlier ones installed.                         *)
OnlySoundServe == Ready => Serving \subseteq sound

(* No routine is executed, not even in a self-test, on a processor without *)
(* the instructions it is made of.                                         *)
NoIllegalInstruction == \A f \in ran \cup Serving : Needs[f] \subseteq isa

(* The kill switches: with RISK_KERNEL=off only the standard library       *)
(* hashes, with RISK_KERNEL=avx512 nothing of SHA-NI does, and RISK_X4=off *)
(* and RISK_X16=off keep their kernels out.                                *)
KillSwitches ==
  Ready =>
    /\ env.kernel = "off" => Serving = {"stdlib"}
    /\ env.kernel = "avx512" => \A f \in Serving : "sha_ni" \notin Needs[f]
    /\ env.x4 = "off" => "riskChain4x" \notin Serving
    /\ env.x16 = "off" => "sha256X16Avx512" \notin Serving

(* What a boot step relies on is still so when all have run: the patience  *)
(* window and the yield stride come from the routine that lone waiters     *)
(* get, and the quad kernel is never installed without the pair path it    *)
(* was raced against and that serves its short pops.                       *)
EarlierStepsHold ==
  Ready => calibrated = Lone /\ (riskChainQuad # nil => riskSumPair # nil)

(* Every batch the worker may run through the 16-lane kernel, short ones   *)
(* included, costs less than the chains it displaces.                      *)
BatchPays ==
  riskChainX16 # nil =>
    /\ riskX16MinBatch \in X16Floor .. X16Lanes
    /\ \A k \in riskX16MinBatch .. X16Lanes :
         race.batch * X16Lanes < race.displaced * k

=============================================================================
