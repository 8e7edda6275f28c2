-------------------------- MODULE KernelBootProofs --------------------------
(***************************************************************************)
(* The safety of the boot, for every environment, processor, machine and   *)
(* outcome of the races.                                                   *)
(***************************************************************************)
EXTENDS KernelBoot, TLAPS

(* A routine that is installed is sound here and can run here.             *)
Fit(f) == f \in sound /\ Needs[f] \subseteq isa

(* At each step: what is installed fits, SHA-NI is claimed only where it   *)
(* is, the quad kernel comes with pairs, and nothing that the calibration  *)
(* timed is replaced after it.                                             *)
World == env \in Environments /\ isa \in Processors /\ sound \in Machines

Lones ==
  /\ Fit(riskSum64)
  /\ riskIter1 = nil \/ Fit(riskIter1)
  /\ riskIter1N = nil \/ Fit(riskIter1N)

Pairs ==
  /\ riskSumPair = nil \/ Fit(riskSumPair)
  /\ riskPairIter = nil \/ Fit(riskPairIter)
  /\ riskPairIterN = nil \/ Fit(riskPairIterN)

Batches ==
  /\ riskChainQuad = nil \/ Fit(riskChainQuad)
  /\ riskChainX16 = nil \/ Fit(riskChainX16)

Ran == \A f \in ran : Needs[f] \subseteq isa
Claim == kernelUseSHANI => {"sha_ni", "sse", "avx"} \subseteq isa

Order ==
  /\ step \in 1 .. 6
  /\ step <= 3 => riskChainQuad = nil
  /\ riskChainQuad # nil => riskSumPair # nil
  /\ step > 2 => calibrated = Lone

BInv == World /\ Lones /\ Pairs /\ Batches /\ Ran /\ Claim /\ Order

LEMMA NilIsNoRoutine == nil \notin Routines
  BY DEF nil, Routines, Needs

LEMMA NeedsOf ==
  /\ Needs["blockAVX2"] = {"avx", "avx2", "bmi2"}
  /\ \A f \in {"blockSHANI", "blockSHANI2", "pairHashHex", "hashHex1",
             "pairHashHexN", "hashHex1N"} : Needs[f] = {"sha_ni", "sse", "avx"}
  /\ Needs["riskChain4x"] = {"sha_ni", "sse"}
  /\ Needs["sha256X16Avx512"] = {"avx512"}
  /\ Needs["stdlib"] = {}
  BY DEF Needs

LEMMA InitBInv == BootInit => BInv
<1> SUFFICES ASSUME BootInit PROVE BInv
  OBVIOUS
<1>1. World
  BY DEF BootInit, World
<1>2. Fit("stdlib")
  BY <1>1, KernelBootAssumption, NeedsOf DEF Fit, World
<1>3. Lones /\ Pairs /\ Batches
  BY <1>2 DEF BootInit, Lones, Pairs, Batches
<1>4. Ran
  BY NeedsOf DEF BootInit, Ran
<1>5. Claim /\ Order
  BY DEF BootInit, Claim, Order
<1> QED
  BY <1>1, <1>3, <1>4, <1>5 DEF BInv

LEMMA NextBInv == BInv /\ [BootNext]_bootVars => BInv'
<1> SUFFICES ASSUME BInv, [BootNext]_bootVars PROVE BInv'
  OBVIOUS
<1> USE DEF BInv, World, Lones, Pairs, Batches, Ran, Claim, Order
<1>1. CASE InitRiskKernel
  <2>1. step = 1 /\ step' = 2
    BY <1>1 DEF InitRiskKernel, At, Ready, BootOrder
  <2> USE <1>1
  <2>2. UNCHANGED <<env, isa, sound, riskChainQuad, riskChainX16, calibrated>>
    BY DEF InitRiskKernel, machine, x16, calibration
  <2>3. Tries => Needs[Block] \subseteq isa
    BY NeedsOf DEF Tries, Block, ShaNI
  <2>4. ShaNI => \A f \in {"blockSHANI", "blockSHANI2", "pairHashHex", "hashHex1",
                          "pairHashHexN", "hashHex1N"} : Needs[f] \subseteq isa
    BY NeedsOf DEF ShaNI
  <2>5. Lones'
    BY <2>2, <2>3, <2>4
       DEF InitRiskKernel, LoopsOK, SingleOK, FusedOK, PairOK, BlockOK, Fit
  <2>6. Pairs'
    BY <2>2, <2>4
       DEF InitRiskKernel, LoopsOK, SingleOK, FusedOK, PairOK, BlockOK, Fit
  <2>7. Ran'
    <3> SUFFICES ASSUME NEW f \in ran' PROVE Needs[f] \subseteq isa
      BY <2>2
    <3> QED
      BY <2>3, <2>4
         DEF InitRiskKernel, LoopsOK, SingleOK, FusedOK, PairOK, BlockOK
  <2>8. Claim'
    BY <2>2 DEF InitRiskKernel, ShaNI
  <2>9. riskChainQuad' = nil
    BY <2>1, <2>2
  <2> QED
    BY <2>1, <2>2, <2>5, <2>6, <2>7, <2>8, <2>9 DEF Fit
<1>2. CASE CalibrateRisk
  <2>1. step = 2 /\ step' = 3
    BY <1>2 DEF CalibrateRisk, At, Ready, BootOrder
  <2> QED
    BY <1>2, <2>1 DEF CalibrateRisk, machine, lone, pairs, x16, Fit, Lone
<1>3. CASE RaceKernelPairing
  <2>1. step = 3 /\ step' = 4
    BY <1>3 DEF RaceKernelPairing, At, Ready, BootOrder
  <2> QED
    BY <1>3, <2>1 DEF RaceKernelPairing, machine, lone, x16, calibration, Fit, Lone
<1>4. CASE InitRiskKernelX4
  <2>1. step = 4 /\ step' = 5
    BY <1>4 DEF InitRiskKernelX4, At, Ready, BootOrder
  <2> QED
    BY <1>4, <2>1 DEF InitRiskKernelX4, machine, lone, pairs, x16, calibration, Fit, Lone, Needs, nil
<1>5. CASE InitRiskKernelX16
  <2>1. step = 5 /\ step' = 6
    BY <1>5 DEF InitRiskKernelX16, At, Ready, BootOrder
  <2> QED
    BY <1>5, <2>1 DEF InitRiskKernelX16, X16Eligible, machine, lone, pairs, x16, calibration, Fit, Lone, Needs, nil
<1>6. CASE UNCHANGED bootVars
  BY <1>6 DEF bootVars, machine, lone, pairs, x16, calibration, Fit, Lone
<1> QED
  BY <1>1, <1>2, <1>3, <1>4, <1>5, <1>6 DEF BootNext

(* Whatever a boot step installed fits this machine, in every state.       *)
THEOREM BootBInv == BootSpec => []BInv
  BY InitBInv, NextBInv, PTL DEF BootSpec

-----------------------------------------------------------------------------
LEMMA ServingFits == BInv => \A f \in Serving : Fit(f)
<1> SUFFICES ASSUME BInv, NEW f \in Serving PROVE Fit(f)
  OBVIOUS
<1>1. Fit(Lone)
  BY DEF BInv, Lones, Lone
<1>2. riskSumPair # nil => Fit(Pair)
  BY DEF BInv, Pairs, Pair
<1> QED
  BY <1>1, <1>2 DEF Serving, BInv, Batches

(* Whatever the workers may call is sound on this machine.                 *)
THEOREM OnlySoundKernelsServe == BootSpec => []OnlySoundServe
<1>1. BInv => OnlySoundServe
  BY ServingFits DEF OnlySoundServe, Fit
<1> QED
  BY <1>1, BootBInv, PTL

(* No boot executes an instruction that the processor does not have.       *)
THEOREM NeverIllegalInstruction == BootSpec => []NoIllegalInstruction
<1>1. BInv => NoIllegalInstruction
  BY ServingFits DEF NoIllegalInstruction, Fit, BInv, Ran
<1> QED
  BY <1>1, BootBInv, PTL

(* The window and the stride come from the routine that lone waiters get,  *)
(* and the quad kernel stands on the pair path.                            *)
THEOREM EarlierStepsAlwaysHold == BootSpec => []EarlierStepsHold
<1>1. BInv => EarlierStepsHold
  BY DEF BInv, Order, EarlierStepsHold, Ready, BootOrder
<1> QED
  BY <1>1, BootBInv, PTL

-----------------------------------------------------------------------------
(* What each variable may hold, and what the switches leave.               *)
Values ==
  /\ riskSum64 \in {"stdlib", "blockAVX2", "blockSHANI"}
  /\ riskIter1 \in {nil, "hashHex1"} /\ riskIter1N \in {nil, "hashHex1N"}
  /\ riskSumPair \in {nil, "blockSHANI2"}
  /\ riskPairIter \in {nil, "pairHashHex"} /\ riskPairIterN \in {nil, "pairHashHexN"}
  /\ riskChainQuad \in {nil, "riskChain4x"}
  /\ riskChainX16 \in {nil, "sha256X16Avx512"}

NoShaNI ==
  /\ ~kernelUseSHANI /\ riskSum64 # "blockSHANI"
  /\ riskIter1 = nil /\ riskIter1N = nil /\ riskSumPair = nil /\ riskChainQuad = nil

Switched ==
  /\ env.kernel = "off" => NoShaNI /\ riskSum64 = "stdlib" /\ riskChainX16 = nil
  /\ env.kernel = "avx512" => NoShaNI
  /\ env.x4 = "off" => riskChainQuad = nil
  /\ env.x16 = "off" => riskChainX16 = nil

LEMMA NextSwitched ==
  Values /\ Switched /\ [BootNext]_bootVars => Values' /\ Switched'
<1> SUFFICES ASSUME Values, Switched, [BootNext]_bootVars PROVE Values' /\ Switched'
  OBVIOUS
<1> USE DEF Values, Switched, NoShaNI, machine
<1>1. CASE InitRiskKernel
  BY <1>1 DEF InitRiskKernel, LoopsOK, SingleOK, FusedOK, PairOK, BlockOK, Tries, Block,
              ShaNI, x16
<1>2. CASE CalibrateRisk
  BY <1>2 DEF CalibrateRisk, lone, pairs, x16
<1>3. CASE RaceKernelPairing
  BY <1>3 DEF RaceKernelPairing, lone, x16
<1>4. CASE InitRiskKernelX4
  BY <1>4 DEF InitRiskKernelX4, lone, pairs, x16
<1>5. CASE InitRiskKernelX16
  BY <1>5 DEF InitRiskKernelX16, X16Eligible, lone, pairs, x16
<1>6. CASE UNCHANGED bootVars
  BY <1>6 DEF bootVars, lone, pairs, x16
<1> QED
  BY <1>1, <1>2, <1>3, <1>4, <1>5, <1>6 DEF BootNext

(* The kill switches keep what they name out of every worker's way.        *)
THEOREM SwitchesKill == BootSpec => []KillSwitches
<1>1. BootInit => Values /\ Switched
  BY DEF BootInit, Values, Switched, NoShaNI
<1>2. Values /\ Switched => KillSwitches
  <2> SUFFICES ASSUME Values, Switched PROVE KillSwitches
    OBVIOUS
  <2> USE DEF Values, Switched, NoShaNI, Serving, Lone, nil
  <2>1. env.kernel = "off" => Serving = {"stdlib"}
    OBVIOUS
  <2>2. env.kernel = "avx512" => Serving \subseteq {"stdlib", "blockAVX2", "sha256X16Avx512"}
    OBVIOUS
  <2>3. \A f \in {"stdlib", "blockAVX2", "sha256X16Avx512"} : "sha_ni" \notin Needs[f]
    BY NeedsOf
  <2>4. riskSumPair # nil => Pair \in {"blockSHANI2", "pairHashHex", "pairHashHexN"}
    BY DEF Pair
  <2>5. env.x4 = "off" => "riskChain4x" \notin Serving
    BY <2>4
  <2>6. env.x16 = "off" => "sha256X16Avx512" \notin Serving
    BY <2>4
  <2> QED
    BY <2>1, <2>2, <2>3, <2>5, <2>6 DEF KillSwitches
<1> QED
  BY <1>1, <1>2, NextSwitched, PTL DEF BootSpec

-----------------------------------------------------------------------------
(* The arithmetic of the batch floor: a batch that won its race by at      *)
(* least a tenth costs less than k of the displaced chains for every k     *)
(* from the floor up.                                                      *)
LEMMA MinBatchPays ==
  ASSUME NEW batch \in Nat \ {0}, NEW displaced \in Nat \ {0}, batch < displaced
  PROVE  /\ MinBatch(batch, displaced) \in X16Floor .. X16Lanes
         /\ \A k \in MinBatch(batch, displaced) .. X16Lanes :
              batch * X16Lanes < displaced * k
<1> DEFINE perChain == displaced \div X16Lanes
           least == IF perChain > 0 THEN (batch * 10) \div (perChain * 9) + 1
                    ELSE X16Lanes
<1>1. X16Floor \in Nat \ {0} /\ X16Lanes \in Nat \ {0} /\ X16Floor <= X16Lanes
  <2>1. X16Floor \in Nat \ {0} /\ X16Lanes \in Nat /\ X16Floor <= X16Lanes
    BY KernelBootAssumption
  <2> QED
    BY <2>1
<1>2. perChain \in Nat /\ perChain * X16Lanes <= displaced
  BY <1>1
<1>3. least \in Nat
  BY <1>1, <1>2
<1>4. MinBatch(batch, displaced) =
        IF least < X16Floor THEN X16Floor
        ELSE IF least > X16Lanes THEN X16Lanes ELSE least
  BY DEF MinBatch
<1> HIDE DEF perChain, least
<1>5. MinBatch(batch, displaced) \in X16Floor .. X16Lanes
  BY <1>1, <1>3, <1>4
<1>6. ASSUME NEW k \in MinBatch(batch, displaced) .. X16Lanes
      PROVE  batch * X16Lanes < displaced * k
  <2>1. k \in Nat /\ k <= X16Lanes /\ (k = X16Lanes \/ k >= least)
    BY <1>1, <1>3, <1>4, <1>5, <1>6
  <2>2. CASE k = X16Lanes
    BY <2>2, <1>1
  <2>3. CASE k # X16Lanes
    <3>1. perChain > 0 /\ k >= (batch * 10) \div (perChain * 9) + 1
      BY <2>1, <2>3, <1>1, <1>2 DEF least
    <3>2. batch * 10 < (perChain * 9) * k
      <4> DEFINE q == (batch * 10) \div (perChain * 9)
      <4>1. perChain * 9 \in Nat \ {0} /\ batch * 10 \in Nat
        BY <3>1, <1>2
      <4>2. q \in Nat /\ batch * 10 < (perChain * 9) * (q + 1)
        BY <4>1
      <4> HIDE DEF q
      <4>3. (perChain * 9) * (q + 1) <= (perChain * 9) * k
        BY <3>1, <4>1, <4>2, <2>1 DEF q
      <4> QED
        BY <4>1, <4>2, <4>3, <2>1
    <3>3. batch < perChain * k
      BY <3>2, <2>1, <1>2
    <3>4. batch * X16Lanes < (perChain * k) * X16Lanes
      BY <3>3, <1>1, <1>2, <2>1
    <3>5. (perChain * k) * X16Lanes = (perChain * X16Lanes) * k
      BY <1>1, <1>2, <2>1
    <3>6. (perChain * X16Lanes) * k <= displaced * k
      BY <1>1, <1>2, <2>1
    <3> QED
      BY <3>4, <3>5, <3>6, <1>1, <1>2, <2>1
  <2> QED
    BY <2>2, <2>3
<1> QED
  BY <1>5, <1>6

(* Every batch the worker may run, short ones included, is worth it, for   *)
(* any measurements.                                                       *)
THEOREM BatchAlwaysPays == BootSpec => []BatchPays
<1> DEFINE XInv == BatchPays /\ (step <= 5 => riskChainX16 = nil) /\ step \in 1 .. 6
<1>1. BootInit => XInv
  BY DEF BootInit, BatchPays
<1>2. XInv /\ [BootNext]_bootVars => XInv'
  <2> SUFFICES ASSUME XInv, [BootNext]_bootVars PROVE XInv'
    OBVIOUS
  <2>1. CASE InitRiskKernelX16
    <3>1. step = 5 /\ step' = 6
      BY <2>1 DEF InitRiskKernelX16, At, Ready, BootOrder
    <3>2. CASE UNCHANGED x16
      BY <3>1, <3>2 DEF x16, BatchPays
    <3>3. CASE ~UNCHANGED x16
      <4>1. PICK batch \in Costs, displaced \in Costs :
              /\ batch * (IF riskSumPair # nil THEN 11 ELSE 13) < displaced * 10
              /\ riskX16MinBatch' = MinBatch(batch, displaced)
              /\ race' = [batch |-> batch, displaced |-> displaced]
        BY <2>1, <3>3 DEF InitRiskKernelX16
      <4>2. batch \in Nat \ {0} /\ displaced \in Nat \ {0}
        BY KernelBootAssumption
      <4>3. batch < displaced
        BY <4>1, <4>2
      <4> QED
        BY <3>1, <4>1, <4>2, <4>3, MinBatchPays DEF BatchPays
    <3> QED
      BY <3>2, <3>3
  <2>2. CASE BootNext /\ ~InitRiskKernelX16
    <3>1. UNCHANGED x16
      BY <2>2 DEF BootNext, InitRiskKernel, CalibrateRisk, RaceKernelPairing, InitRiskKernelX4
    <3>2. step <= 4 /\ step' = step + 1
      BY <2>2 DEF BootNext, InitRiskKernel, CalibrateRisk, RaceKernelPairing,
                  InitRiskKernelX4, At, Ready, BootOrder
    <3> QED
      BY <3>1, <3>2 DEF x16, BatchPays
  <2>3. CASE UNCHANGED bootVars
    BY <2>3 DEF bootVars, x16, BatchPays
  <2> QED
    BY <2>1, <2>2, <2>3
<1> QED
  BY <1>1, <1>2, PTL DEF BootSpec

=============================================================================
