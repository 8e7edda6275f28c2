----------------------------- MODULE HashChain -----------------------------
(***************************************************************************)
(* One hash chain of a worker (riskChain, riskChainPair,                   *)
(* riskChainQuadKernel, x16ChainRun) on the kernels that KernelBoot        *)
(* installed: a hash of the seed and Rounds - 1 hashes of hashes, with a   *)
(* yield of the processor every stride of them.  Some routines do one      *)
(* iteration per call, others a whole stride; neither can be preempted     *)
(* inside the assembly.                                                    *)
(***************************************************************************)
EXTENDS KernelBoot

CONSTANT Rounds  \* 50000

ASSUME HashChainAssumption == Rounds \in 1 .. Wrap - 1

VARIABLES
  path,     \* the routine this chain runs on, nil between chains
  done,     \* the loop's uint32 counter
  hashes,   \* history: hashes computed
  since,    \* history: iterations since the last yield
  longest   \* history: the longest run without a yield

chainVars == <<path, done, hashes, since, longest>>
vars == <<bootVars, chainVars>>

Uint32 == 0 .. Wrap - 1

Chunked == {"pairHashHexN", "hashHex1N", "riskChain4x"}

Init ==
  /\ BootInit
  /\ path = nil
  /\ done = 0
  /\ hashes = 0
  /\ since = 0
  /\ longest = 0

(* The seed is hashed by the standard library.                             *)
(* Mutant: its hash is not counted as the first round.                     *)
StartAtZero ==
  /\ Ready
  /\ path = nil
  /\ path' \in Serving
  /\ done' = 0
  /\ hashes' = 1
  /\ UNCHANGED <<bootVars, since, longest>>

Start ==
  /\ Ready
  /\ path = nil
  /\ path' \in Serving
  /\ done' = 1
  /\ hashes' = 1
  /\ UNCHANGED <<bootVars, since, longest>>

Longer(n) == IF since + n > longest THEN since + n ELSE longest

(* The loop is inside the assembly: one call per stride.  With yielding    *)
(* disabled the stride overflows to 0.                                     *)
(* Mutants: 0 is taken for a stride; the rest is not cut to a stride.      *)
CallLengthNoZero ==
  LET stride == (riskYieldMask + 1) % Wrap
  IN  IF Rounds - done > stride THEN stride ELSE Rounds - done

CallLengthUncut == Rounds - done

CallLength ==
  LET stride == (riskYieldMask + 1) % Wrap
  IN  IF stride # 0 /\ Rounds - done > stride THEN stride ELSE Rounds - done

ChunkCall ==
  /\ path \in Chunked
  /\ done < Rounds
  /\ done' = (done + CallLength) % Wrap
  /\ hashes' = hashes + CallLength
  /\ since' = IF done' < Rounds THEN 0 ELSE since + CallLength
  /\ longest' = Longer(CallLength)
  /\ UNCHANGED <<bootVars, path>>

(* The bitwise and of two uint32.                                          *)
And[p \in Uint32 \X Uint32] ==
  IF p[1] = 0 THEN 0
  ELSE (IF p[1] % 2 = 1 /\ p[2] % 2 = 1 THEN 1 ELSE 0) + 2 * And[<<p[1] \div 2, p[2] \div 2>>]

(* One iteration per call; the mask decides when to yield.                 *)
Iterate ==
  /\ path \in Routines \ Chunked
  /\ done < Rounds
  /\ done' = (done + 1) % Wrap
  /\ hashes' = hashes + 1
  /\ since' = IF And[<<done, riskYieldMask>>] = 0 THEN 0 ELSE since + 1
  /\ longest' = Longer(1)
  /\ UNCHANGED <<bootVars, path>>

Return ==
  /\ path # nil
  /\ done >= Rounds
  /\ path' = nil
  /\ done' = 0
  /\ hashes' = 0
  /\ since' = 0
  /\ longest' = 0
  /\ UNCHANGED bootVars

ChainNext == Start \/ ChunkCall \/ Iterate \/ Return

Next == (BootNext /\ UNCHANGED chainVars) \/ ChainNext

Spec == Init /\ [][Next]_vars

(* main goes on, and a worker that has a chain keeps running.              *)
FairSpec == Spec /\ WF_vars(BootNext /\ UNCHANGED chainVars) /\ WF_vars(ChainNext)

-----------------------------------------------------------------------------
(* Whatever routine and stride the boot chose, a chain never runs past its *)
(* end and is Rounds hashes long when it gets there: the digest does not   *)
(* depend on the machine.                                                  *)
RoundsExact == path # nil => done <= Rounds /\ (done = Rounds => hashes = Rounds)

(* No chain keeps the processor for more than a stride of iterations, on   *)
(* any path and for any mask, powers of two or not; an all-ones mask       *)
(* disables yielding.                                                      *)
YieldsInTime == riskYieldMask # Wrap - 1 => longest <= riskYieldMask + 1

(* Every chain ends: no stride, an overflowed one included, stalls it.     *)
ChainEnds == path # nil ~> path = nil

=============================================================================
