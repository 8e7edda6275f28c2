-------------------------- MODULE HashChainProofs --------------------------
(***************************************************************************)
(* A chain, on whatever routine and with whatever stride the boot chose,   *)
(* for any number of rounds and any width of the counter: it is exactly    *)
(* Rounds hashes long and yields in time.  The latter rests on a fact of   *)
(* arithmetic: among any m + 1 consecutive counters one has no bit in      *)
(* common with the mask m.                                                 *)
(***************************************************************************)
EXTENDS HashChain, KernelBootProofs, WellFoundedInduction

LEMMA Least ==
  ASSUME NEW T \in SUBSET Nat, T # {}
  PROVE  \E n \in T : \A m \in T : n <= m
<1> DEFINE R == {p \in Nat \X Nat : p[1] < p[2]}
<1>1. IsWellFoundedOn(R, Nat)
  BY NatLessThanWellFounded DEF OpToRel
<1>2. PICK n \in T : \A m \in T : ~(<<m, n>> \in R)
  BY <1>1, WFMin
<1>3. \A m \in T : ~(m < n)
  BY <1>2
<1> QED
  BY <1>3

LEMMA UintIsNat == Wrap \in Nat \ {0} /\ Uint32 \subseteq Nat
<1>1. Wrap \in Nat \ {0}
  BY KernelBootAssumption
<1> QED
  BY <1>1 DEF Uint32

LEMMA Halves ==
  ASSUME NEW n \in Nat
  PROVE  /\ n \div 2 \in Nat /\ n % 2 \in 0 .. 1
         /\ n = 2 * (n \div 2) + (n % 2)
         /\ n # 0 => n \div 2 < n
         /\ n \in Uint32 => n \div 2 \in Uint32
<1>1. /\ n \div 2 \in Nat /\ n % 2 \in 0 .. 1 /\ n \div 2 <= n
      /\ n = 2 * (n \div 2) + (n % 2)
      /\ n # 0 => n \div 2 < n
  OBVIOUS
<1>2. n \in Uint32 => n \div 2 \in Uint32
  <2>1. PICK k \in Nat : k = n \div 2 /\ k <= n
    BY <1>1
  <2>2. n \in Uint32 => k \in Uint32
    BY <2>1, UintIsNat DEF Uint32
  <2> QED
    BY <2>1, <2>2
<1> QED
  BY <1>1, <1>2

-----------------------------------------------------------------------------
(* And exists and obeys its defining equation: by induction on the first   *)
(* number, a function that does is found on every initial part.            *)
Common(i, m) == IF i % 2 = 1 /\ m % 2 = 1 THEN 1 ELSE 0

Obeys(g, n) ==
  \A i \in 0 .. n, m \in Uint32 :
    g[<<i, m>>] = IF i = 0 THEN 0 ELSE Common(i, m) + 2 * g[<<i \div 2, m \div 2>>]

LEMMA AndOnParts ==
  ASSUME NEW n \in Nat
  PROVE  \E g \in [(0 .. n) \X Uint32 -> Nat] : Obeys(g, n)
<1> DEFINE Has(k) == \E g \in [(0 .. k) \X Uint32 -> Nat] : Obeys(g, k)
           T == {k \in Nat : ~Has(k)}
<1>1. ASSUME T # {} PROVE FALSE
  <2>1. PICK k \in T : \A j \in T : k <= j
    <3>1. T \in SUBSET Nat
      OBVIOUS
    <3> QED
      BY <1>1, <3>1, Least
  <2>2. CASE k = 0
    <3> DEFINE g == [p \in (0 .. 0) \X Uint32 |-> 0]
    <3>1. g \in [(0 .. 0) \X Uint32 -> Nat] /\ Obeys(g, 0)
      BY DEF Obeys
    <3> QED
      BY <2>1, <2>2, <3>1
  <2>3. CASE k # 0
    <3>1. PICK l \in Nat : k = l + 1
      <4>1. k - 1 \in Nat /\ k = (k - 1) + 1
        BY <2>3
      <4> QED
        BY <4>1
    <3>2. PICK f \in [(0 .. l) \X Uint32 -> Nat] : Obeys(f, l)
      <4>1. ~(k <= l)
        BY <3>1
      <4>2. ~(l \in T)
        BY <2>1, <4>1
      <4> QED
        BY <4>2
    <3> DEFINE v(m) == Common(k, m) + 2 * f[<<k \div 2, m \div 2>>]
               g == [p \in (0 .. k) \X Uint32 |-> IF p[1] = k THEN v(p[2]) ELSE f[p]]
    <3>3. k \div 2 \in 0 .. l
      BY <2>3, <3>1, Halves
    <3>4. ASSUME NEW m \in Uint32 PROVE m \div 2 \in Uint32 /\ v(m) \in Nat
      <4>1. m \div 2 \in Uint32
        BY UintIsNat, Halves
      <4>2. f[<<k \div 2, m \div 2>>] \in Nat
        BY <3>3, <4>1
      <4> QED
        BY <4>1, <4>2 DEF Common
    <3>5. ASSUME NEW i \in 0 .. l, NEW m \in Uint32
          PROVE  g[<<i, m>>] = f[<<i, m>>]
      <4>1. i \in 0 .. k /\ i # k
        BY <3>1
      <4> QED
        BY <4>1
    <3>6. ASSUME NEW m \in Uint32
          PROVE  g[<<k, m>>] = v(m)
      OBVIOUS
    <3>7. g \in [(0 .. k) \X Uint32 -> Nat]
      <4>1. ASSUME NEW p \in (0 .. k) \X Uint32
            PROVE  (IF p[1] = k THEN v(p[2]) ELSE f[p]) \in Nat
        <5>1. CASE p[1] = k
          BY <3>4, <5>1
        <5>2. CASE p[1] # k
          <6>1. p \in (0 .. l) \X Uint32
            BY <3>1, <5>2
          <6> QED
            BY <5>2, <6>1
        <5> QED
          BY <5>1, <5>2
      <4> QED
        BY <4>1
    <3>8. Obeys(g, k)
      <4> SUFFICES ASSUME NEW i \in 0 .. k, NEW m \in Uint32
                   PROVE  g[<<i, m>>] = IF i = 0 THEN 0
                            ELSE Common(i, m) + 2 * g[<<i \div 2, m \div 2>>]
        BY DEF Obeys
      <4>1. m \div 2 \in Uint32
        BY <3>4
      <4> HIDE DEF g
      <4>2. CASE i = k
        <5>1. g[<<k \div 2, m \div 2>>] = f[<<k \div 2, m \div 2>>]
          BY <3>3, <3>5, <4>1
        <5> QED
          BY <2>3, <3>6, <4>2, <5>1
      <4>3. CASE i # k
        <5>1. i \in 0 .. l /\ i \div 2 \in 0 .. l
          BY <3>1, <4>3, Halves
        <5>2. g[<<i, m>>] = f[<<i, m>>]
              /\ g[<<i \div 2, m \div 2>>] = f[<<i \div 2, m \div 2>>]
          BY <3>5, <4>1, <5>1
        <5> QED
          BY <3>2, <5>1, <5>2 DEF Obeys
      <4> QED
        BY <4>2, <4>3
    <3> QED
      BY <2>1, <3>7, <3>8
  <2> QED
    BY <2>2, <2>3
<1> QED
  BY <1>1

LEMMA AndObeys == Obeys(And, Wrap - 1)
<1> DEFINE Eq(g) == g = [p \in Uint32 \X Uint32 |->
                      IF p[1] = 0 THEN 0
                      ELSE (IF p[1] % 2 = 1 /\ p[2] % 2 = 1 THEN 1 ELSE 0)
                             + 2 * g[<<p[1] \div 2, p[2] \div 2>>]]
           h == CHOOSE g : Eq(g)
<1>1. PICK n \in Nat : n = Wrap - 1 /\ Uint32 = 0 .. n
  BY UintIsNat DEF Uint32
<1>2. PICK f \in [(0 .. n) \X Uint32 -> Nat] : Obeys(f, n)
  BY AndOnParts
<1>3. Eq(f)
  <2>1. ASSUME NEW p \in Uint32 \X Uint32
        PROVE  f[p] = IF p[1] = 0 THEN 0
                      ELSE (IF p[1] % 2 = 1 /\ p[2] % 2 = 1 THEN 1 ELSE 0)
                             + 2 * f[<<p[1] \div 2, p[2] \div 2>>]
    <3>1. p = <<p[1], p[2]>> /\ p[1] \in 0 .. n /\ p[2] \in Uint32
      BY <1>1
    <3>2. f[<<p[1], p[2]>>] = IF p[1] = 0 THEN 0 ELSE Common(p[1], p[2])
                                     + 2 * f[<<p[1] \div 2, p[2] \div 2>>]
      BY <1>2, <3>1 DEF Obeys
    <3> QED
      BY <3>1, <3>2 DEF Common
  <2> QED
    BY <1>1, <2>1
<1>4. Eq(h)
  BY <1>3
<1>5. And = h
  BY DEF And
<1>6. Obeys(h, n)
  <2> HIDE DEF h
  <2>1. \A p \in Uint32 \X Uint32 :
          h[p] = IF p[1] = 0 THEN 0
                 ELSE (IF p[1] % 2 = 1 /\ p[2] % 2 = 1 THEN 1 ELSE 0)
                        + 2 * h[<<p[1] \div 2, p[2] \div 2>>]
    BY <1>4
  <2>2. ASSUME NEW i \in 0 .. n, NEW m \in Uint32
        PROVE  h[<<i, m>>] = IF i = 0 THEN 0 ELSE Common(i, m) + 2 * h[<<i \div 2, m \div 2>>]
    <3>1. <<i, m>> \in Uint32 \X Uint32
      BY <1>1
    <3> QED
      BY <2>1, <3>1 DEF Common
  <2> QED
    BY <2>2 DEF Obeys
<1> QED
  BY <1>1, <1>5, <1>6

(* The last bits and the rest, also for 0.                                 *)
LEMMA AndSplits ==
  ASSUME NEW i \in Uint32, NEW m \in Uint32
  PROVE  /\ And[<<0, m>>] = 0
         /\ And[<<i \div 2, m \div 2>>] = 0 /\ (i % 2 = 0 \/ m % 2 = 0) => And[<<i, m>>] = 0
<1>1. Wrap \in Nat \ {0} /\ i \in Nat /\ m \in Nat /\ i \in 0 .. Wrap - 1 /\ 0 \in 0 .. Wrap - 1
  BY UintIsNat DEF Uint32
<1>2. And[<<0, m>>] = 0
  BY <1>1, AndObeys DEF Obeys
<1>3. And[<<i, m>>] = IF i = 0 THEN 0 ELSE Common(i, m) + 2 * And[<<i \div 2, m \div 2>>]
  BY <1>1, AndObeys DEF Obeys
<1>4. ASSUME i % 2 = 0 \/ m % 2 = 0 PROVE Common(i, m) = 0
  BY <1>4 DEF Common
<1> QED
  BY <1>2, <1>3, <1>4

LEMMA AndZero ==
  ASSUME NEW i \in Uint32
  PROVE  And[<<i, 0>>] = 0
<1> DEFINE T == {k \in Uint32 : And[<<k, 0>>] # 0}
<1>0. 0 \in Uint32 /\ 0 \div 2 = 0 /\ 0 % 2 = 0
  BY UintIsNat DEF Uint32
<1>1. ASSUME T # {} PROVE FALSE
  <2>1. PICK k \in T : \A j \in T : k <= j
    BY <1>1, UintIsNat, Least
  <2>2. k \in Uint32 /\ k \in Nat /\ And[<<k, 0>>] # 0
    BY UintIsNat
  <2>3. k # 0
    BY <1>0, <2>2, AndSplits
  <2>4. PICK l \in Nat : l = k \div 2 /\ l < k /\ l \in Uint32
    BY <2>2, <2>3, Halves
  <2>5. And[<<l, 0>>] = 0
    <3>1. ~(k <= l)
      BY <2>2, <2>4
    <3> QED
      BY <2>1, <2>4, <3>1
  <2>6. And[<<k, 0>>] = 0
    BY <1>0, <2>2, <2>4, <2>5, AndSplits
  <2> QED
    BY <2>2, <2>6
<1> QED
  BY <1>1

(* Among m + 1 consecutive counters one has no bit in common with m.       *)
Meets(m) ==
  \A d \in Uint32 : d + m \in Uint32 => \E i \in d .. d + m : And[<<i, m>>] = 0

LEMMA MeetsFromHalf ==
  ASSUME NEW m \in Uint32, m # 0, Meets(m \div 2)
  PROVE  Meets(m)
<1> SUFFICES ASSUME NEW d \in Uint32, d + m \in Uint32
             PROVE  \E i \in d .. d + m : And[<<i, m>>] = 0
  BY DEF Meets
<1>1. d \in Nat /\ m \in Nat \ {0} /\ Wrap \in Nat /\ d + m <= Wrap - 1
  BY UintIsNat DEF Uint32
<1>2. PICK k \in Nat, c \in 0 .. 1 : k = m \div 2 /\ c = m % 2 /\ m = 2 * k + c
  BY <1>1, Halves
<1>3. PICK x0 \in Nat : IF c = 1 THEN 2 * x0 \in d .. d + 1 ELSE 2 * x0 \in d - 1 .. d
  <2>1. CASE c = 1
    <3>1. 2 * ((d + 1) \div 2) \in d .. d + 1 /\ (d + 1) \div 2 \in Nat
      BY <1>1
    <3> QED
      BY <2>1, <3>1
  <2>2. CASE c = 0
    <3>1. 2 * (d \div 2) \in d - 1 .. d /\ d \div 2 \in Nat
      BY <1>1
    <3> QED
      BY <2>2, <3>1
  <2> QED
    BY <2>1, <2>2
<1>4. x0 \in Uint32 /\ x0 + k \in Uint32
  <2>1. x0 + k <= d + m
    BY <1>1, <1>2, <1>3
  <2> QED
    BY <1>1, <2>1 DEF Uint32
<1>5. PICK x \in x0 .. x0 + k : And[<<x, k>>] = 0
  BY <1>2, <1>4 DEF Meets
<1>6. x \in Nat
  BY <1>5
<1>7. PICK i \in Nat : /\ i = 2 * x \/ i = 2 * x + 1
                       /\ i = 2 * x + 1 => c = 0
                       /\ i \in d .. d + m
  <2>1. CASE c = 1
    <3>1. 2 * x \in d .. d + m
      BY <1>1, <1>2, <1>3, <1>5, <2>1
    <3> QED
      BY <1>6, <3>1
  <2>2. CASE c = 0
    <3>1. 2 * x \in d .. d + m \/ 2 * x + 1 \in d .. d + m
      BY <1>1, <1>2, <1>3, <1>5, <2>2
    <3> QED
      BY <1>6, <2>2, <3>1
  <2> QED
    BY <2>1, <2>2
<1>8. i \div 2 = x /\ (i % 2 = 0 \/ m % 2 = 0)
  BY <1>2, <1>6, <1>7
<1>9. i \in Uint32
  BY <1>1, <1>7 DEF Uint32
<1>10. And[<<i, m>>] = 0
  BY <1>2, <1>5, <1>8, <1>9, AndSplits
<1> QED
  BY <1>7, <1>10

LEMMA AlwaysMeets ==
  ASSUME NEW m \in Uint32
  PROVE  Meets(m)
<1> DEFINE T == {k \in Uint32 : ~Meets(k)}
<1>1. ASSUME T # {} PROVE FALSE
  <2>1. PICK k \in T : \A j \in T : k <= j
    BY <1>1, UintIsNat, Least
  <2>2. k \in Uint32 /\ k \in Nat /\ ~Meets(k)
    BY UintIsNat
  <2>3. CASE k = 0
    <3>1. Meets(0)
      <4> SUFFICES ASSUME NEW d \in Uint32
                   PROVE  \E i \in d .. d + 0 : And[<<i, 0>>] = 0
        BY DEF Meets
      <4>1. d \in d .. d + 0
        BY UintIsNat
      <4> QED
        BY <4>1, AndZero
    <3> QED
      BY <2>2, <2>3, <3>1
  <2>4. CASE k # 0
    <3>1. PICK l \in Nat : l = k \div 2 /\ l < k /\ l \in Uint32
      BY <2>2, <2>4, Halves
    <3>2. Meets(l)
      <4>1. ~(k <= l)
        BY <2>2, <3>1
      <4> QED
        BY <2>1, <3>1, <4>1
    <3> QED
      BY <2>2, <2>4, <3>1, <3>2, MeetsFromHalf
  <2> QED
    BY <2>3, <2>4
<1> QED
  BY <1>1

-----------------------------------------------------------------------------
(* Boot and chains together implement the boot alone: a chain replaces no  *)
(* routine and no stride.                                                  *)
THEOREM ChainsKeepBoot == Spec => BootSpec
<1>1. Init => BootInit
  BY DEF Init
<1>2. [Next]_vars => [BootNext]_bootVars
  BY DEF Next, ChainNext, Start, ChunkCall, Iterate, Return, vars, chainVars
<1> QED
  BY <1>1, <1>2, PTL DEF Spec, BootSpec

(* So what is proved of the boot holds while chains run: the routines that *)
(* serve are sound and legal on this processor, switched-off kernels serve *)
(* nothing, what was measured earlier is still served, and a batch is no   *)
(* slower than its parts.                                                  *)
THEOREM ChainsAreSafe ==
  Spec => [](OnlySoundServe /\ NoIllegalInstruction /\ KillSwitches
               /\ EarlierStepsHold /\ BatchPays)
BY ChainsKeepBoot, OnlySoundKernelsServe, NeverIllegalInstruction, SwitchesKill,
   EarlierStepsAlwaysHold, BatchAlwaysPays, PTL

-----------------------------------------------------------------------------
(* The inductive invariant of a chain: it runs on a machine that has       *)
(* booted, has counted every hash, and keeps its distance to the last      *)
(* yield.                                                                  *)
Idle == path = nil => done = 0 /\ hashes = 0 /\ since = 0 /\ longest = 0

Counts ==
  path # nil =>
    /\ Ready
    /\ path \in Serving
    /\ done \in 1 .. Rounds
    /\ hashes = done
    /\ since \in 0 .. done - 1
    /\ longest \in Nat

(* On a path that loops inside the assembly a call starts with a yield.    *)
ByCalls ==
  path \in Chunked =>
    /\ done < Rounds => since = 0
    /\ riskYieldMask # Wrap - 1 => longest <= riskYieldMask + 1

(* On the others no counter since the last yield missed the mask.          *)
BySteps ==
  path \notin Chunked =>
    /\ \A i \in 1 .. since : And[<<done - i, riskYieldMask>>] # 0
    /\ longest <= riskYieldMask + 1

Chain ==
  /\ riskYieldMask \in Uint32
  /\ Idle
  /\ Counts
  /\ ByCalls
  /\ BySteps

IInv == BInv /\ Chain

LEMMA InitIInv == Init => IInv
<1> SUFFICES ASSUME Init PROVE IInv
  OBVIOUS
<1>1. MaxStride \in Nat /\ MaxStride < Wrap /\ MinStride \in Nat \ {0} /\ MinStride < MaxStride
      /\ Wrap \in Nat
  BY KernelBootAssumption
<1>0. BInv
  BY InitBInv DEF Init
<1>2. riskYieldMask \in Uint32
  <2>1. riskYieldMask = MaxStride \div 2 - 1
    BY DEF Init, BootInit, DefaultStride
  <2>2. MaxStride \div 2 - 1 \in 0 .. Wrap - 1
    BY <1>1
  <2> QED
    BY <2>1, <2>2 DEF Uint32
<1>3. riskYieldMask \in Nat
  BY <1>2, UintIsNat
<1> QED
  BY <1>0, <1>2, <1>3 DEF Init, IInv, Chain, Idle, Counts, ByCalls, BySteps, nil, Chunked

LEMMA BootKept == IInv /\ [Next]_vars => BInv'
<1> SUFFICES ASSUME IInv, [Next]_vars PROVE BInv'
  OBVIOUS
<1>1. [BootNext]_bootVars
  BY DEF Next, ChainNext, Start, ChunkCall, Iterate, Return, vars, chainVars
<1> QED
  BY <1>1, NextBInv DEF IInv, Chain

LEMMA RoutinesServe == BInv => Serving \subseteq Routines
<1> SUFFICES ASSUME BInv PROVE Serving \subseteq Routines
  OBVIOUS
<1>1. \A f \in Serving : f \in sound
  BY ServingFits DEF Fit
<1>2. sound \subseteq Routines
  BY KernelBootAssumption DEF BInv, World
<1> QED
  BY <1>1, <1>2

LEMMA NilDoesNotServe == BInv => nil \notin Serving
  BY RoutinesServe, NilIsNoRoutine

LEMMA BootStep ==
  ASSUME IInv, BootNext, UNCHANGED chainVars
  PROVE  Chain'
<1>1. ~Ready
  BY DEF BootNext, InitRiskKernel, CalibrateRisk, RaceKernelPairing,
         InitRiskKernelX4, InitRiskKernelX16, At
<1>2. /\ path = nil /\ path' = nil /\ UNCHANGED <<done, hashes, since, longest>>
      /\ done = 0 /\ hashes = 0 /\ since = 0 /\ longest = 0
  BY <1>1 DEF IInv, Chain, Counts, Idle, chainVars
<1>3. nil \notin Chunked
  BY DEF nil, Chunked
<1>4. riskYieldMask' \in Uint32
  <2>1. CASE CalibrateRisk
    <3>1. PICK s \in Strides : riskYieldMask' = IF s = 0 THEN Wrap - 1 ELSE s - 1
      BY <2>1 DEF CalibrateRisk
    <3>2. s \in 0 .. Wrap - 1
      <4>1. env.stride \in Int
        BY KernelBootAssumption DEF IInv, Chain, BInv, World
      <4>2. MinStride \in Nat /\ MaxStride \in Nat /\ Wrap \in Nat /\ MaxStride < Wrap
        BY KernelBootAssumption
      <4>3. CASE env.stride >= 0
        <5>1. s = env.stride % Wrap
          BY <3>1, <4>1, <4>3 DEF Strides, Unset
        <5> QED
          BY <4>1, <5>1, UintIsNat
      <4>4. CASE env.stride = Unset
        <5>1. s \in MinStride .. MaxStride
          BY <3>1, <4>1, <4>4 DEF Strides, Unset, CalibratedStrides
        <5> QED
          BY <4>2, <5>1
      <4>5. CASE ~(env.stride >= 0) /\ env.stride # Unset
        <5>1. s = MaxStride \div 2
          BY <3>1, <4>1, <4>5 DEF Strides, DefaultStride
        <5> QED
          BY <4>2, <5>1
      <4> QED
        BY <4>3, <4>4, <4>5
    <3>3. Wrap \in Nat \ {0}
      BY UintIsNat
    <3> QED
      BY <3>1, <3>2, <3>3 DEF Uint32
  <2>2. CASE ~CalibrateRisk
    BY <2>2 DEF IInv, Chain, BootNext, InitRiskKernel, RaceKernelPairing, InitRiskKernelX4,
                InitRiskKernelX16, calibration
  <2> QED
    BY <2>1, <2>2
<1>5. riskYieldMask' \in Nat
  BY <1>4, UintIsNat
<1>6. path' = nil /\ done' = 0 /\ hashes' = 0 /\ since' = 0 /\ longest' = 0
  BY <1>2
<1>7. Idle' /\ Counts' /\ ByCalls'
  BY <1>3, <1>6 DEF Idle, Counts, ByCalls
<1>8. BySteps'
  <2>1. PICK k \in Nat : k = riskYieldMask'
    BY <1>5
  <2>2. longest' <= k + 1
    BY <1>6
  <2>3. \A i \in 1 .. since' : FALSE
    BY <1>6
  <2> QED
    BY <2>1, <2>2, <2>3 DEF BySteps
<1> QED
  BY <1>4, <1>7, <1>8 DEF Chain

LEMMA SameBoot ==
  ASSUME UNCHANGED bootVars
  PROVE  riskYieldMask' = riskYieldMask /\ Ready' = Ready /\ Serving' = Serving
BY DEF bootVars, machine, lone, pairs, x16, calibration, Ready, Serving, Lone, Pair

LEMMA StartStep ==
  ASSUME IInv, Start
  PROVE  Chain'
<1>1. /\ Ready /\ path = nil /\ path' \in Serving /\ done' = 1 /\ hashes' = 1
      /\ UNCHANGED <<since, longest>> /\ UNCHANGED bootVars
  BY DEF Start
<1>2. riskYieldMask' = riskYieldMask /\ Ready' = Ready /\ Serving' = Serving
  BY <1>1, SameBoot
<1>3. since' = 0 /\ longest' = 0
  BY <1>1 DEF IInv, Chain, Idle
<1>4. riskYieldMask \in Nat /\ Rounds \in Nat \ {0}
  BY UintIsNat, HashChainAssumption DEF IInv, Chain
<1>6. Counts'
  BY <1>1, <1>2, <1>3, <1>4 DEF Counts
<1>7. ByCalls' /\ BySteps'
  BY <1>2, <1>3, <1>4 DEF ByCalls, BySteps
<1>8. Idle'
  <2>1. path' # nil
    <3>1. nil \notin Serving
      BY NilDoesNotServe DEF IInv, Chain
    <3> QED
      BY <1>1, <3>1
  <2> QED
    BY <2>1 DEF Idle
<1> QED
  BY <1>2, <1>6, <1>7, <1>8 DEF IInv, Chain

(* A call of the assembly does some of the rounds that are left, and no    *)
(* more of them than a stride, even if the stride overflowed to 0.         *)
LEMMA CallsFit ==
  ASSUME riskYieldMask \in Uint32, done \in 1 .. Rounds, done < Rounds
  PROVE  /\ CallLength \in Nat \ {0}
         /\ CallLength <= Rounds - done
         /\ riskYieldMask # Wrap - 1 => CallLength <= riskYieldMask + 1
<1> DEFINE stride == (riskYieldMask + 1) % Wrap
<1>1. /\ Wrap \in Nat \ {0} /\ Rounds \in Nat \ {0} /\ Rounds < Wrap
      /\ riskYieldMask \in Nat /\ riskYieldMask <= Wrap - 1
  BY UintIsNat, HashChainAssumption DEF Uint32
<1>2. stride \in Nat /\ (riskYieldMask # Wrap - 1 => stride = riskYieldMask + 1)
  BY <1>1
<1>3. CallLength = IF stride # 0 /\ Rounds - done > stride THEN stride ELSE Rounds - done
  BY DEF CallLength
<1> HIDE DEF stride
<1> QED
  BY <1>1, <1>2, <1>3

LEMMA ChunkStep ==
  ASSUME IInv, ChunkCall
  PROVE  Chain'
<1>1. /\ path \in Chunked /\ done < Rounds
      /\ done' = (done + CallLength) % Wrap
      /\ hashes' = hashes + CallLength
      /\ since' = IF done' < Rounds THEN 0 ELSE since + CallLength
      /\ longest' = Longer(CallLength)
      /\ UNCHANGED bootVars /\ path' = path /\ path # nil
  BY DEF ChunkCall, Chunked, nil
<1>2. riskYieldMask' = riskYieldMask /\ Ready' = Ready /\ Serving' = Serving
  BY <1>1, SameBoot
<1>3. /\ Ready /\ path \in Serving
      /\ done \in 1 .. Rounds /\ hashes = done /\ longest \in Nat /\ since = 0
  BY <1>1 DEF IInv, Chain, Counts, ByCalls
<1>4. /\ Wrap \in Nat \ {0} /\ Rounds \in Nat \ {0} /\ Rounds < Wrap
      /\ riskYieldMask \in Nat /\ riskYieldMask <= Wrap - 1
  BY UintIsNat, HashChainAssumption DEF IInv, Chain, Uint32
<1>5. PICK n \in Nat \ {0} : /\ n = CallLength /\ n <= Rounds - done
                             /\ riskYieldMask # Wrap - 1 => n <= riskYieldMask + 1
  BY <1>1, <1>3, CallsFit DEF IInv, Chain
<1>6. done' = done + n /\ done' \in 1 .. Rounds /\ hashes' = done'
  BY <1>1, <1>3, <1>4, <1>5
<1>7. since' \in 0 .. done' - 1 /\ (done' < Rounds => since' = 0)
  BY <1>1, <1>3, <1>5, <1>6
<1>8. longest' \in Nat /\ (riskYieldMask # Wrap - 1 => longest' <= riskYieldMask + 1)
  <2>1. riskYieldMask # Wrap - 1 => longest <= riskYieldMask + 1
    BY <1>1 DEF IInv, Chain, ByCalls
  <2>2. longest' = IF n > longest THEN n ELSE longest
    BY <1>1, <1>3, <1>5 DEF Longer
  <2> QED
    BY <1>3, <1>4, <1>5, <2>1, <2>2
<1>9. Counts'
  BY <1>1, <1>2, <1>3, <1>6, <1>7, <1>8 DEF Counts
<1>10. ByCalls' /\ BySteps' /\ Idle'
  BY <1>1, <1>2, <1>7, <1>8 DEF ByCalls, BySteps, Idle
<1> QED
  BY <1>2, <1>9, <1>10 DEF IInv, Chain

(* A chain that misses the mask has not missed it for long.                *)
LEMMA MissesAreShort ==
  ASSUME IInv, path # nil, path \notin Chunked
  PROVE  since <= riskYieldMask
<1>1. /\ done \in Nat /\ since \in Nat /\ since <= done - 1 /\ done <= Rounds
      /\ Rounds \in Nat /\ Rounds < Wrap /\ Wrap \in Nat
      /\ riskYieldMask \in Nat /\ riskYieldMask \in Uint32
  BY UintIsNat, HashChainAssumption DEF IInv, Chain, Counts
<1>2. SUFFICES ASSUME riskYieldMask < since PROVE FALSE
  BY <1>1
<1>3. PICK d \in Nat : d = done - (riskYieldMask + 1)
  <2>1. done - (riskYieldMask + 1) \in Nat
    BY <1>1, <1>2
  <2> QED
    BY <2>1
<1>4. d \in Uint32 /\ d + riskYieldMask \in Uint32
  BY <1>1, <1>3 DEF Uint32
<1>5. PICK i \in d .. d + riskYieldMask : And[<<i, riskYieldMask>>] = 0
  BY <1>1, <1>4, AlwaysMeets DEF Meets
<1>6. done - i \in 1 .. since /\ done - (done - i) = i
  BY <1>1, <1>2, <1>3, <1>5
<1> QED
  BY <1>5, <1>6 DEF IInv, Chain, BySteps

LEMMA IterateStep ==
  ASSUME IInv, Iterate
  PROVE  Chain'
<1>1. /\ path \notin Chunked /\ done < Rounds
      /\ done' = (done + 1) % Wrap
      /\ hashes' = hashes + 1
      /\ since' = IF And[<<done, riskYieldMask>>] = 0 THEN 0 ELSE since + 1
      /\ longest' = Longer(1)
      /\ UNCHANGED bootVars /\ path' = path /\ path # nil
  BY NilIsNoRoutine DEF Iterate
<1>2. riskYieldMask' = riskYieldMask /\ Ready' = Ready /\ Serving' = Serving
  BY <1>1, SameBoot
<1>3. /\ Ready /\ path \in Serving
      /\ done \in 1 .. Rounds /\ hashes = done /\ longest \in Nat /\ since \in 0 .. done - 1
  BY <1>1 DEF IInv, Chain, Counts
<1>4. /\ Wrap \in Nat \ {0} /\ Rounds \in Nat \ {0} /\ Rounds < Wrap /\ riskYieldMask \in Nat
  BY UintIsNat, HashChainAssumption DEF IInv, Chain
<1>5. done' = done + 1 /\ done' \in 1 .. Rounds /\ hashes' = done'
  BY <1>1, <1>3, <1>4
<1>6. since <= riskYieldMask
  BY <1>1, MissesAreShort
<1>7. longest' \in Nat /\ longest' <= riskYieldMask + 1
  <2>1. longest <= riskYieldMask + 1
    BY <1>1 DEF IInv, Chain, BySteps
  <2> QED
    BY <1>1, <1>3, <1>4, <1>6, <2>1 DEF Longer
<1>8. since' \in 0 .. done' - 1
  BY <1>1, <1>3, <1>5
<1>9. \A i \in 1 .. since' : And[<<done' - i, riskYieldMask>>] # 0
  <2> SUFFICES ASSUME NEW i \in 1 .. since' PROVE And[<<done' - i, riskYieldMask>>] # 0
    OBVIOUS
  <2>1. And[<<done, riskYieldMask>>] # 0 /\ since' = since + 1
    BY <1>1
  <2>2. CASE i = 1
    <3>1. done' - i = done
      BY <1>3, <1>5, <2>2
    <3> QED
      BY <2>1, <3>1
  <2>3. CASE i # 1
    <3>1. i - 1 \in 1 .. since /\ done' - i = done - (i - 1)
      BY <1>3, <1>5, <2>1, <2>3
    <3> QED
      BY <1>1, <3>1 DEF IInv, Chain, BySteps
  <2> QED
    BY <2>2, <2>3
<1>10. Counts'
  BY <1>1, <1>2, <1>3, <1>5, <1>7, <1>8 DEF Counts
<1>11. ByCalls' /\ BySteps' /\ Idle'
  BY <1>1, <1>2, <1>7, <1>9 DEF ByCalls, BySteps, Idle
<1> QED
  BY <1>2, <1>10, <1>11 DEF IInv, Chain

LEMMA ReturnStep ==
  ASSUME IInv, Return
  PROVE  Chain'
<1>1. /\ path' = nil /\ done' = 0 /\ hashes' = 0 /\ since' = 0 /\ longest' = 0
      /\ riskYieldMask' = riskYieldMask
  BY SameBoot DEF Return
<1>2. riskYieldMask \in Nat /\ nil \notin Chunked
  BY UintIsNat DEF IInv, Chain, nil, Chunked
<1> QED
  BY <1>1, <1>2 DEF IInv, Chain, Idle, Counts, ByCalls, BySteps

LEMMA NextIInv == IInv /\ [Next]_vars => IInv'
<1> SUFFICES ASSUME IInv, [Next]_vars PROVE Chain'
  BY BootKept DEF IInv
<1>1. CASE BootNext /\ UNCHANGED chainVars
  BY <1>1, BootStep
<1>2. CASE Start
  BY <1>2, StartStep
<1>3. CASE ChunkCall
  BY <1>3, ChunkStep
<1>4. CASE Iterate
  BY <1>4, IterateStep
<1>5. CASE Return
  BY <1>5, ReturnStep
<1>6. CASE UNCHANGED vars
  <2>1. UNCHANGED bootVars /\ UNCHANGED chainVars
    BY <1>6 DEF vars
  <2>2. riskYieldMask' = riskYieldMask /\ Ready' = Ready /\ Serving' = Serving
    BY <2>1, SameBoot
  <2> QED
    BY <2>1, <2>2 DEF IInv, Chain, Idle, Counts, ByCalls, BySteps, chainVars
<1> QED
  BY <1>1, <1>2, <1>3, <1>4, <1>5, <1>6 DEF Next, ChainNext

LEMMA SpecIInv == Spec => []IInv
<1> QED
  BY InitIInv, NextIInv, PTL DEF Spec

(* On every path and for every stride a chain is exactly Rounds hashes.    *)
THEOREM AlwaysRoundsExact == Spec => []RoundsExact
<1>1. IInv => RoundsExact
  BY HashChainAssumption DEF IInv, Chain, Counts, RoundsExact
<1> QED
  BY <1>1, SpecIInv, PTL

(* On every path and for every mask that does not disable yielding, no run *)
(* without a yield is longer than mask + 1 iterations.                     *)
THEOREM AlwaysYieldsInTime == Spec => []YieldsInTime
<1>1. IInv => YieldsInTime
  BY DEF IInv, Chain, ByCalls, BySteps, YieldsInTime
<1> QED
  BY <1>1, SpecIInv, PTL

(* What makes every chain end: at each moment one of its three steps can   *)
(* be taken, and each that does not end it does at least one of the rounds *)
(* that are left; an overflowed stride neither stalls the loop nor turns   *)
(* it back.                                                                *)
CanMove ==
  path # nil => \/ path \in Chunked /\ done < Rounds
                \/ path \in Routines \ Chunked /\ done < Rounds
                \/ done >= Rounds

Advances ==
  path # nil /\ path' # nil /\ chainVars' # chainVars
    => path' = path /\ done < done' /\ done' <= Rounds

THEOREM ChainsAdvance == Spec => []CanMove /\ [][Advances]_vars
<1>1. ASSUME IInv PROVE CanMove
  <2>1. path # nil => path \in Routines
    BY <1>1, RoutinesServe DEF IInv, Chain, Counts
  <2>2. path # nil => (done < Rounds \/ done >= Rounds)
    <3>1. path # nil => done \in 1 .. Rounds
      BY <1>1 DEF IInv, Chain, Counts
    <3>2. Rounds \in Nat
      BY HashChainAssumption, UintIsNat
    <3> QED
      BY <3>1, <3>2
  <2> QED
    BY <2>1, <2>2 DEF CanMove
<1>2. ASSUME IInv, IInv', [Next]_vars PROVE Advances
  <2> SUFFICES ASSUME path # nil, path' # nil, chainVars' # chainVars
               PROVE  path' = path /\ done < done' /\ done' <= Rounds
    BY DEF Advances
  <2>1. /\ done \in 1 .. Rounds /\ hashes = done
        /\ done' \in 1 .. Rounds /\ hashes' = done' /\ Rounds \in Nat
    BY <1>2, HashChainAssumption, UintIsNat DEF IInv, Chain, Counts
  <2>2. PICK n \in Nat \ {0} : hashes' = hashes + n /\ path' = path
    <3>1. CASE ChunkCall
      <4>1. CallLength \in Nat \ {0}
        BY <1>2, <2>1, <3>1, CallsFit DEF IInv, Chain, ChunkCall
      <4> QED
        BY <3>1, <4>1 DEF ChunkCall
    <3>2. CASE Iterate
      BY <3>2 DEF Iterate
    <3> QED
      BY <1>2, <3>1, <3>2 DEF Next, ChainNext, Start, Return, vars
  <2> QED
    BY <2>1, <2>2
<1> QED
  BY <1>1, <1>2, SpecIInv, NextIInv, PTL DEF Spec

=============================================================================
