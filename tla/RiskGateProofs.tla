--------------------------- MODULE RiskGateProofs ---------------------------
(***************************************************************************)
(* What the admission gate promises for any number of requests and         *)
(* workers, any kernels, patience windows and budget.                      *)
(***************************************************************************)
EXTENDS RiskGate, FiniteSetTheorems, SequenceTheorems, TLAPS

-----------------------------------------------------------------------------
(* The stack: what a push and a pop do to the set of waiters in line.      *)

Elems(s) == {s[i] : i \in DOMAIN s}
Distinct(s) == \A i, j \in DOMAIN s : s[i] = s[j] => i = j

LEMMA PushEffect ==
  ASSUME NEW s \in Seq(Reqs), NEW r \in Reqs
  PROVE  LET t == <<r>> \o s
         IN  /\ t \in Seq(Reqs)
             /\ t # <<>>
             /\ Elems(t) = Elems(s) \cup {r}
             /\ Distinct(s) /\ r \notin Elems(s) => Distinct(t)
<1> DEFINE t == <<r>> \o s
<1>1. <<r>> \in Seq(Reqs) /\ Len(<<r>>) = 1 /\ <<r>>[1] = r
  OBVIOUS
<1>2. /\ t \in Seq(Reqs)
      /\ Len(t) = 1 + Len(s)
      /\ \A i \in 1 .. 1 + Len(s) : t[i] = IF i <= 1 THEN r ELSE s[i - 1]
  BY <1>1, ConcatProperties
<1>3. Len(s) \in Nat /\ DOMAIN s = 1 .. Len(s) /\ DOMAIN t = 1 .. 1 + Len(s)
  BY <1>2, LenProperties
<1> HIDE DEF t
<1>4. Elems(t) = Elems(s) \cup {r}
  <2>1. \A i \in DOMAIN s : i + 1 \in DOMAIN t /\ t[i + 1] = s[i]
    BY <1>2, <1>3
  <2>2. 1 \in DOMAIN t /\ t[1] = r
    BY <1>2, <1>3
  <2>3. \A i \in DOMAIN t : t[i] = r \/ (i - 1 \in DOMAIN s /\ t[i] = s[i - 1])
    BY <1>2, <1>3
  <2> QED
    BY <2>1, <2>2, <2>3 DEF Elems
<1>5. ASSUME Distinct(s), r \notin Elems(s) PROVE Distinct(t)
  <2> SUFFICES ASSUME NEW i \in DOMAIN t, NEW j \in DOMAIN t, t[i] = t[j]
               PROVE  i = j
    BY DEF Distinct
  <2>1. \A k \in DOMAIN s : s[k] # r
    BY <1>5 DEF Elems
  <2>2. \A k \in DOMAIN t : (k = 1 /\ t[k] = r) \/ (k - 1 \in DOMAIN s /\ t[k] = s[k - 1])
    BY <1>2, <1>3
  <2>3. i \in Int /\ j \in Int
    BY <1>3
  <2>4. CASE i - 1 \in DOMAIN s /\ j - 1 \in DOMAIN s /\ t[i] = s[i - 1] /\ t[j] = s[j - 1]
    <3>1. i - 1 = j - 1
      BY <1>5, <2>4 DEF Distinct
    <3> QED
      BY <2>3, <3>1
  <2> QED
    BY <2>1, <2>2, <2>4
<1>6. t # <<>>
  BY <1>2, <1>3
<1> QED
  BY <1>2, <1>4, <1>5, <1>6 DEF t

LEMMA PopEffect ==
  ASSUME NEW s \in Seq(Reqs), NEW n \in 0 .. Len(s)
  PROVE  LET t == SubSeq(s, n + 1, Len(s))
             p == {s[i] : i \in 1 .. n}
         IN  /\ t \in Seq(Reqs)
             /\ p \subseteq Reqs
             /\ Elems(s) = p \cup Elems(t)
             /\ Distinct(s) => p \cap Elems(t) = {} /\ Distinct(t)
<1> DEFINE t == SubSeq(s, n + 1, Len(s))
           p == {s[i] : i \in 1 .. n}
<1>1. Len(s) \in Nat /\ n \in Int /\ DOMAIN s = 1 .. Len(s)
  BY LenProperties
<1>2. \A i \in 1 .. Len(s) : s[i] \in Reqs
  BY ElementOfSeq
<1>3. /\ t \in Seq(Reqs)
      /\ Len(t) = IF n + 1 <= Len(s) THEN Len(s) - (n + 1) + 1 ELSE 0
      /\ \A i \in 1 .. Len(s) - (n + 1) + 1 : t[i] = s[(n + 1) + i - 1]
  <2>1. n + 1 \in Int /\ Len(s) \in Int /\ \A i \in n + 1 .. Len(s) : s[i] \in Reqs
    BY <1>1, <1>2
  <2> QED
    BY <2>1, SubSeqProperties
<1> HIDE DEF t, p
<1>4. DOMAIN t = 1 .. Len(s) - n
  <2>1. Len(t) = IF n + 1 <= Len(s) THEN Len(s) - (n + 1) + 1 ELSE 0
    BY <1>3
  <2>2. 0 <= n /\ n <= Len(s)
    BY <1>1
  <2>3. Len(t) = Len(s) - n
    <3> DEFINE m == Len(s)
               l == Len(t)
    <3>1. n \in Int /\ m \in Int
      BY <1>1
    <3>2. n <= m
      BY <2>2
    <3>3. l = IF n + 1 <= m THEN m - (n + 1) + 1 ELSE 0
      BY <2>1
    <3> HIDE DEF m, l
    <3>4. l = m - n
      BY <3>1, <3>2, <3>3
    <3> QED
      BY <3>4 DEF m, l
  <2> QED
    BY <1>3, <2>3, LenProperties
<1>5. \A i \in DOMAIN t : n + i \in DOMAIN s /\ t[i] = s[n + i] /\ n + i > n
  <2> TAKE i \in DOMAIN t
  <2>1. i \in Int /\ 1 <= i /\ i <= Len(s) - n /\ 0 <= n
    BY <1>1, <1>4
  <2>2. i \in 1 .. Len(s) - (n + 1) + 1 /\ (n + 1) + i - 1 = n + i
    BY <1>1, <2>1
  <2>3. t[i] = s[(n + 1) + i - 1]
    BY <1>3, <2>2
  <2>4. n + i \in 1 .. Len(s) /\ n + i > n
    BY <1>1, <2>1
  <2> QED
    BY <1>1, <2>2, <2>3, <2>4
<1> USE DEF p
<1>6. p \subseteq Reqs
  BY <1>1, <1>2
<1>7. Elems(s) = p \cup Elems(t)
  <2>1. \A i \in DOMAIN s : i \in 1 .. n \/ (i - n \in DOMAIN t /\ t[i - n] = s[i])
    BY <1>1, <1>4, <1>5
  <2>2. 1 .. n \subseteq DOMAIN s
    BY <1>1
  <2> QED
    BY <1>5, <2>1, <2>2 DEF Elems
<1>8. ASSUME Distinct(s) PROVE p \cap Elems(t) = {} /\ Distinct(t)
  <2>1. ASSUME NEW i \in 1 .. n, NEW j \in DOMAIN t PROVE s[i] # t[j]
    BY <1>1, <1>5, <1>8 DEF Distinct
  <2>2. ASSUME NEW i \in DOMAIN t, NEW j \in DOMAIN t, t[i] = t[j] PROVE i = j
    <3>1. n + i = n + j
      BY <1>5, <1>8, <2>2 DEF Distinct
    <3> QED
      BY <1>1, <1>4, <3>1
  <2> QED
    BY <2>1, <2>2 DEF Elems, Distinct
<1> QED
  BY <1>3, <1>6, <1>7, <1>8 DEF t

LEMMA OnStackElems == OnStack = Elems(stack)
  BY DEF OnStack, Elems

-----------------------------------------------------------------------------
(* Types.                                                                  *)

(* What one take pops.                                                     *)
LEMMA PoppedFinite ==
  ASSUME TypeOK, NEW n \in 0 .. Len(stack)
  PROVE  /\ Popped(n) \subseteq Reqs
         /\ LiveOf(n) \subseteq Popped(n) /\ StaleOf(n) \subseteq Popped(n)
         /\ IsFiniteSet(StaleOf(n))
         /\ Cardinality(StaleOf(n)) \in Nat
<1>1. Popped(n) \subseteq Reqs
  BY PopEffect DEF TypeOK, Popped
<1>2. LiveOf(n) \subseteq Popped(n) /\ StaleOf(n) \subseteq Popped(n)
  BY DEF LiveOf, StaleOf
<1>3. StaleOf(n) \in SUBSET Reqs
  BY <1>1, <1>2
<1> QED
  BY <1>1, <1>2, <1>3, GateAssumption, FS_Subset, FS_CardinalityType

LEMMA InitTypeOK == Init => TypeOK
  BY GateAssumption DEF Init, TypeOK, RStates, WStates

LEMMA NextTypeOK == TypeOK /\ [Next]_vars => TypeOK'
<1> SUFFICES ASSUME TypeOK, [Next]_vars PROVE TypeOK'
  OBVIOUS
<1> USE GateAssumption DEF TypeOK, Go, GoW, waiters, workers, RStates, WStates
<1>1. ASSUME NEW r \in Reqs, SubmitBackstop(r) PROVE TypeOK'
  BY <1>1 DEF SubmitBackstop
<1>2. ASSUME NEW r \in Reqs, SubmitShed(r) PROVE TypeOK'
  BY <1>2 DEF SubmitShed
<1>3. ASSUME NEW r \in Reqs, SubmitPush(r) PROVE TypeOK'
  <2>1. stack' \in Seq(Reqs)
    BY <1>3, PushEffect DEF SubmitPush
  <2> QED
    BY <1>3, <2>1 DEF SubmitPush
<1>4. ASSUME NEW r \in Reqs, Wake(r) PROVE TypeOK'
  <2>1. wpc' \in [Workers -> WStates] /\ UNCHANGED <<lanes, work, batch>>
    BY <1>4 DEF Wake
  <2>2. tokens' \in 0 .. WakeCap
    BY <1>4 DEF Wake
  <2>3. timer' \in [Reqs -> Nat] /\ rpc' \in [Reqs -> RStates]
    BY <1>4 DEF Wake
  <2> QED
    BY <1>4, <2>1, <2>2, <2>3 DEF Wake
<1>5. ASSUME NEW r \in Reqs, Receive(r) PROVE TypeOK'
  BY <1>5 DEF Receive
<1>6. ASSUME NEW r \in Reqs, SeeDisconnect(r) PROVE TypeOK'
  BY <1>6 DEF SeeDisconnect
<1>7. ASSUME NEW r \in Reqs, PatienceShed(r) PROVE TypeOK'
  BY <1>7 DEF PatienceShed
<1>8. ASSUME NEW r \in Reqs, PatienceDenied(r) PROVE TypeOK'
  BY <1>8 DEF PatienceDenied
<1>9. ASSUME NEW r \in Reqs, LeaveTaken(r) PROVE TypeOK'
  BY <1>9 DEF LeaveTaken
<1>10. ASSUME NEW r \in Reqs, LeaveAbandoned(r) PROVE TypeOK'
  BY <1>10 DEF LeaveAbandoned
<1>11. ASSUME NEW r \in Reqs, Refund(r) PROVE TypeOK'
  BY <1>11 DEF Refund
<1>12. ASSUME NEW r \in Reqs, ReceiveOwned(r) PROVE TypeOK'
  BY <1>12 DEF ReceiveOwned
<1>13. ASSUME NEW r \in Reqs, Charge(r) PROVE TypeOK'
  BY <1>13 DEF Charge
<1>14. ASSUME NEW r \in Reqs, Respond(r) PROVE TypeOK'
  BY <1>14 DEF Respond
<1>15. ASSUME NEW r \in Reqs, ClientGoes(r) PROVE TypeOK'
  BY <1>15 DEF ClientGoes
<1>16. ASSUME NEW w \in Workers, DecideLanes(w) PROVE TypeOK'
  BY <1>16 DEF DecideLanes
<1>17. ASSUME NEW w \in Workers, riskTakeWork(w) PROVE TypeOK'
  <2>1. PICK n \in 0 .. Len(stack) :
          /\ stack' = SubSeq(stack, n + 1, Len(stack))
          /\ taken' = [r \in Reqs |-> taken[r] \/ r \in LiveOf(n)]
          /\ skipped' = [r \in Reqs |-> skipped[r] \/ r \in StaleOf(n)]
          /\ respErr' = respErr + Cardinality(StaleOf(n))
          /\ work' = [work EXCEPT ![w] = LiveOf(n)]
          /\ GoW(w, IF LiveOf(n) = {} THEN "park" ELSE "hash")
    BY <1>17 DEF riskTakeWork
  <2>2. stack' \in Seq(Reqs)
    BY <2>1, PopEffect
  <2>3. LiveOf(n) \in SUBSET Reqs
    BY PoppedFinite
  <2>4. respErr' \in Int
    BY <2>1, PoppedFinite
  <2>5. taken' \in [Reqs -> BOOLEAN] /\ skipped' \in [Reqs -> BOOLEAN]
    BY <2>1, Zenon
  <2>6. work' \in [Workers -> SUBSET Reqs] /\ wpc' \in [Workers -> WStates]
    BY <2>1, <2>3
  <2> QED
    BY <1>17, <2>2, <2>4, <2>5, <2>6 DEF riskTakeWork
<1>18. ASSUME NEW w \in Workers, Park(w) PROVE TypeOK'
  BY <1>18 DEF Park
<1>19. ASSUME NEW w \in Workers, RecvToken(w) PROVE TypeOK'
  <2>1. tokens' \in 0 .. WakeCap
    BY <1>19 DEF RecvToken
  <2>2. CASE tokens > 0 /\ GoW(w, "woken")
    BY <1>19, <2>1, <2>2 DEF RecvToken
  <2>3. CASE tokens = 0 /\ GoW(w, "blocked")
    BY <1>19, <2>1, <2>3 DEF RecvToken
  <2> QED
    BY <1>19, <2>2, <2>3 DEF RecvToken
<1>20. ASSUME NEW w \in Workers, Unpark(w) PROVE TypeOK'
  BY <1>20 DEF Unpark
<1>21. ASSUME NEW w \in Workers, Hash(w) PROVE TypeOK'
  BY <1>21 DEF Hash
<1>22. ASSUME NEW w \in Workers, Deliver(w) PROVE TypeOK'
  BY <1>22 DEF Deliver
<1>23. CASE OtherOK
  BY <1>23 DEF OtherOK
<1>24. CASE Tick
  BY <1>24 DEF Tick
<1>25. CASE UNCHANGED vars
  BY <1>25 DEF vars
<1> QED
  BY <1>1, <1>2, <1>3, <1>4, <1>5, <1>6, <1>7, <1>8, <1>9, <1>10, <1>11,
     <1>12, <1>13, <1>14, <1>15, <1>16, <1>17, <1>18, <1>19, <1>20, <1>21,
     <1>22, <1>23, <1>24, <1>25
  DEF Next, RequestNext, WorkerNext, Submit, Patience, Leave, Finish, Quiet

-----------------------------------------------------------------------------
(* The inductive invariant.                                                *)

Charged == {r \in Reqs : charge[r] # "none"}
Reserved == {r \in Reqs : charge[r] = "reserved"}
Skipped == {r \in Reqs : skipped[r]}

(* Where a request's goroutine is tells how its error is charged.          *)
ChargePlace ==
  \A r \in Reqs :
    /\ rpc[r] \in {"new", "wake", "wait", "owned", "charge", "served", "ok"}
         => charge[r] = "none"
    /\ rpc[r] = "refund" => charge[r] = "reserved"
    /\ rpc[r] = "leave" => charge[r] \in {"none", "reserved"}
    /\ rpc[r] = "shed" => charge[r] # "none"

(* A waiter is in line once at most; in line, taken, skipped and refused   *)
(* exclude each other, but for the abandoned waiters still linked.         *)
InLine ==
  /\ Distinct(stack)
  /\ \A r \in Reqs :
       /\ rpc[r] = "new" => ~taken[r] /\ ~skipped[r] /\ r \notin Elems(stack)
       /\ taken[r] => /\ ~abandoned[r]
                      /\ ~skipped[r]
                      /\ r \notin Elems(stack)
                      /\ rpc[r] \notin {"charge", "shed"}
       /\ skipped[r] => r \notin Elems(stack)
       /\ r \in Elems(stack) /\ rpc[r] \in {"charge", "shed"} => abandoned[r]

(* Whoever holds or has received a digest belongs to a taken waiter.       *)
Owed ==
  /\ \A r \in Reqs :
       full[r] \/ rpc[r] \in {"refund", "owned", "served", "ok"} => taken[r]
  /\ \A w \in Workers : \A r \in work[w] \cup batch[w] : taken[r]

(* respErr is the charges that stand.                                      *)
Balance == respErr = Cardinality(Charged) + Cardinality(Skipped)

Inv == TypeOK /\ ChargePlace /\ InLine /\ Owed

-----------------------------------------------------------------------------
(* What one take does, with L the waiters it takes and S those it charges  *)
(* as stale.                                                               *)
TakeStep(w, L, S) ==
  /\ L \cap S = {}
  /\ L \cup S \subseteq Elems(stack)
  /\ \A r \in L \cup S : ~abandoned[r]
  /\ stack' \in Seq(Reqs)
  /\ Elems(stack') \subseteq Elems(stack)
  /\ Distinct(stack')
  /\ (L \cup S) \cap Elems(stack') = {}
  /\ taken' = [r \in Reqs |-> taken[r] \/ r \in L]
  /\ skipped' = [r \in Reqs |-> skipped[r] \/ r \in S]
  /\ respErr' = respErr + Cardinality(S)
  /\ work' = [work EXCEPT ![w] = L]
  /\ wpc' = [wpc EXCEPT ![w] = IF L = {} THEN "park" ELSE "hash"]
  /\ L = {} => stack' = <<>>
  /\ L # {} => Len(stack') \in Nat /\ Len(stack') <= Len(stack) - 1
  /\ UNCHANGED <<tokens, abandoned, full, rpc, charge, batch, respOK>>

LEMMA TakeEffect ==
  ASSUME TypeOK, Distinct(stack), NEW w \in Workers, riskTakeWork(w)
  PROVE  \E L, S \in SUBSET Reqs : IsFiniteSet(S) /\ TakeStep(w, L, S)
<1>1. PICK n \in 0 .. Len(stack) :
        /\ StopsAt(n, lanes[w])
        /\ stack' = SubSeq(stack, n + 1, Len(stack))
        /\ taken' = [r \in Reqs |-> taken[r] \/ r \in LiveOf(n)]
        /\ skipped' = [r \in Reqs |-> skipped[r] \/ r \in StaleOf(n)]
        /\ respErr' = respErr + Cardinality(StaleOf(n))
        /\ work' = [work EXCEPT ![w] = LiveOf(n)]
        /\ GoW(w, IF LiveOf(n) = {} THEN "park" ELSE "hash")
  BY DEF riskTakeWork
<1>2. stack \in Seq(Reqs) /\ lanes[w] \in Nat \ {0}
  BY DEF TypeOK
<1>3. /\ stack' \in Seq(Reqs)
      /\ Elems(stack) = Popped(n) \cup Elems(stack')
      /\ Popped(n) \cap Elems(stack') = {}
      /\ Distinct(stack')
  BY <1>1, <1>2, PopEffect DEF Popped
<1>4. /\ LiveOf(n) \cap StaleOf(n) = {}
      /\ \A r \in LiveOf(n) \cup StaleOf(n) : ~abandoned[r]
  <2>1. \A r \in LiveOf(n) : ~Dead(r) /\ age[r] <= patience
    BY DEF LiveOf, Live
  <2>2. \A r \in StaleOf(n) : ~Dead(r) /\ age[r] > patience
    BY DEF StaleOf, Stale
  <2>3. patience \in Nat /\ \A r \in LiveOf(n) : age[r] \in Nat
    BY PoppedFinite, GateAssumption DEF TypeOK
  <2>4. \A r : ~Dead(r) => ~abandoned[r]
    BY DEF Dead
  <2> QED
    BY <2>1, <2>2, <2>3, <2>4
<1>5. LiveOf(n) \in SUBSET Reqs /\ StaleOf(n) \in SUBSET Reqs /\ IsFiniteSet(StaleOf(n))
  BY PoppedFinite
<1>6. ASSUME LiveOf(n) = {} PROVE stack' = <<>>
  <2>1. Cardinality(LiveOf(n)) = 0
    BY <1>6, FS_EmptySet
  <2>2. n = Len(stack)
    BY <1>1, <1>2, <2>1 DEF StopsAt
  <2>3. Len(stack) \in Int /\ n + 1 \in Int /\ Len(stack) < n + 1
    BY <1>2, <2>2, LenProperties
  <2> QED
    BY <1>1, <2>3, SubSeqEmpty
<1>7. ASSUME LiveOf(n) # {} PROVE Len(stack') \in Nat /\ Len(stack') <= Len(stack) - 1
  <2> DEFINE m == Len(stack)
             l == Len(stack')
  <2>1. Popped(n) # {}
    BY <1>7 DEF LiveOf
  <2>2. n >= 1
    BY <2>1 DEF Popped
  <2>3. m \in Nat /\ n \in Int /\ n <= m
    BY <1>2, LenProperties
  <2>4. \A i \in n + 1 .. m : stack[i] \in Reqs
    <3>1. \A i \in 1 .. m : stack[i] \in Reqs
      BY <1>2, ElementOfSeq
    <3> HIDE DEF m
    <3> QED
      BY <2>2, <2>3, <3>1
  <2>5. l = IF n + 1 <= m THEN m - (n + 1) + 1 ELSE 0
    BY <1>1, <2>3, <2>4, SubSeqProperties
  <2> HIDE DEF m, l
  <2>6. l \in Nat /\ l <= m - 1
    BY <2>2, <2>3, <2>5
  <2> QED
    BY <2>6 DEF m, l
<1>8. TakeStep(w, LiveOf(n), StaleOf(n))
  <2>1. LiveOf(n) \cup StaleOf(n) \subseteq Popped(n)
    BY DEF LiveOf, StaleOf
  <2>2. UNCHANGED <<tokens, abandoned, full, rpc, charge, batch, respOK>>
    BY DEF riskTakeWork
  <2>3. wpc' = [wpc EXCEPT ![w] = IF LiveOf(n) = {} THEN "park" ELSE "hash"]
    BY <1>1 DEF GoW
  <2> QED
    BY <1>1, <1>3, <1>4, <1>6, <1>7, <2>1, <2>2, <2>3 DEF TakeStep
<1> QED
  BY <1>5, <1>8

(* Every exit charges once.                                                *)
LEMMA NextChargePlace ==
  ASSUME TypeOK, ChargePlace, [Next]_vars
  PROVE  ChargePlace'
<1> USE DEF TypeOK, ChargePlace, Go, waiters
<1>1. ASSUME NEW r \in Reqs, SubmitBackstop(r) PROVE ChargePlace'
  BY <1>1 DEF SubmitBackstop
<1>2. ASSUME NEW r \in Reqs, SubmitShed(r) PROVE ChargePlace'
  BY <1>2 DEF SubmitShed
<1>3. ASSUME NEW r \in Reqs, SubmitPush(r) PROVE ChargePlace'
  BY <1>3 DEF SubmitPush
<1>4. ASSUME NEW r \in Reqs, Wake(r) PROVE ChargePlace'
  BY <1>4 DEF Wake
<1>5. ASSUME NEW r \in Reqs, Receive(r) PROVE ChargePlace'
  BY <1>5 DEF Receive
<1>6. ASSUME NEW r \in Reqs, SeeDisconnect(r) PROVE ChargePlace'
  BY <1>6 DEF SeeDisconnect
<1>7. ASSUME NEW r \in Reqs, PatienceShed(r) PROVE ChargePlace'
  BY <1>7 DEF PatienceShed
<1>8. ASSUME NEW r \in Reqs, PatienceDenied(r) PROVE ChargePlace'
  BY <1>8 DEF PatienceDenied
<1>9. ASSUME NEW r \in Reqs, LeaveTaken(r) PROVE ChargePlace'
  BY <1>9 DEF LeaveTaken
<1>10. ASSUME NEW r \in Reqs, LeaveAbandoned(r) PROVE ChargePlace'
  BY <1>10 DEF LeaveAbandoned
<1>11. ASSUME NEW r \in Reqs, Refund(r) PROVE ChargePlace'
  BY <1>11 DEF Refund
<1>12. ASSUME NEW r \in Reqs, ReceiveOwned(r) PROVE ChargePlace'
  BY <1>12 DEF ReceiveOwned
<1>13. ASSUME NEW r \in Reqs, Charge(r) PROVE ChargePlace'
  BY <1>13 DEF Charge
<1>14. ASSUME NEW r \in Reqs, Respond(r) PROVE ChargePlace'
  BY <1>14 DEF Respond
<1>15. ASSUME NEW r \in Reqs, ClientGoes(r) PROVE ChargePlace'
  BY <1>15 DEF ClientGoes
<1>16. ASSUME NEW w \in Workers, DecideLanes(w) PROVE ChargePlace'
  BY <1>16 DEF DecideLanes
<1>17. ASSUME NEW w \in Workers, riskTakeWork(w) PROVE ChargePlace'
  BY <1>17 DEF riskTakeWork
<1>18. ASSUME NEW w \in Workers, Park(w) PROVE ChargePlace'
  BY <1>18 DEF Park
<1>19. ASSUME NEW w \in Workers, RecvToken(w) PROVE ChargePlace'
  BY <1>19 DEF RecvToken
<1>20. ASSUME NEW w \in Workers, Unpark(w) PROVE ChargePlace'
  BY <1>20 DEF Unpark
<1>21. ASSUME NEW w \in Workers, Hash(w) PROVE ChargePlace'
  BY <1>21 DEF Hash
<1>22. ASSUME NEW w \in Workers, Deliver(w) PROVE ChargePlace'
  BY <1>22 DEF Deliver
<1>23. CASE OtherOK
  BY <1>23 DEF OtherOK
<1>24. CASE Tick
  BY <1>24 DEF Tick
<1>25. CASE UNCHANGED vars
  BY <1>25 DEF vars
<1> QED
  BY <1>1, <1>2, <1>3, <1>4, <1>5, <1>6, <1>7, <1>8, <1>9, <1>10, <1>11,
     <1>12, <1>13, <1>14, <1>15, <1>16, <1>17, <1>18, <1>19, <1>20, <1>21,
     <1>22, <1>23, <1>24, <1>25
  DEF Next, RequestNext, WorkerNext, Submit, Patience, Leave, Finish, Quiet

(* The stack and the flags of the waiters agree.                           *)
LEMMA NextInLine ==
  ASSUME TypeOK, InLine, [Next]_vars
  PROVE  InLine'
<1> USE DEF TypeOK, InLine, Go, waiters
<1>1. ASSUME NEW r \in Reqs, SubmitBackstop(r) PROVE InLine'
  BY <1>1 DEF SubmitBackstop
<1>2. ASSUME NEW r \in Reqs, SubmitShed(r) PROVE InLine'
  BY <1>2 DEF SubmitShed
<1>3. ASSUME NEW r \in Reqs, SubmitPush(r) PROVE InLine'
  <2>1. Elems(stack') = Elems(stack) \cup {r} /\ Distinct(stack')
    BY <1>3, PushEffect DEF SubmitPush
  <2> QED
    BY <1>3, <2>1 DEF SubmitPush
<1>4. ASSUME NEW r \in Reqs, Wake(r) PROVE InLine'
  BY <1>4 DEF Wake
<1>5. ASSUME NEW r \in Reqs, Receive(r) PROVE InLine'
  BY <1>5 DEF Receive
<1>6. ASSUME NEW r \in Reqs, SeeDisconnect(r) PROVE InLine'
  BY <1>6 DEF SeeDisconnect
<1>7. ASSUME NEW r \in Reqs, PatienceShed(r) PROVE InLine'
  BY <1>7 DEF PatienceShed
<1>8. ASSUME NEW r \in Reqs, PatienceDenied(r) PROVE InLine'
  BY <1>8 DEF PatienceDenied
<1>9. ASSUME NEW r \in Reqs, LeaveTaken(r) PROVE InLine'
  BY <1>9 DEF LeaveTaken
<1>10. ASSUME NEW r \in Reqs, LeaveAbandoned(r) PROVE InLine'
  BY <1>10 DEF LeaveAbandoned
<1>11. ASSUME NEW r \in Reqs, Refund(r) PROVE InLine'
  BY <1>11 DEF Refund
<1>12. ASSUME NEW r \in Reqs, ReceiveOwned(r) PROVE InLine'
  BY <1>12 DEF ReceiveOwned
<1>13. ASSUME NEW r \in Reqs, Charge(r) PROVE InLine'
  BY <1>13 DEF Charge
<1>14. ASSUME NEW r \in Reqs, Respond(r) PROVE InLine'
  BY <1>14 DEF Respond
<1>15. ASSUME NEW r \in Reqs, ClientGoes(r) PROVE InLine'
  BY <1>15 DEF ClientGoes
<1>16. ASSUME NEW w \in Workers, DecideLanes(w) PROVE InLine'
  BY <1>16 DEF DecideLanes
<1>17. ASSUME NEW w \in Workers, riskTakeWork(w) PROVE InLine'
  <2>1. PICK L \in SUBSET Reqs, S \in SUBSET Reqs : TakeStep(w, L, S)
    BY <1>17, TakeEffect
  <2>2. ASSUME NEW r \in Reqs
        PROVE  /\ taken'[r] = (taken[r] \/ r \in L)
               /\ skipped'[r] = (skipped[r] \/ r \in S)
    BY <2>1 DEF TakeStep
  <2>3. UNCHANGED <<abandoned, rpc>> /\ Distinct(stack')
    BY <2>1 DEF TakeStep
  <2>4. /\ L \cap S = {}
        /\ L \cup S \subseteq Elems(stack)
        /\ \A r \in L \cup S : ~abandoned[r]
        /\ Elems(stack') \subseteq Elems(stack)
        /\ (L \cup S) \cap Elems(stack') = {}
    BY <2>1 DEF TakeStep
  <2> QED
    BY <2>2, <2>3, <2>4
<1>18. ASSUME NEW w \in Workers, Park(w) PROVE InLine'
  BY <1>18 DEF Park
<1>19. ASSUME NEW w \in Workers, RecvToken(w) PROVE InLine'
  BY <1>19 DEF RecvToken
<1>20. ASSUME NEW w \in Workers, Unpark(w) PROVE InLine'
  BY <1>20 DEF Unpark
<1>21. ASSUME NEW w \in Workers, Hash(w) PROVE InLine'
  BY <1>21 DEF Hash
<1>22. ASSUME NEW w \in Workers, Deliver(w) PROVE InLine'
  BY <1>22 DEF Deliver
<1>23. CASE OtherOK
  BY <1>23 DEF OtherOK
<1>24. CASE Tick
  BY <1>24 DEF Tick
<1>25. CASE UNCHANGED vars
  BY <1>25 DEF vars
<1> QED
  BY <1>1, <1>2, <1>3, <1>4, <1>5, <1>6, <1>7, <1>8, <1>9, <1>10, <1>11,
     <1>12, <1>13, <1>14, <1>15, <1>16, <1>17, <1>18, <1>19, <1>20, <1>21,
     <1>22, <1>23, <1>24, <1>25
  DEF Next, RequestNext, WorkerNext, Submit, Patience, Leave, Finish, Quiet

(* Digests are owed to taken waiters only.                                 *)
LEMMA NextOwed ==
  ASSUME TypeOK, InLine, Owed, [Next]_vars
  PROVE  Owed'
<1> USE DEF TypeOK, Owed, Go, waiters, workers
<1>1. ASSUME NEW r \in Reqs, SubmitBackstop(r) PROVE Owed'
  BY <1>1 DEF SubmitBackstop
<1>2. ASSUME NEW r \in Reqs, SubmitShed(r) PROVE Owed'
  BY <1>2 DEF SubmitShed
<1>3. ASSUME NEW r \in Reqs, SubmitPush(r) PROVE Owed'
  BY <1>3 DEF SubmitPush
<1>4. ASSUME NEW r \in Reqs, Wake(r) PROVE Owed'
  BY <1>4 DEF Wake
<1>5. ASSUME NEW r \in Reqs, Receive(r) PROVE Owed'
  BY <1>5 DEF Receive
<1>6. ASSUME NEW r \in Reqs, SeeDisconnect(r) PROVE Owed'
  BY <1>6 DEF SeeDisconnect
<1>7. ASSUME NEW r \in Reqs, PatienceShed(r) PROVE Owed'
  BY <1>7 DEF PatienceShed
<1>8. ASSUME NEW r \in Reqs, PatienceDenied(r) PROVE Owed'
  BY <1>8 DEF PatienceDenied
<1>9. ASSUME NEW r \in Reqs, LeaveTaken(r) PROVE Owed'
  BY <1>9 DEF LeaveTaken
<1>10. ASSUME NEW r \in Reqs, LeaveAbandoned(r) PROVE Owed'
  BY <1>10 DEF LeaveAbandoned
<1>11. ASSUME NEW r \in Reqs, Refund(r) PROVE Owed'
  BY <1>11 DEF Refund
<1>12. ASSUME NEW r \in Reqs, ReceiveOwned(r) PROVE Owed'
  BY <1>12 DEF ReceiveOwned
<1>13. ASSUME NEW r \in Reqs, Charge(r) PROVE Owed'
  BY <1>13 DEF Charge
<1>14. ASSUME NEW r \in Reqs, Respond(r) PROVE Owed'
  BY <1>14 DEF Respond
<1>15. ASSUME NEW r \in Reqs, ClientGoes(r) PROVE Owed'
  BY <1>15 DEF ClientGoes
<1>16. ASSUME NEW w \in Workers, DecideLanes(w) PROVE Owed'
  BY <1>16 DEF DecideLanes
<1>17. ASSUME NEW w \in Workers, riskTakeWork(w) PROVE Owed'
  <2>1. PICK L \in SUBSET Reqs, S \in SUBSET Reqs : TakeStep(w, L, S)
    BY <1>17, TakeEffect DEF InLine
  <2>2. \A r \in Reqs : taken'[r] = (taken[r] \/ r \in L)
    BY <2>1 DEF TakeStep
  <2>3. work' = [work EXCEPT ![w] = L] /\ UNCHANGED <<full, rpc, batch>>
    BY <2>1 DEF TakeStep
  <2> QED
    BY <2>2, <2>3
<1>18. ASSUME NEW w \in Workers, Park(w) PROVE Owed'
  BY <1>18 DEF Park
<1>19. ASSUME NEW w \in Workers, RecvToken(w) PROVE Owed'
  BY <1>19 DEF RecvToken
<1>20. ASSUME NEW w \in Workers, Unpark(w) PROVE Owed'
  BY <1>20 DEF Unpark
<1>21. ASSUME NEW w \in Workers, Hash(w) PROVE Owed'
  BY <1>21 DEF Hash
<1>22. ASSUME NEW w \in Workers, Deliver(w) PROVE Owed'
  BY <1>22 DEF Deliver
<1>23. CASE OtherOK
  BY <1>23 DEF OtherOK
<1>24. CASE Tick
  BY <1>24 DEF Tick
<1>25. CASE UNCHANGED vars
  BY <1>25 DEF vars
<1> QED
  BY <1>1, <1>2, <1>3, <1>4, <1>5, <1>6, <1>7, <1>8, <1>9, <1>10, <1>11,
     <1>12, <1>13, <1>14, <1>15, <1>16, <1>17, <1>18, <1>19, <1>20, <1>21,
     <1>22, <1>23, <1>24, <1>25
  DEF Next, RequestNext, WorkerNext, Submit, Patience, Leave, Finish, Quiet

-----------------------------------------------------------------------------
(* Counting charges.                                                       *)

LEMMA ChargesFinite ==
  ASSUME TypeOK
  PROVE  /\ IsFiniteSet(Charged) /\ Cardinality(Charged) \in Nat
         /\ IsFiniteSet(Reserved) /\ Cardinality(Reserved) \in Nat
         /\ IsFiniteSet(Skipped) /\ Cardinality(Skipped) \in Nat
<1>1. Charged \in SUBSET Reqs /\ Reserved \in SUBSET Reqs /\ Skipped \in SUBSET Reqs
  BY DEF Charged, Reserved, Skipped
<1> QED
  BY <1>1, GateAssumption, FS_Subset, FS_CardinalityType

LEMMA ReserveCounts ==
  ASSUME TypeOK, NEW r \in Reqs, charge[r] = "none",
         charge' = [charge EXCEPT ![r] = "reserved"]
  PROVE  /\ Cardinality(Charged') = Cardinality(Charged) + 1
         /\ Cardinality(Reserved') = Cardinality(Reserved) + 1
<1>1. /\ Charged' = Charged \cup {r} /\ r \notin Charged
      /\ Reserved' = Reserved \cup {r} /\ r \notin Reserved
  BY DEF TypeOK, Charged, Reserved
<1> QED
  BY <1>1, ChargesFinite, FS_AddElement

LEMMA AddCounts ==
  ASSUME TypeOK, NEW r \in Reqs, charge[r] = "none",
         charge' = [charge EXCEPT ![r] = "added"]
  PROVE  /\ Cardinality(Charged') = Cardinality(Charged) + 1
         /\ Reserved' = Reserved
<1>1. Charged' = Charged \cup {r} /\ r \notin Charged /\ Reserved' = Reserved
  BY DEF TypeOK, Charged, Reserved
<1> QED
  BY <1>1, ChargesFinite, FS_AddElement

LEMMA RefundCounts ==
  ASSUME TypeOK, NEW r \in Reqs, charge[r] = "reserved",
         charge' = [charge EXCEPT ![r] = "none"]
  PROVE  /\ Cardinality(Charged') = Cardinality(Charged) - 1
         /\ Cardinality(Reserved') = Cardinality(Reserved) - 1
         /\ Cardinality(Reserved) > 0
<1>1. /\ Charged' = Charged \ {r} /\ r \in Charged
      /\ Reserved' = Reserved \ {r} /\ r \in Reserved
  BY DEF TypeOK, Charged, Reserved
<1>2. Cardinality(Reserved) # 0
  BY <1>1, ChargesFinite, FS_EmptySet
<1>3. Cardinality(Charged') = Cardinality(Charged) - 1
  BY <1>1, ChargesFinite, FS_RemoveElement
<1>4. Cardinality(Reserved') = Cardinality(Reserved) - 1
  BY <1>1, ChargesFinite, FS_RemoveElement
<1>5. Cardinality(Reserved) > 0
  BY <1>2, ChargesFinite
<1> QED
  BY <1>3, <1>4, <1>5

LEMMA SkipCounts ==
  ASSUME TypeOK, InLine, NEW w \in Workers, NEW L \in SUBSET Reqs, NEW S \in SUBSET Reqs,
         IsFiniteSet(S), TakeStep(w, L, S)
  PROVE  Cardinality(Skipped') = Cardinality(Skipped) + Cardinality(S)
<1>1. skipped' = [r \in Reqs |-> skipped[r] \/ r \in S]
  BY DEF TakeStep
<1>2. Skipped' = Skipped \cup S
  BY <1>1 DEF Skipped
<1>3. Skipped \cap S = {}
  BY DEF Skipped, InLine, TakeStep
<1>4. Cardinality(Skipped \cap S) = 0
  BY <1>3, FS_EmptySet
<1>5. Cardinality(S) \in Nat
  BY FS_CardinalityType
<1>6. Cardinality(Skipped \cup S)
        = Cardinality(Skipped) + Cardinality(S) - Cardinality(Skipped \cap S)
  BY ChargesFinite, FS_Union
<1> QED
  BY <1>2, <1>4, <1>5, <1>6, ChargesFinite

(* respErr moves with the charges.                                         *)
LEMMA NextBalance ==
  ASSUME TypeOK, ChargePlace, InLine, Balance, [Next]_vars
  PROVE  Balance'
<1> USE DEF ChargePlace, Balance, Go, waiters
<1>1. ASSUME NEW r \in Reqs, SubmitBackstop(r) PROVE Balance'
  <2>1. UNCHANGED <<Charged, Skipped, respErr>>
    BY <1>1 DEF SubmitBackstop, Charged, Skipped
  <2> QED
    BY <2>1
<1>2. ASSUME NEW r \in Reqs, SubmitShed(r) PROVE Balance'
  <2>1. Cardinality(Charged') = Cardinality(Charged) + 1
    BY <1>2, ReserveCounts DEF SubmitShed
  <2>2. Skipped' = Skipped /\ respErr' = respErr + 1
    BY <1>2 DEF SubmitShed, Skipped
  <2> QED
    BY <2>1, <2>2, ChargesFinite
<1>3. ASSUME NEW r \in Reqs, SubmitPush(r) PROVE Balance'
  <2>1. UNCHANGED <<Charged, Skipped, respErr>>
    BY <1>3 DEF SubmitPush, Charged, Skipped
  <2> QED
    BY <2>1
<1>4. ASSUME NEW r \in Reqs, Wake(r) PROVE Balance'
  <2>1. UNCHANGED <<Charged, Skipped, respErr>>
    BY <1>4 DEF Wake, Charged, Skipped
  <2> QED
    BY <2>1
<1>5. ASSUME NEW r \in Reqs, Receive(r) PROVE Balance'
  <2>1. UNCHANGED <<Charged, Skipped, respErr>>
    BY <1>5 DEF Receive, Charged, Skipped
  <2> QED
    BY <2>1
<1>6. ASSUME NEW r \in Reqs, SeeDisconnect(r) PROVE Balance'
  <2>1. UNCHANGED <<Charged, Skipped, respErr>>
    BY <1>6 DEF SeeDisconnect, Charged, Skipped
  <2> QED
    BY <2>1
<1>7. ASSUME NEW r \in Reqs, PatienceShed(r) PROVE Balance'
  <2>1. Cardinality(Charged') = Cardinality(Charged) + 1
    BY <1>7, ReserveCounts DEF PatienceShed
  <2>2. Skipped' = Skipped /\ respErr' = respErr + 1
    BY <1>7 DEF PatienceShed, Skipped
  <2> QED
    BY <2>1, <2>2, ChargesFinite
<1>8. ASSUME NEW r \in Reqs, PatienceDenied(r) PROVE Balance'
  <2>1. UNCHANGED <<Charged, Skipped, respErr>>
    BY <1>8 DEF PatienceDenied, Charged, Skipped
  <2> QED
    BY <2>1
<1>9. ASSUME NEW r \in Reqs, LeaveTaken(r) PROVE Balance'
  <2>1. UNCHANGED <<Charged, Skipped, respErr>>
    BY <1>9 DEF LeaveTaken, Charged, Skipped
  <2> QED
    BY <2>1
<1>10. ASSUME NEW r \in Reqs, LeaveAbandoned(r) PROVE Balance'
  <2>1. UNCHANGED <<Charged, Skipped, respErr>>
    BY <1>10 DEF LeaveAbandoned, Charged, Skipped
  <2> QED
    BY <2>1
<1>11. ASSUME NEW r \in Reqs, Refund(r) PROVE Balance'
  <2>1. Cardinality(Charged') = Cardinality(Charged) - 1
    BY <1>11, RefundCounts DEF Refund
  <2>2. Skipped' = Skipped /\ respErr' = respErr - 1
    BY <1>11 DEF Refund, Skipped
  <2> QED
    BY <2>1, <2>2, ChargesFinite
<1>12. ASSUME NEW r \in Reqs, ReceiveOwned(r) PROVE Balance'
  <2>1. UNCHANGED <<Charged, Skipped, respErr>>
    BY <1>12 DEF ReceiveOwned, Charged, Skipped
  <2> QED
    BY <2>1
<1>13. ASSUME NEW r \in Reqs, Charge(r) PROVE Balance'
  <2>1. Cardinality(Charged') = Cardinality(Charged) + 1
    BY <1>13, AddCounts DEF Charge
  <2>2. Skipped' = Skipped /\ respErr' = respErr + 1
    BY <1>13 DEF Charge, Skipped
  <2> QED
    BY <2>1, <2>2, ChargesFinite
<1>14. ASSUME NEW r \in Reqs, Respond(r) PROVE Balance'
  <2>1. UNCHANGED <<Charged, Skipped, respErr>>
    BY <1>14 DEF Respond, Charged, Skipped
  <2> QED
    BY <2>1
<1>15. ASSUME NEW r \in Reqs, ClientGoes(r) PROVE Balance'
  <2>1. UNCHANGED <<Charged, Skipped, respErr>>
    BY <1>15 DEF ClientGoes, Charged, Skipped
  <2> QED
    BY <2>1
<1>16. ASSUME NEW w \in Workers, DecideLanes(w) PROVE Balance'
  <2>1. UNCHANGED <<Charged, Skipped, respErr>>
    BY <1>16 DEF DecideLanes, Charged, Skipped
  <2> QED
    BY <2>1
<1>17. ASSUME NEW w \in Workers, riskTakeWork(w) PROVE Balance'
  <2>1. PICK L \in SUBSET Reqs, S \in SUBSET Reqs : IsFiniteSet(S) /\ TakeStep(w, L, S)
    BY <1>17, TakeEffect DEF InLine
  <2>2. Cardinality(Skipped') = Cardinality(Skipped) + Cardinality(S)
    BY <2>1, SkipCounts
  <2>3. Charged' = Charged /\ respErr' = respErr + Cardinality(S)
    BY <2>1 DEF TakeStep, Charged
  <2> QED
    BY <2>1, <2>2, <2>3, ChargesFinite, FS_CardinalityType
<1>18. ASSUME NEW w \in Workers, Park(w) PROVE Balance'
  <2>1. UNCHANGED <<Charged, Skipped, respErr>>
    BY <1>18 DEF Park, Charged, Skipped
  <2> QED
    BY <2>1
<1>19. ASSUME NEW w \in Workers, RecvToken(w) PROVE Balance'
  <2>1. UNCHANGED <<Charged, Skipped, respErr>>
    BY <1>19 DEF RecvToken, Charged, Skipped
  <2> QED
    BY <2>1
<1>20. ASSUME NEW w \in Workers, Unpark(w) PROVE Balance'
  <2>1. UNCHANGED <<Charged, Skipped, respErr>>
    BY <1>20 DEF Unpark, Charged, Skipped
  <2> QED
    BY <2>1
<1>21. ASSUME NEW w \in Workers, Hash(w) PROVE Balance'
  <2>1. UNCHANGED <<Charged, Skipped, respErr>>
    BY <1>21 DEF Hash, Charged, Skipped
  <2> QED
    BY <2>1
<1>22. ASSUME NEW w \in Workers, Deliver(w) PROVE Balance'
  <2>1. UNCHANGED <<Charged, Skipped, respErr>>
    BY <1>22 DEF Deliver, Charged, Skipped
  <2> QED
    BY <2>1
<1>23. CASE OtherOK
  <2>1. UNCHANGED <<Charged, Skipped, respErr>>
    BY <1>23 DEF OtherOK, Charged, Skipped
  <2> QED
    BY <2>1
<1>24. CASE Tick
  <2>1. UNCHANGED <<Charged, Skipped, respErr>>
    BY <1>24 DEF Tick, Charged, Skipped
  <2> QED
    BY <2>1
<1>25. CASE UNCHANGED vars
  <2>1. UNCHANGED <<Charged, Skipped, respErr>>
    BY <1>25 DEF vars, Charged, Skipped
  <2> QED
    BY <2>1
<1> QED
  BY <1>1, <1>2, <1>3, <1>4, <1>5, <1>6, <1>7, <1>8, <1>9, <1>10, <1>11,
     <1>12, <1>13, <1>14, <1>15, <1>16, <1>17, <1>18, <1>19, <1>20, <1>21,
     <1>22, <1>23, <1>24, <1>25
  DEF Next, RequestNext, WorkerNext, Submit, Patience, Leave, Finish, Quiet

-----------------------------------------------------------------------------
(* Counting workers and wakeups.                                           *)

AwakeSet == {w \in Workers : Awake(w)}
AsleepSet == {w \in Workers : Asleep(w)}

LEMMA WakeupsFinite ==
  ASSUME TypeOK
  PROVE  /\ IsFiniteSet(AwakeSet) /\ Cardinality(AwakeSet) \in Nat
         /\ IsFiniteSet(AsleepSet) /\ Cardinality(AsleepSet) \in Nat
         /\ IsFiniteSet(Waking) /\ Cardinality(Waking) \in Nat
         /\ tokens \in Nat /\ Len(stack) \in Nat
         /\ Cardinality(AsleepSet) <= WakeCap
<1>1. AwakeSet \in SUBSET Workers /\ AsleepSet \in SUBSET Workers /\ Waking \in SUBSET Reqs
  BY DEF AwakeSet, AsleepSet, Waking
<1>2. /\ IsFiniteSet(AwakeSet) /\ IsFiniteSet(AsleepSet) /\ IsFiniteSet(Waking)
      /\ Cardinality(AsleepSet) <= Cardinality(Workers)
  BY <1>1, GateAssumption, FS_Subset
<1>3. Cardinality(AsleepSet) <= WakeCap
  <2>1. /\ Cardinality(AsleepSet) \in Nat /\ Cardinality(Workers) \in Nat
        /\ WakeCap \in Nat /\ Cardinality(Workers) <= WakeCap
    BY <1>2, GateAssumption, FS_CardinalityType
  <2> QED
    BY <1>2, <2>1
<1>4. tokens \in Nat /\ Len(stack) \in Nat
  BY LenProperties, GateAssumption DEF TypeOK
<1> QED
  BY <1>2, <1>3, <1>4, FS_CardinalityType

(* A worker that moves from one of the three groups to another.            *)
LEMMA WorkerMoves ==
  ASSUME TypeOK, NEW w \in Workers, NEW at \in WStates,
         wpc' = [wpc EXCEPT ![w] = at]
  PROVE  /\ Awake(w) /\ at \in {"top", "take", "woken"} => AwakeSet' = AwakeSet
         /\ Asleep(w) /\ at \in {"park", "recv", "blocked"} => AsleepSet' = AsleepSet
         /\ Awake(w) /\ at \notin {"top", "take", "woken"} =>
              Cardinality(AwakeSet') = Cardinality(AwakeSet) - 1
         /\ ~Awake(w) /\ at \in {"top", "take", "woken"} =>
              Cardinality(AwakeSet') = Cardinality(AwakeSet) + 1
         /\ ~Awake(w) /\ at \notin {"top", "take", "woken"} => AwakeSet' = AwakeSet
         /\ Asleep(w) /\ at \notin {"park", "recv", "blocked"} =>
              Cardinality(AsleepSet') = Cardinality(AsleepSet) - 1
         /\ ~Asleep(w) /\ at \notin {"park", "recv", "blocked"} => AsleepSet' = AsleepSet
<1>0. IsFiniteSet(AwakeSet) /\ IsFiniteSet(AsleepSet)
  BY WakeupsFinite
<1>1. ASSUME Awake(w), at \in {"top", "take", "woken"} PROVE AwakeSet' = AwakeSet
  BY <1>1 DEF TypeOK, AwakeSet, AsleepSet, Awake, Asleep
<1>2. ASSUME Asleep(w), at \in {"park", "recv", "blocked"} PROVE AsleepSet' = AsleepSet
  BY <1>2 DEF TypeOK, AwakeSet, AsleepSet, Awake, Asleep
<1>3. ASSUME Awake(w), at \notin {"top", "take", "woken"}
      PROVE  Cardinality(AwakeSet') = Cardinality(AwakeSet) - 1
  <2>1. AwakeSet' = AwakeSet \ {w} /\ w \in AwakeSet
    BY <1>3 DEF TypeOK, AwakeSet, AsleepSet, Awake, Asleep
  <2> QED
    BY <1>0, <2>1, FS_RemoveElement
<1>4. ASSUME ~Awake(w), at \in {"top", "take", "woken"}
      PROVE  Cardinality(AwakeSet') = Cardinality(AwakeSet) + 1
  <2>1. AwakeSet' = AwakeSet \cup {w} /\ w \notin AwakeSet
    BY <1>4 DEF TypeOK, AwakeSet, AsleepSet, Awake, Asleep
  <2> QED
    BY <1>0, <2>1, FS_AddElement
<1>5. ASSUME ~Awake(w), at \notin {"top", "take", "woken"} PROVE AwakeSet' = AwakeSet
  BY <1>5 DEF TypeOK, AwakeSet, AsleepSet, Awake, Asleep
<1>6. ASSUME Asleep(w), at \notin {"park", "recv", "blocked"}
      PROVE  Cardinality(AsleepSet') = Cardinality(AsleepSet) - 1
  <2>1. AsleepSet' = AsleepSet \ {w} /\ w \in AsleepSet
    BY <1>6 DEF TypeOK, AwakeSet, AsleepSet, Awake, Asleep
  <2> QED
    BY <1>0, <2>1, FS_RemoveElement
<1>7. ASSUME ~Asleep(w), at \notin {"park", "recv", "blocked"} PROVE AsleepSet' = AsleepSet
  BY <1>7 DEF TypeOK, AwakeSet, AsleepSet, Awake, Asleep
<1> QED
  BY <1>1, <1>2, <1>3, <1>4, <1>5, <1>6, <1>7

(* WorkConserving with its sets named.                                     *)
Conserved ==
  \/ Len(stack) <= tokens + Cardinality(Waking) + Cardinality(AwakeSet)
  \/ Cardinality(AsleepSet) <= tokens + Cardinality(Waking)

LEMMA ConservedIsWorkConserving == Conserved <=> WorkConserving
  BY DEF Conserved, WorkConserving, AwakeSet, AsleepSet

(* No step leaves a waiter without the wakeup it is owed.                  *)
LEMMA NextConserved ==
  ASSUME TypeOK, InLine, Conserved, [Next]_vars
  PROVE  Conserved'
<1> USE DEF Conserved, Go, waiters, workers
<1>1. ASSUME NEW r \in Reqs, SubmitBackstop(r) PROVE Conserved'
  <2>1. UNCHANGED <<stack, tokens, Waking, AwakeSet, AsleepSet>>
    BY <1>1 DEF TypeOK, SubmitBackstop, Waking, AwakeSet, AsleepSet, Awake, Asleep, WStates
  <2> QED
    BY <2>1
<1>2. ASSUME NEW r \in Reqs, SubmitShed(r) PROVE Conserved'
  <2>1. UNCHANGED <<stack, tokens, Waking, AwakeSet, AsleepSet>>
    BY <1>2 DEF TypeOK, SubmitShed, Waking, AwakeSet, AsleepSet, Awake, Asleep, WStates
  <2> QED
    BY <2>1
<1>3. ASSUME NEW r \in Reqs, SubmitPush(r) PROVE Conserved'
  <2>1. Waking' = Waking \cup {r} /\ r \notin Waking
    BY <1>3 DEF SubmitPush, TypeOK, Waking
  <2>2. Cardinality(Waking') = Cardinality(Waking) + 1
    BY <2>1, WakeupsFinite, FS_AddElement
  <2>3. Len(stack') = Len(stack) + 1
    <3>1. <<r>> \in Seq(Reqs) /\ Len(<<r>>) = 1 /\ stack \in Seq(Reqs)
      BY DEF TypeOK
    <3>2. Len(<<r>> \o stack) = Len(<<r>>) + Len(stack)
      BY <3>1, ConcatProperties
    <3> QED
      BY <1>3, <3>1, <3>2, WakeupsFinite DEF SubmitPush
  <2>4. UNCHANGED <<tokens, AwakeSet, AsleepSet>>
    BY <1>3 DEF SubmitPush, workers, AwakeSet, AsleepSet, Awake, Asleep
  <2> QED
    BY <2>2, <2>3, <2>4, WakeupsFinite
<1>4. ASSUME NEW r \in Reqs, Wake(r) PROVE Conserved'
  <2>1. Waking' = Waking \ {r} /\ r \in Waking
    BY <1>4 DEF Wake, TypeOK, Waking
  <2>2. Cardinality(Waking') = Cardinality(Waking) - 1
    BY <2>1, WakeupsFinite, FS_RemoveElement
  <2>3. UNCHANGED stack
    BY <1>4 DEF Wake
  <2>4. CASE \E w \in Workers : wpc[w] = "blocked" /\ GoW(w, "woken") /\ UNCHANGED tokens
    <3>1. PICK w \in Workers : wpc[w] = "blocked" /\ GoW(w, "woken") /\ UNCHANGED tokens
      BY <2>4
    <3>2. /\ Cardinality(AwakeSet') = Cardinality(AwakeSet) + 1
          /\ Cardinality(AsleepSet') = Cardinality(AsleepSet) - 1
      BY <3>1, WorkerMoves DEF GoW, WStates, Awake, Asleep
    <3> QED
      BY <2>2, <2>3, <3>1, <3>2, WakeupsFinite
  <2>5. CASE tokens' = (IF tokens < WakeCap THEN tokens + 1 ELSE tokens) /\ UNCHANGED wpc
    <3>1. UNCHANGED <<AwakeSet, AsleepSet>>
      BY <2>5 DEF AwakeSet, AsleepSet, Awake, Asleep
    <3>2. CASE tokens < WakeCap
      BY <2>2, <2>3, <2>5, <3>1, <3>2, WakeupsFinite
    <3>3. CASE ~(tokens < WakeCap)
      <4>1. WakeCap \in Nat /\ Cardinality(Waking) >= 1
        BY <2>1, WakeupsFinite, GateAssumption, FS_EmptySet
      <4>2. tokens' = tokens /\ Cardinality(AsleepSet) <= tokens
        BY <2>5, <3>3, <4>1, WakeupsFinite
      <4> QED
        BY <2>2, <3>1, <4>1, <4>2, WakeupsFinite
    <3> QED
      BY <3>2, <3>3
  <2> QED
    BY <1>4, <2>4, <2>5 DEF Wake
<1>5. ASSUME NEW r \in Reqs, Receive(r) PROVE Conserved'
  <2>1. UNCHANGED <<stack, tokens, Waking, AwakeSet, AsleepSet>>
    BY <1>5 DEF TypeOK, Receive, Waking, AwakeSet, AsleepSet, Awake, Asleep, WStates
  <2> QED
    BY <2>1
<1>6. ASSUME NEW r \in Reqs, SeeDisconnect(r) PROVE Conserved'
  <2>1. UNCHANGED <<stack, tokens, Waking, AwakeSet, AsleepSet>>
    BY <1>6 DEF TypeOK, SeeDisconnect, Waking, AwakeSet, AsleepSet, Awake, Asleep, WStates
  <2> QED
    BY <2>1
<1>7. ASSUME NEW r \in Reqs, PatienceShed(r) PROVE Conserved'
  <2>1. UNCHANGED <<stack, tokens, Waking, AwakeSet, AsleepSet>>
    BY <1>7 DEF TypeOK, PatienceShed, Waking, AwakeSet, AsleepSet, Awake, Asleep, WStates
  <2> QED
    BY <2>1
<1>8. ASSUME NEW r \in Reqs, PatienceDenied(r) PROVE Conserved'
  <2>1. UNCHANGED <<stack, tokens, Waking, AwakeSet, AsleepSet>>
    BY <1>8 DEF TypeOK, PatienceDenied, Waking, AwakeSet, AsleepSet, Awake, Asleep, WStates
  <2> QED
    BY <2>1
<1>9. ASSUME NEW r \in Reqs, LeaveTaken(r) PROVE Conserved'
  <2>1. UNCHANGED <<stack, tokens, Waking, AwakeSet, AsleepSet>>
    BY <1>9 DEF TypeOK, LeaveTaken, Waking, AwakeSet, AsleepSet, Awake, Asleep, WStates
  <2> QED
    BY <2>1
<1>10. ASSUME NEW r \in Reqs, LeaveAbandoned(r) PROVE Conserved'
  <2>1. UNCHANGED <<stack, tokens, Waking, AwakeSet, AsleepSet>>
    BY <1>10 DEF TypeOK, LeaveAbandoned, Waking, AwakeSet, AsleepSet, Awake, Asleep, WStates
  <2> QED
    BY <2>1
<1>11. ASSUME NEW r \in Reqs, Refund(r) PROVE Conserved'
  <2>1. UNCHANGED <<stack, tokens, Waking, AwakeSet, AsleepSet>>
    BY <1>11 DEF TypeOK, Refund, Waking, AwakeSet, AsleepSet, Awake, Asleep, WStates
  <2> QED
    BY <2>1
<1>12. ASSUME NEW r \in Reqs, ReceiveOwned(r) PROVE Conserved'
  <2>1. UNCHANGED <<stack, tokens, Waking, AwakeSet, AsleepSet>>
    BY <1>12 DEF TypeOK, ReceiveOwned, Waking, AwakeSet, AsleepSet, Awake, Asleep, WStates
  <2> QED
    BY <2>1
<1>13. ASSUME NEW r \in Reqs, Charge(r) PROVE Conserved'
  <2>1. UNCHANGED <<stack, tokens, Waking, AwakeSet, AsleepSet>>
    BY <1>13 DEF TypeOK, Charge, Waking, AwakeSet, AsleepSet, Awake, Asleep, WStates
  <2> QED
    BY <2>1
<1>14. ASSUME NEW r \in Reqs, Respond(r) PROVE Conserved'
  <2>1. UNCHANGED <<stack, tokens, Waking, AwakeSet, AsleepSet>>
    BY <1>14 DEF TypeOK, Respond, Waking, AwakeSet, AsleepSet, Awake, Asleep, WStates
  <2> QED
    BY <2>1
<1>15. ASSUME NEW r \in Reqs, ClientGoes(r) PROVE Conserved'
  <2>1. UNCHANGED <<stack, tokens, Waking, AwakeSet, AsleepSet>>
    BY <1>15 DEF TypeOK, ClientGoes, Waking, AwakeSet, AsleepSet, Awake, Asleep, WStates
  <2> QED
    BY <2>1
<1>16. ASSUME NEW w \in Workers, DecideLanes(w) PROVE Conserved'
  <2>1. wpc[w] \in {"top"} /\ wpc' = [wpc EXCEPT ![w] = "take"]
    BY <1>16 DEF DecideLanes, GoW
  <2>2. UNCHANGED <<AwakeSet, AsleepSet>>
    BY <2>1, WorkerMoves DEF WStates, Awake, Asleep
  <2>3. UNCHANGED <<stack, tokens, Waking>>
    BY <1>16 DEF DecideLanes, waiters, Waking
  <2> QED
    BY <2>2, <2>3
<1>17. ASSUME NEW w \in Workers, riskTakeWork(w) PROVE Conserved'
  <2>1. PICK L \in SUBSET Reqs, S \in SUBSET Reqs : IsFiniteSet(S) /\ TakeStep(w, L, S)
    BY <1>17, TakeEffect DEF InLine
  <2>2. wpc[w] = "take" /\ wpc' = [wpc EXCEPT ![w] = IF L = {} THEN "park" ELSE "hash"]
        /\ UNCHANGED <<tokens, Waking>>
    BY <1>17, <2>1 DEF riskTakeWork, TakeStep, Waking
  <2>3. CASE L = {}
    <3>1. stack' = <<>>
      BY <2>1, <2>3 DEF TakeStep
    <3>2. Len(stack') = 0
      BY <3>1
    <3>3. wpc' = [wpc EXCEPT ![w] = "park"]
      BY <2>2, <2>3
    <3>4. Cardinality(AwakeSet') = Cardinality(AwakeSet) - 1
      BY <2>2, <3>3, WorkerMoves DEF WStates, Awake
    <3>5. Cardinality(AwakeSet) # 0
      <4>1. w \in AwakeSet
        BY <2>2 DEF AwakeSet, Awake
      <4> QED
        BY <4>1, WakeupsFinite, FS_EmptySet
    <3> QED
      BY <2>2, <3>2, <3>4, <3>5, WakeupsFinite
  <2>4. CASE L # {}
    <3>1. wpc' = [wpc EXCEPT ![w] = "hash"]
      BY <2>2, <2>4
    <3>2. Cardinality(AwakeSet') = Cardinality(AwakeSet) - 1 /\ AsleepSet' = AsleepSet
      BY <2>2, <3>1, WorkerMoves DEF WStates, Awake, Asleep
    <3>3. Len(stack') \in Nat /\ Len(stack') <= Len(stack) - 1
      BY <2>1, <2>4 DEF TakeStep
    <3> QED
      BY <2>2, <3>2, <3>3, WakeupsFinite
  <2> QED
    BY <2>3, <2>4
<1>18. ASSUME NEW w \in Workers, Park(w) PROVE Conserved'
  <2>1. wpc[w] \in {"park"} /\ wpc' = [wpc EXCEPT ![w] = "recv"]
    BY <1>18 DEF Park, GoW
  <2>2. UNCHANGED <<AwakeSet, AsleepSet>>
    BY <2>1, WorkerMoves DEF WStates, Awake, Asleep
  <2>3. UNCHANGED <<stack, tokens, Waking>>
    BY <1>18 DEF Park, waiters, Waking
  <2> QED
    BY <2>2, <2>3
<1>19. ASSUME NEW w \in Workers, RecvToken(w) PROVE Conserved'
  <2>1. wpc[w] = "recv" /\ UNCHANGED <<stack, Waking>>
    BY <1>19 DEF RecvToken, waiters, Waking
  <2>2. CASE tokens > 0 /\ tokens' = tokens - 1 /\ GoW(w, "woken")
    <3>1. /\ Cardinality(AwakeSet') = Cardinality(AwakeSet) + 1
          /\ Cardinality(AsleepSet') = Cardinality(AsleepSet) - 1
      BY <2>1, <2>2, WorkerMoves DEF GoW, WStates, Awake, Asleep
    <3> QED
      BY <2>1, <2>2, <3>1, WakeupsFinite
  <2>3. CASE UNCHANGED tokens /\ GoW(w, "blocked")
    <3>1. UNCHANGED <<AwakeSet, AsleepSet>>
      BY <2>1, <2>3, WorkerMoves DEF GoW, WStates, Awake, Asleep
    <3> QED
      BY <2>1, <2>3, <3>1
  <2> QED
    BY <1>19, <2>2, <2>3 DEF RecvToken
<1>20. ASSUME NEW w \in Workers, Unpark(w) PROVE Conserved'
  <2>1. wpc[w] \in {"woken"} /\ wpc' = [wpc EXCEPT ![w] = "top"]
    BY <1>20 DEF Unpark, GoW
  <2>2. UNCHANGED <<AwakeSet, AsleepSet>>
    BY <2>1, WorkerMoves DEF WStates, Awake, Asleep
  <2>3. UNCHANGED <<stack, tokens, Waking>>
    BY <1>20 DEF Unpark, waiters, Waking
  <2> QED
    BY <2>2, <2>3
<1>21. ASSUME NEW w \in Workers, Hash(w) PROVE Conserved'
  <2>1. wpc[w] \in {"hash", "more"} /\ wpc' = [wpc EXCEPT ![w] = "deliver"]
    BY <1>21 DEF Hash, GoW
  <2>2. UNCHANGED <<AwakeSet, AsleepSet>>
    BY <2>1, WorkerMoves DEF WStates, Awake, Asleep
  <2>3. UNCHANGED <<stack, tokens, Waking>>
    BY <1>21 DEF Hash, waiters, Waking
  <2> QED
    BY <2>2, <2>3
<1>22. ASSUME NEW w \in Workers, Deliver(w) PROVE Conserved'
  <2>1. wpc[w] = "deliver" /\ UNCHANGED <<stack, tokens, Waking>>
    BY <1>22 DEF Deliver, Waking
  <2>2. \E at \in {"deliver", "more", "top"} : wpc' = [wpc EXCEPT ![w] = at]
    BY <1>22 DEF Deliver, GoW
  <2>3. PICK at \in {"deliver", "more", "top"} : wpc' = [wpc EXCEPT ![w] = at]
    BY <2>2
  <2>4. AsleepSet' = AsleepSet
    BY <2>1, <2>3, WorkerMoves DEF WStates, Asleep
  <2>5. AwakeSet' = AwakeSet \/ Cardinality(AwakeSet') = Cardinality(AwakeSet) + 1
    BY <2>1, <2>3, WorkerMoves DEF WStates, Awake
  <2> QED
    BY <2>1, <2>4, <2>5, WakeupsFinite
<1>23. CASE OtherOK
  <2>1. UNCHANGED <<stack, tokens, Waking, AwakeSet, AsleepSet>>
    BY <1>23 DEF TypeOK, OtherOK, Waking, AwakeSet, AsleepSet, Awake, Asleep, WStates
  <2> QED
    BY <2>1
<1>24. CASE Tick
  <2>1. UNCHANGED <<stack, tokens, Waking, AwakeSet, AsleepSet>>
    BY <1>24 DEF TypeOK, Tick, Waking, AwakeSet, AsleepSet, Awake, Asleep, WStates
  <2> QED
    BY <2>1
<1>25. CASE UNCHANGED vars
  <2>1. UNCHANGED <<stack, tokens, Waking, AwakeSet, AsleepSet>>
    BY <1>25 DEF TypeOK, vars, Waking, AwakeSet, AsleepSet, Awake, Asleep, WStates
  <2> QED
    BY <2>1
<1> QED
  BY <1>1, <1>2, <1>3, <1>4, <1>5, <1>6, <1>7, <1>8, <1>9, <1>10, <1>11,
     <1>12, <1>13, <1>14, <1>15, <1>16, <1>17, <1>18, <1>19, <1>20, <1>21,
     <1>22, <1>23, <1>24, <1>25
  DEF Next, RequestNext, WorkerNext, Submit, Patience, Leave, Finish, Quiet

-----------------------------------------------------------------------------
(* Steps.                                                                  *)

(* Only a take takes, and what it takes it finds in line.                  *)
LEMMA TakenSource ==
  ASSUME TypeOK, InLine, [Next]_vars
  PROVE  \/ UNCHANGED taken
         \/ \E w \in Workers : \E L, S \in SUBSET Reqs : TakeStep(w, L, S)
<1>1. ASSUME NEW r \in Reqs, RequestNext(r) \/ ClientGoes(r) PROVE UNCHANGED taken
  BY <1>1 DEF RequestNext, Submit, Patience, Leave, Finish,
     SubmitBackstop, SubmitShed, SubmitPush, Wake, Receive,
     SeeDisconnect, PatienceShed, PatienceDenied, LeaveTaken, LeaveAbandoned,
     Refund, ReceiveOwned, Charge, Respond, ClientGoes
<1>2. ASSUME NEW w \in Workers, riskTakeWork(w)
      PROVE  \E L, S \in SUBSET Reqs : TakeStep(w, L, S)
  BY <1>2, TakeEffect DEF InLine
<1>3. ASSUME NEW w \in Workers, WorkerNext(w), ~riskTakeWork(w) PROVE UNCHANGED taken
  BY <1>3 DEF WorkerNext, DecideLanes, Park, RecvToken, Unpark, Hash, Deliver, waiters
<1>4. CASE OtherOK \/ Tick \/ UNCHANGED vars
  BY <1>4 DEF OtherOK, Tick, vars, waiters
<1> QED
  BY <1>1, <1>2, <1>3, <1>4 DEF Next, Quiet

LEMMA TakenStays ==
  ASSUME TypeOK, InLine, [Next]_vars, NEW r \in Reqs, taken[r]
  PROVE  taken'[r]
<1>1. ASSUME NEW w \in Workers, NEW L \in SUBSET Reqs, NEW S \in SUBSET Reqs, TakeStep(w, L, S)
      PROVE  taken'[r]
  BY <1>1 DEF TakeStep
<1> QED
  BY <1>1, TakenSource

LEMMA TakenFromLine ==
  ASSUME TypeOK, InLine, [Next]_vars, NEW r \in Reqs, taken'[r], ~taken[r]
  PROVE  ~abandoned[r] /\ ~skipped[r] /\ r \in OnStack
<1>1. ASSUME NEW w \in Workers, NEW L \in SUBSET Reqs, NEW S \in SUBSET Reqs, TakeStep(w, L, S)
      PROVE  ~abandoned[r] /\ r \in Elems(stack)
  <2>1. r \in L
    BY <1>1 DEF TakeStep
  <2> QED
    BY <1>1, <2>1 DEF TakeStep
<1>2. ~abandoned[r] /\ r \in Elems(stack)
  BY <1>1, TakenSource
<1> QED
  BY <1>2, OnStackElems DEF InLine

(* What each step does to the abstract ledger.                             *)
LEMMA LedgerStep ==
  ASSUME TypeOK, ChargePlace, InLine, [Next]_vars
  PROVE  [Ledger!Next]_(Ledger!ledger)
<1> USE DEF Ledger!Next, Ledger!ledger, ChargePlace
<1>0. Ledger!ledger = <<respOK, respErr, Cardinality(Reserved)>>
  BY DEF Reserved
<1>1. ASSUME UNCHANGED <<respOK, respErr, charge>> PROVE UNCHANGED Ledger!ledger
  BY <1>1
<1>2. ASSUME NEW r \in Reqs, SubmitShed(r) \/ PatienceShed(r) PROVE Ledger!Reserve
  <2>1. charge[r] = "none"
    BY <1>2 DEF SubmitShed, PatienceShed
  <2>2. /\ BudgetAllows
        /\ respErr' = respErr + 1
        /\ charge' = [charge EXCEPT ![r] = "reserved"]
        /\ respOK' = respOK
    BY <1>2 DEF SubmitShed, PatienceShed
  <2>3. Cardinality(Reserved') = Cardinality(Reserved) + 1
    BY <2>1, <2>2, ReserveCounts
  <2> QED
    BY <2>2, <2>3 DEF Ledger!Reserve, BudgetAllows, Reserved
<1>3. ASSUME NEW r \in Reqs, Refund(r) PROVE Ledger!Refund
  <2>1. charge[r] = "reserved"
    BY <1>3 DEF Refund
  <2>2. charge' = [charge EXCEPT ![r] = "none"] /\ respErr' = respErr - 1 /\ respOK' = respOK
    BY <1>3 DEF Refund
  <2>3. Cardinality(Reserved') = Cardinality(Reserved) - 1 /\ Cardinality(Reserved) > 0
    BY <2>1, <2>2, RefundCounts
  <2> QED
    BY <2>2, <2>3 DEF Ledger!Refund, Reserved
<1>4. ASSUME NEW r \in Reqs, Charge(r) PROVE Ledger!Charge
  <2>1. charge[r] = "none"
    BY <1>4 DEF Charge
  <2>2. charge' = [charge EXCEPT ![r] = "added"] /\ respErr' = respErr + 1 /\ respOK' = respOK
    BY <1>4 DEF Charge
  <2>3. Reserved' = Reserved
    BY <2>1, <2>2, AddCounts
  <2>4. respErr' > respErr
    BY <2>2 DEF TypeOK
  <2> QED
    BY <2>2, <2>3, <2>4 DEF Ledger!Charge, Reserved
<1>5. ASSUME NEW r \in Reqs, Respond(r) PROVE Ledger!CountOK
  BY <1>5 DEF Respond, Ledger!CountOK
<1>6. CASE OtherOK
  BY <1>6 DEF OtherOK, waiters, Ledger!CountOK
<1>7. ASSUME NEW w \in Workers, riskTakeWork(w) PROVE [Ledger!Next]_(Ledger!ledger)
  <2>1. PICK L \in SUBSET Reqs, S \in SUBSET Reqs : IsFiniteSet(S) /\ TakeStep(w, L, S)
    BY <1>7, TakeEffect DEF InLine
  <2>2. respErr' = respErr + Cardinality(S) /\ respOK' = respOK /\ charge' = charge
    BY <2>1 DEF TakeStep
  <2>3. Cardinality(S) \in Nat /\ respErr \in Int
    BY <2>1, FS_CardinalityType DEF TypeOK
  <2>4. CASE Cardinality(S) = 0
    BY <1>1, <2>2, <2>3, <2>4
  <2>5. CASE Cardinality(S) > 0
    <3>1. respErr' > respErr
      BY <2>2, <2>3, <2>5
    <3> QED
      BY <2>2, <3>1 DEF Ledger!Charge
  <2> QED
    BY <2>3, <2>4, <2>5
<1>8. ASSUME NEW r \in Reqs,
             \/ SubmitBackstop(r) \/ SubmitPush(r) \/ Wake(r) \/ Receive(r)
             \/ SeeDisconnect(r) \/ PatienceDenied(r) \/ LeaveTaken(r)
             \/ LeaveAbandoned(r) \/ ReceiveOwned(r) \/ ClientGoes(r)
      PROVE  UNCHANGED Ledger!ledger
  BY <1>1, <1>8 DEF SubmitBackstop, SubmitPush, Wake, Receive, SeeDisconnect,
     PatienceDenied, LeaveTaken, LeaveAbandoned, ReceiveOwned, ClientGoes
<1>9. ASSUME NEW w \in Workers, WorkerNext(w), ~riskTakeWork(w)
      PROVE  UNCHANGED Ledger!ledger
  BY <1>1, <1>9 DEF WorkerNext, DecideLanes, Park, RecvToken, Unpark, Hash, Deliver, waiters
<1>10. CASE Tick \/ UNCHANGED vars
  BY <1>1, <1>10 DEF Tick, vars, waiters
<1> QED
  BY <1>2, <1>3, <1>4, <1>5, <1>6, <1>7, <1>8, <1>9, <1>10
  DEF Next, RequestNext, Submit, Patience, Leave, Finish, Quiet

-----------------------------------------------------------------------------
(* The theorems.                                                           *)

IInv == Inv /\ Balance /\ Conserved

LEMMA InitIInv == Init => IInv
<1> SUFFICES ASSUME Init PROVE IInv
  OBVIOUS
<1> USE DEF Init
<1>1. TypeOK
  BY InitTypeOK
<1>2. ChargePlace
  BY DEF ChargePlace
<1>3. InLine
  BY DEF InLine, Distinct, Elems
<1>4. Owed
  BY DEF Owed
<1>5. Balance
  <2>1. Charged = {} /\ Skipped = {}
    BY DEF Charged, Skipped
  <2> QED
    BY <2>1, FS_EmptySet DEF Balance
<1>6. Conserved
  <2>1. stack = <<>>
    OBVIOUS
  <2>2. Len(stack) = 0
    BY <2>1
  <2> QED
    BY <1>1, <2>2, WakeupsFinite DEF Conserved
<1> QED
  BY <1>1, <1>2, <1>3, <1>4, <1>5, <1>6 DEF IInv, Inv

LEMMA NextIInv == IInv /\ [Next]_vars => IInv'
  BY NextTypeOK, NextChargePlace, NextInLine, NextOwed, NextBalance, NextConserved
  DEF IInv, Inv

(* The balance of the ledger and of the wakeups, and where each waiter and *)
(* its charge are, hold in every state.                                    *)
THEOREM SpecIInv == Spec => []IInv
<1> QED
  BY InitIInv, NextIInv, PTL DEF Spec

(* The gate's variables keep their types: the line holds requests, the     *)
(* wakeup buffer never exceeds its capacity.                               *)
THEOREM TypeCorrect == Spec => []TypeOK
<1>1. IInv => TypeOK
  BY DEF IInv, Inv
<1> QED
  BY SpecIInv, <1>1, PTL

(* respErr is exactly the charges that stand: each refused request is      *)
(* charged once in riskSubmit, a served one has none left.                 *)
THEOREM LedgerAlwaysExact == Spec => []LedgerExact
<1>1. IInv => LedgerExact
  BY DEF IInv, Inv, Balance, ChargePlace, InLine, Owed, LedgerExact, Charged, Skipped
<1> QED
  BY SpecIInv, <1>1, PTL

(* Sleeping workers are never more than the wakeups under way unless every *)
(* waiter in line has one or an awake worker.                              *)
THEOREM AlwaysWorkConserving == Spec => []WorkConserving
<1>1. IInv => WorkConserving
  BY ConservedIsWorkConserving DEF IInv
<1> QED
  BY SpecIInv, <1>1, PTL

(* Nobody is forgotten: when waiters are in line and every worker sleeps,  *)
(* a wakeup is under way.                                                  *)
THEOREM WakeupNeverLost == Spec => []NoLostWakeup
<1>1. IInv => NoLostWakeup
  <2> SUFFICES ASSUME IInv, stack # <<>>, \A w \in Workers : Asleep(w)
               PROVE  tokens > 0 \/ Waking # {}
    BY DEF NoLostWakeup
  <2>0. TypeOK /\ Conserved
    BY DEF IInv, Inv
  <2>1. AwakeSet = {} /\ AsleepSet = Workers
    BY DEF AwakeSet, AsleepSet, Awake, Asleep
  <2>2. Cardinality(AwakeSet) = 0
    BY <2>1, FS_EmptySet
  <2>3. Cardinality(AsleepSet) # 0
    BY <2>1, GateAssumption, FS_EmptySet
  <2>4. Len(stack) # 0
    BY <2>0, EmptySeq DEF TypeOK
  <2>5. tokens + Cardinality(Waking) # 0
    BY <2>0, <2>2, <2>3, <2>4, WakeupsFinite DEF Conserved
  <2>6. CASE Waking = {}
    <3>1. Cardinality(Waking) = 0
      BY <2>6, FS_EmptySet
    <3> QED
      BY <2>0, <2>5, <3>1, WakeupsFinite
  <2> QED
    BY <2>6
<1> QED
  BY SpecIInv, <1>1, PTL

(* A waiter is decided once: never taken after it was abandoned or charged *)
(* as stale, never refused after it was taken.                             *)
THEOREM AlwaysDecidedOnce == Spec => DecidedOnce
<1> DEFINE Once ==
      \A r \in Reqs :
        /\ taken'[r] /\ ~taken[r] => ~abandoned[r] /\ ~skipped[r] /\ r \in OnStack
        /\ taken[r] => rpc'[r] \notin {"charge", "shed"}
<1>1. ASSUME IInv, IInv', [Next]_vars PROVE Once
  <2>1. ASSUME NEW r \in Reqs, taken[r] PROVE rpc'[r] \notin {"charge", "shed"}
    <3>1. taken'[r]
      BY <1>1, <2>1, TakenStays DEF IInv, Inv
    <3> QED
      BY <1>1, <3>1 DEF IInv, Inv, InLine
  <2>2. ASSUME NEW r \in Reqs, taken'[r], ~taken[r]
        PROVE  ~abandoned[r] /\ ~skipped[r] /\ r \in OnStack
    BY <1>1, <2>2, TakenFromLine DEF IInv, Inv
  <2> QED
    BY <2>1, <2>2
<1> QED
  BY <1>1, SpecIInv, PTL DEF Spec, DecidedOnce

(* Every step of the gate is a step of the abstract ledger: no reservation *)
(* beyond the budget and no refund of what was not reserved.               *)
THEOREM GateImplementsLedger == Spec => ImplementsLedger
<1>1. Init => Ledger!Init
  <2> SUFFICES ASSUME Init PROVE Ledger!Init
    OBVIOUS
  <2>1. {r \in Reqs : charge[r] = "reserved"} = {}
    BY DEF Init
  <2> QED
    BY <2>1, FS_EmptySet DEF Init, Ledger!Init
<1>2. IInv /\ [Next]_vars => [Ledger!Next]_(Ledger!ledger)
  BY LedgerStep DEF IInv, Inv
<1> QED
  BY <1>1, <1>2, SpecIInv, PTL DEF Spec, ImplementsLedger, Ledger!Spec

=============================================================================
