------------------------ MODULE RiskGateWaiterProofs ------------------------
(***************************************************************************)
(* What becomes of a waiter, for any number of requests and workers.       *)
(*                                                                         *)
(* "A worker owns it, result WILL arrive" (app/main.go:325): the digest of *)
(* a taken waiter is at exactly one place.  The invariant of               *)
(* RiskGateProofs says that whoever holds or has received a digest was     *)
(* taken; here is what it leaves open, that no digest is held twice and    *)
(* none gets lost.                                                         *)
(*                                                                         *)
(* The line is ordered by age, and so a take that charges a stale waiter   *)
(* empties it.                                                             *)
(***************************************************************************)
EXTENDS RiskGateProofs, WellFoundedInduction

-----------------------------------------------------------------------------
(* The inductive invariant.                                                *)

Hand(w) == work[w] \cup batch[w]
Received(r) == rpc[r] \in {"served", "ok"}

(* A worker holds waiters only in the part of its loop that serves them.   *)
HandsInLoop ==
  \A w \in Workers :
    /\ wpc[w] \notin {"hash", "more", "deliver"} => work[w] = {}
    /\ wpc[w] # "deliver" => batch[w] = {}
    /\ work[w] \cap batch[w] = {}

(* No two workers hold one waiter.                                         *)
HandsApart ==
  \A v, w \in Workers : v # w => Hand(v) \cap Hand(w) = {}

(* The places of a digest exclude each other, and a taken waiter's digest  *)
(* is at one of them.                                                      *)
Places ==
  /\ \A w \in Workers : \A r \in Hand(w) : ~full[r] /\ ~Received(r)
  /\ \A r \in Reqs :
       /\ full[r] => ~Received(r)
       /\ taken[r] => full[r] \/ Received(r) \/ \E w \in Workers : r \in Hand(w)

Hold == HandsInLoop /\ HandsApart /\ Places

-----------------------------------------------------------------------------
(* Most steps move no digest and no worker in or out of its serving loop.  *)
Idle == {"top", "take", "park", "recv", "blocked", "woken"}

LEMMA NothingMoves ==
  ASSUME Hold, UNCHANGED <<taken, full, work, batch>>,
         \A r \in Reqs : Received(r)' = Received(r),
         \A w \in Workers : wpc'[w] = wpc[w] \/ (wpc[w] \in Idle /\ wpc'[w] \in Idle),
         TypeOK
  PROVE  Hold'
<1>1. \A w \in Workers : Hand(w)' = Hand(w) /\ Hand(w) \subseteq Reqs
  BY DEF Hand, TypeOK
<1>2. HandsInLoop'
  BY DEF Hold, HandsInLoop, Idle
<1>3. HandsApart'
  BY <1>1 DEF Hold, HandsApart
<1>4. Places'
  BY <1>1 DEF Hold, Places
<1> QED
  BY <1>2, <1>3, <1>4 DEF Hold

(* The digest in the channel is received by its goroutine.                 *)
LEMMA ReceiveHold ==
  ASSUME TypeOK, Hold, NEW r \in Reqs, full[r], full' = [full EXCEPT ![r] = FALSE],
         Go(r, "served"), UNCHANGED <<taken, workers>>
  PROVE  Hold'
<1>1. UNCHANGED <<wpc, work, batch>>
  BY DEF workers
<1>2. \A w \in Workers : Hand(w)' = Hand(w) /\ Hand(w) \subseteq Reqs
  BY <1>1 DEF Hand, TypeOK
<1>3. /\ ~full'[r] /\ Received(r)'
      /\ \A q \in Reqs : q # r => full'[q] = full[q] /\ Received(q)' = Received(q)
  BY DEF TypeOK, Go, Received
<1>4. HandsInLoop' /\ HandsApart'
  BY <1>1, <1>2 DEF Hold, HandsInLoop, HandsApart
<1>5. \A w \in Workers : r \notin Hand(w)
  BY DEF Hold, Places
<1>6. Places'
  BY <1>2, <1>3, <1>5 DEF Hold, Places
<1> QED
  BY <1>4, <1>6 DEF Hold

(* A take moves waiters that nobody holds from the line to one worker.     *)
LEMMA TakeHold ==
  ASSUME TypeOK, InLine, Owed, Hold, NEW w \in Workers, riskTakeWork(w)
  PROVE  Hold'
<1>1. PICK L \in SUBSET Reqs, S \in SUBSET Reqs : TakeStep(w, L, S)
  BY TakeEffect DEF InLine
<1>2. /\ wpc[w] = "take"
      /\ work' = [work EXCEPT ![w] = L]
      /\ wpc' = [wpc EXCEPT ![w] = IF L = {} THEN "park" ELSE "hash"]
      /\ taken' = [r \in Reqs |-> taken[r] \/ r \in L]
      /\ UNCHANGED <<full, rpc, batch>>
  BY <1>1 DEF TakeStep, riskTakeWork
<1>3. work[w] = {} /\ batch[w] = {}
  BY <1>2 DEF Hold, HandsInLoop
<1>4. /\ Hand(w)' = L
      /\ \A v \in Workers : v # w => Hand(v)' = Hand(v) /\ wpc'[v] = wpc[v] /\ work'[v] = work[v]
  BY <1>2, <1>3 DEF TypeOK, Hand
<1>5. \A r \in L : ~taken[r]
  BY <1>1 DEF TakeStep, InLine
<1>6. \A v \in Workers : Hand(v) \subseteq Reqs /\ \A r \in Hand(v) : taken[r]
  BY DEF Owed, Hand, TypeOK
<1>7. HandsInLoop'
  <2>1. /\ wpc'[w] \notin {"hash", "more", "deliver"} => work'[w] = {}
        /\ batch'[w] = {}
    BY <1>2, <1>3 DEF TypeOK
  <2> QED
    BY <1>2, <1>4, <2>1 DEF Hold, HandsInLoop
<1>8. HandsApart'
  BY <1>4, <1>5, <1>6 DEF Hold, HandsApart
<1>9. Places'
  <2>1. \A r \in L : ~full[r] /\ ~Received(r)
    BY <1>5 DEF Owed, Received
  <2>2. \A r \in Reqs : Received(r)' = Received(r) /\ full'[r] = full[r]
    BY <1>2 DEF Received
  <2>3. ASSUME NEW v \in Workers, NEW r \in Hand(v)' PROVE ~full'[r] /\ ~Received(r)'
    BY <1>4, <1>6, <2>1, <2>2, <2>3 DEF Hold, Places
  <2>4. ASSUME NEW r \in Reqs, taken'[r]
        PROVE  full'[r] \/ Received(r)' \/ \E v \in Workers : r \in Hand(v)'
    <3>1. CASE r \in L
      BY <1>4, <3>1
    <3>2. CASE r \notin L
      <4>1. taken[r]
        BY <1>2, <2>4, <3>2
      <4>2. Hand(w) = {}
        BY <1>3 DEF Hand
      <4> QED
        BY <1>4, <2>2, <4>1, <4>2 DEF Hold, Places
    <3> QED
      BY <3>1, <3>2
  <2> QED
    BY <2>2, <2>3, <2>4 DEF Hold, Places
<1> QED
  BY <1>7, <1>8, <1>9 DEF Hold

(* A chain moves waiters from a worker's work to its batch.                *)
LEMMA HashHold ==
  ASSUME TypeOK, Hold, NEW w \in Workers, Hash(w)
  PROVE  Hold'
<1>1. PICK b \in SUBSET work[w] :
        batch' = [batch EXCEPT ![w] = b] /\ work' = [work EXCEPT ![w] = @ \ b]
  BY DEF Hash
<1>2. /\ wpc[w] # "deliver"
      /\ wpc' = [wpc EXCEPT ![w] = "deliver"]
      /\ UNCHANGED <<taken, full, rpc>>
  BY DEF Hash, GoW, waiters
<1>3. batch[w] = {}
  BY <1>2 DEF Hold, HandsInLoop
<1>4. /\ work'[w] = work[w] \ b /\ batch'[w] = b /\ wpc'[w] = "deliver"
      /\ \A v \in Workers : v # w => work'[v] = work[v] /\ batch'[v] = batch[v] /\ wpc'[v] = wpc[v]
  BY <1>1, <1>2 DEF TypeOK
<1>5. \A v \in Workers : Hand(v)' = Hand(v) /\ Hand(v) \subseteq Reqs
  BY <1>3, <1>4 DEF Hand, TypeOK
<1>6. HandsInLoop'
  BY <1>4 DEF Hold, HandsInLoop
<1>7. HandsApart'
  BY <1>5 DEF Hold, HandsApart
<1>8. Places'
  BY <1>2, <1>5 DEF Hold, Places, Received
<1> QED
  BY <1>6, <1>7, <1>8 DEF Hold

(* A delivery moves one digest from a worker's batch to the channel.       *)
LEMMA DeliverHold ==
  ASSUME TypeOK, Hold, NEW w \in Workers, Deliver(w)
  PROVE  Hold'
<1>1. PICK r \in batch[w] :
        /\ full' = [full EXCEPT ![r] = TRUE]
        /\ batch' = [batch EXCEPT ![w] = @ \ {r}]
        /\ GoW(w, IF batch[w] # {r} THEN "deliver"
                  ELSE IF work[w] # {} THEN "more" ELSE "top")
  BY DEF Deliver
<1>2. UNCHANGED <<taken, rpc, work>> /\ r \in Reqs
  BY DEF Deliver, TypeOK
<1>3. /\ work'[w] = work[w] /\ batch'[w] = batch[w] \ {r}
      /\ wpc'[w] = IF batch[w] # {r} THEN "deliver"
                   ELSE IF work[w] # {} THEN "more" ELSE "top"
      /\ \A v \in Workers : v # w => work'[v] = work[v] /\ batch'[v] = batch[v] /\ wpc'[v] = wpc[v]
  BY <1>1, <1>2 DEF TypeOK, GoW
<1>4. r \in Hand(w) /\ r \notin work[w]
  BY <1>1 DEF Hand, Hold, HandsInLoop
<1>5. \A v \in Workers : Hand(v)' = Hand(v) \ {r} /\ Hand(v) \subseteq Reqs
  <2>1. Hand(w)' = Hand(w) \ {r}
    BY <1>3, <1>4 DEF Hand
  <2>2. ASSUME NEW v \in Workers, v # w PROVE Hand(v)' = Hand(v) \ {r}
    <3>1. r \notin Hand(v)
      BY <1>4, <2>2 DEF Hold, HandsApart
    <3> QED
      BY <1>3, <2>2, <3>1 DEF Hand
  <2> QED
    BY <2>1, <2>2 DEF Hand, TypeOK
<1>6. /\ full'[r] /\ ~Received(r)
      /\ \A q \in Reqs : Received(q)' = Received(q) /\ (q # r => full'[q] = full[q])
  BY <1>1, <1>2, <1>4 DEF TypeOK, Hold, Places, Received
<1>7. HandsInLoop'
  <2>1. wpc'[w] # "deliver" => batch'[w] = {}
    BY <1>3
  <2>2. wpc'[w] \notin {"hash", "more", "deliver"} => work'[w] = {}
    BY <1>3
  <2> QED
    BY <1>3, <2>1, <2>2 DEF Hold, HandsInLoop
<1>8. HandsApart'
  BY <1>5 DEF Hold, HandsApart
<1>9. Places'
  BY <1>2, <1>5, <1>6 DEF Hold, Places
<1> QED
  BY <1>7, <1>8, <1>9 DEF Hold

LEMMA NextHold == Inv /\ Hold /\ [Next]_vars => Hold'
<1> SUFFICES ASSUME TypeOK, InLine, Owed, Hold, [Next]_vars PROVE Hold'
  BY DEF Inv
<1> USE DEF Received, Idle, Go, GoW, waiters, workers
<1>1. ASSUME NEW r \in Reqs,
             \/ SubmitBackstop(r) \/ SubmitShed(r) \/ SubmitPush(r)
             \/ SeeDisconnect(r) \/ PatienceShed(r) \/ PatienceDenied(r)
             \/ LeaveTaken(r) \/ LeaveAbandoned(r) \/ Refund(r) \/ Charge(r)
             \/ Respond(r) \/ ClientGoes(r)
      PROVE  Hold'
  <2>1. UNCHANGED <<taken, full, wpc, work, batch>>
    BY <1>1 DEF SubmitBackstop, SubmitShed, SubmitPush, SeeDisconnect, PatienceShed,
       PatienceDenied, LeaveTaken, LeaveAbandoned, Refund, Charge, Respond, ClientGoes
  <2>2. \A q \in Reqs : Received(q)' = Received(q)
    BY <1>1 DEF TypeOK, SubmitBackstop, SubmitShed, SubmitPush, SeeDisconnect, PatienceShed,
       PatienceDenied, LeaveTaken, LeaveAbandoned, Refund, Charge, Respond, ClientGoes
  <2> QED
    BY <2>1, <2>2, NothingMoves
<1>2. ASSUME NEW r \in Reqs, Wake(r) PROVE Hold'
  <2>1. UNCHANGED <<taken, full, work, batch>>
    BY <1>2 DEF Wake
  <2>2. \A q \in Reqs : Received(q)' = Received(q)
    BY <1>2 DEF Wake, TypeOK
  <2>3. \A w \in Workers : wpc'[w] = wpc[w] \/ (wpc[w] \in Idle /\ wpc'[w] \in Idle)
    BY <1>2 DEF Wake, TypeOK
  <2> QED
    BY <2>1, <2>2, <2>3, NothingMoves
<1>3. ASSUME NEW r \in Reqs, Receive(r) \/ ReceiveOwned(r) PROVE Hold'
  BY <1>3, ReceiveHold DEF Receive, ReceiveOwned
<1>4. ASSUME NEW w \in Workers, DecideLanes(w) \/ Park(w) \/ RecvToken(w) \/ Unpark(w)
      PROVE  Hold'
  <2>1. UNCHANGED <<taken, full, rpc, work, batch>>
    BY <1>4 DEF DecideLanes, Park, RecvToken, Unpark
  <2>2. wpc[w] \in Idle /\ \E at \in Idle : wpc' = [wpc EXCEPT ![w] = at]
    BY <1>4 DEF DecideLanes, Park, RecvToken, Unpark
  <2>3. \A v \in Workers : wpc'[v] = wpc[v] \/ (wpc[v] \in Idle /\ wpc'[v] \in Idle)
    BY <2>2 DEF TypeOK
  <2> QED
    BY <2>1, <2>3, NothingMoves
<1>5. ASSUME NEW w \in Workers, riskTakeWork(w) PROVE Hold'
  BY <1>5, TakeHold
<1>6. ASSUME NEW w \in Workers, Hash(w) PROVE Hold'
  BY <1>6, HashHold
<1>7. ASSUME NEW w \in Workers, Deliver(w) PROVE Hold'
  BY <1>7, DeliverHold
<1>8. CASE OtherOK \/ Tick \/ UNCHANGED vars
  BY <1>8, NothingMoves DEF OtherOK, Tick, vars
<1> QED
  BY <1>1, <1>2, <1>3, <1>4, <1>5, <1>6, <1>7, <1>8
  DEF Next, RequestNext, WorkerNext, Submit, Patience, Leave, Finish, Quiet

LEMMA InitHold == Init => Hold
  BY DEF Init, Hold, HandsInLoop, HandsApart, Places, Hand, Received

-----------------------------------------------------------------------------
(* Nobody holds what is with somebody else: the holders of a waiter are    *)
(* none or one.                                                            *)
LEMMA OneHolder ==
  ASSUME HandsApart, NEW r \in Reqs
  PROVE  /\ \A w \in Workers : r \in Hand(w) => Holders(r) = {w}
         /\ (\A w \in Workers : r \notin Hand(w)) => Holders(r) = {}
<1>1. Holders(r) = {w \in Workers : r \in Hand(w)}
  BY DEF Holders, Hand
<1> QED
  BY <1>1 DEF HandsApart

LEMMA HoldIsOwnership == Inv /\ Hold => Ownership
<1> SUFFICES ASSUME TypeOK, InLine, Owed, Hold PROVE Ownership
  BY DEF Inv
<1>1. ASSUME NEW r \in Reqs, taken[r]
      PROVE  /\ r \notin OnStack
             /\ ~abandoned[r]
             /\ Cardinality(Holders(r)) + (IF full[r] THEN 1 ELSE 0)
                  + (IF rpc[r] \in {"served", "ok"} THEN 1 ELSE 0) = 1
  <2>1. r \notin OnStack /\ ~abandoned[r]
    BY <1>1, OnStackElems DEF InLine
  <2>2. CASE \E w \in Workers : r \in Hand(w)
    <3>1. PICK w \in Workers : r \in Hand(w)
      BY <2>2
    <3>2. Holders(r) = {w}
      BY <3>1, OneHolder DEF Hold
    <3>3. Cardinality(Holders(r)) = 1
      BY <3>2, FS_Singleton
    <3>4. ~full[r] /\ rpc[r] \notin {"served", "ok"}
      BY <3>1 DEF Hold, Places, Received
    <3> QED
      BY <2>1, <3>3, <3>4
  <2>3. CASE \A w \in Workers : r \notin Hand(w)
    <3>1. Holders(r) = {}
      BY <2>3, OneHolder DEF Hold
    <3>2. Cardinality(Holders(r)) = 0
      BY <3>1, FS_EmptySet
    <3>3. \/ full[r] /\ rpc[r] \notin {"served", "ok"}
          \/ ~full[r] /\ rpc[r] \in {"served", "ok"}
      BY <1>1, <2>3 DEF Hold, Places, Received
    <3> QED
      BY <2>1, <3>2, <3>3
  <2> QED
    BY <2>2, <2>3
<1>2. ASSUME NEW r \in Reqs, ~taken[r]
      PROVE  Holders(r) = {} /\ ~full[r] /\ rpc[r] \notin {"served", "ok"}
  <2>1. \A w \in Workers : r \notin Hand(w)
    BY <1>2 DEF Owed, Hand
  <2> QED
    BY <1>2, <2>1, OneHolder DEF Hold, Owed
<1>3. \A w \in Workers : work[w] \cap batch[w] = {}
  BY DEF Hold, HandsInLoop
<1> QED
  BY <1>1, <1>2, <1>3 DEF Ownership

-----------------------------------------------------------------------------
(* The theorem.                                                            *)

(* From the moment a waiter is taken its digest is in one worker's hands,  *)
(* in its channel or answered, and at one of these only: no waiter is      *)
(* served twice, none is forgotten, and no second digest can block a       *)
(* worker on a full channel.                                               *)
THEOREM AlwaysOwned == Spec => []Ownership
<1>1. Init => Hold
  BY InitHold
<1>2. IInv /\ Hold /\ [Next]_vars => Hold'
  BY NextHold DEF IInv
<1>3. IInv /\ Hold => Ownership
  BY HoldIsOwnership DEF IInv
<1> QED
  BY <1>1, <1>2, <1>3, SpecIInv, PTL DEF Spec

-----------------------------------------------------------------------------
(* The line is ordered by age.                                             *)

(* A request that has not entered the line has not aged.                   *)
Young == \A r \in Reqs : rpc[r] = "new" => age[r] = 0

Aged == StackByAge /\ Young

(* A step that leaves the line and the ages alone.                         *)
LEMMA NothingAges ==
  ASSUME Aged, UNCHANGED <<stack, age>>, \A r \in Reqs : rpc'[r] = "new" => rpc[r] = "new"
  PROVE  Aged'
BY DEF Aged, StackByAge, Young

LEMMA PushAged ==
  ASSUME TypeOK, Aged, NEW r \in Reqs, SubmitPush(r)
  PROVE  Aged'
<1>1. stack' = <<r>> \o stack /\ rpc[r] = "new" /\ UNCHANGED age
  BY DEF SubmitPush
<1>2. /\ Len(stack) \in Nat
      /\ DOMAIN stack = 1 .. Len(stack)
      /\ DOMAIN stack' = 1 .. 1 + Len(stack)
      /\ \A i \in DOMAIN stack' : stack'[i] = IF i <= 1 THEN r ELSE stack[i - 1]
  <2>1. <<r>> \in Seq(Reqs) /\ Len(<<r>>) = 1 /\ <<r>>[1] = r /\ stack \in Seq(Reqs)
    BY DEF TypeOK
  <2> QED
    BY <1>1, <2>1, ConcatProperties, LenProperties
<1>3. \A i \in DOMAIN stack : stack[i] \in Reqs /\ age[stack[i]] \in Nat
  BY <1>2, ElementOfSeq DEF TypeOK
<1>4. StackByAge'
  <2> SUFFICES ASSUME NEW i \in DOMAIN stack', NEW j \in DOMAIN stack', i < j
               PROVE  age'[stack'[i]] <= age'[stack'[j]]
    BY DEF StackByAge
  <2>1. j - 1 \in DOMAIN stack /\ stack'[j] = stack[j - 1]
    BY <1>2
  <2>2. CASE i = 1
    <3>1. stack'[i] = r /\ age[r] = 0
      BY <1>1, <1>2, <2>2 DEF Aged, Young
    <3> QED
      BY <1>1, <1>3, <2>1, <3>1
  <2>3. CASE i # 1
    <3>1. i - 1 \in DOMAIN stack /\ stack'[i] = stack[i - 1] /\ i - 1 < j - 1
      BY <1>2, <2>3
    <3> QED
      BY <1>1, <2>1, <3>1 DEF Aged, StackByAge
  <2> QED
    BY <2>2, <2>3
<1>5. Young'
  BY <1>1 DEF SubmitPush, Go, TypeOK, Aged, Young
<1> QED
  BY <1>4, <1>5 DEF Aged

(* What a take leaves is the older part of the line.                       *)
LEMMA TakeAged ==
  ASSUME TypeOK, InLine, Aged, NEW w \in Workers, riskTakeWork(w)
  PROVE  Aged'
<1>1. PICK n \in 0 .. Len(stack) :
        stack' = SubSeq(stack, n + 1, Len(stack)) /\ age' = age
  BY DEF riskTakeWork
<1>2. Len(stack) \in Nat /\ n \in Nat /\ DOMAIN stack = 1 .. Len(stack)
  BY LenProperties DEF TypeOK
<1>3. \A i \in 1 .. Len(stack) : stack[i] \in Reqs
  BY ElementOfSeq DEF TypeOK
<1>4. \A i \in DOMAIN stack' : n + i \in DOMAIN stack /\ stack'[i] = stack[n + i] /\ i \in Nat
  <2>1. n + 1 \in Int /\ Len(stack) \in Int /\ \A i \in n + 1 .. Len(stack) : stack[i] \in Reqs
    BY <1>2, <1>3
  <2>2. /\ stack' \in Seq(Reqs)
        /\ Len(stack') = IF n + 1 <= Len(stack) THEN Len(stack) - (n + 1) + 1 ELSE 0
        /\ \A i \in 1 .. Len(stack) - (n + 1) + 1 : stack'[i] = stack[(n + 1) + i - 1]
    BY <1>1, <2>1, SubSeqProperties
  <2>3. DOMAIN stack' = 1 .. Len(stack')
    BY <2>2, LenProperties
  <2>4. ASSUME NEW i \in DOMAIN stack'
        PROVE  n + i \in DOMAIN stack /\ stack'[i] = stack[n + i] /\ i \in Nat
    <3>1. i \in Nat /\ i >= 1 /\ i <= Len(stack) - n
      BY <1>2, <2>2, <2>3
    <3>2. i \in 1 .. Len(stack) - (n + 1) + 1 /\ (n + 1) + i - 1 = n + i /\ n + i \in 1 .. Len(stack)
      BY <1>2, <3>1
    <3> QED
      BY <1>2, <2>2, <3>1, <3>2
  <2> QED
    BY <2>4
<1>5. \A i \in DOMAIN stack' : age'[stack'[i]] = age[stack[n + i]]
  BY <1>1, <1>4
<1>6. StackByAge'
  BY <1>2, <1>4, <1>5 DEF Aged, StackByAge
<1>7. Young'
  <2>1. rpc' = rpc
    BY DEF riskTakeWork
  <2> QED
    BY <1>1, <2>1 DEF Aged, Young
<1> QED
  BY <1>6, <1>7 DEF Aged

(* All waiters in line age alike, up to the cap.                           *)
LEMMA TickAged ==
  ASSUME TypeOK, InLine, Aged, Tick
  PROVE  Aged'
<1>1. /\ age' = [r \in Reqs |-> IF Aging(r) /\ age[r] < AgeCap THEN age[r] + 1 ELSE age[r]]
      /\ UNCHANGED <<stack, rpc>>
  BY DEF Tick
<1>2. \A i \in DOMAIN stack : stack[i] \in Reqs /\ age[stack[i]] \in Nat /\ Aging(stack[i])
  <2>1. \A i \in DOMAIN stack : stack[i] \in Reqs
    BY ElementOfSeq, LenProperties DEF TypeOK
  <2> QED
    BY <2>1 DEF TypeOK, Aging, OnStack
<1>3. StackByAge'
  BY <1>1, <1>2, GateAssumption DEF Aged, StackByAge
<1>4. Young'
  <2>1. \A r \in Reqs : rpc[r] = "new" => ~Aging(r)
    BY OnStackElems DEF Aging, InLine
  <2> QED
    BY <1>1, <2>1 DEF Aged, Young
<1> QED
  BY <1>3, <1>4 DEF Aged

LEMMA NextAged == Inv /\ Aged /\ [Next]_vars => Aged'
<1> SUFFICES ASSUME TypeOK, InLine, Aged, [Next]_vars PROVE Aged'
  BY DEF Inv
<1>1. ASSUME NEW r \in Reqs, RequestNext(r) \/ ClientGoes(r), ~SubmitPush(r) PROVE Aged'
  <2>1. UNCHANGED <<stack, age>>
    BY <1>1 DEF RequestNext, Submit, Patience, Leave, Finish,
       SubmitBackstop, SubmitShed, Wake, Receive, SeeDisconnect, PatienceShed,
       PatienceDenied, LeaveTaken, LeaveAbandoned, Refund, ReceiveOwned, Charge,
       Respond, ClientGoes
  <2>2. rpc' = rpc \/ \E at \in RStates \ {"new"} : rpc' = [rpc EXCEPT ![r] = at]
    BY <1>1 DEF RequestNext, Submit, Patience, Leave, Finish, Go, RStates,
       SubmitBackstop, SubmitShed, Wake, Receive, SeeDisconnect, PatienceShed,
       PatienceDenied, LeaveTaken, LeaveAbandoned, Refund, ReceiveOwned, Charge,
       Respond, ClientGoes
  <2>3. \A q \in Reqs : rpc'[q] = "new" => rpc[q] = "new"
    BY <2>2 DEF TypeOK
  <2> QED
    BY <2>1, <2>3, NothingAges
<1>2. ASSUME NEW w \in Workers, WorkerNext(w), ~riskTakeWork(w) PROVE Aged'
  <2>1. UNCHANGED <<stack, age, rpc>>
    BY <1>2 DEF WorkerNext, DecideLanes, Park, RecvToken, Unpark, Hash, Deliver, waiters
  <2> QED
    BY <2>1, NothingAges
<1>3. ASSUME NEW r \in Reqs, SubmitPush(r) PROVE Aged'
  BY <1>3, PushAged
<1>4. ASSUME NEW w \in Workers, riskTakeWork(w) PROVE Aged'
  BY <1>4, TakeAged
<1>5. CASE Tick
  BY <1>5, TickAged
<1>6. CASE OtherOK \/ UNCHANGED vars
  BY <1>6, NothingAges DEF OtherOK, vars, waiters
<1> QED
  BY <1>1, <1>2, <1>3, <1>4, <1>5, <1>6 DEF Next, Quiet

LEMMA InitAged == Init => Aged
  BY DEF Init, Aged, StackByAge, Young

(* A take that pops a stale waiter pops everything below it.               *)
LEMMA StaleTakeEmpties ==
  ASSUME TypeOK, Aged, NEW w \in Workers, riskTakeWork(w),
         NEW r \in Reqs, skipped'[r], ~skipped[r]
  PROVE  stack' = <<>>
<1>1. PICK n \in 0 .. Len(stack) :
        /\ StopsAt(n, lanes[w])
        /\ stack' = SubSeq(stack, n + 1, Len(stack))
        /\ skipped' = [q \in Reqs |-> skipped[q] \/ q \in StaleOf(n)]
  BY DEF riskTakeWork
<1>2. Len(stack) \in Nat /\ n \in Nat /\ DOMAIN stack = 1 .. Len(stack)
  BY LenProperties DEF TypeOK
<1>3. PICK k \in 1 .. n : age[stack[k]] > patience
  <2>1. r \in StaleOf(n)
    BY <1>1
  <2> QED
    BY <2>1 DEF StaleOf, Popped, Stale
<1>4. k \in DOMAIN stack /\ n \in DOMAIN stack
  BY <1>2, <1>3
<1>5. stack[k] \in Reqs /\ stack[n] \in Reqs
  BY <1>2, <1>4, ElementOfSeq DEF TypeOK
<1>6. age[stack[k]] \in Nat /\ age[stack[n]] \in Nat /\ patience \in Nat
  BY <1>5, GateAssumption DEF TypeOK
<1>7. age[stack[k]] <= age[stack[n]]
  <2>1. CASE k = n
    BY <1>6, <2>1
  <2>2. CASE k # n
    <3>1. k < n
      BY <1>2, <1>3, <2>2
    <3> QED
      BY <1>4, <3>1 DEF Aged, StackByAge
  <2> QED
    BY <2>1, <2>2
<1>8. ~Live(stack[n])
  BY <1>3, <1>6, <1>7 DEF Live
<1>9. n = Len(stack)
  BY <1>1, <1>8 DEF StopsAt
<1>10. Len(stack) \in Int /\ n + 1 \in Int /\ Len(stack) < n + 1
  BY <1>2, <1>9
<1> QED
  BY <1>1, <1>10, SubSeqEmpty

LEMMA SpecAged == Spec => []Aged
<1>1. IInv /\ Aged /\ [Next]_vars => Aged'
  BY NextAged DEF IInv
<1> QED
  BY <1>1, InitAged, SpecIInv, PTL DEF Spec

(* The line is ordered by age under every interleaving of pushes, takes    *)
(* and ticks: what lies below a stale waiter is stale.                     *)
THEOREM AlwaysStackByAge == Spec => []StackByAge
<1>1. Aged => StackByAge
  BY DEF Aged
<1> QED
  BY <1>1, SpecAged, PTL

(* One worker that meets a stale waiter charges all that are left in line. *)
THEOREM StaleTakeAlwaysEmpties == Spec => StaleTakeEmptiesStack
<1>1. ASSUME TypeOK, Aged, [Next]_vars, NEW r \in Reqs, skipped'[r], ~skipped[r]
      PROVE  stack' = <<>>
  <2>1. ASSUME NEW q \in Reqs, RequestNext(q) \/ ClientGoes(q) PROVE skipped' = skipped
    BY <2>1 DEF RequestNext, Submit, Patience, Leave, Finish,
       SubmitBackstop, SubmitShed, SubmitPush, Wake, Receive, SeeDisconnect,
       PatienceShed, PatienceDenied, LeaveTaken, LeaveAbandoned, Refund,
       ReceiveOwned, Charge, Respond, ClientGoes
  <2>2. ASSUME NEW w \in Workers, WorkerNext(w), ~riskTakeWork(w) PROVE skipped' = skipped
    BY <2>2 DEF WorkerNext, DecideLanes, Park, RecvToken, Unpark, Hash, Deliver, waiters
  <2>3. ASSUME OtherOK \/ Tick \/ UNCHANGED vars PROVE skipped' = skipped
    BY <2>3 DEF OtherOK, Tick, vars, waiters
  <2>4. ASSUME NEW w \in Workers, riskTakeWork(w) PROVE stack' = <<>>
    BY <1>1, <2>4, StaleTakeEmpties
  <2> QED
    BY <1>1, <2>1, <2>2, <2>3, <2>4 DEF Next, Quiet
<1>2. IInv /\ Aged /\ [Next]_vars
        => ((\E r \in Reqs : skipped'[r] /\ ~skipped[r]) => stack' = <<>>)
  BY <1>1 DEF IInv, Inv
<1> QED
  BY <1>2, SpecIInv, SpecAged, PTL DEF Spec, StaleTakeEmptiesStack

-----------------------------------------------------------------------------
(* Clients that gave up before a worker had their waiter.                  *)

(* The gate sees that a client is gone, or no client gives up before the   *)
(* widest patience window is over.                                         *)
PatientClients == SeesDisconnect \/ \A p \in Patiences : p < GiveUpAge

(* Whoever lost its client in line will not be taken: a take sees that the *)
(* client is gone or that the waiter is too old.                           *)
Lost ==
  \A r \in Reqs :
    gone[r] = "early" => ~taken[r] /\ (SeesDisconnect \/ age[r] >= GiveUpAge)

LEMMA NothingLost ==
  ASSUME Lost, UNCHANGED <<taken, age, gone>>
  PROVE  Lost'
BY DEF Lost

(* A take serves nobody whose client left while the waiter was in line.    *)
LEMMA TakeServesNoneLost ==
  ASSUME PatientClients, TypeOK, Lost, NEW n \in 0 .. Len(stack), NEW r \in LiveOf(n)
  PROVE  gone[r] # "early"
<1>1. ~CtxDone(r) /\ age[r] <= patience /\ r \in Reqs
  BY PoppedFinite DEF LiveOf, Live, Dead
<1>2. CASE SeesDisconnect
  BY <1>1, <1>2 DEF CtxDone
<1>3. CASE ~SeesDisconnect
  <2>1. patience \in Nat /\ GiveUpAge \in Nat /\ age[r] \in Nat /\ patience < GiveUpAge
    BY <1>1, <1>3, GateAssumption DEF TypeOK, PatientClients
  <2>2. ~(age[r] >= GiveUpAge)
    BY <1>1, <2>1
  <2> QED
    BY <1>1, <1>3, <2>2 DEF Lost
<1> QED
  BY <1>2, <1>3

LEMMA NextLost ==
  ASSUME PatientClients, Inv, Lost, [Next]_vars
  PROVE  Lost'
<1> USE DEF Go, GoW, waiters, workers
<1>0. TypeOK /\ GiveUpAge \in Nat
  BY GateAssumption DEF Inv
<1>1. ASSUME NEW r \in Reqs, RequestNext(r) PROVE Lost'
  <2>1. UNCHANGED <<taken, age, gone>>
    BY <1>1 DEF RequestNext, Submit, Patience, Leave, Finish,
       SubmitBackstop, SubmitShed, SubmitPush, Wake, Receive, SeeDisconnect,
       PatienceShed, PatienceDenied, LeaveTaken, LeaveAbandoned, Refund,
       ReceiveOwned, Charge, Respond
  <2> QED
    BY <2>1, NothingLost
<1>2. ASSUME NEW r \in Reqs, ClientGoes(r) PROVE Lost'
  <2>1. /\ taken[r] \/ age[r] >= GiveUpAge
        /\ gone' = [gone EXCEPT ![r] = IF taken[r] THEN "late" ELSE "early"]
        /\ UNCHANGED <<taken, age>>
    BY <1>2 DEF ClientGoes
  <2>2. gone'[r] = "early" => ~taken[r] /\ age[r] >= GiveUpAge
    BY <1>0, <2>1 DEF TypeOK
  <2>3. \A q \in Reqs : q # r => gone'[q] = gone[q]
    BY <1>0, <2>1 DEF TypeOK
  <2> QED
    BY <2>1, <2>2, <2>3 DEF Lost
<1>3. ASSUME NEW w \in Workers, riskTakeWork(w) PROVE Lost'
  <2>1. PICK n \in 0 .. Len(stack) :
          /\ taken' = [r \in Reqs |-> taken[r] \/ r \in LiveOf(n)]
          /\ UNCHANGED <<age, gone>>
    BY <1>3 DEF riskTakeWork
  <2>2. \A r \in LiveOf(n) : gone[r] # "early"
    BY <1>0, TakeServesNoneLost
  <2> QED
    BY <2>1, <2>2 DEF Lost
<1>4. ASSUME NEW w \in Workers, WorkerNext(w), ~riskTakeWork(w) PROVE Lost'
  <2>1. UNCHANGED <<taken, age, gone>>
    BY <1>4 DEF WorkerNext, DecideLanes, Park, RecvToken, Unpark, Hash, Deliver
  <2> QED
    BY <2>1, NothingLost
<1>5. ASSUME Tick PROVE Lost'
  <2>1. /\ age' = [r \in Reqs |-> IF Aging(r) /\ age[r] < AgeCap THEN age[r] + 1 ELSE age[r]]
        /\ UNCHANGED <<taken, gone>>
    BY <1>5 DEF Tick
  <2>2. \A r \in Reqs : age[r] \in Nat /\ age'[r] \in Nat /\ age'[r] >= age[r]
    BY <1>0, <2>1 DEF TypeOK
  <2>3. \A r \in Reqs : age[r] >= GiveUpAge => age'[r] >= GiveUpAge
    BY <1>0, <2>2
  <2> QED
    BY <2>1, <2>3 DEF Lost
<1>6. CASE OtherOK \/ UNCHANGED vars
  BY <1>6, NothingLost DEF OtherOK, vars
<1> QED
  BY <1>1, <1>2, <1>3, <1>4, <1>5, <1>6 DEF Next, Quiet

LEMMA InitLost == Init => Lost
  BY DEF Init, Lost

LEMMA LostIsCounted ==
  ASSUME IInv, Lost, \A r \in Reqs : Answered(r)
  PROVE  Cardinality({r \in Reqs : gone[r] = "early" \/ rpc[r] = "shed"}) <= respErr
<1> DEFINE Unserved == {r \in Reqs : gone[r] = "early" \/ rpc[r] = "shed"}
<1>1. TypeOK /\ ChargePlace /\ Owed /\ Balance
  BY DEF IInv, Inv
<1>2. Unserved \subseteq Charged
  BY <1>1 DEF Lost, Owed, ChargePlace, Charged, Answered
<1>3. /\ Cardinality(Unserved) <= Cardinality(Charged)
      /\ Cardinality(Unserved) \in Nat
  BY <1>1, <1>2, ChargesFinite, FS_Subset, FS_CardinalityType
<1> HIDE DEF Unserved
<1>4. Cardinality(Unserved) <= respErr
  BY <1>1, <1>3, ChargesFinite DEF Balance
<1> QED
  BY <1>4 DEF Unserved

(* "A strict overestimate of k6's view", as far as it is true: whichever   *)
(* clients leave, in line or while their chain runs, respErr has counted   *)
(* every 503 and every client that left before a worker took its waiter,   *)
(* once everybody has been answered.  Under net/http this needs no         *)
(* hypothesis; a front end that does not see a client leave must have      *)
(* clients more patient than the gate.  A client that leaves while its     *)
(* chain runs is answered 200, and the code counts no error for it.        *)
THEOREM AlwaysOverestimate ==
  ASSUME PatientClients
  PROVE  Spec => []Overestimate
<1>1. Init => Lost
  BY InitLost
<1>2. IInv /\ Lost /\ [Next]_vars => Lost'
  BY NextLost DEF IInv
<1>3. IInv /\ Lost => Overestimate
  BY LostIsCounted DEF Overestimate
<1> QED
  BY <1>1, <1>2, <1>3, SpecIInv, PTL DEF Spec

-----------------------------------------------------------------------------
(* No worker sticks.                                                       *)

(* A worker in its serving loop has waiters to serve.                      *)
Laden ==
  \A w \in Workers :
    /\ wpc[w] \in {"hash", "more"} => work[w] # {}
    /\ wpc[w] = "deliver" => batch[w] # {}

(* The step that a worker is about to take is there to be taken: a take    *)
(* stops somewhere, a chain finds its lanes' waiters, no channel is full.  *)
CanMove(w) ==
  /\ wpc[w] = "take" => \E n \in 0 .. Len(stack) : StopsAt(n, lanes[w])
  /\ wpc[w] \in {"hash", "more"} =>
       \E b \in SUBSET work[w] :
         b # {} /\ Cardinality(b) = BatchSize(Cardinality(work[w]), wpc[w] = "hash")
  /\ wpc[w] = "deliver" => batch[w] # {} /\ \A r \in batch[w] : ~full[r]

NeverStuck ==
  /\ \A w \in Workers : CanMove(w)
  /\ \A r \in Reqs :
       rpc[r] = "owned" => full[r] \/ \E w \in Workers : Busy(w) /\ r \in Hand(w)

LEMMA Least ==
  ASSUME NEW T \in SUBSET Nat, T # {}
  PROVE  \E n \in T : \A m \in T : n <= m
<1> DEFINE R == {p \in Nat \X Nat : p[1] < p[2]}
<1>1. IsWellFoundedOn(R, Nat)
  BY NatLessThanWellFounded DEF OpToRel
<1>2. PICK n \in T : \A m \in T : ~(<<m, n>> \in R)
  BY <1>1, WFMin
<1>3. \A m \in T : ~(m < n)
  BY <1>2
<1> QED
  BY <1>3

(* A take that goes on until it has its lanes full or the line is empty    *)
(* finds the one or the other, because it counts live waiters one by one.  *)
LEMMA TakeStops ==
  ASSUME TypeOK, NEW w \in Workers
  PROVE  \E n \in 0 .. Len(stack) : StopsAt(n, lanes[w])
<1> DEFINE live(n) == Cardinality(LiveOf(n))
           want == lanes[w]
           T == {n \in 0 .. Len(stack) : live(n) >= want}
<1>1. Len(stack) \in Nat /\ want \in Nat \ {0} /\ DOMAIN stack = 1 .. Len(stack)
  BY LenProperties DEF TypeOK
<1>2. \A n \in 0 .. Len(stack) : IsFiniteSet(LiveOf(n)) /\ live(n) \in Nat
  <2> TAKE n \in 0 .. Len(stack)
  <2>1. LiveOf(n) \in SUBSET Reqs
    BY PoppedFinite
  <2> QED
    BY <2>1, GateAssumption, FS_Subset, FS_CardinalityType
<1>3. CASE T = {}
  <2>1. Len(stack) \in 0 .. Len(stack)
    BY <1>1
  <2>2. live(Len(stack)) < want
    BY <1>1, <1>2, <1>3, <2>1
  <2> QED
    BY <2>1, <2>2 DEF StopsAt
<1>4. CASE T # {}
  <2>1. PICK n \in T : \A m \in T : n <= m
    <3>1. T \in SUBSET Nat
      BY <1>1
    <3> HIDE DEF T
    <3> QED
      BY <1>4, <3>1, Least
  <2>2. n \in 0 .. Len(stack) /\ live(n) >= want
    OBVIOUS
  <2>3. n # 0
    <3>1. ASSUME n = 0 PROVE FALSE
      <4>1. LiveOf(0) = {}
        BY DEF LiveOf, Popped
      <4>2. live(0) = 0
        BY <4>1, FS_EmptySet
      <4> QED
        BY <1>1, <2>2, <3>1, <4>2
    <3> QED
      BY <3>1
  <2> DEFINE k == n - 1
  <2>4. k \in 0 .. Len(stack) /\ n \in DOMAIN stack
    BY <1>1, <2>2, <2>3
  <2>5. live(k) < want
    <3>1. k \notin T
      BY <1>1, <2>1, <2>2
    <3> QED
      BY <1>1, <1>2, <2>4, <3>1
  <2>6. Popped(n) = Popped(k) \cup {stack[n]}
    <3>1. 1 .. n = (1 .. k) \cup {n}
      BY <1>1, <2>2, <2>3
    <3> HIDE DEF k
    <3> QED
      BY <3>1 DEF Popped
  <2> HIDE DEF k
  <2>7. LiveOf(n) = IF Live(stack[n]) THEN LiveOf(k) \cup {stack[n]} ELSE LiveOf(k)
    BY <2>6 DEF LiveOf
  <2>8. Live(stack[n])
    <3>1. LiveOf(n) # LiveOf(k)
      BY <1>1, <1>2, <2>2, <2>4, <2>5
    <3> QED
      BY <2>7, <3>1
  <2>9. live(n) <= live(k) + 1
    <3>1. live(n) = live(k) \/ live(n) = live(k) + 1
      BY <1>2, <2>4, <2>7, <2>8, FS_AddElement
    <3> QED
      BY <1>2, <2>4, <3>1
  <2>10. live(n) = want
    BY <1>1, <1>2, <2>2, <2>4, <2>5, <2>9
  <2> QED
    BY <2>2, <2>8, <2>10 DEF StopsAt
<1> QED
  BY <1>3, <1>4

LEMMA SubsetOfSize ==
  ASSUME NEW S, IsFiniteSet(S), NEW k \in 1 .. Cardinality(S)
  PROVE  \E b \in SUBSET S : b # {} /\ Cardinality(b) = k
<1>1. Cardinality(S) \in Nat
  BY FS_CardinalityType
<1>2. PICK f \in Bijection(1 .. Cardinality(S), S) : TRUE
  BY FS_CardinalityType DEF ExistsBijection
<1>3. k \in Nat /\ 1 <= k /\ 1 .. k \subseteq 1 .. Cardinality(S)
  BY <1>1
<1> DEFINE b == {f[i] : i \in 1 .. k}
           g == [i \in 1 .. k |-> f[i]]
<1>4. b \in SUBSET S
  BY <1>2, <1>3 DEF Bijection, Injection, Surjection
<1>5. g \in Bijection(1 .. k, b)
  BY <1>2, <1>3 DEF Bijection, Injection, Surjection, IsInjective
<1>6. IsFiniteSet(1 .. k) /\ Cardinality(1 .. k) = k
  BY <1>3, FS_Interval
<1>7. Cardinality(b) = k
  BY <1>5, <1>6, FS_Bijection DEF ExistsBijection
<1>8. b # {}
  <2>1. 1 \in 1 .. k
    BY <1>3
  <2> QED
    BY <2>1
<1> QED
  BY <1>4, <1>7, <1>8

(* Every way through the batching code serves some of the waiters in hand. *)
LEMMA BatchInHand ==
  ASSUME NEW n \in Nat \ {0}, NEW first \in BOOLEAN
  PROVE  BatchSize(n, first) \in 1 .. n
BY DEF BatchSize

LEMMA ChainFindsBatch ==
  ASSUME TypeOK, NEW w \in Workers, work[w] # {}
  PROVE  \E b \in SUBSET work[w] :
           b # {} /\ Cardinality(b) = BatchSize(Cardinality(work[w]), wpc[w] = "hash")
<1>1. IsFiniteSet(work[w]) /\ Cardinality(work[w]) \in Nat \ {0}
  BY GateAssumption, FS_Subset, FS_CardinalityType, FS_EmptySet DEF TypeOK
<1>2. BatchSize(Cardinality(work[w]), wpc[w] = "hash") \in 1 .. Cardinality(work[w])
  BY <1>1, BatchInHand
<1> QED
  BY <1>1, <1>2, SubsetOfSize

LEMMA NextLaden == Inv /\ Hold /\ Laden /\ [Next]_vars => Laden'
<1> SUFFICES ASSUME TypeOK, InLine, Hold, Laden, [Next]_vars PROVE Laden'
  BY DEF Inv
<1> USE DEF Go, GoW, waiters, workers
<1>1. ASSUME NEW r \in Reqs, RequestNext(r) \/ ClientGoes(r) PROVE Laden'
  <2>1. UNCHANGED <<work, batch>>
    BY <1>1 DEF RequestNext, Submit, Patience, Leave, Finish,
       SubmitBackstop, SubmitShed, SubmitPush, Wake, Receive, SeeDisconnect,
       PatienceShed, PatienceDenied, LeaveTaken, LeaveAbandoned, Refund,
       ReceiveOwned, Charge, Respond, ClientGoes
  <2>2. wpc' = wpc \/ \E v \in Workers : wpc' = [wpc EXCEPT ![v] = "woken"]
    BY <1>1 DEF RequestNext, Submit, Patience, Leave, Finish,
       SubmitBackstop, SubmitShed, SubmitPush, Wake, Receive, SeeDisconnect,
       PatienceShed, PatienceDenied, LeaveTaken, LeaveAbandoned, Refund,
       ReceiveOwned, Charge, Respond, ClientGoes
  <2> QED
    BY <2>1, <2>2 DEF Laden, TypeOK
<1>2. ASSUME NEW w \in Workers, DecideLanes(w) \/ Park(w) \/ RecvToken(w) \/ Unpark(w)
      PROVE  Laden'
  <2>1. UNCHANGED <<work, batch>>
    BY <1>2 DEF DecideLanes, Park, RecvToken, Unpark
  <2>2. \E at \in Idle : wpc' = [wpc EXCEPT ![w] = at]
    BY <1>2 DEF DecideLanes, Park, RecvToken, Unpark, Idle
  <2> QED
    BY <2>1, <2>2 DEF Laden, TypeOK, Idle
<1>3. ASSUME NEW w \in Workers, riskTakeWork(w) PROVE Laden'
  <2>1. PICK L \in SUBSET Reqs :
          /\ work' = [work EXCEPT ![w] = L]
          /\ wpc' = [wpc EXCEPT ![w] = IF L = {} THEN "park" ELSE "hash"]
          /\ UNCHANGED batch
    BY <1>3, TakeEffect DEF InLine, TakeStep
  <2> QED
    BY <2>1 DEF Laden, TypeOK
<1>4. ASSUME NEW w \in Workers, Hash(w) PROVE Laden'
  <2>1. PICK b \in SUBSET work[w] :
          /\ Cardinality(b) = BatchSize(Cardinality(work[w]), wpc[w] = "hash")
          /\ batch' = [batch EXCEPT ![w] = b]
          /\ work' = [work EXCEPT ![w] = @ \ b]
          /\ wpc' = [wpc EXCEPT ![w] = "deliver"]
    BY <1>4 DEF Hash
  <2>2. b # {}
    <3>1. work[w] # {}
      BY <1>4 DEF Hash, Laden
    <3>2. Cardinality(work[w]) \in Nat \ {0}
      BY <3>1, GateAssumption, FS_Subset, FS_CardinalityType, FS_EmptySet DEF TypeOK
    <3>3. BatchSize(Cardinality(work[w]), wpc[w] = "hash") \in 1 .. Cardinality(work[w])
      BY <3>2, BatchInHand
    <3>4. Cardinality(b) # 0
      BY <2>1, <3>2, <3>3
    <3> QED
      BY <3>4, FS_EmptySet
  <2> QED
    BY <2>1, <2>2 DEF Laden, TypeOK
<1>5. ASSUME NEW w \in Workers, Deliver(w) PROVE Laden'
  <2>1. PICK r \in batch[w] :
          /\ batch' = [batch EXCEPT ![w] = @ \ {r}]
          /\ wpc' = [wpc EXCEPT ![w] = IF batch[w] # {r} THEN "deliver"
                                       ELSE IF work[w] # {} THEN "more" ELSE "top"]
          /\ UNCHANGED work
    BY <1>5 DEF Deliver
  <2> QED
    BY <2>1 DEF Laden, TypeOK
<1>6. CASE OtherOK \/ Tick \/ UNCHANGED vars
  BY <1>6 DEF OtherOK, Tick, vars, Laden
<1> QED
  BY <1>1, <1>2, <1>3, <1>4, <1>5, <1>6 DEF Next, WorkerNext, Quiet

LEMMA InitLaden == Init => Laden
  BY DEF Init, Laden

LEMMA LadenNeverStuck == Inv /\ Hold /\ Laden => NeverStuck
<1> SUFFICES ASSUME TypeOK, Owed, Hold, Laden PROVE NeverStuck
  BY DEF Inv
<1>1. ASSUME NEW w \in Workers PROVE CanMove(w)
  <2>1. wpc[w] = "deliver" => batch[w] # {} /\ \A r \in batch[w] : ~full[r]
    BY DEF Laden, Hold, Places, Hand
  <2> QED
    BY <2>1, TakeStops, ChainFindsBatch DEF CanMove, Laden
<1>2. ASSUME NEW r \in Reqs, rpc[r] = "owned", ~full[r]
      PROVE  \E w \in Workers : Busy(w) /\ r \in Hand(w)
  <2>1. PICK w \in Workers : r \in Hand(w)
    BY <1>2 DEF Owed, Hold, Places, Received
  <2>2. Busy(w)
    BY <2>1 DEF Hold, HandsInLoop, Hand, Busy
  <2> QED
    BY <2>1, <2>2
<1> QED
  BY <1>1, <1>2 DEF NeverStuck

(* No worker ever blocks with a waiter in hand, on a full result channel   *)
(* least of all, whatever kernels there are and however short a pop was;   *)
(* and a goroutine that must wait for its digest ("a worker owns it,       *)
(* result WILL arrive") has it in its channel or waits for such a worker.  *)
THEOREM WorkersNeverStick == Spec => []NeverStuck
<1>1. Init => Hold /\ Laden
  BY InitHold, InitLaden
<1>2. IInv /\ Hold /\ Laden /\ [Next]_vars => Hold' /\ Laden'
  BY NextHold, NextLaden DEF IInv
<1>3. IInv /\ Hold /\ Laden => NeverStuck
  BY LadenNeverStuck DEF IInv
<1> QED
  BY <1>1, <1>2, <1>3, SpecIInv, PTL DEF Spec

=============================================================================
