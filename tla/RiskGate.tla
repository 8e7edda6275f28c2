------------------------------ MODULE RiskGate ------------------------------
(***************************************************************************)
(* The /risk admission gate of app/main.go: request goroutines park their  *)
(* waiters on a LIFO stack, hash workers pop them, run their chains in     *)
(* batches and deliver the digests, and waiters leave when their client    *)
(* goes away or when patience runs out and the error budget allows.        *)
(*                                                                         *)
(* One action is one critical section of riskMu, one channel operation or  *)
(* one atomic counter operation.  shedReserveError is one step: ShedBudget *)
(* shows that its loop behaves so.  Time is a Tick that ages the waiters   *)
(* still in line and runs their patience timers down; a waiter's age stops *)
(* at AgeCap, which is older than any patience.                            *)
(***************************************************************************)
EXTENDS Integers, Sequences, FiniteSets

CONSTANTS
  Reqs,            \* /risk requests, each served by a goroutine of its own
  Workers,         \* hash workers, one per slot
  Kernels,         \* batch kernels installed at boot, of "pair" "quad" "x16"
  X16Lanes,        \* lanes of the x16 kernel (16)
  X16MinBatch,     \* riskX16MinBatch
  WakeCap,         \* capacity of riskWork (16)
  Backstop,        \* riskStackBackstop (2048)
  SeesDisconnect,  \* net/http cancels the request's context, rawserver does not
  Patiences,       \* the values observeChainCost may give riskPatienceNs
  RetryTicks,      \* a denied patience timer is reset to this (100 ms)
  AgeCap,          \* bound: ages are counted up to this
  GiveUpAge,       \* clients wait as long for their chain to begin (0: some
                   \* do not wait at all)
  MaxGone,         \* bound: clients that go away
  MaxOther,        \* bound: responses of the other endpoints
  Scale, BudgetBP, MinTotal

ASSUME GateAssumption ==
  /\ IsFiniteSet(Reqs)
  /\ IsFiniteSet(Workers)
  /\ Workers # {}                    \* riskSlots is at least 1
  /\ Kernels \subseteq {"pair", "quad", "x16"}
  /\ X16Lanes \in Nat \ {0}
  /\ X16MinBatch \in Nat \ {0}
  /\ WakeCap \in Nat \ {0}
  /\ Cardinality(Workers) <= WakeCap  \* and at most 4
  /\ Backstop \in Nat
  /\ SeesDisconnect \in BOOLEAN
  /\ Patiences \subseteq Nat
  /\ Patiences # {}
  /\ RetryTicks \in Nat
  /\ AgeCap \in Nat
  /\ GiveUpAge \in Nat
  /\ MaxGone \in Nat
  /\ MaxOther \in Nat
  /\ Scale \in Nat \ {0}
  /\ BudgetBP \in 0 .. Scale
  /\ MinTotal \in Nat

VARIABLES
  stack,      \* riskStackTop and its next links: waiters, newest first
  tokens,     \* wakeups buffered in riskWork
  patience,   \* riskPatienceNs
  taken, abandoned,        \* the flags of each waiter
  full,       \* its result channel holds the digest
  age, timer, \* time since enqueued; what is left on its patience timer
  gone,       \* its client has gone away: "early", before its waiter was
              \* taken, or "late", when a worker had it
  rpc,        \* where its goroutine is in riskSubmit and handleRisk
  charge,     \* history: how this request's error is charged to respErr
  skipped,    \* history: riskTakeWork charged it as stale
  wpc,        \* where each worker is in riskWorker
  lanes, work, batch,      \* its locals: lanes wanted, waiters owned, and
                           \* those of the chain that just completed
  respOK, respErr

waiters == <<taken, abandoned, full, age, timer, gone, rpc, charge, skipped>>
workers == <<wpc, lanes, work, batch>>
vars == <<stack, tokens, patience, waiters, workers, respOK, respErr>>

RStates == {"new", "wake", "wait", "leave", "refund", "owned", "charge",
            "served", "ok", "shed"}
WStates == {"top", "take", "park", "recv", "blocked", "woken", "hash",
            "deliver", "more"}

OnStack == {stack[i] : i \in DOMAIN stack}
Answered(r) == rpc[r] \in {"ok", "shed"}

(* riskIdleWorkers: raised under the lock after an empty take, lowered     *)
(* under the lock after the wakeup.                                        *)
riskIdleWorkers == Cardinality({w \in Workers : wpc[w] \in {"recv", "blocked", "woken"}})

(* ctx.Err() # nil.                                                        *)
CtxDone(r) == SeesDisconnect /\ gone[r] # "no"

Ledger == INSTANCE ErrorLedger
            WITH held <- Cardinality({r \in Reqs : charge[r] = "reserved"})

BudgetAllows == Ledger!Fits(respOK, respErr)

Init ==
  /\ stack = <<>>
  /\ tokens = 0
  /\ patience \in Patiences
  /\ taken = [r \in Reqs |-> FALSE]
  /\ abandoned = [r \in Reqs |-> FALSE]
  /\ full = [r \in Reqs |-> FALSE]
  /\ age = [r \in Reqs |-> 0]
  /\ timer = [r \in Reqs |-> 0]
  /\ gone = [r \in Reqs |-> "no"]
  /\ rpc = [r \in Reqs |-> "new"]
  /\ charge = [r \in Reqs |-> "none"]
  /\ skipped = [r \in Reqs |-> FALSE]
  /\ wpc = [w \in Workers |-> "top"]
  /\ lanes = [w \in Workers |-> 1]
  /\ work = [w \in Workers |-> {}]
  /\ batch = [w \in Workers |-> {}]
  /\ respOK = 0
  /\ respErr = 0

TypeOK ==
  /\ stack \in Seq(Reqs)
  /\ tokens \in 0 .. WakeCap
  /\ patience \in Patiences
  /\ taken \in [Reqs -> BOOLEAN]
  /\ abandoned \in [Reqs -> BOOLEAN]
  /\ full \in [Reqs -> BOOLEAN]
  /\ age \in [Reqs -> Nat]
  /\ timer \in [Reqs -> Nat]
  /\ gone \in [Reqs -> {"no", "early", "late"}]
  /\ rpc \in [Reqs -> RStates]
  /\ charge \in [Reqs -> {"none", "reserved", "added"}]
  /\ skipped \in [Reqs -> BOOLEAN]
  /\ wpc \in [Workers -> WStates]
  /\ lanes \in [Workers -> Nat \ {0}]
  /\ work \in [Workers -> SUBSET Reqs]
  /\ batch \in [Workers -> SUBSET Reqs]
  /\ respOK \in Nat
  /\ respErr \in Int

Go(r, at) == rpc' = [rpc EXCEPT ![r] = at]
GoW(w, at) == wpc' = [wpc EXCEPT ![w] = at]

-----------------------------------------------------------------------------
(* riskSubmit: the first critical section.                                 *)

AtBackstop == Len(stack) >= Backstop
Overloaded == Len(stack) > 0 /\ riskIdleWorkers = 0

SubmitBackstop(r) ==
  /\ rpc[r] = "new"
  /\ AtBackstop
  /\ Go(r, "charge")
  /\ UNCHANGED <<stack, tokens, patience, taken, abandoned, full, age, timer,
                 gone, charge, skipped, workers, respOK, respErr>>

SubmitShed(r) ==
  /\ rpc[r] = "new"
  /\ ~AtBackstop
  /\ Overloaded
  /\ BudgetAllows
  /\ respErr' = respErr + 1
  /\ charge' = [charge EXCEPT ![r] = "reserved"]
  /\ Go(r, "shed")
  /\ UNCHANGED <<stack, tokens, patience, taken, abandoned, full, age, timer,
                 gone, skipped, workers, respOK>>

SubmitPush(r) ==
  /\ rpc[r] = "new"
  /\ ~AtBackstop
  /\ ~(Overloaded /\ BudgetAllows)
  /\ stack' = <<r>> \o stack
  /\ Go(r, "wake")
  /\ UNCHANGED <<tokens, patience, taken, abandoned, full, age, timer, gone,
                 charge, skipped, workers, respOK, respErr>>

(* Mutants: the wakeup is counted without a bound, is sent only when an    *)
(* idle worker was counted, or finds room for one.                         *)
WakeUnbounded(r) ==
  /\ rpc[r] = "wake"
  /\ tokens' = tokens + 1
  /\ timer' = [timer EXCEPT ![r] = patience]
  /\ Go(r, "wait")
  /\ UNCHANGED <<stack, patience, taken, abandoned, full, age, gone, charge,
                 skipped, workers, respOK, respErr>>

WakeIfIdle(r) ==
  /\ rpc[r] = "wake"
  /\ \/ \E w \in Workers :
          /\ wpc[w] = "blocked"
          /\ GoW(w, "woken")
          /\ UNCHANGED tokens
     \/ /\ \A w \in Workers : wpc[w] # "blocked"
        /\ tokens' = IF tokens < WakeCap /\ riskIdleWorkers > 0 THEN tokens + 1 ELSE tokens
        /\ UNCHANGED wpc
  /\ timer' = [timer EXCEPT ![r] = patience]
  /\ Go(r, "wait")
  /\ UNCHANGED <<stack, patience, taken, abandoned, full, age, gone, charge,
                 skipped, lanes, work, batch, respOK, respErr>>

WakeOne(r) ==
  /\ rpc[r] = "wake"
  /\ \/ \E w \in Workers :
          /\ wpc[w] = "blocked"
          /\ GoW(w, "woken")
          /\ UNCHANGED tokens
     \/ /\ \A w \in Workers : wpc[w] # "blocked"
        /\ tokens' = 1
        /\ UNCHANGED wpc
  /\ timer' = [timer EXCEPT ![r] = patience]
  /\ Go(r, "wait")
  /\ UNCHANGED <<stack, patience, taken, abandoned, full, age, gone, charge,
                 skipped, lanes, work, batch, respOK, respErr>>

(* The wakeup never blocks: it is handed to a worker blocked in its        *)
(* receive, or buffered, or dropped when the buffer is full.  The patience *)
(* timer starts after it.                                                  *)
Wake(r) ==
  /\ rpc[r] = "wake"
  /\ \/ \E w \in Workers :
          /\ wpc[w] = "blocked"
          /\ GoW(w, "woken")
          /\ UNCHANGED tokens
     \/ /\ \A w \in Workers : wpc[w] # "blocked"
        /\ tokens' = IF tokens < WakeCap THEN tokens + 1 ELSE tokens
        /\ UNCHANGED wpc
  /\ timer' = [timer EXCEPT ![r] = patience]
  /\ Go(r, "wait")
  /\ UNCHANGED <<stack, patience, taken, abandoned, full, age, gone, charge,
                 skipped, lanes, work, batch, respOK, respErr>>

(* The three cases of the select; leaving it stops the timer.              *)
Receive(r) ==
  /\ rpc[r] = "wait"
  /\ full[r]
  /\ full' = [full EXCEPT ![r] = FALSE]
  /\ timer' = [timer EXCEPT ![r] = 0]
  /\ Go(r, "served")
  /\ UNCHANGED <<stack, tokens, patience, taken, abandoned, age, gone, charge,
                 skipped, workers, respOK, respErr>>

SeeDisconnect(r) ==
  /\ rpc[r] = "wait"
  /\ CtxDone(r)
  /\ timer' = [timer EXCEPT ![r] = 0]
  /\ Go(r, "leave")
  /\ UNCHANGED <<stack, tokens, patience, taken, abandoned, full, age, gone,
                 charge, skipped, workers, respOK, respErr>>

(* Mutant: the budget is not asked.                                        *)
PatienceShedUnasked(r) ==
  /\ rpc[r] = "wait"
  /\ timer[r] = 0
  /\ respErr' = respErr + 1
  /\ charge' = [charge EXCEPT ![r] = "reserved"]
  /\ Go(r, "leave")
  /\ UNCHANGED <<stack, tokens, patience, taken, abandoned, full, age, timer,
                 gone, skipped, workers, respOK>>

PatienceShed(r) ==
  /\ rpc[r] = "wait"
  /\ timer[r] = 0
  /\ BudgetAllows
  /\ respErr' = respErr + 1
  /\ charge' = [charge EXCEPT ![r] = "reserved"]
  /\ Go(r, "leave")
  /\ UNCHANGED <<stack, tokens, patience, taken, abandoned, full, age, timer,
                 gone, skipped, workers, respOK>>

PatienceDenied(r) ==
  /\ rpc[r] = "wait"
  /\ timer[r] = 0
  /\ ~BudgetAllows
  /\ timer' = [timer EXCEPT ![r] = RetryTicks]
  /\ UNCHANGED <<stack, tokens, patience, taken, abandoned, full, age, gone,
                 rpc, charge, skipped, workers, respOK, respErr>>

(* Mutants: the reservation is not given back, the goroutine leaves even   *)
(* though its waiter is taken, waits even though it is not, or takes a     *)
(* failure for counted because its client is gone.                         *)
LeaveTakenKeepsCharge(r) ==
  /\ rpc[r] = "leave"
  /\ taken[r]
  /\ Go(r, "owned")
  /\ UNCHANGED <<stack, tokens, patience, taken, abandoned, full, age, timer,
                 gone, charge, skipped, workers, respOK, respErr>>

LeaveRegardless(r) ==
  /\ rpc[r] = "leave"
  /\ abandoned' = [abandoned EXCEPT ![r] = TRUE]
  /\ Go(r, IF charge[r] = "reserved" THEN "shed" ELSE "charge")
  /\ UNCHANGED <<stack, tokens, patience, taken, full, age, timer, gone,
                 charge, skipped, workers, respOK, respErr>>

LeaveNever(r) ==
  /\ rpc[r] = "leave"
  /\ ~taken[r]
  /\ Go(r, IF charge[r] = "reserved" THEN "refund" ELSE "owned")
  /\ UNCHANGED <<stack, tokens, patience, taken, abandoned, full, age, timer,
                 gone, charge, skipped, workers, respOK, respErr>>

LeaveUncharged(r) ==
  /\ rpc[r] = "leave"
  /\ ~taken[r]
  /\ abandoned' = [abandoned EXCEPT ![r] = TRUE]
  /\ Go(r, "shed")
  /\ UNCHANGED <<stack, tokens, patience, taken, full, age, timer, gone,
                 charge, skipped, workers, respOK, respErr>>

(* riskSubmit: the second critical section, which arbitrates with a worker *)
(* that may have taken the waiter since the select fired.                  *)
LeaveTaken(r) ==
  /\ rpc[r] = "leave"
  /\ taken[r]
  /\ Go(r, IF charge[r] = "reserved" THEN "refund" ELSE "owned")
  /\ UNCHANGED <<stack, tokens, patience, taken, abandoned, full, age, timer,
                 gone, charge, skipped, workers, respOK, respErr>>

LeaveAbandoned(r) ==
  /\ rpc[r] = "leave"
  /\ ~taken[r]
  /\ abandoned' = [abandoned EXCEPT ![r] = TRUE]
  /\ Go(r, IF charge[r] = "reserved" THEN "shed" ELSE "charge")
  /\ UNCHANGED <<stack, tokens, patience, taken, full, age, timer, gone,
                 charge, skipped, workers, respOK, respErr>>

Refund(r) ==
  /\ rpc[r] = "refund"
  /\ respErr' = respErr - 1
  /\ charge' = [charge EXCEPT ![r] = "none"]
  /\ Go(r, "owned")
  /\ UNCHANGED <<stack, tokens, patience, taken, abandoned, full, age, timer,
                 gone, skipped, workers, respOK>>

ReceiveOwned(r) ==
  /\ rpc[r] = "owned"
  /\ full[r]
  /\ full' = [full EXCEPT ![r] = FALSE]
  /\ Go(r, "served")
  /\ UNCHANGED <<stack, tokens, patience, taken, abandoned, age, timer, gone,
                 charge, skipped, workers, respOK, respErr>>

(* The explicit add of the backstop and disconnect exits.                  *)
Charge(r) ==
  /\ rpc[r] = "charge"
  /\ respErr' = respErr + 1
  /\ charge' = [charge EXCEPT ![r] = "added"]
  /\ Go(r, "shed")
  /\ UNCHANGED <<stack, tokens, patience, taken, abandoned, full, age, timer,
                 gone, skipped, workers, respOK>>

(* handleRisk writes the 200 and counts it; the 503 of a shed request is   *)
(* written uncounted, so "shed" is its end.                                *)
Respond(r) ==
  /\ rpc[r] = "served"
  /\ respOK' = respOK + 1
  /\ Go(r, "ok")
  /\ UNCHANGED <<stack, tokens, patience, taken, abandoned, full, age, timer,
                 gone, charge, skipped, workers, respErr>>

-----------------------------------------------------------------------------
(* riskWorker.                                                             *)

DecideLanes(w) ==
  /\ wpc[w] = "top"
  /\ lanes' = [lanes EXCEPT ![w] =
       IF "x16" \in Kernels /\ Len(stack) >= X16MinBatch THEN X16Lanes
       ELSE IF "quad" \in Kernels THEN 4
       ELSE IF "pair" \in Kernels THEN 2
       ELSE 1]
  /\ GoW(w, "take")
  /\ UNCHANGED <<stack, tokens, patience, waiters, work, batch, respOK, respErr>>

(* Mutant: an abandoned waiter is not recognised.                          *)
DeadIfDisconnected(r) == CtxDone(r)

Dead(r) == abandoned[r] \/ CtxDone(r)
Stale(r) == ~Dead(r) /\ age[r] > patience
Live(r) == ~Dead(r) /\ age[r] <= patience

(* riskTakeWork pops waiters until it holds as many live ones as it wants  *)
(* or the stack is empty.                                                  *)
Popped(n) == {stack[i] : i \in 1 .. n}
LiveOf(n) == {r \in Popped(n) : Live(r)}
StaleOf(n) == {r \in Popped(n) : Stale(r)}

(* Mutant: a take stops at the first stale waiter.                         *)
StopsAtStale(n, want) ==
  \/ Cardinality(LiveOf(n)) = want /\ Live(stack[n])
  \/ StaleOf(n) # {} /\ Stale(stack[n]) /\ StaleOf(n - 1) = {}
  \/ StaleOf(n) = {} /\ Cardinality(LiveOf(n)) < want /\ n = Len(stack)

StopsAt(n, want) ==
  \/ Cardinality(LiveOf(n)) = want /\ Live(stack[n])
  \/ Cardinality(LiveOf(n)) < want /\ n = Len(stack)

riskTakeWork(w) ==
  /\ wpc[w] = "take"
  /\ \E n \in 0 .. Len(stack) :
       /\ StopsAt(n, lanes[w])
       /\ stack' = SubSeq(stack, n + 1, Len(stack))
       /\ taken' = [r \in Reqs |-> taken[r] \/ r \in LiveOf(n)]
       /\ skipped' = [r \in Reqs |-> skipped[r] \/ r \in StaleOf(n)]
       /\ respErr' = respErr + Cardinality(StaleOf(n))
       /\ work' = [work EXCEPT ![w] = LiveOf(n)]
       /\ GoW(w, IF LiveOf(n) = {} THEN "park" ELSE "hash")
  /\ UNCHANGED <<tokens, patience, abandoned, full, age, timer, gone, rpc,
                 charge, lanes, batch, respOK>>

(* The idle counter goes up in a critical section of its own, after the    *)
(* one that found the stack empty.                                         *)
Park(w) ==
  /\ wpc[w] = "park"
  /\ GoW(w, "recv")
  /\ UNCHANGED <<stack, tokens, patience, waiters, lanes, work, batch, respOK, respErr>>

RecvToken(w) ==
  /\ wpc[w] = "recv"
  /\ \/ tokens > 0 /\ tokens' = tokens - 1 /\ GoW(w, "woken")
     \/ tokens = 0 /\ UNCHANGED tokens /\ GoW(w, "blocked")
  /\ UNCHANGED <<stack, patience, waiters, lanes, work, batch, respOK, respErr>>

Unpark(w) ==
  /\ wpc[w] = "woken"
  /\ GoW(w, "top")
  /\ UNCHANGED <<stack, tokens, patience, waiters, lanes, work, batch, respOK, respErr>>

(* How many of n owned waiters the next chain serves.  A quad needs four   *)
(* waiters in hand; what a short pop leaves goes in pairs, then singly.    *)
BatchSize(n, first) ==
  CASE first /\ "x16" \in Kernels /\ n >= X16MinBatch -> n
    [] first /\ "quad" \in Kernels /\ n = 4
         /\ ~("x16" \in Kernels /\ n >= X16MinBatch) -> 4
    [] OTHER -> IF "pair" \in Kernels /\ n >= 2 THEN 2 ELSE 1

(* A chain completes and observeChainCost moves the patience window.  The  *)
(* order of the waiters in hand is left out.                               *)
(* Mutant: the pair loop forgets to drop the pair it served.               *)
HashKeepsWork(w) ==
  /\ wpc[w] \in {"hash", "more"}
  /\ \E b \in SUBSET work[w] :
       /\ Cardinality(b) = BatchSize(Cardinality(work[w]), wpc[w] = "hash")
       /\ batch' = [batch EXCEPT ![w] = b]
  /\ patience' \in Patiences
  /\ GoW(w, "deliver")
  /\ UNCHANGED <<stack, tokens, waiters, lanes, work, respOK, respErr>>

Hash(w) ==
  /\ wpc[w] \in {"hash", "more"}
  /\ \E b \in SUBSET work[w] :
       /\ Cardinality(b) = BatchSize(Cardinality(work[w]), wpc[w] = "hash")
       /\ batch' = [batch EXCEPT ![w] = b]
       /\ work' = [work EXCEPT ![w] = @ \ b]
  /\ patience' \in Patiences
  /\ GoW(w, "deliver")
  /\ UNCHANGED <<stack, tokens, waiters, lanes, respOK, respErr>>

(* One digest is sent; an x16 batch observes the cost again before each.   *)
Deliver(w) ==
  /\ wpc[w] = "deliver"
  /\ \E r \in batch[w] :
       /\ ~full[r]
       /\ full' = [full EXCEPT ![r] = TRUE]
       /\ batch' = [batch EXCEPT ![w] = @ \ {r}]
       /\ GoW(w, IF batch[w] # {r} THEN "deliver"
                 ELSE IF work[w] # {} THEN "more" ELSE "top")
  /\ IF "x16" \in Kernels THEN patience' \in Patiences ELSE UNCHANGED patience
  /\ UNCHANGED <<stack, tokens, taken, abandoned, age, timer, gone, rpc, charge,
                 skipped, lanes, work, respOK, respErr>>

-----------------------------------------------------------------------------
(* The surroundings: clients, the other endpoints and time.                *)

(* A client may go away until its response is written.  How long a chain   *)
(* takes is left open: once a worker has its waiter it may go at any age,  *)
(* and the 200 is written and counted all the same.                        *)
ClientGoes(r) ==
  /\ ~Answered(r)
  /\ gone[r] = "no"
  /\ Cardinality({q \in Reqs : gone[q] # "no"}) < MaxGone
  /\ taken[r] \/ age[r] >= GiveUpAge
  /\ gone' = [gone EXCEPT ![r] = IF taken[r] THEN "late" ELSE "early"]
  /\ UNCHANGED <<stack, tokens, patience, taken, abandoned, full, age, timer,
                 rpc, charge, skipped, workers, respOK, respErr>>

OtherOK ==
  /\ respOK < MaxOther + Cardinality({r \in Reqs : rpc[r] = "ok"})
  /\ respOK' = respOK + 1
  /\ UNCHANGED <<stack, tokens, patience, waiters, workers, respErr>>

(* Ages matter until a waiter is taken, as what a take or its client looks *)
(* at; timers while the select is waiting.                                 *)
Aging(r) == r \in OnStack \/ (rpc[r] = "wait" /\ ~taken[r])

Tick ==
  /\ \E r \in Reqs : \/ (Aging(r) /\ age[r] < AgeCap)
                    \/ (rpc[r] = "wait" /\ timer[r] > 0)
  /\ age' = [r \in Reqs |-> IF Aging(r) /\ age[r] < AgeCap THEN age[r] + 1 ELSE age[r]]
  /\ timer' = [r \in Reqs |-> IF rpc[r] = "wait" /\ timer[r] > 0 THEN timer[r] - 1 ELSE timer[r]]
  /\ UNCHANGED <<stack, tokens, patience, taken, abandoned, full, gone, rpc,
                 charge, skipped, workers, respOK, respErr>>

(* Nothing is left to do: every request answered, every worker blocked.    *)
Quiet ==
  /\ \A r \in Reqs : Answered(r)
  /\ \A w \in Workers : wpc[w] = "blocked"
  /\ UNCHANGED vars

-----------------------------------------------------------------------------
Submit(r) == SubmitBackstop(r) \/ SubmitShed(r) \/ SubmitPush(r)
Patience(r) == PatienceShed(r) \/ PatienceDenied(r)
Leave(r) == LeaveTaken(r) \/ LeaveAbandoned(r)

(* The steps of a request goroutine that need nobody else's help.          *)
Finish(r) ==
  Wake(r) \/ Leave(r) \/ Refund(r) \/ ReceiveOwned(r) \/ Charge(r) \/ Respond(r)

RequestNext(r) ==
  Submit(r) \/ Receive(r) \/ SeeDisconnect(r) \/ Patience(r) \/ Finish(r)

WorkerNext(w) ==
  \/ DecideLanes(w) \/ riskTakeWork(w) \/ Park(w) \/ RecvToken(w) \/ Unpark(w)
  \/ Hash(w) \/ Deliver(w)

Next ==
  \/ \E r \in Reqs : RequestNext(r) \/ ClientGoes(r)
  \/ \E w \in Workers : WorkerNext(w)
  \/ OtherOK
  \/ Tick
  \/ Quiet

Spec == Init /\ [][Next]_vars

(* Goroutines that can run do run, riskMu is handed over fairly, and       *)
(* select starves none of its ready cases; time passes.                    *)
Fairness ==
  /\ \A r \in Reqs :
       /\ WF_vars(Finish(r))
       /\ WF_vars(Receive(r))
       /\ WF_vars(SeeDisconnect(r))
       /\ WF_vars(Patience(r))
  /\ \A w \in Workers : WF_vars(WorkerNext(w))
  /\ WF_vars(Tick)

FairSpec == Spec /\ Fairness

(* A client does not wait for ever (k6 gives up after 60 s).               *)
ImpatientSpec == FairSpec /\ \A r \in Reqs : WF_vars(ClientGoes(r))

-----------------------------------------------------------------------------
(* Safety.                                                                 *)

Busy(w) == wpc[w] \in {"hash", "deliver", "more"}
Awake(w) == wpc[w] \in {"top", "take", "woken"}
Asleep(w) == wpc[w] \in {"park", "recv", "blocked"}
Waking == {r \in Reqs : rpc[r] = "wake"}

(* Owners of the digest a taken waiter is owed.                            *)
Holders(r) ==
  {w \in Workers : r \in work[w]} \cup {w \in Workers : r \in batch[w]}

(* "A worker owns it, result WILL arrive": from the moment a waiter is     *)
(* taken its digest is at exactly one place, one worker's hands, the       *)
(* result channel or the answer, and it is neither in line nor abandoned;  *)
(* a waiter nobody took is in nobody's hands.                              *)
Ownership ==
  /\ \A r \in Reqs :
       IF taken[r]
         THEN /\ r \notin OnStack
              /\ ~abandoned[r]
              /\ Cardinality(Holders(r)) + (IF full[r] THEN 1 ELSE 0)
                   + (IF rpc[r] \in {"served", "ok"} THEN 1 ELSE 0) = 1
         ELSE Holders(r) = {} /\ ~full[r] /\ rpc[r] \notin {"served", "ok"}
  /\ \A w \in Workers : work[w] \cap batch[w] = {}

(* Every exit with a 503 has charged respErr exactly once in riskSubmit    *)
(* and no 200 leaves a charge behind (287-289), with the stale charges of  *)
(* riskTakeWork on top: respErr is exactly the charges that stand.         *)
LedgerExact ==
  /\ respErr = Cardinality({r \in Reqs : charge[r] # "none"})
              + Cardinality({r \in Reqs : skipped[r]})
  /\ \A r \in Reqs :
       /\ rpc[r] = "shed" => charge[r] # "none"
       /\ rpc[r] \in {"owned", "served", "ok"} => charge[r] = "none" /\ ~skipped[r]

(* A worker goes to sleep in three steps and submitters wake without the   *)
(* lock, yet nobody is forgotten: when the stack is not empty and every    *)
(* worker is asleep or about to be, a wakeup is buffered or about to be    *)
(* sent.                                                                   *)
NoLostWakeup ==
  stack # <<>> /\ (\A w \in Workers : Asleep(w)) => tokens > 0 \/ Waking # {}

(* More precisely the gate conserves work: of the waiters in line beyond   *)
(* those that awake workers are about to take, each has a wakeup on its    *)
(* way for as long as there are sleeping workers to receive it.            *)
WorkConserving ==
  LET awake == Cardinality({w \in Workers : Awake(w)})
      asleep == Cardinality({w \in Workers : Asleep(w)})
      wakeups == tokens + Cardinality(Waking)
  IN  Len(stack) <= wakeups + awake \/ asleep <= wakeups

(* "A strict overestimate of k6's view" (363-370), as far as that is true: *)
(* once all are answered, respErr has counted every 503 and every client   *)
(* that gave up before a worker had its waiter, whether that was buried,   *)
(* stale, abandoned or about to be refused.  A client that goes away while *)
(* its chain runs is not among them: its 200 is counted (298, 315-325).    *)
Overestimate ==
  (\A r \in Reqs : Answered(r)) =>
    Cardinality({r \in Reqs : gone[r] = "early" \/ rpc[r] = "shed"}) <= respErr

(* The stack is ordered by age, newest first, under every interleaving of  *)
(* pushes, takes and ticks: what lies below a stale waiter is stale.       *)
StackByAge ==
  \A i, j \in DOMAIN stack : i < j => age[stack[i]] <= age[stack[j]]

-----------------------------------------------------------------------------
(* Steps.                                                                  *)

(* Every change of the counters is a step of the abstract ledger: no       *)
(* reservation beyond the budget, no refund of what was not reserved.      *)
ImplementsLedger == Ledger!Spec

(* One worker that meets a stale waiter charges every live waiter left in  *)
(* line: a take with a stale charge leaves the stack empty.                *)
StaleTakeEmptiesStack ==
  [][(\E r \in Reqs : skipped'[r] /\ ~skipped[r]) => stack' = <<>>]_vars

(* A waiter is never decided twice: once abandoned or skipped it is never  *)
(* taken, and once taken it is never refused.                              *)
DecidedOnce ==
  [][\A r \in Reqs :
       /\ taken'[r] /\ ~taken[r] => ~abandoned[r] /\ ~skipped[r] /\ r \in OnStack
       /\ taken[r] => rpc'[r] \notin {"charge", "shed"}]_vars

-----------------------------------------------------------------------------
(* Liveness.                                                               *)

(* The digest a worker owes is delivered and answered with a 200, even to  *)
(* a goroutine that had already decided to leave.                          *)
TakenIsServed == \A r \in Reqs : taken[r] ~> rpc[r] = "ok"

(* Nothing stays in line for ever once arrivals have ceased.               *)
LineDrains == \A r \in Reqs : (r \in OnStack) ~> (r \notin OnStack)

(* Every request that entered the gate is answered in the end.             *)
EveryoneAnswered == \A r \in Reqs : (rpc[r] # "new") ~> Answered(r)

=============================================================================
