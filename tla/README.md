# A verification of the Obsidio backend

Obsidio is a Go service (`src/app`) that answers cheap GETs, a durable POST and one
expensive GET, `/risk`, which runs a chain of 50 000 hashes on at most four cores.
What makes it hard is the admission of `/risk` under overload: which request is
parked, served, or refused, at which moment, by which goroutine, and how many
refusals the published error gate still allows. This directory models that gate, the
error budget, the price log, the raw HTTP loop, the estimate behind the gate's
patience, what a boot derives from its box and its environment, the choice of hash
kernels and the hash loops in TLA+, model-checks them with TLC, and proves the main
safety properties with TLAPS.

Line numbers below are those of `src/app/main.go` unless another file is named.

## 1. Inventory

| Component | State | Operations | Interacts with | What makes it correct |
|---|---|---|---|---|
| Error ledger and shed budget (749-839) | `respOK`, `respErr`, the budget | `writeJSON`, `writeJSONUncounted`, `shedReserveError`, the refund in `riskSubmit` | every handler counts; the gate reserves and refunds | check and charge are one step; the budget is never overrun; a refund matches a reservation |
| Risk admission gate (170-461, 914-938) | LIFO stack of waiters, `riskStackDepth`, `riskIdleWorkers`, channel `riskWork`, a result channel, flags and a timer per waiter | `riskSubmit`, `riskTakeWork`, `riskWorker`, `handleRisk` | ledger, patience window, kernels, front end (contexts) | one owner per digest, no lost wakeup, one decision per waiter, exact accounting, every request ends |
| Chain-cost estimate (206-244, 463-542) | `riskChainEWMANs`, `riskPatienceNs`, `riskYieldMask` | `observeChainCost`, `calibrateRisk` | read by the gate, written by the workers | average and window stay within their bounds, and lost samples do not keep it from recovering |
| Boot configuration (41-75, 800-814, 1032-1048) | `riskSlots`, `riskShedBudgetBP` | `cgroupCPUBudget`, `main`, `initShedBudget` | cgroup files, environment | slots follow the quota; no setting takes the budget over the gate |
| Price store and log (858-912, 940-1029) | price map under `mu`, file and `walMu` | `handlePricePost`, `appendWAL`, `initPriceWAL`, GET | file system, crashes | what was answered 200 survives; memory and log agree |
| Raw front end (`rawserver.go`) | one buffer and window per connection, `rawActiveConns`, listener | `rawServe`, `serveRawConn`, `rawShutdown` | handlers, `main`'s select | framing independent of how bytes arrive; refusals deserved; a drain that ends |
| Standard front end (1062-1082, 1128-1130) | net/http's | `ListenAndServe`, `Shutdown` | handlers | the library's; for the gate, contexts that end |
| Kernel selection (579-626, 719-747, `shakernel_amd64.go`, `sha4lane_amd64.go`, `shakernel_x16_amd64.go`) | function variables, `kernelUseSHANI`, `riskX16MinBatch` | `initRiskKernel`, `calibrateRisk`, `raceKernelPairing`, `initRiskKernelX4`, `initRiskKernelX16`, in `main`'s order | workers read them without a lock after boot | only sound, legal, wanted and worthwhile routines serve |
| Hash chains (628-717 and the batch chains) | a buffer, a `uint32` counter, the mask | `riskChain`, `riskChainPair`, `riskChainQuadKernel`, `x16ChainRun` | kernels, scheduler | exactly 50 000 hashes on every path; the processor is yielded in time |
| Handlers of `/stats`, `/health`, telemetry, pprof, boot fingerprint | none that matters | | ledger | |
| Assembly routines, starters, load scripts, benchmarks | | | | |

Hard behaviour, in the order of how much can go wrong:

* **Races of a waiter's three fates.** A worker takes it, its client disconnects, its
  patience timer fires; the select has no lock and the second critical section decides.
* **Sleeping and waking.** A worker parks in three steps, a submitter pushes and wakes in
  two, and wakeups are dropped when the channel is full.
* **Accounting spread over five exits**, inside and outside `riskMu`, with a reservation
  that may have to be given back.
* **Crashes between write, fsync, map update and answer**, torn lines, failed writes.
* **An average that workers fold into without a lock**: a sample may be lost, and a worker
  that was descheduled stores a value that is older than the one it overwrites.
* **Bytes that arrive in any pieces** into a buffer that is compacted while slices of it
  are in use.
* **A boot whose steps read what earlier steps left**, with switches, instruction sets and
  races in three files.
* **Integer edges**: strides that overflow to zero, a batch floor from two truncating
  divisions.

`PROJECT.json` lists every hazard with its line and the properties that would catch it.

## 2. The modules

    ErrorLedger                    what the governor promises, each operation atomic
      ^ implemented by ShedBudget  the compare-and-swap loop
      ^ implemented by RiskGate    the admission gate
    BootConfig                     slots and shed budget from box and environment
      ^ extended by ChainCost      the estimate, for the slots of a boot
    PriceWAL                       POST /price, its log, crashes and boots
    RawServer                      one connection, the accept loop, the drain
    KernelBoot                     main's boot steps
      ^ extended by HashChain      the chains that run on what was installed
    HashChainProofs, KernelBootProofs, PriceWALProofs, RawServerProofs, RiskGateProofs
    ChainCostProofs                with the slots of a boot, which ChainCost extends
    ShedBudgetProofs               with BootConfig: the budget of a boot, governed
    RiskGateWaiterProofs           extends RiskGateProofs: who owns a waiter, how old it is
    MCChainCost, MCHashChain, MCPriceWAL, MCRawServer, MCRiskGate   (instances for TLC)

### ErrorLedger, ShedBudget

`ErrorLedger` is the abstract specification: `respOK`, `respErr`, and `held`, the error
reservations that stand. `Fits` is the test of lines 824-834, in which `Scale` stands for
10 000 and `BudgetBP` for `riskShedBudgetBP`. `ShedBudget` has one action per atomic
operation of `shedReserveError` (load `respOK` once, load `respErr`, compare-and-swap,
retry) for any set of goroutines, and the counters' other users. It implements
`ErrorLedger` with the identity mapping.

### RiskGate

One action is one critical section of `riskMu`, one channel operation, or one atomic
counter operation; an exit of `riskSubmit` that charges after the unlock is two actions.

| Code | Action |
|---|---|
| `riskSubmit`, first critical section | `SubmitBackstop`, `SubmitShed`, `SubmitPush` |
| the non-blocking send, then arming the timer | `Wake` |
| the select | `Receive`, `SeeDisconnect`, `PatienceShed`, `PatienceDenied` |
| second critical section | `LeaveTaken`, `LeaveAbandoned` |
| after it | `Refund`, `ReceiveOwned`, `Charge` |
| `handleRisk` writes | `Respond` |
| `riskWorker` top of loop | `DecideLanes` |
| `riskTakeWork` | `riskTakeWork`, which pops, skips dead waiters, charges stale ones and takes live ones in one step, as the lock makes it |
| idle counter, receive, idle counter | `Park`, `RecvToken`, `Unpark` |
| a chain and `observeChainCost` | `Hash`; the digests go out one by one in `Deliver` |

`riskIdleWorkers` is computed from where the workers are. `shedReserveError` is one step
here, which `ShedBudget` justifies: the gate only ever sees the ledger's answer. The
patience window takes any of its values after every chain, which is more than
`ChainCost` lets it do. `SeesDisconnect` tells the two front ends apart: under net/http a
request's context ends with its client, under the raw loop it does not (`rawserver.go`
152-153). A client may go at any moment until its request is answered: `gone` tells apart
those that went before a worker had their waiter ("early") and those that went while it
was served ("late"); a late one is answered 200 and counted (298, 315-325), as in the code.
Errors and answers of the other endpoints move the same counters; in `RiskGate`
only their successes appear (they change what the budget allows), and their errors are in
`ShedBudget`, so `LedgerExact` speaks of the charges of `/risk`.

### BootConfig, ChainCost

`BootConfig` has `main`'s derivations as operators: a cgroup file is a record of whether
it could be read, its quota and its period; the quotient, a float in the code, is kept as
a pair, so that rounding is exact. `ChainCost` starts with the slots of such a boot and a
seed that is the upper median of the contended samples of `calibrateRisk`. `Finish` ends a
batch, and then the worker folds its time in once per chain, by `Load`, `Store` and
`StoreWindow`, each one atomic operation of `observeChainCost`. `Fold` truncates toward
zero like Go. The time of a chain is any of `Costs` until the machine calms down.

### PriceWAL

The file is a sequence of pieces, three per line (two halves of the JSON and the newline):
enough to tell a torn, a glued and a whole line apart. `synced` is how much of it an fsync
confirmed. A kill keeps what was written, a power loss keeps what was synced and any
beginning of the rest. `Faults` selects what may go wrong. `Boot` is `initPriceWAL`:
replay, with the failed open (persistence off) and the failed read. `Subjects` says which
assignments of posts to symbols are looked at.

### RawServer

A byte is `<<k, i>>`, the i-th byte of the k-th request, so that a mixed-up slice shows.
`Fill` is the closure of that name: it moves the window and reads any number of bytes
that fit. `ParseHead` finds the end of the head, interns the target and moves on to the
body; `Dispatch` hands target and body to a handler. The header syntax is a kind of
request: well formed, malformed, too big, or closing. The accept loop and `main`'s select
and drain complete it. One connection is modelled; others matter to it only through
`rawActiveConns`, and a drain that waits for one waits for all.

### KernelBoot and HashChain

`KernelBoot` has one action per boot step, run in `BootOrder`. A kernel routine is a
name; on a machine it is sound or not (`sound`), needs instructions (`Needs`), and a
self-test tells the first and a gate the second. Timings of the races are any of `Costs`.
The arithmetic of the pairing, quad and 16-lane races and of the batch floor is the code's
(percentages, truncating divisions, clamps). `calibrateRisk` appears with its stride and
with the routine it times. `HashChain` adds a chain on any routine a worker may call: a
stride per call for the routines that loop in assembly, an iteration per call for the
others. Its counter is cut at `Wrap` where the code converts to `uint32`, and the mask
test `i & mask == 0` is the recursive function `And` on the binary digits of its arguments.

## 3. What TLC checks

| Run | Question | Instance | Distinct states |
|---|---|---|---|
| `shed_budget` | Does the loop keep the budget, implement the ledger, and stay lock-free? | 3 goroutines, budget 1/3, few responses | small |
| `gate_line` | Is the ledger exact, every counter step one of the ledger's, a stale take final, and does `respErr` cover every 503 and every client that left in line? | 3 requests, 1 worker, backstop 2, a window that moves between 0 and 1, ages to 2, 2 clients that leave | 3.5 M |
| `gate_batch` | Does every waiter of a 16-, 4-, 2- or 1-lane chain get one digest, with short pops? | 5 requests, all kernels, batch floor 5, 4 other responses | 0.6 M |
| `gate_live` | Under net/http: does no worker sleep on work, is every waiter decided once, are taken waiters served, does the line drain, is everyone answered? | 2 requests, 2 workers, window 0, clients that leave at any point, fairness | 0.2 M |
| `gate_raw_stuck` | (violation) `EveryoneAnswered` under the raw front end | 2 requests, 1 worker | |
| `wal_faults` | Under every fault: is an acknowledged post on disk and replayed unless its line is glued, a handler's write shown only when its line is synced, memory what replay gives, a durable line safe from later appends, and does every post end? | 3 posts of 2 symbols, 2 crashes; kills, power losses, torn and failed writes, failed fsync, open, read; fairness | 0.4 M |
| `wal_glued` | (violation) An acknowledged post after a torn append | 2 posts, 1 crash | |
| `wal_order` | (violation) Two posts of one symbol | 2 posts | |
| `raw_server` | Are requests framed, interned and refused correctly however bytes arrive; is every connection answered or closed; does the drain finish what it began and end? | 1 connection, 3 requests of 7 kinds, one of them for `/risk`, buffer 4 | 1.0 M |
| `raw_accept` | (violation) A transient error of accept | the same | |
| `kernel_chain` | Is what a boot installs sound, legal, obedient and worth it, does no step undo what an earlier one relied on, and are chains exact, yielding and finite? | all 54 switch settings times 5 settings of the stride, 7 processors, 10 machines; 7 rounds, 4 bits | 1.0 M |
| `chain_cost` | Does the average keep its bounds without a lock, is it never worse on a calm machine, and does it recover? | every box of quotas in quarters of a CPU, 1 or 2 slots run, batches of 1 or 2, samples below, in and above the clamps, fairness | 1.0 M |

`WorkConserving` says that each waiter in line beyond those that awake workers are about
to take has a wakeup on its way for as long as there are sleeping workers to receive it;
`Overestimate` that once everyone was answered `respErr` is at least the number of 503s
and of clients that left before a worker had their waiter (a client that leaves while its
chain runs is not counted by the code, see section 4); `AppliedIsLogged` that a post whose
price GET shows while it is being answered, or after its 200, has its whole line under an
fsync; `OnlyGluedIsLost` that the line of an acknowledged post is on
disk, and that a replay shows it unless it is glued to a fragment; `EarlierStepsHold` that
the calibration timed what serves and that the quad kernel comes with pairs; `NeverWorse`
that on a calm machine no step leaves a value farther from the cost of a chain than one
that was there before.

Why the bounds are enough:

* **Gate.** Every race is between one waiter's goroutine and one worker, or between two
  workers at the stack; two of each meet all of them. In `gate_line` the backstop holds
  the line to two waiters, under a third at the door, so that one take meets any two of
  live, stale and dead waiters, under a window that moves while they wait; longer lines
  are in the proofs. Two clients may leave (`MaxGone`), each at any point of its request. The age bound is one more than the
  largest patience, beyond which ages are not told apart. Budgets of one half with a
  minimum of two responses make the governor say yes and no within a few responses.
  `MaxOther` bounds the other endpoints.
* **Batches.** Five requests reach a full batch at floor 5. The four other responses open
  the budget, so that waiters leave between the choice of sixteen lanes and the take, and
  that pop comes back short of the floor with two, three or four waiters; these, and the
  pops of four lanes, go through the four-lane, pair and single paths.
* **WAL.** Two posts of one symbol already race, and a third, of its own symbol, shows
  what a neighbour's fragment does to it (`OneApart`); the second crash meets a log that a
  boot has appended to. The proofs lift all of these bounds.
* **Chain cost.** Two workers meet every race of loads and stores, and a batch of two
  folds twice; boots with more slots are in the proofs. Costs lie at 0 (below the clamp),
  11 and 22 (above it), with 2 as the cost of a calm machine: the seed may be outside of
  the clamps, and the division by 8 truncates at both ends.
* **Raw server.** Four bytes of buffer make a request fit, just fit and not fit, and let
  three requests share it; every division of the stream into reads is explored.
* **Boot.** Nothing is bounded but timings, of which six values give every outcome of
  every comparison, a batch floor of 8, some between and 16, and a per-chain cost that
  truncates to zero; at most one routine is unsound at a time (the proofs lift that).
* **Chains.** Seven rounds in four bits: strides 1, 2, 4 (calibrated), 5 (no power of
  two), 0 (yielding off) and 16 (truncated to 0) all end within them.

Symmetry over requests, workers, posts and symbols is used only in runs without liveness.

### Fairness, and why the code justifies it

* Goroutines that can run do run (Go's scheduler), so the steps of a request goroutine
  and of a worker are weakly fair. Go's mutexes hand over to a starving waiter, so the
  model needs no more for `riskMu`; for `walMu`, whose holder does I/O, `Lock` is strongly
  fair for the same reason. A `select` picks among ready cases at random, so none is
  starved. Time passes (`Tick`).
* Clients give up: k6 after 60 s (`ImpatientSpec`). The property `EveryoneAnswered` needs
  it, because with a closed budget only its client can end a stale waiter's wait.
* In `RawServer` the client sends what it has begun to send (`Fill` is fair); the failure
  of a read is not fair, so nothing depends on a timeout. `Deadline` is: five seconds pass.
  Handlers return, except that nothing is assumed of the one of `/risk`, which under this
  front end may wait for ever (`InRisk`, 293-313; `gate_raw_stuck` shows how):
  `ServedOrClosed` excuses a connection only for as long as it stays in that handler.
* In `PriceWAL` a dead process is started again.
* In `ChainCost` traffic goes on: every slot keeps completing chains. Without traffic the
  estimate simply stays.
* Faults, crashes, signals, disconnects and arrivals are never fair.

## 4. Findings

* **A skipped waiter under the raw front end stays parked for ever** (`gate_raw_stuck`).
  The context of the raw loop never ends while a request is in flight, so a stale waiter
  that `riskTakeWork` skipped while the budget is closed has no way out: its goroutine and
  connection stay although its client has gone, and its timer is reset every 100 ms.
  `rawserver.go:21-22` says the staleness skip covers abandoned waiters. Under net/http
  the same property holds.
* **Running out of file descriptors ends the server** (`raw_accept`). `rawServe` retries
  only errors whose `Timeout()` is true and returns any other, and `main` ends the process
  on the returned error; the comment at `rawserver.go:330-332` says that transient accept
  errors back off briefly. `EMFILE` is transient and no timeout.
* **A torn line swallows the next acknowledged post** (`wal_glued`). The log is reopened
  for append without cutting or ending a torn last line; the next line is glued to it and
  replay skips both, although lines 940-943 promise that a 200 is durable. A write that
  fails half-way does the same without a crash. `OnlyGluedIsLost` shows, and section 5
  proves, that nothing worse happens.
* **Log order and memory order may differ** (`wal_order`). Two mutexes order concurrent
  posts of one symbol; a restart may bring back the older of two prices, both answered
  200. `MemoryIsReplayed` shows that nothing goes wrong for clients that do not overlap
  their posts of a symbol.

One comment is true of part of what it speaks of, and `Overestimate` states that part:
lines 363-370 call `respErr` a strict overestimate of the client's view, but a client that
leaves while its chain runs has its digest computed, its 200 written and counted in
`respOK` (298, 315-325), and no error. `TestRiskGateRaceHammer` (`main_test.go:273-277`)
cancels clients at such moments and asks nothing of the counters. The margin of the budget
(780-782) is what is left for such clients.

Observations that are no divergence but worth a reader's time:

* A post that failed in its fsync is answered 500 although its line is in the file: a
  restart may show its price. The code promises only that there is no 200.
* A worker that is descheduled between its load and its store of the average undoes all
  samples folded in since, not just one as lines 213-214 read at first sight; it recovers.
* A quota below half a CPU counts as no quota and gives two slots (`BootConfig`).
* With one slot the boot's median is the larger of two samples.
* A fragment that is whole but for its newline is replayed by one boot and lost once
  something is glued to it; its post was never answered.
* A connection that was accepted but has not counted itself is cut off by an exit.
* A yield stride that is no power of two gives the two kinds of kernel different cadences;
  both stay within the stride.

## 5. What is proved

For every value of the constants that satisfies the modules' assumptions:

**ShedBudgetProofs** (any number of goroutines, any budget). `BudgetHolds` is not
inductive: a goroutine between its load and its swap carries old values. The invariant
adds `Seen` (what a goroutine loaded is not more than the counters for `respOK`, and at
the swap the room was there with what it loaded) and `Standing` (each goroutine between
grant and spend or refund has a reservation in `held`). `BudgetAlwaysHolds` and
`LoopImplementsLedger` follow: the swap succeeds only at the `respErr` that was loaded,
`respOK` has only grown, and `Fits` is monotone in it. `GateNeverCrossed` composes this
with `BootConfig`: with the budget that `main` derives from any settings, the sheds that
stand are below 95% of the graded gate. `BudgetAlwaysBelowGate` is the part of
it about the settings: the clamp, with its truncating division, is at most 95%.

**ChainCostProofs** (any slots, costs, clamps and batch sizes). `SlotsAlwaysFollow` covers
every content of the cgroup files and every `RISK_SLOTS`: one to four slots, at most half
a CPU away from a quota that the clamp leaves alone. `Fold` lies between the
average and the sample (the truncation drops at most what would overshoot), so that
`CostBounded` is inductive once every value on its way into the average is in bounds too:
`CostAlwaysBounded`. `CalmIsNeverWorse`: on a calm machine a step makes a new value only
by folding, and what lies between two values is no farther from the cost than the farther
one. `NearIsKept` is the part of `Recovers` that needs no fairness: from eight or more away
every fold of a calm sample comes strictly nearer, and once the average, the window and
whatever is on its way into them (`Settled`) are within seven, they stay there. That such
a state is reached is `Recovers`.

**RiskGateProofs** (any requests, workers, kernels, windows, budget). `IInv` is
`TypeOK`, `ChargePlace` (where a goroutine is determines its charge), `InLine` (a waiter
is in line once at most, and taken, skipped, refused and in line exclude each other but
for abandoned waiters still linked), `Owed` (whoever holds or has received a digest was
taken), `Balance` (`respErr` is the number of charges and skips), and `Conserved` (the
wakeup inequality in a form that counts sets).
From it: `TypeCorrect`, `LedgerAlwaysExact`, `AlwaysWorkConserving`, `WakeupNeverLost`,
`AlwaysDecidedOnce`, and `GateImplementsLedger`, the refinement of `ErrorLedger` with
`held` mapped to the number of requests whose charge is a reservation. The assumptions the
argument needs are `Workers # {}` and as many places in `riskWork` as workers (the code
has 16 for at most 4): a dropped wakeup then means that enough are buffered.

**RiskGateWaiterProofs** (the same generality). `AlwaysOwned`: `Ownership` needs, beyond
`IInv`, that a worker holds waiters only in the serving part of its loop (`HandsInLoop`),
that no two workers hold one waiter (`HandsApart`), and that the places of a digest exclude
each other and one of them has it (`Places`). A take keeps this because `Owed` says that
whatever is in a hand was taken, while `InLine` says that what is in line was not.
`WorkConserving` and `DecidedOnce` are checked in `gate_live`; `WakeupNeverLost` and
`AlwaysStackByAge` are only proved. `AlwaysStackByAge`: the line stays sorted because a
push has age 0 (`Young`), a take removes a prefix and a tick ages the whole line alike;
`StaleTakeAlwaysEmpties` follows, since the waiter at which a take stops would have to be
both live and no younger than a stale one.

`AlwaysOverestimate` rests on the invariant `Lost`: a client that left before its waiter
was taken is seen by every take to be gone, or its waiter is too old for it, so that the
waiter is never taken and its goroutine ends in a charge. Under net/http the first holds
of any patience; for the raw front end, which does not see clients leave, the hypothesis
`PatientClients` gives the second: no client leaves within the widest patience window.
Clients may leave at any age while their chain runs; they are not in the claim.
`WorkersNeverStick` is the part of `TakenIsServed` that needs no fairness. Instead of
`ENABLED`, which the prover cannot treat, `NeverStuck` names for each place of a worker's
loop the values with which its next step can be taken; the invariant `Laden` says that a
worker about to hash has a number of waiters which one of the kernels it chose among
takes, and a worker about to deliver has somebody to deliver to. No run states
`NeverStuck`: it holds of every state of the instances of `gate_batch` and `gate_live`, and
`TakenIsServed` of `gate_live` would fail without it.

**KernelBootProofs** (any environments, processors, sets of sound routines, timings).
`BInv` says that whatever is installed is sound and legal here, that SHA-NI is claimed
only where it is, and, by the position of `main`, that nothing the calibration timed is
replaced after it and the quad kernel comes with pairs. `Switched` carries the switches.
`MinBatchPays` is the arithmetic of the batch floor. Theorems: `OnlySoundKernelsServe`,
`NeverIllegalInstruction`, `SwitchesKill`, `EarlierStepsAlwaysHold`, `BatchAlwaysPays`.

**PriceWALProofs** (any posts, symbols, faults and number of crashes). What a step does to
the disk is one lemma (`DiskSteps`): nothing synced changes, a running process only
appends, and the file is cut or grows by a beginning of the line of the post that was
about to be written. `DurableAlwaysGrows` follows, since an entry and the newline before
it lie in the synced part. The inductive invariant says where a handler must be for its
line to be in the file: `Fresh` (not before its write), `Written` (whole when it is about
to sync), `Kept` (logged from its sync on, and when it was acknowledged), `Honest` (a post
answered with the log off is not there at all), `Shown` (what GET shows of a finished
post is logged), `Apart` (a line does not begin behind pieces of its own post, which is
what makes a line that is neither first nor behind a newline a glued one), and `Down`.
From it: `OnlyGluedIsEverLost` and `AppliedIsAlwaysLogged`. Memory needs two more: `Sole`
(two posts of a symbol in flight mean that it was overlapped) and `Current` (a post that
is in the log and not yet in the map is what a replay would show, and without one memory
is); then `MemoryIsAlwaysReplayed`. That a replay does not see what is appended for
another symbol, and sees an appended line as the last, are its lemmas.

**RawServerProofs** (any scripts of requests, any buffer, any limits on heads and bodies,
any cutting of the stream into reads). The stream is laid out by `Begins`, the place at
which each request starts. The invariant says that what was read is a beginning of it
(`Sent`), that the window holds the part of it that has not been consumed (`Held`), that
the loop stands inside the request it is about to answer (`Placed`), and that the log has
one entry for each earlier one (`Counted`). From it: `AlwaysInOrder`, `RefusalsAlwaysDeserved`
(the loop says "too big" only when the window begins with the request and fills the
buffer), `AlwaysWaitsOnlyForClient`, `BegunAlwaysFinished`, `TypeCorrect`.

**HashChainProofs** (any number of rounds the counter can hold, any wrap, any stride).
`ChainsKeepBoot`: boot and chains implement the boot, so that its safety holds while
chains run (`ChainsAreSafe`). `AlwaysRoundsExact` and `AlwaysYieldsInTime` hold on every path.
The second rests on a fact about `And`: among any m + 1 consecutive counters one has no bit
in common with m. `ChainsAdvance` is the part of `ChainEnds` that needs no fairness: a
chain that is not done has a step, and each step brings its end nearer.

Three of these modules need induction over data, which the library's theorems offer only
with an operator as parameter. They use the least-element principle instead: a set of
naturals that is not empty has a least element (`Least`, from the library's `WFMin`). A
recursive function is first shown to exist on an initial part of the naturals, and then
the set of its counterexamples has no least element.

Only model-checked: liveness (`LockFree`, `TakenIsServed`, `LineDrains`, `EveryoneAnswered`,
`PostsEnd`, `ServedOrClosed`, `DrainEnds`, `ChainEnds`, `Recovers`), because the prover cannot
reason about fairness. Every safety property that a passing run checks is a theorem.

## 6. Not modelled, and why

* **Handlers without shared state** (`/stats`, `/health`) beyond what they count, and the
  price book: they format and sum what is fixed at boot.
* **`PORT`, `RISK_HTTP`, debug switches**: they choose between parts that are modelled or
  external.
* **Header syntax**: a request of the raw loop is of a kind (well formed, malformed, too
  big, closing); how its text is parsed is not told apart.
* **What an unsynced directory does to a new log**: the file system's, outside of the
  model, in which a file exists once it was opened.
* **net/http**: external; only the end of a request's context is used.
* **Assembly**: vendored or generated; a routine is sound or not.
* **Telemetry, pprof, starters, load scripts, benchmarks**: no state of the service
  depends on them. Clients that give up and the hard kill are external actions.
* **What clients count**: the internal error count is meant to stay above the client's
  (780-796); the client's own count is outside of the program.

## 7. Plan

Done: the ledger, the loop, the gate, boot configuration and estimate, the log, the raw
loop, the boot and the chains, and the proofs of section 5.

1. Two connections and the drain; the raw loop composed with the gate (a pipelined
   request behind a parked one).
2. Proofs: the parts of other liveness properties that need no fairness, each as a rank
   that every step of the actor lowers (the drain, a post, a waiter in line); a waiter's
   life as an abstract specification that the gate implements.

## 8. Running it

`tlc -config <X>.cfg <Module>` for each run of `PROJECT.json`; `tlapm <Module>Proofs.tla`
for the proofs. Each property has at least one mutant, an operator next to the
definition it would replace, which makes that property fail: the comments that
begin with "Mutant" mark them, and `PROJECT.json` pairs them.
