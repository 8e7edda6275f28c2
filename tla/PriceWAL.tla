------------------------------ MODULE PriceWAL ------------------------------
(***************************************************************************)
(* POST /price and its write-ahead log (app/main.go): a handler appends a  *)
(* line and fsyncs it under walMu, then updates the price map under mu,    *)
(* then answers 200.  The process may be killed and the machine may lose   *)
(* power at any step; the next boot replays the log.                       *)
(*                                                                         *)
(* The file is a sequence of pieces.  The line of a post is three of them, *)
(* the first and the second half of its JSON and its newline, which is     *)
(* what a torn append can be told apart by.  A price is the post that set  *)
(* it; every post is made once.                                            *)
(***************************************************************************)
EXTENDS Integers, Sequences, FiniteSets

CONSTANTS
  Posts,       \* POST requests with a valid body
  Symbols,
  Subjects,    \* which symbol each post may be about
  Base,        \* the price a symbol has in the initial table
  Faults,      \* what may go wrong, of "kill", "power", "torn", "write",
               \* "sync", "open", "read"
  MaxCrashes   \* bound: kills and power losses

ASSUME WALAssumption ==
  /\ IsFiniteSet(Posts)
  /\ Base \notin Posts
  /\ Subjects \subseteq [Posts -> Symbols]
  /\ Faults \subseteq {"kill", "power", "torn", "write", "sync", "open", "read"}
  /\ MaxCrashes \in Nat

VARIABLES
  file,    \* the log as the kernel sees it
  synced,  \* how much of it an fsync has made durable
  walOn,   \* walFile # nil
  replayed,  \* history: the last boot could read the log
  walMu,   \* the post that holds the mutex, or Base
  prices,  \* prices and priceResp, what GET /price answers
  sym,     \* the symbol each post is about
  pc,      \* where each handler is
  up,      \* the process runs
  crashes,
  acked,   \* history: posts answered 200 with the log on
  overlapped  \* history: symbols that had two posts in flight at once

disk == <<file, synced>>
booted == <<walOn, replayed>>
vars == <<disk, booted, walMu, prices, sym, pc, up, crashes, acked, overlapped>>

Pieces == Posts \X {"head", "tail", "nl"}
Line(p) == <<<<p, "head">>, <<p, "tail">>, <<p, "nl">>>>
InFlight == {"append", "write", "sync", "apply", "reply"}
Ended == {"ok", "failed", "lost"}

TypeOK ==
  /\ file \in Seq(Pieces)
  /\ synced \in 0 .. Len(file)
  /\ walOn \in BOOLEAN /\ replayed \in BOOLEAN
  /\ walMu \in {Base} \cup {p \in Posts : pc[p] \in {"write", "sync"}}
  /\ prices \in [Symbols -> Posts \cup {Base}]
  /\ sym \in [Posts -> Symbols]
  /\ pc \in [Posts -> {"idle"} \cup InFlight \cup Ended]
  /\ up \in BOOLEAN
  /\ crashes \in 0 .. MaxCrashes
  /\ acked \subseteq Posts
  /\ overlapped \subseteq Symbols

-----------------------------------------------------------------------------
(* Replay: the file is split at newlines and a line that is one entry, no  *)
(* more and no less, is applied; every other line is skipped.  The last    *)
(* line needs no newline.                                                  *)
EntryAt(f, i, p) ==
  /\ i \in 1 .. Len(f) - 1
  /\ f[i] = <<p, "head">>
  /\ f[i + 1] = <<p, "tail">>
  /\ i > 1 => f[i - 1][2] = "nl"
  /\ i + 1 < Len(f) => f[i + 2][2] = "nl"

Entries(f, s) ==
  {e \in (1 .. Len(f)) \X Posts : EntryAt(f, e[1], e[2]) /\ sym[e[2]] = s}

(* Mutant: the first entry of a symbol wins.                               *)
ReplayFirst(f) ==
  [s \in Symbols |->
     LET first == {p \in Posts : \E i \in DOMAIN f :
                    <<i, p>> \in Entries(f, s) /\ \A e \in Entries(f, s) : i <= e[1]}
     IN  IF first = {} THEN Base ELSE CHOOSE p \in first : TRUE]

LastOf(f, s) ==
  {p \in Posts : \E i \in DOMAIN f :
     <<i, p>> \in Entries(f, s) /\ \A e \in Entries(f, s) : e[1] <= i}

Replay(f) ==
  [s \in Symbols |->
     IF LastOf(f, s) = {} THEN Base ELSE CHOOSE p \in LastOf(f, s) : TRUE]

Init ==
  /\ file = <<>>
  /\ synced = 0
  /\ walOn \in {TRUE, "open" \notin Faults}
  /\ replayed = TRUE
  /\ walMu = Base
  /\ prices = [s \in Symbols |-> Base]
  /\ sym \in Subjects
  /\ pc = [p \in Posts |-> "idle"]
  /\ up = TRUE
  /\ crashes = 0
  /\ acked = {}
  /\ overlapped = {}

Go(p, at) == pc' = [pc EXCEPT ![p] = at]

-----------------------------------------------------------------------------
(* handlePricePost and appendWAL.  A bad body is answered 400 and changes  *)
(* nothing.                                                                *)

Request(p) ==
  /\ up
  /\ pc[p] = "idle"
  /\ Go(p, IF walOn THEN "append" ELSE "apply")
  /\ overlapped' = IF \E q \in Posts : sym[q] = sym[p] /\ pc[q] \in InFlight
                     THEN overlapped \cup {sym[p]}
                     ELSE overlapped
  /\ UNCHANGED <<disk, booted, walMu, prices, sym, up, crashes, acked>>

Lock(p) ==
  /\ pc[p] = "append"
  /\ walMu = Base
  /\ walMu' = p
  /\ Go(p, "write")
  /\ UNCHANGED <<disk, booted, prices, sym, up, crashes, acked, overlapped>>

Write(p) ==
  /\ pc[p] = "write"
  /\ file' = file \o Line(p)
  /\ Go(p, "sync")
  /\ UNCHANGED <<synced, booted, walMu, prices, sym, up, crashes, acked, overlapped>>

(* Mutant: a failed write is retried.                                      *)
WriteRetries(p) ==
  /\ pc[p] = "write"
  /\ "write" \in Faults
  /\ walMu' = Base
  /\ Go(p, "append")
  /\ UNCHANGED <<disk, booted, prices, sym, up, crashes, acked, overlapped>>

(* Mutant: the error return forgets the mutex.                             *)
WriteFailsLocked(p) ==
  /\ pc[p] = "write"
  /\ "write" \in Faults
  /\ \E n \in 0 .. 2 : file' = file \o SubSeq(Line(p), 1, n)
  /\ Go(p, "failed")
  /\ UNCHANGED <<synced, booted, walMu, prices, sym, up, crashes, acked, overlapped>>

(* A full disk: any part of the line but not all of it is in the file.     *)
WriteFails(p) ==
  /\ pc[p] = "write"
  /\ "write" \in Faults
  /\ \E n \in 0 .. 2 : file' = file \o SubSeq(Line(p), 1, n)
  /\ walMu' = Base
  /\ Go(p, "failed")
  /\ UNCHANGED <<synced, booted, prices, sym, up, crashes, acked, overlapped>>

(* Mutant: the answer does not wait for the fsync.                         *)
SyncLater(p) ==
  /\ pc[p] = "sync"
  /\ walMu' = Base
  /\ Go(p, "apply")
  /\ UNCHANGED <<disk, booted, prices, sym, up, crashes, acked, overlapped>>

Sync(p) ==
  /\ pc[p] = "sync"
  /\ synced' = Len(file)
  /\ walMu' = Base
  /\ Go(p, "apply")
  /\ UNCHANGED <<file, booted, prices, sym, up, crashes, acked, overlapped>>

(* The line stays in the file although its post is answered 500.           *)
SyncFails(p) ==
  /\ pc[p] = "sync"
  /\ "sync" \in Faults
  /\ walMu' = Base
  /\ Go(p, "failed")
  /\ UNCHANGED <<disk, booted, prices, sym, up, crashes, acked, overlapped>>

(* The critical section of mu.                                             *)
Apply(p) ==
  /\ pc[p] = "apply"
  /\ prices' = [prices EXCEPT ![sym[p]] = p]
  /\ Go(p, "reply")
  /\ UNCHANGED <<disk, booted, walMu, sym, up, crashes, acked, overlapped>>

Reply(p) ==
  /\ pc[p] = "reply"
  /\ acked' = IF walOn THEN acked \cup {p} ELSE acked
  /\ Go(p, "ok")
  /\ UNCHANGED <<disk, booted, walMu, prices, sym, up, crashes, overlapped>>

-----------------------------------------------------------------------------
(* Crashes and boots.                                                      *)

(* What the file may be when the process dies in the middle of an append.  *)
Appended ==
  {file} \cup
  (IF "torn" \in Faults
     THEN {file \o SubSeq(Line(p), 1, n) :
             p \in {q \in Posts : pc[q] = "write"}, n \in 1 .. 2}
     ELSE {})

(* A power loss keeps what was synced and any beginning of the rest.       *)
Cuts(f) ==
  {n \in synced .. Len(f) : "torn" \in Faults \/ n = 0 \/ f[n][2] = "nl"}

Die ==
  /\ up
  /\ crashes < MaxCrashes
  /\ crashes' = crashes + 1
  /\ up' = FALSE
  /\ walMu' = Base
  /\ pc' = [p \in Posts |-> IF pc[p] \in InFlight THEN "lost" ELSE pc[p]]
  /\ UNCHANGED <<booted, prices, sym, acked, overlapped>>

(* docker kill: the page cache survives the process.                       *)
Kill ==
  /\ "kill" \in Faults
  /\ Die
  /\ file' \in Appended
  /\ UNCHANGED synced

PowerLoss ==
  /\ "power" \in Faults
  /\ Die
  /\ \E f \in Appended : \E n \in Cuts(f) :
       /\ file' = SubSeq(f, 1, n)
       /\ synced' = n

(* Mutant: the log is opened with O_TRUNC.                                 *)
BootTruncates ==
  /\ ~up
  /\ up' = TRUE
  /\ walOn' = TRUE
  /\ replayed' = TRUE
  /\ prices' = Replay(file)
  /\ file' = <<>>
  /\ synced' = 0
  /\ UNCHANGED <<walMu, sym, pc, crashes, acked, overlapped>>

(* initPriceWAL: without the file persistence is off and only logged; a    *)
(* file that cannot be read is taken for an empty one.                     *)
Boot ==
  /\ ~up
  /\ up' = TRUE
  /\ \/ walOn' = TRUE /\ replayed' = TRUE /\ prices' = Replay(file)
     \/ /\ "read" \in Faults
        /\ walOn' = TRUE
        /\ replayed' = FALSE
        /\ prices' = [s \in Symbols |-> Base]
     \/ /\ "open" \in Faults
        /\ walOn' = FALSE
        /\ replayed' = FALSE
        /\ prices' = [s \in Symbols |-> Base]
  /\ UNCHANGED <<disk, walMu, sym, pc, crashes, acked, overlapped>>

Quiet ==
  /\ up
  /\ \A p \in Posts : pc[p] \in Ended
  /\ UNCHANGED vars

Handler(p) ==
  \/ Lock(p) \/ Write(p) \/ WriteFails(p) \/ Sync(p) \/ SyncFails(p)
  \/ Apply(p) \/ Reply(p)

Next ==
  \/ \E p \in Posts : Request(p) \/ Handler(p)
  \/ Kill
  \/ PowerLoss
  \/ Boot
  \/ Quiet

Spec == Init /\ [][Next]_vars

(* Handlers keep running, the mutex starves nobody, and a dead process is  *)
(* started again.                                                          *)
FairSpec ==
  Spec /\ (\A p \in Posts : SF_vars(Lock(p)) /\ WF_vars(Handler(p))) /\ WF_vars(Boot)

-----------------------------------------------------------------------------
(* A line that is alone on its line and ends in a newline, all of it synced. *)
Durable(p) ==
  \E i \in 1 .. synced - 2 :
    EntryAt(SubSeq(file, 1, synced), i, p) /\ file[i + 2][2] = "nl"

(* "Only acknowledge what is already on disk": whatever dies after the     *)
(* 200, the next boot replays the post.                                    *)
AckedIsDurable == \A p \in acked : Durable(p)

Logged(p) == \E i \in 1 .. synced - 2 : SubSeq(file, i, i + 2) = Line(p)

(* p shares a line with another post: one of them was torn, or failed,     *)
(* before its newline.                                                     *)
Glued(p) ==
  \E i \in 1 .. Len(file) - 1 :
    /\ file[i][2] # "nl"
    /\ file[i][1] # file[i + 1][1]
    /\ p \in {file[i][1], file[i + 1][1]}

(* What remains of that promise when appends are torn and writes and       *)
(* fsyncs fail: what was acknowledged is on disk to the last byte, and     *)
(* only the one post that was glued to a fragment is not replayed.         *)
OnlyGluedIsLost == \A p \in acked : Logged(p) /\ (Durable(p) \/ Glued(p))

(* What is durable stays so across torn appends, failed writes, kills and  *)
(* power losses: nothing that is appended later can damage it.             *)
DurableGrows == [][\A p \in Posts : Durable(p) => Durable(p)']_vars

Settled(s) == \A p \in Posts : sym[p] = s => pc[p] \notin InFlight \cup {"failed"}

(* Memory and log agree: once its posts have ended, and unless an append   *)
(* failed, GET answers for a symbol what the next boot would, as long as   *)
(* clients never had two posts of it in flight at once and the boot could  *)
(* read the log and no line of it is glued to a fragment.                  *)
MemoryIsReplayed ==
  up /\ walOn /\ replayed =>
    \A s \in Symbols \ (overlapped \cup {sym[p] : p \in {q \in Posts : Glued(q)}}) :
      Settled(s) => prices[s] = Replay(file)[s]

(* The price that is the last one to be set is the last one to be logged,  *)
(* so that a restart changes nothing that clients have read.               *)
LastWriteWins ==
  up /\ walOn => \A s \in Symbols : Settled(s) => prices[s] = Replay(file)[s]

(* Nobody reads the write of a post that is still being answered, or was   *)
(* answered 200, before its line is synced to the last byte, glued or not. *)
(* (What a boot shows of posts that never got a 200 is another matter:     *)
(* their lines may be in the file without an fsync that confirmed them.)   *)
AppliedIsLogged ==
  up /\ walOn =>
    \A s \in Symbols :
      prices[s] # Base /\ pc[prices[s]] \in {"reply", "ok"} => Logged(prices[s])

(* Every post is answered, or its process dies: no error path keeps walMu  *)
(* or waits for it for ever.                                               *)
PostsEnd == \A p \in Posts : (pc[p] = "append") ~> (pc[p] \in Ended)

=============================================================================
