----------------------------- MODULE RawServer -----------------------------
(***************************************************************************)
(* The raw HTTP/1.1 front end (app/rawserver.go) seen from one connection: *)
(* the accept loop hands it to a goroutine, which finds heads and bodies   *)
(* in a fixed buffer however the network cuts the byte stream, answers     *)
(* one request after the other, and leaves; a signal closes the listener   *)
(* and drains (main.go).                                                   *)
(*                                                                         *)
(* A byte is <<k, i>>, the i-th of the k-th request on the connection: the *)
(* head comes first, its last byte completes the blank line, then comes    *)
(* the body.  What a handler does with a request is not modelled: it is    *)
(* given the target and the body that the loop cut out of the buffer, and  *)
(* returns, except that the handler of /risk may wait for ever (RiskGate). *)
(***************************************************************************)
EXTENDS Integers, Sequences, SequencesExt

CONSTANTS
  Scripts,    \* what clients may send: sequences of requests, each a record
              \* of its head and body lengths, whether it is malformed,
              \* whether it ends the connection and whether it is for /risk
  Cap,        \* rawReadBufSize
  BodyLimit   \* rawBodyLimit

Requests == [head : Nat \ {0}, body : Nat, bad : BOOLEAN, close : BOOLEAN,
             risk : BOOLEAN]

ASSUME RawServerAssumption ==
  /\ Scripts \subseteq Seq(Requests)
  /\ Scripts # {}
  /\ Cap \in Nat \ {0}
  /\ BodyLimit \in 0 .. Cap

VARIABLES
  script, stream,  \* the requests of the connection, and their bytes
  rd,              \* bytes of the stream read so far
  buf, r, w,       \* the buffer and its unconsumed window buf[r + 1 .. w]
  cur,             \* the request at hand: interned target, content length
  log,             \* history: targets and bodies given to handlers
  pc,              \* where the connection is
  why,             \* history: why its loop returned
  acc,             \* where rawServe is
  listening,       \* the listener is open
  rawActiveConns,
  main,            \* where main is
  late,            \* the drain's deadline has passed
  begun            \* history: the connection was counted when the drain began

input == <<script, stream>>
conn == <<rd, buf, r, w, cur, log, why>>
server == <<acc, listening, main, late, begun>>
vars == <<input, conn, pc, server, rawActiveConns>>

Bytes(s) ==
  FlattenSeq([k \in DOMAIN s |-> [i \in 1 .. s[k].head + s[k].body |-> <<k, i>>]])

Byte == Nat \X Nat
None == <<0, 0>>
NoRequest == [target |-> None, len |-> 0, close |-> FALSE]

(* Why rawServe has returned.                                              *)
Returned == {"closed", "exhausted", "broken"}

Up == main \notin {"exited", "fatal"}
Window == SubSeq(buf, r + 1, w)

Init ==
  /\ script \in Scripts
  /\ stream = Bytes(script)
  /\ rd = 0
  /\ buf = [i \in 1 .. Cap |-> None]
  /\ r = 0
  /\ w = 0
  /\ cur = NoRequest
  /\ log = <<>>
  /\ pc = "backlog"
  /\ why = "open"
  /\ acc = "accept"
  /\ listening = TRUE
  /\ rawActiveConns = 0
  /\ main = "serving"
  /\ late = FALSE
  /\ begun = FALSE

TypeOK ==
  /\ script \in Scripts
  /\ rd \in 0 .. Len(stream)
  /\ buf \in [1 .. Cap -> Byte]
  /\ w \in 0 .. Cap /\ r \in 0 .. w
  /\ cur \in [target : Byte, len : Nat, close : BOOLEAN]
  /\ log \in Seq([target : Byte, body : Seq(Byte)])
  /\ pc \in {"backlog", "spawned", "head", "body", "respond", "leave", "closed"}
  /\ why \in {"open", "full", "read", "bad", "big", "write", "close"}
  /\ acc \in {"accept", "backoff"} \cup Returned
  /\ rawActiveConns \in 0 .. 1
  /\ main \in {"serving", "closing", "draining", "exited", "fatal"}

-----------------------------------------------------------------------------
(* rawServe.                                                               *)

Accept ==
  /\ Up
  /\ acc = "accept"
  /\ listening
  /\ pc = "backlog"
  /\ pc' = "spawned"
  /\ UNCHANGED <<input, conn, server, rawActiveConns>>

AcceptTimeout ==
  /\ Up
  /\ acc = "accept"
  /\ listening
  /\ acc' = "backoff"
  /\ UNCHANGED <<input, conn, pc, listening, rawActiveConns, main, late, begun>>

Backoff ==
  /\ Up
  /\ acc = "backoff"
  /\ acc' = "accept"
  /\ UNCHANGED <<input, conn, pc, listening, rawActiveConns, main, late, begun>>

(* Any error that is not a timeout ends the loop: the closed listener, a   *)
(* process or a system that has run out of descriptors for the moment, or  *)
(* a listener that is broken for good.                                     *)
AcceptFails ==
  /\ Up
  /\ acc = "accept"
  /\ acc' \in IF listening THEN {"exhausted", "broken"} ELSE {"closed"}
  /\ UNCHANGED <<input, conn, pc, listening, rawActiveConns, main, late, begun>>

-----------------------------------------------------------------------------
(* serveRawConn.                                                           *)

(* Mutant: the connection is not counted.                                  *)
StartUncounted ==
  /\ Up
  /\ pc = "spawned"
  /\ pc' = "head"
  /\ UNCHANGED <<input, conn, server, rawActiveConns>>

Start ==
  /\ Up
  /\ pc = "spawned"
  /\ rawActiveConns' = rawActiveConns + 1
  /\ pc' = "head"
  /\ UNCHANGED <<input, conn, server>>

Leaves(reason) == pc' = "leave" /\ why' = reason

HeadEnds == {i \in r + 1 .. w : buf[i][2] = script[buf[i][1]].head}

(* What the loop waits for: the end of a head, or the rest of a body.      *)
(* Mutant: one byte more than the body.                                    *)
WantsOneMore ==
  \/ pc = "head" /\ HeadEnds = {}
  \/ pc = "body" /\ w - r <= cur.len

Wants ==
  \/ pc = "head" /\ HeadEnds = {}
  \/ pc = "body" /\ w - r < cur.len

(* fill moves the window to the front of the buffer and reads what there   *)
(* is room for, or some of it.                                             *)
(* Mutant: the oversize test comes before the move.                        *)
BufferFullUncompacted ==
  /\ Up
  /\ Wants
  /\ w = Cap
  /\ Leaves("full")
  /\ UNCHANGED <<input, rd, buf, r, w, cur, log, server, rawActiveConns>>

Fill ==
  /\ Up
  /\ Wants
  /\ w - r < Cap
  /\ \E n \in 1 .. Cap - (w - r) :
       /\ rd + n <= Len(stream)
       /\ buf' = [i \in 1 .. Cap |->
            IF i <= w - r THEN buf[r + i]
            ELSE IF i <= w - r + n THEN stream[rd + i - (w - r)]
            ELSE buf[i]]
       /\ w' = w - r + n
       /\ rd' = rd + n
  /\ r' = 0
  /\ UNCHANGED <<input, cur, log, why, pc, server, rawActiveConns>>

BufferFull ==
  /\ Up
  /\ Wants
  /\ w - r = Cap
  /\ Leaves("full")
  /\ UNCHANGED <<input, rd, buf, r, w, cur, log, server, rawActiveConns>>

(* The client is gone or too slow.                                         *)
ReadFails ==
  /\ Up
  /\ Wants
  /\ w - r < Cap
  /\ Leaves("read")
  /\ UNCHANGED <<input, rd, buf, r, w, cur, log, server, rawActiveConns>>

(* The head is parsed, its target copied out of the buffer, and the window *)
(* moved to the body.                                                      *)
ParseHead ==
  /\ Up
  /\ pc = "head"
  /\ HeadEnds # {}
  /\ LET e == CHOOSE i \in HeadEnds : \A j \in HeadEnds : i <= j
         q == script[buf[e][1]]
     IN  \/ /\ q.bad
            /\ Leaves("bad")
            /\ UNCHANGED <<r, cur>>
         \/ /\ ~q.bad
            /\ cur' = [target |-> buf[r + 1], len |-> q.body, close |-> q.close]
            /\ r' = e
            /\ IF q.body > BodyLimit THEN Leaves("big")
               ELSE pc' = "body" /\ UNCHANGED why
  /\ UNCHANGED <<input, rd, buf, w, log, server, rawActiveConns>>

(* The handler runs on the interned target and on the body still in the    *)
(* buffer.                                                                 *)
(* Mutant: the target is still a slice of the buffer.                      *)
TargetInBuffer(req) == buf[1]

Target(req) == req.target

Dispatch ==
  /\ Up
  /\ pc = "body"
  /\ ~Wants
  /\ log' = Append(log, [target |-> Target(cur), body |-> SubSeq(buf, r + 1, r + cur.len)])
  /\ r' = r + cur.len
  /\ pc' = "respond"
  /\ UNCHANGED <<input, rd, buf, w, cur, why, server, rawActiveConns>>

Respond ==
  /\ Up
  /\ pc = "respond"
  /\ \/ Leaves("write")
     \/ cur.close /\ Leaves("close")
     \/ ~cur.close /\ pc' = "head" /\ UNCHANGED why
  /\ UNCHANGED <<input, rd, buf, r, w, cur, log, server, rawActiveConns>>

(* The deferred calls.                                                     *)
Leave ==
  /\ Up
  /\ pc = "leave"
  /\ rawActiveConns' = rawActiveConns - 1
  /\ pc' = "closed"
  /\ UNCHANGED <<input, conn, server>>

-----------------------------------------------------------------------------
(* main: an accept loop that returns is fatal, a signal starts the drain.  *)

Fatal ==
  /\ main = "serving"
  /\ acc \in Returned
  /\ main' = "fatal"
  /\ UNCHANGED <<input, conn, pc, acc, listening, rawActiveConns, late, begun>>

Signal ==
  /\ main = "serving"
  /\ main' = "closing"
  /\ UNCHANGED <<input, conn, pc, acc, listening, rawActiveConns, late, begun>>

(* rawShutdown.                                                            *)
CloseListener ==
  /\ main = "closing"
  /\ main' = "draining"
  /\ listening' = FALSE
  /\ begun' = (rawActiveConns > 0)
  /\ UNCHANGED <<input, conn, pc, acc, rawActiveConns, late>>

Deadline ==
  /\ main = "draining"
  /\ ~late
  /\ late' = TRUE
  /\ UNCHANGED <<input, conn, pc, acc, listening, rawActiveConns, main, begun>>

(* Mutants: the drain does not look at the count, or at the clock.         *)
DrainedUnbounded ==
  /\ main = "draining"
  /\ rawActiveConns = 0
  /\ main' = "exited"
  /\ UNCHANGED <<input, conn, pc, acc, listening, rawActiveConns, late, begun>>

DrainedAtOnce ==
  /\ main = "draining"
  /\ main' = "exited"
  /\ UNCHANGED <<input, conn, pc, acc, listening, rawActiveConns, late, begun>>

Drained ==
  /\ main = "draining"
  /\ rawActiveConns = 0 \/ late
  /\ main' = "exited"
  /\ UNCHANGED <<input, conn, pc, acc, listening, rawActiveConns, late, begun>>

Stopped == ~Up /\ UNCHANGED vars

Serve ==
  \/ Start \/ Fill \/ BufferFull \/ ParseHead \/ Dispatch \/ Respond \/ Leave

Next ==
  \/ Accept \/ AcceptTimeout \/ Backoff \/ AcceptFails
  \/ Serve \/ ReadFails
  \/ Fatal \/ Signal \/ CloseListener \/ Deadline \/ Drained
  \/ Stopped

Spec == Init /\ [][Next]_vars

(* The loop waits for handleRisk, whose context is never cancelled here.   *)
InRisk == pc = "respond" /\ script[Len(log)].risk

(* The connection's goroutine runs, its client sends what it has to send,  *)
(* the handlers other than /risk's return, and a drain that has begun goes *)
(* on.                                                                     *)
FairSpec ==
  /\ Spec
  /\ WF_vars(~InRisk /\ Serve)
  /\ WF_vars(CloseListener \/ Deadline \/ Drained)

-----------------------------------------------------------------------------
Body(k) == [i \in 1 .. script[k].body |-> <<k, script[k].head + i>>]

(* However the network cuts the stream, the handlers are given the         *)
(* requests in the order they were sent, each with its own target and its  *)
(* own body: split reads, pipelining and the moves of the window mix       *)
(* nothing up.                                                             *)
InOrder ==
  /\ Len(log) <= Len(script)
  /\ \A k \in DOMAIN log : log[k] = [target |-> <<k, 1>>, body |-> Body(k)]

(* The loop gives up on a client only for a request that deserves it: one  *)
(* that is malformed, or whose head or body exceeds its limit.             *)
RefusalsDeserved ==
  why \in {"full", "bad", "big"} =>
    /\ Len(log) < Len(script)
    /\ LET q == script[Len(log) + 1]
       IN  \/ why = "full" /\ q.head > Cap
           \/ why = "bad" /\ q.bad
           \/ why = "big" /\ q.body > BodyLimit

(* The loop waits for bytes only while there is something left to answer   *)
(* that the client has not sent yet: nothing complete stays in the buffer. *)
WaitsOnlyForClient ==
  Wants /\ rd = Len(stream) => Len(log) = Len(script)

(* "Transient accept errors back off briefly": being out of descriptors    *)
(* passes and does not end the process.                                    *)
TransientSurvived == main = "fatal" => acc # "exhausted"

(* A connection that was being served when the drain began is finished, or *)
(* the five seconds are over, before the process exits.                    *)
BegunIsFinished == main = "exited" /\ begun => pc = "closed" \/ late

(* A connection that a goroutine was started for has the response of each  *)
(* of its requests written, or is closed, or lost with the process; unless *)
(* it is the handler of a /risk request that never comes back.             *)
ServedOrClosed ==
  [](pc = "spawned" =>
       <>(\/ Len(log) = Len(script) /\ pc # "respond"
          \/ pc = "closed"
          \/ ~Up
          \/ []InRisk))

(* A drain ends.                                                           *)
DrainEnds == main = "closing" ~> ~Up

=============================================================================
