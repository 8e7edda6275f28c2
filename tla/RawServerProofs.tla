-------------------------- MODULE RawServerProofs --------------------------
(***************************************************************************)
(* What the loop of one raw connection promises for any requests, reader   *)
(* and body limits, arrivals, read sizes and drains: answers are in order, *)
(* a refusal is deserved, nothing but the client is waited for and what    *)
(* was begun is finished.                                                  *)
(*                                                                         *)
(* The parser reads bytes; the properties are about requests.  The         *)
(* invariant lays the stream of the requests out (run k are the bytes of   *)
(* request k) and says that answered, held and unread bytes are the        *)
(* consecutive parts of it (Sent, Held, Placed, Counted).                  *)
(***************************************************************************)
EXTENDS RawServer, SequenceTheorems, WellFoundedInduction, TLAPS

(* Induction over the numbers, in the form the provers can use.            *)
LEMMA Least ==
  ASSUME NEW T \in SUBSET Nat, T # {}
  PROVE  \E n \in T : \A m \in T : n <= m
<1> DEFINE R == {p \in Nat \X Nat : p[1] < p[2]}
<1>1. IsWellFoundedOn(R, Nat)
  BY NatLessThanWellFounded DEF OpToRel
<1>2. PICK n \in T : \A m \in T : ~(<<m, n>> \in R)
  BY <1>1, WFMin
<1>3. \A m \in T : ~(m < n)
  BY <1>2
<1> QED
  BY <1>3

(* What FlattenSeq is, without the recursion.                              *)
Runs(q, n, g) ==
  /\ g[1] = q[1]
  /\ \A i \in 2 .. n : g[i] = g[i - 1] \o q[i]

LEMMA RunsExist ==
  ASSUME NEW A, NEW q \in Seq(Seq(A)), Len(q) # 0
  PROVE  \E g \in [1 .. Len(q) -> Seq(A)] : Runs(q, Len(q), g)
<1> DEFINE T == {m \in 1 .. Len(q) : ~ \E g \in [1 .. m -> Seq(A)] : Runs(q, m, g)}
<1>0. Len(q) \in Nat \ {0} /\ \A i \in 1 .. Len(q) : q[i] \in Seq(A)
  BY LenProperties, ElementOfSeq
<1>1. ASSUME T # {} PROVE FALSE
  <2>1. PICK m \in T : \A j \in T : m <= j
    <3>1. T \in SUBSET Nat
      BY <1>0
    <3> QED
      BY <1>1, <3>1, Least
  <2>2. CASE m = 1
    <3>1. [i \in 1 .. 1 |-> q[1]] \in [1 .. 1 -> Seq(A)]
      BY <1>0
    <3>2. Runs(q, 1, [i \in 1 .. 1 |-> q[1]])
      BY DEF Runs
    <3> QED
      BY <2>1, <2>2, <3>1, <3>2
  <2>3. CASE m # 1
    <3>1. PICK p \in 1 .. Len(q) : p = m - 1
      BY <1>0, <2>1, <2>3
    <3>2. PICK f \in [1 .. p -> Seq(A)] : Runs(q, p, f)
      <4>1. m \in Nat /\ p \in Nat /\ ~(m <= p)
        BY <1>0, <2>1, <3>1
      <4>2. ~(p \in T)
        BY <2>1, <4>1
      <4> QED
        BY <4>2
    <3> DEFINE g == [i \in 1 .. m |-> IF i = m THEN f[p] \o q[m] ELSE f[i]]
    <3>3. f[p] \o q[m] \in Seq(A)
      BY <1>0, <2>1, <3>1, ConcatProperties
    <3>4. g \in [1 .. m -> Seq(A)]
      BY <1>0, <2>1, <3>1, <3>3
    <3>5. Runs(q, m, g)
      <4>1. m \in Nat /\ p \in Nat /\ p # 0 /\ m = p + 1
        BY <1>0, <2>1, <3>1
      <4>2. g[1] = q[1]
        BY <4>1, <3>2 DEF Runs
      <4>3. ASSUME NEW i \in 2 .. m PROVE g[i] = g[i - 1] \o q[i]
        <5>1. CASE i = m
          <6>1. i \in 1 .. m /\ i - 1 = p /\ p \in 1 .. m /\ p # m
            BY <4>1, <5>1
          <6>2. g[i] = f[p] \o q[m] /\ g[p] = f[p]
            BY <6>1, <5>1
          <6> QED
            BY <6>1, <6>2, <5>1
        <5>2. CASE i # m
          <6>1. i \in 2 .. p /\ i \in 1 .. m /\ i - 1 \in 1 .. m /\ i - 1 # m
            BY <4>1, <5>2
          <6>2. f[i] = f[i - 1] \o q[i]
            BY <6>1, <3>2 DEF Runs
          <6> QED
            BY <6>1, <6>2, <5>2
        <5> QED
          BY <5>1, <5>2
      <4> QED
        BY <4>2, <4>3 DEF Runs
    <3> QED
      BY <2>1, <3>4, <3>5
  <2> QED
    BY <2>2, <2>3
<1>2. Len(q) \in 1 .. Len(q)
  BY <1>0
<1> QED
  BY <1>1, <1>2

LEMMA FlattenRuns ==
  ASSUME NEW A, NEW q \in Seq(Seq(A)), Len(q) # 0
  PROVE  \E g : Runs(q, Len(q), g) /\ FlattenSeq(q) = g[Len(q)]
<1> DEFINE Eq(g) == g = [i \in 1 .. Len(q) |-> IF i = 1 THEN q[i] ELSE g[i - 1] \o q[i]]
           h == CHOOSE g : Eq(g)
<1>0. Len(q) \in Nat \ {0}
  BY LenProperties
<1>1. PICK f \in [1 .. Len(q) -> Seq(A)] : Runs(q, Len(q), f)
  BY RunsExist
<1>2. Eq(f)
  <2>1. ASSUME NEW i \in 1 .. Len(q)
        PROVE  f[i] = IF i = 1 THEN q[i] ELSE f[i - 1] \o q[i]
    <3>1. i # 1 => i \in 2 .. Len(q)
      BY <1>0
    <3> QED
      BY <1>1, <3>1 DEF Runs
  <2> QED
    BY <2>1
<1>3. Eq(h)
  BY <1>2
<1>4. FlattenSeq(q) = h[Len(q)]
  BY DEF FlattenSeq
<1>5. Runs(q, Len(q), h)
  <2> HIDE DEF h
  <2>1. \A i \in 1 .. Len(q) : h[i] = IF i = 1 THEN q[i] ELSE h[i - 1] \o q[i]
    BY <1>3
  <2>2. 1 \in 1 .. Len(q) /\ \A i \in 2 .. Len(q) : i \in 1 .. Len(q) /\ i # 1
    BY <1>0
  <2> QED
    BY <2>1, <2>2 DEF Runs
<1> QED
  BY <1>4, <1>5

-----------------------------------------------------------------------------
(* Where the requests begin in the stream: b[k] bytes come before the      *)
(* k-th, and after the last there are none.                                *)
Size(q) == q.head + q.body

Laid(s, t, b) ==
  /\ t \in Seq(Nat \X Nat)
  /\ b \in [1 .. Len(s) + 1 -> Nat]
  /\ b[1] = 0
  /\ b[Len(s) + 1] = Len(t)
  /\ \A k \in 1 .. Len(s) :
       /\ b[k + 1] = b[k] + Size(s[k])
       /\ b[k + 1] <= Len(t)
       /\ \A i \in 1 .. Size(s[k]) : t[b[k] + i] = <<k, i>>

LEMMA LeastChosen ==
  ASSUME NEW T \in SUBSET Nat, T # {},
         NEW e, e = CHOOSE i \in T : \A j \in T : i <= j
  PROVE  e \in T /\ \A j \in T : e <= j
<1>1. \E i \in T : \A j \in T : i <= j
  BY Least
<1> QED
  BY <1>1

LEMMA SeqOfFunction ==
  ASSUME NEW S, NEW n \in Nat, NEW f \in [1 .. n -> S]
  PROVE  f \in Seq(S) /\ Len(f) = n
OBVIOUS

LEMMA Concatenation ==
  ASSUME NEW S, NEW x \in Seq(S), NEW y \in Seq(S)
  PROVE  /\ x \o y \in Seq(S)
         /\ Len(x \o y) = Len(x) + Len(y)
         /\ \A i \in 1 .. Len(x) : (x \o y)[i] = x[i]
         /\ \A i \in 1 .. Len(y) : (x \o y)[Len(x) + i] = y[i]
<1> DEFINE z == x \o y
<1>1. Len(x) \in Nat /\ Len(y) \in Nat
  BY LenProperties
<1>2. /\ z \in Seq(S)
      /\ Len(z) = Len(x) + Len(y)
      /\ \A i \in 1 .. Len(x) + Len(y) : z[i] = IF i <= Len(x) THEN x[i] ELSE y[i - Len(x)]
  BY ConcatProperties
<1> HIDE DEF z
<1>3. \A i \in 1 .. Len(x) : z[i] = x[i]
  BY <1>1, <1>2
<1>4. \A i \in 1 .. Len(y) : z[Len(x) + i] = y[i]
  <2> TAKE i \in 1 .. Len(y)
  <2>1. PICK j \in 1 .. Len(x) + Len(y) : j = Len(x) + i /\ ~(j <= Len(x)) /\ j - Len(x) = i
    BY <1>1
  <2> QED
    BY <1>2, <2>1
<1> QED
  BY <1>2, <1>3, <1>4 DEF z

LEMMA CutIs ==
  ASSUME NEW S, NEW s, NEW m \in Nat, NEW n \in Nat, NEW f \in [1 .. n -> S],
         \A i \in 1 .. n : s[m + i] = f[i]
  PROVE  SubSeq(s, m + 1, m + n) = f
<1>1. \A i \in m + 1 .. m + n : s[i] \in S
  <2> TAKE i \in m + 1 .. m + n
  <2>1. PICK j \in 1 .. n : i = m + j
    <3>1. i - m \in 1 .. n /\ i = m + (i - m)
      OBVIOUS
    <3> QED
      BY <3>1
  <2> QED
    BY <2>1
<1> DEFINE t == SubSeq(s, m + 1, m + n)
<1>2. PICK a \in Int, b \in Int : a = m + 1 /\ b = m + n
  OBVIOUS
<1>3. /\ SubSeq(s, a, b) \in Seq(S)
      /\ Len(SubSeq(s, a, b)) = IF a <= b THEN b - a + 1 ELSE 0
      /\ \A i \in 1 .. b - a + 1 : SubSeq(s, a, b)[i] = s[a + i - 1]
  BY <1>1, <1>2, SubSeqProperties
<1>4. t \in Seq(S) /\ Len(t) = n
  BY <1>2, <1>3
<1>5. \A i \in 1 .. n : t[i] = f[i]
  <2> TAKE i \in 1 .. n
  <2>1. i \in 1 .. b - a + 1 /\ a + i - 1 = m + i
    BY <1>2
  <2> QED
    BY <1>2, <1>3, <2>1
<1>6. f \in Seq(S) /\ Len(f) = n
  BY SeqOfFunction
<1> QED
  BY <1>4, <1>5, <1>6, SeqEqual

LEMMA RequestParts ==
  ASSUME NEW q \in Requests
  PROVE  /\ q.head \in Nat \ {0} /\ q.body \in Nat /\ q.bad \in BOOLEAN
         /\ Size(q) \in Nat
BY DEF Requests, Size

LEMMA Layout ==
  ASSUME NEW s \in Seq(Requests)
  PROVE  \E b : Laid(s, Bytes(s), b)
<1> DEFINE A == Nat \X Nat
           n == Len(s)
           q == [k \in DOMAIN s |-> [i \in 1 .. s[k].head + s[k].body |-> <<k, i>>]]
<1>0. /\ n \in Nat /\ DOMAIN s = 1 .. n
      /\ \A k \in 1 .. n : s[k] \in Requests /\ Size(s[k]) \in Nat
  <2>1. n \in Nat /\ DOMAIN s = 1 .. n /\ \A k \in 1 .. n : s[k] \in Requests
    BY LenProperties, ElementOfSeq
  <2> QED
    BY <2>1, RequestParts
<1>1. /\ q \in Seq(Seq(A)) /\ Len(q) = n
      /\ \A k \in 1 .. n : /\ q[k] \in Seq(A) /\ Len(q[k]) = Size(s[k])
                           /\ \A i \in 1 .. Size(s[k]) : q[k][i] = <<k, i>>
  <2>1. ASSUME NEW k \in 1 .. n
        PROVE  /\ q[k] \in Seq(A) /\ Len(q[k]) = Size(s[k])
               /\ \A i \in 1 .. Size(s[k]) : q[k][i] = <<k, i>>
    <3>1. q[k] = [i \in 1 .. Size(s[k]) |-> <<k, i>>]
      BY <1>0 DEF Size
    <3>2. q[k] \in [1 .. Size(s[k]) -> A]
      BY <1>0, <3>1
    <3>3. Size(s[k]) \in Nat
      BY <1>0
    <3> QED
      BY <3>1, <3>2, <3>3, SeqOfFunction
  <2>2. q \in [1 .. n -> Seq(A)]
    <3>1. q = [k \in 1 .. n |-> q[k]]
      BY <1>0
    <3> HIDE DEF q
    <3> QED
      BY <2>1, <3>1
  <2>3. q \in Seq(Seq(A)) /\ Len(q) = n
    BY <1>0, <2>2, SeqOfFunction
  <2> QED
    BY <2>1, <2>3
<1>2. Bytes(s) = FlattenSeq(q)
  BY DEF Bytes
<1>3. CASE n = 0
  <2>1. q = <<>> /\ Bytes(s) = <<>>
    BY <1>1, <1>2, <1>3, EmptySeq DEF FlattenSeq
  <2>2. Laid(s, <<>>, [k \in 1 .. 1 |-> 0])
    BY <1>0, <1>3 DEF Laid
  <2> QED
    BY <2>1, <2>2
<1>4. CASE n # 0
  <2>1. PICK g : Runs(q, n, g) /\ Bytes(s) = g[n]
    BY <1>1, <1>2, <1>4, FlattenRuns
  <2> HIDE DEF q
  <2> DEFINE b == [k \in 1 .. n + 1 |-> IF k = 1 THEN 0 ELSE Len(g[k - 1])]
             Good(m) == /\ g[m] \in Seq(A)
                        /\ b[m] + Size(s[m]) = Len(g[m])
                        /\ \A k \in 1 .. m :
                             /\ b[k] \in Nat
                             /\ b[k] + Size(s[k]) <= Len(g[m])
                             /\ \A i \in 1 .. Size(s[k]) : g[m][b[k] + i] = <<k, i>>
             T == {m \in 1 .. n : ~Good(m)}
  <2>2. b[1] = 0 /\ \A m \in 1 .. n : b[m + 1] = Len(g[m])
    BY <1>0, <1>4
  <2> HIDE DEF b
  <2>3. Good(1)
    <3>1. 1 \in 1 .. n /\ g[1] = q[1]
      BY <1>0, <1>4, <2>1 DEF Runs
    <3> QED
      BY <1>0, <1>1, <2>2, <3>1
  <2>4. ASSUME NEW p \in 1 .. n, NEW m \in 1 .. n, m = p + 1, Good(p)
        PROVE  Good(m)
    <3>1. g[m] = g[p] \o q[m]
      <4>1. m \in 2 .. n /\ m - 1 = p
        BY <1>0, <2>4
      <4> QED
        BY <2>1, <4>1 DEF Runs
    <3>2. q[m] \in Seq(A) /\ g[p] \in Seq(A) /\ Len(q[m]) = Size(s[m]) /\ Size(s[m]) \in Nat
      BY <1>0, <1>1, <2>4
    <3>3. /\ g[m] \in Seq(A)
          /\ Len(g[m]) = Len(g[p]) + Size(s[m])
          /\ \A i \in 1 .. Len(g[p]) : g[m][i] = g[p][i]
          /\ \A i \in 1 .. Len(q[m]) : g[m][Len(g[p]) + i] = q[m][i]
      <4>1. q[m] \in Seq(A) /\ g[p] \in Seq(A)
        BY <3>2
      <4>2. \A x, y \in Seq(A) :
              /\ x \o y \in Seq(A)
              /\ Len(x \o y) = Len(x) + Len(y)
              /\ \A i \in 1 .. Len(x) : (x \o y)[i] = x[i]
              /\ \A i \in 1 .. Len(y) : (x \o y)[Len(x) + i] = y[i]
        BY Concatenation
      <4>3. /\ g[p] \o q[m] \in Seq(A)
            /\ Len(g[p] \o q[m]) = Len(g[p]) + Len(q[m])
            /\ \A i \in 1 .. Len(g[p]) : (g[p] \o q[m])[i] = g[p][i]
            /\ \A i \in 1 .. Len(q[m]) : (g[p] \o q[m])[Len(g[p]) + i] = q[m][i]
        BY <4>1, <4>2
      <4> QED
        BY <3>1, <3>2, <4>3
    <3>4. b[m] = Len(g[p]) /\ Len(g[p]) \in Nat
      BY <2>2, <2>4, <3>2, LenProperties
    <3>5. ASSUME NEW k \in 1 .. m
          PROVE  /\ b[k] \in Nat
                 /\ b[k] + Size(s[k]) <= Len(g[m])
                 /\ \A i \in 1 .. Size(s[k]) : g[m][b[k] + i] = <<k, i>>
      <4>1. CASE k = m
        <5>1. \A i \in 1 .. Size(s[m]) : g[m][b[m] + i] = <<m, i>>
          BY <1>1, <3>3, <3>4
        <5>2. b[m] \in Nat /\ b[m] + Size(s[m]) <= Len(g[m])
          BY <3>2, <3>3, <3>4
        <5> QED
          BY <4>1, <5>1, <5>2
      <4>2. CASE k # m
        <5>1. k \in 1 .. p /\ k \in 1 .. n
          BY <1>0, <2>4, <4>2
        <5>2. /\ b[k] \in Nat /\ Size(s[k]) \in Nat
              /\ b[k] + Size(s[k]) <= Len(g[p])
              /\ \A i \in 1 .. Size(s[k]) : g[p][b[k] + i] = <<k, i>>
          BY <1>0, <2>4, <5>1
        <5>3. ASSUME NEW i \in 1 .. Size(s[k]) PROVE g[m][b[k] + i] = <<k, i>>
          <6>1. b[k] + i \in 1 .. Len(g[p])
            BY <3>4, <5>2
          <6> QED
            BY <3>3, <5>2, <6>1
        <5>4. b[k] + Size(s[k]) <= Len(g[m])
          <6>1. Len(g[m]) = Len(g[p]) + Size(s[m])
            BY <3>3
          <6> QED
            BY <3>2, <3>4, <5>2, <6>1
        <5> QED
          BY <5>2, <5>3, <5>4
      <4> QED
        BY <4>1, <4>2
    <3> QED
      BY <3>3, <3>4, <3>5
  <2>5. ASSUME T # {} PROVE FALSE
    <3>1. PICK m \in T : \A j \in T : m <= j
      <4>1. T \in SUBSET Nat
        BY <1>0
      <4> QED
        BY <2>5, <4>1, Least
    <3> HIDE DEF Good
    <3>2. m \in 1 .. n /\ ~Good(m) /\ m # 1
      BY <2>3, <3>1
    <3>3. PICK p \in 1 .. n : m = p + 1
      <4>1. m - 1 \in 1 .. n /\ m = (m - 1) + 1
        BY <1>0, <3>2
      <4> QED
        BY <4>1
    <3>4. p \in Nat /\ m \in Nat /\ ~(m <= p)
      BY <1>0, <3>3
    <3>5. Good(p)
      BY <3>1, <3>4
    <3> QED
      BY <2>4, <3>2, <3>3, <3>5
  <2>6. n \in 1 .. n /\ Good(n)
    <3>1. n \in 1 .. n
      BY <1>0, <1>4
    <3> HIDE DEF Good
    <3>2. n \notin T
      BY <2>5
    <3> QED
      BY <3>1, <3>2
  <2>7. b \in [1 .. n + 1 -> Nat]
    <3>1. \A m \in 1 .. n : Len(g[m]) \in Nat
      <4>1. \A m \in 1 .. n : Good(m)
        BY <2>5
      <4> QED
        BY <4>1, LenProperties
    <3> QED
      BY <1>0, <3>1 DEF b
  <2>8. Laid(s, g[n], b)
    <3>1. ASSUME NEW k \in 1 .. n
          PROVE  b[k + 1] = b[k] + Size(s[k])
      <4>1. Good(k)
        BY <2>5
      <4> QED
        BY <2>2, <4>1
    <3> QED
      BY <1>0, <2>2, <2>6, <2>7, <3>1 DEF Laid
  <2> QED
    BY <2>1, <2>8
<1> QED
  BY <1>3, <1>4

-----------------------------------------------------------------------------
(* The inductive invariant.                                                *)

Begins == CHOOSE b : Laid(script, stream, b)

(* The request at hand, and the position in the stream of the window.      *)
At == Len(log) + 1
Here == rd - (w - r)

Sent == stream = Bytes(script)

(* The window holds what the stream has there.                             *)
Held == \A i \in 1 .. w - r : buf[r + i] = stream[Here + i]

(* Where the loop is says where the window begins.                         *)
Placed ==
  /\ pc \in {"backlog", "spawned"} => rd = 0 /\ r = 0 /\ w = 0 /\ log = <<>>
  /\ pc \in {"head", "respond"} => Here = Begins[At]
  /\ pc = "body" =>
       /\ At <= Len(script)
       /\ Here = Begins[At] + script[At].head
       /\ cur.target = <<At, 1>>
       /\ cur.len = script[At].body
       /\ cur.len <= BodyLimit

(* A reason is given on the way out, and a connection is counted from its  *)
(* first step to its last.                                                 *)
Counted ==
  /\ why # "open" => pc \in {"leave", "closed"}
  /\ rawActiveConns = IF pc \in {"head", "body", "respond", "leave"} THEN 1 ELSE 0
  /\ begun => pc \notin {"backlog", "spawned"}

IInv ==
  /\ TypeOK
  /\ Sent
  /\ Held
  /\ Placed
  /\ Counted
  /\ InOrder
  /\ RefusalsDeserved
  /\ BegunIsFinished

-----------------------------------------------------------------------------
(* What holds in a state of the invariant.                                 *)

LEMMA BeginsLaid ==
  ASSUME IInv
  PROVE  /\ script \in Seq(Requests)
         /\ Len(script) \in Nat
         /\ Laid(script, stream, Begins)
<1>1. script \in Seq(Requests) /\ stream = Bytes(script)
  BY RawServerAssumption DEF IInv, Sent, TypeOK
<1>2. \E b : Laid(script, stream, b)
  BY <1>1, Layout
<1>3. Laid(script, stream, Begins)
  BY <1>2 DEF Begins
<1> QED
  BY <1>1, <1>3, LenProperties

LEMMA Numbers ==
  ASSUME IInv
  PROVE  /\ Cap \in Nat \ {0} /\ BodyLimit \in 0 .. Cap
         /\ r \in Nat /\ w \in Nat /\ rd \in Nat /\ r <= w /\ w <= Cap
         /\ Len(stream) \in Nat /\ rd <= Len(stream)
         /\ Len(log) \in Nat /\ At \in 1 .. Len(script) + 1
         /\ Here \in Int
         /\ cur.len \in Nat
<1>1. Len(stream) \in Nat
  BY BeginsLaid, LenProperties DEF Laid
<1>2. Len(log) \in Nat
  BY LenProperties DEF IInv, TypeOK
<1>3. r \in Nat /\ w \in Nat /\ rd \in Nat /\ r <= w /\ w <= Cap /\ rd <= Len(stream)
  <2>1. rd \in 0 .. Len(stream) /\ w \in 0 .. Cap /\ r \in 0 .. w
    BY DEF IInv, Sent, TypeOK
  <2> QED
    BY <1>1, <2>1, RawServerAssumption
<1>4. At \in 1 .. Len(script) + 1
  BY <1>2, BeginsLaid DEF IInv, InOrder, At
<1> QED
  BY <1>1, <1>2, <1>3, <1>4, RawServerAssumption DEF IInv, TypeOK, Here

(* The request at hand lies in the stream where Begins says.               *)
LEMMA AtHand ==
  ASSUME IInv, At <= Len(script)
  PROVE  /\ script[At] \in Requests
         /\ script[At].head \in Nat \ {0} /\ script[At].body \in Nat
         /\ Size(script[At]) = script[At].head + script[At].body
         /\ Begins[At] \in Nat /\ Begins[At] + Size(script[At]) <= Len(stream)
         /\ Begins[At + 1] = Begins[At] + Size(script[At])
         /\ \A i \in 1 .. Size(script[At]) : stream[Begins[At] + i] = <<At, i>>
<1>1. /\ At \in 1 .. Len(script) /\ At \in 1 .. Len(script) + 1
      /\ script[At] \in Requests
  BY BeginsLaid, Numbers, ElementOfSeq
<1>2. Begins[At] \in Nat
  BY <1>1, BeginsLaid DEF Laid
<1>3. /\ Begins[At + 1] = Begins[At] + Size(script[At])
      /\ Begins[At + 1] <= Len(stream)
      /\ \A i \in 1 .. Size(script[At]) : stream[Begins[At] + i] = <<At, i>>
  BY <1>1, BeginsLaid DEF Laid
<1> QED
  BY <1>1, <1>2, <1>3, RequestParts DEF Size

LEMMA NothingAfterTheLast ==
  ASSUME IInv, pc = "head", r < w
  PROVE  At <= Len(script)
<1>1. SUFFICES ASSUME At = Len(script) + 1 PROVE FALSE
  BY Numbers, BeginsLaid
<1>2. Begins[At] = Len(stream)
  BY <1>1, BeginsLaid DEF Laid
<1>3. Here = Begins[At]
  BY DEF IInv, Placed
<1> QED
  BY <1>2, <1>3, Numbers DEF Here

(* The window begins with the bytes of the head.                           *)
LEMMA HeadHeld ==
  ASSUME IInv, pc = "head", NEW i \in 1 .. w - r, At <= Len(script), i <= script[At].head
  PROVE  buf[r + i] = <<At, i>>
<1>1. buf[r + i] = stream[Here + i] /\ Here = Begins[At]
  BY DEF IInv, Placed, Held
<1>2. i \in 1 .. Size(script[At])
  <2>1. PICK h \in Nat, l \in Nat : h = script[At].head /\ Size(script[At]) = h + l
    BY AtHand
  <2>2. w - r \in Nat /\ i \in Nat /\ 1 <= i
    BY Numbers
  <2> QED
    BY <2>1, <2>2
<1> QED
  BY <1>1, <1>2, AtHand

(* A head that is not found is not there.                                  *)
LEMMA HeadMissing ==
  ASSUME IInv, pc = "head", HeadEnds = {}, At <= Len(script)
  PROVE  w - r < script[At].head
<1>1. SUFFICES ASSUME script[At].head <= w - r PROVE FALSE
  <2>1. script[At].head \in Nat
    BY AtHand
  <2>2. w - r \in Int
    BY Numbers
  <2> QED
    BY <2>1, <2>2
<1> DEFINE i == script[At].head
<1>2. i \in 1 .. w - r /\ r + i \in r + 1 .. w
  <2>1. r \in Nat /\ w \in Nat /\ i \in Nat \ {0} /\ i <= w - r
    BY <1>1, AtHand, Numbers
  <2> QED
    BY <2>1
<1>3. buf[r + i] = <<At, i>>
  BY <1>2, HeadHeld
<1>4. r + i \in HeadEnds
  BY <1>2, <1>3 DEF HeadEnds
<1> QED
  BY <1>4

(* The first end that is found is the end of the head at hand.             *)
LEMMA HeadFound ==
  ASSUME IInv, pc = "head",
         NEW e \in HeadEnds, \A j \in HeadEnds : e <= j
  PROVE  /\ At <= Len(script)
         /\ e = r + script[At].head /\ e <= w
         /\ buf[e][1] = At
         /\ buf[r + 1] = <<At, 1>>
<1>0. r \in Nat /\ w \in Nat /\ r <= w
  BY Numbers
<1>1. HeadEnds \in SUBSET Nat /\ HeadEnds \subseteq r + 1 .. w
  BY <1>0 DEF HeadEnds
<1>2. e \in HeadEnds /\ \A j \in HeadEnds : e <= j
  OBVIOUS
<1>3. e \in Nat /\ r + 1 <= e /\ e <= w
  BY <1>1, <1>2, <1>0
<1>4. At <= Len(script)
  BY <1>0, <1>3, NothingAfterTheLast
<1>5. PICK h \in Nat \ {0} : h = script[At].head
  BY <1>4, AtHand
<1>6. PICK i \in 1 .. w - r : e = r + i
  <2>1. e - r \in 1 .. w - r /\ e = r + (e - r)
    BY <1>3, <1>0
  <2> QED
    BY <2>1
<1>7. i = h
  <2>1. CASE i < h
    <3>1. buf[e] = <<At, i>>
      BY <1>4, <1>5, <1>6, <2>1, HeadHeld
    <3>2. i = h
      BY <1>2, <1>5, <3>1 DEF HeadEnds
    <3> QED
      BY <3>2
  <2>2. CASE h < i
    <3>1. h \in 1 .. w - r /\ r + h \in r + 1 .. w
      BY <1>0, <2>2
    <3>2. buf[r + h] = <<At, h>>
      BY <1>4, <1>5, <3>1, HeadHeld
    <3>3. r + h \in HeadEnds
      <4>1. buf[r + h][1] = At /\ buf[r + h][2] = h
        BY <3>2
      <4> QED
        BY <1>5, <3>1, <4>1 DEF HeadEnds
    <3>4. e <= r + h
      BY <1>2, <3>3
    <3> QED
      BY <1>0, <1>6, <2>2, <3>4
  <2> QED
    BY <1>5, <2>1, <2>2, <1>0
<1>8. buf[e] = <<At, i>>
  <2>1. i <= script[At].head
    BY <1>0, <1>5, <1>7
  <2> QED
    BY <1>4, <1>6, <2>1, HeadHeld
<1>9. buf[r + 1] = <<At, 1>>
  <2>1. 1 \in 1 .. w - r /\ 1 <= h
    BY <1>5, <1>6, <1>0
  <2> QED
    BY <1>4, <1>5, <2>1, HeadHeld
<1> QED
  BY <1>3, <1>4, <1>5, <1>6, <1>7, <1>8, <1>9

(* The body that is cut out of the buffer is the body of the request.      *)
LEMMA BodyHeld ==
  ASSUME IInv, pc = "body", ~Wants
  PROVE  /\ SubSeq(buf, r + 1, r + cur.len) = Body(At)
         /\ Body(At) \in Seq(Byte)
         /\ r + cur.len <= w
<1>1. /\ At <= Len(script) /\ Here = Begins[At] + script[At].head
      /\ cur.len = script[At].body
  BY DEF IInv, Placed
<1>2. PICK l \in Nat : l = cur.len
  BY Numbers
<1>3. PICK h \in Nat : h = script[At].head
  BY <1>1, AtHand
<1>4. r \in Nat /\ w \in Nat /\ r <= w /\ w <= Cap /\ Cap \in Nat
  BY Numbers
<1>5. l <= w - r
  BY <1>2, <1>4 DEF Wants
<1>6. At \in Nat
  BY BeginsLaid, Numbers
<1>7. ASSUME NEW i \in 1 .. l
      PROVE  buf[r + i] = <<At, h + i>>
  <2>1. i \in 1 .. w - r /\ h + i \in 1 .. h + l
    BY <1>4, <1>5
  <2>2. h + i \in 1 .. Size(script[At])
    BY <1>1, <1>2, <1>3, <2>1, AtHand
  <2>3. buf[r + i] = stream[Here + i]
    BY <2>1 DEF IInv, Held
  <2>4. Here + i = Begins[At] + (h + i)
    <3>1. Begins[At] \in Nat /\ Here = Begins[At] + h
      BY <1>1, <1>3, AtHand
    <3> QED
      BY <3>1
  <2> QED
    BY <1>1, <2>2, <2>3, <2>4, AtHand
<1> DEFINE f == [i \in 1 .. l |-> <<At, h + i>>]
<1>8. f \in [1 .. l -> Byte]
  BY <1>6 DEF Byte
<1>9. Body(At) = f
  BY <1>1, <1>2, <1>3 DEF Body
<1>10. SubSeq(buf, r + 1, r + l) = f
  <2>1. \A i \in 1 .. l : buf[r + i] = f[i]
    BY <1>7
  <2> HIDE DEF f
  <2> QED
    BY <1>4, <1>8, <2>1, CutIs
<1>11. f \in Seq(Byte)
  BY <1>8, SeqOfFunction
<1>12. r + cur.len <= w
  BY <1>2, <1>4, <1>5
<1> QED
  BY <1>2, <1>9, <1>10, <1>11, <1>12

-----------------------------------------------------------------------------
LEMMA InitIInv == Init => IInv
<1> SUFFICES ASSUME Init PROVE IInv
  OBVIOUS
<1>1. /\ script \in Seq(Requests) /\ script \in Scripts /\ stream = Bytes(script)
      /\ Len(script) \in Nat
  BY RawServerAssumption, LenProperties DEF Init
<1>2. \E b : Laid(script, stream, b)
  BY <1>1, Layout
<1>3. Laid(script, stream, Begins)
  BY <1>2 DEF Begins
<1>4. Len(stream) \in Nat
  BY <1>3, LenProperties DEF Laid
<1>5. TypeOK
  <2>1. buf \in [1 .. Cap -> Byte]
    BY DEF Init, Byte, None
  <2>2. cur \in [target : Byte, len : Nat, close : BOOLEAN]
    BY DEF Init, Byte, None, NoRequest
  <2>3. w \in 0 .. Cap /\ r \in 0 .. w /\ rd \in 0 .. Len(stream)
    BY <1>4, RawServerAssumption DEF Init
  <2>4. log \in Seq([target : Byte, body : Seq(Byte)])
    BY DEF Init
  <2> QED
    BY <1>1, <2>1, <2>2, <2>3, <2>4 DEF Init, TypeOK
<1>6. Held
  BY DEF Init, Held
<1>7. Placed
  BY DEF Init, Placed
<1>8. Counted
  BY DEF Init, Counted
<1>9. InOrder
  BY <1>1 DEF Init, InOrder
<1>10. RefusalsDeserved /\ BegunIsFinished
  BY DEF Init, RefusalsDeserved, BegunIsFinished
<1> QED
  BY <1>1, <1>5, <1>6, <1>7, <1>8, <1>9, <1>10 DEF IInv, Sent

(* A step that leaves the requests and the log alone.                      *)
LEMMA SameLog ==
  ASSUME IInv, UNCHANGED <<input, log>>
  PROVE  Sent' /\ InOrder' /\ Begins' = Begins /\ At' = At
BY DEF IInv, Sent, InOrder, Body, Begins, At, input, Bytes, Laid

LEMMA SameConn ==
  ASSUME IInv, UNCHANGED <<input, conn>>
  PROVE  /\ Sent' /\ InOrder' /\ Held' /\ RefusalsDeserved'
         /\ Begins' = Begins /\ At' = At /\ Here' = Here
<1>1. UNCHANGED <<script, stream, rd, buf, r, w, cur, log, why>>
  BY DEF input, conn
<1>2. Sent' /\ InOrder' /\ Begins' = Begins /\ At' = At
  BY <1>1, SameLog DEF input
<1>3. Here' = Here
  BY <1>1 DEF Here
<1>4. Held'
  BY <1>1, <1>3 DEF IInv, Held
<1>5. RefusalsDeserved'
  BY <1>1 DEF IInv, RefusalsDeserved
<1> QED
  BY <1>2, <1>3, <1>4, <1>5

LEMMA ServerStep ==
  ASSUME IInv,
         \/ AcceptTimeout \/ Backoff \/ AcceptFails \/ Fatal \/ Signal
         \/ CloseListener \/ Deadline \/ Drained \/ Stopped \/ UNCHANGED vars
  PROVE  IInv'
<1>1. UNCHANGED <<input, conn, pc, rawActiveConns>>
  BY DEF AcceptTimeout, Backoff, AcceptFails, Fatal, Signal, CloseListener,
         Deadline, Drained, Stopped, vars
<1>2. /\ Sent' /\ InOrder' /\ Held' /\ RefusalsDeserved'
      /\ Begins' = Begins /\ At' = At /\ Here' = Here
  BY <1>1, SameConn
<1>3. UNCHANGED <<script, stream, rd, buf, r, w, cur, log, why, pc, rawActiveConns>>
  BY <1>1 DEF input, conn
<1>4. TypeOK'
  <2>1. /\ acc' \in {"accept", "backoff"} \cup Returned
        /\ main' \in {"serving", "closing", "draining", "exited", "fatal"}
    BY DEF IInv, TypeOK, AcceptTimeout, Backoff, AcceptFails, Fatal, Signal,
           CloseListener, Deadline, Drained, Stopped, vars, server, Returned
  <2> QED
    BY <1>3, <2>1 DEF IInv, TypeOK
<1>5. Placed'
  BY <1>2, <1>3 DEF IInv, Placed
<1>6. Counted' /\ BegunIsFinished'
  <2>1. CASE CloseListener
    <3>1. begun' => pc \notin {"backlog", "spawned"}
      <4>1. pc \in {"backlog", "spawned"} => rawActiveConns = 0
        BY DEF IInv, Counted
      <4>2. begun' = (rawActiveConns > 0)
        BY <2>1 DEF CloseListener
      <4>3. rawActiveConns = 0 => (rawActiveConns > 0) = FALSE
        OBVIOUS
      <4> QED
        BY <4>1, <4>2, <4>3
    <3> QED
      BY <1>3, <2>1, <3>1 DEF IInv, Counted, BegunIsFinished, CloseListener
  <2>2. CASE Drained
    <3>1. begun /\ rawActiveConns = 0 => pc = "closed"
      BY DEF IInv, Counted, TypeOK
    <3> QED
      BY <1>3, <2>2, <3>1 DEF IInv, Counted, BegunIsFinished, Drained
  <2>3. CASE ~CloseListener /\ ~Drained
    BY <1>3, <2>3 DEF IInv, Counted, BegunIsFinished, AcceptTimeout, Backoff,
       AcceptFails, Fatal, Signal, Deadline, Stopped, vars, server
  <2> QED
    BY <2>1, <2>2, <2>3
<1> QED
  BY <1>2, <1>4, <1>5, <1>6 DEF IInv

(* The part that every step of the goroutine leaves alone.                 *)
LEMMA GoroutineStep ==
  ASSUME IInv, Up, UNCHANGED server
  PROVE  /\ BegunIsFinished'
         /\ UNCHANGED <<acc, listening, main, late, begun>>
BY DEF IInv, Up, server, BegunIsFinished

LEMMA StartStep ==
  ASSUME IInv, Accept \/ Start \/ Leave
  PROVE  IInv'
<1>1. UNCHANGED <<input, conn, server>> /\ Up
  BY DEF Accept, Start, Leave
<1>2. /\ Sent' /\ InOrder' /\ Held' /\ RefusalsDeserved'
      /\ Begins' = Begins /\ At' = At /\ Here' = Here
  BY <1>1, SameConn
<1>3. BegunIsFinished' /\ UNCHANGED <<acc, listening, main, late, begun>>
  BY <1>1, GoroutineStep
<1>4. UNCHANGED <<script, stream, rd, buf, r, w, cur, log, why>>
  BY <1>1 DEF input, conn
<1>5. Counted'
  BY <1>3, <1>4 DEF IInv, Counted, TypeOK, Accept, Start, Leave
<1>6. TypeOK'
  <2>1. /\ pc' \in {"backlog", "spawned", "head", "body", "respond", "leave", "closed"}
        /\ rawActiveConns' \in 0 .. 1
    BY <1>5 DEF Accept, Start, Leave, Counted
  <2> QED
    BY <1>3, <1>4, <2>1 DEF IInv, TypeOK
<1>7. Placed'
  <2>1. CASE Accept
    BY <1>4, <2>1 DEF IInv, Placed, Accept
  <2>2. CASE Start
    <3>1. rd = 0 /\ r = 0 /\ w = 0 /\ log = <<>>
      BY <2>2 DEF IInv, Placed, Start
    <3>2. Here = 0 /\ At = 1
      BY <3>1 DEF Here, At
    <3>3. Begins[1] = 0
      BY BeginsLaid DEF Laid
    <3> QED
      BY <1>2, <2>2, <3>2, <3>3 DEF Placed, Start
  <2>3. CASE Leave
    BY <2>3 DEF Placed, Leave
  <2> QED
    BY <2>1, <2>2, <2>3
<1> QED
  BY <1>2, <1>3, <1>5, <1>6, <1>7 DEF IInv

LEMMA FillStep ==
  ASSUME IInv, Fill
  PROVE  IInv'
<1>1. PICK n \in 1 .. Cap - (w - r) :
        /\ rd + n <= Len(stream)
        /\ buf' = [i \in 1 .. Cap |->
             IF i <= w - r THEN buf[r + i]
             ELSE IF i <= w - r + n THEN stream[rd + i - (w - r)]
             ELSE buf[i]]
        /\ w' = w - r + n
        /\ rd' = rd + n
  BY DEF Fill
<1>2. /\ r' = 0 /\ UNCHANGED <<script, stream, cur, log, why, pc, rawActiveConns>>
      /\ UNCHANGED server /\ Up /\ UNCHANGED <<input, log>>
  BY DEF Fill, input
<1>3. Sent' /\ InOrder' /\ Begins' = Begins /\ At' = At
  BY <1>2, SameLog
<1>4. BegunIsFinished' /\ UNCHANGED <<acc, listening, main, late, begun>>
  BY <1>2, GoroutineStep
<1>5. PICK v \in Nat : v = w - r /\ r + v <= Cap /\ rd - v = Here /\ n \in 1 .. Cap - v
  <2>1. w - r \in Nat /\ r + (w - r) <= Cap /\ rd - (w - r) = Here
    BY Numbers DEF Here
  <2> QED
    BY <2>1
<1>6. /\ w' = v + n /\ w' \in 0 .. Cap /\ w' - r' = v + n /\ n \in Nat
      /\ Here' = Here
  <2>1. w' = v + n /\ n \in Nat /\ n <= Cap - v /\ Cap \in Nat
    BY <1>1, <1>5, Numbers
  <2>2. Here' = (rd + n) - ((v + n) - 0)
    BY <1>1, <1>2, <2>1 DEF Here
  <2>3. rd \in Nat
    BY Numbers
  <2>4. (rd + n) - ((v + n) - 0) = rd - v /\ v + n \in 0 .. Cap
    BY <2>1, <2>3
  <2> QED
    BY <1>2, <1>5, <2>1, <2>2, <2>4
<1>7. ASSUME NEW i \in 1 .. Cap, v < i, i <= v + n
      PROVE  Here + i \in 1 .. Len(stream) /\ rd + i - v = Here + i
  <2>1. rd \in Nat /\ rd - v = Here /\ rd + n <= Len(stream) /\ Len(stream) \in Nat
    BY <1>1, <1>5, Numbers
  <2> QED
    BY <1>6, <1>7, <2>1
<1>8. /\ buf' = [i \in 1 .. Cap |->
             IF i <= v THEN buf[r + i]
             ELSE IF i <= v + n THEN stream[rd + i - v]
             ELSE buf[i]]
  BY <1>1, <1>5
<1>9. buf' \in [1 .. Cap -> Byte]
  <2>1. buf \in [1 .. Cap -> Byte] /\ stream \in Seq(Byte)
    BY BeginsLaid DEF IInv, TypeOK, Laid, Byte
  <2>2. ASSUME NEW i \in 1 .. Cap, i <= v PROVE buf[r + i] \in Byte
    <3>1. r + i \in 1 .. Cap
      <4>1. r \in Nat /\ Cap \in Nat /\ r + v <= Cap
        BY <1>5, Numbers
      <4> QED
        BY <2>2, <4>1
    <3> QED
      BY <2>1, <3>1
  <2>3. ASSUME NEW i \in 1 .. Cap, v < i, i <= v + n PROVE stream[rd + i - v] \in Byte
    BY <1>7, <2>1, <2>3, ElementOfSeq
  <2> QED
    BY <1>5, <1>6, <1>8, <2>1, <2>2, <2>3
<1>10. Held'
  <2> SUFFICES ASSUME NEW i \in 1 .. v + n
               PROVE  buf'[0 + i] = stream[Here + i]
    BY <1>2, <1>6 DEF Held
  <2>1. i \in 1 .. Cap /\ 0 + i = i
    BY <1>5, <1>6, Numbers
  <2>2. CASE i <= v
    <3>1. i \in 1 .. w - r
      BY <1>5, <2>2
    <3> QED
      BY <1>8, <2>1, <2>2, <3>1 DEF IInv, Held
  <2>3. CASE ~(i <= v)
    <3>1. v < i /\ i <= v + n
      BY <1>5, <1>6, <2>3
    <3> QED
      BY <1>7, <1>8, <2>1, <2>3, <3>1
  <2> QED
    BY <2>2, <2>3
<1>11. TypeOK'
  <2>1. rd' \in 0 .. Len(stream) /\ w' \in 0 .. Cap /\ r' \in 0 .. w'
    <3>1. rd \in Nat /\ Len(stream) \in Nat /\ rd + n <= Len(stream)
      BY <1>1, Numbers
    <3> QED
      BY <1>1, <1>2, <1>6, <3>1
  <2> QED
    BY <1>2, <1>4, <1>9, <2>1 DEF IInv, TypeOK
<1>12. pc \in {"head", "body"}
  BY DEF Fill, Wants
<1>13. Placed'
  BY <1>2, <1>3, <1>6, <1>12 DEF IInv, Placed
<1>14. Counted' /\ RefusalsDeserved'
  BY <1>2, <1>4 DEF IInv, Counted, RefusalsDeserved
<1> QED
  BY <1>3, <1>4, <1>10, <1>11, <1>13, <1>14 DEF IInv

(* The loop gives up, for a reason that holds.                             *)
LEMMA GivesUp ==
  ASSUME IInv, Up, pc \in {"head", "body", "respond"},
         NEW reason \in {"full", "read", "bad", "big", "write", "close"}, Leaves(reason),
         UNCHANGED <<input, log, rd, buf, w, server, rawActiveConns>>,
         r' \in 0 .. w, cur' \in [target : Byte, len : Nat, close : BOOLEAN], Held',
         reason \in {"full", "bad", "big"} =>
           /\ At <= Len(script)
           /\ \/ reason = "full" /\ script[At].head > Cap
              \/ reason = "bad" /\ script[At].bad
              \/ reason = "big" /\ script[At].body > BodyLimit
  PROVE  IInv'
<1>1. Sent' /\ InOrder' /\ Begins' = Begins /\ At' = At
  BY SameLog
<1>2. BegunIsFinished' /\ UNCHANGED <<acc, listening, main, late, begun>>
  BY GoroutineStep
<1>3. pc' = "leave" /\ why' = reason
  BY DEF Leaves
<1>4. UNCHANGED <<script, stream, rd, buf, w, log, rawActiveConns>>
  BY DEF input
<1>5. TypeOK'
  BY <1>2, <1>3, <1>4 DEF IInv, TypeOK
<1>6. Placed'
  BY <1>3 DEF Placed
<1>7. Counted'
  BY <1>2, <1>3, <1>4 DEF IInv, Counted
<1>8. RefusalsDeserved'
  <2>1. At <= Len(script) => Len(log) < Len(script)
    BY Numbers, BeginsLaid DEF At
  <2> QED
    BY <1>3, <1>4, <2>1 DEF RefusalsDeserved, At
<1> QED
  BY <1>1, <1>2, <1>5, <1>6, <1>7, <1>8 DEF IInv

LEMMA SameWindow ==
  ASSUME IInv, UNCHANGED <<input, rd, buf, r, w>>
  PROVE  Held' /\ Here' = Here /\ r' \in 0 .. w
BY DEF IInv, Held, Here, input, TypeOK

LEMMA GiveUpSteps ==
  ASSUME IInv, BufferFull \/ ReadFails
  PROVE  IInv'
<1>1. /\ Up /\ Wants
      /\ UNCHANGED <<input, log, rd, buf, r, w, cur, server, rawActiveConns>>
  BY DEF BufferFull, ReadFails
<1>2. pc \in {"head", "body"}
  BY <1>1 DEF Wants
<1>3. Held' /\ r' \in 0 .. w /\ cur' \in [target : Byte, len : Nat, close : BOOLEAN]
  BY <1>1, SameWindow DEF IInv, TypeOK
<1>4. CASE ReadFails
  <2>1. Leaves("read")
    BY <1>4 DEF ReadFails
  <2> QED
    BY <1>1, <1>2, <1>3, <2>1, GivesUp
<1>5. CASE BufferFull
  <2>1. Leaves("full") /\ w - r = Cap
    BY <1>5 DEF BufferFull
  <2>2. pc = "head" /\ HeadEnds = {}
    <3>1. ASSUME pc = "body" PROVE FALSE
      <4>1. cur.len <= BodyLimit /\ w - r < cur.len
        BY <1>1, <3>1 DEF IInv, Placed, Wants
      <4> QED
        BY <2>1, <4>1, Numbers
    <3> QED
      BY <1>1, <3>1 DEF Wants
  <2>3. At <= Len(script)
    <3>1. r < w
      BY <2>1, Numbers
    <3> QED
      BY <2>2, <3>1, NothingAfterTheLast
  <2>4. script[At].head > Cap
    <3>1. Cap < script[At].head
      BY <2>1, <2>2, <2>3, HeadMissing
    <3> QED
      BY <2>3, <3>1, Numbers, AtHand
  <2> QED
    BY <1>1, <1>2, <1>3, <2>1, <2>3, <2>4, GivesUp
<1> QED
  BY <1>1, <1>4, <1>5

LEMMA ParseHeadStep ==
  ASSUME IInv, ParseHead
  PROVE  IInv'
<1> DEFINE e == CHOOSE i \in HeadEnds : \A j \in HeadEnds : i <= j
           q == script[buf[e][1]]
<1>1. /\ Up /\ pc = "head" /\ HeadEnds # {}
      /\ UNCHANGED <<input, rd, buf, w, log, server, rawActiveConns>>
  BY DEF ParseHead
<1>2. \/ q.bad /\ Leaves("bad") /\ UNCHANGED <<r, cur>>
      \/ /\ cur' = [target |-> buf[r + 1], len |-> q.body, close |-> q.close]
         /\ r' = e
         /\ \/ q.body > BodyLimit /\ Leaves("big")
            \/ ~(q.body > BodyLimit) /\ pc' = "body" /\ UNCHANGED why
  BY DEF ParseHead
<1>3. e \in HeadEnds /\ \A j \in HeadEnds : e <= j
  <2>1. HeadEnds \in SUBSET Nat
    BY Numbers DEF HeadEnds
  <2> QED
    BY <1>1, <2>1, LeastChosen
<1> HIDE DEF e
<1>4. /\ At <= Len(script) /\ e = r + script[At].head /\ e <= w
      /\ buf[e][1] = At /\ buf[r + 1] = <<At, 1>>
  BY <1>1, <1>3, HeadFound
<1>5. q = script[At]
  BY <1>4
<1> HIDE DEF q
<1>6. PICK h \in Nat \ {0} : h = script[At].head
  BY <1>4, AtHand
<1>7. /\ q \in Requests /\ q.body \in Nat /\ q.close \in BOOLEAN
      /\ At \in Nat
  <2>1. q \in Requests
    BY <1>4, <1>5, AtHand
  <2>2. At \in Nat
    BY BeginsLaid, Numbers
  <2> QED
    BY <2>1, <2>2 DEF Requests
<1>8. CASE q.bad /\ Leaves("bad") /\ UNCHANGED <<r, cur>>
  <2>1. Held' /\ r' \in 0 .. w /\ cur' \in [target : Byte, len : Nat, close : BOOLEAN]
    BY <1>1, <1>8, SameWindow DEF IInv, TypeOK
  <2>2. script[At].bad
    BY <1>5, <1>8
  <2> QED
    BY <1>1, <1>4, <1>8, <2>1, <2>2, GivesUp
<1>9. ASSUME cur' = [target |-> buf[r + 1], len |-> q.body, close |-> q.close], r' = e
      PROVE  /\ Held' /\ r' \in 0 .. w /\ Here' = Here + h
             /\ cur' \in [target : Byte, len : Nat, close : BOOLEAN]
             /\ cur'.target = <<At, 1>> /\ cur'.len = script[At].body
  <2>1. /\ r \in Nat /\ w \in Nat /\ rd \in Nat /\ r' = r + h /\ r + h <= w
        /\ rd' = rd /\ w' = w
    BY <1>1, <1>4, <1>6, <1>9, Numbers
  <2>2. Here' = Here + h /\ w' - r' = (w - r) - h
    BY <2>1 DEF Here
  <2>3. ASSUME NEW i \in 1 .. (w - r) - h
        PROVE  buf[(r + h) + i] = stream[(Here + h) + i]
    <3>1. h + i \in 1 .. w - r /\ (r + h) + i = r + (h + i)
      BY <2>1
    <3>2. (Here + h) + i = Here + (h + i)
      BY Numbers
    <3> QED
      BY <3>1, <3>2 DEF IInv, Held
  <2>4. Held'
    BY <1>1, <2>1, <2>2, <2>3 DEF Held, input
  <2>5. cur' \in [target : Byte, len : Nat, close : BOOLEAN]
    BY <1>4, <1>7, <1>9 DEF Byte
  <2> QED
    BY <1>4, <1>5, <1>9, <2>1, <2>2, <2>4, <2>5
<1>10. ASSUME cur' = [target |-> buf[r + 1], len |-> q.body, close |-> q.close], r' = e,
              q.body > BodyLimit, Leaves("big")
       PROVE  IInv'
  <2>1. script[At].body > BodyLimit
    BY <1>5, <1>10
  <2> QED
    BY <1>1, <1>4, <1>9, <1>10, <2>1, GivesUp
<1>11. ASSUME cur' = [target |-> buf[r + 1], len |-> q.body, close |-> q.close], r' = e,
              ~(q.body > BodyLimit), pc' = "body", UNCHANGED why
       PROVE  IInv'
  <2>1. Sent' /\ InOrder' /\ Begins' = Begins /\ At' = At
    BY <1>1, SameLog DEF input
  <2>2. BegunIsFinished' /\ UNCHANGED <<acc, listening, main, late, begun>>
    BY <1>1, GoroutineStep
  <2>3. UNCHANGED <<script, stream, rd, buf, w, log, why, rawActiveConns>>
    BY <1>1, <1>11 DEF input
  <2>4. TypeOK'
    BY <1>9, <1>11, <2>2, <2>3 DEF IInv, TypeOK
  <2>5. Placed'
    <3>1. cur'.len <= BodyLimit
      BY <1>5, <1>7, <1>9, <1>11, Numbers
    <3>2. Here = Begins[At]
      BY <1>1 DEF IInv, Placed
    <3> QED
      BY <1>4, <1>6, <1>9, <1>11, <2>1, <2>3, <3>1, <3>2 DEF Placed
  <2>6. Counted' /\ RefusalsDeserved'
    BY <1>1, <1>11, <2>2, <2>3 DEF IInv, Counted, RefusalsDeserved
  <2> QED
    BY <1>9, <1>11, <2>1, <2>2, <2>4, <2>5, <2>6 DEF IInv
<1> QED
  BY <1>2, <1>8, <1>10, <1>11

LEMMA DispatchStep ==
  ASSUME IInv, Dispatch
  PROVE  IInv'
<1>1. /\ Up /\ pc = "body" /\ ~Wants
      /\ log' = Append(log, [target |-> cur.target, body |-> SubSeq(buf, r + 1, r + cur.len)])
      /\ r' = r + cur.len /\ pc' = "respond"
      /\ UNCHANGED server
      /\ UNCHANGED <<script, stream, rd, buf, w, cur, why, rawActiveConns>>
  BY DEF Dispatch, Target, input
<1>2. /\ SubSeq(buf, r + 1, r + cur.len) = Body(At) /\ Body(At) \in Seq(Byte)
      /\ r + cur.len <= w
  BY <1>1, BodyHeld
<1>3. /\ At <= Len(script) /\ Here = Begins[At] + script[At].head
      /\ cur.target = <<At, 1>> /\ cur.len = script[At].body
  BY <1>1 DEF IInv, Placed
<1>4. BegunIsFinished' /\ UNCHANGED <<acc, listening, main, late, begun>>
  BY <1>1, GoroutineStep
<1> DEFINE Entry == [target : Byte, body : Seq(Byte)]
           new == [target |-> <<At, 1>>, body |-> Body(At)]
<1>5. log \in Seq(Entry) /\ new \in Entry /\ log' = Append(log, new)
  <2>1. <<At, 1>> \in Byte
    BY Numbers, BeginsLaid DEF Byte
  <2> QED
    BY <1>1, <1>2, <1>3, <2>1 DEF IInv, TypeOK
<1>6. /\ log' \in Seq(Entry) /\ Len(log') = Len(log) + 1 /\ DOMAIN log' = 1 .. Len(log) + 1
      /\ \A k \in 1 .. Len(log) : log'[k] = log[k]
      /\ log'[Len(log) + 1] = new
  <2> HIDE DEF new, Entry
  <2> QED
    BY <1>5, AppendProperties, LenProperties
<1>7. InOrder'
  <2>1. Len(log') <= Len(script)
    BY <1>3, <1>6 DEF At
  <2>2. ASSUME NEW k \in 1 .. Len(log) + 1
        PROVE  log'[k] = [target |-> <<k, 1>>, body |-> Body(k)]
    <3>1. CASE k = Len(log) + 1
      BY <1>6, <3>1 DEF At
    <3>2. CASE k # Len(log) + 1
      <4>1. k \in 1 .. Len(log) /\ k \in DOMAIN log
        BY <3>2, Numbers, <1>5, LenProperties
      <4> QED
        BY <1>6, <4>1 DEF IInv, InOrder
    <3> QED
      BY <3>1, <3>2
  <2>3. ASSUME NEW k PROVE Body(k)' = Body(k)
    BY <1>1 DEF Body
  <2>4. \A k \in DOMAIN log' : log'[k] = [target |-> <<k, 1>>, body |-> Body(k)']
    BY <1>6, <2>2, <2>3
  <2> QED
    BY <1>1, <2>1, <2>4 DEF InOrder
<1>8. PICK l \in Nat : /\ l = cur.len /\ r' = r + l /\ r + l <= w
                       /\ rd' = rd /\ w' = w /\ r \in Nat /\ w \in Nat /\ rd \in Nat
  BY <1>1, <1>2, Numbers
<1>9. Here' = Here + l /\ w' - r' = (w - r) - l
  BY <1>8 DEF Here
<1>10. Held'
  <2>1. ASSUME NEW i \in 1 .. (w - r) - l
        PROVE  buf[(r + l) + i] = stream[(Here + l) + i]
    <3>1. l + i \in 1 .. w - r /\ (r + l) + i = r + (l + i)
      BY <1>8
    <3>2. (Here + l) + i = Here + (l + i)
      BY Numbers
    <3> QED
      BY <3>1, <3>2 DEF IInv, Held
  <2> QED
    BY <1>1, <1>8, <1>9, <2>1 DEF Held
<1>11. TypeOK'
  <2>1. r' \in 0 .. w
    BY <1>8
  <2> QED
    BY <1>1, <1>4, <1>6, <2>1 DEF IInv, TypeOK
<1>12. Placed'
  <2>1. Begins' = Begins
    BY <1>1 DEF Begins, Laid
  <2>2. At' = At + 1
    BY <1>6 DEF At
  <2>3. Begins[At + 1] = Begins[At] + (script[At].head + l)
    BY <1>3, <1>8, AtHand
  <2>4. Here + l = Begins[At] + (script[At].head + l)
    BY <1>3, <1>8, AtHand
  <2> QED
    BY <1>1, <1>9, <2>1, <2>2, <2>3, <2>4 DEF Placed
<1>13. why = "open"
  BY <1>1 DEF IInv, Counted
<1>14. Counted' /\ RefusalsDeserved' /\ Sent'
  BY <1>1, <1>4, <1>13 DEF IInv, Counted, RefusalsDeserved, Sent, Bytes
<1> QED
  BY <1>4, <1>7, <1>10, <1>11, <1>12, <1>14 DEF IInv

LEMMA RespondStep ==
  ASSUME IInv, Respond
  PROVE  IInv'
<1>1. /\ Up /\ pc = "respond"
      /\ UNCHANGED <<input, log, rd, buf, r, w, cur, server, rawActiveConns>>
      /\ Leaves("write") \/ Leaves("close") \/ (pc' = "head" /\ UNCHANGED why)
  BY DEF Respond
<1>2. Held' /\ Here' = Here /\ r' \in 0 .. w
      /\ cur' \in [target : Byte, len : Nat, close : BOOLEAN]
  BY <1>1, SameWindow DEF IInv, TypeOK
<1>3. CASE Leaves("write")
  BY <1>1, <1>2, <1>3, GivesUp
<1>4. CASE Leaves("close")
  BY <1>1, <1>2, <1>4, GivesUp
<1>5. CASE pc' = "head" /\ UNCHANGED why
  <2>1. Sent' /\ InOrder' /\ Begins' = Begins /\ At' = At
    BY <1>1, SameLog DEF input
  <2>2. BegunIsFinished' /\ UNCHANGED <<acc, listening, main, late, begun>>
    BY <1>1, GoroutineStep
  <2>3. UNCHANGED <<script, stream, rd, buf, r, w, cur, log, why, rawActiveConns>>
    BY <1>1, <1>5 DEF input
  <2>4. TypeOK'
    BY <1>5, <2>2, <2>3 DEF IInv, TypeOK
  <2>5. Placed'
    BY <1>1, <1>2, <1>5, <2>1 DEF IInv, Placed
  <2>6. Counted' /\ RefusalsDeserved'
    BY <1>1, <1>5, <2>2, <2>3 DEF IInv, Counted, RefusalsDeserved
  <2> QED
    BY <1>2, <2>1, <2>2, <2>4, <2>5, <2>6 DEF IInv
<1> QED
  BY <1>1, <1>3, <1>4, <1>5

LEMMA NextIInv == IInv /\ [Next]_vars => IInv'
<1> SUFFICES ASSUME IInv, [Next]_vars PROVE IInv'
  OBVIOUS
<1>1. CASE Accept \/ Start \/ Leave
  BY <1>1, StartStep
<1>2. CASE Fill
  BY <1>2, FillStep
<1>3. CASE BufferFull \/ ReadFails
  BY <1>3, GiveUpSteps
<1>4. CASE ParseHead
  BY <1>4, ParseHeadStep
<1>5. CASE Dispatch
  BY <1>5, DispatchStep
<1>6. CASE Respond
  BY <1>6, RespondStep
<1>7. CASE \/ AcceptTimeout \/ Backoff \/ AcceptFails \/ Fatal \/ Signal
           \/ CloseListener \/ Deadline \/ Drained \/ Stopped \/ UNCHANGED vars
  BY <1>7, ServerStep
<1> QED
  BY <1>1, <1>2, <1>3, <1>4, <1>5, <1>6, <1>7 DEF Next, Serve

(* The positions of the answered, held and unread bytes in the stream, and *)
(* with them the properties of the requests, hold in every state.          *)
THEOREM AlwaysIInv == Spec => []IInv
<1>1. Init => IInv
  BY InitIInv
<1>2. IInv /\ [Next]_vars => IInv'
  BY NextIInv
<1> QED
  BY <1>1, <1>2, PTL DEF Spec

(* Types, for any scripts, any buffer and any limit.                       *)
THEOREM TypeCorrect == Spec => []TypeOK
<1>1. IInv => TypeOK
  BY DEF IInv
<1> QED
  BY <1>1, AlwaysIInv, PTL

(* However the stream is cut, whatever the buffer's size, handlers are     *)
(* given the requests in order, each with its own target and body.         *)
THEOREM AlwaysInOrder == Spec => []InOrder
<1>1. IInv => InOrder
  BY DEF IInv
<1> QED
  BY <1>1, AlwaysIInv, PTL

(* A client is given up on only for a request that deserves it.            *)
THEOREM RefusalsAlwaysDeserved == Spec => []RefusalsDeserved
<1>1. IInv => RefusalsDeserved
  BY DEF IInv
<1> QED
  BY <1>1, AlwaysIInv, PTL

(* Nothing complete stays in the buffer while the loop waits.              *)
THEOREM AlwaysWaitsOnlyForClient == Spec => []WaitsOnlyForClient
<1>1. ASSUME IInv PROVE WaitsOnlyForClient
  <2> SUFFICES ASSUME Wants, rd = Len(stream), Len(log) # Len(script) PROVE FALSE
    BY DEF WaitsOnlyForClient
  <2>1. At <= Len(script) /\ At \in Nat
    BY <1>1, Numbers, BeginsLaid DEF At
  <2>2. PICK h \in Nat, l \in Nat, b \in Nat :
          /\ h = script[At].head /\ l = script[At].body /\ b = Begins[At]
          /\ b + (h + l) <= Len(stream)
    BY <1>1, <2>1, AtHand
  <2>3. PICK v \in Nat, n \in Nat : v = w - r /\ n = Len(stream) /\ Here = n - v
    <3>1. w - r \in Nat /\ Len(stream) \in Nat
      BY <1>1, Numbers
    <3> QED
      BY <3>1 DEF Here
  <2>4. b + (h + l) <= n
    BY <2>2, <2>3
  <2>5. CASE pc = "head" /\ HeadEnds = {}
    <3>1. v < h
      BY <1>1, <2>1, <2>2, <2>3, <2>5, HeadMissing
    <3>2. n - v = b
      BY <1>1, <2>2, <2>3, <2>5 DEF IInv, Placed
    <3> QED
      BY <2>4, <3>1, <3>2
  <2>6. CASE pc = "body" /\ w - r < cur.len
    <3>1. v < l /\ n - v = b + h
      BY <1>1, <2>2, <2>3, <2>6 DEF IInv, Placed
    <3> QED
      BY <2>4, <3>1
  <2> QED
    BY <2>5, <2>6 DEF Wants
<1> QED
  BY <1>1, AlwaysIInv, PTL

(* A connection that was served when the drain began is finished before    *)
(* the process exits, or the deadline is over.                             *)
THEOREM BegunAlwaysFinished == Spec => []BegunIsFinished
<1>1. IInv => BegunIsFinished
  BY DEF IInv
<1> QED
  BY <1>1, AlwaysIInv, PTL
=============================================================================
