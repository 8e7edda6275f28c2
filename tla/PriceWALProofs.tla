--------------------------- MODULE PriceWALProofs ---------------------------
(***************************************************************************)
(* What the price log promises for any posts, symbols, faults and number   *)
(* of crashes: what is on disk stays there, what was answered 200 is on    *)
(* disk, and a handler shows its write to nobody before that.              *)
(***************************************************************************)
EXTENDS PriceWAL, SequenceTheorems, TLAPS

-----------------------------------------------------------------------------
(* Lines at a place of a file.                                             *)

LineAt(f, i, p) ==
  f[i] = <<p, "head">> /\ f[i + 1] = <<p, "tail">> /\ f[i + 2] = <<p, "nl">>

HasLine(f, n, p) == \E i \in 1 .. n - 2 : LineAt(f, i, p)

(* f and g begin with the same n pieces.                                   *)
Agree(f, g, n) == \A i \in 1 .. n : g[i] = f[i]

LEMMA LineIsThree ==
  ASSUME NEW p \in Posts
  PROVE  /\ Line(p) \in Seq(Pieces)
         /\ Len(Line(p)) = 3
         /\ Line(p)[1] = <<p, "head">>
         /\ Line(p)[2] = <<p, "tail">>
         /\ Line(p)[3] = <<p, "nl">>
<1>1. <<p, "head">> \in Pieces /\ <<p, "tail">> \in Pieces /\ <<p, "nl">> \in Pieces
  BY DEF Pieces
<1> QED
  BY <1>1 DEF Line

(* The beginning of a line appended to a file: the file, then the pieces.  *)
LEMMA AppendPart ==
  ASSUME NEW f \in Seq(Pieces), NEW p \in Posts, NEW n \in 0 .. 3,
         NEW g, g = f \o SubSeq(Line(p), 1, n)
  PROVE  /\ g \in Seq(Pieces)
         /\ Len(g) = Len(f) + n
         /\ Agree(f, g, Len(f))
         /\ \A i \in 1 .. n : g[Len(f) + i] = Line(p)[i]
<1> DEFINE t == SubSeq(Line(p), 1, n)
<1>1. n \in Int /\ 1 \in Int /\ \A i \in 1 .. n : Line(p)[i] \in Pieces
  BY LineIsThree, ElementOfSeq
<1>2. /\ t \in Seq(Pieces)
      /\ Len(t) = IF 1 <= n THEN n - 1 + 1 ELSE 0
      /\ \A i \in 1 .. n - 1 + 1 : t[i] = Line(p)[1 + i - 1]
  BY <1>1, SubSeqProperties
<1>3. Len(t) = n /\ \A i \in 1 .. n : t[i] = Line(p)[i]
  BY <1>2
<1> HIDE DEF t
<1>4. /\ f \o t \in Seq(Pieces)
      /\ Len(f \o t) = Len(f) + Len(t)
      /\ \A i \in 1 .. Len(f) + Len(t) :
           (f \o t)[i] = IF i <= Len(f) THEN f[i] ELSE t[i - Len(f)]
  BY <1>2, ConcatProperties
<1>5. Len(f) \in Nat
  BY LenProperties
<1>6. g = f \o t
  BY DEF t
<1>7. \A i \in 1 .. Len(f) : g[i] = f[i]
  BY <1>3, <1>4, <1>5, <1>6
<1>8. \A i \in 1 .. n : g[Len(f) + i] = t[i]
  BY <1>3, <1>4, <1>5, <1>6
<1> QED
  BY <1>3, <1>4, <1>6, <1>7, <1>8 DEF Agree

LEMMA AppendLine ==
  ASSUME NEW f \in Seq(Pieces), NEW p \in Posts
  PROVE  f \o Line(p) = f \o SubSeq(Line(p), 1, 3)
BY LineIsThree, SubSeqFull

LEMMA PrefixOf ==
  ASSUME NEW f \in Seq(Pieces), NEW n \in 0 .. Len(f)
  PROVE  /\ SubSeq(f, 1, n) \in Seq(Pieces)
         /\ Len(SubSeq(f, 1, n)) = n
         /\ Agree(f, SubSeq(f, 1, n), n)
<1>1. n \in Int /\ 1 \in Int /\ \A i \in 1 .. n : f[i] \in Pieces
  BY ElementOfSeq, LenProperties
<1>2. /\ SubSeq(f, 1, n) \in Seq(Pieces)
      /\ Len(SubSeq(f, 1, n)) = IF 1 <= n THEN n - 1 + 1 ELSE 0
      /\ \A i \in 1 .. n - 1 + 1 : SubSeq(f, 1, n)[i] = f[1 + i - 1]
  BY <1>1, SubSeqProperties
<1> QED
  BY <1>2 DEF Agree

(* What Durable and Logged say, without the sequence operators.            *)
EntryIn(f, n, p) ==
  \E i \in 1 .. n - 2 :
    /\ f[i] = <<p, "head">>
    /\ f[i + 1] = <<p, "tail">>
    /\ f[i + 2][2] = "nl"
    /\ i > 1 => f[i - 1][2] = "nl"

(* They outlive whatever happens behind the first m pieces.                *)
LEMMA LinesStay ==
  ASSUME NEW f, NEW g, NEW p, NEW m \in Int, NEW n \in Int, m <= n, Agree(f, g, m)
  PROVE  /\ EntryIn(f, m, p) => EntryIn(g, n, p)
         /\ HasLine(f, m, p) => HasLine(g, n, p)
<1>1. ASSUME NEW i \in 1 .. m - 2
      PROVE  /\ i \in 1 .. n - 2
             /\ g[i] = f[i] /\ g[i + 1] = f[i + 1] /\ g[i + 2] = f[i + 2]
             /\ i > 1 => g[i - 1] = f[i - 1]
  BY DEF Agree
<1>2. EntryIn(f, m, p) => EntryIn(g, n, p)
  BY <1>1 DEF EntryIn
<1>3. HasLine(f, m, p) => HasLine(g, n, p)
  BY <1>1 DEF HasLine, LineAt
<1> QED
  BY <1>2, <1>3

LEMMA DurableIs ==
  ASSUME NEW p, NEW f \in Seq(Pieces), NEW n \in 0 .. Len(f)
  PROVE  (\E i \in 1 .. n - 2 : EntryAt(SubSeq(f, 1, n), i, p) /\ f[i + 2][2] = "nl")
           <=> EntryIn(f, n, p)
<1> DEFINE s == SubSeq(f, 1, n)
<1>1. Len(s) = n /\ Agree(f, s, n)
  BY PrefixOf
<1>2. n \in Nat
  BY LenProperties
<1> HIDE DEF s
<1>3. \A i \in 1 .. n - 2 :
        (EntryAt(s, i, p) /\ f[i + 2][2] = "nl")
          <=> (/\ f[i] = <<p, "head">>
               /\ f[i + 1] = <<p, "tail">>
               /\ f[i + 2][2] = "nl"
               /\ i > 1 => f[i - 1][2] = "nl")
  BY <1>1, <1>2 DEF EntryAt, Agree
<1> QED
  BY <1>3 DEF EntryIn, s

LEMMA LoggedIs ==
  ASSUME NEW p \in Posts, NEW f \in Seq(Pieces), NEW n \in 0 .. Len(f)
  PROVE  (\E i \in 1 .. n - 2 : SubSeq(f, i, i + 2) = Line(p)) <=> HasLine(f, n, p)
<1>1. Len(f) \in Nat /\ n \in Nat
  BY LenProperties
<1>2. ASSUME NEW i \in 1 .. n - 2
      PROVE  SubSeq(f, i, i + 2) = Line(p) <=> LineAt(f, i, p)
  <2> DEFINE s == SubSeq(f, i, i + 2)
  <2>1. i \in Int /\ i + 2 \in Int /\ \A j \in i .. i + 2 : f[j] \in Pieces
    BY <1>1, ElementOfSeq
  <2>2. /\ s \in Seq(Pieces)
        /\ Len(s) = IF i <= i + 2 THEN i + 2 - i + 1 ELSE 0
        /\ \A j \in 1 .. i + 2 - i + 1 : s[j] = f[i + j - 1]
    BY <2>1, SubSeqProperties
  <2> HIDE DEF s
  <2>3. Len(s) = 3 /\ \A j \in 1 .. 3 : s[j] = f[i + j - 1]
    BY <2>1, <2>2
  <2>4. s[1] = f[i] /\ s[2] = f[i + 1] /\ s[3] = f[i + 2]
    BY <2>1, <2>3
  <2>5. ASSUME LineAt(f, i, p) PROVE s = Line(p)
    <3>1. s[1] = Line(p)[1] /\ s[2] = Line(p)[2] /\ s[3] = Line(p)[3]
      BY <2>4, <2>5, LineIsThree DEF LineAt
    <3>2. \A j \in 1 .. 3 : s[j] = Line(p)[j]
      BY <3>1
    <3> QED
      BY <2>2, <2>3, <3>2, LineIsThree, SeqEqual
  <2>6. ASSUME s = Line(p) PROVE LineAt(f, i, p)
    BY <2>4, <2>6, LineIsThree DEF LineAt
  <2> QED
    BY <2>5, <2>6 DEF s
<1> QED
  BY <1>2 DEF HasLine

-----------------------------------------------------------------------------
(* What a step does to the disk.                                           *)

(* Nothing that is synced changes.                                         *)
Keeps ==
  /\ file' \in Seq(Pieces)
  /\ synced' \in 0 .. Len(file')
  /\ synced <= synced'
  /\ Agree(file, file', synced)

(* The file is cut, or it grows by a beginning of the line of a post that  *)
(* was about to be written.                                                *)
Cut == Len(file') <= Len(file) /\ Agree(file, file', Len(file'))

GrownBy(p) ==
  /\ pc[p] = "write"
  /\ pc'[p] \in {"sync", "failed", "lost"}
  /\ Len(file') <= Len(file) + 3
  /\ \A i \in 1 .. Len(file') :
       file'[i] = IF i <= Len(file) THEN file[i] ELSE Line(p)[i - Len(file)]

(* A running process only appends.                                         *)
Grows == Len(file) <= Len(file') /\ Agree(file, file', Len(file))

DiskStep ==
  Keeps /\ (up' => Grows) /\ (Cut \/ \E p \in Posts : GrownBy(p))

LEMMA Unchanged ==
  ASSUME TypeOK, UNCHANGED disk
  PROVE  DiskStep
BY LenProperties DEF TypeOK, disk, DiskStep, Keeps, Grows, Cut, Agree

LEMMA AppendGrows ==
  ASSUME TypeOK, NEW p \in Posts, pc[p] = "write",
         pc'[p] \in {"sync", "failed", "lost"},
         NEW n \in 0 .. 3, file' = file \o SubSeq(Line(p), 1, n), synced' = synced
  PROVE  Keeps /\ Grows /\ GrownBy(p)
<1>1. /\ file' \in Seq(Pieces)
      /\ Len(file') = Len(file) + n
      /\ Agree(file, file', Len(file))
      /\ \A i \in 1 .. n : file'[Len(file) + i] = Line(p)[i]
  BY AppendPart DEF TypeOK
<1>2. Len(file) \in Nat /\ synced \in 0 .. Len(file)
  BY LenProperties DEF TypeOK
<1>3. Keeps
  BY <1>1, <1>2 DEF Keeps, Agree
<1>4. ASSUME NEW i \in 1 .. Len(file'), ~(i <= Len(file))
      PROVE  file'[i] = Line(p)[i - Len(file)]
  <2>1. i - Len(file) \in 1 .. n /\ Len(file) + (i - Len(file)) = i
    BY <1>1, <1>2, <1>4
  <2> QED
    BY <1>1, <2>1
<1>5. GrownBy(p)
  BY <1>1, <1>2, <1>4 DEF GrownBy, Agree
<1>6. Grows
  BY <1>1, <1>2 DEF Grows
<1> QED
  BY <1>3, <1>5, <1>6

LEMMA Appends ==
  ASSUME TypeOK, NEW p \in Posts, pc[p] = "write",
         pc'[p] \in {"sync", "failed", "lost"},
         NEW n \in 0 .. 3, file' = file \o SubSeq(Line(p), 1, n), synced' = synced
  PROVE  DiskStep
BY AppendGrows DEF DiskStep

LEMMA Loses ==
  ASSUME TypeOK, PowerLoss
  PROVE  DiskStep
<1>1. PICK f \in Appended :
        \E n \in Cuts(f) : file' = SubSeq(f, 1, n) /\ synced' = n
  BY DEF PowerLoss
<1>2. PICK n \in Cuts(f) : file' = SubSeq(f, 1, n) /\ synced' = n
  BY <1>1
<1>3. Len(file) \in Nat /\ file \in Seq(Pieces) /\ synced \in 0 .. Len(file)
  BY LenProperties DEF TypeOK
<1>4. up' = FALSE
  BY DEF PowerLoss, Die
<1>5. CASE f = file
  <2>1. n \in 0 .. Len(file) /\ synced <= n
    BY <1>3, <1>5 DEF Cuts
  <2>2. file' \in Seq(Pieces) /\ Len(file') = n /\ Agree(file, file', n)
    BY <1>2, <1>3, <1>5, <2>1, PrefixOf
  <2>3. Keeps /\ Cut
    BY <1>2, <1>3, <2>1, <2>2 DEF Keeps, Cut, Agree
  <2> QED
    BY <1>4, <2>3 DEF DiskStep
<1>6. CASE f # file
  <2>1. PICK p \in Posts, m \in 1 .. 2 :
          pc[p] = "write" /\ f = file \o SubSeq(Line(p), 1, m)
    BY <1>1, <1>6 DEF Appended
  <2>2. /\ f \in Seq(Pieces)
        /\ Len(f) = Len(file) + m
        /\ Agree(file, f, Len(file))
        /\ \A i \in 1 .. m : f[Len(file) + i] = Line(p)[i]
    <3>1. m \in 0 .. 3
      OBVIOUS
    <3> QED
      BY <1>3, <2>1, <3>1, AppendPart
  <2>3. n \in 0 .. Len(f) /\ synced <= n
    BY <1>3, <2>2 DEF Cuts
  <2>4. file' \in Seq(Pieces) /\ Len(file') = n /\ Agree(f, file', n)
    BY <1>2, <2>2, <2>3, PrefixOf
  <2>5. Keeps
    BY <1>2, <1>3, <2>2, <2>3, <2>4 DEF Keeps, Agree
  <2>6. pc'[p] = "lost"
    BY <2>1 DEF PowerLoss, Die, InFlight, TypeOK
  <2>7. ASSUME NEW i \in 1 .. Len(file'), ~(i <= Len(file))
        PROVE  file'[i] = Line(p)[i - Len(file)]
    <3>1. i - Len(file) \in 1 .. m /\ Len(file) + (i - Len(file)) = i
      BY <1>3, <2>2, <2>3, <2>4, <2>7
    <3> QED
      BY <2>2, <2>4, <3>1 DEF Agree
  <2>8. GrownBy(p)
    BY <1>3, <2>1, <2>2, <2>3, <2>4, <2>6, <2>7 DEF GrownBy, Agree
  <2> QED
    BY <1>4, <2>5, <2>8 DEF DiskStep
<1> QED
  BY <1>5, <1>6

LEMMA DiskSteps ==
  ASSUME TypeOK, [Next]_vars
  PROVE  DiskStep
<1>1. ASSUME NEW p \in Posts, Write(p) PROVE DiskStep
  <2>1. /\ pc[p] = "write" /\ pc'[p] = "sync" /\ synced' = synced
        /\ file' = file \o Line(p)
    BY <1>1 DEF Write, Go, TypeOK
  <2>2. file' = file \o SubSeq(Line(p), 1, 3)
    BY <2>1, AppendLine DEF TypeOK
  <2> QED
    BY <2>1, <2>2, Appends
<1>2. ASSUME NEW p \in Posts, WriteFails(p) PROVE DiskStep
  <2>1. PICK n \in 0 .. 2 : file' = file \o SubSeq(Line(p), 1, n)
    BY <1>2 DEF WriteFails
  <2>2. pc[p] = "write" /\ pc'[p] = "failed" /\ synced' = synced /\ n \in 0 .. 3
    BY <1>2 DEF WriteFails, Go, TypeOK
  <2> QED
    BY <2>1, <2>2, Appends
<1>3. ASSUME NEW p \in Posts, Sync(p) PROVE DiskStep
  BY <1>3, LenProperties DEF Sync, TypeOK, DiskStep, Keeps, Grows, Cut, Agree
<1>4. ASSUME Kill PROVE DiskStep
  <2>1. synced' = synced
    BY <1>4 DEF Kill
  <2>2. CASE file' = file
    BY <2>1, <2>2, Unchanged DEF disk
  <2>3. CASE file' # file
    <3>1. PICK p \in Posts, n \in 1 .. 2 :
            pc[p] = "write" /\ file' = file \o SubSeq(Line(p), 1, n)
      BY <1>4, <2>3 DEF Kill, Appended
    <3>2. pc'[p] = "lost" /\ n \in 0 .. 3
      BY <1>4, <3>1 DEF Kill, Die, InFlight, TypeOK
    <3> QED
      BY <2>1, <3>1, <3>2, Appends
  <2> QED
    BY <2>2, <2>3
<1>5. ASSUME NEW p \in Posts, Request(p) \/ Lock(p) \/ SyncFails(p) \/ Apply(p) \/ Reply(p)
      PROVE  DiskStep
  BY <1>5, Unchanged DEF Request, Lock, SyncFails, Apply, Reply
<1>6. ASSUME Boot \/ Quiet \/ UNCHANGED vars PROVE DiskStep
  BY <1>6, Unchanged DEF Boot, Quiet, vars
<1> QED
  BY <1>1, <1>2, <1>3, <1>4, <1>5, <1>6, Loses DEF Next, Handler
-----------------------------------------------------------------------------
(* Types.                                                                  *)

LEMMA ReplayIsAPost ==
  ASSUME NEW f, NEW s \in Symbols
  PROVE  \/ Replay(f)[s] = Base
         \/ /\ Replay(f)[s] \in Posts
            /\ Replay(f)[s] \in LastOf(f, s)
<1>1. CASE LastOf(f, s) = {}
  BY <1>1 DEF Replay
<1>2. CASE LastOf(f, s) # {}
  <2>1. Replay(f)[s] = CHOOSE p \in LastOf(f, s) : TRUE
    BY <1>2 DEF Replay
  <2>2. (CHOOSE p \in LastOf(f, s) : TRUE) \in LastOf(f, s)
    BY <1>2
  <2> QED
    BY <2>1, <2>2 DEF LastOf
<1> QED
  BY <1>1, <1>2

LEMMA ReplayType ==
  ASSUME NEW f
  PROVE  Replay(f) \in [Symbols -> Posts \cup {Base}]
<1>1. \A s \in Symbols : Replay(f)[s] \in Posts \cup {Base}
  BY ReplayIsAPost
<1> QED
  BY <1>1 DEF Replay

LEMMA InitTyped == Init => TypeOK
<1> SUFFICES ASSUME Init PROVE TypeOK
  OBVIOUS
<1>1. file \in Seq(Pieces) /\ Len(file) = 0
  BY DEF Init
<1>2. sym \in [Posts -> Symbols] /\ 0 \in 0 .. MaxCrashes
  BY WALAssumption DEF Init, WALAssumption
<1>3. walOn \in BOOLEAN /\ replayed \in BOOLEAN /\ up \in BOOLEAN
  BY DEF Init
<1>4. prices \in [Symbols -> Posts \cup {Base}] /\ pc \in [Posts -> {"idle"}]
  BY DEF Init
<1>5. synced \in 0 .. Len(file)
  BY <1>1 DEF Init
<1> QED
  BY <1>1, <1>2, <1>3, <1>4, <1>5 DEF Init, TypeOK

LEMMA NextTyped ==
  ASSUME TypeOK, [Next]_vars
  PROVE  TypeOK'
<1> USE DEF TypeOK, Go, disk, booted
<1>1. file' \in Seq(Pieces) /\ synced' \in 0 .. Len(file')
  BY DiskSteps DEF DiskStep, Keeps
<1> DEFINE States == {"idle"} \cup InFlight \cup Ended
           Rest == /\ walOn' \in BOOLEAN /\ replayed' \in BOOLEAN
                   /\ prices' \in [Symbols -> Posts \cup {Base}]
                   /\ sym' \in [Posts -> Symbols]
                   /\ up' \in BOOLEAN
                   /\ crashes' \in 0 .. MaxCrashes
                   /\ acked' \subseteq Posts
                   /\ overlapped' \subseteq Symbols
                   /\ pc' \in [Posts -> States]
                   /\ walMu' \in {Base} \cup {p \in Posts : pc'[p] \in {"write", "sync"}}
<1>2. ASSUME NEW p \in Posts, Request(p) PROVE Rest
  BY <1>2 DEF Request, InFlight, Ended
<1>3. ASSUME NEW p \in Posts, Lock(p) PROVE Rest
  BY <1>3 DEF Lock, InFlight
<1>4. ASSUME NEW p \in Posts, Write(p) PROVE Rest
  BY <1>4 DEF Write, InFlight
<1>5. ASSUME NEW p \in Posts, WriteFails(p) PROVE Rest
  BY <1>5 DEF WriteFails, Ended
<1>6. ASSUME NEW p \in Posts, Sync(p) \/ SyncFails(p) PROVE Rest
  BY <1>6 DEF Sync, SyncFails, InFlight, Ended
<1>7. ASSUME NEW p \in Posts, Apply(p) PROVE Rest
  BY <1>7 DEF Apply, InFlight
<1>8. ASSUME NEW p \in Posts, Reply(p) PROVE Rest
  BY <1>8 DEF Reply, Ended
<1>9. ASSUME Die PROVE Rest
  <2>1. crashes' \in 0 .. MaxCrashes
    BY <1>9, WALAssumption DEF Die, WALAssumption
  <2>2. pc' \in [Posts -> States]
    BY <1>9 DEF Die, Ended
  <2>3. UNCHANGED <<walOn, replayed, prices, sym, acked, overlapped>>
        /\ walMu' = Base /\ up' = FALSE
    BY <1>9 DEF Die
  <2> QED
    BY <2>1, <2>2, <2>3
<1>10. ASSUME Boot PROVE Rest
  BY <1>10, ReplayType DEF Boot
<1>11. ASSUME UNCHANGED vars PROVE Rest
  BY <1>11 DEF vars
<1> QED
  BY <1>1, <1>2, <1>3, <1>4, <1>5, <1>6, <1>7, <1>8, <1>9, <1>10, <1>11
     DEF Next, Handler, Kill, PowerLoss, Quiet

(* Files hold pieces, fsyncs stay within them, and only a handler that is  *)
(* appending holds walMu: no error path and no crash keeps it.             *)
THEOREM TypeCorrect == Spec => []TypeOK
<1>1. TypeOK /\ [Next]_vars => TypeOK'
  BY NextTyped
<1> QED
  BY InitTyped, <1>1, PTL DEF Spec

-----------------------------------------------------------------------------
(* What is durable stays durable.                                          *)

LEMMA DurableStays ==
  ASSUME TypeOK, DiskStep, NEW p
  PROVE  Durable(p) => Durable(p)'
<1>1. /\ file \in Seq(Pieces) /\ synced \in 0 .. Len(file)
      /\ file' \in Seq(Pieces) /\ synced' \in 0 .. Len(file')
      /\ synced <= synced' /\ Agree(file, file', synced)
  BY DEF TypeOK, DiskStep, Keeps
<1>2. synced \in Int /\ synced' \in Int /\ synced <= synced'
  BY <1>1, LenProperties
<1>3. EntryIn(file, synced, p) => EntryIn(file', synced', p)
  BY <1>1, <1>2, LinesStay
<1>4. Durable(p) <=> EntryIn(file, synced, p)
  BY <1>1, DurableIs DEF Durable
<1>5. Durable(p)' <=> EntryIn(file', synced', p)
  BY <1>1, DurableIs DEF Durable
<1> QED
  BY <1>3, <1>4, <1>5

(* Torn appends, failed writes, kills and power losses, in any number, do  *)
(* no harm to a line that an fsync has confirmed (appendWAL, initPriceWAL).*)
THEOREM DurableAlwaysGrows == Spec => DurableGrows
<1>1. TypeOK /\ [Next]_vars => [\A p \in Posts : Durable(p) => Durable(p)']_vars
  BY DiskSteps, DurableStays
<1> QED
  BY TypeCorrect, <1>1, PTL DEF Spec, DurableGrows

-----------------------------------------------------------------------------
(* The inductive invariant: what is in the file of a post, depending on    *)
(* where its handler is.                                                   *)

Unwritten(p) == \A i \in 1 .. Len(file) : file[i][1] # p

(* Nothing is in flight in a dead process.                                 *)
Down == \A p \in Posts : pc[p] \in InFlight => up

Fresh == \A p \in Posts : pc[p] \in {"idle", "append", "write"} => Unwritten(p)

(* A post is written at once: its line does not begin behind pieces of it. *)
Apart ==
  \A i \in 1 .. Len(file) - 1 :
    file[i + 1][2] = "head" => file[i][1] # file[i + 1][1]

Written == \A p \in Posts : pc[p] = "sync" => HasLine(file, Len(file), p)

Kept ==
  \A p \in Posts :
    p \in acked \/ (walOn /\ pc[p] \in {"apply", "reply"}) => Logged(p)

(* A post answered while the log was off is not in the file at all.        *)
Honest ==
  \A p \in Posts :
    pc[p] \in {"apply", "reply", "ok"} => Logged(p) \/ Unwritten(p)

Shown ==
  up /\ walOn =>
    \A s \in Symbols :
      prices[s] \in Posts /\ pc[prices[s]] \in {"reply", "ok"} => Logged(prices[s])

IInv ==
  /\ TypeOK
  /\ Down
  /\ Fresh
  /\ Apart
  /\ Written
  /\ Kept
  /\ Honest
  /\ Shown

(* What may happen to one post in a step.                                  *)
Moved(p) ==
  \/ pc'[p] = pc[p]
  \/ pc[p] = "idle" /\ up /\ pc'[p] = IF walOn THEN "append" ELSE "apply"
  \/ pc[p] = "append" /\ pc'[p] = "write"
  \/ pc[p] = "write" /\ pc'[p] = "sync" /\ Write(p)
  \/ pc[p] \in {"write", "sync"} /\ pc'[p] = "failed"
  \/ pc[p] = "sync" /\ pc'[p] = "apply" /\ Sync(p)
  \/ pc[p] = "apply" /\ pc'[p] = "reply"
  \/ pc[p] = "reply" /\ pc'[p] = "ok"
  \/ pc[p] \in InFlight /\ pc'[p] = "lost" /\ ~up'

LEMMA Moves ==
  ASSUME TypeOK, Down, [Next]_vars
  PROVE  /\ \A p \in Posts : Moved(p)
         /\ walOn' = walOn \/ (~up /\ pc' = pc)
         /\ \A p \in Posts : p \in acked' => p \in acked \/ (walOn /\ pc[p] = "reply")
         /\ up' = up \/ (~up' /\ \A p \in Posts : pc'[p] \notin InFlight) \/ (~up /\ pc' = pc)
<1> DEFINE Goal ==
      /\ \A p \in Posts : Moved(p)
      /\ walOn' = walOn \/ (~up /\ pc' = pc)
      /\ \A p \in Posts : p \in acked' => p \in acked \/ (walOn /\ pc[p] = "reply")
      /\ up' = up \/ (~up' /\ \A p \in Posts : pc'[p] \notin InFlight) \/ (~up /\ pc' = pc)
<1> USE DEF TypeOK, Go, disk, booted
<1>1. ASSUME NEW q \in Posts, Request(q) PROVE Goal
  BY <1>1 DEF Request, Moved
<1>2. ASSUME NEW q \in Posts, Lock(q) PROVE Goal
  BY <1>2 DEF Lock, Moved
<1>3. ASSUME NEW q \in Posts, Write(q) PROVE Goal
  <2>1. /\ pc[q] = "write" /\ pc'[q] = "sync" /\ \A p \in Posts : p # q => pc'[p] = pc[p]
        /\ UNCHANGED <<walOn, acked, up>>
    BY <1>3 DEF Write
  <2> QED
    BY <1>3, <2>1 DEF Moved
<1>4. ASSUME NEW q \in Posts, WriteFails(q) \/ SyncFails(q) PROVE Goal
  BY <1>4 DEF WriteFails, SyncFails, Moved
<1>5. ASSUME NEW q \in Posts, Sync(q) PROVE Goal
  <2>1. /\ pc[q] = "sync" /\ pc'[q] = "apply" /\ \A p \in Posts : p # q => pc'[p] = pc[p]
        /\ UNCHANGED <<walOn, acked, up>>
    BY <1>5 DEF Sync
  <2> QED
    BY <1>5, <2>1 DEF Moved
<1>6. ASSUME NEW q \in Posts, Apply(q) PROVE Goal
  BY <1>6 DEF Apply, Moved
<1>7. ASSUME NEW q \in Posts, Reply(q) PROVE Goal
  BY <1>7 DEF Reply, Moved
<1>8. ASSUME Die PROVE Goal
  <2>1. /\ \A p \in Posts : pc'[p] = IF pc[p] \in InFlight THEN "lost" ELSE pc[p]
        /\ UNCHANGED <<walOn, acked>> /\ up' = FALSE
    BY <1>8 DEF Die
  <2>2. "lost" \notin InFlight
    BY DEF InFlight
  <2> QED
    BY <2>1, <2>2 DEF Moved
<1>9. ASSUME Boot PROVE Goal
  BY <1>9 DEF Boot, Moved
<1>10. ASSUME UNCHANGED vars PROVE Goal
  BY <1>10 DEF vars, Moved
<1> QED
  BY <1>1, <1>2, <1>3, <1>4, <1>5, <1>6, <1>7, <1>8, <1>9, <1>10
     DEF Next, Handler, Kill, PowerLoss, Quiet

LEMMA DownNext ==
  ASSUME TypeOK, Down, [Next]_vars
  PROVE  Down'
BY Moves DEF Down, Moved, InFlight

LEMMA UnwrittenStays ==
  ASSUME TypeOK, DiskStep, NEW q \in Posts, Unwritten(q), pc[q] = "write" => pc'[q] = "write"
  PROVE  Unwritten(q)'
<1>1. Len(file) \in Nat /\ Len(file') \in Nat
  BY LenProperties DEF TypeOK, DiskStep, Keeps
<1>2. CASE Cut
  BY <1>1, <1>2 DEF Cut, Agree, Unwritten
<1>3. ASSUME NEW p \in Posts, GrownBy(p) PROVE Unwritten(q)'
  <2>1. p # q
    BY <1>3 DEF GrownBy
  <2>2. \A k \in 1 .. 3 : Line(p)[k][1] = p
    <3>1. \A k \in 1 .. 3 : k = 1 \/ k = 2 \/ k = 3
      OBVIOUS
    <3> QED
      BY <3>1, LineIsThree
  <2>3. ASSUME NEW i \in 1 .. Len(file') PROVE file'[i][1] # q
    <3>1. CASE i <= Len(file)
      BY <1>1, <1>3, <3>1 DEF GrownBy, Unwritten
    <3>2. CASE ~(i <= Len(file))
      <4>1. i - Len(file) \in 1 .. 3 /\ file'[i] = Line(p)[i - Len(file)]
        BY <1>1, <1>3, <3>2 DEF GrownBy
      <4> QED
        BY <2>1, <2>2, <4>1
    <3> QED
      BY <3>1, <3>2
  <2> QED
    BY <2>3 DEF Unwritten
<1> QED
  BY <1>2, <1>3 DEF DiskStep

LEMMA FreshNext ==
  ASSUME TypeOK, Down, Fresh, [Next]_vars
  PROVE  Fresh'
<1> SUFFICES ASSUME NEW p \in Posts, pc'[p] \in {"idle", "append", "write"}
             PROVE  Unwritten(p)'
  BY DEF Fresh
<1>1. /\ pc[p] \in {"idle", "append", "write"}
      /\ pc[p] = "write" => pc'[p] = "write"
  BY Moves DEF Moved, InFlight
<1> QED
  BY <1>1, DiskSteps, UnwrittenStays DEF Fresh

LEMMA ApartNext ==
  ASSUME TypeOK, Fresh, Apart, DiskStep
  PROVE  Apart'
<1>1. Len(file) \in Nat /\ Len(file') \in Nat
  BY LenProperties DEF TypeOK, DiskStep, Keeps
<1>2. CASE Cut
  <2> SUFFICES ASSUME NEW i \in 1 .. Len(file') - 1, file'[i + 1][2] = "head"
               PROVE  file'[i][1] # file'[i + 1][1]
    BY DEF Apart
  <2>1. i \in 1 .. Len(file) - 1 /\ file'[i] = file[i] /\ file'[i + 1] = file[i + 1]
    BY <1>1, <1>2 DEF Cut, Agree
  <2> QED
    BY <2>1 DEF Apart
<1>3. ASSUME NEW p \in Posts, GrownBy(p) PROVE Apart'
  <2> SUFFICES ASSUME NEW i \in 1 .. Len(file') - 1, file'[i + 1][2] = "head"
               PROVE  file'[i][1] # file'[i + 1][1]
    BY DEF Apart
  <2>1. i \in 1 .. Len(file') /\ i + 1 \in 1 .. Len(file')
    BY <1>1
  <2>2. CASE i + 1 <= Len(file)
    <3>1. i \in 1 .. Len(file) - 1 /\ file'[i] = file[i] /\ file'[i + 1] = file[i + 1]
      BY <1>1, <1>3, <2>1, <2>2 DEF GrownBy
    <3> QED
      BY <3>1 DEF Apart
  <2>3. CASE i = Len(file)
    <3>1. file'[i] = file[i] /\ file'[i + 1] = Line(p)[1]
      BY <1>1, <1>3, <2>1, <2>3 DEF GrownBy
    <3>2. Unwritten(p) /\ i \in 1 .. Len(file)
      BY <1>1, <1>3, <2>1, <2>3 DEF GrownBy, Fresh
    <3> QED
      BY <3>1, <3>2, LineIsThree DEF Unwritten
  <2>4. CASE i > Len(file)
    <3>1. /\ i + 1 - Len(file) \in 2 .. 3
          /\ file'[i + 1] = Line(p)[i + 1 - Len(file)]
      BY <1>1, <1>3, <2>1, <2>4 DEF GrownBy
    <3>2. \A k \in 2 .. 3 : Line(p)[k][2] # "head"
      <4>1. \A k \in 2 .. 3 : k = 2 \/ k = 3
        OBVIOUS
      <4> QED
        BY <4>1, LineIsThree
    <3> QED
      BY <3>1, <3>2
  <2> QED
    BY <1>1, <2>1, <2>2, <2>3, <2>4
<1> QED
  BY <1>2, <1>3 DEF DiskStep

LEMMA LoggedStays ==
  ASSUME TypeOK, DiskStep, NEW p \in Posts, Logged(p)
  PROVE  Logged(p)'
<1>1. /\ file \in Seq(Pieces) /\ synced \in 0 .. Len(file)
      /\ file' \in Seq(Pieces) /\ synced' \in 0 .. Len(file')
      /\ synced <= synced' /\ Agree(file, file', synced)
  BY DEF TypeOK, DiskStep, Keeps
<1>2. synced \in Int /\ synced' \in Int /\ synced <= synced'
  BY <1>1, LenProperties
<1>3. HasLine(file, synced, p)
  BY <1>1, LoggedIs DEF Logged
<1>4. HasLine(file', synced', p)
  BY <1>1, <1>2, <1>3, LinesStay
<1> QED
  BY <1>1, <1>4, LoggedIs DEF Logged

LEMMA SyncLogs ==
  ASSUME TypeOK, Written, NEW p \in Posts, Sync(p)
  PROVE  Logged(p)'
<1>1. /\ file' = file /\ synced' = Len(file) /\ pc[p] = "sync"
      /\ file \in Seq(Pieces) /\ Len(file) \in 0 .. Len(file)
  BY LenProperties DEF Sync, TypeOK
<1>2. HasLine(file', synced', p)
  BY <1>1 DEF Written
<1> QED
  BY <1>1, <1>2, LoggedIs DEF Logged

LEMMA WrittenNext ==
  ASSUME TypeOK, Down, Written, [Next]_vars
  PROVE  Written'
<1> SUFFICES ASSUME NEW p \in Posts, pc'[p] = "sync"
             PROVE  HasLine(file', Len(file'), p)
  BY DEF Written
<1>1. (pc[p] = "sync" /\ up') \/ (pc[p] = "write" /\ Write(p))
  BY Moves DEF Moved, InFlight, Down
<1>2. Len(file) \in Nat /\ Len(file') \in Nat
  BY DiskSteps, LenProperties DEF TypeOK, DiskStep, Keeps
<1>3. CASE pc[p] = "sync" /\ up'
  <2>1. Len(file) <= Len(file') /\ Agree(file, file', Len(file))
    BY <1>3, DiskSteps DEF DiskStep, Grows
  <2>2. HasLine(file, Len(file), p)
    BY <1>3 DEF Written
  <2>3. Len(file) \in Int /\ Len(file') \in Int
    BY <1>2
  <2> QED
    BY <2>1, <2>2, <2>3, LinesStay
<1>4. CASE Write(p)
  <2>1. file' = file \o SubSeq(Line(p), 1, 3) /\ 3 \in 0 .. 3
    BY <1>4, AppendLine DEF Write, TypeOK
  <2>2. /\ Len(file') = Len(file) + 3
        /\ \A i \in 1 .. 3 : file'[Len(file) + i] = Line(p)[i]
    BY <2>1, AppendPart DEF TypeOK
  <2>3. LineAt(file', Len(file) + 1, p)
    <3>1. /\ file'[Len(file) + 1] = Line(p)[1]
          /\ file'[Len(file) + 2] = Line(p)[2]
          /\ file'[Len(file) + 3] = Line(p)[3]
      BY <2>2
    <3>2. Len(file) + 1 + 1 = Len(file) + 2 /\ Len(file) + 1 + 2 = Len(file) + 3
      BY <1>2
    <3> QED
      BY <3>1, <3>2, LineIsThree DEF LineAt
  <2>4. Len(file) + 1 \in 1 .. Len(file') - 2
    BY <1>2, <2>2
  <2> QED
    BY <2>3, <2>4 DEF HasLine
<1> QED
  BY <1>1, <1>3, <1>4

LEMMA KeptNext ==
  ASSUME TypeOK, Down, Written, Kept, [Next]_vars
  PROVE  Kept'
<1>1. ASSUME NEW p \in Posts, p \in acked' PROVE Logged(p)'
  <2>1. Logged(p)
    BY <1>1, Moves DEF Kept
  <2> QED
    BY <2>1, DiskSteps, LoggedStays
<1>2. ASSUME NEW p \in Posts, walOn', pc'[p] \in {"apply", "reply"} PROVE Logged(p)'
  <2>1. walOn
    <3>1. ~up /\ pc' = pc => FALSE
      BY <1>2 DEF Down, InFlight
    <3> QED
      BY <1>2, <3>1, Moves
  <2>2. pc[p] \in {"apply", "reply"} \/ Sync(p)
    BY <1>2, <2>1, Moves DEF Moved, InFlight
  <2>3. CASE pc[p] \in {"apply", "reply"}
    <3>1. Logged(p)
      BY <2>1, <2>3 DEF Kept
    <3> QED
      BY <3>1, DiskSteps, LoggedStays
  <2> QED
    BY <2>2, <2>3, SyncLogs
<1> QED
  BY <1>1, <1>2 DEF Kept

LEMMA HonestNext ==
  ASSUME TypeOK, Down, Fresh, Written, Honest, [Next]_vars
  PROVE  Honest'
<1> SUFFICES ASSUME NEW p \in Posts, pc'[p] \in {"apply", "reply", "ok"}
             PROVE  Logged(p)' \/ Unwritten(p)'
  BY DEF Honest
<1>1. pc[p] \in {"apply", "reply", "ok", "idle"} \/ Sync(p)
  BY Moves DEF Moved, InFlight
<1>2. CASE pc[p] \in {"apply", "reply", "ok", "idle"}
  <2>1. Logged(p) \/ Unwritten(p)
    BY <1>2 DEF Honest, Fresh
  <2>2. pc[p] # "write"
    BY <1>2
  <2> QED
    BY <2>1, <2>2, DiskSteps, LoggedStays, UnwrittenStays
<1> QED
  BY <1>1, <1>2, SyncLogs

(* What a replay shows was written.                                        *)
LEMMA ReplayedIsWritten ==
  ASSUME file \in Seq(Pieces), NEW s \in Symbols, Replay(file)[s] \in Posts,
         Base \notin Posts
  PROVE  ~Unwritten(Replay(file)[s])
<1> DEFINE p == Replay(file)[s]
<1>1. p \in LastOf(file, s)
  BY ReplayIsAPost
<1> HIDE DEF p
<1>2. PICK i \in DOMAIN file : <<i, p>> \in Entries(file, s)
  BY <1>1 DEF LastOf
<1>3. EntryAt(file, i, p)
  BY <1>2 DEF Entries
<1>4. i \in 1 .. Len(file) /\ file[i][1] = p
  BY <1>2, <1>3, LenProperties DEF EntryAt
<1> QED
  BY <1>4 DEF Unwritten, p

LEMMA ShownNext ==
  ASSUME TypeOK, Down, Kept, Honest, Shown, [Next]_vars
  PROVE  Shown'
<1> SUFFICES ASSUME up', walOn', NEW s \in Symbols, NEW p \in Posts, prices'[s] = p,
                    pc'[p] \in {"reply", "ok"}
             PROVE  Logged(p)'
  BY DEF Shown
<1>1. Logged(p) => Logged(p)'
  BY DiskSteps, LoggedStays
<1>2. CASE Boot
  <2>1. pc' = pc /\ ~up /\ (prices'[s] = Replay(file)[s] \/ prices'[s] = Base)
    BY <1>2 DEF Boot
  <2>2. prices'[s] = Replay(file)[s] /\ Base \notin Posts
    BY <2>1, WALAssumption DEF WALAssumption
  <2>3. ~Unwritten(p)
    BY <2>2, ReplayedIsWritten DEF TypeOK
  <2>4. Logged(p)
    BY <2>1, <2>3 DEF Honest
  <2> QED
    BY <1>1, <2>4
<1>3. CASE ~Boot
  <2>1. up /\ walOn
    BY <1>3 DEF Next, Handler, Request, Lock, Write, WriteFails, Sync, SyncFails, Apply,
                Reply, Kill, PowerLoss, Die, Quiet, Go, booted, vars
  <2>2. pc[p] \in {"apply", "reply", "ok"}
    BY Moves DEF Moved, InFlight
  <2>3. CASE pc[p] = "apply" \/ pc[p] = "reply"
    BY <1>1, <2>1, <2>3 DEF Kept
  <2>4. CASE pc[p] = "ok"
    <3>1. prices'[s] = prices[s]
      BY <1>3, <2>4 DEF Next, Handler, Request, Lock, Write, WriteFails, Sync, SyncFails,
           Apply, Reply, Kill, PowerLoss, Die, Quiet, Go, booted, vars, TypeOK
    <3> QED
      BY <1>1, <2>1, <2>4, <3>1 DEF Shown
  <2> QED
    BY <2>2, <2>3, <2>4
<1> QED
  BY <1>2, <1>3

-----------------------------------------------------------------------------
LEMMA Inductive ==
  ASSUME IInv, [Next]_vars
  PROVE  IInv'
BY NextTyped, DiskSteps, DownNext, FreshNext, ApartNext, WrittenNext, KeptNext,
   HonestNext, ShownNext DEF IInv

LEMMA InitIInv == Init => IInv
<1> SUFFICES ASSUME Init PROVE IInv
  OBVIOUS
<1>1. Len(file) = 0
  BY DEF Init
<1>2. Down /\ Written /\ Kept /\ Honest
  BY DEF Init, Down, Written, Kept, Honest
<1>3. Fresh /\ Apart
  BY <1>1 DEF Fresh, Unwritten, Apart
<1>4. Shown
  BY WALAssumption DEF Init, Shown, WALAssumption
<1> QED
  BY InitTyped, <1>2, <1>3, <1>4 DEF IInv

LEMMA SpecIInv == Spec => []IInv
<1>1. IInv /\ [Next]_vars => IInv'
  BY Inductive
<1> QED
  BY InitIInv, <1>1, PTL DEF Spec

(* A line on disk is replayed unless it is glued to what was there before. *)
LEMMA LoggedIsReplayed ==
  ASSUME TypeOK, Apart, NEW p \in Posts, Logged(p)
  PROVE  Durable(p) \/ Glued(p)
<1>1. file \in Seq(Pieces) /\ synced \in 0 .. Len(file) /\ Len(file) \in Nat
  BY LenProperties DEF TypeOK
<1>2. PICK i \in 1 .. synced - 2 : LineAt(file, i, p)
  BY <1>1, LoggedIs DEF Logged, HasLine
<1>3. CASE i > 1 => file[i - 1][2] = "nl"
  <2>1. EntryIn(file, synced, p)
    BY <1>2, <1>3 DEF EntryIn, LineAt
  <2> QED
    BY <1>1, <2>1, DurableIs DEF Durable
<1>4. CASE i > 1 /\ file[i - 1][2] # "nl"
  <2>1. i - 1 \in 1 .. Len(file) - 1 /\ i - 1 + 1 = i
    BY <1>1, <1>2, <1>4
  <2>2. file[i][1] = p /\ file[i][2] = "head"
    BY <1>2 DEF LineAt
  <2>3. file[i - 1][1] # file[i][1]
    BY <2>1, <2>2 DEF Apart
  <2> QED
    BY <1>4, <2>1, <2>2, <2>3 DEF Glued
<1> QED
  BY <1>3, <1>4

(* What was answered 200 while the log was on is on disk to the last byte  *)
(* and is replayed, unless a fragment glued itself to it (handlePricePost, *)
(* appendWAL).                                                             *)
THEOREM OnlyGluedIsEverLost == Spec => []OnlyGluedIsLost
<1>1. IInv => OnlyGluedIsLost
  <2> SUFFICES ASSUME IInv, NEW p \in acked PROVE Logged(p) /\ (Durable(p) \/ Glued(p))
    BY DEF OnlyGluedIsLost
  <2>1. p \in Posts /\ Logged(p)
    BY DEF IInv, TypeOK, Kept
  <2> QED
    BY <2>1, LoggedIsReplayed DEF IInv
<1> QED
  BY SpecIInv, <1>1, PTL

(* GET /price shows the write of a post that is being answered, or was     *)
(* answered 200, only with its whole line under an fsync, also after any   *)
(* number of restarts and whether or not the line is glued                 *)
(* (handlePricePost).  Posts without a 200 that a boot replays are not in  *)
(* the claim.                                                              *)
THEOREM AppliedIsAlwaysLogged == Spec => []AppliedIsLogged
<1>1. IInv => AppliedIsLogged
  <2> SUFFICES ASSUME IInv, up, walOn, NEW s \in Symbols, prices[s] # Base,
                      pc[prices[s]] \in {"reply", "ok"}
               PROVE  Logged(prices[s])
    BY DEF AppliedIsLogged
  <2>1. prices[s] \in Posts
    BY DEF IInv, TypeOK
  <2> QED
    BY <2>1 DEF IInv, Shown
<1> QED
  BY SpecIInv, <1>1, PTL
-----------------------------------------------------------------------------
(* Memory and log.                                                         *)

Clean(s) ==
  /\ s \notin overlapped
  /\ \A p \in Posts : sym[p] = s => ~Glued(p) /\ pc[p] # "failed"

Logging(p, s) == sym[p] = s /\ pc[p] \in {"sync", "apply"}

(* One post of a symbol is in flight at most.                              *)
Sole ==
  \A p, q \in Posts :
    sym[p] = sym[q] /\ pc[p] \in InFlight /\ pc[q] \in InFlight /\ p # q
      => sym[p] \in overlapped

(* A post that is in the log and not yet in the map is what a replay would *)
(* show; without one memory is what a replay would show.                   *)
Agrees(s) ==
  /\ \A p \in Posts : Logging(p, s) => Replay(file)[s] = p
  /\ (\A p \in Posts : ~Logging(p, s)) => prices[s] = Replay(file)[s]

Current == up /\ walOn /\ replayed => \A s \in Symbols : Clean(s) => Agrees(s)

SameEntries(f, g, s) ==
  \A q \in Posts : sym[q] = s => \A i \in Nat : EntryAt(f, i, q) <=> EntryAt(g, i, q)

LEMMA SameReplay ==
  ASSUME NEW f \in Seq(Pieces), NEW g \in Seq(Pieces), NEW s \in Symbols,
         SameEntries(f, g, s)
  PROVE  Replay(f)[s] = Replay(g)[s]
<1>1. /\ Len(f) \in Nat /\ Len(g) \in Nat
      /\ DOMAIN f = 1 .. Len(f) /\ DOMAIN g = 1 .. Len(g)
  BY LenProperties
<1>2. \A i, q : EntryAt(f, i, q) => i \in 1 .. Len(f)
  BY <1>1 DEF EntryAt
<1>3. \A i, q : EntryAt(g, i, q) => i \in 1 .. Len(g)
  BY <1>1 DEF EntryAt
<1>4. \A e : e \in Entries(f, s) <=> e \in Entries(g, s)
  <2>1. ASSUME NEW e \in Entries(f, s) PROVE e \in Entries(g, s)
    <3>1. /\ e \in (1 .. Len(f)) \X Posts
          /\ EntryAt(f, e[1], e[2]) /\ sym[e[2]] = s
      BY DEF Entries
    <3>2. e[2] \in Posts /\ e[1] \in Nat /\ e = <<e[1], e[2]>>
      BY <3>1
    <3>3. EntryAt(g, e[1], e[2])
      BY <3>1, <3>2 DEF SameEntries
    <3>4. e \in (1 .. Len(g)) \X Posts
      BY <1>3, <3>2, <3>3
    <3> QED
      BY <3>1, <3>3, <3>4 DEF Entries
  <2>2. ASSUME NEW e \in Entries(g, s) PROVE e \in Entries(f, s)
    <3>1. /\ e \in (1 .. Len(g)) \X Posts
          /\ EntryAt(g, e[1], e[2]) /\ sym[e[2]] = s
      BY DEF Entries
    <3>2. e[2] \in Posts /\ e[1] \in Nat /\ e = <<e[1], e[2]>>
      BY <3>1
    <3>3. EntryAt(f, e[1], e[2])
      BY <3>1, <3>2 DEF SameEntries
    <3>4. e \in (1 .. Len(f)) \X Posts
      BY <1>2, <3>2, <3>3
    <3> QED
      BY <3>1, <3>3, <3>4 DEF Entries
  <2> QED
    BY <2>1, <2>2
<1>5. Entries(f, s) = Entries(g, s)
  BY <1>4
<1>6. \A i, p : /\ <<i, p>> \in Entries(f, s) => i \in DOMAIN f
                /\ <<i, p>> \in Entries(g, s) => i \in DOMAIN g
  BY <1>1, <1>2, <1>3 DEF Entries
<1>7. LastOf(f, s) = LastOf(g, s)
  BY <1>5, <1>6 DEF LastOf
<1> QED
  BY <1>7 DEF Replay

LEMMA ReplayNext ==
  ASSUME sym' = sym
  PROVE  Replay(file)' = Replay(file')
BY DEF Replay, LastOf, Entries

(* What is glued stays so while the process runs.                          *)
LEMMA GluedStays ==
  ASSUME TypeOK, DiskStep, up', NEW q
  PROVE  Glued(q) => Glued(q)'
<1>1. Len(file) \in Nat /\ Len(file') \in Nat /\ Len(file) <= Len(file')
  BY LenProperties DEF TypeOK, DiskStep, Keeps, Grows
<1>2. \A i \in 1 .. Len(file) - 1 :
        /\ i \in 1 .. Len(file') - 1
        /\ file'[i] = file[i] /\ file'[i + 1] = file[i + 1]
  BY <1>1 DEF DiskStep, Grows, Agree
<1> QED
  BY <1>2 DEF Glued

LEMMA CleanBefore ==
  ASSUME TypeOK, Down, [Next]_vars, up', NEW s \in Symbols, Clean(s)'
  PROVE  Clean(s)
<1>1. sym' = sym /\ overlapped \subseteq overlapped'
  BY DEF Next, Handler, Request, Lock, Write, WriteFails, Sync, SyncFails, Apply,
         Reply, Kill, PowerLoss, Die, Boot, Quiet, booted, vars
<1>2. \A p \in Posts : pc[p] = "failed" => pc'[p] = "failed"
  BY Moves DEF Moved, InFlight
<1>3. \A p \in Posts : Glued(p) => Glued(p)'
  BY DiskSteps, GluedStays
<1> QED
  BY <1>1, <1>2, <1>3 DEF Clean

LEMMA SoleNext ==
  ASSUME TypeOK, Down, Sole, [Next]_vars
  PROVE  Sole'
<1>1. sym' = sym /\ overlapped \subseteq overlapped'
  BY DEF Next, Handler, Request, Lock, Write, WriteFails, Sync, SyncFails, Apply,
         Reply, Kill, PowerLoss, Die, Boot, Quiet, booted, vars
<1>2. CASE \E r \in Posts : Request(r)
  <2>1. PICK r \in Posts : Request(r)
    BY <1>2
  <2>2. /\ pc[r] = "idle" /\ \A p \in Posts : p # r => pc'[p] = pc[p]
        /\ (\E q \in Posts : sym[q] = sym[r] /\ pc[q] \in InFlight) => sym[r] \in overlapped'
    BY <2>1 DEF Request, Go, TypeOK
  <2> SUFFICES ASSUME NEW p \in Posts, NEW q \in Posts, sym[p] = sym[q],
                      pc'[p] \in InFlight, pc'[q] \in InFlight, p # q
               PROVE  sym[p] \in overlapped'
    BY <1>1 DEF Sole
  <2>3. CASE p = r \/ q = r
    BY <2>2, <2>3
  <2>4. CASE p # r /\ q # r
    BY <1>1, <2>2, <2>4 DEF Sole
  <2> QED
    BY <2>3, <2>4
<1>3. CASE ~\E r \in Posts : Request(r)
  <2>1. \A p \in Posts : pc[p] = "idle" => pc'[p] = "idle"
    <3>1. SUFFICES ASSUME NEW p \in Posts, pc[p] = "idle" PROVE pc'[p] = "idle"
      OBVIOUS
    <3> QED
      BY <1>3, <3>1 DEF Next, Handler, Lock, Write, WriteFails, Sync, SyncFails, Apply,
         Reply, Kill, PowerLoss, Die, Boot, Quiet, Go, booted, vars, TypeOK, InFlight
  <2>2. \A p \in Posts : pc'[p] \in InFlight => pc[p] \in InFlight
    BY <2>1, Moves DEF Moved, InFlight
  <2> QED
    BY <1>1, <2>2 DEF Sole
<1> QED
  BY <1>2, <1>3

(* Lines of other symbols do not change what a replay shows of a symbol,   *)
(* as long as nothing is glued to its lines.                               *)
LEMMA OthersDoNotShow ==
  ASSUME TypeOK, Fresh, Keeps, Grows, NEW p \in Posts, GrownBy(p),
         NEW s \in Symbols, sym[p] # s,
         \A q \in Posts : sym[q] = s => ~Glued(q)'
  PROVE  Replay(file')[s] = Replay(file)[s]
<1> DEFINE n == Len(file)
<1>1. /\ file \in Seq(Pieces) /\ file' \in Seq(Pieces)
      /\ n \in Nat /\ Len(file') \in n .. n + 3
      /\ \A i \in 1 .. n : file'[i] = file[i]
      /\ \A i \in n + 1 .. Len(file') : file'[i] = Line(p)[i - n]
  <2>1. file \in Seq(Pieces) /\ file' \in Seq(Pieces)
    BY DEF TypeOK, Keeps
  <2>2. n \in Nat /\ Len(file') \in Nat
    BY <2>1, LenProperties
  <2>3. n <= Len(file') /\ Len(file') <= n + 3
    BY DEF Grows, GrownBy
  <2>4. \A i \in 1 .. n : file'[i] = file[i]
    BY DEF Grows, Agree
  <2>5. \A i \in 1 .. Len(file') : ~(i <= n) => file'[i] = Line(p)[i - n]
    BY DEF GrownBy
  <2>6. ASSUME NEW i \in n + 1 .. Len(file') PROVE file'[i] = Line(p)[i - n]
    <3>1. i \in 1 .. Len(file') /\ ~(i <= n)
      BY <2>2
    <3> QED
      BY <2>5, <3>1
  <2> QED
    BY <2>1, <2>2, <2>3, <2>4, <2>6
<1>2. \A k \in 1 .. 3 : Line(p)[k][1] = p
  <2>1. \A k \in 1 .. 3 : k = 1 \/ k = 2 \/ k = 3
    OBVIOUS
  <2> QED
    BY <2>1, LineIsThree
<1>3. \A i \in n + 1 .. Len(file') : file'[i][1] = p
  BY <1>1, <1>2
<1> HIDE DEF n
<1>4. ASSUME NEW q \in Posts, sym[q] = s, NEW i \in Nat, EntryAt(file', i, q)
      PROVE  EntryAt(file, i, q)
  <2>1. q # p
    BY <1>4
  <2>2. i \in 1 .. Len(file') - 1 /\ file'[i] = <<q, "head">> /\ file'[i + 1] = <<q, "tail">>
    BY <1>4 DEF EntryAt
  <2>3. ~(i + 1 > n)
    BY <1>1, <1>3, <2>1, <2>2
  <2>4. i \in 1 .. n - 1
    BY <1>1, <2>2, <2>3
  <2>5. /\ file[i] = file'[i] /\ file[i + 1] = file'[i + 1]
        /\ i > 1 => file[i - 1] = file'[i - 1]
        /\ i + 1 < n => file[i + 2] = file'[i + 2] /\ i + 1 < Len(file')
    BY <1>1, <2>4
  <2> QED
    BY <1>1, <1>4, <2>4, <2>5 DEF EntryAt, n
<1>5. ASSUME NEW q \in Posts, sym[q] = s, NEW i \in Nat, EntryAt(file, i, q)
      PROVE  EntryAt(file', i, q)
  <2>1. q # p
    BY <1>5
  <2>2. i \in 1 .. n - 1 /\ file[i] = <<q, "head">> /\ file[i + 1] = <<q, "tail">>
    BY <1>5 DEF EntryAt, n
  <2>3. /\ file[i] = file'[i] /\ file[i + 1] = file'[i + 1]
        /\ i > 1 => file[i - 1] = file'[i - 1]
    BY <1>1, <2>2
  <2>4. CASE i + 1 < n
    <3>1. file[i + 2] = file'[i + 2] /\ i \in 1 .. Len(file') - 1
      BY <1>1, <2>2, <2>4
    <3> QED
      BY <1>5, <2>3, <2>4, <3>1 DEF EntryAt, n
  <2>5. CASE i + 1 = n /\ Len(file') = n
    <3>1. ~(i + 1 < Len(file')) /\ i \in 1 .. Len(file') - 1
      BY <1>1, <2>2, <2>5
    <3> QED
      BY <1>5, <2>3, <3>1 DEF EntryAt
  <2>6. CASE i + 1 = n /\ Len(file') # n
    <3>1. i + 1 \in 1 .. Len(file') - 1 /\ i + 1 + 1 \in n + 1 .. Len(file')
      BY <1>1, <2>2, <2>6
    <3>2. file'[i + 1 + 1][1] = p /\ file'[i + 1][1] = q /\ file'[i + 1][2] = "tail"
      BY <1>3, <2>2, <2>3, <3>1
    <3>3. Glued(q)'
      BY <2>1, <3>1, <3>2 DEF Glued
    <3> QED
      BY <1>5, <3>3
  <2> QED
    BY <1>1, <2>2, <2>4, <2>5, <2>6
<1>6. SameEntries(file', file, s)
  BY <1>4, <1>5 DEF SameEntries
<1> QED
  BY <1>1, <1>6, SameReplay

LEMMA PartShowsNothing ==
  ASSUME TypeOK, Fresh, NEW p \in Posts, pc[p] = "write",
         pc'[p] \in {"sync", "failed", "lost"},
         NEW n \in 0 .. 3, file' = file \o SubSeq(Line(p), 1, n), synced' = synced,
         NEW s \in Symbols, sym[p] # s,
         \A q \in Posts : sym[q] = s => ~Glued(q)'
  PROVE  Replay(file')[s] = Replay(file)[s]
BY AppendGrows, OthersDoNotShow

(* Head, tail and newline after a newline are an entry.                     *)
LEMMA EntryFrom ==
  ASSUME NEW f \in Seq(Pieces), NEW i \in Nat, NEW p \in Posts,
         i \in 1 .. Len(f) - 1, f[i] = <<p, "head">>, f[i + 1] = <<p, "tail">>,
         i > 1 => f[i - 1][2] = "nl",
         f[i + 2][2] = "nl"
  PROVE  EntryAt(f, i, p)
BY DEF EntryAt

(* A line that is appended to a file that ends in a newline is the last.   *)
LEMMA WrittenIsLast ==
  ASSUME TypeOK, Fresh, NEW p \in Posts, Write(p), ~Glued(p)'
  PROVE  Replay(file')[sym[p]] = p
<1> DEFINE n == Len(file)
<1>1. /\ file' = file \o SubSeq(Line(p), 1, 3) /\ 3 \in 0 .. 3
      /\ pc[p] = "write" /\ file \in Seq(Pieces) /\ sym[p] \in Symbols
  BY AppendLine DEF Write, TypeOK
<1>2. /\ file' \in Seq(Pieces) /\ n \in Nat /\ Len(file') = n + 3
      /\ \A i \in 1 .. n : file'[i] = file[i]
      /\ \A i \in 1 .. 3 : file'[n + i] = Line(p)[i]
  BY <1>1, AppendPart, LenProperties DEF Agree
<1>3. /\ file'[n + 1] = <<p, "head">>
      /\ file'[n + 2] = <<p, "tail">>
      /\ file'[n + 3] = <<p, "nl">>
  BY <1>2, LineIsThree
<1>4. n + 1 > 1 => file'[n][2] = "nl"
  <2> SUFFICES ASSUME n + 1 > 1, file'[n][2] # "nl" PROVE FALSE
    OBVIOUS
  <2>1. n \in 1 .. Len(file') - 1 /\ n \in 1 .. Len(file) /\ file'[n] = file[n]
    BY <1>2
  <2>2. file[n][1] # p
    BY <1>1, <2>1 DEF Fresh, Unwritten
  <2>3. Glued(p)'
    BY <1>3, <2>1, <2>2 DEF Glued
  <2> QED
    BY <2>3
<1> HIDE DEF n
<1>5. EntryAt(file', n + 1, p)
  <2>1. PICK i \in Nat : i = n + 1
    BY <1>2
  <2>2. file'[i] = <<p, "head">> /\ i \in 1 .. Len(file') - 1
    BY <1>2, <1>3, <2>1
  <2>3. i + 1 = n + 2 /\ i + 2 = n + 3 /\ i - 1 = n
    BY <1>2, <2>1
  <2>4. file'[i + 1] = <<p, "tail">> /\ file'[i + 2][2] = "nl"
    BY <1>3, <2>3
  <2>5. i > 1 => file'[i - 1][2] = "nl"
    BY <1>4, <2>1, <2>3
  <2>6. EntryAt(file', i, p)
    BY <1>2, <2>2, <2>4, <2>5, EntryFrom
  <2> QED
    BY <2>1, <2>6
<1>6. \A i, q : EntryAt(file', i, q) => i \in 1 .. n + 1
  <2> SUFFICES ASSUME NEW i, NEW q, EntryAt(file', i, q) PROVE i \in 1 .. n + 1
    OBVIOUS
  <2>1. i \in 1 .. n + 2 /\ file'[i] = <<q, "head">>
    BY <1>2 DEF EntryAt
  <2>2. i # n + 2
    BY <1>3, <2>1
  <2> QED
    BY <1>2, <2>1, <2>2
<1>7. \A q : EntryAt(file', n + 1, q) => q = p
  BY <1>3 DEF EntryAt
<1>8. n + 1 \in 1 .. Len(file') /\ DOMAIN file' = 1 .. Len(file')
  BY <1>2, LenProperties
<1>9. <<n + 1, p>> \in Entries(file', sym[p])
  BY <1>5, <1>8 DEF Entries
<1>10. \A e \in Entries(file', sym[p]) : e[1] \in 1 .. n + 1 /\ (e[1] = n + 1 => e[2] = p)
  BY <1>6, <1>7 DEF Entries
<1>11. p \in LastOf(file', sym[p])
  BY <1>2, <1>8, <1>9, <1>10 DEF LastOf
<1>12. \A q \in LastOf(file', sym[p]) : q = p
  <2> SUFFICES ASSUME NEW q \in LastOf(file', sym[p]) PROVE q = p
    OBVIOUS
  <2>1. PICK i \in DOMAIN file' :
          <<i, q>> \in Entries(file', sym[p]) /\ \A e \in Entries(file', sym[p]) : e[1] <= i
    BY DEF LastOf
  <2>2. n + 1 <= i /\ i \in 1 .. n + 1
    BY <1>9, <1>10, <2>1
  <2>3. i = n + 1
    BY <1>2, <2>2
  <2> QED
    BY <1>10, <2>1, <2>3
<1>13. LastOf(file', sym[p]) = {p}
  BY <1>11, <1>12
<1> QED
  BY <1>1, <1>13 DEF Replay

LEMMA CurrentNext ==
  ASSUME TypeOK, Down, Fresh, Sole, Current, [Next]_vars
  PROVE  Current'
<1> SUFFICES ASSUME up', walOn', replayed', NEW s \in Symbols, Clean(s)'
             PROVE  Agrees(s)'
  BY DEF Current
<1>1. Clean(s) /\ sym' = sym /\ DiskStep
  <2>1. sym' = sym
    BY DEF Next, Handler, Request, Lock, Write, WriteFails, Sync, SyncFails, Apply,
           Reply, Kill, PowerLoss, Die, Boot, Quiet, booted, vars
  <2> QED
    BY <2>1, CleanBefore, DiskSteps
<1>2. /\ \A p \in Posts : sym[p] = s => ~Glued(p)' /\ pc'[p] # "failed"
      /\ s \notin overlapped
  BY <1>1 DEF Clean
<1> DEFINE Goal == /\ \A p \in Posts : sym[p] = s /\ pc'[p] \in {"sync", "apply"}
                                        => Replay(file')[s] = p
                   /\ (\A p \in Posts : ~(sym[p] = s /\ pc'[p] \in {"sync", "apply"}))
                        => prices'[s] = Replay(file')[s]
<1>3. SUFFICES Goal
  BY <1>1, ReplayNext DEF Agrees, Logging
<1>4. CASE Boot
  <2>1. prices' = Replay(file) /\ file' = file /\ pc' = pc /\ ~up
    BY <1>4 DEF Boot, disk
  <2> QED
    BY <2>1 DEF Down, InFlight
<1>5. ASSUME ~Boot
      PROVE  /\ \A p \in Posts : sym[p] = s /\ pc[p] \in {"sync", "apply"}
                                    => Replay(file)[s] = p
             /\ (\A p \in Posts : ~(sym[p] = s /\ pc[p] \in {"sync", "apply"}))
                  => prices[s] = Replay(file)[s]
             /\ walOn
  <2>1. up /\ walOn /\ replayed
    BY <1>5 DEF Next, Handler, Request, Lock, Write, WriteFails, Sync, SyncFails, Apply,
                Reply, Kill, PowerLoss, Die, Quiet, Go, booted, vars
  <2>2. Agrees(s)
    BY <1>1, <2>1 DEF Current
  <2> QED
    BY <2>1, <2>2 DEF Agrees, Logging
<1>6. ASSUME NEW p \in Posts, sym[p] = s, pc[p] \in InFlight,
             NEW q \in Posts, sym[q] = s, pc[q] \in {"sync", "apply"}
      PROVE  q = p
  BY <1>2, <1>6 DEF Sole, InFlight
<1>7. ASSUME NEW p \in Posts, Write(p) PROVE Goal
  <2>1. /\ pc[p] = "write" /\ pc'[p] = "sync" /\ prices' = prices
        /\ \A q \in Posts : q # p => pc'[q] = pc[q]
    BY <1>7 DEF Write, Go, TypeOK
  <2>2. ~Boot
    BY <1>7 DEF Boot, Write, Down, InFlight
  <2>3. CASE sym[p] = s
    <3>1. Replay(file')[s] = p
      BY <1>2, <1>7, <2>3, WrittenIsLast
    <3>2. \A q \in Posts : sym[q] = s /\ pc'[q] \in {"sync", "apply"} => q = p
      BY <1>6, <2>1, <2>3 DEF InFlight
    <3> QED
      BY <2>1, <2>3, <3>1, <3>2
  <2>4. CASE sym[p] # s
    <3>1. /\ file' = file \o SubSeq(Line(p), 1, 3) /\ 3 \in 0 .. 3 /\ synced' = synced
      BY <1>7, AppendLine DEF Write, TypeOK
    <3>2. Replay(file')[s] = Replay(file)[s]
      BY <1>2, <2>1, <2>4, <3>1, PartShowsNothing
    <3> QED
      BY <1>5, <2>1, <2>2, <2>4, <3>2
  <2> QED
    BY <2>3, <2>4
<1>8. ASSUME NEW p \in Posts, WriteFails(p) PROVE Goal
  <2>1. /\ pc[p] = "write" /\ pc'[p] = "failed" /\ prices' = prices /\ synced' = synced
        /\ \A q \in Posts : q # p => pc'[q] = pc[q]
    BY <1>8 DEF WriteFails, Go, TypeOK
  <2>2. ~Boot
    BY <1>8 DEF Boot, WriteFails, Down, InFlight
  <2>3. sym[p] # s
    BY <1>2, <2>1
  <2>4. PICK n \in 0 .. 2 : file' = file \o SubSeq(Line(p), 1, n)
    BY <1>8 DEF WriteFails
  <2>5. n \in 0 .. 3
    OBVIOUS
  <2>6. Replay(file')[s] = Replay(file)[s]
    BY <1>2, <2>1, <2>3, <2>4, <2>5, PartShowsNothing
  <2> QED
    BY <1>5, <2>1, <2>2, <2>3, <2>6
<1>9. ASSUME NEW p \in Posts, Request(p) \/ Lock(p) \/ Sync(p) \/ SyncFails(p) \/ Reply(p)
      PROVE  Goal
  <2>1. /\ file' = file /\ prices' = prices
        /\ \A q \in Posts : q # p => pc'[q] = pc[q]
        /\ ~Boot
    BY <1>9 DEF Request, Lock, Sync, SyncFails, Reply, Go, TypeOK, disk, Boot, Down, InFlight
  <2>2. sym[p] = s => (pc'[p] \in {"sync", "apply"} <=> pc[p] \in {"sync", "apply"})
    <3>1. sym[p] = s => pc'[p] # "failed"
      BY <1>2
    <3>2. walOn
      BY <1>5, <2>1
    <3> QED
      BY <1>9, <3>1, <3>2 DEF Request, Lock, Sync, SyncFails, Reply, Go, TypeOK
  <2> QED
    BY <1>5, <2>1, <2>2
<1>10. ASSUME NEW p \in Posts, Apply(p) PROVE Goal
  <2>1. /\ file' = file /\ prices' = [prices EXCEPT ![sym[p]] = p]
        /\ pc[p] = "apply" /\ pc'[p] = "reply"
        /\ \A q \in Posts : q # p => pc'[q] = pc[q]
        /\ ~Boot
    BY <1>10 DEF Apply, Go, TypeOK, disk, Boot, Down, InFlight
  <2>2. CASE sym[p] = s
    <3>1. Replay(file)[s] = p /\ prices'[s] = p
      BY <1>5, <2>1, <2>2 DEF TypeOK
    <3>2. \A q \in Posts : ~(sym[q] = s /\ pc'[q] \in {"sync", "apply"})
      BY <1>6, <2>1, <2>2 DEF InFlight
    <3> QED
      BY <2>1, <3>1, <3>2
  <2>3. CASE sym[p] # s
    <3>1. prices'[s] = prices[s]
      BY <2>1, <2>3 DEF TypeOK
    <3> QED
      BY <1>5, <2>1, <2>3, <3>1
  <2> QED
    BY <2>2, <2>3
<1>11. ASSUME UNCHANGED vars PROVE Goal
  <2>1. file' = file /\ prices' = prices /\ pc' = pc /\ up' = up
    BY <1>11 DEF vars, disk
  <2>2. ~Boot
    BY <2>1 DEF Boot
  <2> QED
    BY <1>5, <2>1, <2>2
<1>12. ~Kill /\ ~PowerLoss
  BY DEF Kill, PowerLoss, Die
<1> QED
  BY <1>4, <1>7, <1>8, <1>9, <1>10, <1>11, <1>12 DEF Next, Handler, Quiet

(* Once its posts have ended, GET answers for a symbol what a restart      *)
(* would bring back, unless two of them overlapped, one failed, or a line  *)
(* is glued (handlePricePost, initPriceWAL).                               *)
THEOREM MemoryIsAlwaysReplayed == Spec => []MemoryIsReplayed
<1> DEFINE MInv == IInv /\ Sole /\ Current
<1>1. Init => MInv
  <2> SUFFICES ASSUME Init PROVE MInv
    OBVIOUS
  <2>1. Sole
    BY DEF Init, Sole, InFlight
  <2>2. ASSUME NEW s \in Symbols PROVE Agrees(s)
    <3>1. Replay(file)[s] \notin Posts
      BY ReplayedIsWritten, WALAssumption DEF Init, Unwritten, WALAssumption
    <3>2. Replay(file)[s] = Base /\ prices[s] = Base
      BY <3>1, ReplayIsAPost DEF Init
    <3>3. \A p \in Posts : ~Logging(p, s)
      BY DEF Init, Logging
    <3> QED
      BY <3>2, <3>3 DEF Agrees
  <2> QED
    BY <2>1, <2>2, InitIInv DEF Current
<1>2. MInv /\ [Next]_vars => MInv'
  BY Inductive, SoleNext, CurrentNext DEF IInv
<1>3. MInv => MemoryIsReplayed
  <2> SUFFICES ASSUME MInv, up, walOn, replayed,
                      NEW s \in Symbols,
                      s \notin overlapped \cup {sym[p] : p \in {q \in Posts : Glued(q)}},
                      Settled(s)
               PROVE  prices[s] = Replay(file)[s]
    BY DEF MemoryIsReplayed
  <2>1. Clean(s)
    BY DEF Clean, Settled
  <2>2. \A p \in Posts : ~Logging(p, s)
    BY DEF Settled, Logging, InFlight
  <2> QED
    BY <2>1, <2>2 DEF Current, Agrees
<1> QED
  BY <1>1, <1>2, <1>3, PTL DEF Spec
=============================================================================
