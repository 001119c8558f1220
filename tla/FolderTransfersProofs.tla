----------------------- MODULE FolderTransfersProofs -----------------------
(***************************************************************************)
(* Folder transfers, for any tree, sizes, versions and servers, and any    *)
(* number of pauses, lost connections and changes.                         *)
(*                                                                         *)
(* Download: a file's ledger entry is true because between connections     *)
(* nothing touches what it speaks of but an edit the entry knows, and      *)
(* within one the file in hand is the only one whose entry lags (HandOK).  *)
(* A clean close is the end because what was received then sums to what    *)
(* was announced, and no entry sums to more than its bytes.                *)
(*                                                                         *)
(* Upload: what lies behind the worker in the tree the server has, but for *)
(* the last item while that is on its way (BehindOK); so a server that     *)
(* closes at an item has what the item lies in, and closes because it has  *)
(* the item.  Blocks are of one version since a file is joined only to its *)
(* own (BlocksOK).                                                         *)
(***************************************************************************)
EXTENDS FolderDownload, FolderUpload, SequenceTheorems, WellFoundedInduction, TLAPS

-----------------------------------------------------------------------------
(* The download.                                                            *)

Filps == [len : Nat, modified : Nat]
Blocks == Seq(Nat \X Nat)
Locals == [there : BOOLEAN, blocks : Blocks]
Kepts == [len : Nat, whole : BOOLEAN, filp : Filps]
Points == {"idle", "connect", "next", "entry", "filp", "fork", "drain", "ret"}
Workers == [at : Points, file : Files \cup {Folder}, from : Nat, was : Filps,
            rv : {"ok", "eio", "local", "unreachable"}, broke : BOOLEAN, stalled : BOOLEAN]

\* What each variable holds.
DownTypes ==
    /\ ver \in [Files -> Nat] /\ \A f \in Files : ver[f] \in 1..Len(Size[f])
    /\ served \in 0..Len(Tree)
    /\ server \in [style : Styles, announces : Announces]
    /\ disk \in [Files -> Locals] /\ ledger \in [Files -> Kepts]
    /\ asLeft \subseteq {f \in Files : disk[f].there}
    /\ worker \in Workers
    /\ DOMAIN seen = {"received", "forks", "items", "size"} /\ seen.forks \in Nat
    /\ wait \in {"stall", "short"}
    /\ cut \in BOOLEAN /\ refused \subseteq Files /\ unopened \subseteq Files

\* The row, the token and the connection.
RowOK ==
    /\ row \in {"ready", "running", "winding", "paused", "failed", "done"}
    /\ aborted \in BOOLEAN /\ (aborted => row = "winding")
    /\ sock \in {"none", "open", "fin", "lost", "shut"}
    /\ (worker.at = "idle") = (row \notin {"running", "winding"})
    /\ seen.received = served
    /\ worker.at \in {"idle", "connect"} => served = 0

\* A FILP of the file f, by one of the versions up to v.
OfVersion(f, v, filp) ==
    filp.modified \in 1..v /\ filp.len = Size[f][filp.modified]

\* The blocks b are the first of version m.
Start(b, m) == \A i \in 1..Len(b) : b[i] = <<m, i>>

\* A record l of the file f, which is on disk as d, is good.
KeptOK(f, v, l, d, left, opened) ==
    /\ l.filp # NoFilp => OfVersion(f, v, l.filp)
    /\ l.filp # NoFilp /\ ~l.whole => l.filp.len # 0
    /\ l.whole => l.filp # NoFilp /\ (l.len = l.filp.len \/ l.filp.len = 0)
    /\ left => l.len = Len(d.blocks)
    /\ left /\ l.filp # NoFilp /\ opened /\ l.filp.len # 0 =>
          l.len <= l.filp.len /\ Start(d.blocks, l.filp.modified)
LedgerOK ==
    \A f \in Files : KeptOK(f, ver[f], ledger[f], disk[f], f \in asLeft, f \notin unopened)

\* An empty file nobody else writes is not on disk.
EmptyOK ==
    \A f \in Files \ Touched : ver[f] = 1 /\ Size[f][1] = 0 => ~disk[f].there

Holding == {"filp", "fork", "drain"}

\* The worker has a file described to it, and writes it on disk as d.
WritesOK(w, v, d, opened) ==
    /\ w.was # NoFilp /\ OfVersion(w.file, v, w.was)
    /\ w.at = "fork" => d.there /\ Len(d.blocks) < w.was.len
    /\ w.at = "drain" => /\ d.there \/ w.was.len = 0
                         /\ w.was.len # 0 => Len(d.blocks) = w.was.len
    /\ opened /\ w.was.len # 0 => Start(d.blocks, w.was.modified)

\* The file in hand.
HandOK ==
    worker.at \in Holding =>
        LET f == worker.file IN
        /\ f \in Files /\ served > 0 /\ Tree[served] = f
        /\ worker.at # "drain" => seen.forks >= worker.from
        /\ worker.at = "filp" =>
              IF worker.was = NoFilp THEN worker.from = 0
              ELSE /\ f \in asLeft /\ ledger[f].filp = worker.was
                   /\ ledger[f].len = worker.from /\ ~ledger[f].whole
        /\ worker.at # "filp" =>
              /\ f \notin asLeft /\ f \notin refused
              /\ WritesOK(worker, ver[f], disk[f], f \notin unopened)

\* A file refused is described no more.
RefusedOK == \A f \in refused : ledger[f].filp = NoFilp

\* A file that has arrived; nothing is kept of an empty one that was not opened.
Arrived(f, l) == l.whole \/ (l = NotKept /\ \E v \in DOMAIN Size[f] : Size[f][v] = 0)

\* Of the entries served all files but the one in hand have arrived.
EndOK ==
    /\ worker.at \notin {"idle", "ret"} =>
          \A i \in 1..served : Tree[i] # Folder =>
              \/ Arrived(Tree[i], ledger[Tree[i]])
              \/ worker.at \in Holding /\ Tree[i] = worker.file
    /\ (worker.at = "ret" /\ worker.rv = "ok") \/ row = "done" =>
          cut \/ \A f \in Files : Arrived(f, ledger[f])

First == [f \in Files |-> 1]

\* What was announced to this worker.
SaidOK ==
    worker.at # "idle" =>
        /\ server.announces = "count" => seen.items = Len(Tree)
        /\ server.announces = "size" => seen.items = 0
        /\ server.announces = "size" /\ ver = First => seen.size = Bytes(First)[Len(Tree)]
        /\ worker.at = "entry" /\ wait = "short" => Graced(seen)

\* An entry counts for its file's bytes at most, what was held and what was sent.
CountOK ==
    /\ ver = First
    /\ \A f \in Touched : Size[f][1] # 0
    /\ worker.at \notin {"idle", "ret"}
    => IF worker.at \in {"filp", "fork"}
       THEN seen.forks - worker.from <= Bytes(First)[served - 1]
       ELSE seen.forks <= Bytes(First)[served]

DownInv ==
    /\ DownTypes /\ RowOK /\ LedgerOK /\ EmptyOK /\ HandOK /\ RefusedOK
    /\ EndOK /\ SaidOK /\ CountOK

-----------------------------------------------------------------------------
(* Sums over the tree.                                                      *)

\* Induction over the numbers, of a set.
LEMMA NatInductionSet ==
    ASSUME NEW S, 0 \in S, \A n \in Nat : n \in S => n + 1 \in S
    PROVE  \A n \in Nat : n \in S
<1> DEFINE T == Nat \ S
<1> SUFFICES ASSUME T # {} PROVE FALSE
  OBVIOUS
<1> DEFINE less == OpToRel(<, Nat)
<1>1. IsWellFoundedOn(less, Nat)
  BY NatLessThanWellFounded
<1>2. \A x, y \in Nat : <<x, y>> \in less <=> x < y
  BY Zenon DEF OpToRel
<1>3. T \subseteq Nat
  OBVIOUS
<1> HIDE DEF less, T
<1>4. PICK t \in T : \A k \in T : ~(<<k, t>> \in less)
  BY <1>1, <1>3, WFMin
<1>5. t \in Nat /\ t \notin S /\ t # 0
  BY <1>4 DEF T
<1>6. t - 1 \in Nat /\ t - 1 < t /\ (t - 1) + 1 = t
  BY <1>5
<1>7. t - 1 \in S
  BY <1>2, <1>4, <1>5, <1>6, Zenon DEF T
<1>8. (t - 1) + 1 \in S
  BY <1>6, <1>7
<1> QED BY <1>5, <1>6, <1>8

\* The sum g of the first numbers of w, up to n.
IsSum(g, w, n) == g[0] = 0 /\ \A i \in 1..n : g[i] = g[i - 1] + w[i]

\* There is one.
LEMMA SumExists ==
    ASSUME NEW N \in Nat, NEW w \in [1..N -> Nat]
    PROVE  \E g \in [0..N -> Nat] : IsSum(g, w, N)
<1> DEFINE S == {n \in Nat : n <= N => \E g \in [0..n -> Nat] : IsSum(g, w, n)}
<1>1. 0 \in S
  <2> DEFINE g == [i \in 0..0 |-> 0]
  <2>1. g \in [0..0 -> Nat] /\ IsSum(g, w, 0)
    BY DEF IsSum
  <2> QED BY <2>1
<1>2. ASSUME NEW n \in Nat, n \in S PROVE n + 1 \in S
  <2> SUFFICES ASSUME n + 1 <= N PROVE \E g \in [0..n + 1 -> Nat] : IsSum(g, w, n + 1)
    OBVIOUS
  <2>1. PICK g \in [0..n -> Nat] : IsSum(g, w, n)
    BY <1>2
  <2> DEFINE h == [i \in 0..n + 1 |-> IF i = n + 1 THEN g[n] + w[n + 1] ELSE g[i]]
  <2>2. h \in [0..n + 1 -> Nat]
    <3>1. n \in 0..n /\ n + 1 \in 1..N
      OBVIOUS
    <3>2. g[n] \in Nat /\ w[n + 1] \in Nat
      BY <3>1
    <3>3. g[n] + w[n + 1] \in Nat
      BY <3>2
    <3>4. \A i \in 0..n + 1 : i # n + 1 => i \in 0..n
      OBVIOUS
    <3> QED BY <3>3, <3>4
  <2>3. h[0] = 0
    BY <2>1 DEF IsSum
  <2>4. ASSUME NEW i \in 1..n + 1 PROVE h[i] = h[i - 1] + w[i]
    <3>1. i - 1 \in 0..n + 1 /\ i - 1 # n + 1
      OBVIOUS
    <3>2. h[i - 1] = g[i - 1]
      BY <3>1
    <3>3. CASE i = n + 1
      BY <3>2, <3>3
    <3>4. CASE i # n + 1
      <4>1. i \in 1..n /\ i \in 0..n + 1
        BY <3>4
      <4> QED BY <2>1, <3>2, <3>4, <4>1 DEF IsSum
    <3> QED BY <3>3, <3>4
  <2> HIDE DEF h
  <2> QED BY <2>2, <2>3, <2>4 DEF IsSum
<1> HIDE DEF S
<1>3. N \in S
  BY <1>1, <1>2, NatInductionSet
<1> QED BY <1>3 DEF S

\* It grows.
LEMMA SumGrows ==
    ASSUME NEW N \in Nat, NEW w \in [1..N -> Nat], NEW g \in [0..N -> Nat], IsSum(g, w, N),
           NEW a \in 0..N
    PROVE  \A b \in 0..N : a <= b => g[a] <= g[b]
<1> DEFINE S == {d \in Nat : a + d <= N => g[a] <= g[a + d]}
<1>1. 0 \in S
  OBVIOUS
<1>2. ASSUME NEW d \in Nat, d \in S PROVE d + 1 \in S
  <2> SUFFICES ASSUME a + (d + 1) <= N PROVE g[a] <= g[a + (d + 1)]
    OBVIOUS
  <2> DEFINE i == a + (d + 1)
  <2>1. i \in 1..N /\ i - 1 = a + d /\ a + d \in 0..N
    OBVIOUS
  <2>2. g[a] <= g[i - 1]
    BY <1>2, <2>1
  <2>3. g[i] = g[i - 1] + w[i]
    BY <2>1 DEF IsSum
  <2>4. g[a] \in Nat /\ g[i - 1] \in Nat /\ w[i] \in Nat
    BY <2>1
  <2> HIDE DEF i
  <2>5. g[a] <= g[i]
    BY <2>2, <2>3, <2>4
  <2> QED BY <2>5 DEF i
<1> HIDE DEF S
<1>3. \A d \in Nat : d \in S
  BY <1>1, <1>2, NatInductionSet
<1> SUFFICES ASSUME NEW b \in 0..N, a <= b PROVE g[a] <= g[b]
  OBVIOUS
<1>4. b - a \in Nat /\ a + (b - a) = b
  OBVIOUS
<1> QED BY <1>3, <1>4, SMTT(40) DEF S

\* The tree's entries are files or folders, and a file has its sizes.
LEMMA TreeFacts ==
    /\ Len(Tree) \in Nat /\ Len(Tree) > 0
    /\ \A i \in 1..Len(Tree) : Tree[i] \in Files \cup {Folder}
    /\ \A f \in Files : Len(Size[f]) \in Nat /\ Len(Size[f]) > 0
    /\ \A f \in Files : \A m \in 1..Len(Size[f]) : Size[f][m] \in Nat
<1>1. Tree \in Seq(Files \cup {Folder}) /\ Tree # << >>
  BY TreeAssumption
<1>2. Len(Tree) \in Nat /\ Len(Tree) > 0 /\ \A i \in 1..Len(Tree) : Tree[i] \in Files \cup {Folder}
  BY <1>1
<1>3. ASSUME NEW f \in Files
      PROVE  /\ Len(Size[f]) \in Nat /\ Len(Size[f]) > 0
             /\ \A m \in 1..Len(Size[f]) : Size[f][m] \in Nat
  <2>1. Size[f] \in Seq(Nat) /\ Size[f] # << >>
    BY TreeAssumption
  <2> QED BY <2>1
<1> QED BY <1>2, <1>3

\* The bytes of the first entries add up as they should.
LEMMA TreeSum ==
    /\ Bytes(First) \in [0..Len(Tree) -> Nat] /\ Bytes(First)[0] = 0
    /\ \A i \in 1..Len(Tree) : /\ ForkBytes(First, i) \in Nat
                               /\ Bytes(First)[i] = Bytes(First)[i - 1] + ForkBytes(First, i)
    /\ \A a, b \in 0..Len(Tree) : a <= b => Bytes(First)[a] <= Bytes(First)[b]
<1> DEFINE N == Len(Tree)
           w == [i \in 1..N |-> ForkBytes(First, i)]
           F(g) == [i \in 0..N |-> IF i = 0 THEN 0 ELSE g[i - 1] + ForkBytes(First, i)]
<1>0. N \in Nat
  BY TreeFacts
<1>1. \A i \in 1..N : ForkBytes(First, i) \in Nat
  <2> SUFFICES ASSUME NEW i \in 1..N, Tree[i] # Folder PROVE ForkBytes(First, i) \in Nat
    BY DEF ForkBytes
  <2>1. Tree[i] \in Files
    BY TreeFacts
  <2>2. First[Tree[i]] = 1 /\ 1 \in 1..Len(Size[Tree[i]])
    BY <2>1, TreeFacts DEF First
  <2>3. Size[Tree[i]][1] \in Nat
    BY <2>1, <2>2, TreeFacts
  <2> QED BY <2>2, <2>3 DEF ForkBytes
<1>2. w \in [1..N -> Nat]
  BY <1>1
<1> HIDE DEF N
<1>3. PICK g \in [0..N -> Nat] : IsSum(g, w, N)
  <2> HIDE DEF w
  <2> QED BY <1>0, <1>2, SumExists
<1>4. g = F(g)
  <2>1. \A i \in 0..N : i # 0 => i \in 1..N
    BY <1>0
  <2>2. \A i \in 0..N : g[i] = F(g)[i]
    BY <1>3, <2>1 DEF IsSum
  <2> QED BY <2>2
<1>5. Bytes(First) = CHOOSE h : h = F(h)
  BY DEF Bytes, N
<1>6. Bytes(First) = F(Bytes(First))
  BY <1>4, <1>5
<1> DEFINE b == Bytes(First)
<1>7. \A i \in 1..N : i \in 0..N /\ i # 0 /\ i - 1 \in 0..N
  BY <1>0
<1>8. b[0] = 0 /\ \A i \in 1..N : b[i] = b[i - 1] + ForkBytes(First, i)
  <2> HIDE DEF b
  <2>1. b = F(b)
    BY <1>6 DEF b
  <2>2. 0 \in 0..N
    BY <1>0
  <2>3. \A i \in 0..N : b[i] = IF i = 0 THEN 0 ELSE b[i - 1] + ForkBytes(First, i)
    BY <2>1
  <2> QED BY <1>7, <2>2, <2>3
<1> HIDE DEF b
<1>9. \A i \in 0..N : b[i] = g[i]
  <2> DEFINE S == {n \in Nat : n <= N => b[n] = g[n]}
  <2>1. 0 \in S
    BY <1>3, <1>8 DEF IsSum
  <2>2. ASSUME NEW n \in Nat, n \in S PROVE n + 1 \in S
    <3> SUFFICES ASSUME n + 1 <= N PROVE b[n + 1] = g[n + 1]
      OBVIOUS
    <3>1. n + 1 \in 1..N /\ (n + 1) - 1 = n /\ b[n] = g[n]
      BY <1>0, <2>2
    <3>2. b[n + 1] = b[n] + ForkBytes(First, n + 1)
      BY <1>8, <3>1
    <3>3. g[n + 1] = g[n] + ForkBytes(First, n + 1)
      BY <1>3, <3>1 DEF IsSum
    <3> QED BY <3>1, <3>2, <3>3
  <2> HIDE DEF S
  <2>3. \A n \in Nat : n \in S
    BY <2>1, <2>2, NatInductionSet
  <2> QED BY <1>0, <2>3 DEF S
<1>10. b = g
  <2>1. b = [i \in 0..N |-> b[i]]
    <3>1. b = F(b)
      BY <1>6 DEF b
    <3> QED BY <3>1
  <2> QED BY <1>9, <2>1
<1>11. \A x, y \in 0..N : x <= y => g[x] <= g[y]
  <2> HIDE DEF w
  <2> QED BY <1>0, <1>2, <1>3, SumGrows
<1> QED BY <1>1, <1>3, <1>8, <1>10, <1>11 DEF b, N

-----------------------------------------------------------------------------
(* What the steps have in common.                                           *)

\* A worker that returns.
LEMMA ReturnType ==
    ASSUME worker \in Workers, NEW rv \in {"ok", "eio", "local", "unreachable"}, Return(rv)
    PROVE  worker' \in Workers /\ worker'.at = "ret" /\ worker'.rv = rv
  BY DEF Workers, Points, Return, Idle, NoFilp, Filps

\* A worker that returns because a read or a write failed.
LEMMA BrokenType ==
    ASSUME worker \in Workers, NEW s \in BOOLEAN, ReturnBroken(s)
    PROVE  worker' \in Workers /\ worker'.at = "ret" /\ worker'.rv = "eio"
<1>1. (worker.stalled \/ s) \in BOOLEAN
  OBVIOUS
<1> QED BY <1>1 DEF Workers, Points, ReturnBroken, Idle, NoFilp, Filps

\* A worker that returns leaves the counts behind: what has to hold is the ledger,
\* and that a good end was the end.
LEMMA Returned ==
    ASSUME DownInv, worker.at \notin {"idle", "ret"},
           UNCHANGED <<serverVars, disk, row, aborted, sock, wait, seen>>,
           worker' \in Workers, worker'.at = "ret",
           ledger' \in [Files -> Kepts], asLeft' \subseteq {f \in Files : disk[f].there},
           refused' \subseteq Files, unopened' \subseteq Files, cut' \in BOOLEAN,
           LedgerOK', RefusedOK',
           worker'.rv = "ok" => cut' \/ \A f \in Files : Arrived(f, ledger'[f])
    PROVE  DownInv'
<1>1. DownTypes'
  BY DEF DownInv, DownTypes, serverVars
<1>2. row \in {"running", "winding"} /\ row' = row
  BY DEF DownInv, RowOK
<1>3. RowOK'
  BY <1>2 DEF DownInv, RowOK, serverVars
<1>4. EmptyOK'
  BY DEF DownInv, EmptyOK, serverVars
<1>5. HandOK'
  BY DEF HandOK, Holding
<1>6. EndOK'
  BY <1>2 DEF EndOK
<1>7. SaidOK'
  <2>1. ver' = ver /\ server' = server /\ seen' = seen
    BY DEF serverVars
  <2> QED BY <2>1 DEF DownInv, SaidOK
<1>8. CountOK'
  BY DEF CountOK
<1> QED BY <1>1, <1>3, <1>4, <1>5, <1>6, <1>7, <1>8 DEF DownInv

\* What is noted of f is good when the record is good; the others' records stay.
LEMMA NoteOK ==
    ASSUME DownInv, NEW f \in Files, NEW whole \in BOOLEAN, NEW filp \in Filps,
           Note(f, disk, whole, filp), ver' = ver,
           \A g \in Files : g # f /\ g \in unopened => g \in unopened',
           disk[f].there =>
               KeptOK(f, ver[f], [len |-> Len(disk[f].blocks), whole |-> whole, filp |-> filp],
                      disk[f], TRUE, f \notin unopened')
    PROVE  /\ disk' = disk /\ ledger' \in [Files -> Kepts]
           /\ asLeft' \subseteq {g \in Files : disk[g].there}
           /\ LedgerOK'
           /\ \A g \in Files : g # f => ledger'[g] = ledger[g]
           /\ ledger'[f].filp \in {filp, NoFilp}
           /\ disk[f].there => ledger'[f].whole = whole
           /\ ~disk[f].there => ledger'[f] = NotKept
<1> DEFINE l == [len |-> Len(disk[f].blocks), whole |-> whole, filp |-> filp]
           k == IF disk[f].there THEN l ELSE NotKept
<1>1. disk' = disk /\ ledger' = [ledger EXCEPT ![f] = k]
      /\ asLeft' = (IF disk[f].there THEN asLeft \cup {f} ELSE asLeft \ {f})
  BY DEF Note
<1>2. /\ ledger \in [Files -> Kepts] /\ disk \in [Files -> Locals]
      /\ asLeft \subseteq {g \in Files : disk[g].there}
  BY DEF DownInv, DownTypes
<1>3. disk[f].there \in BOOLEAN /\ Len(disk[f].blocks) \in Nat
  BY <1>2 DEF Locals, Blocks
<1>4. l \in Kepts /\ NotKept \in Kepts
  BY <1>3 DEF Kepts, NotKept, NoFilp, Filps
<1>5. /\ l.filp = filp /\ l.whole = whole
      /\ NotKept.filp = NoFilp /\ NotKept.whole = FALSE
  BY DEF NotKept
<1> HIDE DEF l
<1>6. k \in Kepts /\ k.filp \in {filp, NoFilp} /\ (disk[f].there => k.whole = whole)
      /\ (~disk[f].there => k = NotKept)
  BY <1>4, <1>5
<1>7. disk[f].there => KeptOK(f, ver[f], k, disk[f], TRUE, f \notin unopened')
  BY DEF l
<1>8. ~disk[f].there => KeptOK(f, ver[f], k, disk[f], FALSE, f \notin unopened')
  BY <1>5 DEF KeptOK
<1> HIDE DEF k
<1>9. ledger' \in [Files -> Kepts] /\ ledger'[f] = k /\ \A g \in Files : g # f => ledger'[g] = ledger[g]
  BY <1>1, <1>2, <1>6
<1>10. /\ asLeft' \subseteq {g \in Files : disk[g].there}
       /\ \A g \in Files : g # f => (g \in asLeft' <=> g \in asLeft)
       /\ (f \in asLeft' <=> disk[f].there)
  BY <1>1, <1>2, <1>3
<1>11. LedgerOK'
  <2> SUFFICES ASSUME NEW g \in Files
               PROVE  KeptOK(g, ver[g], ledger'[g], disk[g], g \in asLeft', g \notin unopened')
    BY <1>1 DEF LedgerOK
  <2>1. CASE g = f
    <3>1. CASE disk[f].there
      <4>1. f \in asLeft'
        BY <1>10, <3>1
      <4> QED BY <1>7, <1>9, <2>1, <3>1, <4>1 DEF KeptOK
    <3>2. CASE ~disk[f].there
      <4>1. f \notin asLeft'
        BY <1>10, <3>2
      <4> QED BY <1>8, <1>9, <2>1, <3>2, <4>1 DEF KeptOK
    <3> QED BY <3>1, <3>2
  <2>2. CASE g # f
    <3>1. KeptOK(g, ver[g], ledger[g], disk[g], g \in asLeft, g \notin unopened)
      BY DEF DownInv, LedgerOK
    <3>2. ledger'[g] = ledger[g] /\ (g \in asLeft' => g \in asLeft)
          /\ (g \notin unopened' => g \notin unopened)
      BY <1>9, <1>10, <2>2
    <3> QED BY <3>1, <3>2 DEF KeptOK
  <2> QED BY <2>1, <2>2
<1> QED BY <1>1, <1>6, <1>9, <1>10, <1>11

\* What has come of a file is noted truly when its end does not come.
LEMMA HeldKept ==
    ASSUME DownInv, worker.at \in {"filp", "fork"}
    PROVE  LET f == worker.file
           IN  /\ f \in Files /\ worker.was \in Filps
               /\ f \in refused => worker.was = NoFilp
               /\ KeptOK(f, ver[f], [len |-> Len(disk[f].blocks), whole |-> FALSE,
                                     filp |-> worker.was], disk[f], TRUE, f \notin unopened)
<1> DEFINE f == worker.file
           n == Len(disk[f].blocks)
           l == [len |-> n, whole |-> FALSE, filp |-> worker.was]
<1>1. f \in Files /\ worker.was \in Filps
  BY DEF DownInv, DownTypes, HandOK, Holding, Workers
<1>2. f \in refused => worker.was = NoFilp
  BY <1>1 DEF DownInv, HandOK, RefusedOK, Holding
<1>3. l.len = n /\ l.whole = FALSE /\ l.filp = worker.was
  OBVIOUS
<1>4. disk[f] \in Locals /\ n \in Nat
  BY <1>1 DEF DownInv, DownTypes, Locals, Blocks
<1> HIDE DEF l, n
<1>5. KeptOK(f, ver[f], l, disk[f], TRUE, f \notin unopened)
  <2>1. CASE worker.was = NoFilp
    BY <1>3, <2>1 DEF KeptOK, n
  <2>2. CASE worker.at = "filp" /\ worker.was # NoFilp
    <3>1. f \in asLeft /\ ledger[f].filp = worker.was /\ ~ledger[f].whole
      BY <2>2 DEF DownInv, HandOK, Holding
    <3>2. KeptOK(f, ver[f], ledger[f], disk[f], f \in asLeft, f \notin unopened)
      BY <1>1 DEF DownInv, LedgerOK
    <3>3. ledger[f].len = n
      BY <3>1, <3>2 DEF KeptOK, n
    <3> QED BY <1>3, <3>1, <3>2, <3>3 DEF KeptOK, n
  <2>3. CASE worker.at = "fork"
    <3>1. WritesOK(worker, ver[f], disk[f], f \notin unopened)
      BY <2>3 DEF DownInv, HandOK, Holding
    <3>2. n < worker.was.len /\ worker.was.len \in Nat
      BY <1>1, <2>3, <3>1 DEF WritesOK, n, Filps
    <3>3. worker.was.len # 0 /\ n <= worker.was.len
      BY <1>4, <3>2
    <3> QED BY <1>3, <3>1, <3>3 DEF WritesOK, KeptOK, n
  <2> QED BY <2>1, <2>2, <2>3
<1> QED BY <1>1, <1>2, <1>5 DEF l, n

-----------------------------------------------------------------------------
(* The worker returns.                                                      *)

\* A file left where it is.
LEMMA GivesUp ==
    ASSUME DownInv, worker.at \in {"filp", "fork"}, Note(worker.file, disk, FALSE, worker.was),
           worker' \in Workers, worker'.at = "ret", worker'.rv # "ok",
           UNCHANGED <<serverVars, row, aborted, sock, wait, seen, cut, refused, unopened>>
    PROVE  DownInv'
<1> DEFINE f == worker.file
<1>1. /\ f \in Files /\ worker.was \in Filps /\ (f \in refused => worker.was = NoFilp)
      /\ KeptOK(f, ver[f], [len |-> Len(disk[f].blocks), whole |-> FALSE,
                            filp |-> worker.was], disk[f], TRUE, f \notin unopened)
  BY HeldKept
<1>2. ver' = ver /\ unopened' = unopened /\ FALSE \in BOOLEAN
  BY DEF serverVars
<1> HIDE DEF f
<1>3. Note(f, disk, FALSE, worker.was)
  BY DEF f
<1>4. /\ disk' = disk /\ ledger' \in [Files -> Kepts]
      /\ asLeft' \subseteq {g \in Files : disk[g].there} /\ LedgerOK'
      /\ \A g \in Files : g # f => ledger'[g] = ledger[g]
      /\ ledger'[f].filp \in {worker.was, NoFilp}
  BY <1>1, <1>2, <1>3, NoteOK
<1>5. RefusedOK'
  <2> SUFFICES ASSUME NEW g \in refused PROVE ledger'[g].filp = NoFilp
    BY DEF RefusedOK
  <2>1. g \in Files /\ ledger[g].filp = NoFilp
    BY DEF DownInv, DownTypes, RefusedOK
  <2> QED BY <1>1, <1>4, <2>1
<1>6. refused' \subseteq Files /\ unopened' \subseteq Files /\ cut' \in BOOLEAN
  BY DEF DownInv, DownTypes
<1> QED BY <1>4, <1>5, <1>6, Returned DEF serverVars

\* The ledger stays.
LEMMA ReturnsSo ==
    ASSUME DownInv, worker.at \notin {"idle", "ret"},
           UNCHANGED <<serverVars, diskVars, row, aborted, sock, wait, seen, refused, unopened>>,
           worker' \in Workers, worker'.at = "ret", cut' \in BOOLEAN,
           worker'.rv = "ok" => cut' \/ \A f \in Files : Arrived(f, ledger[f])
    PROVE  DownInv'
<1>1. /\ disk' = disk /\ ledger' = ledger /\ asLeft' = asLeft /\ refused' = refused
      /\ unopened' = unopened /\ ver' = ver
  BY DEF diskVars, serverVars
<1>2. LedgerOK' /\ RefusedOK'
  BY <1>1 DEF DownInv, LedgerOK, RefusedOK
<1>3. /\ ledger' \in [Files -> Kepts] /\ asLeft' \subseteq {f \in Files : disk[f].there}
      /\ refused' \subseteq Files /\ unopened' \subseteq Files
  BY <1>1 DEF DownInv, DownTypes
<1>4. worker'.rv = "ok" => cut' \/ \A f \in Files : Arrived(f, ledger'[f])
  BY <1>1
<1> QED BY <1>1, <1>2, <1>3, <1>4, Returned

\* Between two entries, with all of them served, every file has arrived.
LEMMA AllArrived ==
    ASSUME DownInv, worker.at = "entry", ~(served < Len(Tree))
    PROVE  \A f \in Files : Arrived(f, ledger[f])
<1> SUFFICES ASSUME NEW f \in Files PROVE Arrived(f, ledger[f])
  OBVIOUS
<1>1. served = Len(Tree)
  BY TreeFacts DEF DownInv, DownTypes
<1>2. PICK i \in 1..Len(Tree) : Tree[i] = f
  BY TreeAssumption
<1>3. f # Folder
  BY TreeAssumption
<1>4. i \in 1..served
  BY <1>1, <1>2
<1> QED BY <1>2, <1>3, <1>4 DEF DownInv, EndOK, Holding

\* The connection is not made.
LEMMA ConnectFailsStep == ASSUME DownInv, ConnectFails PROVE DownInv'
<1>1. worker \in Workers /\ cut \in BOOLEAN
  BY DEF DownInv, DownTypes
<1>2. worker' \in Workers /\ worker'.at = "ret" /\ worker'.rv = "unreachable"
  BY <1>1, ReturnType DEF ConnectFails
<1> QED BY <1>1, <1>2, ReturnsSo DEF ConnectFails

\* The request for an entry is not sent.
LEMMA FileNextFailsStep == ASSUME DownInv, FileNextFails PROVE DownInv'
<1>1. worker \in Workers /\ cut \in BOOLEAN
  BY DEF DownInv, DownTypes
<1>2. worker' \in Workers /\ worker'.at = "ret" /\ worker'.rv = "eio"
  BY <1>1, BrokenType DEF FileNextFails
<1> QED BY <1>1, <1>2, ReturnsSo DEF FileNextFails

\* The connection ends where an entry could come.
LEMMA EntryEndsStep == ASSUME DownInv, EntryEnds PROVE DownInv'
<1>1. worker \in Workers /\ worker.at = "entry"
  BY DEF DownInv, DownTypes, EntryEnds
<1>2. cut' = (sock = "fin" /\ served < Len(Tree)) /\ cut' \in BOOLEAN
  BY DEF EntryEnds
<1>3. CASE CleanEnd
  <2>1. worker' \in Workers /\ worker'.at = "ret"
    BY <1>1, <1>3, ReturnType DEF EntryEnds
  <2>2. cut' \/ \A f \in Files : Arrived(f, ledger[f])
    BY <1>1, <1>2, <1>3, AllArrived DEF CleanEnd
  <2> QED BY <1>1, <1>2, <2>1, <2>2, ReturnsSo DEF EntryEnds
<1>4. CASE ~CleanEnd
  <2>1. worker' \in Workers /\ worker'.at = "ret" /\ worker'.rv = "eio"
    BY <1>1, <1>4, BrokenType DEF EntryEnds
  <2> QED BY <1>1, <1>2, <2>1, ReturnsSo DEF EntryEnds
<1> QED BY <1>3, <1>4

\* Nothing came within the grace.
LEMMA SilentStep == ASSUME DownInv, Silent PROVE DownInv'
<1>1. worker \in Workers /\ worker.at = "entry"
  BY DEF DownInv, DownTypes, Silent
<1>2. cut' = (served < Len(Tree)) /\ cut' \in BOOLEAN
  BY DEF Silent
<1>3. worker' \in Workers /\ worker'.at = "ret"
  BY <1>1, ReturnType DEF Silent
<1>4. cut' \/ \A f \in Files : Arrived(f, ledger[f])
  BY <1>1, <1>2, AllArrived
<1> QED BY <1>1, <1>2, <1>3, <1>4, ReturnsSo DEF Silent

\* A folder cannot be made.
LEMMA MkdirFailsStep == ASSUME DownInv, MkdirFails PROVE DownInv'
<1>1. worker \in Workers /\ worker.at = "entry" /\ cut \in BOOLEAN
  BY DEF DownInv, DownTypes, MkdirFails
<1>2. worker' \in Workers /\ worker'.at = "ret" /\ worker'.rv = "local"
  BY <1>1, ReturnType DEF MkdirFails
<1> QED BY <1>1, <1>2, ReturnsSo DEF MkdirFails

\* The file cannot be written further.
LEMMA WriteFailsStep == ASSUME DownInv, WriteFails PROVE DownInv'
<1>1. worker \in Workers
  BY DEF DownInv, DownTypes
<1>2. worker' \in Workers /\ worker'.at = "ret" /\ worker'.rv = "local"
  BY <1>1, ReturnType DEF WriteFails
<1> QED BY <1>2, GivesUp DEF WriteFails

\* The connection ends within a file.
LEMMA FileEndsStep == ASSUME DownInv, FileEnds PROVE DownInv'
<1>1. worker \in Workers
  BY DEF DownInv, DownTypes
<1>2. worker' \in Workers /\ worker'.at = "ret" /\ worker'.rv = "eio"
  BY <1>1, BrokenType DEF FileEnds
<1> QED BY <1>2, GivesUp DEF FileEnds

\* The server stalls.
LEMMA StallStep == ASSUME DownInv, Stall PROVE DownInv'
<1>1. worker \in Workers /\ cut \in BOOLEAN /\ NoteTimeout(wait) \in BOOLEAN
  BY DEF DownInv, DownTypes, NoteTimeout
<1>2. worker' \in Workers /\ worker'.at = "ret" /\ worker'.rv = "eio"
  BY <1>1, BrokenType DEF Stall
<1>3. CASE worker.at = "entry"
  BY <1>1, <1>2, <1>3, ReturnsSo DEF Stall
<1>4. CASE worker.at # "entry"
  BY <1>2, <1>4, GivesUp DEF Stall
<1> QED BY <1>3, <1>4

\* A file that changed on the server.
LEMMA FilpRefusedStep == ASSUME DownInv, FilpRefused PROVE DownInv'
<1> DEFINE f == worker.file
<1>1. worker \in Workers /\ worker.at = "filp" /\ f \in Files /\ cut \in BOOLEAN
  BY DEF DownInv, DownTypes, FilpRefused, HandOK, Holding
<1>2. worker' \in Workers /\ worker'.at = "ret" /\ worker'.rv = "eio"
  BY <1>1, ReturnType DEF FilpRefused
<1>3. Note(f, disk, FALSE, NoFilp) /\ refused' = refused \cup {f}
  BY DEF FilpRefused, Refuse
<1>4. UNCHANGED <<serverVars, row, aborted, sock, wait, seen, cut, unopened>>
  BY DEF FilpRefused
<1>5. NoFilp \in Filps /\ ver' = ver /\ unopened' = unopened
  BY <1>4 DEF NoFilp, Filps, serverVars
<1> HIDE DEF f
<1>6. KeptOK(f, ver[f], [len |-> Len(disk[f].blocks), whole |-> FALSE, filp |-> NoFilp],
             disk[f], TRUE, f \notin unopened')
  BY DEF KeptOK
<1>7. /\ disk' = disk /\ ledger' \in [Files -> Kepts]
      /\ asLeft' \subseteq {g \in Files : disk[g].there} /\ LedgerOK'
      /\ \A g \in Files : g # f => ledger'[g] = ledger[g]
      /\ ledger'[f].filp \in {NoFilp}
  BY <1>1, <1>3, <1>5, <1>6, NoteOK
<1>8. RefusedOK'
  <2> SUFFICES ASSUME NEW g \in refused' PROVE ledger'[g].filp = NoFilp
    BY DEF RefusedOK
  <2>1. g # f => g \in refused /\ g \in Files /\ ledger[g].filp = NoFilp
    BY <1>3 DEF DownInv, DownTypes, RefusedOK
  <2> QED BY <1>7, <2>1
<1>9. refused' \subseteq Files /\ unopened' \subseteq Files /\ cut' \in BOOLEAN
  BY <1>1, <1>3, <1>4 DEF DownInv, DownTypes
<1> QED BY <1>1, <1>2, <1>4, <1>7, <1>8, <1>9, Returned

-----------------------------------------------------------------------------
(* A file taken.                                                            *)

\* A file that is not as it was left is held to less.
LEMMA KeptLoosely ==
    ASSUME NEW f, NEW v \in Nat, NEW u \in Nat, v <= u, NEW l, NEW d, NEW e, NEW left, NEW o, NEW p,
           KeptOK(f, v, l, d, left, o), l.filp.modified \in Nat
    PROVE  KeptOK(f, u, l, e, FALSE, p)
<1>1. OfVersion(f, v, l.filp) => OfVersion(f, u, l.filp)
  BY DEF OfVersion
<1> QED BY <1>1 DEF KeptOK

\* Where a fork goes that is not refused, and what is then known of the file.
LEMMA Placed ==
    ASSUME DownInv, worker.at = "filp",
           NEW len, len = ForkLen(worker.file, worker.from),
           NEW at, at = DataFrom(worker.was, worker.from, len, ver[worker.file]), at # -1,
           NEW desc, desc = Described(at, len, worker.file)
    PROVE  /\ len \in Nat /\ at \in Nat /\ desc \in Filps /\ desc # NoFilp
           /\ desc.len = at + len /\ OfVersion(worker.file, ver[worker.file], desc)
           /\ worker.was # NoFilp => desc = worker.was /\ desc.len # 0
           /\ worker.was = NoFilp => at = 0
           /\ at # 0 => at = worker.from
           /\ len = 0 => at = worker.from
<1> DEFINE f == worker.file
           m == ver[f]
           size == Size[f][m]
<1>1. /\ f \in Files /\ worker.from \in Nat /\ worker.was \in Filps
      /\ m \in 1..Len(Size[f]) /\ m \in Nat /\ ledger[f].filp \in Filps
  BY DEF DownInv, DownTypes, HandOK, Holding, Workers, Kepts
<1>2. size \in Nat /\ m > 0
  BY <1>1, TreeFacts
<1>3. worker.was = NoFilp => worker.from = 0
  BY DEF DownInv, HandOK, Holding
<1>4. worker.was # NoFilp => OfVersion(f, m, worker.was) /\ worker.was.len # 0
  <2> SUFFICES ASSUME worker.was # NoFilp
               PROVE  OfVersion(f, m, worker.was) /\ worker.was.len # 0
    OBVIOUS
  <2>1. ledger[f].filp = worker.was /\ ~ledger[f].whole
    BY DEF DownInv, HandOK, Holding
  <2>2. KeptOK(f, m, ledger[f], disk[f], f \in asLeft, f \notin unopened)
    BY <1>1 DEF DownInv, LedgerOK
  <2> QED BY <2>1, <2>2 DEF KeptOK
<1>5. worker.was # NoFilp /\ worker.was.modified = m => worker.was.len = size
  BY <1>4 DEF OfVersion
<1>6. len = (IF server.style = "whole" THEN size ELSE IF worker.from > size THEN 0 ELSE size - worker.from)
  BY DEF ForkLen
<1>7. desc = [len |-> at + len, modified |-> m]
  BY DEF Described
<1> HIDE DEF m, size, f
<1>8. len \in Nat /\ (worker.from = 0 => len = size)
  BY <1>1, <1>2, <1>6
<1>9. /\ worker.was = NoFilp => at = worker.from
      /\ worker.was # NoFilp => /\ worker.was.modified = m
                                /\ \/ worker.from + len = worker.was.len /\ at = worker.from
                                   \/ len = worker.was.len /\ at = 0
  BY DEF DataFrom, m, f
<1>10. at \in Nat /\ desc.len = at + len /\ desc.modified = m
  BY <1>1, <1>7, <1>9
<1>11. desc \in Filps /\ desc # NoFilp
  BY <1>1, <1>2, <1>7, <1>8, <1>10 DEF Filps, NoFilp
<1>12. at + len = size /\ (worker.was # NoFilp => at + len = worker.was.len)
  BY <1>1, <1>2, <1>3, <1>5, <1>8, <1>9 DEF Filps
<1>13. OfVersion(f, m, desc)
  BY <1>1, <1>2, <1>10, <1>12 DEF OfVersion, size
<1>14. worker.was # NoFilp => desc = worker.was /\ desc.len # 0
  BY <1>1, <1>4, <1>7, <1>9, <1>10, <1>12 DEF Filps
<1>15. len = 0 => at = worker.from
  BY <1>1, <1>4, <1>9
<1>16. (worker.was = NoFilp => at = 0) /\ (at # 0 => at = worker.from)
  BY <1>3, <1>9
<1> QED BY <1>8, <1>10, <1>11, <1>13, <1>14, <1>15, <1>16 DEF f, m

\* The bytes of the entry in hand, in a tree nobody changed on the server.
LEMMA InHandBytes ==
    ASSUME DownInv, worker.at \in Holding, ver = First, NEW w \in Filps,
           OfVersion(worker.file, ver[worker.file], w)
    PROVE  /\ served \in 1..Len(Tree)
           /\ Bytes(First)[served] \in Nat /\ Bytes(First)[served - 1] \in Nat
           /\ Bytes(First)[served] = Bytes(First)[served - 1] + w.len
<1> DEFINE f == worker.file
<1>1. f \in Files /\ served > 0 /\ Tree[served] = f /\ served \in 0..Len(Tree)
  BY DEF DownInv, DownTypes, HandOK, Holding
<1>2. f # Folder
  BY <1>1, TreeAssumption
<1>3. ver[f] = 1 /\ First[f] = 1
  BY <1>1 DEF First
<1>4. w.modified = 1 /\ w.len = Size[f][1]
  BY <1>3 DEF OfVersion
<1>5. ForkBytes(First, served) = w.len
  BY <1>1, <1>2, <1>3, <1>4 DEF ForkBytes
<1>6. served \in 1..Len(Tree) /\ served - 1 \in 0..Len(Tree)
  BY <1>1, TreeFacts
<1> QED BY <1>5, <1>6, TreeSum, SMTT(40)

\* The local file cannot be opened.
LEMMA OpenFailsStep == ASSUME DownInv, OpenFails PROVE DownInv'
<1> DEFINE f == worker.file
           len == ForkLen(f, worker.from)
           at == DataFrom(worker.was, worker.from, len, ver[f])
           desc == Described(at, len, f)
<1>1. worker \in Workers /\ worker.at = "filp" /\ f \in Files /\ cut \in BOOLEAN
  BY DEF DownInv, DownTypes, OpenFails, HandOK, Holding
<1>2. worker' \in Workers /\ worker'.at = "ret" /\ worker'.rv = "local"
  BY <1>1, ReturnType DEF OpenFails
<1>3. /\ at # -1 /\ len # 0 /\ Note(f, disk, FALSE, desc)
      /\ unopened' = (IF worker.was = NoFilp THEN unopened \cup {f} ELSE unopened)
      /\ refused' = refused \ {f}
  BY DEF OpenFails
<1>4. UNCHANGED <<serverVars, row, aborted, sock, wait, seen, cut>> /\ ver' = ver
  BY DEF OpenFails, serverVars
<1>5. /\ len \in Nat /\ at \in Nat /\ desc \in Filps /\ desc # NoFilp
      /\ desc.len = at + len /\ OfVersion(f, ver[f], desc)
      /\ worker.was # NoFilp => desc = worker.was
  <2> HIDE DEF desc, at, len
  <2> QED BY <1>1, <1>3, Placed DEF desc, at, len
<1>6. KeptOK(f, ver[f], [len |-> Len(disk[f].blocks), whole |-> FALSE, filp |-> worker.was],
             disk[f], TRUE, f \notin unopened)
  BY <1>1, HeldKept
<1>7. desc.len # 0
  BY <1>3, <1>5
<1> HIDE DEF f, len, at, desc
<1>8. KeptOK(f, ver[f], [len |-> Len(disk[f].blocks), whole |-> FALSE, filp |-> desc],
             disk[f], TRUE, f \notin unopened')
  <2>1. CASE worker.was # NoFilp
    <3>1. desc = worker.was /\ unopened' = unopened
      BY <1>3, <1>5, <2>1
    <3> QED BY <1>6, <3>1
  <2>2. CASE worker.was = NoFilp
    <3>1. f \in unopened'
      BY <1>3, <2>2
    <3> DEFINE l == [len |-> Len(disk[f].blocks), whole |-> FALSE, filp |-> desc]
    <3>2. l.len = Len(disk[f].blocks) /\ l.whole = FALSE /\ l.filp = desc
      OBVIOUS
    <3> HIDE DEF l
    <3>3. KeptOK(f, ver[f], l, disk[f], TRUE, f \notin unopened')
      BY <1>5, <1>7, <3>1, <3>2 DEF KeptOK
    <3> QED BY <3>3 DEF l
  <2> QED BY <2>1, <2>2
<1>9. \A g \in Files : g # f /\ g \in unopened => g \in unopened'
  BY <1>3
<1>10. /\ disk' = disk /\ ledger' \in [Files -> Kepts]
       /\ asLeft' \subseteq {g \in Files : disk[g].there} /\ LedgerOK'
       /\ \A g \in Files : g # f => ledger'[g] = ledger[g]
  BY <1>1, <1>3, <1>4, <1>5, <1>8, <1>9, NoteOK
<1>11. RefusedOK'
  <2> SUFFICES ASSUME NEW g \in refused' PROVE ledger'[g].filp = NoFilp
    BY DEF RefusedOK
  <2>1. g # f /\ g \in Files /\ ledger[g].filp = NoFilp
    BY <1>3 DEF DownInv, DownTypes, RefusedOK
  <2> QED BY <1>10, <2>1
<1>12. refused' \subseteq Files /\ unopened' \subseteq Files /\ cut' \in BOOLEAN
  BY <1>1, <1>3, <1>4 DEF DownInv, DownTypes
<1> QED BY <1>1, <1>2, <1>4, <1>10, <1>11, <1>12, Returned

\* A file with a fork to come, or with none.
LEMMA FilpStep == ASSUME DownInv, Filp PROVE DownInv'
<1> DEFINE f == worker.file
           len == ForkLen(f, worker.from)
           at == DataFrom(worker.was, worker.from, len, ver[f])
           desc == Described(at, len, f)
           opens == len # 0 /\ at = 0
<1>1. worker \in Workers /\ worker.at = "filp" /\ f \in Files
  BY DEF DownInv, DownTypes, Filp, HandOK, Holding
<1>2. /\ at # -1
      /\ worker' = [worker EXCEPT !.was = desc, !.at = IF len = 0 THEN "drain" ELSE "fork"]
      /\ wait' = (IF len = 0 THEN "short" ELSE wait)
      /\ disk' = (IF opens THEN [disk EXCEPT ![f] = Local(<< >>)] ELSE disk)
      /\ asLeft' = asLeft \ {f}
      /\ unopened' = (IF opens THEN unopened \ {f} ELSE unopened)
      /\ refused' = refused \ {f}
      /\ UNCHANGED <<serverVars, ledger, row, aborted, sock, seen, cut>>
  BY DEF Filp
<1>3. /\ len \in Nat /\ at \in Nat /\ desc \in Filps /\ desc # NoFilp
      /\ desc.len = at + len /\ OfVersion(f, ver[f], desc)
      /\ worker.was # NoFilp => desc = worker.was /\ desc.len # 0
      /\ worker.was = NoFilp => at = 0
      /\ at # 0 => at = worker.from
      /\ len = 0 => at = worker.from
  <2>1. /\ len = ForkLen(worker.file, worker.from)
        /\ at = DataFrom(worker.was, worker.from, len, ver[worker.file])
        /\ desc = Described(at, len, worker.file)
    OBVIOUS
  <2>2. at # -1
    BY <1>2
  <2> HIDE DEF desc, at, len
  <2> QED BY <1>1, <2>1, <2>2, Placed
<1> HIDE DEF f, len, at, desc
<1>4. /\ worker' \in Workers /\ worker'.at = (IF len = 0 THEN "drain" ELSE "fork")
      /\ worker'.file = f /\ worker'.from = worker.from /\ worker'.was = desc
  BY <1>1, <1>2, <1>3 DEF Workers, Points, f
<1>5. /\ disk \in [Files -> Locals] /\ ledger \in [Files -> Kepts]
      /\ asLeft \subseteq {g \in Files : disk[g].there}
      /\ served \in 0..Len(Tree) /\ worker.from \in Nat /\ seen.forks \in Nat
  BY DEF DownInv, DownTypes, Workers
<1>6. Local(<< >>) \in Locals /\ Local(<< >>).there = TRUE /\ Local(<< >>).blocks = << >>
  BY DEF Local, Locals, Blocks
<1>7. /\ disk' \in [Files -> Locals] /\ \A g \in Files : g # f => disk'[g] = disk[g]
      /\ disk'[f] = (IF opens THEN Local(<< >>) ELSE disk[f])
  BY <1>1, <1>2, <1>5, <1>6
<1> HIDE DEF opens
<1>8. ver' = ver /\ served' = served /\ server' = server
  BY <1>2 DEF serverVars
<1>9. DownTypes'
  <2>1. asLeft' \subseteq {g \in Files : disk'[g].there}
    BY <1>2, <1>5, <1>7
  <2> QED BY <1>2, <1>4, <1>7, <1>8, <2>1 DEF DownInv, DownTypes
<1>10. RowOK'
  BY <1>1, <1>2, <1>4, <1>8 DEF DownInv, RowOK
<1>11. LedgerOK'
  <2> SUFFICES ASSUME NEW g \in Files
               PROVE  KeptOK(g, ver[g], ledger[g], disk'[g], g \in asLeft', g \notin unopened')
    BY <1>2, <1>8 DEF LedgerOK
  <2>1. KeptOK(g, ver[g], ledger[g], disk[g], g \in asLeft, g \notin unopened)
    BY DEF DownInv, LedgerOK
  <2>2. CASE g = f
    <3>1. ledger[g].filp.modified \in Nat /\ ver[g] \in Nat /\ ver[g] <= ver[g]
      BY <1>5 DEF Kepts, Filps, DownInv, DownTypes
    <3>2. KeptOK(g, ver[g], ledger[g], disk'[g], FALSE, g \notin unopened')
      BY <2>1, <3>1, KeptLoosely
    <3>3. g \notin asLeft'
      BY <1>2, <2>2
    <3> QED BY <3>2, <3>3 DEF KeptOK
  <2>3. CASE g # f
    <3>1. disk'[g] = disk[g] /\ (g \in asLeft' <=> g \in asLeft) /\ (g \in unopened' <=> g \in unopened)
      BY <1>2, <1>7, <2>3
    <3> QED BY <2>1, <3>1 DEF KeptOK
  <2> QED BY <2>2, <2>3
<1>12. EmptyOK'
  <2> SUFFICES ASSUME NEW g \in Files \ Touched, ver[g] = 1, Size[g][1] = 0 PROVE ~disk'[g].there
    BY <1>8 DEF EmptyOK
  <2>1. ~disk[g].there
    BY DEF DownInv, EmptyOK
  <2>2. ~(g = f /\ opens)
    <3> SUFFICES ASSUME g = f, opens PROVE FALSE
      OBVIOUS
    <3>1. desc.len # 0
      BY <1>3 DEF opens
    <3> QED BY <1>3, <3>1 DEF OfVersion
  <2> QED BY <1>7, <2>1, <2>2
<1>13. WritesOK(worker', ver[f], disk'[f], f \notin unopened')
  <2>1. CASE opens
    <3>1. /\ disk'[f].there = TRUE /\ disk'[f].blocks = << >> /\ worker'.at = "fork"
          /\ 0 < desc.len
      BY <1>3, <1>4, <1>6, <1>7, <2>1 DEF opens
    <3>2. Len(<< >>) = 0 /\ \A i \in 1..Len(<< >>) : FALSE
      OBVIOUS
    <3> QED BY <1>3, <1>4, <3>1, <3>2 DEF WritesOK, Start
  <2>2. CASE ~opens /\ worker.was # NoFilp
    <3>1. f \in asLeft /\ ledger[f].filp = worker.was /\ ledger[f].len = worker.from
      BY <1>1, <2>2 DEF DownInv, HandOK, Holding, f
    <3>2. KeptOK(f, ver[f], ledger[f], disk[f], f \in asLeft, f \notin unopened)
      BY <1>1 DEF DownInv, LedgerOK
    <3>3. /\ disk[f].there /\ Len(disk[f].blocks) = worker.from /\ desc = worker.was /\ desc.len # 0
          /\ f \notin unopened => Start(disk[f].blocks, desc.modified)
      BY <1>3, <1>5, <2>2, <3>1, <3>2 DEF KeptOK
    <3>4. disk'[f] = disk[f] /\ unopened' = unopened
      BY <1>2, <1>7, <2>2
    <3>5. (len # 0 => worker.from < desc.len) /\ (len = 0 => worker.from = desc.len)
      BY <1>3, <1>5, <2>2 DEF opens
    <3> QED BY <1>3, <1>4, <3>3, <3>4, <3>5 DEF WritesOK
  <2>3. CASE ~opens /\ worker.was = NoFilp
    <3>1. len = 0 /\ desc.len = 0
      BY <1>3, <2>3 DEF opens
    <3> QED BY <1>3, <1>4, <3>1 DEF WritesOK
  <2> QED BY <2>1, <2>2, <2>3
<1>14. HandOK'
  <2>1. /\ served > 0 /\ Tree[served] = f /\ seen.forks >= worker.from
    BY <1>1 DEF DownInv, HandOK, Holding, f
  <2> QED BY <1>1, <1>2, <1>4, <1>8, <1>13, <2>1 DEF HandOK, Holding
<1>15. RefusedOK'
  BY <1>2 DEF DownInv, RefusedOK
<1>16. EndOK'
  <2>1. row' # "done"
    BY <1>1, <1>2 DEF DownInv, RowOK
  <2> QED BY <1>1, <1>2, <1>4, <1>8, <2>1 DEF DownInv, EndOK, Holding, f
<1>17. SaidOK'
  BY <1>1, <1>2, <1>4, <1>8 DEF DownInv, SaidOK
<1>18. CountOK'
  <2> SUFFICES ASSUME ver = First, \A g \in Touched : Size[g][1] # 0
               PROVE  IF len # 0 THEN seen.forks - worker.from <= Bytes(First)[served - 1]
                                 ELSE seen.forks <= Bytes(First)[served]
    BY <1>2, <1>4, <1>8 DEF CountOK
  <2>1. seen.forks - worker.from <= Bytes(First)[served - 1]
    BY <1>1 DEF DownInv, CountOK
  <2>2. /\ Bytes(First)[served] \in Nat /\ Bytes(First)[served - 1] \in Nat
        /\ Bytes(First)[served] = Bytes(First)[served - 1] + desc.len
    BY <1>1, <1>3, InHandBytes DEF Holding, f
  <2>3. len = 0 => worker.from = desc.len
    BY <1>3
  <2> HIDE DEF First
  <2> QED BY <1>3, <1>5, <2>1, <2>2, <2>3
<1> QED BY <1>9, <1>10, <1>11, <1>12, <1>14, <1>15, <1>16, <1>17, <1>18 DEF DownInv

\* One block more.
LEMMA StartGrows ==
    ASSUME NEW b \in Blocks, NEW m \in Nat
    PROVE  LET d == Append(b, <<m, Len(b) + 1>>)
           IN  /\ d \in Blocks /\ Len(d) = Len(b) + 1
               /\ Start(b, m) => Start(d, m)
<1> DEFINE n == Len(b)
           p == <<m, n + 1>>
           d == Append(b, p)
<1>1. n \in Nat /\ p \in Nat \X Nat
  BY DEF Blocks
<1> HIDE DEF p, n
<1>2. d \in Blocks /\ Len(d) = n + 1 /\ d[n + 1] = p /\ \A i \in 1..n : d[i] = b[i]
  BY <1>1 DEF Blocks, n
<1> HIDE DEF d
<1>3. ASSUME Start(b, m) PROVE Start(d, m)
  <2> SUFFICES ASSUME NEW i \in 1..n + 1 PROVE d[i] = <<m, i>>
    BY <1>2 DEF Start
  <2>1. CASE i = n + 1
    BY <1>2, <2>1 DEF p
  <2>2. CASE i # n + 1
    <3>1. i \in 1..n
      BY <1>1, <2>2
    <3> QED BY <1>2, <1>3, <3>1 DEF Start, n
  <2> QED BY <2>1, <2>2
<1> QED BY <1>2, <1>3 DEF d, p, n

\* A block of the fork.
LEMMA BlockStep == ASSUME DownInv, Block PROVE DownInv'
<1> DEFINE f == worker.file
           b == disk[f].blocks
           m == worker.was.modified
           d == Append(b, <<m, Len(b) + 1>>)
           last == Len(d) = worker.was.len
           count == seen.forks + IF last THEN NewBlocks(worker) ELSE 0
<1>1. worker \in Workers /\ worker.at = "fork" /\ f \in Files /\ f \notin asLeft
  BY DEF DownInv, DownTypes, Block, HandOK, Holding
<1>2. /\ disk' = [disk EXCEPT ![f] = Local(d)]
      /\ seen' = [seen EXCEPT !.forks = count]
      /\ worker' = [worker EXCEPT !.at = IF last THEN "drain" ELSE "fork"]
      /\ wait' = (IF last THEN "short" ELSE wait)
      /\ UNCHANGED <<serverVars, asLeft, ledger, row, aborted, sock, cut, refused, unopened>>
  BY DEF Block
<1>3. WritesOK(worker, ver[f], disk[f], f \notin unopened)
  BY <1>1 DEF DownInv, HandOK, Holding
<1>4. /\ disk \in [Files -> Locals] /\ b \in Blocks /\ Len(b) \in Nat /\ worker.was \in Filps
      /\ m \in Nat /\ worker.was.len \in Nat /\ worker.from \in Nat /\ seen.forks \in Nat
  BY <1>1 DEF DownInv, DownTypes, Workers, Filps, Locals, Blocks
<1>5. d \in Blocks /\ Len(d) = Len(b) + 1 /\ (Start(b, m) => Start(d, m))
  BY <1>4, StartGrows
<1> HIDE DEF d
<1>6. Local(d) \in Locals /\ Local(d).there = TRUE /\ Local(d).blocks = d
  BY <1>5 DEF Local, Locals
<1>7. /\ worker.was # NoFilp /\ OfVersion(f, ver[f], worker.was)
      /\ Len(b) < worker.was.len /\ worker.was.len # 0
      /\ f \notin unopened => Start(b, m)
  BY <1>1, <1>3, <1>4 DEF WritesOK
<1>8. seen.forks >= worker.from /\ served > 0 /\ Tree[served] = f /\ f \notin refused
  BY <1>1 DEF DownInv, HandOK, Holding
<1>9. count \in Nat /\ (last => count = seen.forks + (worker.was.len - worker.from))
      /\ (~last => count = seen.forks)
  BY <1>4, <1>8, SMTT(40) DEF NewBlocks
<1> HIDE DEF f, b, m, count
<1>10. /\ worker' \in Workers /\ worker'.at = (IF last THEN "drain" ELSE "fork")
       /\ worker'.file = f /\ worker'.from = worker.from /\ worker'.was = worker.was
  BY <1>1, <1>2 DEF Workers, Points, f
<1>11. /\ disk' \in [Files -> Locals] /\ disk'[f] = Local(d)
       /\ \A g \in Files : g # f => disk'[g] = disk[g]
  BY <1>1, <1>2, <1>4, <1>6
<1>12. /\ ver' = ver /\ served' = served /\ server' = server
  BY <1>2 DEF serverVars
<1>13. /\ DOMAIN seen' = {"received", "forks", "items", "size"} /\ seen'.forks = count
       /\ seen'.received = seen.received /\ seen'.items = seen.items /\ seen'.size = seen.size
  BY <1>2 DEF DownInv, DownTypes
<1>14. DownTypes'
  <2>1. asLeft' \subseteq {g \in Files : disk'[g].there}
    BY <1>1, <1>2, <1>11 DEF DownInv, DownTypes
  <2> QED BY <1>2, <1>9, <1>10, <1>11, <1>12, <1>13, <2>1 DEF DownInv, DownTypes
<1>15. RowOK'
  BY <1>1, <1>2, <1>10, <1>12, <1>13 DEF DownInv, RowOK
<1>16. LedgerOK'
  <2> SUFFICES ASSUME NEW g \in Files
               PROVE  KeptOK(g, ver[g], ledger[g], disk'[g], g \in asLeft, g \notin unopened)
    BY <1>2, <1>12 DEF LedgerOK
  <2>1. KeptOK(g, ver[g], ledger[g], disk[g], g \in asLeft, g \notin unopened)
    BY DEF DownInv, LedgerOK
  <2>2. CASE g = f
    BY <1>1, <2>1, <2>2 DEF KeptOK
  <2> QED BY <1>11, <2>1, <2>2
<1>17. EmptyOK'
  <2> SUFFICES ASSUME NEW g \in Files \ Touched, ver[g] = 1, Size[g][1] = 0 PROVE ~disk'[g].there
    BY <1>12 DEF EmptyOK
  <2>1. g # f
    BY <1>7 DEF OfVersion
  <2> QED BY <1>11, <2>1 DEF DownInv, EmptyOK
<1>18. WritesOK(worker', ver[f], disk'[f], f \notin unopened)
  <2>1. last => Len(d) = worker.was.len
    OBVIOUS
  <2>2. ~last => Len(d) < worker.was.len
    BY <1>4, <1>5, <1>7
  <2> HIDE DEF last
  <2> QED BY <1>5, <1>6, <1>7, <1>10, <1>11, <2>1, <2>2 DEF WritesOK, m
<1> HIDE DEF last
<1>19. HandOK'
  <2>1. worker'.at # "drain" => count >= worker.from
    BY <1>8, <1>9, <1>10
  <2> QED BY <1>1, <1>2, <1>8, <1>10, <1>12, <1>13, <1>18, <2>1 DEF HandOK, Holding
<1>20. RefusedOK'
  BY <1>2 DEF DownInv, RefusedOK
<1>21. EndOK'
  <2>1. row' # "done"
    BY <1>1, <1>2 DEF DownInv, RowOK
  <2> QED BY <1>1, <1>2, <1>10, <1>12, <2>1 DEF DownInv, EndOK, Holding, f
<1>22. SaidOK'
  BY <1>1, <1>10, <1>12, <1>13 DEF DownInv, SaidOK
<1>23. CountOK'
  <2> SUFFICES ASSUME ver = First, \A g \in Touched : Size[g][1] # 0
               PROVE  IF ~last THEN count - worker.from <= Bytes(First)[served - 1]
                               ELSE count <= Bytes(First)[served]
    BY <1>10, <1>12, <1>13 DEF CountOK
  <2>1. seen.forks - worker.from <= Bytes(First)[served - 1]
    BY <1>1 DEF DownInv, CountOK
  <2>2. /\ Bytes(First)[served] \in Nat /\ Bytes(First)[served - 1] \in Nat
        /\ Bytes(First)[served] = Bytes(First)[served - 1] + worker.was.len
    BY <1>1, <1>4, <1>7, InHandBytes DEF Holding, f
  <2> HIDE DEF First
  <2> QED BY <1>4, <1>9, <2>1, <2>2, SMTT(40)
<1> QED BY <1>14, <1>15, <1>16, <1>17, <1>19, <1>20, <1>21, <1>22, <1>23 DEF DownInv

\* The end of a file: it has arrived.
LEMMA DrainedStep == ASSUME DownInv, Drained PROVE DownInv'
<1> DEFINE f == worker.file
           w == worker.was
<1>1. worker \in Workers /\ worker.at = "drain" /\ f \in Files /\ w \in Filps /\ f \notin refused
  BY DEF DownInv, DownTypes, Drained, HandOK, Holding, Workers
<1>2. /\ Note(f, disk, TRUE, w) /\ wait' = "stall"
      /\ UNCHANGED <<serverVars, row, aborted, sock, seen, cut, refused, unopened>>
  BY DEF Drained, Rearm
<1>3. worker' \in Workers /\ worker'.at = "next"
  <2>1. PICK quiet \in BOOLEAN :
           worker' = [worker EXCEPT !.at = "next", !.broke = @ \/ quiet,
                        !.stalled = @ \/ (quiet /\ sock = "open" /\ NoteTimeout(wait))]
    BY DEF Drained
  <2>2. \A x \in BOOLEAN, y \in BOOLEAN :
           LET v == [worker EXCEPT !.at = "next", !.broke = x, !.stalled = y]
           IN  v \in Workers /\ v.at = "next"
    BY <1>1 DEF Workers, Points
  <2>3. /\ (worker.broke \/ quiet) \in BOOLEAN
        /\ (worker.stalled \/ (quiet /\ sock = "open" /\ NoteTimeout(wait))) \in BOOLEAN
    OBVIOUS
  <2> QED BY <2>1, <2>2, <2>3
<1>4. WritesOK(worker, ver[f], disk[f], f \notin unopened)
  BY <1>1 DEF DownInv, HandOK, Holding
<1>5. /\ w # NoFilp /\ OfVersion(f, ver[f], w) /\ (disk[f].there \/ w.len = 0)
      /\ w.len # 0 => Len(disk[f].blocks) = w.len
      /\ f \notin unopened /\ w.len # 0 => Start(disk[f].blocks, w.modified)
  BY <1>1, <1>4 DEF WritesOK
<1>6. ver' = ver /\ served' = served /\ server' = server /\ TRUE \in BOOLEAN
  BY <1>2 DEF serverVars
<1> HIDE DEF f, w
<1>7. KeptOK(f, ver[f], [len |-> Len(disk[f].blocks), whole |-> TRUE, filp |-> w],
             disk[f], TRUE, f \notin unopened')
  <2> DEFINE l == [len |-> Len(disk[f].blocks), whole |-> TRUE, filp |-> w]
  <2>1. l.len = Len(disk[f].blocks) /\ l.whole = TRUE /\ l.filp = w
    OBVIOUS
  <2> HIDE DEF l
  <2>2. w.len \in Nat /\ unopened' = unopened
    BY <1>1, <1>2 DEF Filps
  <2>3. KeptOK(f, ver[f], l, disk[f], TRUE, f \notin unopened')
    BY <1>5, <2>1, <2>2 DEF KeptOK
  <2> QED BY <2>3 DEF l
<1>8. /\ disk' = disk /\ ledger' \in [Files -> Kepts]
      /\ asLeft' \subseteq {g \in Files : disk[g].there} /\ LedgerOK'
      /\ \A g \in Files : g # f => ledger'[g] = ledger[g]
      /\ disk[f].there => ledger'[f].whole = TRUE
      /\ ~disk[f].there => ledger'[f] = NotKept
  BY <1>1, <1>2, <1>6, <1>7, NoteOK
<1>9. Arrived(f, ledger'[f])
  <2>1. CASE disk[f].there
    BY <1>8, <2>1 DEF Arrived
  <2>2. CASE ~disk[f].there
    <3>1. w.len = 0 /\ w.modified \in 1..ver[f] /\ Size[f][w.modified] = 0
      BY <1>5, <2>2 DEF OfVersion
    <3>2. Size[f] \in Seq(Nat) /\ ver[f] \in 1..Len(Size[f])
      BY <1>1, TreeAssumption DEF DownInv, DownTypes
    <3>3. w.modified \in DOMAIN Size[f]
      BY <3>1, <3>2
    <3> QED BY <1>8, <2>2, <3>1, <3>3 DEF Arrived
  <2> QED BY <2>1, <2>2
<1>10. DownTypes'
  BY <1>2, <1>3, <1>6, <1>8 DEF DownInv, DownTypes
<1>11. RowOK'
  BY <1>1, <1>2, <1>3, <1>6 DEF DownInv, RowOK
<1>12. EmptyOK'
  BY <1>6, <1>8 DEF DownInv, EmptyOK
<1>13. HandOK'
  BY <1>3 DEF HandOK, Holding
<1>14. RefusedOK'
  <2> SUFFICES ASSUME NEW g \in refused PROVE ledger'[g].filp = NoFilp
    BY <1>2 DEF RefusedOK
  <2>1. g \in Files /\ g # f /\ ledger[g].filp = NoFilp
    BY <1>1 DEF DownInv, DownTypes, RefusedOK, f
  <2> QED BY <1>8, <2>1
<1>15. EndOK'
  <2>1. row' # "done"
    BY <1>1, <1>2 DEF DownInv, RowOK
  <2>2. ASSUME NEW i \in 1..served, Tree[i] # Folder PROVE Arrived(Tree[i], ledger'[Tree[i]])
    <3>1. Arrived(Tree[i], ledger[Tree[i]]) \/ Tree[i] = f
      BY <1>1, <2>2 DEF DownInv, EndOK, f
    <3>2. i \in 1..Len(Tree)
      BY TreeFacts DEF DownInv, DownTypes
    <3>3. Tree[i] \in Files
      BY <2>2, <3>2, TreeFacts
    <3> QED BY <1>8, <1>9, <3>1, <3>3
  <2> QED BY <1>3, <1>6, <2>1, <2>2 DEF EndOK
<1>16. SaidOK'
  BY <1>1, <1>2, <1>3, <1>6 DEF DownInv, SaidOK
<1>17. CountOK'
  BY <1>1, <1>2, <1>3, <1>6 DEF DownInv, CountOK
<1> QED BY <1>8, <1>10, <1>11, <1>12, <1>13, <1>14, <1>15, <1>16, <1>17 DEF DownInv

-----------------------------------------------------------------------------
(* Entries.                                                                 *)

\* What is held of the next entry, as it is counted.
LEMMA HeldCounts ==
    ASSUME DownInv, worker.at = "entry", served < Len(Tree), NEW f, f = Tree[served + 1], f # Folder,
           NEW held, held = (IF Answer(f) # "send" THEN ledger[f].len ELSE 0)
    PROVE  /\ f \in Files /\ held \in Nat /\ served + 1 \in 1..Len(Tree)
           /\ Answer(f) \in {"send", "skip", "resume"}
           /\ Answer(f) = "send" => held = 0
           /\ Answer(f) = "skip" => ledger[f].whole
           /\ Answer(f) = "resume" => /\ f \in asLeft /\ ~ledger[f].whole /\ ledger[f].filp # NoFilp
                                      /\ held = ledger[f].len
           /\ Answer(f) = "skip" /\ ver = First /\ (\A g \in Touched : Size[g][1] # 0)
                => held = ForkBytes(First, served + 1)
<1>1. served \in Nat /\ served + 1 \in 1..Len(Tree)
  BY TreeFacts DEF DownInv, DownTypes
<1>2. f \in Files
  BY <1>1, TreeFacts
<1>3. ledger[f] \in Kepts
  BY <1>2 DEF DownInv, DownTypes
<1>4. ledger[f].len \in Nat /\ held \in Nat
  BY <1>3 DEF Kepts
<1>5. Answer(f) = "skip" => f \in asLeft /\ ledger[f].whole /\ held = ledger[f].len
  BY DEF Answer
<1>6. Answer(f) = "resume" => f \in asLeft /\ ~ledger[f].whole /\ ledger[f].filp # NoFilp
  BY DEF Answer
<1>7. Answer(f) \in {"send", "skip", "resume"}
  BY DEF Answer
<1>8. ASSUME Answer(f) = "skip", ver = First, \A g \in Touched : Size[g][1] # 0
      PROVE  held = ForkBytes(First, served + 1)
  <2>1. ver[f] = 1 /\ First[f] = 1
    BY <1>2, <1>8 DEF First
  <2>2. ForkBytes(First, served + 1) = Size[f][1]
    BY <2>1 DEF ForkBytes
  <2>3. KeptOK(f, ver[f], ledger[f], disk[f], f \in asLeft, f \notin unopened)
    BY <1>2 DEF DownInv, LedgerOK
  <2>4. /\ OfVersion(f, 1, ledger[f].filp)
        /\ ledger[f].len = ledger[f].filp.len \/ ledger[f].filp.len = 0
    BY <1>5, <1>8, <2>1, <2>3 DEF KeptOK
  <2>5. ledger[f].filp.len = Size[f][1]
    BY <2>4 DEF OfVersion
  <2>6. Size[f][1] = 0 => FALSE
    <3> SUFFICES ASSUME Size[f][1] = 0 PROVE FALSE
      OBVIOUS
    <3>1. f \in Files \ Touched
      BY <1>2, <1>8
    <3>2. ~disk[f].there
      BY <2>1, <3>1 DEF DownInv, EmptyOK
    <3>3. f \in asLeft
      BY <1>5, <1>8
    <3> QED BY <3>2, <3>3 DEF DownInv, DownTypes
  <2> QED BY <1>5, <1>8, <2>2, <2>4, <2>5, <2>6
<1> QED BY <1>1, <1>2, <1>4, <1>5, <1>6, <1>7, <1>8

\* An entry comes.
LEMMA EntryStep == ASSUME DownInv, Entry PROVE DownInv'
<1> DEFINE f == Tree[served + 1]
           held == IF f # Folder /\ Answer(f) # "send" THEN ledger[f].len ELSE 0
           past == f = Folder \/ Answer(f) = "skip"
           was == IF Answer(f) = "resume" THEN ledger[f].filp ELSE NoFilp
<1>1. /\ worker \in Workers /\ worker.at = "entry" /\ served < Len(Tree) /\ served \in Nat
      /\ served + 1 \in 1..Len(Tree) /\ seen.forks \in Nat
      /\ served + 1 \in 0..Len(Tree) /\ served \in 0..Len(Tree)
      /\ (served + 1) - 1 = served /\ served <= served + 1 /\ served + 1 > 0
  BY TreeFacts DEF DownInv, DownTypes, Entry
<1>2. /\ served' = served + 1 /\ wait' = "stall"
      /\ seen' = [seen EXCEPT !.received = @ + 1, !.forks = @ + held]
      /\ worker' = (IF past THEN [worker EXCEPT !.at = "next"]
                    ELSE [worker EXCEPT !.at = "filp", !.file = f, !.from = held, !.was = was])
      /\ UNCHANGED <<ver, server, diskVars, row, aborted, sock, cut, refused, unopened>>
  BY DEF Entry, Rearm
<1>3. f # Folder =>
        /\ f \in Files /\ held \in Nat
        /\ Answer(f) = "send" => held = 0
        /\ Answer(f) \in {"send", "skip", "resume"}
        /\ Answer(f) = "skip" => ledger[f].whole
        /\ Answer(f) = "resume" => /\ f \in asLeft /\ ~ledger[f].whole /\ ledger[f].filp # NoFilp
                                   /\ held = ledger[f].len
        /\ Answer(f) = "skip" /\ ver = First /\ (\A g \in Touched : Size[g][1] # 0)
             => held = ForkBytes(First, served + 1)
  <2> SUFFICES ASSUME f # Folder PROVE
        /\ f \in Files /\ held \in Nat
        /\ Answer(f) = "send" => held = 0
        /\ Answer(f) \in {"send", "skip", "resume"}
        /\ Answer(f) = "skip" => ledger[f].whole
        /\ Answer(f) = "resume" => /\ f \in asLeft /\ ~ledger[f].whole /\ ledger[f].filp # NoFilp
                                   /\ held = ledger[f].len
        /\ Answer(f) = "skip" /\ ver = First /\ (\A g \in Touched : Size[g][1] # 0)
             => held = ForkBytes(First, served + 1)
    OBVIOUS
  <2>1. held = (IF Answer(f) # "send" THEN ledger[f].len ELSE 0) /\ f = Tree[served + 1]
    OBVIOUS
  <2> HIDE DEF held, f
  <2> QED BY <1>1, <2>1, HeldCounts
<1>4. f = Folder => held = 0
  OBVIOUS
<1>5. held \in Nat
  BY <1>3, <1>4
<1> HIDE DEF held
<1>6. ~past => f \in Files /\ f # Folder /\ was \in Filps
  <2>1. f # Folder => ledger[f] \in Kepts
    BY <1>3 DEF DownInv, DownTypes
  <2> QED BY <1>3, <2>1 DEF Kepts, Filps, NoFilp
<1> HIDE DEF was, f
<1>7. /\ past => worker' \in Workers /\ worker'.at = "next"
      /\ ~past => /\ worker' \in Workers /\ worker'.at = "filp"
                  /\ worker'.file = f /\ worker'.from = held /\ worker'.was = was
  BY <1>1, <1>2, <1>5, <1>6 DEF Workers, Points
<1>8. /\ DOMAIN seen' = {"received", "forks", "items", "size"} /\ seen'.forks = seen.forks + held
      /\ seen'.received = seen.received + 1 /\ seen'.items = seen.items /\ seen'.size = seen.size
  BY <1>2 DEF DownInv, DownTypes
<1>9. /\ disk' = disk /\ ledger' = ledger /\ asLeft' = asLeft /\ ver' = ver /\ server' = server
  BY <1>2 DEF diskVars
<1>10. worker' \in Workers /\ worker'.at \in {"next", "filp"} /\ seen'.forks \in Nat
  BY <1>1, <1>5, <1>7, <1>8
<1>11. DownTypes'
  BY <1>1, <1>2, <1>8, <1>9, <1>10 DEF DownInv, DownTypes
<1>12. RowOK'
  BY <1>1, <1>2, <1>8, <1>10 DEF DownInv, RowOK
<1>13. LedgerOK' /\ EmptyOK' /\ RefusedOK'
  BY <1>2, <1>9 DEF DownInv, LedgerOK, EmptyOK, RefusedOK
<1>14. HandOK'
  <2> SUFFICES ASSUME ~past
               PROVE  /\ f \in Files /\ served' > 0 /\ Tree[served'] = f
                      /\ seen'.forks >= held
                      /\ IF was = NoFilp THEN held = 0
                         ELSE /\ f \in asLeft /\ ledger[f].filp = was
                              /\ ledger[f].len = held /\ ~ledger[f].whole
    BY <1>7, <1>9 DEF HandOK, Holding
  <2>1. seen'.forks >= held
    BY <1>1, <1>5, <1>8
  <2>2. /\ was = NoFilp => Answer(f) = "send"
        /\ was # NoFilp => Answer(f) = "resume" /\ was = ledger[f].filp
    BY <1>3, <1>6 DEF was
  <2> QED BY <1>1, <1>2, <1>3, <1>6, <2>1, <2>2 DEF f
<1>15. EndOK'
  <2>1. row' # "done"
    BY <1>1, <1>2 DEF DownInv, RowOK
  <2> SUFFICES ASSUME NEW i \in 1..served + 1, Tree[i] # Folder
               PROVE  \/ Arrived(Tree[i], ledger[Tree[i]])
                      \/ worker'.at \in Holding /\ Tree[i] = worker'.file
    BY <1>2, <1>9, <1>10, <2>1 DEF EndOK
  <2>2. CASE i \in 1..served
    BY <1>1, <2>2 DEF DownInv, EndOK, Holding
  <2>3. CASE i = served + 1
    <3>1. Tree[i] = f /\ f # Folder
      BY <2>3 DEF f
    <3>2. past => Arrived(f, ledger[f])
      BY <1>3, <3>1 DEF Arrived
    <3> QED BY <1>7, <3>1, <3>2 DEF Holding
  <2> QED BY <1>1, <2>2, <2>3
<1>16. SaidOK'
  BY <1>1, <1>8, <1>9, <1>10 DEF DownInv, SaidOK
<1>17. CountOK'
  <2> SUFFICES ASSUME ver = First, \A g \in Touched : Size[g][1] # 0
               PROVE  /\ ~past => seen'.forks - held <= Bytes(First)[served]
                      /\ past => seen'.forks <= Bytes(First)[served + 1]
    BY <1>1, <1>2, <1>7, <1>9 DEF CountOK
  <2>1. seen.forks <= Bytes(First)[served]
    BY <1>1 DEF DownInv, CountOK
  <2>2. /\ Bytes(First)[served] \in Nat /\ Bytes(First)[served + 1] \in Nat
        /\ ForkBytes(First, served + 1) \in Nat
        /\ Bytes(First)[served + 1] = Bytes(First)[served] + ForkBytes(First, served + 1)
    <3>1. /\ Bytes(First) \in [0..Len(Tree) -> Nat]
          /\ ForkBytes(First, served + 1) \in Nat
          /\ Bytes(First)[served + 1] = Bytes(First)[(served + 1) - 1] + ForkBytes(First, served + 1)
      BY <1>1, TreeSum
    <3> QED BY <1>1, <3>1
  <2>3. past => held <= ForkBytes(First, served + 1)
    BY <1>3, <1>4, <2>2
  <2> HIDE DEF First, past
  <2> QED BY <1>1, <1>5, <1>8, <2>1, <2>2, <2>3, SMTT(40)
<1> QED BY <1>11, <1>12, <1>13, <1>14, <1>15, <1>16, <1>17 DEF DownInv

\* The next entry is asked for.
LEMMA FileNextStep == ASSUME DownInv, FileNext PROVE DownInv'
<1>1. worker \in Workers /\ worker.at = "next"
  BY DEF DownInv, DownTypes, FileNext
<1>2. /\ worker' = [worker EXCEPT !.at = "entry", !.file = Folder, !.from = 0, !.was = NoFilp]
      /\ wait' = (IF Graced(seen) THEN "short" ELSE "stall")
      /\ UNCHANGED <<serverVars, diskVars, row, aborted, sock, seen, cut, refused, unopened>>
  BY DEF FileNext
<1>3. worker' \in Workers /\ worker'.at = "entry"
  BY <1>1, <1>2 DEF Workers, Points, NoFilp, Filps
<1>4. /\ ver' = ver /\ served' = served /\ server' = server /\ seen' = seen
      /\ disk' = disk /\ ledger' = ledger /\ asLeft' = asLeft
  BY <1>2 DEF serverVars, diskVars
<1>5. DownTypes' /\ LedgerOK' /\ EmptyOK' /\ RefusedOK'
  BY <1>2, <1>3, <1>4 DEF DownInv, DownTypes, LedgerOK, EmptyOK, RefusedOK
<1>6. RowOK'
  BY <1>1, <1>2, <1>3, <1>4 DEF DownInv, RowOK
<1>7. HandOK'
  BY <1>3 DEF HandOK, Holding
<1>8. EndOK'
  <2>1. row' # "done"
    BY <1>1, <1>2 DEF DownInv, RowOK
  <2> QED BY <1>1, <1>3, <1>4, <2>1 DEF DownInv, EndOK, Holding
<1>9. SaidOK'
  BY <1>1, <1>2, <1>3, <1>4 DEF DownInv, SaidOK
<1>10. CountOK'
  BY <1>1, <1>3, <1>4 DEF DownInv, CountOK
<1> QED BY <1>5, <1>6, <1>7, <1>8, <1>9, <1>10 DEF DownInv

\* The connection is made.
LEMMA ConnectedStep == ASSUME DownInv, Connected PROVE DownInv'
<1>1. worker \in Workers /\ worker.at = "connect"
  BY DEF DownInv, DownTypes, Connected
<1>2. /\ worker' = [worker EXCEPT !.at = "next"] /\ wait' = "stall"
      /\ sock' \in {"shut", "open"}
      /\ UNCHANGED <<serverVars, diskVars, row, aborted, seen, cut, refused, unopened>>
  BY DEF Connected
<1>3. worker' \in Workers /\ worker'.at = "next"
  BY <1>1, <1>2 DEF Workers, Points
<1>4. /\ ver' = ver /\ served' = served /\ server' = server /\ seen' = seen
      /\ disk' = disk /\ ledger' = ledger /\ asLeft' = asLeft
  BY <1>2 DEF serverVars, diskVars
<1>5. DownTypes' /\ LedgerOK' /\ EmptyOK' /\ RefusedOK'
  BY <1>2, <1>3, <1>4 DEF DownInv, DownTypes, LedgerOK, EmptyOK, RefusedOK
<1>6. RowOK'
  BY <1>1, <1>2, <1>3, <1>4 DEF DownInv, RowOK
<1>7. HandOK'
  BY <1>3 DEF HandOK, Holding
<1>8. EndOK'
  <2>1. row' # "done"
    BY <1>1, <1>2 DEF DownInv, RowOK
  <2> QED BY <1>1, <1>3, <1>4, <2>1 DEF DownInv, EndOK, Holding
<1>9. SaidOK'
  BY <1>1, <1>2, <1>3, <1>4 DEF DownInv, SaidOK
<1>10. CountOK'
  BY <1>1, <1>3, <1>4 DEF DownInv, CountOK
<1> QED BY <1>5, <1>6, <1>7, <1>8, <1>9, <1>10 DEF DownInv

-----------------------------------------------------------------------------
(* The main thread and the environment.                                     *)

\* A worker is started, with what was announced.
LEMMA AskStep == ASSUME DownInv, Ask PROVE DownInv'
<1>1. /\ row \in {"ready", "paused", "failed"} /\ row' = "running"
      /\ worker' = [Idle EXCEPT !.at = "connect"] /\ seen' = Announced
      /\ UNCHANGED <<serverVars, diskVars, aborted, sock, wait, cut, refused, unopened>>
  BY DEF Ask
<1>2. worker' \in Workers /\ worker'.at = "connect"
  BY <1>1 DEF Workers, Points, Idle, NoFilp, Filps
<1>3. worker.at = "idle" /\ served = 0 /\ aborted = FALSE
  BY <1>1 DEF DownInv, RowOK
<1>4. /\ ver' = ver /\ served' = served /\ server' = server
      /\ disk' = disk /\ ledger' = ledger /\ asLeft' = asLeft
  BY <1>1 DEF serverVars, diskVars
<1> DEFINE items == CASE server.announces = "count" -> Len(Tree)
                      [] server.announces = "top" -> Len(Tree) - 1
                      [] OTHER -> 0
           size == IF server.announces = "none" THEN 0 ELSE Bytes(ver)[Len(Tree)]
<1>5. seen' = [Unseen EXCEPT !.items = items, !.size = size]
  BY <1>1 DEF Announced
<1>6. /\ server.announces = "count" => items = Len(Tree)
      /\ server.announces = "size" => items = 0 /\ size = Bytes(ver)[Len(Tree)]
  OBVIOUS
<1> HIDE DEF items, size
<1>7. /\ DOMAIN seen' = {"received", "forks", "items", "size"} /\ seen'.forks = 0
      /\ seen'.received = 0 /\ seen'.items = items /\ seen'.size = size
  BY <1>5 DEF Unseen
<1>8. DownTypes' /\ LedgerOK' /\ EmptyOK' /\ RefusedOK'
  BY <1>1, <1>2, <1>4, <1>7 DEF DownInv, DownTypes, LedgerOK, EmptyOK, RefusedOK
<1>9. RowOK'
  BY <1>1, <1>2, <1>3, <1>4, <1>7 DEF DownInv, RowOK
<1>10. HandOK'
  BY <1>2 DEF HandOK, Holding
<1>11. EndOK'
  <2>1. \A i \in 1..0 : FALSE
    OBVIOUS
  <2> QED BY <1>1, <1>2, <1>3, <1>4, <2>1 DEF EndOK
<1>12. SaidOK'
  BY <1>2, <1>4, <1>6, <1>7 DEF SaidOK
<1>13. CountOK'
  BY <1>2, <1>3, <1>4, <1>7, TreeSum DEF CountOK
<1> QED BY <1>8, <1>9, <1>10, <1>11, <1>12, <1>13 DEF DownInv

\* The row is paused while its worker runs.
LEMMA PauseDownStep == ASSUME DownInv, PauseDown PROVE DownInv'
<1>1. /\ row = "running" /\ row' = "winding" /\ aborted' = TRUE /\ sock' \in {"none", "shut"}
      /\ UNCHANGED <<serverVars, diskVars, wait, worker, seen, cut, refused, unopened>>
  BY DEF PauseDown
<1>2. /\ ver' = ver /\ served' = served /\ server' = server
      /\ disk' = disk /\ ledger' = ledger /\ asLeft' = asLeft
  BY <1>1 DEF serverVars, diskVars
<1>3. DownTypes' /\ LedgerOK' /\ EmptyOK' /\ RefusedOK' /\ RowOK'
  BY <1>1, <1>2 DEF DownInv, DownTypes, LedgerOK, EmptyOK, RefusedOK, RowOK
<1>4. HandOK' /\ EndOK' /\ SaidOK' /\ CountOK'
  BY <1>1, <1>2 DEF DownInv, HandOK, EndOK, SaidOK, CountOK
<1> QED BY <1>3, <1>4 DEF DownInv

\* The worker's return is settled.
LEMMA SettleDownStep == ASSUME DownInv, SettleDown PROVE DownInv'
<1>1. /\ worker.at = "ret"
      /\ row' = (IF worker.rv = "ok" THEN "done" ELSE IF row = "winding" THEN "paused" ELSE "failed")
      /\ aborted' = FALSE /\ sock' = "none" /\ wait' = "stall"
      /\ worker' = Idle /\ seen' = Unseen /\ served' = 0
      /\ UNCHANGED <<ver, server, diskVars, cut, refused, unopened>>
  BY DEF SettleDown
<1>2. worker' \in Workers /\ worker'.at = "idle" /\ worker'.rv = "ok"
  BY <1>1 DEF Workers, Points, Idle, NoFilp, Filps
<1>3. disk' = disk /\ ledger' = ledger /\ asLeft' = asLeft
  BY <1>1 DEF diskVars
<1>4. /\ DOMAIN seen' = {"received", "forks", "items", "size"} /\ seen'.forks = 0 /\ seen'.received = 0
  BY <1>1 DEF Unseen
<1>5. DownTypes' /\ LedgerOK' /\ EmptyOK' /\ RefusedOK'
  <2>1. 0 \in 0..Len(Tree)
    BY TreeFacts
  <2> QED BY <1>1, <1>2, <1>3, <1>4, <2>1 DEF DownInv, DownTypes, LedgerOK, EmptyOK, RefusedOK
<1>6. RowOK'
  BY <1>1, <1>2, <1>4 DEF RowOK
<1>7. HandOK' /\ SaidOK' /\ CountOK'
  BY <1>2 DEF HandOK, Holding, SaidOK, CountOK
<1>8. EndOK'
  BY <1>1, <1>2, <1>3 DEF DownInv, EndOK
<1> QED BY <1>5, <1>6, <1>7, <1>8 DEF DownInv

\* The server closes, or the connection breaks.
LEMMA ServerEndsStep == ASSUME DownInv, ServerEnds PROVE DownInv'
<1>1. /\ sock' \in {"fin", "lost"}
      /\ UNCHANGED <<serverVars, diskVars, row, aborted, wait, worker, seen, cut, refused, unopened>>
  BY DEF ServerEnds
<1>2. /\ ver' = ver /\ served' = served /\ server' = server
      /\ disk' = disk /\ ledger' = ledger /\ asLeft' = asLeft
  BY <1>1 DEF serverVars, diskVars
<1>3. DownTypes' /\ LedgerOK' /\ EmptyOK' /\ RefusedOK' /\ RowOK'
  BY <1>1, <1>2 DEF DownInv, DownTypes, LedgerOK, EmptyOK, RefusedOK, RowOK
<1>4. HandOK' /\ EndOK' /\ SaidOK' /\ CountOK'
  BY <1>1, <1>2 DEF DownInv, HandOK, EndOK, SaidOK, CountOK
<1> QED BY <1>3, <1>4 DEF DownInv

\* A file is replaced on the server.
LEMMA ServerChangesStep == ASSUME DownInv, NEW f \in Files, ServerChanges(f) PROVE DownInv'
<1>1. /\ ver[f] < Len(Size[f]) /\ ver' = [ver EXCEPT ![f] = @ + 1]
      /\ UNCHANGED <<served, server, diskVars, row, aborted, sock, wait, worker, seen, cut,
                     refused, unopened>>
  BY DEF ServerChanges
<1>2. disk' = disk /\ ledger' = ledger /\ asLeft' = asLeft
  BY <1>1 DEF diskVars
<1>3. ver \in [Files -> Nat] /\ \A g \in Files : ver[g] \in 1..Len(Size[g]) /\ Len(Size[g]) \in Nat
  BY TreeFacts DEF DownInv, DownTypes
<1>4. /\ ver' \in [Files -> Nat] /\ \A g \in Files : ver'[g] \in 1..Len(Size[g]) /\ ver[g] <= ver'[g]
      /\ ver'[f] > 1 /\ \A g \in Files : g # f => ver'[g] = ver[g]
  BY <1>1, <1>3
<1>5. ver' # First /\ First' = First
  BY <1>4 DEF First
<1>6. \A g \in Files, w \in Filps : OfVersion(g, ver[g], w) => OfVersion(g, ver'[g], w)
  BY <1>3, <1>4 DEF OfVersion, Filps
<1>7. DownTypes' /\ RowOK' /\ RefusedOK'
  BY <1>1, <1>2, <1>4 DEF DownInv, DownTypes, RowOK, RefusedOK
<1>8. LedgerOK'
  <2> SUFFICES ASSUME NEW g \in Files
               PROVE  KeptOK(g, ver'[g], ledger[g], disk[g], g \in asLeft, g \notin unopened)
    BY <1>1, <1>2 DEF LedgerOK
  <2>1. KeptOK(g, ver[g], ledger[g], disk[g], g \in asLeft, g \notin unopened)
    BY DEF DownInv, LedgerOK
  <2>2. ledger[g].filp \in Filps
    BY DEF DownInv, DownTypes, Kepts
  <2> QED BY <1>6, <2>1, <2>2 DEF KeptOK
<1>9. EmptyOK'
  BY <1>2, <1>4 DEF DownInv, EmptyOK
<1>10. HandOK'
  <2> SUFFICES ASSUME worker.at \in Holding, worker.at # "filp"
               PROVE  WritesOK(worker, ver'[worker.file], disk[worker.file], worker.file \notin unopened)
    BY <1>1, <1>2 DEF DownInv, HandOK
  <2>1. WritesOK(worker, ver[worker.file], disk[worker.file], worker.file \notin unopened)
    BY DEF DownInv, HandOK
  <2>2. worker.file \in Files /\ worker.was \in Filps
    BY DEF DownInv, DownTypes, HandOK, Workers
  <2> QED BY <1>6, <2>1, <2>2 DEF WritesOK
<1>11. EndOK'
  BY <1>1, <1>2 DEF DownInv, EndOK
<1>12. SaidOK' /\ CountOK'
  BY <1>1, <1>5 DEF DownInv, SaidOK, CountOK
<1> QED BY <1>7, <1>8, <1>9, <1>10, <1>11, <1>12 DEF DownInv

\* Another program writes or removes a file that is not in hand.
LEMMA LocalChangesStep == ASSUME DownInv, NEW f \in Touched, LocalChanges(f) PROVE DownInv'
<1>1. PICK to \in {NoFile, Foreign} :
         /\ disk' = [disk EXCEPT ![f] = to] /\ asLeft' = asLeft \ {f} /\ unopened' = unopened \ {f}
         /\ UNCHANGED <<serverVars, ledger, row, aborted, sock, wait, worker, seen, cut, refused>>
  BY DEF LocalChanges
<1>2. f \in Files
  BY TreeAssumption
<1>3. NoFile \in Locals /\ Foreign \in Locals
  <2>1. << >> \in Blocks /\ << <<0, 1>> >> \in Blocks
    BY DEF Blocks
  <2> QED BY <2>1 DEF NoFile, Foreign, Local, Locals
<1>4. disk' \in [Files -> Locals] /\ \A g \in Files : g # f => disk'[g] = disk[g]
  BY <1>1, <1>2, <1>3 DEF DownInv, DownTypes
<1>5. ver' = ver /\ served' = served /\ server' = server
  BY <1>1 DEF serverVars
<1>6. worker.at \in Holding => worker.file # f
  BY DEF LocalChanges, Holding
<1>7. DownTypes' /\ RowOK' /\ RefusedOK'
  <2>1. asLeft' \subseteq {g \in Files : disk'[g].there}
    BY <1>1, <1>4 DEF DownInv, DownTypes
  <2> QED BY <1>1, <1>4, <1>5, <2>1 DEF DownInv, DownTypes, RowOK, RefusedOK
<1>8. LedgerOK'
  <2> SUFFICES ASSUME NEW g \in Files
               PROVE  KeptOK(g, ver[g], ledger[g], disk'[g], g \in asLeft', g \notin unopened')
    BY <1>1, <1>5 DEF LedgerOK
  <2>1. KeptOK(g, ver[g], ledger[g], disk[g], g \in asLeft, g \notin unopened)
    BY DEF DownInv, LedgerOK
  <2>2. CASE g = f
    <3>1. g \notin asLeft'
      BY <1>1, <2>2
    <3> QED BY <2>1, <3>1 DEF KeptOK
  <2>3. CASE g # f
    <3>1. disk'[g] = disk[g] /\ (g \in asLeft' <=> g \in asLeft) /\ (g \in unopened' <=> g \in unopened)
      BY <1>1, <1>4, <2>3
    <3> QED BY <2>1, <3>1 DEF KeptOK
  <2> QED BY <2>2, <2>3
<1>9. EmptyOK'
  BY <1>4, <1>5 DEF DownInv, EmptyOK
<1>10. HandOK'
  <2>1. worker' = worker /\ ledger' = ledger /\ seen' = seen /\ refused' = refused
    BY <1>1
  <2>2. worker.at \in Holding =>
           /\ worker.file \in Files /\ worker.file # f
           /\ worker.file \in asLeft' <=> worker.file \in asLeft
           /\ worker.file \in unopened' <=> worker.file \in unopened
           /\ disk'[worker.file] = disk[worker.file]
    <3>1. worker.at \in Holding => worker.file \in Files
      BY DEF DownInv, HandOK
    <3> QED BY <1>1, <1>4, <1>6, <3>1
  <2>3. WritesOK(worker, ver[worker.file], disk[worker.file], worker.file \notin unopened)
        /\ worker.at \in Holding
        => WritesOK(worker, ver[worker.file], disk'[worker.file], worker.file \notin unopened')
    BY <2>2 DEF WritesOK
  <2> QED BY <1>5, <2>1, <2>2, <2>3 DEF DownInv, HandOK
<1>11. EndOK' /\ SaidOK' /\ CountOK'
  BY <1>1, <1>5 DEF DownInv, EndOK, SaidOK, CountOK
<1> QED BY <1>7, <1>8, <1>9, <1>10, <1>11 DEF DownInv

-----------------------------------------------------------------------------
(* The invariant, and what follows.                                         *)

\* At first nothing is kept and nobody works.
LEMMA DownInitInv == ASSUME DownInit PROVE DownInv
<1>1. /\ ver = [f \in Files |-> 1] /\ served = 0 /\ asLeft = {}
      /\ ledger = [f \in Files |-> NotKept] /\ row = "ready" /\ aborted = FALSE
      /\ sock = "none" /\ wait = "stall" /\ worker = Idle /\ seen = Unseen
      /\ cut = FALSE /\ refused = {} /\ unopened = {}
      /\ disk \in [Files -> {NoFile, Foreign}] /\ \A f \in Files \ Touched : disk[f] = NoFile
  BY DEF DownInit
<1>2. server \in [style : Styles, announces : Announces]
  BY DEF DownInit
<1>3. NoFile \in Locals /\ Foreign \in Locals /\ ~NoFile.there
  <2>1. << >> \in Blocks /\ << <<0, 1>> >> \in Blocks
    BY DEF Blocks
  <2> QED BY <2>1 DEF NoFile, Foreign, Local, Locals
<1>4. worker \in Workers /\ worker.at = "idle"
  BY <1>1 DEF Workers, Points, Idle, NoFilp, Filps
<1>5. NotKept \in Kepts /\ NotKept.filp = NoFilp /\ NotKept.whole = FALSE
  BY DEF NotKept, Kepts, Filps, NoFilp
<1>6. DOMAIN seen = {"received", "forks", "items", "size"} /\ seen.forks = 0 /\ seen.received = 0
  BY <1>1 DEF Unseen
<1>7. DownTypes
  <2>1. 0 \in 0..Len(Tree) /\ \A f \in Files : 1 \in 1..Len(Size[f])
    BY TreeFacts
  <2>2. disk \in [Files -> Locals] /\ ledger \in [Files -> Kepts]
    BY <1>1, <1>3, <1>5
  <2>3. ver \in [Files -> Nat] /\ \A f \in Files : ver[f] \in 1..Len(Size[f])
    BY <1>1, <2>1
  <2>4. asLeft \subseteq {f \in Files : disk[f].there}
    BY <1>1, Zenon
  <2>5. served \in 0..Len(Tree) /\ seen.forks \in Nat
    BY <1>1, <1>6, <2>1
  <2>6. /\ wait \in {"stall", "short"}
        /\ cut \in BOOLEAN /\ refused \subseteq Files /\ unopened \subseteq Files
    BY <1>1, Zenon
  <2> QED BY <1>2, <1>4, <1>6, <2>2, <2>3, <2>4, <2>5, <2>6, Zenon DEF DownTypes
<1>8. RowOK
  BY <1>1, <1>4, <1>6 DEF RowOK
<1>9. LedgerOK
  <2> SUFFICES ASSUME NEW f \in Files
               PROVE  KeptOK(f, ver[f], NotKept, disk[f], f \in asLeft, f \notin unopened)
    BY <1>1 DEF LedgerOK
  <2> QED BY <1>1, <1>5 DEF KeptOK
<1>10. EmptyOK /\ RefusedOK
  BY <1>1, <1>3 DEF EmptyOK, RefusedOK
<1>11. HandOK /\ SaidOK /\ CountOK /\ EndOK
  BY <1>1, <1>4 DEF HandOK, Holding, SaidOK, CountOK, EndOK
<1> QED BY <1>7, <1>8, <1>9, <1>10, <1>11 DEF DownInv

\* A step that changes nothing.
LEMMA DownStutter == ASSUME DownInv, UNCHANGED downVars PROVE DownInv'
<1>1. /\ ver' = ver /\ served' = served /\ server' = server /\ disk' = disk /\ ledger' = ledger
      /\ asLeft' = asLeft /\ row' = row /\ aborted' = aborted /\ sock' = sock /\ wait' = wait
      /\ worker' = worker /\ seen' = seen /\ cut' = cut /\ refused' = refused
      /\ unopened' = unopened
  BY DEF downVars, serverVars, diskVars
<1>2. DownTypes' /\ LedgerOK' /\ EmptyOK' /\ RefusedOK' /\ RowOK'
  BY <1>1 DEF DownInv, DownTypes, LedgerOK, EmptyOK, RefusedOK, RowOK
<1>3. HandOK' /\ EndOK' /\ SaidOK' /\ CountOK'
  BY <1>1 DEF DownInv, HandOK, EndOK, SaidOK, CountOK
<1> QED BY <1>2, <1>3 DEF DownInv

\* Every step keeps the invariant.
LEMMA DownStep == ASSUME DownInv, DownNext PROVE DownInv'
<1>1. CASE Ask
  BY <1>1, AskStep
<1>2. CASE PauseDown
  BY <1>2, PauseDownStep
<1>3. CASE SettleDown
  BY <1>3, SettleDownStep
<1>4. CASE Sends
  BY <1>4, EntryStep, FilpStep, FilpRefusedStep, BlockStep DEF Sends
<1>5. CASE WorkerStep
  BY <1>5, ConnectedStep, ConnectFailsStep, FileNextStep, FileNextFailsStep, EntryEndsStep,
     FileEndsStep, DrainedStep, SilentStep, StallStep DEF WorkerStep
<1>6. CASE OpenFails
  BY <1>6, OpenFailsStep
<1>7. CASE WriteFails
  BY <1>7, WriteFailsStep
<1>8. CASE ServerEnds
  BY <1>8, ServerEndsStep
<1>9. CASE \E f \in Files : ServerChanges(f)
  BY <1>9, ServerChangesStep
<1>10. CASE \E f \in Touched : LocalChanges(f)
  BY <1>10, LocalChangesStep
<1>11. CASE MkdirFails
  BY <1>11, MkdirFailsStep
<1> QED BY <1>1, <1>2, <1>3, <1>4, <1>5, <1>6, <1>7, <1>8, <1>9, <1>10, <1>11 DEF DownNext

\* All of it holds in every reachable state.
LEMMA DownInvariant == DownSpec => []DownInv
<1>1. DownInv /\ [DownNext]_downVars => DownInv'
  BY DownStep, DownStutter
<1> QED BY <1>1, DownInitInv, PTL DEF DownSpec

\* The first blocks of a version are the start of its content.
LEMMA StartIsPrefix ==
    ASSUME NEW f \in Files, NEW m \in 1..Len(Size[f]), NEW b \in Blocks, Start(b, m),
           Len(b) <= Size[f][m]
    PROVE  LET of == Content(f, m)
           IN  /\ Len(of) = Size[f][m] /\ b = SubSeq(of, 1, Len(b))
               /\ Len(b) = Size[f][m] => b = of
<1> DEFINE n == Size[f][m]
           of == Content(f, m)
           k == Len(b)
<1>1. n \in Nat /\ m \in Nat /\ k \in Nat /\ k <= n
  BY TreeFacts DEF Blocks
<1>2. of = [i \in 1..n |-> <<m, i>>]
  BY DEF Content
<1> HIDE DEF n, of
<1>3. of \in Seq(Nat \X Nat) /\ Len(of) = n /\ \A i \in 1..n : of[i] = <<m, i>>
  BY <1>1, <1>2
<1>4. b \in Seq(Nat \X Nat) /\ \A i \in 1..k : b[i] = <<m, i>>
  BY DEF Start, Blocks
<1> DEFINE s == SubSeq(of, 1, k)
<1>5. s \in Seq(Nat \X Nat) /\ Len(s) = k /\ \A i \in 1..k : s[i] = of[i]
  BY <1>1, <1>3
<1> HIDE DEF s
<1>6. b = s
  <2>1. \A i \in 1..Len(b) : b[i] = s[i]
    <3> SUFFICES ASSUME NEW i \in 1..k PROVE b[i] = s[i]
      OBVIOUS
    <3> HIDE DEF k
    <3>1. i \in 1..n
      BY <1>1
    <3> QED BY <1>3, <1>4, <1>5, <3>1, Zenon
  <2> QED BY <1>4, <1>5, <2>1, SeqEqual
<1>7. k = n => b = of
  <2>1. k = n => \A i \in 1..Len(b) : b[i] = of[i]
    BY <1>1, <1>3, <1>4
  <2> QED BY <1>3, <1>4, <2>1, SeqEqual
<1> QED BY <1>3, <1>6, <1>7 DEF s, n, of

\* What the ledger vouches for is on disk: the start of the one version it names, all of
\* it if it is whole.  Types hold, and a file refused is asked for whole.
THEOREM LedgerAlwaysHolds == DownSpec => []LedgerHolds
<1>1. ASSUME DownInv PROVE LedgerHolds
  <2>1. DownTypeOK
    <3>1. \A f \in Files : disk[f] \in Locals /\ ledger[f] \in Kepts
      BY <1>1 DEF DownInv, DownTypes
    <3>2. \A f \in Files :
            /\ disk[f].there \in BOOLEAN /\ disk[f].blocks \in Seq(Nat \X Nat)
            /\ ledger[f].len \in Nat /\ ledger[f].whole \in BOOLEAN
            /\ ledger[f].filp.len \in Nat /\ ledger[f].filp.modified \in Nat
      BY <3>1 DEF Locals, Blocks, Kepts, Filps
    <3>3. worker.at \in {"idle", "connect", "next", "entry", "filp", "fork", "drain", "ret"}
      BY <1>1 DEF DownInv, DownTypes, Workers, Points
    <3> QED BY <1>1, <3>2, <3>3 DEF DownTypeOK, DownInv, DownTypes, RowOK
  <2>2. LedgerIsTruth
    <3> SUFFICES ASSUME NEW f \in Files, f \notin unopened, f \in asLeft,
                        ~(ledger[f].whole /\ ledger[f].filp.len = 0), ledger[f].filp # NoFilp
                 PROVE  LET now == disk[f].blocks
                            of == Content(f, ledger[f].filp.modified)
                        IN  /\ Len(now) = ledger[f].len /\ Len(now) <= Len(of)
                            /\ now = SubSeq(of, 1, Len(now))
                            /\ ledger[f].whole => now = of
      BY DEF LedgerIsTruth, Truthful
    <3> DEFINE l == ledger[f]
               m == l.filp.modified
    <3>1. KeptOK(f, ver[f], l, disk[f], f \in asLeft, f \notin unopened)
      BY <1>1 DEF DownInv, LedgerOK
    <3>2. /\ l.filp.len # 0 /\ OfVersion(f, ver[f], l.filp) /\ l.len = Len(disk[f].blocks)
          /\ l.len <= l.filp.len /\ Start(disk[f].blocks, m) /\ (l.whole => l.len = l.filp.len)
      BY <3>1 DEF KeptOK
    <3>3. ver[f] \in 1..Len(Size[f]) /\ disk[f].blocks \in Blocks
      BY <1>1 DEF DownInv, DownTypes, Locals
    <3>4. m \in 1..Len(Size[f]) /\ l.filp.len = Size[f][m]
      BY <3>2, <3>3, TreeFacts DEF OfVersion
    <3> HIDE DEF l, m
    <3>5. /\ Len(Content(f, m)) = Size[f][m]
          /\ disk[f].blocks = SubSeq(Content(f, m), 1, Len(disk[f].blocks))
          /\ Len(disk[f].blocks) = Size[f][m] => disk[f].blocks = Content(f, m)
      BY <3>2, <3>3, <3>4, StartIsPrefix
    <3> QED BY <3>2, <3>4, <3>5 DEF l, m
  <2>3. RefusedIsAskedWhole
    BY <1>1 DEF DownInv, RefusedIsAskedWhole, HandOK, Holding, RefusedOK
  <2> QED BY <2>1, <2>2, <2>3 DEF LedgerHolds
<1> QED BY <1>1, DownInvariant, PTL

\* A download that is done has every file, unless the server ended it early, and the grace
\* is given only when nothing with bytes is left to come.
THEOREM EndIsAlwaysTheEnd == DownSpec => []EndIsTheEnd
<1>1. ASSUME DownInv PROVE EndIsTheEnd
  <2>1. FinishedIsWhole
    BY <1>1 DEF DownInv, EndOK, Arrived, FinishedIsWhole
  <2>2. GraceIsEarned
    <3> SUFFICES ASSUME worker.at = "entry", wait = "short", server.announces \in {"count", "size"},
                        \A f \in Files : ver[f] = 1 /\ (f \in Touched => Size[f][1] # 0),
                        NEW i \in served + 1..Len(Tree), Tree[i] # Folder
                 PROVE  Size[Tree[i]][1] = 0
      BY DEF GraceIsEarned
    <3>1. served \in 0..Len(Tree) /\ seen.received = served /\ seen.forks \in Nat /\ Len(Tree) \in Nat
      BY <1>1, TreeFacts DEF DownInv, DownTypes, RowOK
    <3>2. ver = First
      BY <1>1 DEF DownInv, DownTypes, First
    <3>3. \A f \in Touched : Size[f][1] # 0
      BY TreeAssumption
    <3>4. Graced(seen)
      BY <1>1 DEF DownInv, SaidOK
    <3>5. server.announces = "size"
      <4> SUFFICES ASSUME server.announces = "count" PROVE FALSE
        OBVIOUS
      <4>1. seen.items = Len(Tree)
        BY <1>1 DEF DownInv, SaidOK
      <4> QED BY <3>1, <3>4, <4>1, TreeFacts DEF Graced
    <3>6. seen.items = 0 /\ seen.size = Bytes(First)[Len(Tree)]
      BY <1>1, <3>2, <3>5 DEF DownInv, SaidOK
    <3>7. seen.forks >= Bytes(First)[Len(Tree)]
      BY <3>4, <3>6 DEF Graced
    <3>8. seen.forks <= Bytes(First)[served]
      BY <1>1, <3>2, <3>3 DEF DownInv, CountOK
    <3>9. i \in 1..Len(Tree) /\ i - 1 \in 0..Len(Tree) /\ i \in 0..Len(Tree) /\ served <= i - 1
          /\ i <= Len(Tree) /\ Len(Tree) \in 0..Len(Tree)
      BY <3>1
    <3>10. /\ Bytes(First)[served] <= Bytes(First)[i - 1]
           /\ Bytes(First)[i] <= Bytes(First)[Len(Tree)]
           /\ Bytes(First)[i] = Bytes(First)[i - 1] + ForkBytes(First, i)
           /\ ForkBytes(First, i) \in Nat
           /\ Bytes(First)[served] \in Nat /\ Bytes(First)[i - 1] \in Nat
           /\ Bytes(First)[i] \in Nat /\ Bytes(First)[Len(Tree)] \in Nat
      BY <3>1, <3>9, TreeSum
    <3>11. ForkBytes(First, i) = 0
      <4> HIDE DEF First
      <4> QED BY <3>1, <3>7, <3>8, <3>10, SMTT(40)
    <3>12. Tree[i] \in Files /\ First[Tree[i]] = 1
      <4>1. Tree[i] \in Files
        BY <3>9, TreeFacts
      <4> QED BY <4>1 DEF First
    <3> QED BY <3>11, <3>12 DEF ForkBytes
  <2> QED BY <2>1, <2>2 DEF EndIsTheEnd
<1> QED BY <1>1, DownInvariant, PTL

\* Nobody is told of a stall before it returns: the only read that may time out and go on
\* waits for a trailing marker, and not for as long as a stall.
UnstalledYet ==
    /\ worker.at # "ret" => ~worker.stalled
    /\ worker.at = "drain" => wait = "short"

\* A step that does not end in a stall keeps it, and tells of none.
LEMMA UnstalledStep ==
    ASSUME DownInv, UnstalledYet, DownNext
    PROVE  /\ UnstalledYet'
           /\ worker'.at = "ret" /\ worker'.stalled /\ worker.at # "ret" => Stall
<1> DEFINE Goal == /\ UnstalledYet'
                   /\ worker'.at = "ret" /\ worker'.stalled /\ worker.at # "ret" => Stall
<1>0. worker \in Workers
  BY DEF DownInv, DownTypes
<1>1. ASSUME worker' = worker, wait' = wait PROVE Goal
  BY <1>1 DEF UnstalledYet
<1>2. ASSUME NEW rv, Return(rv), worker.at # "ret" PROVE Goal
  <2>1. worker'.at = "ret" /\ worker'.stalled = worker.stalled
    BY <1>2 DEF Return, Idle
  <2> QED BY <1>2, <2>1 DEF UnstalledYet
<1>3. ASSUME ReturnBroken(FALSE), worker.at # "ret" PROVE Goal
  <2>1. worker'.at = "ret" /\ worker'.stalled = (worker.stalled \/ FALSE)
    BY <1>3 DEF ReturnBroken, Idle
  <2> QED BY <1>3, <2>1 DEF UnstalledYet
<1>4. ASSUME worker.at # "ret", worker'.at \notin {"ret", "drain"}, worker'.stalled = worker.stalled
      PROVE  Goal
  BY <1>4 DEF UnstalledYet
<1>5. CASE Ask \/ SettleDown
  <2>1. worker'.at \in {"connect", "idle"} /\ worker'.stalled = FALSE
    BY <1>5 DEF Ask, SettleDown, Idle
  <2> QED BY <2>1 DEF UnstalledYet
<1>6. CASE PauseDown \/ ServerEnds \/ (\E f \in Files : ServerChanges(f))
           \/ \E f \in Touched : LocalChanges(f)
  BY <1>1, <1>6 DEF PauseDown, ServerEnds, ServerChanges, LocalChanges
<1>7. CASE Entry
  <2>1. worker.at # "ret" /\ worker'.at \in {"next", "filp"} /\ worker'.stalled = worker.stalled
    BY <1>0, <1>7 DEF Entry, Workers
  <2> QED BY <1>4, <2>1
<1>8. CASE Filp
  <2> DEFINE len == ForkLen(worker.file, worker.from)
             desc == Described(DataFrom(worker.was, worker.from, len, ver[worker.file]), len, worker.file)
  <2>1. /\ worker.at = "filp"
        /\ worker' = [worker EXCEPT !.was = desc, !.at = IF len = 0 THEN "drain" ELSE "fork"]
        /\ wait' = (IF len = 0 THEN "short" ELSE wait)
    BY <1>8 DEF Filp
  <2> HIDE DEF len, desc
  <2>2. worker'.at = (IF len = 0 THEN "drain" ELSE "fork") /\ worker'.stalled = worker.stalled
    BY <1>0, <2>1 DEF Workers
  <2> QED BY <2>1, <2>2 DEF UnstalledYet
<1>9. CASE Block
  <2> DEFINE last == Len(Append(disk[worker.file].blocks, <<worker.was.modified,
                               Len(disk[worker.file].blocks) + 1>>)) = worker.was.len
  <2>1. /\ worker.at = "fork"
        /\ worker' = [worker EXCEPT !.at = IF last THEN "drain" ELSE "fork"]
        /\ wait' = (IF last THEN "short" ELSE wait)
    BY <1>9 DEF Block
  <2> HIDE DEF last
  <2>2. worker'.at = (IF last THEN "drain" ELSE "fork") /\ worker'.stalled = worker.stalled
    BY <1>0, <2>1 DEF Workers
  <2> QED BY <2>1, <2>2 DEF UnstalledYet
<1>10. CASE Drained
  <2>1. worker.at = "drain" /\ wait = "short"
    BY <1>10 DEF Drained, UnstalledYet
  <2>2. PICK quiet \in BOOLEAN :
           worker' = [worker EXCEPT !.at = "next", !.broke = @ \/ quiet,
                        !.stalled = @ \/ (quiet /\ sock = "open" /\ NoteTimeout(wait))]
    BY <1>10 DEF Drained
  <2>3. NoteTimeout(wait) = FALSE /\ worker.stalled = FALSE
    BY <1>0, <2>1 DEF NoteTimeout, UnstalledYet, Workers
  <2>4. \A x, y : LET w == [worker EXCEPT !.at = "next", !.broke = x, !.stalled = y]
                  IN  w.at = "next" /\ w.stalled = y
    BY <1>0 DEF Workers
  <2>5. /\ worker'.at = "next"
        /\ worker'.stalled = (worker.stalled \/ (quiet /\ sock = "open" /\ NoteTimeout(wait)))
    BY <2>2, <2>4
  <2> QED BY <2>3, <2>5 DEF UnstalledYet
<1>11. CASE Connected \/ FileNext
  <2>1. worker.at # "ret" /\ worker'.at \in {"next", "entry"} /\ worker'.stalled = worker.stalled
    BY <1>0, <1>11 DEF Connected, FileNext, Workers
  <2> QED BY <1>4, <2>1
<1>12. CASE FilpRefused \/ MkdirFails \/ OpenFails \/ WriteFails \/ ConnectFails \/ Silent
  BY <1>2, <1>12 DEF FilpRefused, MkdirFails, OpenFails, WriteFails, ConnectFails, Silent
<1>13. CASE FileNextFails \/ FileEnds
  BY <1>3, <1>13 DEF FileNextFails, FileEnds
<1>14. CASE EntryEnds
  BY <1>2, <1>3, <1>14 DEF EntryEnds
<1>15. CASE Stall
  <2>1. worker'.at = "ret"
    BY <1>15 DEF Stall, ReturnBroken, Idle
  <2> QED BY <1>15, <2>1 DEF UnstalledYet
<1> QED BY <1>5, <1>6, <1>7, <1>8, <1>9, <1>10, <1>11, <1>12, <1>13, <1>14, <1>15
        DEF DownNext, Sends, WorkerStep

\* A failure is told as a stall only when the last read ran out of the stall bound.
THEOREM StallsAreToldTruly == DownSpec => StallIsToldOfAStall
<1>1. ASSUME DownInit PROVE UnstalledYet
  BY <1>1 DEF DownInit, Idle, UnstalledYet
<1>2. ASSUME DownInv, UnstalledYet, [DownNext]_downVars PROVE UnstalledYet'
  <2>1. CASE UNCHANGED downVars
    BY <1>2, <2>1 DEF downVars, UnstalledYet
  <2> QED BY <1>2, <2>1, UnstalledStep
<1>3. ASSUME DownInv, UnstalledYet, [DownNext]_downVars
      PROVE  [worker'.at = "ret" /\ Why(worker') = "stalled" /\ worker.at # "ret" => Stall]_downVars
  <2>1. Why(worker') = "stalled" => worker'.stalled
    BY DEF Why
  <2> QED BY <1>3, <2>1, UnstalledStep
<1> QED BY <1>1, <1>2, <1>3, DownInvariant, PTL DEF DownSpec, StallIsToldOfAStall

-----------------------------------------------------------------------------
(* The upload.                                                              *)

Items == UpFolders \cup UpFiles
Ledgers == [files : [UpFiles -> Nat], folders : SUBSET UpFolders, unsure : SUBSET UpFolders]
Runs == [ledger : Ledgers, resumed : BOOLEAN, again : Nat]
Rows == {"ready", "new", "asked", "restarted", "running", "winding",
         "paused", "changed", "failed", "done", "gone"}
Ups == [row : Rows, aborted : BOOLEAN, sure : BOOLEAN, run : Runs]
Senders == [at : {"idle", "connect", "next", "answer", "data", "finish", "ret"}, i : Nat,
            item : Items \cup {None}, asked : BOOLEAN, offered : UpFolders \cup {None},
            lost : BOOLEAN, skipped : SUBSET UpFolders, left : Nat,
            rv : {"ok", "unreachable", "again", "reoffer", "eio", "changed", "local"}]
Links == [sock : {"none", "open", "fin", "lost", "shut"},
          wire : {"idle", "next", "item", "pass", "send", "resume", "data"}, flight : 0..1]
Copies == [blocks : Seq(Nat \X Nat), whole : BOOLEAN]
Hosts == [kind : Servers, root : BOOLEAN, made : SUBSET UpFolders, held : [UpFiles -> Copies]]

UpTypes ==
    /\ upTree \in UpTrees
    /\ local \in [UpFiles -> Nat] /\ \A f \in UpFiles : local[f] \in 1..Len(LocalSize[f])
    /\ host \in Hosts /\ up \in Ups /\ sender \in Senders /\ link \in Links
    /\ strayed \in BOOLEAN

Ledger == up.run.ledger
Working == {"next", "answer", "data", "finish"}
TreeLen == Len(upTree)

\* The row and its ledger.
UpRowOK ==
    /\ up.aborted => up.row = "winding"
    /\ (sender.at = "idle") = (up.row \notin {"running", "winding"})
    /\ sender.at \in {"idle", "connect"} => link = NoLink
    /\ sender.at = "connect" => sender.item = None /\ sender.offered = None /\ ~sender.asked
    /\ up.row \in {"ready", "new"} => up.run = NewRun
    /\ up.row = "asked" \/ sender.at = "connect" => \E k \in 1..TreeLen : upTree[k] \notin Ledger.folders
    /\ up.run.again <= AgainTries
    /\ Ledger.folders \cap Ledger.unsure = {}
    /\ \A f \in UpFiles : Ledger.files[f] <= local[f]

\* What the server has of an item.
Handled(h, x) == IF x \in UpFiles THEN h.held[x].whole ELSE x \in h.made

\* What is on the connection is of the last item offered.
WireOK ==
    /\ link.wire = "item" => sender.item # None
    /\ link.wire \in {"pass", "send", "resume", "data"} => sender.item \in UpFiles
    /\ link.wire = "send" => host.held[sender.item] = NotHeld
    /\ link.wire = "data" => Ledger.files[sender.item] > 0
    /\ link.wire \in {"next", "pass"} /\ sender.item # None => Handled(host, sender.item)
    /\ link.sock = "fin" /\ ~strayed /\ sender.at \in Working =>
          \/ link.wire \in {"next", "pass"}
          \/ link.wire = "item" /\ sender.item \in UpFolders /\ Handled(host, sender.item)

\* Where the worker is in the tree.
PlaceOK ==
    sender.at \in Working =>
        /\ sender.i \in 1..TreeLen + 1
        /\ sender.at # "finish" => sender.i <= TreeLen
        /\ sender.at = "finish" => sender.i = TreeLen + 1
        /\ sender.at = "next" => upTree[sender.i] \notin Ledger.folders
        /\ sender.at \in {"answer", "data"} =>
              /\ sender.item = upTree[sender.i] /\ sender.item \in UpFiles
              /\ sender.offered = None /\ ~sender.asked
        /\ sender.at \in {"next", "finish"} /\ sender.item # None =>
              \E k \in 1..sender.i - 1 : upTree[k] = sender.item
        /\ sender.offered # None =>
              sender.offered = sender.item /\ sender.offered \notin Ledger.folders /\ ~sender.asked
        /\ sender.asked => link.wire = "pass"
        /\ sender.at = "data" => link.wire \in {"data", "next"}
        /\ sender.at \in {"next", "finish"} /\ link.wire \in {"item", "send", "resume"} =>
              sender.item \in UpFolders
        /\ \A d \in Ledger.folders :
              d \in sender.skipped \/ \E k \in 1..sender.i - 1 : upTree[k] = d

\* What lies behind it the server has, but for the last item while it is on its way.
BehindOK ==
    sender.at \in Working /\ ~strayed =>
        /\ sender.skipped \subseteq host.made
        /\ \A k \in 1..sender.i - 1 :
              \/ Handled(host, upTree[k])
              \/ /\ sender.at \in {"next", "finish"} /\ upTree[k] = sender.item
                 /\ link.wire \in {"item", "data"}

\* The server's blocks of a file are of the version the ledger says was sent.
BlocksOK ==
    \A f \in UpFiles : \A k \in 1..Len(host.held[f].blocks) :
        /\ host.held[f].blocks[k][1] > 0
        /\ f \notin forgotten => host.held[f].blocks[k][1] = Ledger.files[f]

\* An upload whose end the server saw.
UpEndOK ==
    up.sure /\ (up.row = "done" \/ (sender.at = "ret" /\ sender.rv = "ok")) =>
        link.sock # "open" /\ (strayed \/ \A k \in 1..TreeLen : Handled(host, upTree[k]))

UpInv ==
    /\ UpTypes /\ UpRowOK /\ WireOK /\ PlaceOK /\ BehindOK /\ BlocksOK /\ UpEndOK
    /\ TakenIsMade

\* The local tree: its items, each once and below what it lies in.
LEMMA UpTreeFacts ==
    ASSUME upTree \in UpTrees
    PROVE  /\ TreeLen \in Nat /\ TreeLen > 0
           /\ \A k \in 1..TreeLen : upTree[k] \in Items /\ upTree[k] # None
           /\ \A j, k \in 1..TreeLen : upTree[j] = upTree[k] => j = k
           /\ \A k \in 1..TreeLen : \A d \in Above[upTree[k]] : \E j \in 1..k - 1 : upTree[j] = d
           /\ None \notin UpFolders /\ None \notin UpFiles /\ UpFolders \cap UpFiles = {}
<1>1. /\ upTree \in Seq(UpFolders \cup UpFiles) /\ upTree # << >>
      /\ \A i, j \in 1..Len(upTree) : upTree[i] = upTree[j] => i = j
      /\ \A i \in 1..Len(upTree) : \A d \in Above[upTree[i]] : \E j \in 1..i - 1 : upTree[j] = d
  BY UpAssumption
<1>2. TreeLen \in Nat /\ TreeLen > 0 /\ \A k \in 1..TreeLen : upTree[k] \in Items
  BY <1>1 DEF TreeLen, Items
<1>3. None \notin UpFolders /\ None \notin UpFiles /\ UpFolders \cap UpFiles = {}
  BY UpAssumption DEF None
<1> QED BY <1>1, <1>2, <1>3 DEF TreeLen, Items

\* A set of numbers has a least one.
LEMMA LeastOf ==
    ASSUME NEW T, T \subseteq Nat, T # {}
    PROVE  \E t \in T : \A k \in T : t <= k
<1> DEFINE less == OpToRel(<, Nat)
<1>1. IsWellFoundedOn(less, Nat)
  BY NatLessThanWellFounded
<1>2. \A x, y \in Nat : <<x, y>> \in less <=> x < y
  BY Zenon DEF OpToRel
<1> HIDE DEF less
<1>3. PICK t \in T : \A k \in T : ~(<<k, t>> \in less)
  BY <1>1, WFMin
<1>4. \A k \in T : t <= k
  <2> SUFFICES ASSUME NEW k \in T PROVE t <= k
    OBVIOUS
  <2>1. k \in Nat /\ t \in Nat
    OBVIOUS
  <2>2. ~(k < t)
    BY <1>2, <1>3, <2>1
  <2> QED BY <2>1, <2>2
<1> QED BY <1>4

\* The first item from i on that is not one of F.
LEMMA PendingFacts ==
    ASSUME upTree \in UpTrees, NEW i \in 1..TreeLen + 1, NEW F
    PROVE  /\ Pending(i, F) \in i..TreeLen + 1
           /\ Pending(i, F) <= TreeLen => upTree[Pending(i, F)] \notin F
           /\ \A k \in i..Pending(i, F) - 1 : upTree[k] \in F
<1> DEFINE left == {j \in i..TreeLen : upTree[j] \notin F}
           p == Pending(i, F)
<1>1. TreeLen \in Nat
  BY UpTreeFacts
<1>2. p = (IF left = {} THEN TreeLen + 1 ELSE CHOOSE j \in left : \A k \in left : j <= k)
  BY DEF Pending, TreeLen
<1>3. CASE left = {}
  <2>1. p = TreeLen + 1
    BY <1>2, <1>3
  <2>2. \A k \in i..TreeLen : upTree[k] \in F
    BY <1>3
  <2> HIDE DEF p, left
  <2>3. \A k \in i..p - 1 : upTree[k] \in F
    BY <1>1, <2>1, <2>2
  <2> QED BY <1>1, <2>1, <2>3 DEF p
<1>4. CASE left # {}
  <2>1. left \subseteq Nat
    BY <1>1
  <2>2. \E j \in left : \A k \in left : j <= k
    <3> HIDE DEF left
    <3> QED BY <1>4, <2>1, LeastOf
  <2>3. p \in left /\ \A k \in left : p <= k
    BY <1>2, <1>4, <2>2
  <2>4. p \in i..TreeLen /\ upTree[p] \notin F
    BY <2>3
  <2>5. \A k \in i..p - 1 : k \in i..TreeLen /\ ~(p <= k)
    <3> HIDE DEF p
    <3> QED BY <1>1, <2>4
  <2>6. \A k \in i..p - 1 : upTree[k] \in F
    BY <2>3, <2>5
  <2> HIDE DEF p, left
  <2> QED BY <1>1, <2>4, <2>6 DEF p
<1> QED BY <1>3, <1>4

\* What the versions are.
LEMMA SizeFacts ==
    /\ \A f \in UpFiles : LocalSize[f] \in Seq(Nat) /\ Len(LocalSize[f]) \in Nat /\ Len(LocalSize[f]) > 0
    /\ \A f \in UpFiles : \A m \in 1..Len(LocalSize[f]) : LocalSize[f][m] \in Nat
<1> SUFFICES ASSUME NEW f \in UpFiles
             PROVE  /\ LocalSize[f] \in Seq(Nat) /\ Len(LocalSize[f]) \in Nat /\ Len(LocalSize[f]) > 0
                    /\ \A m \in 1..Len(LocalSize[f]) : LocalSize[f][m] \in Nat
  OBVIOUS
<1>1. LocalSize[f] \in Seq(Nat) /\ LocalSize[f] # << >>
  BY UpAssumption
<1> QED BY <1>1

\* The ledger's two changes to its folders.
LEMMA LedgerChanges ==
    ASSUME NEW l \in Ledgers, NEW d \in UpFolders \cup {None}
    PROVE  /\ Made(l, d) \in Ledgers /\ Unsure(l, d) \in Ledgers
           /\ Made(l, d).files = l.files /\ Unsure(l, d).files = l.files
           /\ Unsure(l, d).folders = l.folders
           /\ d = None => Made(l, d) = l /\ Unsure(l, d) = l
           /\ d # None => /\ Made(l, d).folders = l.folders \cup {d} /\ Made(l, d).unsure = l.unsure \ {d}
                          /\ Unsure(l, d).unsure = l.unsure \cup {d}
  BY DEF Ledgers, Made, Unsure

\* The rests.
LEMMA RestTypes ==
    /\ NoLedger \in Ledgers /\ NewRun \in Runs /\ AtRest \in Senders /\ NoLink \in Links
    /\ NotHeld \in Copies
    /\ NoLedger.folders = {} /\ NoLedger.unsure = {} /\ \A f \in UpFiles : NoLedger.files[f] = 0
    /\ NewRun.ledger = NoLedger /\ NewRun.again = 0
    /\ AtRest.at = "idle" /\ AtRest.item = None /\ AtRest.rv = "ok"
    /\ NoLink.sock = "none" /\ NoLink.wire = "idle" /\ NoLink.flight = 0
    /\ NotHeld.blocks = << >> /\ NotHeld.whole = FALSE
<1>1. NoLedger \in Ledgers
  BY DEF NoLedger, Ledgers
<1>2. NewRun \in Runs
  BY <1>1 DEF NewRun, Runs
<1>3. AtRest \in Senders
  BY DEF AtRest, Senders
<1>4. NoLink \in Links
  BY DEF NoLink, Links
<1>5. NotHeld \in Copies
  BY DEF NotHeld, Copies
<1> QED BY <1>1, <1>2, <1>3, <1>4, <1>5 DEF NoLedger, NewRun, AtRest, NoLink, NotHeld

\* An upload and its row.
LEMMA WithRow ==
    ASSUME NEW u \in Ups, NEW r \in Rows, NEW v, v = [u EXCEPT !.row = r]
    PROVE  /\ v \in Ups /\ v.row = r /\ v.aborted = u.aborted /\ v.sure = u.sure
           /\ v.run = u.run
  BY DEF Ups

\* What a resume makes of an upload.
LEMMA ResumedFacts ==
    ASSUME upTree \in UpTrees, NEW u \in Ups, NEW v, v = Resumed(u)
    PROVE  /\ v \in Ups /\ v.row \in {"changed", "done", "asked"}
           /\ v.aborted = u.aborted /\ v.sure = u.sure
           /\ v.run.ledger = u.run.ledger /\ v.run.again = u.run.again
           /\ v.row = "asked" => \E k \in 1..TreeLen : upTree[k] \notin u.run.ledger.folders
           /\ v.row = "done" => \A k \in 1..TreeLen : upTree[k] \in u.run.ledger.folders
<1> DEFINE F == u.run.ledger.folders
           p == Pending(1, F)
<1>1. TreeLen \in Nat /\ TreeLen > 0
  BY UpTreeFacts
<1>2. /\ p \in 1..TreeLen + 1
      /\ p <= TreeLen => upTree[p] \notin F
      /\ \A k \in 1..p - 1 : upTree[k] \in F
  <2>1. 1 \in 1..TreeLen + 1
    BY <1>1
  <2> QED BY <2>1, PendingFacts
<1> HIDE DEF p
<1>3. CASE Changed(u.run.ledger)
  <2>1. v = [u EXCEPT !.row = "changed"]
    BY <1>3 DEF Resumed
  <2>2. "changed" \in Rows
    BY DEF Rows
  <2> QED BY <2>1, <2>2, WithRow
<1>4. CASE ~Changed(u.run.ledger) /\ p > TreeLen
  <2>1. v = [u EXCEPT !.row = "done"]
    BY <1>4 DEF Resumed, p, TreeLen
  <2>2. "done" \in Rows
    BY DEF Rows
  <2>3. \A k \in 1..TreeLen : upTree[k] \in F
    <3>1. \A k \in 1..TreeLen : k \in 1..p - 1
      BY <1>1, <1>2, <1>4
    <3> QED BY <1>2, <3>1
  <2> QED BY <2>1, <2>2, <2>3, WithRow
<1>5. CASE ~Changed(u.run.ledger) /\ ~(p > TreeLen)
  <2>1. v = [u EXCEPT !.row = "asked", !.run.resumed = TRUE]
    BY <1>5 DEF Resumed, p, TreeLen
  <2>2. p \in 1..TreeLen /\ upTree[p] \notin F
    BY <1>1, <1>2, <1>5
  <2>3. /\ v \in Ups /\ v.row = "asked"
        /\ v.aborted = u.aborted /\ v.sure = u.sure
        /\ v.run.ledger = u.run.ledger /\ v.run.again = u.run.again
    <3> DEFINE r == [u.run EXCEPT !.resumed = TRUE]
    <3>1. u.run \in Runs
      BY DEF Ups
    <3>2. r \in Runs /\ r.ledger = u.run.ledger /\ r.again = u.run.again
      BY <3>1 DEF Runs
    <3>3. v = [u EXCEPT !.row = "asked", !.run = r]
      BY <2>1, Zenon
    <3> HIDE DEF r
    <3>4. v \in Ups /\ v.row = "asked" /\ v.aborted = u.aborted /\ v.sure = u.sure /\ v.run = r
      BY <3>2, <3>3 DEF Ups, Rows
    <3> QED BY <3>2, <3>4
  <2> QED BY <2>2, <2>3
<1> QED BY <1>3, <1>4, <1>5

\* A step that leaves all but the row alone.
LEMMA RowFrame ==
    ASSUME UpInv, UNCHANGED <<upTree, local, host, sender, link, strayed, forgotten>>,
           up'.run.ledger = up.run.ledger
    PROVE  WireOK' /\ PlaceOK' /\ BehindOK' /\ BlocksOK' /\ TakenIsMade'
<1>1. Ledger' = Ledger /\ TreeLen' = TreeLen
  BY DEF Ledger, TreeLen
<1>2. WireOK'
  BY <1>1 DEF UpInv, WireOK
<1>3. PlaceOK'
  BY <1>1 DEF UpInv, PlaceOK
<1>4. BehindOK'
  BY <1>1 DEF UpInv, BehindOK
<1>5. BlocksOK'
  BY <1>1 DEF UpInv, BlocksOK
<1>6. TakenIsMade'
  BY DEF UpInv, TakenIsMade
<1> QED BY <1>2, <1>3, <1>4, <1>5, <1>6

\* `hx_put_folder` keeps the invariant.
LEMMA PutFolderStep ==
    ASSUME UpInv, PutFolder
    PROVE  UpInv'
<1>1. up \in Ups /\ "new" \in Rows /\ up.row = "ready"
  BY DEF UpInv, UpTypes, PutFolder, Rows
<1>2. up' = [up EXCEPT !.row = "new"]
  BY DEF PutFolder
<1>3. /\ up' \in Ups /\ up'.row = "new" /\ up'.aborted = up.aborted /\ up'.sure = up.sure
      /\ up'.run = up.run
  BY <1>1, <1>2, WithRow
<1>4. UNCHANGED <<upTree, local, host, sender, link, strayed, forgotten>>
  BY DEF PutFolder
<1>5. WireOK' /\ PlaceOK' /\ BehindOK' /\ BlocksOK' /\ TakenIsMade'
  BY <1>3, <1>4, RowFrame
<1>6. UpTypes'
  BY <1>3, <1>4 DEF UpInv, UpTypes
<1>7. UpRowOK'
  BY <1>1, <1>3, <1>4 DEF UpInv, UpRowOK, Ledger, TreeLen
<1>8. UpEndOK'
  BY <1>1, <1>3, <1>4 DEF UpInv, UpEndOK, UpRowOK
<1> QED BY <1>5, <1>6, <1>7, <1>8 DEF UpInv

\* `resume_folder` keeps the invariant: with every folder made and no file, all is there.
LEMMA ResumeStep ==
    ASSUME UpInv, Resume
    PROVE  UpInv'
<1>1. up \in Ups /\ upTree \in UpTrees /\ up.row \in {"paused", "failed"}
  BY DEF UpInv, UpTypes, Resume
<1>2. up' = Resumed(up)
  BY DEF Resume
<1>3. /\ up' \in Ups /\ up'.row \in {"changed", "done", "asked"}
      /\ up'.aborted = up.aborted /\ up'.sure = up.sure
      /\ up'.run.ledger = up.run.ledger /\ up'.run.again = up.run.again
      /\ up'.row = "asked" => \E k \in 1..TreeLen : upTree[k] \notin up.run.ledger.folders
      /\ up'.row = "done" => \A k \in 1..TreeLen : upTree[k] \in up.run.ledger.folders
  BY <1>1, <1>2, ResumedFacts
<1>4. UNCHANGED <<upTree, local, host, sender, link, strayed, forgotten>>
  BY DEF Resume
<1>5. WireOK' /\ PlaceOK' /\ BehindOK' /\ BlocksOK' /\ TakenIsMade'
  BY <1>3, <1>4, RowFrame
<1>6. UpTypes'
  BY <1>3, <1>4 DEF UpInv, UpTypes
<1>7. UpRowOK'
  BY <1>1, <1>3, <1>4 DEF UpInv, UpRowOK, Ledger, TreeLen
<1>8. UpEndOK'
  <2>1. sender.at = "idle" /\ link.sock = "none"
    BY <1>1, RestTypes DEF UpInv, UpRowOK
  <2>2. up'.row = "done" /\ ~strayed => \A k \in 1..TreeLen : Handled(host, upTree[k])
    <3>1. \A k \in 1..TreeLen : upTree[k] \in up.run.ledger.folders => upTree[k] \in host.made \/ strayed
      BY DEF UpInv, TakenIsMade
    <3>2. up.run.ledger.folders \subseteq UpFolders
      BY <1>1 DEF Ups, Runs, Ledgers
    <3>3. UpFolders \cap UpFiles = {}
      BY <1>1, UpTreeFacts
    <3> QED BY <1>3, <3>1, <3>2, <3>3 DEF Handled
  <2> QED BY <1>3, <1>4, <2>1, <2>2 DEF UpEndOK, TreeLen
<1> QED BY <1>5, <1>6, <1>7, <1>8 DEF UpInv

\* `upload_resume_refused` keeps the invariant.
LEMMA RefusesStep ==
    ASSUME UpInv, Refuses
    PROVE  UpInv'
<1>1. up \in Ups /\ up.row \in {"asked", "restarted"}
  BY DEF UpInv, UpTypes, Refuses
<1> DEFINE r == IF up.row = "asked" THEN "restarted" ELSE "paused"
<1>2. up' = [up EXCEPT !.row = r] /\ r \in Rows /\ r \in {"restarted", "paused"}
  BY DEF Refuses, Rows
<1> HIDE DEF r
<1>3. /\ up' \in Ups /\ up'.row = r /\ up'.aborted = up.aborted /\ up'.sure = up.sure
      /\ up'.run = up.run
  BY <1>1, <1>2, WithRow
<1>4. UNCHANGED <<upTree, local, host, sender, link, strayed, forgotten>>
  BY DEF Refuses
<1>5. WireOK' /\ PlaceOK' /\ BehindOK' /\ BlocksOK' /\ TakenIsMade'
  BY <1>3, <1>4, RowFrame
<1>6. UpTypes'
  BY <1>3, <1>4 DEF UpInv, UpTypes
<1>7. UpRowOK'
  BY <1>1, <1>2, <1>3, <1>4 DEF UpInv, UpRowOK, Ledger, TreeLen
<1>8. UpEndOK'
  BY <1>1, <1>2, <1>3, <1>4 DEF UpInv, UpEndOK, UpRowOK
<1> QED BY <1>5, <1>6, <1>7, <1>8 DEF UpInv

\* `answered` keeps the invariant: what the server holds as the ledger is dropped is forgotten.
LEMMA AcceptStep ==
    ASSUME UpInv, Accept
    PROVE  UpInv'
<1> DEFINE run == IF up.row = "restarted" THEN NewRun ELSE up.run
<1>1. /\ up \in Ups /\ host \in Hosts /\ upTree \in UpTrees
      /\ up.row \in {"new", "asked", "restarted"} /\ sender.at = "idle" /\ link = NoLink
  BY DEF UpInv, UpTypes, Accept, UpRowOK
<1>2. up' = [up EXCEPT !.row = "running", !.run = run]
  BY DEF Accept
<1>3. run \in Runs /\ run.again <= AgainTries
  <2>1. up.run \in Runs /\ up.run.again <= AgainTries /\ 0 <= AgainTries
    BY <1>1, UpAssumption DEF Ups, UpInv, UpRowOK
  <2> QED BY <2>1, RestTypes
<1>4. \/ run = NewRun /\ run.ledger.folders = {} /\ run.ledger.unsure = {}
         /\ \A f \in UpFiles : run.ledger.files[f] = 0
      \/ up.row = "asked" /\ run = up.run
  BY <1>1, RestTypes DEF UpInv, UpRowOK
<1>5. up.row # "restarted" => run = up.run /\ forgotten' = forgotten
  BY DEF Accept
<1>6. up.row = "restarted" => forgotten' = {f \in UpFiles : host.held[f] # NotHeld}
  BY DEF Accept
<1> HIDE DEF run
<1>7. up' \in Ups /\ up'.row = "running" /\ up'.aborted = up.aborted /\ up'.run = run
  BY <1>1, <1>2, <1>3 DEF Ups, Rows
<1>8. host' = [host EXCEPT !.root = TRUE]
  BY DEF Accept
<1>9. host' \in Hosts /\ host'.made = host.made /\ host'.held = host.held
  BY <1>1, <1>8 DEF Hosts
<1>10. sender' = [AtRest EXCEPT !.at = "connect"]
  BY DEF Accept
<1>11. /\ sender' \in Senders /\ sender'.at = "connect"
       /\ sender'.item = None /\ sender'.offered = None /\ ~sender'.asked
  BY <1>10, RestTypes DEF Senders, AtRest
<1>12. UNCHANGED <<upTree, local, link, strayed>>
  BY DEF Accept
<1>13. UpTypes'
  BY <1>7, <1>9, <1>11, <1>12 DEF UpInv, UpTypes
<1>14. UpRowOK'
  <2>1. up'.aborted => FALSE
    BY <1>1, <1>7 DEF UpInv, UpRowOK
  <2>2. \E k \in 1..TreeLen : upTree[k] \notin run.ledger.folders
    <3>1. CASE run.ledger.folders = {}
      <4>1. 1 \in 1..TreeLen
        BY <1>1, UpTreeFacts
      <4> QED BY <3>1, <4>1
    <3>2. CASE up.row = "asked" /\ run = up.run
      BY <3>2 DEF UpInv, UpRowOK, Ledger
    <3> QED BY <1>4, <3>1, <3>2
  <2>3. /\ run.ledger.folders \cap run.ledger.unsure = {}
        /\ \A f \in UpFiles : run.ledger.files[f] <= local[f]
    BY <1>4 DEF UpInv, UpRowOK, UpTypes, Ledger
  <2> QED BY <1>1, <1>3, <1>7, <1>11, <1>12, <2>1, <2>2, <2>3 DEF UpRowOK, Ledger, TreeLen
<1>15. WireOK'
  BY <1>1, <1>12, RestTypes DEF WireOK
<1>16. PlaceOK' /\ BehindOK' /\ UpEndOK'
  BY <1>7, <1>11 DEF PlaceOK, BehindOK, UpEndOK, Working
<1>17. BlocksOK'
  <2> SUFFICES ASSUME NEW f \in UpFiles, NEW k \in 1..Len(host.held[f].blocks)
               PROVE  /\ host.held[f].blocks[k][1] > 0
                      /\ f \notin forgotten' => host.held[f].blocks[k][1] = run.ledger.files[f]
    BY <1>7, <1>9 DEF BlocksOK, Ledger
  <2>1. /\ host.held[f].blocks[k][1] > 0
        /\ f \notin forgotten => host.held[f].blocks[k][1] = up.run.ledger.files[f]
    BY DEF UpInv, BlocksOK, Ledger
  <2>2. CASE up.row # "restarted"
    BY <1>5, <2>1, <2>2
  <2>3. CASE up.row = "restarted"
    <3>1. f \notin forgotten' => host.held[f].blocks = << >>
      BY <1>6, <2>3, RestTypes
    <3>2. f \notin forgotten' => Len(host.held[f].blocks) = 0
      BY <3>1
    <3> QED BY <2>1, <3>2
  <2> QED BY <2>2, <2>3
<1>18. TakenIsMade'
  BY <1>4, <1>7, <1>9, <1>12 DEF UpInv, TakenIsMade
<1> QED BY <1>13, <1>14, <1>15, <1>16, <1>17, <1>18 DEF UpInv

\* A deletion on the server, with no connection, keeps the invariant.
LEMMA ServerRemovesStep ==
    ASSUME UpInv, ServerRemoves
    PROVE  UpInv'
<1>1. sender.at = "idle" /\ link = NoLink /\ host \in Hosts
  BY DEF ServerRemoves, UpInv, UpRowOK, UpTypes
<1>2. host' = [host EXCEPT !.root = FALSE, !.made = {}, !.held = [f \in UpFiles |-> NotHeld]]
  BY DEF ServerRemoves
<1>3. host' \in Hosts /\ host'.held = [f \in UpFiles |-> NotHeld]
  <2> DEFINE none == [f \in UpFiles |-> NotHeld]
  <2>1. none \in [UpFiles -> Copies]
    BY RestTypes
  <2>2. host' = [host EXCEPT !.root = FALSE, !.made = {}, !.held = none]
    BY <1>2
  <2> HIDE DEF none
  <2>3. host' \in Hosts /\ host'.held = none
    BY <1>1, <2>1, <2>2 DEF Hosts
  <2> QED BY <2>3 DEF none
<1>4. UNCHANGED <<upTree, local, up, sender, link>> /\ strayed' = TRUE
  BY DEF ServerRemoves
<1>5. UpTypes' /\ UpRowOK'
  BY <1>3, <1>4 DEF UpInv, UpTypes, UpRowOK, Ledger, TreeLen
<1>6. WireOK'
  BY <1>1, <1>4, RestTypes DEF WireOK
<1>7. PlaceOK' /\ BehindOK' /\ TakenIsMade'
  BY <1>1, <1>4 DEF PlaceOK, BehindOK, TakenIsMade, Working
<1>8. UpEndOK'
  BY <1>1, <1>4, RestTypes DEF UpEndOK
<1>9. BlocksOK'
  <2>1. \A f \in UpFiles : Len(host'.held[f].blocks) = 0
    BY <1>3, RestTypes
  <2> QED BY <2>1 DEF BlocksOK
<1> QED BY <1>5, <1>6, <1>7, <1>8, <1>9 DEF UpInv

\* A local change keeps the invariant: versions only grow.
LEMMA LocalEditStep ==
    ASSUME UpInv, NEW g \in UpFiles, LocalEdit(g)
    PROVE  UpInv'
<1>1. UNCHANGED <<upTree, host, up, sender, link, strayed, forgotten>>
  BY DEF LocalEdit
<1>2. Ledger' = Ledger /\ TreeLen' = TreeLen
  BY <1>1 DEF Ledger, TreeLen
<1>3. WireOK' /\ PlaceOK' /\ BehindOK' /\ BlocksOK' /\ TakenIsMade' /\ UpEndOK'
  <2>1. WireOK' /\ BlocksOK'
    BY <1>1, <1>2 DEF UpInv, WireOK, BlocksOK
  <2>2. PlaceOK'
    BY <1>1, <1>2 DEF UpInv, PlaceOK
  <2>3. BehindOK' /\ TakenIsMade' /\ UpEndOK'
    BY <1>1, <1>2 DEF UpInv, BehindOK, TakenIsMade, UpEndOK
  <2> QED BY <2>1, <2>2, <2>3
<1>4. /\ local' \in [UpFiles -> Nat]
      /\ \A f \in UpFiles : local'[f] \in 1..Len(LocalSize[f]) /\ local[f] <= local'[f]
  <2>1. /\ local \in [UpFiles -> Nat] /\ \A f \in UpFiles : local[f] \in 1..Len(LocalSize[f])
        /\ local' = [local EXCEPT ![g] = @ + 1] /\ local[g] < Len(LocalSize[g])
    BY DEF LocalEdit, UpInv, UpTypes
  <2>2. \A f \in UpFiles : Len(LocalSize[f]) \in Nat
    BY SizeFacts
  <2> QED BY <2>1, <2>2
<1>5. UpTypes'
  BY <1>1, <1>4 DEF UpInv, UpTypes
<1>6. UpRowOK'
  <2>1. \A f \in UpFiles : Ledger.files[f] \in Nat /\ local[f] \in Nat /\ Ledger.files[f] <= local[f]
    BY DEF UpInv, UpTypes, UpRowOK, Ups, Runs, Ledgers, Ledger
  <2>2. \A f \in UpFiles : Ledger.files[f] <= local'[f]
    BY <1>4, <2>1
  <2> QED BY <1>1, <1>2, <2>2 DEF UpInv, UpRowOK
<1> QED BY <1>3, <1>5, <1>6 DEF UpInv

\* A connection and its state.
LEMMA WithSock ==
    ASSUME NEW l \in Links, NEW x \in {"none", "open", "fin", "lost", "shut"}, NEW v,
           v = [l EXCEPT !.sock = x]
    PROVE  v \in Links /\ v.sock = x /\ v.wire = l.wire /\ v.flight = l.flight
  BY DEF Links

\* A worker that has returned.
LEMMA ReturnFacts ==
    ASSUME NEW s \in Senders, NEW v, NEW r \in {"ok", "unreachable", "again", "reoffer", "eio", "changed", "local"},
           v = Returns(s, r)
    PROVE  v \in Senders /\ v.at = "ret" /\ v.rv = r /\ v.item = s.item
  BY DEF Senders, Returns

\* A pause keeps the invariant.
LEMMA PauseUpStep ==
    ASSUME UpInv, PauseUp
    PROVE  UpInv'
<1> DEFINE x == IF link.sock = "none" THEN "none" ELSE "shut"
<1>1. up.row = "running" /\ up \in Ups /\ link \in Links
  BY DEF PauseUp, UpInv, UpTypes
<1>2. up' = [up EXCEPT !.row = "winding", !.aborted = TRUE]
  BY DEF PauseUp
<1>3. /\ up' \in Ups /\ up'.row = "winding" /\ up'.run = up.run /\ up'.sure = up.sure
  BY <1>1, <1>2 DEF Ups, Rows
<1>4. link' = [link EXCEPT !.sock = x] /\ x \in {"none", "shut"}
  BY DEF PauseUp
<1>4a. x = "none" => link.sock = "none"
  OBVIOUS
<1> HIDE DEF x
<1>5. link' \in Links /\ link'.sock = x /\ link'.wire = link.wire /\ link'.flight = link.flight
  BY <1>1, <1>4, WithSock
<1>6. UNCHANGED <<upTree, local, host, sender, strayed, forgotten>>
  BY DEF PauseUp
<1>7. UpTypes'
  BY <1>3, <1>5, <1>6 DEF UpInv, UpTypes
<1>8. Ledger' = Ledger /\ TreeLen' = TreeLen
  BY <1>3, <1>6 DEF Ledger, TreeLen
<1>9. UpRowOK'
  <2>1. link = NoLink => link' = NoLink
    <3> SUFFICES ASSUME link = NoLink PROVE link' = NoLink
      OBVIOUS
    <3>1. link.sock = "none"
      BY RestTypes
    <3>2. link' = [link EXCEPT !.sock = "none"]
      BY <3>1 DEF PauseUp
    <3> QED BY <3>2 DEF NoLink
  <2> QED BY <1>1, <1>3, <1>6, <1>8, <2>1 DEF UpInv, UpRowOK
<1>10. WireOK'
  BY <1>4, <1>5, <1>6, <1>8 DEF UpInv, WireOK
<1>11. PlaceOK'
  BY <1>5, <1>6, <1>8 DEF UpInv, PlaceOK
<1>12. BehindOK'
  BY <1>5, <1>6, <1>8 DEF UpInv, BehindOK
<1>13. BlocksOK' /\ TakenIsMade'
  BY <1>3, <1>6, <1>8 DEF UpInv, BlocksOK, TakenIsMade
<1>14. UpEndOK'
  BY <1>1, <1>3, <1>4, <1>5, <1>6, <1>8 DEF UpInv, UpEndOK
<1> QED BY <1>7, <1>9, <1>10, <1>11, <1>12, <1>13, <1>14 DEF UpInv

\* A connection lost, or closed by the server for its own reasons, keeps the invariant.
LEMMA LinkLostStep ==
    ASSUME UpInv, LinkLost
    PROVE  UpInv'
<1>1. PICK how \in {"lost", "fin"} :
        link' = [link EXCEPT !.sock = how] /\ strayed' = (strayed \/ how = "fin")
  BY DEF LinkLost
<1>2. link \in Links /\ link.sock = "open" /\ strayed \in BOOLEAN
  BY DEF LinkLost, UpInv, UpTypes
<1>3. link' \in Links /\ link'.sock = how /\ link'.wire = link.wire
  BY <1>1, <1>2, WithSock
<1>4. UNCHANGED <<upTree, local, host, up, sender, forgotten>>
  BY DEF LinkLost
<1>5. Ledger' = Ledger /\ TreeLen' = TreeLen
  BY <1>4 DEF Ledger, TreeLen
<1>6. strayed' \in BOOLEAN /\ (strayed => strayed') /\ (how = "fin" => strayed')
  BY <1>1, <1>2
<1>7. UpTypes'
  BY <1>3, <1>4, <1>6 DEF UpInv, UpTypes
<1>8. sender.at \notin {"idle", "connect"}
  BY <1>2, RestTypes DEF UpInv, UpRowOK
<1>9. UpRowOK'
  BY <1>4, <1>5, <1>8 DEF UpInv, UpRowOK
<1>10. WireOK'
  BY <1>3, <1>4, <1>5, <1>6 DEF UpInv, WireOK
<1>11. PlaceOK'
  BY <1>3, <1>4, <1>5 DEF UpInv, PlaceOK
<1>12. BehindOK'
  BY <1>3, <1>4, <1>5, <1>6 DEF UpInv, BehindOK
<1>13. BlocksOK' /\ TakenIsMade'
  BY <1>4, <1>5, <1>6 DEF UpInv, BlocksOK, TakenIsMade
<1>14. UpEndOK'
  BY <1>2, <1>3, <1>4, <1>5 DEF UpInv, UpEndOK
<1> QED BY <1>7, <1>9, <1>10, <1>11, <1>12, <1>13, <1>14 DEF UpInv

\* The server closing after the last item keeps the invariant.
LEMMA ServerClosesStep ==
    ASSUME UpInv, ServerCloses
    PROVE  UpInv'
<1>1. link \in Links /\ link.sock = "open" /\ sender.at = "finish" /\ link.wire \in {"next", "pass"}
  BY DEF ServerCloses, UpInv, UpTypes
<1>2. link' = [link EXCEPT !.sock = "fin"]
  BY DEF ServerCloses
<1>3. link' \in Links /\ link'.sock = "fin" /\ link'.wire = link.wire
  BY <1>1, <1>2, WithSock
<1>4. UNCHANGED <<upTree, local, host, up, sender, strayed, forgotten>>
  BY DEF ServerCloses
<1>5. Ledger' = Ledger /\ TreeLen' = TreeLen
  BY <1>4 DEF Ledger, TreeLen
<1>6. UpTypes' /\ UpRowOK'
  <2>1. UpTypes'
    BY <1>3, <1>4 DEF UpInv, UpTypes
  <2> QED BY <1>1, <1>4, <1>5, <2>1 DEF UpInv, UpRowOK
<1>7. WireOK'
  BY <1>1, <1>3, <1>4, <1>5 DEF UpInv, WireOK
<1>8. PlaceOK' /\ BehindOK'
  <2>1. PlaceOK'
    BY <1>3, <1>4, <1>5 DEF UpInv, PlaceOK
  <2> QED BY <1>3, <1>4, <1>5, <2>1 DEF UpInv, BehindOK
<1>9. BlocksOK' /\ TakenIsMade'
  BY <1>4, <1>5 DEF UpInv, BlocksOK, TakenIsMade
<1>10. UpEndOK'
  BY <1>1, <1>3, <1>4, <1>5 DEF UpInv, UpEndOK
<1> QED BY <1>6, <1>7, <1>8, <1>9, <1>10 DEF UpInv

\* `finish_upload` keeps the invariant: a close seen at the end says that all is there.
LEMMA FinishStep ==
    ASSUME UpInv, Finish
    PROVE  UpInv'
<1> DEFINE x == link.sock = "fin" /\ ~up.aborted
<1>1. /\ up \in Ups /\ sender \in Senders /\ link \in Links /\ sender.at = "finish"
      /\ upTree \in UpTrees
  BY DEF Finish, UpInv, UpTypes
<1>2. up' = [up EXCEPT !.sure = x] /\ x \in BOOLEAN
  BY DEF Finish, FinishSent
<1>2a. x => link.sock = "fin"
  OBVIOUS
<1> HIDE DEF x
<1>3. up' \in Ups /\ up'.row = up.row /\ up'.aborted = up.aborted /\ up'.run = up.run /\ up'.sure = x
  BY <1>1, <1>2 DEF Ups
<1>4. sender' \in Senders /\ sender'.at = "ret" /\ sender'.rv = "ok" /\ sender'.item = sender.item
  <2>1. sender' = Returns(sender, "ok")
    BY DEF Finish
  <2> QED BY <1>1, <2>1, ReturnFacts
<1>5. UNCHANGED <<upTree, local, host, link, strayed, forgotten>>
  BY DEF Finish
<1>6. Ledger' = Ledger /\ TreeLen' = TreeLen
  BY <1>3, <1>5 DEF Ledger, TreeLen
<1>7. UpTypes'
  BY <1>3, <1>4, <1>5 DEF UpInv, UpTypes
<1>8. UpRowOK'
  BY <1>1, <1>3, <1>4, <1>5, <1>6 DEF UpInv, UpRowOK
<1>9. WireOK'
  BY <1>4, <1>5, <1>6 DEF UpInv, WireOK, Working
<1>10. PlaceOK' /\ BehindOK'
  BY <1>4 DEF PlaceOK, BehindOK, Working
<1>11. BlocksOK' /\ TakenIsMade'
  BY <1>3, <1>5, <1>6 DEF UpInv, BlocksOK, TakenIsMade
<1>12. UpEndOK'
  <2>1. SUFFICES ASSUME x
                 PROVE  link.sock # "open" /\ (strayed \/ \A k \in 1..TreeLen : Handled(host, upTree[k]))
    BY <1>3, <1>5, <1>6 DEF UpEndOK
  <2>2. link.sock = "fin"
    BY <1>2a, <2>1
  <2>3. ASSUME ~strayed, NEW k \in 1..TreeLen PROVE Handled(host, upTree[k])
    <3>1. k \in 1..sender.i - 1
      <4>1. sender.i = TreeLen + 1
        BY <1>1 DEF UpInv, PlaceOK, Working
      <4>2. TreeLen \in Nat
        BY <1>1, UpTreeFacts
      <4> QED BY <4>1, <4>2
    <3>2. \/ Handled(host, upTree[k])
          \/ upTree[k] = sender.item /\ link.wire \in {"item", "data"}
      BY <1>1, <2>3, <3>1 DEF UpInv, BehindOK, Working
    <3>3. \/ link.wire \in {"next", "pass"}
          \/ link.wire = "item" /\ Handled(host, sender.item)
      BY <1>1, <2>2, <2>3 DEF UpInv, WireOK, Working
    <3> QED BY <3>2, <3>3
  <2> QED BY <2>2, <2>3
<1> QED BY <1>7, <1>8, <1>9, <1>10, <1>11, <1>12 DEF UpInv

\* `htxf_connect` keeps the invariant: the worker starts at the first item not made.
LEMMA SenderConnectsStep ==
    ASSUME UpInv, SenderConnects
    PROVE  UpInv'
<1>1. /\ sender.at = "connect" /\ sender \in Senders /\ up \in Ups /\ upTree \in UpTrees
      /\ link = NoLink /\ sender.item = None /\ sender.offered = None /\ ~sender.asked
      /\ up.row \in {"running", "winding"}
  BY DEF SenderConnects, UpInv, UpTypes, UpRowOK
<1>2. UNCHANGED <<upTree, local, host, up, strayed, forgotten>>
  BY DEF SenderConnects
<1>3. Ledger' = Ledger /\ TreeLen' = TreeLen
  BY <1>2 DEF Ledger, TreeLen
<1>4. BlocksOK' /\ TakenIsMade'
  BY <1>2, <1>3 DEF UpInv, BlocksOK, TakenIsMade
<1>5. CASE sender' = Returns(sender, "unreachable") /\ UNCHANGED link
  <2>1. sender' \in Senders /\ sender'.at = "ret" /\ sender'.rv = "unreachable"
    BY <1>1, <1>5, ReturnFacts
  <2>2. UpTypes'
    BY <1>2, <1>5, <2>1 DEF UpInv, UpTypes
  <2>3. UpRowOK'
    BY <1>1, <1>2, <1>3, <1>5, <2>1 DEF UpInv, UpRowOK
  <2>4. WireOK'
    BY <1>1, <1>5, RestTypes DEF WireOK
  <2>5. PlaceOK' /\ BehindOK' /\ UpEndOK'
    BY <1>1, <1>2, <2>1 DEF PlaceOK, BehindOK, UpEndOK, Working
  <2> QED BY <1>4, <2>2, <2>3, <2>4, <2>5 DEF UpInv
<1>6. CASE /\ link' = [NoLink EXCEPT !.wire = "next", !.sock = IF up.aborted THEN "shut" ELSE "open"]
           /\ sender' = [sender EXCEPT !.at = "next", !.skipped = up.run.ledger.folders,
                                       !.i = Pending(1, up.run.ledger.folders)]
  <2> DEFINE F == up.run.ledger.folders
             p == Pending(1, F)
             x == IF up.aborted THEN "shut" ELSE "open"
  <2>1. link' = [NoLink EXCEPT !.wire = "next", !.sock = x] /\ x \in {"shut", "open"}
    BY <1>6
  <2>2. sender' = [sender EXCEPT !.at = "next", !.skipped = F, !.i = p]
    BY <1>6
  <2>3. TreeLen \in Nat /\ TreeLen > 0 /\ UpFolders \cap UpFiles = {}
    BY <1>1, UpTreeFacts
  <2>4. F \subseteq UpFolders
    BY <1>1 DEF Ups, Runs, Ledgers
  <2>5. /\ p \in 1..TreeLen + 1
        /\ p <= TreeLen => upTree[p] \notin F
        /\ \A k \in 1..p - 1 : upTree[k] \in F
    <3>1. 1 \in 1..TreeLen + 1
      BY <2>3
    <3> QED BY <1>1, <3>1, PendingFacts
  <2>6. \E k \in 1..TreeLen : upTree[k] \notin F
    BY <1>1 DEF UpInv, UpRowOK, Ledger
  <2> HIDE DEF p, x, F
  <2>7. p \in 1..TreeLen /\ upTree[p] \notin F
    <3>1. p = TreeLen + 1 => \A k \in 1..TreeLen : k \in 1..p - 1
      BY <2>3
    <3>2. p # TreeLen + 1
      BY <2>5, <2>6, <3>1
    <3> QED BY <2>3, <2>5, <3>2
  <2>8. link' \in Links /\ link'.sock = x /\ link'.wire = "next"
    BY <2>1, RestTypes DEF Links
  <2>9. /\ sender' \in Senders /\ sender'.at = "next" /\ sender'.skipped = F /\ sender'.i = p
        /\ sender'.item = None /\ sender'.offered = None /\ ~sender'.asked
    <3>1. p \in Nat
      BY <2>3, <2>7
    <3> QED BY <1>1, <2>2, <2>4, <3>1 DEF Senders
  <2>10. UpTypes'
    BY <1>2, <2>8, <2>9 DEF UpInv, UpTypes
  <2>11. UpRowOK'
    BY <1>1, <1>2, <1>3, <2>9 DEF UpInv, UpRowOK
  <2>12. WireOK'
    BY <2>1, <2>8, <2>9 DEF WireOK
  <2>13. PlaceOK'
    <3>1. Ledger'.folders = F
      BY <1>3 DEF Ledger, F
    <3>2. p \in 1..TreeLen + 1 /\ p <= TreeLen
      BY <2>3, <2>7
    <3> QED BY <1>2, <1>3, <2>7, <2>8, <2>9, <3>1, <3>2 DEF PlaceOK, Working
  <2>14. BehindOK'
    <3>1. ~strayed => F \subseteq host.made
      BY DEF UpInv, TakenIsMade, F
    <3>2. ~strayed => \A k \in 1..p - 1 : Handled(host, upTree[k])
      BY <2>3, <2>4, <2>5, <3>1 DEF Handled
    <3> QED BY <1>2, <2>9, <3>1, <3>2 DEF BehindOK
  <2>15. UpEndOK'
    BY <1>1, <1>2, <2>9 DEF UpEndOK
  <2> QED BY <1>4, <2>10, <2>11, <2>12, <2>13, <2>14, <2>15 DEF UpInv
<1> QED BY <1>5, <1>6 DEF SenderConnects

\* `settle_pause` and the cleanup keep the invariant.
LEMMA SettleUpStep ==
    ASSUME UpInv, SettleUp
    PROVE  UpInv'
<1>1. sender.at = "ret" /\ up \in Ups /\ upTree \in UpTrees /\ up.row \in {"running", "winding"}
  BY DEF SettleUp, UpInv, UpTypes, UpRowOK
<1>2. UNCHANGED <<upTree, local, host, strayed, forgotten>> /\ sender' = AtRest /\ link' = NoLink
  BY DEF SettleUp
<1> DEFINE u == [up EXCEPT !.aborted = FALSE]
<1>3. /\ u \in Ups /\ u.row = up.row /\ u.run = up.run /\ u.sure = up.sure /\ ~u.aborted
  BY <1>1 DEF Ups
<1>4. up.run.again \in Nat /\ AgainTries \in Nat /\ up.run.again <= AgainTries
  BY <1>1, UpAssumption DEF Ups, Runs, UpInv, UpRowOK
<1> DEFINE again == up.run.again + 1
<1>5. up' =
        IF sender.rv = "ok" THEN [u EXCEPT !.row = "done"]
        ELSE IF u.row = "winding" THEN [u EXCEPT !.row = "paused"]
        ELSE IF sender.rv = "changed"
             THEN [u EXCEPT !.row = IF u.run.resumed THEN "changed" ELSE "gone"]
        ELSE IF sender.rv = "again" /\ again <= AgainTries
             THEN Resumed([u EXCEPT !.run.again = again])
        ELSE IF sender.rv \in {"again", "reoffer"}
             THEN [u EXCEPT !.row = "paused", !.run.again = 0]
        ELSE [u EXCEPT !.row = "failed"]
  BY <1>3 DEF SettleUp
<1> DEFINE Result ==
      /\ up' \in Ups /\ up'.row \notin {"ready", "new", "running", "winding", "restarted"}
      /\ ~up'.aborted /\ up'.sure = up.sure
      /\ up'.run.ledger = up.run.ledger /\ up'.run.again <= AgainTries
      /\ up'.row = "asked" => \E k \in 1..TreeLen : upTree[k] \notin up.run.ledger.folders
      /\ up'.row = "done" => \/ sender.rv = "ok"
                             \/ \A k \in 1..TreeLen : upTree[k] \in up.run.ledger.folders
<1> HIDE DEF u, again
<1>6. Result
  <2>1. ASSUME NEW r \in Rows \ {"ready", "new", "running", "winding", "restarted", "asked"},
               up' = [u EXCEPT !.row = r], r = "done" => sender.rv = "ok"
        PROVE  Result
    <3>1. /\ up' \in Ups /\ up'.row = r /\ up'.aborted = u.aborted /\ up'.sure = u.sure
          /\ up'.run = u.run
      BY <1>3, <2>1, WithRow
    <3> QED BY <1>3, <1>4, <2>1, <3>1
  <2>2. ASSUME NEW n \in Nat, n <= AgainTries, up' = Resumed([u EXCEPT !.run.again = n])
        PROVE  Result
    <3> DEFINE w == [u EXCEPT !.run.again = n]
    <3>1. /\ w \in Ups /\ w.aborted = u.aborted /\ w.sure = u.sure /\ w.run.ledger = u.run.ledger
          /\ w.run.again = n
      BY <1>3 DEF Ups, Runs
    <3>2. up' = Resumed(w)
      BY <2>2
    <3> HIDE DEF w
    <3>3. /\ up' \in Ups /\ up'.row \in {"changed", "done", "asked"}
          /\ up'.aborted = w.aborted /\ up'.sure = w.sure
          /\ up'.run.ledger = w.run.ledger /\ up'.run.again = w.run.again
          /\ up'.row = "asked" => \E k \in 1..TreeLen : upTree[k] \notin w.run.ledger.folders
          /\ up'.row = "done" => \A k \in 1..TreeLen : upTree[k] \in w.run.ledger.folders
      BY <1>1, <3>1, <3>2, ResumedFacts
    <3> QED BY <1>3, <2>2, <3>1, <3>3
  <2>3. ASSUME up' = [u EXCEPT !.row = "paused", !.run.again = 0]
        PROVE  Result
    <3> DEFINE r == [u.run EXCEPT !.again = 0]
    <3>1. u.run \in Runs
      BY <1>3 DEF Ups
    <3>2. r \in Runs /\ r.ledger = u.run.ledger /\ r.again = 0
      BY <3>1 DEF Runs
    <3>3. up' = [u EXCEPT !.row = "paused", !.run = r]
      BY <2>3, Zenon
    <3> HIDE DEF r
    <3>4. up' \in Ups /\ up'.row = "paused" /\ up'.aborted = u.aborted /\ up'.sure = u.sure /\ up'.run = r
      BY <1>3, <3>2, <3>3 DEF Ups, Rows
    <3> QED BY <1>3, <1>4, <3>2, <3>4
  <2>4. {"done", "paused", "changed", "gone", "failed"} \subseteq
            Rows \ {"ready", "new", "running", "winding", "restarted", "asked"}
    BY DEF Rows
  <2>5. again \in Nat
    BY <1>4 DEF again
  <2> HIDE DEF Result
  <2> QED BY <1>5, <2>1, <2>2, <2>3, <2>4, <2>5
<1>7. UpTypes'
  BY <1>2, <1>6, RestTypes DEF UpInv, UpTypes
<1>8. UpRowOK'
  BY <1>2, <1>6, RestTypes DEF UpInv, UpRowOK, Ledger, TreeLen
<1>9. WireOK' /\ PlaceOK' /\ BehindOK'
  BY <1>2, RestTypes DEF WireOK, PlaceOK, BehindOK, Working
<1>10. BlocksOK' /\ TakenIsMade'
  BY <1>2, <1>6 DEF UpInv, BlocksOK, TakenIsMade, Ledger
<1>11. UpEndOK'
  <2>1. up.run.ledger.folders \subseteq UpFolders /\ UpFolders \cap UpFiles = {}
    BY <1>1, UpTreeFacts DEF Ups, Runs, Ledgers
  <2>2. \/ strayed
        \/ \A k \in 1..TreeLen : upTree[k] \in up.run.ledger.folders => Handled(host, upTree[k])
    BY <2>1 DEF UpInv, TakenIsMade, Handled
  <2>3. up.sure /\ sender.rv = "ok" => strayed \/ \A k \in 1..TreeLen : Handled(host, upTree[k])
    BY <1>1 DEF UpInv, UpEndOK
  <2> QED BY <1>2, <1>6, <2>2, <2>3, RestTypes DEF UpEndOK, TreeLen
<1> QED BY <1>7, <1>8, <1>9, <1>10, <1>11 DEF UpInv

\* What a connection's end makes of the ledger.
LEMMA EndFacts ==
    ASSUME UpInv, sender.at \in {"next", "answer", "data"}, NEW e,
           e = (IF Telling THEN Ended(Ledger, sender)
                ELSE [ledger |-> Unsure(Ledger, sender.offered), rv |-> "eio"])
    PROVE  /\ e.ledger \in Ledgers /\ e.rv \in {"again", "reoffer", "eio"}
           /\ e.ledger.files = Ledger.files
           /\ e.ledger.folders \cap e.ledger.unsure = {}
           /\ strayed \/ e.ledger.folders \subseteq host.made
<1>1. /\ Ledger \in Ledgers /\ sender.offered \in UpFolders \cup {None} /\ upTree \in UpTrees
      /\ Ledger.folders \cap Ledger.unsure = {}
      /\ strayed \/ Ledger.folders \subseteq host.made
  BY DEF UpInv, UpTypes, UpRowOK, Ups, Runs, Senders, Ledger, TakenIsMade
<1>2. sender.offered # None => sender.offered \notin Ledger.folders
  BY DEF UpInv, PlaceOK, Working
<1>3. ASSUME NEW l, l = Unsure(Ledger, sender.offered)
      PROVE  /\ l \in Ledgers /\ l.files = Ledger.files /\ l.folders = Ledger.folders
             /\ l.folders \cap l.unsure = {}
  BY <1>1, <1>2, <1>3, LedgerChanges
<1>4. CASE e = [ledger |-> Unsure(Ledger, sender.offered), rv |-> "eio"]
  BY <1>1, <1>3, <1>4
<1>5. CASE Telling /\ sender.offered # None /\ sender.lost /\ e = [ledger |-> Made(Ledger, sender.offered), rv |-> "again"]
  <2> DEFINE d == sender.offered
             l == Made(Ledger, d)
  <2>1. e.ledger = l /\ e.rv = "again"
    BY <1>5
  <2>2. l \in Ledgers /\ l.files = Ledger.files /\ l.folders = Ledger.folders \cup {d}
        /\ l.unsure = Ledger.unsure \ {d}
    BY <1>1, <1>5, LedgerChanges
  <2>3. sender.at = "next" /\ sender.item = d
    BY <1>5 DEF UpInv, PlaceOK, Working
  <2>4. link.sock = "fin"
    BY <1>5, <2>3 DEF Telling
  <2>5. ~strayed => Handled(host, d)
    <3>1. d # None
      BY <1>5
    <3> HIDE DEF d
    <3> QED BY <2>3, <2>4, <3>1 DEF UpInv, WireOK, Working
  <2>6. d \in UpFolders /\ d \notin UpFiles
    BY <1>1, <1>5, UpTreeFacts
  <2>7. ~strayed => d \in host.made
    BY <2>5, <2>6 DEF Handled
  <2> HIDE DEF l, d
  <2> QED BY <1>1, <2>1, <2>2, <2>7
<1>6. CASE e = [ledger |-> [Ledger EXCEPT !.unsure = @ \cup Ledger.folders, !.folders = {}], rv |-> "reoffer"]
  <2> DEFINE l == [Ledger EXCEPT !.unsure = @ \cup Ledger.folders, !.folders = {}]
  <2>1. l \in Ledgers /\ l.files = Ledger.files /\ l.folders = {}
    BY <1>1 DEF Ledgers
  <2>2. e.ledger = l /\ e.rv = "reoffer"
    BY <1>6
  <2> HIDE DEF l
  <2> QED BY <2>1, <2>2
<1> QED BY <1>4, <1>5, <1>6 DEF Ended

\* `ended` keeps the invariant.
LEMMA SenderEndsStep ==
    ASSUME UpInv, SenderEnds
    PROVE  UpInv'
<1> DEFINE e == IF Telling THEN Ended(Ledger, sender)
                ELSE [ledger |-> Unsure(Ledger, sender.offered), rv |-> "eio"]
<1>1. /\ sender.at \in {"next", "answer", "data"} /\ sender \in Senders /\ up \in Ups
      /\ up.row \in {"running", "winding"}
  BY DEF SenderEnds, UpInv, UpTypes, UpRowOK
<1>2. up' = [up EXCEPT !.run.ledger = e.ledger] /\ sender' = Returns(sender, e.rv)
  BY DEF SenderEnds, Ledger
<1>3. /\ e.ledger \in Ledgers /\ e.rv \in {"again", "reoffer", "eio"}
      /\ e.ledger.files = Ledger.files
      /\ e.ledger.folders \cap e.ledger.unsure = {}
      /\ strayed \/ e.ledger.folders \subseteq host.made
  BY <1>1, EndFacts
<1> HIDE DEF e
<1>4. UNCHANGED <<upTree, local, host, link, strayed, forgotten>>
  BY DEF SenderEnds
<1>5. /\ up' \in Ups /\ up'.row = up.row /\ up'.aborted = up.aborted /\ up'.sure = up.sure
      /\ Ledger' = e.ledger /\ up'.run.again = up.run.again
  <2> DEFINE l == e.ledger
  <2>1. up' = [up EXCEPT !.run.ledger = l] /\ l \in Ledgers
    BY <1>2, <1>3
  <2> HIDE DEF l
  <2>2. /\ up' \in Ups /\ up'.row = up.row /\ up'.aborted = up.aborted /\ up'.sure = up.sure
        /\ up'.run.ledger = l /\ up'.run.again = up.run.again
    BY <1>1, <2>1 DEF Ups, Runs
  <2> QED BY <2>2 DEF Ledger, l
<1>6. sender' \in Senders /\ sender'.at = "ret" /\ sender'.rv = e.rv /\ sender'.item = sender.item
  BY <1>1, <1>2, <1>3, ReturnFacts
<1>7. UpTypes'
  BY <1>4, <1>5, <1>6 DEF UpInv, UpTypes
<1>8. UpRowOK'
  BY <1>1, <1>3, <1>4, <1>5, <1>6 DEF UpInv, UpRowOK
<1>9. WireOK'
  BY <1>3, <1>4, <1>5, <1>6 DEF UpInv, WireOK, Working
<1>10. PlaceOK' /\ BehindOK' /\ UpEndOK'
  BY <1>1, <1>3, <1>5, <1>6 DEF PlaceOK, BehindOK, Working, UpEndOK
<1>11. BlocksOK' /\ TakenIsMade'
  BY <1>3, <1>4, <1>5, ZenonT(40) DEF UpInv, BlocksOK, TakenIsMade, Ledger
<1> QED BY <1>7, <1>8, <1>9, <1>10, <1>11 DEF UpInv

\* The place of the last item offered is behind the worker, or where it stands.
LEMMA ItemPlace ==
    ASSUME UpInv, sender.at \in Working, sender.item # None
    PROVE  \E k \in 1..TreeLen : /\ upTree[k] = sender.item
                                 /\ k <= sender.i /\ (sender.at \in {"next", "finish"} => k < sender.i)
<1>1. TreeLen \in Nat /\ upTree \in UpTrees
  BY UpTreeFacts DEF UpInv, UpTypes
<1>2. sender.i \in 1..TreeLen + 1 /\ (sender.at # "finish" => sender.i <= TreeLen)
  BY DEF UpInv, PlaceOK
<1>3. CASE sender.at \in {"answer", "data"}
  <2>1. sender.item = upTree[sender.i]
    BY <1>3 DEF UpInv, PlaceOK
  <2> QED BY <1>1, <1>2, <1>3, <2>1
<1>4. CASE sender.at \in {"next", "finish"}
  <2>1. PICK k \in 1..sender.i - 1 : upTree[k] = sender.item
    BY <1>4 DEF UpInv, PlaceOK
  <2>2. k \in 1..TreeLen /\ k < sender.i
    BY <1>1, <1>2, <2>1
  <2> QED BY <1>1, <1>2, <2>1, <2>2
<1> QED BY <1>3, <1>4 DEF Working

\* A connection and what is on it.
LEMMA WithWire ==
    ASSUME NEW l \in Links, NEW x \in {"idle", "next", "item", "pass", "send", "resume", "data"},
           NEW v, v = [l EXCEPT !.wire = x]
    PROVE  v \in Links /\ v.sock = l.sock /\ v.wire = x /\ v.flight = l.flight
  BY DEF Links

\* While a connection is open there is a worker, and no end was seen.
LEMMA OpenFacts ==
    ASSUME UpInv, link.sock = "open"
    PROVE  /\ sender.at \notin {"idle", "connect"}
           /\ ~(up.sure /\ (up.row = "done" \/ (sender.at = "ret" /\ sender.rv = "ok")))
<1>1. sender.at \notin {"idle", "connect"}
  BY RestTypes DEF UpInv, UpRowOK
<1>2. ~(up.sure /\ (up.row = "done" \/ (sender.at = "ret" /\ sender.rv = "ok")))
  BY DEF UpInv, UpEndOK
<1> QED BY <1>1, <1>2

\* A server that has not strayed has all that the offered item lies in.
LEMMA AboveIsThere ==
    ASSUME UpInv, sender.at \in Working, ~strayed, sender.item # None
    PROVE  Above[sender.item] \subseteq host.made
<1> SUFFICES ASSUME NEW d \in Above[sender.item] PROVE d \in host.made
  OBVIOUS
<1>1. upTree \in UpTrees
  BY DEF UpInv, UpTypes
<1>2. PICK k \in 1..TreeLen : upTree[k] = sender.item /\ k <= sender.i
  BY ItemPlace
<1>3. PICK j \in 1..k - 1 : upTree[j] = d
  BY <1>1, <1>2, UpTreeFacts
<1>4. TreeLen \in Nat /\ sender.i \in 1..TreeLen + 1
  BY <1>1, UpTreeFacts DEF UpInv, PlaceOK
<1>5. j \in 1..TreeLen /\ j \in 1..sender.i - 1 /\ j # k
  BY <1>2, <1>3, <1>4
<1>6. upTree[j] # sender.item
  BY <1>1, <1>2, <1>5, UpTreeFacts
<1>7. Handled(host, d)
  BY <1>3, <1>5, <1>6 DEF UpInv, BehindOK
<1>8. d \in UpFolders /\ d \notin UpFiles
  <2>1. sender.item \in UpFolders \cup UpFiles
    BY DEF UpInv, UpTypes, Senders, Items
  <2> QED BY <1>1, <2>1, UpTreeFacts, UpAssumption
<1> QED BY <1>7, <1>8 DEF Handled

\* The server closes at an item.
LEMMA TakesCloses ==
    ASSUME UpInv, link.sock = "open", link.wire = "item",
           ~(Above[sender.item] \subseteq host.made) \/ sender.item \in host.made,
           link' = [link EXCEPT !.sock = "fin"],
           UNCHANGED <<upTree, local, up, sender, strayed, host, forgotten>>
    PROVE  UpInv'
<1>1. link \in Links /\ host \in Hosts /\ upTree \in UpTrees
  BY DEF UpInv, UpTypes
<1>2. link' \in Links /\ link'.sock = "fin" /\ link'.wire = link.wire
  BY <1>1, WithSock
<1>3. Ledger' = Ledger /\ TreeLen' = TreeLen
  BY DEF Ledger, TreeLen
<1>4. sender.at \notin {"idle", "connect"}
  BY OpenFacts
<1>5. UpTypes'
  BY <1>2 DEF UpInv, UpTypes
<1>6. UpRowOK'
  BY <1>3, <1>4 DEF UpInv, UpRowOK
<1>7. WireOK'
  <2>1. sender.item # None
    BY DEF UpInv, WireOK
  <2>2. ~strayed /\ sender.at \in Working => sender.item \in host.made
    BY <2>1, AboveIsThere
  <2>3. host.made \subseteq UpFolders /\ UpFolders \cap UpFiles = {}
    BY <1>1, UpTreeFacts DEF Hosts
  <2>4. sender.item \in host.made => sender.item \in UpFolders /\ Handled(host, sender.item)
    BY <2>3 DEF Handled
  <2> QED BY <1>2, <1>3, <2>1, <2>2, <2>4 DEF UpInv, WireOK
<1>8. PlaceOK'
  BY <1>2, <1>3 DEF UpInv, PlaceOK
<1>9. BehindOK'
  BY <1>2, <1>3 DEF UpInv, BehindOK
<1>10. BlocksOK' /\ TakenIsMade'
  BY <1>3 DEF UpInv, BlocksOK, TakenIsMade
<1>11. UpEndOK'
  BY OpenFacts DEF UpEndOK
<1> QED BY <1>5, <1>6, <1>7, <1>8, <1>9, <1>10, <1>11 DEF UpInv

\* It makes the folder it was offered.
LEMMA TakesFolder ==
    ASSUME UpInv, link.sock = "open", link.wire = "item", sender.item \in UpFolders,
           host' = [host EXCEPT !.made = @ \cup {sender.item}],
           link' = [link EXCEPT !.wire = "next"],
           UNCHANGED <<upTree, local, up, sender, strayed, forgotten>>
    PROVE  UpInv'
<1>1. link \in Links /\ host \in Hosts /\ upTree \in UpTrees
  BY DEF UpInv, UpTypes
<1>2. link' \in Links /\ link'.sock = "open" /\ link'.wire = "next"
  BY <1>1, WithWire
<1>3. host' \in Hosts /\ host'.made = host.made \cup {sender.item} /\ host'.held = host.held
  BY <1>1 DEF Hosts
<1>4. Ledger' = Ledger /\ TreeLen' = TreeLen
  BY DEF Ledger, TreeLen
<1>5. sender.at \notin {"idle", "connect"}
  BY OpenFacts
<1>6. UpTypes'
  BY <1>2, <1>3 DEF UpInv, UpTypes
<1>7. UpRowOK'
  BY <1>4, <1>5 DEF UpInv, UpRowOK
<1>8. /\ Handled(host', sender.item)
      /\ \A x : Handled(host, x) => Handled(host', x)
  <2>1. sender.item \notin UpFiles
    BY <1>1, UpTreeFacts
  <2> QED BY <1>3, <2>1 DEF Handled
<1>9. WireOK'
  BY <1>2, <1>8 DEF WireOK
<1>10. PlaceOK'
  <2>1. sender.asked => sender.at \notin Working
    BY DEF UpInv, PlaceOK
  <2> QED BY <1>2, <1>4, <2>1 DEF UpInv, PlaceOK
<1>11. BehindOK'
  BY <1>3, <1>8 DEF UpInv, BehindOK
<1>12. BlocksOK' /\ TakenIsMade'
  BY <1>3, <1>4 DEF UpInv, BlocksOK, TakenIsMade
<1>13. UpEndOK'
  BY OpenFacts DEF UpEndOK
<1> QED BY <1>6, <1>7, <1>9, <1>10, <1>11, <1>12, <1>13 DEF UpInv

\* It says what it has of the file.
LEMMA TakesSays ==
    ASSUME UpInv, link.sock = "open", link.wire = "item", sender.item \in UpFiles,
           NEW x \in {"pass", "resume"}, x = "pass" => host.held[sender.item].whole,
           link' = [link EXCEPT !.wire = x],
           UNCHANGED <<upTree, local, up, sender, strayed, host, forgotten>>
    PROVE  UpInv'
<1>1. link \in Links /\ host \in Hosts /\ upTree \in UpTrees
  BY DEF UpInv, UpTypes
<1>2. link' \in Links /\ link'.sock = "open" /\ link'.wire = x
  BY <1>1, WithWire
<1>3. sender.item \notin UpFolders
  BY <1>1, UpTreeFacts
<1>4. Ledger' = Ledger /\ TreeLen' = TreeLen
  BY DEF Ledger, TreeLen
<1>5. sender.at \notin {"idle", "connect"}
  BY OpenFacts
<1>6. UpTypes'
  BY <1>2 DEF UpInv, UpTypes
<1>7. UpRowOK'
  BY <1>4, <1>5 DEF UpInv, UpRowOK
<1>8. WireOK'
  BY <1>2 DEF WireOK, Handled
<1>9. sender.at \in Working => sender.at \notin {"next", "finish"} /\ ~sender.asked
  BY <1>3 DEF UpInv, PlaceOK
<1>10. PlaceOK'
  BY <1>2, <1>4, <1>9 DEF UpInv, PlaceOK
<1>11. BehindOK'
  BY <1>9, <1>4 DEF UpInv, BehindOK
<1>12. BlocksOK' /\ TakenIsMade'
  BY <1>4 DEF UpInv, BlocksOK, TakenIsMade
<1>13. UpEndOK'
  BY OpenFacts DEF UpEndOK
<1> QED BY <1>6, <1>7, <1>8, <1>10, <1>11, <1>12, <1>13 DEF UpInv

\* It wants the file from its start.
LEMMA TakesAnew ==
    ASSUME UpInv, link.sock = "open", link.wire = "item", sender.item \in UpFiles,
           host' = [host EXCEPT !.held[sender.item] = NotHeld],
           forgotten' = forgotten \ {sender.item},
           link' = [link EXCEPT !.wire = "send"],
           UNCHANGED <<upTree, local, up, sender, strayed>>
    PROVE  UpInv'
<1> DEFINE f == sender.item
<1>1. link \in Links /\ host \in Hosts /\ upTree \in UpTrees /\ f \in UpFiles
  BY DEF UpInv, UpTypes
<1>2. link' \in Links /\ link'.sock = "open" /\ link'.wire = "send"
  BY <1>1, WithWire
<1>3. f \notin UpFolders
  BY <1>1, UpTreeFacts
<1>3a. host' = [host EXCEPT !.held[f] = NotHeld] /\ NotHeld \in Copies
  BY RestTypes
<1> HIDE DEF f
<1>3b. /\ host' \in Hosts /\ host'.made = host.made /\ host'.held[f] = NotHeld
       /\ \A g \in UpFiles : g # f => host'.held[g] = host.held[g]
  <2> DEFINE m == [host.held EXCEPT ![f] = NotHeld]
  <2>1. host' = [host EXCEPT !.held = m]
    BY <1>3a, Zenon
  <2>2. host.held \in [UpFiles -> Copies]
    BY <1>1 DEF Hosts
  <2>3. m \in [UpFiles -> Copies] /\ m[f] = NotHeld /\ \A g \in UpFiles : g # f => m[g] = host.held[g]
    BY <1>1, <1>3a, <2>2
  <2> HIDE DEF m
  <2>4. host' \in Hosts /\ host'.made = host.made /\ host'.held = m
    BY <1>1, <2>1, <2>3 DEF Hosts
  <2> QED BY <2>3, <2>4
<1>4. Ledger' = Ledger /\ TreeLen' = TreeLen
  BY DEF Ledger, TreeLen
<1>5. sender.at \notin {"idle", "connect"}
  BY OpenFacts
<1>6. UpTypes'
  BY <1>2, <1>3b DEF UpInv, UpTypes
<1>7. UpRowOK'
  BY <1>4, <1>5 DEF UpInv, UpRowOK
<1>8. WireOK'
  BY <1>1, <1>2, <1>3b DEF WireOK, f
<1>9. sender.at \in Working => sender.at \in {"answer", "data"} /\ ~sender.asked /\ upTree[sender.i] = f
  BY <1>3 DEF UpInv, PlaceOK, Working, f
<1>10. PlaceOK'
  BY <1>2, <1>4, <1>9 DEF UpInv, PlaceOK
<1>11. BehindOK'
  <2> SUFFICES ASSUME sender.at \in Working, ~strayed
               PROVE  /\ sender.skipped \subseteq host.made
                      /\ \A k \in 1..sender.i - 1 : Handled(host', upTree[k])
    BY <1>3b DEF BehindOK
  <2>1. sender.skipped \subseteq host.made
    BY DEF UpInv, BehindOK
  <2>2. ASSUME NEW k \in 1..sender.i - 1 PROVE Handled(host', upTree[k])
    <3>1. Handled(host, upTree[k])
      BY <1>9 DEF UpInv, BehindOK
    <3>2. TreeLen \in Nat /\ sender.i \in 1..TreeLen
      BY <1>1, <1>9, UpTreeFacts DEF UpInv, PlaceOK
    <3>3. k \in 1..TreeLen /\ k # sender.i
      BY <3>2
    <3>4. upTree[k] # f
      BY <1>1, <1>9, <3>2, <3>3, UpTreeFacts
    <3> QED BY <1>3b, <3>1, <3>4 DEF Handled
  <2> QED BY <2>1, <2>2
<1>12. BlocksOK'
  <2> SUFFICES ASSUME NEW g \in UpFiles, NEW k \in 1..Len(host'.held[g].blocks)
               PROVE  /\ host'.held[g].blocks[k][1] > 0
                      /\ g \notin forgotten' => host'.held[g].blocks[k][1] = Ledger.files[g]
    BY <1>4 DEF BlocksOK
  <2>1. CASE g = f
    <3>1. Len(host'.held[g].blocks) = 0
      BY <1>3b, <2>1, RestTypes
    <3> QED BY <3>1
  <2>2. CASE g # f
    <3>1. host'.held[g] = host.held[g] /\ (g \notin forgotten' => g \notin forgotten)
      BY <1>3b, <2>2 DEF f
    <3> QED BY <3>1 DEF UpInv, BlocksOK
  <2> QED BY <2>1, <2>2
<1>13. TakenIsMade'
  BY <1>3b DEF UpInv, TakenIsMade
<1>14. UpEndOK'
  BY OpenFacts DEF UpEndOK
<1> QED BY <1>6, <1>7, <1>8, <1>10, <1>11, <1>12, <1>13, <1>14 DEF UpInv

\* The server taking an item keeps the invariant.
LEMMA ServerTakesStep ==
    ASSUME UpInv, ServerTakes
    PROVE  UpInv'
<1>1. link.sock = "open" /\ link.wire = "item" /\ UNCHANGED <<upTree, local, up, sender, strayed>>
  BY DEF ServerTakes
<1> DEFINE e == sender.item
           there == Above[e] \subseteq host.made
           held == IF e \in UpFiles THEN host.held[e] ELSE NotHeld
<1>2. e \in UpFolders \/ e \in UpFiles
  BY <1>1 DEF UpInv, WireOK, UpTypes, Senders, Items
<1>3. IF ~there \/ (e \in host.made /\ host.kind = "mhxd")
      THEN link' = [link EXCEPT !.sock = "fin"] /\ UNCHANGED <<host, forgotten>>
      ELSE IF e \in UpFolders
      THEN /\ host' = [host EXCEPT !.made = @ \cup {e}]
           /\ link' = [link EXCEPT !.wire = "next"] /\ UNCHANGED forgotten
      ELSE IF held.whole /\ host.kind # "mhxd"
      THEN link' = [link EXCEPT !.wire = "pass"] /\ UNCHANGED <<host, forgotten>>
      ELSE IF held # NotHeld /\ host.kind # "hlservd"
      THEN link' = [link EXCEPT !.wire = "resume"] /\ UNCHANGED <<host, forgotten>>
      ELSE /\ host' = [host EXCEPT !.held[e] = NotHeld]
           /\ forgotten' = forgotten \ {e}
           /\ link' = [link EXCEPT !.wire = "send"]
  BY Zenon DEF ServerTakes
<1>4. e \in UpFiles => held = host.held[e]
  OBVIOUS
<1> HIDE DEF held, there
<1>5. CASE ~there \/ (e \in host.made /\ host.kind = "mhxd")
  BY <1>1, <1>3, <1>5, TakesCloses DEF there
<1>6. CASE ~(~there \/ (e \in host.made /\ host.kind = "mhxd")) /\ e \in UpFolders
  BY <1>1, <1>3, <1>6, TakesFolder
<1>7. CASE ~(~there \/ (e \in host.made /\ host.kind = "mhxd")) /\ e \notin UpFolders
  <2>1. CASE held.whole /\ host.kind # "mhxd"
    BY <1>1, <1>2, <1>3, <1>4, <1>7, <2>1, TakesSays
  <2>2. CASE ~(held.whole /\ host.kind # "mhxd") /\ held # NotHeld /\ host.kind # "hlservd"
    BY <1>1, <1>2, <1>3, <1>7, <2>2, TakesSays
  <2>3. CASE ~(held.whole /\ host.kind # "mhxd") /\ ~(held # NotHeld /\ host.kind # "hlservd")
    BY <1>1, <1>2, <1>3, <1>7, <2>3, TakesAnew
  <2> QED BY <2>1, <2>2, <2>3
<1> QED BY <1>5, <1>6, <1>7

\* The server reading a file keeps the invariant: what it adds is of the version sent.
LEMMA ServerReadsStep ==
    ASSUME UpInv, ServerReads
    PROVE  UpInv'
<1> DEFINE f == sender.item
           v == Ledger.files[f]
           blocks == host.held[f].blocks
           got == IF link.flight = 0 THEN blocks ELSE Append(blocks, <<v, Len(blocks) + 1>>)
           whole == Len(got) = LocalSize[f][v]
           c == [blocks |-> got, whole |-> whole]
           w == IF whole THEN "next" ELSE "data"
<1>1. /\ link \in Links /\ host \in Hosts /\ upTree \in UpTrees /\ link.sock = "open" /\ link.wire = "data"
      /\ f \in UpFiles /\ v > 0
  BY Zenon DEF UpInv, UpTypes, ServerReads, WireOK
<1>2. v \in Nat /\ blocks \in Seq(Nat \X Nat)
  <2>1. host.held[f] \in Copies /\ Ledger.files \in [UpFiles -> Nat]
    BY <1>1, SMTT(40) DEF UpInv, UpTypes, Hosts, Ups, Runs, Ledgers, Ledger
  <2> QED BY <1>1, <2>1 DEF Copies
<1>3. UNCHANGED <<upTree, local, up, sender, strayed, forgotten>>
  BY Zenon DEF ServerReads
<1>4. host' = [host EXCEPT !.held[f] = c]
  BY Zenon DEF ServerReads, Ledger
<1>5. link' = [link EXCEPT !.flight = 0, !.wire = w]
  BY <1>1 DEF ServerReads, Ledger
<1>6. whole => w = "next" /\ c.whole
  OBVIOUS
<1>7. w \in {"next", "data"} /\ (w = "next" => whole)
  OBVIOUS
<1>8. got \in Seq(Nat \X Nat) /\ \A k \in 1..Len(got) : got[k] = <<v, Len(blocks) + 1>> \/ (k \in 1..Len(blocks) /\ got[k] = blocks[k])
  <2> HIDE DEF blocks, v
  <2>1. <<v, Len(blocks) + 1>> \in Nat \X Nat
    BY <1>2
  <2> DEFINE b == <<v, Len(blocks) + 1>>
  <2> HIDE DEF b
  <2>2. /\ Append(blocks, b) \in Seq(Nat \X Nat)
        /\ \A k \in 1..Len(Append(blocks, b)) : Append(blocks, b)[k] = b \/ (k \in 1..Len(blocks) /\ Append(blocks, b)[k] = blocks[k])
    BY <1>2, <2>1 DEF b
  <2> QED BY <1>2, <2>2 DEF b
<1>9. c \in Copies /\ c.blocks = got /\ c.whole = whole
  <2> HIDE DEF got
  <2> QED BY <1>8 DEF Copies
<1>10. /\ host' \in Hosts /\ host'.made = host.made /\ host'.held[f] = c
       /\ \A g \in UpFiles : g # f => host'.held[g] = host.held[g]
  <2> HIDE DEF c, f
  <2> DEFINE m == [host.held EXCEPT ![f] = c]
  <2>1. host' = [host EXCEPT !.held = m]
    BY <1>4, Zenon
  <2>2. host.held \in [UpFiles -> Copies]
    BY <1>1 DEF Hosts
  <2>3. m \in [UpFiles -> Copies] /\ m[f] = c /\ \A g \in UpFiles : g # f => m[g] = host.held[g]
    BY <1>1, <1>9, <2>2
  <2> HIDE DEF m
  <2>4. host' \in Hosts /\ host'.made = host.made /\ host'.held = m
    BY <1>1, <2>1, <2>3 DEF Hosts
  <2> QED BY <2>3, <2>4
<1>10a. \A k \in 1..Len(got) : got[k][1] = v \/ (k \in 1..Len(blocks) /\ got[k] = blocks[k])
  <2> HIDE DEF got, blocks, v
  <2> QED BY <1>8
<1> HIDE DEF w, c, whole, got
<1>11. link' \in Links /\ link'.sock = "open" /\ link'.wire = w
  <2> DEFINE l == [link EXCEPT !.flight = 0]
  <2>1. l \in Links /\ l.sock = "open"
    BY <1>1 DEF Links
  <2>2. link' = [l EXCEPT !.wire = w]
    <3>1. link.wire = "data" /\ link \in Links
      BY <1>1
    <3>2. \A y : [link EXCEPT !.flight = 0, !.wire = y] = [[link EXCEPT !.flight = 0] EXCEPT !.wire = y]
      BY <3>1, Zenon DEF Links
    <3> QED BY <1>5, <3>2
  <2> HIDE DEF l
  <2>3. w \in {"idle", "next", "item", "pass", "send", "resume", "data"}
    BY <1>7
  <2> QED BY <2>1, <2>2, <2>3, WithWire
<1>12. Ledger' = Ledger /\ TreeLen' = TreeLen
  BY <1>3 DEF Ledger, TreeLen
<1>13. sender.at \notin {"idle", "connect"}
  BY <1>1, OpenFacts
<1>14. UpTypes'
  BY <1>3, <1>10, <1>11 DEF UpInv, UpTypes
<1>15. UpRowOK'
  BY <1>3, <1>12, <1>13 DEF UpInv, UpRowOK
<1>16. WireOK'
  <2>1. w = "next" => Handled(host', f)
    BY <1>1, <1>6, <1>7, <1>10 DEF Handled
  <2>2. Ledger'.files[sender'.item] > 0 /\ sender'.item \in UpFiles
    BY <1>1, <1>3, <1>12
  <2> QED BY <1>3, <1>7, <1>11, <2>1, <2>2 DEF WireOK
<1>17. PlaceOK'
  <2>1. sender.asked => sender.at \notin Working
    BY <1>1 DEF UpInv, PlaceOK
  <2> QED BY <1>1, <1>3, <1>7, <1>11, <1>12, <2>1 DEF UpInv, PlaceOK
<1>18. BehindOK'
  <2> SUFFICES ASSUME sender.at \in Working, ~strayed, NEW k \in 1..sender.i - 1
               PROVE  \/ Handled(host', upTree[k])
                      \/ sender.at \in {"next", "finish"} /\ upTree[k] = f /\ w = "data"
    <3>1. sender.at \in Working /\ ~strayed => sender.skipped \subseteq host.made
      BY DEF UpInv, BehindOK
    <3> QED BY <1>3, <1>10, <1>11, <3>1 DEF BehindOK
  <2>1. CASE upTree[k] # f
    <3>1. Handled(host, upTree[k])
      BY <2>1 DEF UpInv, BehindOK
    <3> QED BY <1>10, <2>1, <3>1 DEF Handled
  <2>2. CASE upTree[k] = f
    <3>1. sender.at \in {"next", "finish"}
      <4>1. SUFFICES ASSUME sender.at \in {"answer", "data"} PROVE FALSE
        BY DEF Working
      <4>2. TreeLen \in Nat /\ sender.i \in 1..TreeLen /\ upTree[sender.i] = f
        <5>1. TreeLen \in Nat
          BY <1>1, UpTreeFacts
        <5>2. sender.i \in 1..TreeLen + 1 /\ sender.i <= TreeLen /\ upTree[sender.i] = f
          BY <4>1 DEF UpInv, PlaceOK
        <5> QED BY <5>1, <5>2
      <4>3. k \in 1..TreeLen /\ k # sender.i
        BY <4>2
      <4> QED BY <1>1, <2>2, <4>2, <4>3, UpTreeFacts
    <3>2. CASE w = "data"
      BY <2>2, <3>1, <3>2
    <3>3. CASE w = "next"
      BY <1>1, <1>6, <1>7, <1>10, <2>2, <3>3 DEF Handled
    <3> QED BY <1>7, <3>2, <3>3
  <2> QED BY <2>1, <2>2
<1>19. BlocksOK'
  <2> SUFFICES ASSUME NEW g \in UpFiles, NEW k \in 1..Len(host'.held[g].blocks)
               PROVE  /\ host'.held[g].blocks[k][1] > 0
                      /\ g \notin forgotten => host'.held[g].blocks[k][1] = Ledger.files[g]
    BY <1>3, <1>12 DEF BlocksOK
  <2>1. CASE g = f
    <3>1. host'.held[g].blocks = got
      BY <1>9, <1>10, <2>1
    <3>2. k \in 1..Len(got)
      BY <3>1
    <3>3. CASE got[k][1] = v
      BY <1>1, <2>1, <3>1, <3>3
    <3>4. CASE k \in 1..Len(blocks) /\ got[k] = blocks[k]
      <4>1. /\ blocks[k][1] > 0
            /\ g \notin forgotten => blocks[k][1] = Ledger.files[g]
        BY <1>1, <2>1, <3>4 DEF UpInv, BlocksOK
      <4> HIDE DEF blocks
      <4> QED BY <3>1, <3>4, <4>1
    <3> QED BY <1>10a, <3>2, <3>3, <3>4
  <2>2. CASE g # f
    <3>1. host'.held[g] = host.held[g]
      BY <1>10, <2>2
    <3> QED BY <3>1 DEF UpInv, BlocksOK
  <2> QED BY <2>1, <2>2
<1>20. TakenIsMade'
  BY <1>3, <1>10 DEF UpInv, TakenIsMade
<1>21. UpEndOK'
  BY <1>1, <1>3, OpenFacts DEF UpEndOK
<1> QED BY <1>14, <1>15, <1>16, <1>17, <1>18, <1>19, <1>20, <1>21, SMTT(40) DEF UpInv

\* A worker past an item.
LEMMA PastFacts ==
    ASSUME upTree \in UpTrees, NEW s \in Senders, s.i \in 1..TreeLen, NEW a \in BOOLEAN,
           NEW v, v = Past(s, a)
    PROVE  /\ v \in Senders /\ v.i \in s.i + 1..TreeLen + 1 /\ v.asked = a
           /\ v.at \in {"next", "finish"} /\ (v.at = "finish" <=> v.i = TreeLen + 1)
           /\ v.item = s.item /\ v.offered = s.offered /\ v.skipped = s.skipped
           /\ v.i <= TreeLen => upTree[v.i] \notin s.skipped
           /\ \A k \in s.i + 1..v.i - 1 : upTree[k] \in s.skipped
<1> DEFINE j == Pending(s.i + 1, s.skipped)
           x == IF j > TreeLen THEN "finish" ELSE "next"
<1>1. TreeLen \in Nat
  BY UpTreeFacts
<1>2. s.i + 1 \in 1..TreeLen + 1
  BY <1>1
<1>3. /\ j \in s.i + 1..TreeLen + 1
      /\ j <= TreeLen => upTree[j] \notin s.skipped
      /\ \A k \in s.i + 1..j - 1 : upTree[k] \in s.skipped
  BY <1>2, PendingFacts
<1>4. v = [s EXCEPT !.i = j, !.asked = a, !.at = x]
  BY DEF Past, TreeLen
<1> HIDE DEF j
<1>5. x \in {"next", "finish"} /\ (x = "finish" <=> j = TreeLen + 1)
  BY <1>1, <1>3
<1> HIDE DEF x
<1>6. j \in Nat
  BY <1>1, <1>2, <1>3
<1>7. /\ v \in Senders /\ v.i = j /\ v.asked = a /\ v.at = x
      /\ v.item = s.item /\ v.offered = s.offered /\ v.skipped = s.skipped
  BY <1>4, <1>5, <1>6 DEF Senders
<1> QED BY <1>3, <1>5, <1>7

\* The worker goes past a file it passed over, or wrote.
LEMMA PastStep ==
    ASSUME UpInv, link.sock = "open", NEW a \in BOOLEAN, sender' = Past(sender, a),
           \/ sender.at = "answer" /\ a /\ link.wire = "pass"
           \/ sender.at = "data" /\ ~a,
           UNCHANGED <<upTree, local, host, up, link, strayed, forgotten>>
    PROVE  UpInv'
<1>1. /\ upTree \in UpTrees /\ sender \in Senders
      /\ sender.at \in {"answer", "data"} /\ sender.at \in Working
  BY DEF UpInv, UpTypes, Working
<1>2. TreeLen \in Nat /\ UpFolders \cap UpFiles = {}
  BY <1>1, UpTreeFacts
<1>3. /\ sender.i \in 1..TreeLen /\ sender.item = upTree[sender.i] /\ sender.item \in UpFiles
      /\ sender.offered = None
  <2>1. /\ sender.i \in 1..TreeLen + 1 /\ sender.i <= TreeLen /\ sender.item = upTree[sender.i]
        /\ sender.item \in UpFiles /\ sender.offered = None
    BY <1>1 DEF UpInv, PlaceOK
  <2> QED BY <1>2, <2>1
<1>4. /\ sender' \in Senders /\ sender'.i \in sender.i + 1..TreeLen + 1 /\ sender'.asked = a
      /\ sender'.at \in {"next", "finish"} /\ (sender'.at = "finish" <=> sender'.i = TreeLen + 1)
      /\ sender'.item = sender.item /\ sender'.offered = sender.offered /\ sender'.skipped = sender.skipped
      /\ sender'.i <= TreeLen => upTree[sender'.i] \notin sender.skipped
      /\ \A k \in sender.i + 1..sender'.i - 1 : upTree[k] \in sender.skipped
  BY <1>1, <1>3, PastFacts
<1>5. Ledger' = Ledger /\ TreeLen' = TreeLen
  BY DEF Ledger, TreeLen
<1>6. UpTypes'
  BY <1>4 DEF UpInv, UpTypes
<1>7. UpRowOK'
  <2>1. up.row \in {"running", "winding"}
    BY <1>1 DEF UpInv, UpRowOK
  <2> QED BY <1>4, <1>5, <2>1 DEF UpInv, UpRowOK
<1>8. WireOK'
  BY <1>4, <1>5 DEF UpInv, WireOK
<1>9. link.wire \in {"pass", "data", "next"} /\ (a => link.wire = "pass")
  BY <1>1 DEF UpInv, PlaceOK
<1>10. PlaceOK'
  <2>1. /\ sender'.i \in 1..TreeLen + 1 /\ (sender'.at # "finish" => sender'.i <= TreeLen)
        /\ sender.i \in 1..sender'.i - 1
    BY <1>2, <1>3, <1>4
  <2>2. \A d \in Ledger.folders : d \in sender.skipped \/ \E k \in 1..sender'.i - 1 : upTree[k] = d
    <3> SUFFICES ASSUME NEW d \in Ledger.folders, d \notin sender.skipped
                 PROVE  \E k \in 1..sender'.i - 1 : upTree[k] = d
      OBVIOUS
    <3>1. PICK k \in 1..sender.i - 1 : upTree[k] = d
      BY <1>1 DEF UpInv, PlaceOK
    <3>2. k \in 1..sender'.i - 1
      BY <1>2, <1>3, <2>1
    <3> QED BY <3>1, <3>2
  <2>3. sender'.at = "next" => upTree[sender'.i] \notin Ledger.folders
    <3> SUFFICES ASSUME sender'.at = "next", upTree[sender'.i] \in Ledger.folders PROVE FALSE
      OBVIOUS
    <3>1. sender'.i <= TreeLen
      BY <2>1
    <3>2. PICK k \in 1..sender'.i - 1 : upTree[k] = upTree[sender'.i]
      BY <1>4, <2>2, <3>1
    <3>3. k \in 1..TreeLen /\ sender'.i \in 1..TreeLen /\ k # sender'.i
      BY <1>2, <2>1, <3>1
    <3> QED BY <1>1, <3>2, <3>3, UpTreeFacts
  <2>4. \E k \in 1..sender'.i - 1 : upTree[k] = sender.item
    BY <1>3, <2>1
  <2> QED BY <1>3, <1>4, <1>5, <1>9, <2>1, <2>2, <2>3, <2>4 DEF PlaceOK, Working
<1>11. BehindOK'
  <2> SUFFICES ASSUME ~strayed
               PROVE  /\ sender.skipped \subseteq host.made
                      /\ \A k \in 1..sender'.i - 1 :
                            \/ Handled(host, upTree[k])
                            \/ upTree[k] = sender.item /\ link.wire \in {"item", "data"}
    BY <1>4 DEF BehindOK
  <2>1. /\ sender.skipped \subseteq host.made
        /\ \A k \in 1..sender.i - 1 : Handled(host, upTree[k])
    BY <1>1 DEF UpInv, BehindOK
  <2>2. ASSUME NEW k \in 1..sender'.i - 1
        PROVE  \/ Handled(host, upTree[k])
               \/ upTree[k] = sender.item /\ link.wire \in {"item", "data"}
    <3>1. k \in 1..sender.i - 1 \/ k = sender.i \/ k \in sender.i + 1..sender'.i - 1
      BY <1>2, <1>3, <1>4
    <3>2. CASE k \in 1..sender.i - 1
      BY <2>1, <3>2
    <3>3. CASE k = sender.i
      <4>1. link.wire \in {"next", "pass"} => Handled(host, sender.item)
        BY <1>2, <1>3, <1>1, UpTreeFacts DEF UpInv, WireOK
      <4> QED BY <1>3, <1>9, <3>3, <4>1
    <3>4. CASE k \in sender.i + 1..sender'.i - 1
      <4>1. upTree[k] \in sender.skipped
        BY <1>4, <3>4
      <4>2. sender.skipped \subseteq UpFolders
        BY <1>1 DEF Senders
      <4> QED BY <1>2, <2>1, <4>1, <4>2 DEF Handled
    <3> QED BY <3>1, <3>2, <3>3, <3>4
  <2> QED BY <2>1, <2>2
<1>12. BlocksOK' /\ TakenIsMade'
  BY <1>5 DEF UpInv, BlocksOK, TakenIsMade
<1>13. UpEndOK'
  BY <1>4, OpenFacts DEF UpEndOK
<1> QED BY <1>6, <1>7, <1>8, <1>10, <1>11, <1>12, <1>13 DEF UpInv

\* The worker gives up at a file.
LEMMA SenderGivesUp ==
    ASSUME UpInv, link.sock = "open", sender.at = "answer", NEW r \in {"changed", "local"},
           sender' = Returns(sender, r),
           UNCHANGED <<upTree, local, host, up, link, strayed, forgotten>>
    PROVE  UpInv'
<1>1. sender \in Senders
  BY DEF UpInv, UpTypes
<1>2. sender' \in Senders /\ sender'.at = "ret" /\ sender'.rv = r /\ sender'.item = sender.item
  BY <1>1, ReturnFacts
<1>3. Ledger' = Ledger /\ TreeLen' = TreeLen
  BY DEF Ledger, TreeLen
<1>4. UpTypes'
  BY <1>2 DEF UpInv, UpTypes
<1>5. UpRowOK'
  BY <1>2, <1>3 DEF UpInv, UpRowOK
<1>6. WireOK'
  BY <1>2, <1>3 DEF UpInv, WireOK
<1>7. PlaceOK' /\ BehindOK'
  BY <1>2 DEF PlaceOK, BehindOK, Working
<1>8. BlocksOK' /\ TakenIsMade'
  BY <1>3 DEF UpInv, BlocksOK, TakenIsMade
<1>9. UpEndOK'
  BY <1>2, OpenFacts DEF UpEndOK
<1> QED BY <1>4, <1>5, <1>6, <1>7, <1>8, <1>9 DEF UpInv

\* The worker starts to send a file.
LEMMA StartsToSend ==
    ASSUME UpInv, link.sock = "open", sender.at = "answer", link.wire \in {"send", "resume"},
           NEW f, f = sender.item,
           NEW at, at = (IF link.wire = "resume" THEN Len(host.held[f].blocks) ELSE 0), ~Joins(f, at),
           up' = [up EXCEPT !.run.ledger.files[f] = local[f]],
           link' = [link EXCEPT !.wire = "data"],
           sender' = [sender EXCEPT !.at = "data", !.left = LocalSize[f][local[f]] - at],
           UNCHANGED <<upTree, local, host, strayed, forgotten>>
    PROVE  UpInv'
<1>1. /\ upTree \in UpTrees /\ sender \in Senders /\ up \in Ups /\ link \in Links
      /\ local \in [UpFiles -> Nat] /\ \A g \in UpFiles : local[g] \in 1..Len(LocalSize[g])
      /\ f \in UpFiles
  BY DEF UpInv, UpTypes, WireOK
<1>2. local[f] \in Nat /\ local[f] > 0 /\ LocalSize[f][local[f]] \in Nat
  BY <1>1, SizeFacts
<1>3. host.held[f].blocks \in Seq(Nat \X Nat)
  BY <1>1 DEF UpInv, UpTypes, Hosts, Copies
<1>4. at \in Nat /\ at <= LocalSize[f][local[f]]
  <2>1. at \in Nat
    BY <1>3, SMTT(40)
  <2> QED BY <1>2, <2>1 DEF Joins
<1>5. /\ sender' \in Senders /\ sender'.at = "data" /\ sender'.i = sender.i /\ sender'.item = sender.item
      /\ sender'.asked = sender.asked /\ sender'.offered = sender.offered /\ sender'.skipped = sender.skipped
  <2> DEFINE n == LocalSize[f][local[f]] - at
  <2>1. n \in Nat
    BY <1>2, <1>4
  <2>2. sender' = [sender EXCEPT !.at = "data", !.left = n]
    OBVIOUS
  <2> HIDE DEF n
  <2> QED BY <1>1, <2>1, <2>2 DEF Senders
<1>6. link' \in Links /\ link'.sock = "open" /\ link'.wire = "data"
  BY <1>1, WithWire
<1> DEFINE files == [Ledger.files EXCEPT ![f] = local[f]]
           l == [Ledger EXCEPT !.files = files]
<1>7. Ledger \in Ledgers
  BY <1>1 DEF Ups, Runs, Ledger
<1>8. /\ files \in [UpFiles -> Nat] /\ files[f] = local[f]
      /\ \A g \in UpFiles : g # f => files[g] = Ledger.files[g]
  BY <1>1, <1>2, <1>7 DEF Ledgers
<1>9. up' = [up EXCEPT !.run.ledger = l]
  BY Zenon DEF Ledger
<1> HIDE DEF files
<1>10. l \in Ledgers /\ l.files = files /\ l.folders = Ledger.folders /\ l.unsure = Ledger.unsure
  BY <1>7, <1>8 DEF Ledgers
<1> HIDE DEF l
<1>11. /\ up' \in Ups /\ up'.row = up.row /\ up'.aborted = up.aborted /\ up'.sure = up.sure
       /\ up'.run.ledger = l /\ up'.run.again = up.run.again
  <2> DEFINE r == [up.run EXCEPT !.ledger = l]
  <2>1. up.run \in Runs
    BY <1>1 DEF Ups
  <2>2. r \in Runs /\ r.ledger = l /\ r.again = up.run.again
    BY <1>10, <2>1 DEF Runs
  <2>3. up' = [up EXCEPT !.run = r]
    BY <1>9, Zenon
  <2> HIDE DEF r
  <2>4. up' \in Ups /\ up'.row = up.row /\ up'.aborted = up.aborted /\ up'.sure = up.sure /\ up'.run = r
    BY <1>1, <2>2, <2>3 DEF Ups
  <2> QED BY <2>2, <2>4
<1>12. Ledger' = l /\ TreeLen' = TreeLen
  BY <1>11 DEF Ledger, TreeLen
<1>13. UpTypes'
  BY <1>5, <1>6, <1>11 DEF UpInv, UpTypes
<1>14. up.row \in {"running", "winding"}
  BY DEF UpInv, UpRowOK
<1>15. UpRowOK'
  <2>1. \A g \in UpFiles : files[g] <= local[g]
    BY <1>2, <1>8 DEF UpInv, UpRowOK
  <2> QED BY <1>5, <1>10, <1>11, <1>12, <1>14, <2>1 DEF UpInv, UpRowOK
<1>16. WireOK'
  BY <1>1, <1>2, <1>5, <1>6, <1>8, <1>10, <1>12 DEF WireOK
<1>17. PlaceOK'
  BY <1>5, <1>6, <1>10, <1>12 DEF UpInv, PlaceOK, Working
<1>18. BehindOK'
  BY <1>5 DEF UpInv, BehindOK, Working
<1>19. BlocksOK'
  <2> SUFFICES ASSUME NEW g \in UpFiles, NEW k \in 1..Len(host.held[g].blocks)
               PROVE  /\ host.held[g].blocks[k][1] > 0
                      /\ g \notin forgotten => host.held[g].blocks[k][1] = files[g]
    BY <1>10, <1>12 DEF BlocksOK
  <2>1. /\ host.held[g].blocks[k][1] > 0
        /\ g \notin forgotten => host.held[g].blocks[k][1] = Ledger.files[g]
    BY DEF UpInv, BlocksOK
  <2>2. CASE g # f
    BY <1>8, <2>1, <2>2
  <2>3. CASE g = f
    <3>1. link.wire = "resume"
      <4>1. ASSUME link.wire = "send" PROVE FALSE
        <5>1. host.held[f].blocks = << >>
          BY <4>1, RestTypes DEF UpInv, WireOK
        <5>2. Len(host.held[g].blocks) = 0
          BY <2>3, <5>1
        <5> QED BY <5>2
      <4> QED BY <4>1
    <3>2. at # 0
      BY <1>3, <2>3, <3>1
    <3>3. Ledger.files[f] \in {0, local[f]}
      BY <3>2 DEF Joins, Ledger
    <3>4. g \notin forgotten => Ledger.files[f] = local[f]
      BY <2>1, <2>3, <3>3
    <3> QED BY <1>8, <2>1, <2>3, <3>4
  <2> QED BY <2>2, <2>3
<1>20. TakenIsMade'
  BY <1>10, <1>11 DEF UpInv, TakenIsMade, Ledger
<1>21. UpEndOK'
  BY <1>5, <1>11, <1>14 DEF UpEndOK
<1> QED BY <1>13, <1>15, <1>16, <1>17, <1>18, <1>19, <1>20, <1>21 DEF UpInv

\* The answer to a file, acted on, keeps the invariant.
LEMMA AnsweredStep ==
    ASSUME UpInv, Answered
    PROVE  UpInv'
<1> DEFINE f == sender.item
           at == IF link.wire = "resume" THEN Len(host.held[f].blocks) ELSE 0
<1>1. /\ sender.at = "answer" /\ link.sock = "open" /\ link.wire \in {"pass", "send", "resume"}
      /\ UNCHANGED <<upTree, local, host, strayed, forgotten>>
  BY DEF Answered
<1>2. \/ link.wire = "pass" /\ sender' = Past(sender, TRUE) /\ UNCHANGED <<up, link>>
      \/ \E r \in {"changed", "local"} : sender' = Returns(sender, r) /\ UNCHANGED <<up, link>>
      \/ /\ link.wire # "pass" /\ ~Joins(f, at)
         /\ up' = [up EXCEPT !.run.ledger.files[f] = local[f]]
         /\ link' = [link EXCEPT !.wire = "data"]
         /\ sender' = [sender EXCEPT !.at = "data", !.left = LocalSize[f][local[f]] - at]
  BY Zenon DEF Answered
<1>3. CASE link.wire = "pass" /\ sender' = Past(sender, TRUE) /\ UNCHANGED <<up, link>>
  BY <1>1, <1>3, PastStep
<1>4. CASE \E r \in {"changed", "local"} : sender' = Returns(sender, r) /\ UNCHANGED <<up, link>>
  BY <1>1, <1>4, SenderGivesUp
<1>5. CASE /\ link.wire # "pass" /\ ~Joins(f, at)
           /\ up' = [up EXCEPT !.run.ledger.files[f] = local[f]]
           /\ link' = [link EXCEPT !.wire = "data"]
           /\ sender' = [sender EXCEPT !.at = "data", !.left = LocalSize[f][local[f]] - at]
  <2>1. link.wire \in {"send", "resume"}
    BY <1>1, <1>5
  <2> QED BY <1>1, <1>5, <2>1, StartsToSend, Zenon
<1> QED BY <1>2, <1>3, <1>4, <1>5

\* A block written keeps the invariant.
LEMMA WriteForkStep ==
    ASSUME UpInv, WriteFork
    PROVE  UpInv'
<1>1. /\ sender.at = "data" /\ link.sock = "open" /\ sender \in Senders /\ link \in Links
      /\ UNCHANGED <<upTree, local, host, up, strayed, forgotten>>
  BY DEF WriteFork, UpInv, UpTypes
<1>2. CASE sender.left = 0
  BY <1>1, <1>2, PastStep DEF WriteFork
<1>3. CASE sender.left # 0
  <2>1. link' = [link EXCEPT !.flight = 1] /\ sender' = [sender EXCEPT !.left = sender.left - 1]
    BY <1>3 DEF WriteFork
  <2>2. link' \in Links /\ link'.sock = link.sock /\ link'.wire = link.wire
    BY <1>1, <2>1 DEF Links
  <2>3. sender.left - 1 \in Nat
    BY <1>1, <1>3 DEF Senders
  <2> DEFINE n == sender.left - 1
  <2>4. sender' = [sender EXCEPT !.left = n] /\ n \in Nat
    BY <2>1, <2>3
  <2> HIDE DEF n
  <2>5. /\ sender' \in Senders /\ sender'.at = "data" /\ sender'.i = sender.i /\ sender'.item = sender.item
        /\ sender'.asked = sender.asked /\ sender'.offered = sender.offered
        /\ sender'.skipped = sender.skipped
    BY <1>1, <2>4 DEF Senders
  <2>6. Ledger' = Ledger /\ TreeLen' = TreeLen
    BY <1>1 DEF Ledger, TreeLen
  <2>7. UpTypes'
    BY <1>1, <2>2, <2>5 DEF UpInv, UpTypes
  <2>8. UpRowOK'
    BY <1>1, <2>5, <2>6 DEF UpInv, UpRowOK
  <2>9. WireOK'
    BY <1>1, <2>2, <2>5, <2>6 DEF UpInv, WireOK
  <2>10. PlaceOK'
    BY <1>1, <2>2, <2>5, <2>6 DEF UpInv, PlaceOK
  <2>11. BehindOK'
    BY <1>1, <2>2, <2>5, <2>6 DEF UpInv, BehindOK
  <2>12. BlocksOK' /\ TakenIsMade'
    BY <1>1, <2>6 DEF UpInv, BlocksOK, TakenIsMade
  <2>13. UpEndOK'
    BY <1>1, <2>5, OpenFacts DEF UpEndOK
  <2> QED BY <2>7, <2>8, <2>9, <2>10, <2>11, <2>12, <2>13 DEF UpInv
<1> QED BY <1>2, <1>3

\* An item offered keeps the invariant: the server asking for it has the one before.
LEMMA OfferStep ==
    ASSUME UpInv, Offer
    PROVE  UpInv'
<1> DEFINE i == sender.i
           e == upTree[i]
           d == sender.offered
           l == Made(Ledger, d)
           j == Pending(i + 1, l.folders)
           x == IF j > TreeLen THEN "finish" ELSE "next"
           s == [sender EXCEPT !.item = e, !.asked = FALSE, !.offered = None, !.lost = FALSE]
<1>1. /\ sender.at = "next" /\ sender.at \in Working /\ link.sock = "open"
      /\ sender \in Senders /\ up \in Ups /\ link \in Links /\ host \in Hosts /\ upTree \in UpTrees
      /\ UNCHANGED <<upTree, local, host, strayed, forgotten>>
  BY DEF Offer, UpInv, UpTypes, Working
<1>2. TreeLen \in Nat /\ UpFolders \cap UpFiles = {} /\ None \notin UpFolders /\ None \notin UpFiles
  BY <1>1, UpTreeFacts
<1>3. i \in 1..TreeLen /\ e \in Items /\ e # None
  <2>1. i \in 1..TreeLen + 1 /\ i <= TreeLen
    BY <1>1 DEF UpInv, PlaceOK
  <2>2. i \in 1..TreeLen
    BY <1>2, <2>1
  <2> QED BY <1>1, <2>2, UpTreeFacts
<1>4. /\ d \in UpFolders \cup {None} /\ Ledger \in Ledgers
  BY <1>1 DEF Senders, Ups, Runs, Ledger
<1>5. link.wire \in {"next", "pass"}
  BY <1>1 DEF Offer, UpInv, PlaceOK
<1>6. d # None => d = sender.item /\ d \in host.made /\ d \notin Ledger.folders
  <2> SUFFICES ASSUME d # None PROVE d = sender.item /\ d \in host.made /\ d \notin Ledger.folders
    OBVIOUS
  <2>1. d = sender.item /\ d \notin Ledger.folders
    BY <1>1 DEF UpInv, PlaceOK
  <2>2. Handled(host, sender.item)
    BY <1>5, <2>1 DEF UpInv, WireOK
  <2>3. d \notin UpFiles
    BY <1>2, <1>4
  <2> QED BY <2>1, <2>2, <2>3 DEF Handled
<1>7. /\ l \in Ledgers /\ l.files = Ledger.files
      /\ l.folders \subseteq Ledger.folders \cup {d} /\ Ledger.folders \subseteq l.folders
      /\ l.folders \cap l.unsure = {}
      /\ \A y \in l.folders : y \in Ledger.folders \/ (y = d /\ d # None)
  <2>1. Ledger.folders \cap Ledger.unsure = {}
    BY DEF UpInv, UpRowOK
  <2>2. CASE d = None
    BY <1>4, <2>1, <2>2, LedgerChanges
  <2>3. CASE d # None
    <3>1. l \in Ledgers /\ l.files = Ledger.files /\ l.folders = Ledger.folders \cup {d}
          /\ l.unsure = Ledger.unsure \ {d}
      BY <1>4, <2>3, LedgerChanges
    <3> HIDE DEF l, d
    <3> QED BY <2>1, <2>3, <3>1
  <2> QED BY <2>2, <2>3
<1>8. /\ j \in i + 1..TreeLen + 1
      /\ j <= TreeLen => upTree[j] \notin l.folders
      /\ \A k \in i + 1..j - 1 : upTree[k] \in l.folders
  <2>1. i + 1 \in 1..TreeLen + 1
    BY <1>2, <1>3
  <2> HIDE DEF l
  <2> QED BY <1>1, <2>1, PendingFacts
<1>9. up' = [up EXCEPT !.run.ledger = l] /\ link' = [link EXCEPT !.wire = "item"]
  BY DEF Offer, Ledger
<1>10. sender' = IF e \in UpFiles THEN [s EXCEPT !.at = "answer"]
                 ELSE [s EXCEPT !.offered = e, !.lost = e \in l.unsure, !.i = j, !.at = x]
  BY DEF Offer, Ledger, TreeLen
<1>11. /\ s \in Senders /\ s.item = e /\ ~s.asked /\ s.offered = None /\ s.i = i
       /\ s.skipped = sender.skipped
  <2> HIDE DEF e
  <2> QED BY <1>1, <1>3 DEF Senders, Items
<1>12. link' \in Links /\ link'.sock = "open" /\ link'.wire = "item"
  BY <1>1, <1>9, WithWire
<1>13. x \in {"next", "finish"} /\ (x = "finish" <=> j = TreeLen + 1)
  <2> HIDE DEF j
  <2> QED BY <1>2, <1>3, <1>8
<1> HIDE DEF s, x, j, l
<1>14. /\ up' \in Ups /\ up'.row = up.row /\ up'.aborted = up.aborted /\ up'.sure = up.sure
       /\ up'.run.ledger = l /\ up'.run.again = up.run.again
  BY <1>1, <1>7, <1>9 DEF Ups, Runs
<1>15. Ledger' = l /\ TreeLen' = TreeLen
  BY <1>1, <1>14 DEF Ledger, TreeLen
<1>16. e \in UpFiles =>
         /\ sender' \in Senders /\ sender'.at = "answer" /\ sender'.item = e /\ ~sender'.asked
         /\ sender'.offered = None /\ sender'.i = i /\ sender'.skipped = sender.skipped
  <2> SUFFICES ASSUME e \in UpFiles
               PROVE  /\ sender' \in Senders /\ sender'.at = "answer" /\ sender'.item = e /\ ~sender'.asked
                      /\ sender'.offered = None /\ sender'.i = i /\ sender'.skipped = sender.skipped
    OBVIOUS
  <2>1. sender' = [s EXCEPT !.at = "answer"]
    BY <1>10
  <2> HIDE DEF e, i
  <2> QED BY <1>11, <2>1 DEF Senders
<1>17. e \notin UpFiles =>
         /\ sender' \in Senders /\ sender'.at = x /\ sender'.item = e /\ ~sender'.asked
         /\ sender'.offered = e /\ sender'.i = j /\ sender'.skipped = sender.skipped
  <2> SUFFICES ASSUME e \notin UpFiles
               PROVE  /\ sender' \in Senders /\ sender'.at = x /\ sender'.item = e /\ ~sender'.asked
                      /\ sender'.offered = e /\ sender'.i = j /\ sender'.skipped = sender.skipped
    OBVIOUS
  <2> DEFINE b == e \in l.unsure
  <2>1. sender' = [s EXCEPT !.offered = e, !.lost = b, !.i = j, !.at = x] /\ b \in BOOLEAN
    BY <1>10
  <2>2. e \in UpFolders /\ j \in Nat
    BY <1>2, <1>3, <1>8 DEF Items
  <2> HIDE DEF e, i, b
  <2> QED BY <1>11, <1>13, <2>1, <2>2 DEF Senders
<1>18. sender' \in Senders /\ sender'.item = e /\ ~sender'.asked /\ sender'.at \in {"answer", "next", "finish"}
       /\ sender'.skipped = sender.skipped
  BY <1>13, <1>16, <1>17
<1>19. UpTypes'
  BY <1>1, <1>12, <1>14, <1>18 DEF UpInv, UpTypes
<1>20. up.row \in {"running", "winding"}
  BY <1>1 DEF UpInv, UpRowOK
<1>21. UpRowOK'
  BY <1>1, <1>7, <1>14, <1>15, <1>18, <1>20 DEF UpInv, UpRowOK
<1>22. WireOK'
  BY <1>3, <1>12, <1>18 DEF WireOK
<1>23. \A y \in l.folders : y \in sender.skipped \/ \E k \in 1..i - 1 : upTree[k] = y
  <2> SUFFICES ASSUME NEW y \in l.folders
               PROVE  y \in sender.skipped \/ \E k \in 1..i - 1 : upTree[k] = y
    OBVIOUS
  <2>1. CASE y \in Ledger.folders
    BY <1>1, <2>1 DEF UpInv, PlaceOK
  <2>2. CASE y = d /\ d # None
    BY <1>1, <1>6, <2>2 DEF UpInv, PlaceOK
  <2> QED BY <1>7, <2>1, <2>2
<1>24. e \notin l.folders
  <2>1. e \notin Ledger.folders
    BY <1>1 DEF UpInv, PlaceOK
  <2>2. d # None => e # d
    <3> SUFFICES ASSUME d # None, e = d PROVE FALSE
      OBVIOUS
    <3>1. PICK k \in 1..i - 1 : upTree[k] = d
      BY <1>1, <1>6 DEF UpInv, PlaceOK
    <3>2. k \in 1..TreeLen /\ k # i
      BY <1>2, <1>3
    <3> QED BY <1>1, <1>3, <3>1, <3>2, UpTreeFacts
  <2> QED BY <1>7, <2>1, <2>2
<1>25. TakenIsMade'
  <2>1. strayed \/ Ledger.folders \subseteq host.made
    BY DEF UpInv, TakenIsMade, Ledger
  <2> QED BY <1>1, <1>6, <1>7, <1>14, <2>1 DEF TakenIsMade
<1>26. ~strayed => /\ sender.skipped \subseteq host.made
                   /\ \A k \in 1..i - 1 : Handled(host, upTree[k])
  BY <1>1, <1>5 DEF UpInv, BehindOK
<1>27. PlaceOK' /\ BehindOK'
  <2>1. CASE e \in UpFiles
    <3>1. i \in 1..TreeLen + 1 /\ i <= TreeLen
      BY <1>2, <1>3
    <3>2. PlaceOK'
      BY <1>1, <1>15, <1>16, <1>23, <2>1, <3>1 DEF PlaceOK
    <3>3. BehindOK'
      BY <1>1, <1>16, <1>26, <2>1 DEF BehindOK
    <3> QED BY <3>2, <3>3
  <2>2. CASE e \notin UpFiles
    <3>1. e \in UpFolders
      BY <1>3, <2>2 DEF Items
    <3>2. j \in 1..TreeLen + 1 /\ (x # "finish" => j <= TreeLen) /\ i \in 1..j - 1
      BY <1>2, <1>3, <1>8, <1>13
    <3>3. \A y \in l.folders : y \in sender.skipped \/ \E k \in 1..j - 1 : upTree[k] = y
      <4>1. \A k \in 1..i - 1 : k \in 1..j - 1
        BY <1>2, <1>3, <3>2
      <4> QED BY <1>23, <4>1
    <3>4. x = "next" => upTree[j] \notin l.folders
      BY <1>8, <3>2
    <3>4a. sender'.at \notin {"answer", "data"}
      BY <1>13, <1>17, <2>2
    <3>5. PlaceOK'
      <4>1. \E k \in 1..j - 1 : upTree[k] = e
        BY <3>2
      <4> HIDE DEF e, i
      <4> QED BY <1>1, <1>13, <1>15, <1>17, <1>24, <2>2, <3>1, <3>2, <3>3, <3>4, <3>4a, <4>1 DEF PlaceOK
    <3>6. ~strayed => \A k \in 1..j - 1 : Handled(host, upTree[k]) \/ upTree[k] = e
      <4> SUFFICES ASSUME ~strayed, NEW k \in 1..j - 1
                   PROVE  Handled(host, upTree[k]) \/ upTree[k] = e
        OBVIOUS
      <4>1. k \in 1..i - 1 \/ k = i \/ k \in i + 1..j - 1
        BY <1>2, <1>3, <3>2
      <4>2. CASE k \in 1..i - 1
        BY <1>26, <4>2
      <4>3. CASE k \in i + 1..j - 1
        <5>1. upTree[k] \in l.folders /\ l.folders \subseteq UpFolders
          BY <1>7, <1>8, <4>3 DEF Ledgers
        <5>2. l.folders \subseteq host.made
          BY <1>1, <1>14, <1>25 DEF TakenIsMade
        <5> QED BY <1>2, <5>1, <5>2 DEF Handled
      <4> QED BY <4>1, <4>2, <4>3
    <3>7. BehindOK'
      BY <1>1, <1>12, <1>13, <1>17, <1>26, <2>2, <3>6 DEF BehindOK
    <3> QED BY <3>5, <3>7
  <2> QED BY <2>1, <2>2
<1>28. BlocksOK'
  BY <1>1, <1>7, <1>15 DEF UpInv, BlocksOK
<1>29. UpEndOK'
  BY <1>14, <1>18, <1>20 DEF UpEndOK
<1> QED BY <1>19, <1>21, <1>22, <1>25, <1>27, <1>28, <1>29 DEF UpInv

\* An upload not yet asked for satisfies the invariant.
LEMMA UpInitInv ==
    ASSUME UpInit
    PROVE  UpInv
<1>1. PICK k \in Servers : host = [kind |-> k, root |-> FALSE, made |-> {}, held |-> [f \in UpFiles |-> NotHeld]]
  BY DEF UpInit
<1>2. /\ upTree \in UpTrees /\ local = [f \in UpFiles |-> 1]
      /\ up = [row |-> "ready", aborted |-> FALSE, sure |-> FALSE, run |-> NewRun]
      /\ sender = AtRest /\ link = NoLink /\ strayed = FALSE
  BY DEF UpInit
<1>3. host \in Hosts /\ host.held = [f \in UpFiles |-> NotHeld]
  <2> DEFINE none == [f \in UpFiles |-> NotHeld]
  <2>1. none \in [UpFiles -> Copies]
    BY RestTypes
  <2> HIDE DEF none
  <2>2. host = [kind |-> k, root |-> FALSE, made |-> {}, held |-> none]
    BY <1>1 DEF none
  <2>3. host \in Hosts /\ host.held = none
    BY <2>1, <2>2 DEF Hosts
  <2> QED BY <2>3 DEF none
<1>4. up \in Ups /\ up.row = "ready" /\ ~up.aborted /\ ~up.sure /\ up.run = NewRun
  BY <1>2, RestTypes DEF Ups, Rows
<1>5. /\ local \in [UpFiles -> Nat] /\ \A f \in UpFiles : local[f] = 1 /\ local[f] \in 1..Len(LocalSize[f])
  BY <1>2, SizeFacts
<1>6. UpTypes
  BY <1>2, <1>3, <1>4, <1>5, RestTypes DEF UpTypes
<1>7. UpRowOK
  <2>1. 0 <= AgainTries
    BY UpAssumption
  <2> QED BY <1>2, <1>4, <1>5, <2>1, RestTypes DEF UpRowOK, Ledger
<1>8. WireOK /\ PlaceOK /\ BehindOK
  BY <1>2, RestTypes DEF WireOK, PlaceOK, BehindOK, Working
<1>9. BlocksOK
  <2>1. \A f \in UpFiles : Len(host.held[f].blocks) = 0
    BY <1>3, RestTypes
  <2> QED BY <2>1 DEF BlocksOK
<1>10. UpEndOK /\ TakenIsMade
  BY <1>4, RestTypes DEF UpEndOK, TakenIsMade
<1> QED BY <1>6, <1>7, <1>8, <1>9, <1>10 DEF UpInv

\* A step that changes nothing keeps the invariant.
LEMMA UpStutter ==
    ASSUME UpInv, UNCHANGED upVars
    PROVE  UpInv'
<1>1. UNCHANGED <<upTree, local, host, up, sender, link, strayed, forgotten>>
  BY DEF upVars
<1>2. Ledger' = Ledger /\ TreeLen' = TreeLen
  BY <1>1 DEF Ledger, TreeLen
<1>3. WireOK' /\ PlaceOK' /\ BehindOK' /\ BlocksOK' /\ TakenIsMade'
  BY <1>1, RowFrame
<1>4. UpTypes' /\ UpRowOK' /\ UpEndOK'
  BY <1>1, <1>2 DEF UpInv, UpTypes, UpRowOK, UpEndOK
<1> QED BY <1>3, <1>4 DEF UpInv

\* Every step keeps the invariant.
LEMMA UpStep ==
    ASSUME UpInv, [UpNext]_upVars
    PROVE  UpInv'
  BY PutFolderStep, ResumeStep, RefusesStep, AcceptStep, ServerRemovesStep, LocalEditStep,
     PauseUpStep, LinkLostStep, ServerClosesStep, FinishStep, SenderConnectsStep, SettleUpStep,
     SenderEndsStep, ServerTakesStep, ServerReadsStep, AnsweredStep, WriteForkStep, OfferStep,
     UpStutter
  DEF UpNext, SenderStep, ServerStep

(* The upload's invariant holds always (`folder_send`, `ended`, `UploadLedger`). *)
THEOREM UpInvariant == UpSpec => []UpInv
  BY UpInitInv, UpStep, PTL DEF UpSpec

\* What the invariant says of the server's copy.
LEMMA UpInvIsWhole ==
    ASSUME UpInv
    PROVE  UploadIsWhole
<1>1. UpTypeOK
  <2>1. /\ upTree \in UpTrees
        /\ up.row \in {"ready", "new", "asked", "restarted", "running", "winding",
                       "paused", "changed", "failed", "done", "gone"}
        /\ up.aborted => up.row = "winding"
        /\ sender.at \in {"idle", "connect", "next", "answer", "data", "finish", "ret"}
        /\ (sender.at = "idle") = (up.row \notin {"running", "winding"})
        /\ link.sock \in {"none", "open", "fin", "lost", "shut"}
        /\ link.flight \in 0..1 /\ sender.left \in Nat
    BY DEF UpInv, UpTypes, UpRowOK, Ups, Rows, Senders, Links
  <2>2. host.kind \in Servers /\ host.made \subseteq UpFolders
    BY DEF UpInv, UpTypes, Hosts
  <2>3. \A f \in UpFiles : local[f] \in DOMAIN LocalSize[f]
    BY SizeFacts DEF UpInv, UpTypes
  <2>4. up.run \in Runs /\ Ledger \in Ledgers
    BY DEF UpInv, UpTypes, Ups, Runs, Ledger
  <2>5. up.run.again \in 0..AgainTries
    BY <2>4, UpAssumption DEF Runs, UpInv, UpRowOK
  <2>6. /\ Ledger.folders \cup Ledger.unsure \subseteq UpFolders
        /\ Ledger.folders \cap Ledger.unsure = {}
        /\ \A f \in UpFiles : Ledger.files[f] \in 0..local[f]
    BY <2>4 DEF Ledgers, UpInv, UpRowOK, UpTypes
  <2>7. sender.at = "next" => sender.i \in DOMAIN upTree
    <3>1. upTree \in Seq(UpFolders \cup UpFiles)
      BY <2>1, UpAssumption
    <3>2. DOMAIN upTree = 1..TreeLen /\ TreeLen \in Nat
      BY <3>1 DEF TreeLen
    <3>3. sender.at = "next" => sender.i \in 1..TreeLen + 1 /\ sender.i <= TreeLen
      BY DEF UpInv, PlaceOK, Working
    <3> QED BY <3>2, <3>3
  <2> QED BY <2>1, <2>2, <2>3, <2>5, <2>6, <2>7 DEF UpTypeOK, Ledger
<1>2. NeverJoined
  <2> SUFFICES ASSUME NEW f \in UpFiles \ forgotten,
                      NEW i \in DOMAIN host.held[f].blocks, NEW j \in DOMAIN host.held[f].blocks
               PROVE  host.held[f].blocks[i][1] = host.held[f].blocks[j][1]
    BY DEF NeverJoined
  <2>1. host.held[f].blocks \in Seq(Nat \X Nat)
    BY DEF UpInv, UpTypes, Hosts, Copies
  <2>2. DOMAIN host.held[f].blocks = 1..Len(host.held[f].blocks)
    BY <2>1
  <2> QED BY <2>2 DEF UpInv, BlocksOK
<1>3. TakenIsMade
  BY DEF UpInv
<1>4. DoneIsWhole
  <2>1. upTree \in Seq(UpFolders \cup UpFiles)
    BY UpAssumption DEF UpInv, UpTypes
  <2>2. DOMAIN upTree = 1..TreeLen
    BY <2>1 DEF TreeLen
  <2> QED BY <2>2 DEF DoneIsWhole, UpInv, UpEndOK, Handled
<1> QED BY <1>1, <1>2, <1>3, <1>4 DEF UploadIsWhole

(* For every tree, file and kind of server, and any number of troubles: no file
   at the server is of two versions, a folder taken as made is made, and an
   upload whose end the server saw left everything there (`folder_send`,
   `ended`, `finish_send`, `UploadLedger`). *)
THEOREM UploadIsAlwaysWhole == UpSpec => []UploadIsWhole
  BY UpInvariant, UpInvIsWhole, PTL

=============================================================================
