------------------------- MODULE RangeReaderProofs -------------------------
(***************************************************************************)
(* The media preview's range reader, for any file, any reads and any       *)
(* number of ranges: what a read is given is the file's, in bounded        *)
(* memory.                                                                 *)
(*                                                                         *)
(* The bytes are the file's because the one worker that may add to the     *)
(* window adds where it ends.  That is inductive with what is said of the  *)
(* ranges on their way to a worker (RequestsOK): a number is given once,   *)
(* and until the current range has its worker its window is empty and      *)
(* starts where the range was asked from.  That lengths are the file's     *)
(* needs that a range from anywhere but the start is asked for only once   *)
(* the first range has told the length (LengthOK).                         *)
(***************************************************************************)
EXTENDS RangeReader, SequenceTheorems, WellFoundedInduction, TLAPS

\* The bytes of the window and of the ranges kept are the file's.
BytesOK(s) ==
    /\ \A i \in 1..Len(s.window) : s.window[i] = s.start + i - 1
    /\ \A k \in 1..Len(s.kept) : FromFile(s.kept[k])

\* The worker of the current range goes on where the window ends; a range not begun has
\* no worker.
WritersOK(s, w) ==
    \A r \in Ranges :
        /\ r > s.range => w[r].pc = "none"
        /\ s.range = r /\ ~s.closed =>
             /\ w[r].pc \in {"connect", "head"} =>
                    s.window = <<>> /\ s.start = w[r].offset /\ w[r].next = w[r].offset
             /\ w[r].pc \in {"read", "keep"} => w[r].next = ReadTo(s)

\* The ranges on their way to a worker, Q: of the current one nothing was read yet.
RequestsOK(s, w, Q) ==
    /\ \A q \in Q :
        /\ q.range <= s.range /\ w[q.range].pc = "none"
        /\ s.range = q.range /\ ~s.closed => s.window = <<>> /\ s.start = q.offset
    /\ \A p, q \in Q : p.range = q.range => p = q

\* Where a range on its way is: to be asked for, asked for, in the queue or to be
\* asked for again.
OnTheirWay == asks \cup inflight \cup queued \cup retrying
OnePlace ==
    /\ asks \cap inflight = {} /\ asks \cap queued = {} /\ asks \cap retrying = {}
    /\ inflight \cap queued = {} /\ inflight \cap retrying = {} /\ queued \cap retrying = {}

\* The length is the file's once it is told, and told before anything but the start is
\* asked for.
LengthOK ==
    /\ state.len \in {0, FileLen}
    /\ player.start \/ player.started => state.len = FileLen
    /\ Fetching \/ fetcher.gave # "nothing" => player.started
    /\ \A q \in OnTheirWay : q.offset # 0 => player.started
    /\ \A r \in Ranges : worker[r].offset # 0 => player.started

\* What a read waits for is not far past what the player has taken.
WaitOK(s) == s.waiting_to <= s.taken + LongestRead + BackOff

KeptOK(s) == Total(s.kept) <= KeptMax
WindowFits(s) == Len(s.window) <= 2 * Behind + Max2(Ahead, LongestRead + BackOff)
NoPanic(w) == \A r \in Ranges : w[r].pc # "panicked"

\* What is said of windows, workers and ranges on their way, and of memory.
CoreOK(s, w, Q) == BytesOK(s) /\ WritersOK(s, w) /\ RequestsOK(s, w, Q)
MemoryOK(s, w) == KeptOK(s) /\ (NoPanic(w) => WindowFits(s))

\* The inductive invariant.
ReaderInv ==
    /\ TypeOK
    /\ CoreOK(state, worker, OnTheirWay) /\ OnePlace
    /\ LengthOK /\ ServedBytesAreTheFile
    /\ fetcher.length <= LongestRead /\ WaitOK(state)
    /\ MemoryOK(state, worker)

-----------------------------------------------------------------------------
(* The records.                                                              *)

States ==
    [range : Nat, active : BOOLEAN, start : Nat, window : Seq(Nat), kept : Seq(Stretch),
     taken : Nat, waiting_to : Nat, len : Nat, failed : Problems \cup {NoProblem},
     flushing : BOOLEAN, closed : BOOLEAN, abort : 0..MaxRanges]
Fetchers ==
    [pc : {"idle", "fetching"}, main : BOOLEAN, offset : Nat, length : Nat \ {0},
     gave : {"nothing", "Flushing", "End", "Bytes", "Failed"}, bytes : Seq(Nat)]
Workers ==
    [pc : {"none", "connect", "head", "read", "keep", "ends", "done", "panicked"},
     offset : Nat, next : Nat, end : Nat, problem : Problems \cup {NoProblem}, first : BOOLEAN]
Players ==
    [at : {"open", "failed", "gone"}, started : BOOLEAN, retries : 0..Retries,
     start : BOOLEAN, fail : BOOLEAN]

\* The types, by variable.
LEMMA ReaderTypes ==
    TypeOK <=> /\ state \in States /\ fetcher \in Fetchers /\ worker \in [Ranges -> Workers]
               /\ player \in Players /\ asks \subseteq Asked /\ inflight \subseteq Asked
               /\ queued \subseteq Asked /\ retrying \subseteq Asked /\ conn \in BOOLEAN
               /\ fetches \in 0..MaxFetches /\ faults \in 0..MaxFaults
  BY DEF TypeOK, States, Fetchers, Workers, Players

\* The same after a step.
LEMMA ReaderTypesNext ==
    TypeOK' <=> /\ state' \in States /\ fetcher' \in Fetchers /\ worker' \in [Ranges -> Workers]
                /\ player' \in Players /\ asks' \subseteq Asked /\ inflight' \subseteq Asked
                /\ queued' \subseteq Asked /\ retrying' \subseteq Asked /\ conn' \in BOOLEAN
                /\ fetches' \in 0..MaxFetches /\ faults' \in 0..MaxFaults
  BY DEF TypeOK, States, Fetchers, Workers, Players

\* The longest read is one of them, and longest.
LEMMA LongestIs ==
    LongestRead \in Nat \ {0} /\ \A read \in Reads : read[2] <= LongestRead
<1> DEFINE L == {read[2] : read \in Reads}
<1>1. PICK m \in Reads : \A other \in Reads : other[2] <= m[2]
  BY ReadsAssumption
<1>2. m[2] \in L /\ \A read \in Reads : read[2] <= m[2]
  BY <1>1
<1>3. \E n \in L : \A read \in Reads : read[2] <= n
  BY <1>2
<1>4. LongestRead \in L /\ \A read \in Reads : read[2] <= LongestRead
  BY <1>3 DEF LongestRead
<1>5. L \subseteq Nat \ {0}
  BY ReadsAssumption
<1> QED BY <1>4, <1>5

-----------------------------------------------------------------------------
(* The ranges kept.                                                          *)

\* Nothing kept takes no memory.
LEMMA TotalOfNothing == Total(<<>>) = 0
<1> DEFINE Sum(f) == [i \in 0..Len(<<>>) |-> IF i = 0 THEN 0 ELSE f[i - 1] + Len(<<>>[i].bytes)]
           z == [i \in 0..Len(<<>>) |-> 0]
<1>1. z = Sum(z)
  BY DEF z
<1> DEFINE c == CHOOSE f : f = Sum(f)
<1>2. c = Sum(c)
  BY <1>1
<1>3. Total(<<>>) = c[Len(<<>>)]
  BY DEF Total
<1> QED BY <1>2, <1>3

\* What is left of the ranges kept are some of them, and fit.
LEMMA TrimIs ==
    ASSUME NEW k \in Seq(Stretch), \A i \in 1..Len(k) : FromFile(k[i])
    PROVE  /\ Trim(k) \in Seq(Stretch) /\ \A i \in 1..Len(Trim(k)) : FromFile(Trim(k)[i])
           /\ Total(Trim(k)) <= KeptMax
<1> DEFINE From(i) == SubSeq(k, i + 1, Len(k))
           First(i) == /\ Total(From(i)) <= KeptMax
                       /\ \A j \in 0..(i - 1) : Total(From(j)) > KeptMax
<1>1. CASE \E i \in 0..Len(k) : First(i)
  <2> DEFINE n == CHOOSE i \in 0..Len(k) : First(i)
  <2>1. n \in 0..Len(k) /\ First(n)
    BY <1>1
  <2>2. Trim(k) = From(n)
    BY <1>1 DEF Trim
  <2> HIDE DEF n
  <2>3. Total(Trim(k)) <= KeptMax
    BY <2>1, <2>2
  <2>4. From(n) \in Seq(Stretch) /\ Len(From(n)) = Len(k) - n
        /\ \A i \in 1..(Len(k) - n) : From(n)[i] = k[n + i]
    BY <2>1
  <2> HIDE DEF From
  <2>5. \A i \in 1..Len(From(n)) : n + i \in 1..Len(k) /\ From(n)[i] = k[n + i]
    BY <2>1, <2>4
  <2> QED BY <2>2, <2>3, <2>4, <2>5
<1>2. CASE ~\E i \in 0..Len(k) : First(i)
  <2>1. Trim(k) = <<>>
    BY <1>2 DEF Trim
  <2> QED BY <2>1, TotalOfNothing, SizesAssumption
<1> QED BY <1>1, <1>2

\* The window is kept and the new range starts empty.
LEMMA RestartIs ==
    ASSUME NEW s \in States, BytesOK(s), KeptOK(s), NEW o \in Nat
    PROVE  LET t == Restart(s, o) IN
           /\ t \in States /\ BytesOK(t) /\ KeptOK(t)
           /\ t.window = <<>> /\ t.start = o /\ t.taken = o /\ t.range = s.range + 1
           /\ t.len = s.len /\ t.closed = s.closed /\ t.flushing = s.flushing
<1> DEFINE st == [start |-> s.start, bytes |-> s.window]
           k == Append(s.kept, st)
           m == IF s.window = <<>> THEN s.kept ELSE Trim(k)
           t == Restart(s, o)
<1>1. s.kept \in Seq(Stretch) /\ s.window \in Seq(Nat) /\ s.start \in Nat
  BY DEF States
<1>2. st \in Stretch /\ FromFile(st)
  BY <1>1 DEF Stretch, FromFile, BytesOK
<1> HIDE DEF st
<1>3. k \in Seq(Stretch) /\ \A i \in 1..Len(k) : FromFile(k[i])
  <2>1. \A i \in 1..Len(s.kept) : FromFile(s.kept[i])
    BY DEF BytesOK
  <2>2. k \in Seq(Stretch) /\ Len(k) = Len(s.kept) + 1
    BY <1>1, <1>2
  <2>3. \A i \in 1..Len(k) : k[i] = IF i <= Len(s.kept) THEN s.kept[i] ELSE st
    BY <1>1, <1>2
  <2>4. ASSUME NEW i \in 1..Len(k) PROVE FromFile(k[i])
    <3> HIDE DEF k
    <3>1. Len(s.kept) \in Nat
      BY <1>1
    <3>2. CASE i <= Len(s.kept)
      BY <2>1, <2>3, <3>1, <3>2
    <3>3. CASE ~(i <= Len(s.kept))
      BY <1>2, <2>3, <3>3
    <3> QED BY <3>2, <3>3
  <2> QED BY <2>2, <2>4
<1>4. m \in Seq(Stretch) /\ (\A i \in 1..Len(m) : FromFile(m[i])) /\ Total(m) <= KeptMax
  <2>1. CASE s.window = <<>>
    BY <1>1, <2>1 DEF BytesOK, KeptOK
  <2>2. CASE s.window # <<>>
    BY <1>3, <2>2, TrimIs
  <2> QED BY <2>1, <2>2
<1>5. t = [s EXCEPT !.kept = m, !.window = <<>>, !.range = s.range + 1, !.active = TRUE,
                    !.start = o, !.taken = o, !.waiting_to = 0, !.failed = NoProblem, !.abort = 0]
  BY DEF Restart, st
<1> HIDE DEF m, t, k
<1>6. /\ t \in States /\ t.kept = m /\ t.window = <<>> /\ t.start = o /\ t.taken = o
      /\ t.range = s.range + 1 /\ t.len = s.len /\ t.closed = s.closed /\ t.flushing = s.flushing
  <2> DEFINE e == <<>>
             n == s.range + 1
             zero == 0
  <2>1. e \in Seq(Nat) /\ n \in Nat /\ zero \in Nat /\ zero \in 0..MaxRanges /\ TRUE \in BOOLEAN
    BY SizesAssumption DEF States
  <2>2. t = [s EXCEPT !.kept = m, !.window = e, !.range = n, !.active = TRUE, !.start = o,
                      !.taken = o, !.waiting_to = zero, !.failed = NoProblem, !.abort = zero]
    BY <1>5
  <2>3. t.kept = m /\ t.window = e /\ t.range = n /\ t.active = TRUE /\ t.start = o /\ t.taken = o
        /\ t.waiting_to = zero /\ t.failed = NoProblem /\ t.abort = zero
        /\ t.len = s.len /\ t.closed = s.closed /\ t.flushing = s.flushing
    <3> HIDE DEF e, n, zero
    <3> QED BY <2>2 DEF States
  <2>4. t \in States
    <3> HIDE DEF e, n, zero
    <3> QED BY <1>4, <2>1, <2>2 DEF States
  <2> QED BY <2>3, <2>4
<1>7. BytesOK(t) /\ KeptOK(t)
  BY <1>4, <1>6 DEF BytesOK, KeptOK
<1> QED BY <1>6, <1>7 DEF t

-----------------------------------------------------------------------------
(* What steps have in common.                                                *)

\* Two states with the same range, window and ranges kept.
SameWindow(s, t) ==
    /\ t.range = s.range /\ t.closed = s.closed /\ t.window = s.window
    /\ t.start = s.start /\ t.kept = s.kept

\* All of it depends on no more than the window.
LEMMA SameWindowOK ==
    ASSUME NEW s, NEW t, SameWindow(s, t), NEW w, NEW Q
    PROVE  /\ CoreOK(s, w, Q) => CoreOK(t, w, Q)
           /\ MemoryOK(s, w) => MemoryOK(t, w)
  BY DEF SameWindow, CoreOK, MemoryOK, BytesOK, WritersOK, RequestsOK, KeptOK, WindowFits, ReadTo

\* Fewer ranges on their way.
LEMMA FewerRequests ==
    ASSUME NEW s, NEW w, NEW Q, CoreOK(s, w, Q), NEW P, P \subseteq Q
    PROVE  CoreOK(s, w, P)
  BY DEF CoreOK, RequestsOK

\* A closed reader has no current range.
LEMMA CloseIs ==
    ASSUME NEW s \in States, NEW w, NEW Q, Q \subseteq Asked, CoreOK(s, w, Q)
    PROVE  LET t == Close(s) IN
           /\ t \in States /\ CoreOK(t, w, Q) /\ (MemoryOK(s, w) => MemoryOK(t, w))
           /\ t.len = s.len /\ t.taken = s.taken /\ t.waiting_to = s.waiting_to
<1> DEFINE t == Close(s)
           n == s.range + 1
           zero == 0
<1>1. n \in Nat /\ zero \in 0..MaxRanges /\ TRUE \in BOOLEAN /\ n > s.range /\ s.range \in Nat
  BY SizesAssumption DEF States
<1>2. t = [s EXCEPT !.closed = TRUE, !.range = n, !.abort = zero]
  BY DEF Close
<1>3. /\ t.closed = TRUE /\ t.range = n /\ t.window = s.window /\ t.start = s.start
      /\ t.kept = s.kept /\ t.len = s.len /\ t.taken = s.taken /\ t.waiting_to = s.waiting_to
  <2> HIDE DEF n, zero, t
  <2> QED BY <1>2 DEF States
<1>4. t \in States
  <2> HIDE DEF n, zero, t
  <2> QED BY <1>1, <1>2 DEF States
<1> HIDE DEF t
<1>5. BytesOK(t) /\ (MemoryOK(s, w) => MemoryOK(t, w))
  BY <1>3 DEF CoreOK, BytesOK, MemoryOK, KeptOK, WindowFits
<1>6. WritersOK(t, w)
  BY <1>1, <1>3, SizesAssumption DEF CoreOK, WritersOK, Ranges
<1>7. RequestsOK(t, w, Q)
  BY <1>1, <1>3, SizesAssumption DEF CoreOK, RequestsOK, Asked, Ranges
<1> QED BY <1>3, <1>4, <1>5, <1>6, <1>7 DEF t, CoreOK

\* A worker's own steps: it stays one of the same range, and reads on from where it was.
LEMMA WorkerMoves ==
    ASSUME NEW s \in States, NEW w \in [Ranges -> Workers], NEW Q, Q \subseteq Asked,
           CoreOK(s, w, Q), NEW r \in Ranges, NEW v \in Workers,
           w[r].pc \notin {"none", "panicked"}, v.pc \notin {"none", "panicked"},
           v.offset = w[r].offset, v.next = w[r].next,
           v.pc \in {"connect", "head"} => w[r].pc \in {"connect", "head"},
           v.pc \in {"read", "keep"} => w[r].pc \in {"head", "read", "keep"}
    PROVE  LET W == [w EXCEPT ![r] = v] IN
           /\ W \in [Ranges -> Workers] /\ CoreOK(s, W, Q)
           /\ MemoryOK(s, w) => MemoryOK(s, W)
           /\ \A x \in Ranges : W[x].offset = w[x].offset
<1> DEFINE W == [w EXCEPT ![r] = v]
<1>1. W \in [Ranges -> Workers] /\ W[r] = v /\ \A x \in Ranges \ {r} : W[x] = w[x]
  OBVIOUS
<1> HIDE DEF W
<1>2. \A q \in Q : q.range \in Ranges /\ q.range # r
  BY DEF CoreOK, RequestsOK, Asked
<1>3. RequestsOK(s, W, Q)
  BY <1>1, <1>2 DEF CoreOK, RequestsOK
<1>4. WritersOK(s, W)
  <2> SUFFICES ASSUME NEW x \in Ranges
               PROVE  /\ x > s.range => W[x].pc = "none"
                      /\ s.range = x /\ ~s.closed =>
                           /\ W[x].pc \in {"connect", "head"} =>
                                s.window = <<>> /\ s.start = W[x].offset /\ W[x].next = W[x].offset
                           /\ W[x].pc \in {"read", "keep"} => W[x].next = ReadTo(s)
    BY DEF WritersOK
  <2>1. CASE x # r
    BY <1>1, <2>1 DEF CoreOK, WritersOK
  <2>2. CASE x = r
    <3>1. ~(r > s.range)
      BY DEF CoreOK, WritersOK
    <3>2. ASSUME s.range = r, ~s.closed, v.pc \in {"read", "keep"} PROVE v.next = ReadTo(s)
      <4>1. CASE w[r].pc \in {"read", "keep"}
        BY <3>2, <4>1 DEF CoreOK, WritersOK
      <4>2. CASE w[r].pc = "head"
        <5>1. s.window = <<>> /\ s.start = w[r].offset /\ w[r].next = w[r].offset
          BY <3>2, <4>2 DEF CoreOK, WritersOK
        <5>2. s.start \in Nat
          BY DEF States
        <5> QED BY <5>1, <5>2 DEF ReadTo
      <4> QED BY <3>2, <4>1, <4>2
    <3>3. ASSUME s.range = r, ~s.closed, v.pc \in {"connect", "head"}
          PROVE  s.window = <<>> /\ s.start = v.offset /\ v.next = v.offset
      BY <3>3 DEF CoreOK, WritersOK
    <3> QED BY <1>1, <2>2, <3>1, <3>2, <3>3
  <2> QED BY <2>1, <2>2
<1>5. NoPanic(W) => NoPanic(w)
  BY <1>1 DEF NoPanic
<1>6. \A x \in Ranges : W[x].offset = w[x].offset
  BY <1>1
<1> QED BY <1>1, <1>3, <1>4, <1>5, <1>6 DEF W, CoreOK, MemoryOK

\* A range on its way gets its worker.
LEMMA WorkerStarts ==
    ASSUME NEW s \in States, NEW w \in [Ranges -> Workers], NEW Q, Q \subseteq Asked,
           CoreOK(s, w, Q), NEW q \in Q, NEW v \in Workers,
           v.pc = "connect", v.offset = q.offset, v.next = q.offset
    PROVE  LET W == [w EXCEPT ![q.range] = v] IN
           /\ W \in [Ranges -> Workers] /\ CoreOK(s, W, Q \ {q})
           /\ MemoryOK(s, w) => MemoryOK(s, W)
           /\ \A x \in Ranges : W[x].offset \in {w[x].offset, q.offset}
<1> DEFINE r == q.range
           W == [w EXCEPT ![r] = v]
<1>1. r \in Ranges /\ w[r].pc = "none" /\ r <= s.range /\ s.range \in Nat /\ r \in Nat
  BY DEF CoreOK, RequestsOK, Asked, States, Ranges
<1>2. W \in [Ranges -> Workers] /\ W[r] = v /\ \A x \in Ranges \ {r} : W[x] = w[x]
  BY <1>1
<1>3. s.range = r /\ ~s.closed => s.window = <<>> /\ s.start = q.offset
  BY DEF CoreOK, RequestsOK
<1>4. \A p \in Q \ {q} : p.range \in Ranges /\ p.range # r
  BY DEF CoreOK, RequestsOK, Asked
<1> HIDE DEF W, r
<1>5. RequestsOK(s, W, Q \ {q})
  BY <1>2, <1>4 DEF CoreOK, RequestsOK
<1>6. WritersOK(s, W)
  BY <1>1, <1>2, <1>3, SizesAssumption DEF CoreOK, WritersOK, Ranges
<1>7. NoPanic(W) => NoPanic(w)
  BY <1>1, <1>2 DEF NoPanic
<1>8. \A x \in Ranges : W[x].offset \in {w[x].offset, q.offset}
  BY <1>2
<1> QED BY <1>2, <1>5, <1>6, <1>7, <1>8 DEF W, r, CoreOK, MemoryOK

-----------------------------------------------------------------------------
(* The start.                                                                *)

\* At the start one range is asked for and nothing is read.
LEMMA Init_Inv == Init => ReaderInv
<1> SUFFICES ASSUME Init PROVE ReaderInv
  OBVIOUS
<1>1. TypeOK
  <2>1. state \in States
    BY SizesAssumption DEF Init, States
  <2>2. fetcher \in Fetchers /\ player \in Players
    BY SizesAssumption DEF Init, Fetchers, Players
  <2>3. worker \in [Ranges -> Workers]
    BY DEF Init, Workers, Idle
  <2>4. inflight \subseteq Asked
    BY SizesAssumption DEF Init, Asked, Ranges
  <2> QED BY <2>1, <2>2, <2>3, <2>4, SizesAssumption, ReaderTypes DEF Init
<1>2. OnTheirWay = {[range |-> 1, offset |-> 0]} /\ OnePlace
  BY DEF Init, OnTheirWay, OnePlace
<1>3. CoreOK(state, worker, OnTheirWay)
  BY <1>2, SizesAssumption DEF Init, CoreOK, BytesOK, WritersOK, RequestsOK, Idle, Ranges
<1>4. LengthOK /\ ServedBytesAreTheFile
  BY <1>2 DEF Init, LengthOK, ServedBytesAreTheFile, Idle, Fetching
<1>5. fetcher.length <= LongestRead /\ WaitOK(state)
  BY LongestIs, SizesAssumption DEF Init, WaitOK
<1>6. MemoryOK(state, worker)
  <2>1. KeptOK(state)
    BY TotalOfNothing, SizesAssumption DEF Init, KeptOK
  <2>2. WindowFits(state)
    <3>1. Max2(Ahead, LongestRead + BackOff) \in Nat
      BY LongestIs, SizesAssumption DEF Max2
    <3> QED BY <3>1, SizesAssumption DEF Init, WindowFits
  <2> QED BY <2>1, <2>2 DEF MemoryOK
<1> QED BY <1>1, <1>2, <1>3, <1>4, <1>5, <1>6 DEF ReaderInv

-----------------------------------------------------------------------------
(* The streaming thread.                                                     *)

\* What a step of the streaming thread that restarts nothing has to keep.
LEMMA ReadStep ==
    ASSUME ReaderInv, state' \in States, SameWindow(state, state'), state'.len = state.len,
           WaitOK(state'), fetcher' \in Fetchers, fetcher'.length <= LongestRead,
           fetcher'.pc = "fetching" \/ fetcher'.gave # "nothing" => player.started,
           ServedBytesAreTheFile', UNCHANGED <<worker, mainVars, faults>>, fetches' \in 0..MaxFetches
    PROVE  ReaderInv'
<1>1. TypeOK'
  BY ReaderTypes, ReaderTypesNext DEF ReaderInv, mainVars
<1>2. OnTheirWay' = OnTheirWay /\ OnePlace'
  BY DEF ReaderInv, mainVars, OnTheirWay, OnePlace
<1>3. CoreOK(state', worker', OnTheirWay') /\ MemoryOK(state', worker')
  BY <1>2, SameWindowOK DEF ReaderInv
<1>4. LengthOK'
  BY <1>2 DEF ReaderInv, LengthOK, mainVars, Fetching
<1> QED BY <1>1, <1>2, <1>3, <1>4 DEF ReaderInv

\* A read begins.
LEMMA FetchStep ==
    ASSUME ReaderInv, NEW read \in Reads, NEW main \in BOOLEAN, Fetch(read[1], read[2], main)
    PROVE  ReaderInv'
<1>1. read[1] \in Nat /\ read[2] \in Nat \ {0} /\ read[2] <= LongestRead
  BY ReadsAssumption, LongestIs
<1> DEFINE o == read[1]
           l == read[2]
           none == <<>>
<1>2. fetcher \in Fetchers /\ none \in Seq(Nat) /\ state \in States /\ fetches \in 0..MaxFetches
  BY ReaderTypes DEF ReaderInv
<1>3. fetcher' = [fetcher EXCEPT !.pc = "fetching", !.main = main, !.offset = o, !.length = l,
                                 !.gave = "nothing", !.bytes = none]
  BY DEF Fetch
<1> HIDE DEF o, l, none
<1>4. fetcher' \in Fetchers /\ fetcher'.length = l /\ fetcher'.gave = "nothing"
  BY <1>1, <1>2, <1>3 DEF Fetchers, o, l
<1>5. player.started /\ UNCHANGED <<state, worker, mainVars, faults>> /\ fetches' \in 0..MaxFetches
  BY <1>2, SizesAssumption DEF Fetch
<1>6. SameWindow(state, state') /\ WaitOK(state') /\ state'.len = state.len
  BY <1>5 DEF SameWindow, ReaderInv
<1>7. ServedBytesAreTheFile'
  BY <1>4 DEF ServedBytesAreTheFile
<1> QED BY <1>1, <1>2, <1>4, <1>5, <1>6, <1>7, ReadStep DEF l

\* What a read is given, and that it is over.
LEMMA GiveIs ==
    ASSUME ReaderInv, NEW what \in {"Flushing", "End", "Bytes", "Failed"}, NEW bytes \in Seq(Nat),
           Give(what, bytes), Fetching
    PROVE  /\ fetcher' \in Fetchers /\ fetcher'.gave = what /\ fetcher'.bytes = bytes
           /\ fetcher'.offset = fetcher.offset /\ fetcher'.length = fetcher.length
           /\ fetcher'.length <= LongestRead /\ player.started
<1>1. fetcher \in Fetchers
  BY ReaderTypes DEF ReaderInv
<1>2. fetcher' = [fetcher EXCEPT !.pc = "idle", !.gave = what, !.bytes = bytes]
  BY DEF Give
<1>3. fetcher' \in Fetchers /\ fetcher'.gave = what /\ fetcher'.bytes = bytes
      /\ fetcher'.offset = fetcher.offset /\ fetcher'.length = fetcher.length
  BY <1>1, <1>2 DEF Fetchers
<1> QED BY <1>3 DEF ReaderInv, LengthOK

\* A read that is given no bytes: the end is told only past it.
LEMMA NothingGiven ==
    ASSUME ReaderInv, Fetching, NEW what \in {"Flushing", "End", "Failed"}, Give(what, <<>>),
           what = "End" => fetcher.offset >= state.len,
           UNCHANGED <<state, asks, fetchElse>>
    PROVE  ReaderInv'
<1>1. <<>> \in Seq(Nat)
  OBVIOUS
<1>2. /\ fetcher' \in Fetchers /\ fetcher'.gave = what /\ fetcher'.offset = fetcher.offset
      /\ fetcher'.length <= LongestRead /\ player.started
  BY <1>1, GiveIs
<1>3. state.len = FileLen
  BY <1>2 DEF ReaderInv, LengthOK
<1>4. ServedBytesAreTheFile'
  BY <1>2, <1>3 DEF ServedBytesAreTheFile
<1>5. UNCHANGED <<worker, mainVars, faults>> /\ fetches' \in 0..MaxFetches /\ state \in States
  BY ReaderTypes DEF ReaderInv, fetchElse, mainVars
<1>6. SameWindow(state, state') /\ WaitOK(state') /\ state'.len = state.len /\ state' \in States
  BY <1>5 DEF SameWindow, ReaderInv
<1> QED BY <1>2, <1>4, <1>5, <1>6, ReadStep

\* A set of numbers up to n has a greatest one.
LEMMA LastOf ==
    ASSUME NEW n \in Nat, NEW S, S \subseteq 1..n, S # {}
    PROVE  \E m \in S : \A k \in S : k <= m
<1> DEFINE T == {n - i : i \in S}
<1>1. T \subseteq Nat /\ T # {}
  <2>1. \A i \in S : n - i \in Nat
    OBVIOUS
  <2>2. PICK i \in S : TRUE
    OBVIOUS
  <2>3. n - i \in T
    OBVIOUS
  <2> QED BY <2>1, <2>3
<1> DEFINE less == OpToRel(<, Nat)
<1>2. IsWellFoundedOn(less, Nat)
  BY NatLessThanWellFounded
<1>3. \A x, y \in Nat : <<x, y>> \in less <=> x < y
  BY Zenon DEF OpToRel
<1> HIDE DEF less, T
<1>4. PICK t \in T : \A k \in T : ~(<<k, t>> \in less)
  BY <1>1, <1>2, WFMin
<1>5. \A k \in T : t <= k
  <2> SUFFICES ASSUME NEW k \in T PROVE t <= k
    OBVIOUS
  <2>1. k \in Nat /\ t \in Nat
    BY <1>1, <1>4
  <2>2. ~(k < t)
    BY <1>3, <1>4, <2>1
  <2> QED BY <2>1, <2>2
<1>6. PICK m \in S : t = n - m
  BY <1>4 DEF T
<1>7. \A k \in S : k <= m
  BY <1>5, <1>6 DEF T
<1> QED BY <1>6, <1>7

\* A stretch that holds a read holds the file's bytes for it.
LEMMA SliceIs ==
    ASSUME NEW st \in Stretch, FromFile(st), NEW o \in Nat, NEW e \in Nat, o < e, Holds(st, o, e)
    PROVE  /\ Slice(st, o, e) \in Seq(Nat) /\ Len(Slice(st, o, e)) = e - o
           /\ \A i \in 1..(e - o) : Slice(st, o, e)[i] = o + i - 1
<1> DEFINE a == st.start
           b == st.bytes
           m == o - a + 1
           n == e - a
<1>1. a \in Nat /\ b \in Seq(Nat) /\ Len(b) \in Nat
  BY DEF Stretch
<1>2. a <= o /\ e <= a + Len(b)
  BY DEF Holds
<1>3. \A i \in 1..Len(b) : b[i] = a + i - 1
  BY DEF FromFile
<1>4. Slice(st, o, e) = SubSeq(b, m, n)
  BY DEF Slice
<1> HIDE DEF a, b
<1>5. m \in 1..Len(b) /\ n \in 1..Len(b) /\ n - m + 1 = e - o
  BY <1>1, <1>2
<1>6. SubSeq(b, m, n) \in Seq(Nat)
  BY <1>1, <1>5
<1>7. Len(SubSeq(b, m, n)) = e - o
  BY <1>1, <1>5
<1>8. \A i \in 1..(e - o) : SubSeq(b, m, n)[i] = b[m + i - 1]
  BY <1>1, <1>5
<1>9. \A i \in 1..(e - o) : m + i - 1 \in 1..Len(b) /\ a + (m + i - 1) - 1 = o + i - 1
  BY <1>1, <1>2
<1> HIDE DEF m, n
<1> QED BY <1>3, <1>4, <1>6, <1>7, <1>8, <1>9

\* A read that can be served is given the file's bytes.
LEMMA BytesIs ==
    ASSUME NEW s \in States, BytesOK(s), NEW o \in Nat, NEW e \in Nat, o < e, CanServe(s, o, e)
    PROVE  /\ Bytes(s, o, e) \in Seq(Nat) /\ Len(Bytes(s, o, e)) = e - o
           /\ \A i \in 1..(e - o) : Bytes(s, o, e)[i] = o + i - 1
<1> DEFINE st == [start |-> s.start, bytes |-> s.window]
           k == s.kept
           all == Stretches(s)
<1>1. s.kept \in Seq(Stretch) /\ s.window \in Seq(Nat) /\ s.start \in Nat
  BY DEF States
<1>2. st \in Stretch /\ FromFile(st)
  BY <1>1 DEF Stretch, FromFile, BytesOK
<1> HIDE DEF st
<1>3. all \in Seq(Stretch) /\ Len(all) = Len(k) + 1 /\ Len(k) \in Nat
      /\ \A i \in 1..Len(all) : all[i] = IF i <= Len(k) THEN k[i] ELSE st
  <2>1. all = Append(k, st)
    BY DEF Stretches, st
  <2> HIDE DEF all, k
  <2>2. k \in Seq(Stretch)
    BY <1>1 DEF k
  <2>3. all \in Seq(Stretch) /\ Len(all) = Len(k) + 1 /\ Len(k) \in Nat
    BY <1>2, <2>1, <2>2
  <2>4. \A i \in 1..Len(k) : all[i] = k[i]
    BY <1>2, <2>1, <2>2
  <2>5. all[Len(k) + 1] = st
    BY <1>2, <2>1, <2>2
  <2> QED BY <2>3, <2>4, <2>5
<1> HIDE DEF all
<1>4. \A i \in 1..Len(all) : all[i] \in Stretch /\ FromFile(all[i])
  <2> TAKE i \in 1..Len(all)
  <2>1. CASE i <= Len(k)
    <3>1. i \in 1..Len(k) /\ all[i] = k[i]
      BY <1>3, <2>1
    <3> QED BY <1>1, <3>1 DEF BytesOK
  <2>2. CASE ~(i <= Len(k))
    BY <1>2, <1>3, <2>2
  <2> QED BY <2>1, <2>2
<1> DEFINE H == {i \in 1..Len(all) : Holds(all[i], o, e)}
<1>5. H # {}
  BY DEF CanServe, all
<1>6. PICK h \in H : \A j \in H : j <= h
  <2>1. H \subseteq 1..Len(all) /\ Len(all) \in Nat
    BY <1>3
  <2> HIDE DEF H
  <2> QED BY <1>5, <2>1, LastOf
<1> DEFINE n == CHOOSE i \in 1..Len(all) :
                  /\ Holds(all[i], o, e)
                  /\ \A j \in 1..Len(all) : Holds(all[j], o, e) => j <= i
<1>7. n \in 1..Len(all) /\ Holds(all[n], o, e)
  <2>1. \E i \in 1..Len(all) : /\ Holds(all[i], o, e)
                               /\ \A j \in 1..Len(all) : Holds(all[j], o, e) => j <= i
    BY <1>6
  <2> QED BY <2>1
<1>8. Bytes(s, o, e) = Slice(all[n], o, e)
  BY DEF Bytes, all
<1> DEFINE it == all[n]
<1>9. it \in Stretch /\ FromFile(it) /\ Holds(it, o, e) /\ Bytes(s, o, e) = Slice(it, o, e)
  <2> HIDE DEF n
  <2> QED BY <1>4, <1>7, <1>8
<1> HIDE DEF it
<1>10. /\ Slice(it, o, e) \in Seq(Nat) /\ Len(Slice(it, o, e)) = e - o
       /\ \A i \in 1..(e - o) : Slice(it, o, e)[i] = o + i - 1
  BY <1>9, SliceIs
<1> DEFINE sl == Slice(it, o, e)
<1> HIDE DEF sl
<1> QED BY <1>9, <1>10 DEF sl

\* A read is served.
LEMMA ServedStep == ASSUME ReaderInv, FetchServed PROVE ReaderInv'
<1> DEFINE o == fetcher.offset
           e == ReadEnd
           b == Bytes(state, o, e)
<1>1. state \in States /\ fetcher \in Fetchers /\ FileLen \in Nat
  BY ReaderTypes, SizesAssumption DEF ReaderInv
<1>2. o \in Nat /\ fetcher.length \in Nat \ {0} /\ state.len \in Nat /\ o < state.len
  BY <1>1 DEF FetchServed, Fetchers, States
<1>3. state.len = FileLen
  BY <1>2 DEF ReaderInv, LengthOK
<1>4. e \in Nat /\ o < e /\ e - o = Min2(fetcher.length, FileLen - o)
  BY <1>1, <1>2, <1>3 DEF ReadEnd, Min2
<1>5. CanServe(state, o, e) /\ BytesOK(state)
  BY DEF FetchServed, ReaderInv, CoreOK
<1> HIDE DEF e, o
<1>6. b \in Seq(Nat) /\ Len(b) = e - o /\ \A i \in 1..(e - o) : b[i] = o + i - 1
  BY <1>1, <1>2, <1>4, <1>5, BytesIs
<1> HIDE DEF b
<1>7. Give("Bytes", b) /\ Fetching /\ state' = Taken(state, o, e) /\ UNCHANGED <<asks, fetchElse>>
  BY DEF FetchServed, Looks, b, e, o
<1>8. /\ fetcher' \in Fetchers /\ fetcher'.gave = "Bytes" /\ fetcher'.bytes = b
      /\ fetcher'.offset = o /\ fetcher'.length = fetcher.length
      /\ fetcher'.length <= LongestRead /\ player.started
  BY <1>6, <1>7, GiveIs DEF o
<1>9. ServedBytesAreTheFile'
  <2>1. FromFile([start |-> fetcher'.offset, bytes |-> fetcher'.bytes])
    BY <1>6, <1>8 DEF FromFile
  <2> QED BY <1>4, <1>6, <1>8, <2>1 DEF ServedBytesAreTheFile
<1>10. /\ state' \in States /\ SameWindow(state, state') /\ state'.len = state.len
       /\ state'.taken >= state.taken /\ state'.waiting_to = state.waiting_to
  <2> DEFINE m == Max2(state.taken, e)
  <2>1. m \in Nat /\ m >= state.taken /\ state.taken \in Nat
    BY <1>1, <1>4 DEF Max2, States
  <2>2. state' = state \/ state' = [state EXCEPT !.taken = m]
    BY <1>7 DEF Taken
  <2> HIDE DEF m
  <2>3. CASE state' = state
    BY <1>1, <2>1, <2>3 DEF SameWindow
  <2>4. CASE state' = [state EXCEPT !.taken = m]
    BY <1>1, <2>1, <2>4 DEF SameWindow, States
  <2> QED BY <2>2, <2>3, <2>4
<1>11. WaitOK(state')
  <2>1. state.taken \in Nat /\ state'.taken \in Nat /\ state.waiting_to \in Nat
    BY <1>1, <1>10 DEF States
  <2>2. state.waiting_to <= state.taken + LongestRead + BackOff
    BY DEF ReaderInv, WaitOK
  <2> QED BY <1>10, <2>1, <2>2, LongestIs, SizesAssumption DEF WaitOK
<1>12. UNCHANGED <<worker, mainVars, faults>> /\ fetches' \in 0..MaxFetches
  BY <1>7, ReaderTypes DEF ReaderInv, fetchElse, mainVars
<1> QED BY <1>8, <1>9, <1>10, <1>11, <1>12, ReadStep

\* A read waits for the range that is read.
LEMMA WaitsStep == ASSUME ReaderInv, FetchWaits PROVE ReaderInv'
<1> DEFINE o == fetcher.offset
           e == ReadEnd
           m == Max2(state.taken, o)
<1>1. state \in States /\ fetcher \in Fetchers /\ fetcher.length <= LongestRead
  BY ReaderTypes DEF ReaderInv
<1>2. o \in Nat /\ fetcher.length \in Nat \ {0} /\ state.len \in Nat /\ state.taken \in Nat
  BY <1>1 DEF Fetchers, States
<1>3. e \in Nat /\ m \in Nat /\ e <= m + LongestRead + BackOff
  BY <1>1, <1>2, LongestIs, SizesAssumption DEF ReadEnd, Min2, Max2
<1>4. /\ state' = [state EXCEPT !.taken = m, !.waiting_to = e]
      /\ UNCHANGED <<fetcher, asks, fetchElse>> /\ Fetching
  BY DEF FetchWaits, Lacks, Looks
<1> HIDE DEF o, e, m
<1>5. /\ state' \in States /\ SameWindow(state, state') /\ state'.len = state.len
      /\ state'.taken = m /\ state'.waiting_to = e
  BY <1>1, <1>3, <1>4 DEF SameWindow, States
<1>6. WaitOK(state')
  BY <1>3, <1>5 DEF WaitOK
<1>7. UNCHANGED <<worker, mainVars, faults, fetcher>> /\ fetches' \in 0..MaxFetches
  BY <1>4, ReaderTypes DEF ReaderInv, fetchElse, mainVars
<1>8. player.started /\ ServedBytesAreTheFile'
  BY <1>4, <1>7 DEF ReaderInv, LengthOK, ServedBytesAreTheFile
<1> QED BY <1>1, <1>5, <1>6, <1>7, <1>8, ReadStep

\* A new range has no worker, and nothing of it was read.
LEMMA RestartsStep == ASSUME ReaderInv, FetchRestarts PROVE ReaderInv'
<1> DEFINE o == fetcher.offset
           e == ReadEnd
           from == Minus(o, BackOff)
           n == state.range + 1
           q == [range |-> n, offset |-> from]
           s == Restart(state, from)
<1>1. /\ state \in States /\ fetcher \in Fetchers /\ fetcher.length <= LongestRead
      /\ worker \in [Ranges -> Workers] /\ asks \subseteq Asked /\ OnTheirWay \subseteq Asked
  BY ReaderTypes DEF ReaderInv, OnTheirWay
<1>2. /\ o \in Nat /\ fetcher.length \in Nat \ {0} /\ state.len \in Nat /\ state.range \in Nat
      /\ state.range < MaxRanges
  BY <1>1 DEF Fetchers, States, FetchRestarts
<1>3. from \in Nat /\ e \in Nat /\ e <= from + LongestRead + BackOff /\ n \in Ranges
  <2>1. n \in Ranges
    BY <1>2, SizesAssumption DEF Ranges
  <2> HIDE DEF n, o
  <2>2. from \in Nat /\ o <= from + BackOff
    BY <1>2, SizesAssumption DEF Minus
  <2>3. e = Min2(o + fetcher.length, state.len)
    BY DEF ReadEnd, o
  <2>4. e \in Nat /\ e <= o + fetcher.length
    <3> HIDE DEF e
    <3> QED BY <1>2, <2>3 DEF Min2
  <2> HIDE DEF from, e
  <2> QED BY <1>1, <1>2, <2>1, <2>2, <2>4, LongestIs, SizesAssumption
<1>4. /\ state' = [s EXCEPT !.waiting_to = e] /\ asks' = asks \cup {q}
      /\ UNCHANGED <<fetcher, fetchElse>> /\ Fetching
  BY DEF FetchRestarts, Lacks, Looks
<1>5. /\ CoreOK(state, worker, OnTheirWay) /\ MemoryOK(state, worker) /\ BytesOK(state) /\ KeptOK(state)
      /\ player.started
  BY <1>4 DEF ReaderInv, CoreOK, MemoryOK, LengthOK
<1> HIDE DEF o, e, from
<1>6. /\ s \in States /\ BytesOK(s) /\ KeptOK(s) /\ s.window = <<>> /\ s.start = from
      /\ s.taken = from /\ s.range = n /\ s.len = state.len
  BY <1>1, <1>3, <1>5, RestartIs
<1> HIDE DEF s
<1>7. /\ state' \in States /\ SameWindow(s, state') /\ state'.waiting_to = e
      /\ state'.taken = from /\ state'.len = state.len
  BY <1>3, <1>4, <1>6 DEF States, SameWindow
<1>8. q \in Asked /\ \A p \in OnTheirWay : p.range # n
  BY <1>1, <1>2, <1>3, <1>5 DEF Asked, CoreOK, RequestsOK, Ranges
<1>9. worker[n].pc = "none" /\ \A r \in Ranges : r > n => r > state.range
  BY <1>2, <1>3, <1>5, SizesAssumption, SMTT(40) DEF CoreOK, WritersOK, Ranges
<1>10. q.range = n /\ q.offset = from
  OBVIOUS
<1> HIDE DEF q
<1>11. WritersOK(s, worker)
  BY <1>5, <1>6, <1>9 DEF CoreOK, WritersOK
<1>12. RequestsOK(s, worker, OnTheirWay \cup {q})
  <2>1. \A p \in OnTheirWay : p.range <= n /\ p.range # n /\ worker[p.range].pc = "none"
    BY <1>1, <1>2, <1>5, <1>8, SizesAssumption DEF CoreOK, RequestsOK, Asked, Ranges
  <2>2. n <= n
    BY <1>2
  <2> QED BY <1>5, <1>6, <1>9, <1>10, <2>1, <2>2 DEF CoreOK, RequestsOK
<1>13. OnTheirWay' = OnTheirWay \cup {q} /\ OnePlace'
  BY <1>4, <1>8, <1>10 DEF OnTheirWay, OnePlace, fetchElse, ReaderInv
<1>14. MemoryOK(s, worker)
  <2>1. Max2(Ahead, LongestRead + BackOff) \in Nat
    BY LongestIs, SizesAssumption DEF Max2
  <2>2. WindowFits(s)
    BY <1>6, <2>1, SizesAssumption DEF WindowFits
  <2> QED BY <1>6, <2>2 DEF MemoryOK
<1>15. CoreOK(state', worker', OnTheirWay') /\ MemoryOK(state', worker')
  <2>1. worker' = worker
    BY <1>4 DEF fetchElse
  <2>2. CoreOK(s, worker, OnTheirWay \cup {q})
    BY <1>6, <1>11, <1>12 DEF CoreOK
  <2> QED BY <1>7, <1>13, <1>14, <2>1, <2>2, SameWindowOK
<1>16. LengthOK' /\ ServedBytesAreTheFile'
  BY <1>4, <1>5, <1>7, <1>13 DEF LengthOK, ServedBytesAreTheFile, fetchElse, ReaderInv, Fetching
<1>17. TypeOK'
  BY <1>4, <1>7, <1>8, ReaderTypes, ReaderTypesNext DEF ReaderInv, fetchElse
<1>18. fetcher'.length <= LongestRead /\ WaitOK(state')
  BY <1>1, <1>3, <1>4, <1>7 DEF WaitOK
<1> QED BY <1>13, <1>15, <1>16, <1>17, <1>18 DEF ReaderInv

\* A turn of the loop.
LEMMA FetchTurnStep == ASSUME ReaderInv, FetchTurn PROVE ReaderInv'
<1>1. CASE FetchFlushed
  BY <1>1, NothingGiven DEF FetchFlushed
<1>2. CASE FetchEnds
  BY <1>2, NothingGiven DEF FetchEnds, Looks
<1>3. CASE FetchFails
  BY <1>3, NothingGiven DEF FetchFails, Lacks, Looks
<1> QED BY <1>1, <1>2, <1>3, ServedStep, WaitsStep, RestartsStep DEF FetchTurn

\* A flush changes no byte.
LEMMA FlushStep == ASSUME ReaderInv, NEW f \in BOOLEAN, Flush(f) PROVE ReaderInv'
<1>1. state \in States /\ fetcher \in Fetchers
  BY ReaderTypes DEF ReaderInv
<1>2. /\ state' = [state EXCEPT !.flushing = f]
      /\ UNCHANGED <<fetcher, worker, mainVars, fetches, faults>>
  BY DEF Flush
<1>3. /\ state' \in States /\ SameWindow(state, state') /\ state'.len = state.len
      /\ state'.taken = state.taken /\ state'.waiting_to = state.waiting_to
  BY <1>1, <1>2 DEF States, SameWindow
<1>4. WaitOK(state') /\ fetches' \in 0..MaxFetches
  BY <1>2, <1>3, ReaderTypes DEF ReaderInv, WaitOK
<1>5. fetcher'.pc = "fetching" \/ fetcher'.gave # "nothing" => player.started
  BY <1>2 DEF ReaderInv, LengthOK, Fetching
<1>6. ServedBytesAreTheFile' /\ fetcher'.length <= LongestRead
  BY <1>2 DEF ReaderInv, ServedBytesAreTheFile
<1> QED BY <1>1, <1>2, <1>3, <1>4, <1>5, <1>6, ReadStep

-----------------------------------------------------------------------------
(* The workers.                                                              *)

\* What a worker's step that adds nothing to the window has to keep.
LEMMA WorkerStepOK ==
    ASSUME ReaderInv, NEW r \in Ranges, NEW v \in Workers, worker' = [worker EXCEPT ![r] = v],
           worker[r].pc \notin {"none", "panicked"}, v.pc \notin {"none", "panicked"},
           v.offset = worker[r].offset, v.next = worker[r].next,
           v.pc \in {"connect", "head"} => worker[r].pc \in {"connect", "head"},
           v.pc \in {"read", "keep"} => worker[r].pc \in {"head", "read", "keep"},
           state' \in States, SameWindow(state, state'), state'.len \in {state.len, FileLen},
           state'.taken = state.taken, state'.waiting_to = state.waiting_to,
           player' \in Players, player'.started = player.started,
           player'.start => player.start \/ state'.len = FileLen, faults' \in 0..MaxFaults,
           UNCHANGED <<fetcher, asks, inflight, queued, retrying, conn, fetches>>
    PROVE  ReaderInv'
<1>1. /\ state \in States /\ worker \in [Ranges -> Workers] /\ OnTheirWay \subseteq Asked
      /\ CoreOK(state, worker, OnTheirWay) /\ MemoryOK(state, worker)
  BY ReaderTypes DEF ReaderInv, OnTheirWay
<1>2. OnTheirWay' = OnTheirWay /\ OnePlace'
  BY DEF ReaderInv, OnTheirWay, OnePlace
<1>3. /\ worker' \in [Ranges -> Workers] /\ CoreOK(state, worker', OnTheirWay)
      /\ MemoryOK(state, worker') /\ \A x \in Ranges : worker'[x].offset = worker[x].offset
  BY <1>1, WorkerMoves
<1>4. CoreOK(state', worker', OnTheirWay') /\ MemoryOK(state', worker')
  BY <1>2, <1>3, SameWindowOK
<1>5. TypeOK'
  BY <1>3, ReaderTypes, ReaderTypesNext DEF ReaderInv
<1>6. LengthOK'
  BY <1>2, <1>3 DEF ReaderInv, LengthOK, Fetching
<1>7. ServedBytesAreTheFile' /\ fetcher'.length <= LongestRead /\ WaitOK(state')
  BY DEF ReaderInv, ServedBytesAreTheFile, WaitOK
<1> QED BY <1>2, <1>4, <1>5, <1>6, <1>7 DEF ReaderInv

\* The types of what a worker's step starts from.
LEMMA WorkerTypes ==
    ASSUME ReaderInv, NEW r \in Ranges
    PROVE  /\ state \in States /\ worker \in [Ranges -> Workers] /\ worker[r] \in Workers
           /\ player \in Players /\ faults \in 0..MaxFaults
           /\ SameWindow(state, state)
  BY ReaderTypes DEF ReaderInv, SameWindow

\* Faults are counted up to their bound.
LEMMA FaultCounts == ASSUME ReaderInv, Fault \/ faults' = faults PROVE faults' \in 0..MaxFaults
  BY ReaderTypes, SizesAssumption DEF ReaderInv, Fault

\* A worker that goes on keeps where it was.
LEMMA GoIs ==
    ASSUME ReaderInv, NEW r \in Ranges, NEW pc \in {"head", "keep", "done"}, Go(r, pc)
    PROVE  \E v \in Workers : /\ worker' = [worker EXCEPT ![r] = v] /\ v.pc = pc
                              /\ v.offset = worker[r].offset /\ v.next = worker[r].next
<1> DEFINE v == [worker[r] EXCEPT !.pc = pc]
<1>1. worker[r] \in Workers /\ worker \in [Ranges -> Workers]
  BY WorkerTypes
<1>2. v \in Workers /\ v.pc = pc /\ v.offset = worker[r].offset /\ v.next = worker[r].next
  BY <1>1 DEF Workers
<1>3. worker' = [worker EXCEPT ![r] = v]
  BY <1>1 DEF Go
<1> QED BY <1>2, <1>3

\* A worker that ends keeps where it was.
LEMMA EndsIs ==
    ASSUME ReaderInv, NEW r \in Ranges, NEW p \in Problems \cup {NoProblem}, Ends(r, p)
    PROVE  \E v \in Workers : /\ worker' = [worker EXCEPT ![r] = v] /\ v.pc = "ends"
                              /\ v.offset = worker[r].offset /\ v.next = worker[r].next
<1> DEFINE v == [worker[r] EXCEPT !.pc = "ends", !.problem = p]
<1>1. worker[r] \in Workers /\ worker \in [Ranges -> Workers]
  BY WorkerTypes
<1>2. v \in Workers /\ v.pc = "ends" /\ v.offset = worker[r].offset /\ v.next = worker[r].next
  BY <1>1 DEF Workers
<1>3. worker' = [worker EXCEPT ![r] = v]
  BY <1>1 DEF Ends
<1> QED BY <1>2, <1>3

\* A worker that ends and changes nothing else.
LEMMA EndsStep ==
    ASSUME ReaderInv, NEW r \in Ranges, NEW p \in Problems \cup {NoProblem}, Ends(r, p),
           worker[r].pc \notin {"none", "panicked"}, Fault \/ faults' = faults,
           UNCHANGED <<state, workerElse>>
    PROVE  ReaderInv'
<1>1. PICK v \in Workers : /\ worker' = [worker EXCEPT ![r] = v] /\ v.pc = "ends"
                           /\ v.offset = worker[r].offset /\ v.next = worker[r].next
  BY EndsIs
<1>2. faults' \in 0..MaxFaults /\ state \in States /\ player \in Players /\ SameWindow(state, state)
  BY FaultCounts, WorkerTypes
<1>3. UNCHANGED <<state, player, fetcher, asks, inflight, queued, retrying, conn, fetches>>
  BY DEF workerElse, mainVars
<1>4. /\ state' \in States /\ SameWindow(state, state') /\ state'.len = state.len
      /\ state'.taken = state.taken /\ state'.waiting_to = state.waiting_to
      /\ player' \in Players /\ player'.started = player.started /\ player'.start = player.start
  BY <1>2, <1>3
<1> QED BY <1>1, <1>2, <1>3, <1>4, WorkerStepOK

\* The transfer opens, and the worker of the current range leaves its token.
LEMMA ConnectStep == ASSUME ReaderInv, NEW r \in Ranges, Connect(r) PROVE ReaderInv'
<1>1. worker[r].pc = "connect" /\ UNCHANGED <<workerElse, faults>>
  BY DEF Connect, At
<1>2. CASE state' = [state EXCEPT !.abort = r] /\ Go(r, "head")
  <2>1. PICK v \in Workers : /\ worker' = [worker EXCEPT ![r] = v] /\ v.pc = "head"
                             /\ v.offset = worker[r].offset /\ v.next = worker[r].next
    BY <1>2, GoIs
  <2>2. faults' \in 0..MaxFaults /\ state \in States /\ player \in Players /\ r \in 0..MaxRanges
    BY <1>1, FaultCounts, WorkerTypes DEF Ranges
  <2>3. UNCHANGED <<player, fetcher, asks, inflight, queued, retrying, conn, fetches>>
    BY <1>1 DEF workerElse, mainVars
  <2>4. /\ state' \in States /\ SameWindow(state, state') /\ state'.len = state.len
        /\ state'.taken = state.taken /\ state'.waiting_to = state.waiting_to
    BY <1>2, <2>2 DEF States, SameWindow
  <2> QED BY <1>1, <2>1, <2>2, <2>3, <2>4, WorkerStepOK
<1>3. CASE Ends(r, NoProblem) /\ UNCHANGED state
  BY <1>1, <1>3, EndsStep
<1> QED BY <1>2, <1>3 DEF Connect

\* The header tells the file's length, or the range ends.
LEMMA HeaderStep ==
    ASSUME ReaderInv, NEW r \in Ranges, NEW says \in {FileLen - worker[r].offset, FileLen},
           Header(r, says)
    PROVE  ReaderInv'
<1> DEFINE o == worker[r].offset
           end == o + says
<1>1. /\ worker[r].pc = "head" /\ (Fault \/ faults' = faults)
      /\ UNCHANGED <<fetcher, asks, inflight, queued, retrying, conn, fetches>>
  BY DEF Header, At
<1>2. /\ faults' \in 0..MaxFaults /\ state \in States /\ player \in Players /\ worker[r] \in Workers
      /\ worker \in [Ranges -> Workers]
  BY <1>1, FaultCounts, WorkerTypes
<1>3. o \in Nat /\ FileLen \in Nat \ {0} /\ end \in Nat
  BY <1>2, SizesAssumption DEF Workers
<1>4. state.len \in {0, FileLen} /\ (o # 0 => state.len = FileLen) /\ state.len \in Nat
  BY <1>3 DEF ReaderInv, LengthOK
<1>5. state.len = 0 => end = FileLen
  BY <1>3, <1>4
<1>6. CASE /\ state.len \in {0, end} /\ state' = [state EXCEPT !.len = end]
           /\ worker' = [worker EXCEPT ![r].pc = "read", ![r].end = end]
           /\ player' = [player EXCEPT !.start = @ \/ worker[r].first]
  <2> DEFINE v == [worker[r] EXCEPT !.pc = "read", !.end = end]
  <2>1. end = FileLen
    BY <1>3, <1>4, <1>5, <1>6
  <2> HIDE DEF end, o
  <2>2. v \in Workers /\ v.pc = "read" /\ v.offset = worker[r].offset /\ v.next = worker[r].next
    BY <1>2, <1>3 DEF Workers
  <2>3. worker' = [worker EXCEPT ![r] = v]
    BY <1>2, <1>6
  <2>4. /\ state' \in States /\ SameWindow(state, state') /\ state'.len = FileLen
        /\ state'.taken = state.taken /\ state'.waiting_to = state.waiting_to
    BY <1>2, <1>3, <1>6, <2>1 DEF States, SameWindow
  <2>5. player' \in Players /\ player'.started = player.started
    <3> DEFINE b == player.start \/ worker[r].first
    <3>1. b \in BOOLEAN
      BY <1>2 DEF Players, Workers
    <3>2. player' = [player EXCEPT !.start = b]
      BY <1>6
    <3> HIDE DEF b
    <3> QED BY <1>2, <3>1, <3>2 DEF Players
  <2> HIDE DEF v
  <2> QED BY <1>1, <1>2, <2>2, <2>3, <2>4, <2>5, WorkerStepOK
<1>7. CASE Ends(r, "NoResume") /\ UNCHANGED <<state, player>>
  <2>1. UNCHANGED <<state, workerElse>>
    BY <1>1, <1>7 DEF workerElse, mainVars
  <2>2. "NoResume" \in Problems \cup {NoProblem}
    BY DEF Problems
  <2> QED BY <1>1, <1>7, <2>1, <2>2, EndsStep
<1> QED BY <1>6, <1>7 DEF Header

\* The worker of the current range says how it ended.
LEMMA FinishStep == ASSUME ReaderInv, NEW r \in Ranges, Finish(r) PROVE ReaderInv'
<1>1. /\ worker[r].pc = "ends" /\ Go(r, "done") /\ faults' = faults
      /\ UNCHANGED <<fetcher, asks, inflight, queued, retrying, conn, fetches>>
  BY DEF Finish, At
<1>2. PICK v \in Workers : /\ worker' = [worker EXCEPT ![r] = v] /\ v.pc = "done"
                           /\ v.offset = worker[r].offset /\ v.next = worker[r].next
  BY <1>1, GoIs
<1>3. /\ faults' \in 0..MaxFaults /\ state \in States /\ player \in Players /\ worker[r] \in Workers
  BY <1>1, FaultCounts, WorkerTypes
<1>4. /\ state' \in States /\ SameWindow(state, state') /\ state'.len = state.len
      /\ state'.taken = state.taken /\ state'.waiting_to = state.waiting_to
  <2> DEFINE p == worker[r].problem
  <2>1. p \in Problems \cup {NoProblem}
    BY <1>3 DEF Workers
  <2>2. state' = state \/ state' = [state EXCEPT !.active = FALSE, !.failed = p]
    BY DEF Finish
  <2> HIDE DEF p
  <2>3. CASE state' = state
    BY <1>3, <2>3 DEF SameWindow
  <2>4. CASE state' = [state EXCEPT !.active = FALSE, !.failed = p]
    BY <1>3, <2>1, <2>4 DEF States, SameWindow
  <2> QED BY <2>2, <2>3, <2>4
<1>5. player' \in Players /\ player'.started = player.started /\ player'.start = player.start
  <2> DEFINE b == player.fail \/ (Current(r) /\ worker[r].first /\ worker[r].problem # NoProblem)
  <2>1. b \in BOOLEAN
    BY <1>3 DEF Players
  <2>2. player' = [player EXCEPT !.fail = b]
    BY DEF Finish
  <2> HIDE DEF b
  <2> QED BY <1>3, <2>1, <2>2 DEF Players
<1> QED BY <1>1, <1>2, <1>3, <1>4, <1>5, WorkerStepOK

\* A chunk joins the window where it ends.
LEMMA ExtendedIs ==
    ASSUME NEW s \in States, BytesOK(s), NEW c \in Nat, c = ReadTo(s)
    PROVE  LET t == Extended(s, c) IN
           /\ t \in States /\ BytesOK(t) /\ Len(t.window) = Len(s.window) + 1 /\ t.window # <<>>
           /\ t.start = s.start /\ t.kept = s.kept /\ t.range = s.range /\ t.closed = s.closed
           /\ t.len = s.len /\ t.taken = s.taken /\ t.waiting_to = s.waiting_to
           /\ ReadTo(t) = ReadTo(s) + 1
<1> DEFINE t == Extended(s, c)
           w == Append(s.window, c)
<1>1. s.window \in Seq(Nat) /\ s.start \in Nat /\ Len(s.window) \in Nat
  BY DEF States
<1>2. /\ w \in Seq(Nat) /\ Len(w) = Len(s.window) + 1 /\ w # <<>>
      /\ \A i \in 1..Len(s.window) : w[i] = s.window[i]
      /\ w[Len(s.window) + 1] = c
  BY <1>1
<1>3. t = [s EXCEPT !.window = w]
  BY DEF Extended
<1> HIDE DEF w, t
<1>4. /\ t \in States /\ t.window = w
      /\ t.start = s.start /\ t.kept = s.kept /\ t.range = s.range /\ t.closed = s.closed
      /\ t.len = s.len /\ t.taken = s.taken /\ t.waiting_to = s.waiting_to
  BY <1>2, <1>3 DEF States
<1>5. \A i \in 1..Len(w) : w[i] = s.start + i - 1
  <2> TAKE i \in 1..Len(w)
  <2>1. CASE i <= Len(s.window)
    BY <1>1, <1>2, <2>1 DEF BytesOK
  <2>2. CASE i = Len(s.window) + 1
    BY <1>1, <1>2, <2>2 DEF ReadTo
  <2> QED BY <1>1, <1>2, <2>1, <2>2, SMTT(40)
<1>6. BytesOK(t)
  BY <1>4, <1>5 DEF BytesOK
<1>7. ReadTo(t) = ReadTo(s) + 1
  <2>1. ReadTo(t) = s.start + Len(w) /\ ReadTo(s) = s.start + Len(s.window)
    BY <1>4 DEF ReadTo
  <2> QED BY <1>1, <1>2, <2>1
<1> QED BY <1>2, <1>4, <1>6, <1>7 DEF t

\* What goes from the front moves the start with it.
LEMMA DrainedIs ==
    ASSUME NEW s \in States, BytesOK(s), NEW d \in 0..Len(s.window)
    PROVE  LET t == Drained(s, d) IN
           /\ t \in States /\ BytesOK(t) /\ Len(t.window) = Len(s.window) - d
           /\ t.start = s.start + d /\ t.kept = s.kept /\ t.range = s.range /\ t.closed = s.closed
           /\ t.len = s.len /\ t.taken = s.taken /\ t.waiting_to = s.waiting_to
           /\ ReadTo(t) = ReadTo(s)
<1> DEFINE t == Drained(s, d)
           n == Len(s.window)
           w == SubSeq(s.window, d + 1, n)
           b == s.start + d
<1>1. s.window \in Seq(Nat) /\ s.start \in Nat /\ n \in Nat /\ d \in Nat /\ d <= n /\ b \in Nat
  BY DEF States
<1>2. w \in Seq(Nat) /\ Len(w) = n - d /\ \A i \in 1..(n - d) : w[i] = s.window[d + i]
  BY <1>1, SMTT(40)
<1>3. t = [s EXCEPT !.window = w, !.start = b]
  BY DEF Drained
<1> HIDE DEF w, t, b
<1>4. /\ t \in States /\ t.window = w /\ t.start = b
      /\ t.kept = s.kept /\ t.range = s.range /\ t.closed = s.closed
      /\ t.len = s.len /\ t.taken = s.taken /\ t.waiting_to = s.waiting_to
  BY <1>1, <1>2, <1>3 DEF States
<1>5. \A i \in 1..Len(w) : w[i] = b + i - 1
  <2> SUFFICES ASSUME NEW i \in 1..(n - d) PROVE w[i] = b + i - 1
    BY <1>2
  <2>1. d + i \in 1..n
    BY <1>1
  <2>2. w[i] = s.window[d + i] /\ s.window[d + i] = s.start + (d + i) - 1
    BY <1>2, <2>1 DEF BytesOK, n
  <2> QED BY <1>1, <2>2, SMTT(40) DEF b
<1>6. BytesOK(t)
  BY <1>4, <1>5 DEF BytesOK
<1>7. ReadTo(t) = ReadTo(s)
  BY <1>1, <1>2, <1>4 DEF ReadTo, b, n
<1> QED BY <1>2, <1>4, <1>6, <1>7 DEF t, b, n

\* What is kept behind the player and read ahead of it bounds the window.
LEMMA WindowIsBounded ==
    ASSUME NEW s \in States, NEW n \in Nat, n = ReadTo(s), Room(s), WaitOK(s), NEW b \in Nat,
           b = s.start + (LET behind == Minus(s.taken, s.start)
                          IN  IF behind > 2 * Behind THEN behind - Behind ELSE 0)
    PROVE  n + 1 - b <= 2 * Behind + Max2(Ahead, LongestRead + BackOff)
<1>1. s.taken \in Nat /\ s.start \in Nat /\ s.waiting_to \in Nat
  BY DEF States
<1> DEFINE m == Max2(Ahead, LongestRead + BackOff)
<1>2. m \in Nat /\ Ahead <= m /\ LongestRead + BackOff <= m
  BY LongestIs, SizesAssumption DEF Max2
<1> HIDE DEF m
<1>3. n < s.taken + m
  <2>1. n < s.taken + Ahead \/ n < s.waiting_to
    BY <1>1, SizesAssumption DEF Room, Max2
  <2>2. s.waiting_to <= s.taken + LongestRead + BackOff
    BY DEF WaitOK
  <2> QED BY <1>1, <1>2, <2>1, <2>2, LongestIs, SizesAssumption
<1>4. s.taken <= b + 2 * Behind
  BY <1>1, SizesAssumption DEF Minus
<1> QED BY <1>1, <1>2, <1>3, <1>4, SizesAssumption DEF m

\* A chunk is kept: the window grows at its end by the worker's own byte, and shrinks at
\* its front.
LEMMA KeepStep == ASSUME ReaderInv, NEW r \in Ranges, KeepChunk(r) PROVE ReaderInv'
<1> DEFINE c == worker[r].next
           s == Extended(state, c)
           d == Drop(s)
           t == Drained(s, d)
           v == [worker[r] EXCEPT !.pc = "read", !.next = c + 1]
<1>1. /\ state \in States /\ worker \in [Ranges -> Workers] /\ worker[r] \in Workers
      /\ OnTheirWay \subseteq Asked /\ CoreOK(state, worker, OnTheirWay) /\ MemoryOK(state, worker)
      /\ BytesOK(state) /\ WaitOK(state)
  BY ReaderTypes, WorkerTypes DEF ReaderInv, OnTheirWay, CoreOK
<1>2. /\ worker[r].pc = "keep" /\ state.range = r /\ ~state.closed /\ Room(state)
      /\ d <= Len(s.window) /\ state' = t
      /\ UNCHANGED <<workerElse, faults>>
  BY DEF KeepChunk, At, Current
<1>3. c \in Nat /\ c = ReadTo(state)
  BY <1>1, <1>2 DEF CoreOK, WritersOK, Workers
<1>4. v \in Workers /\ v.pc = "read" /\ v.next = c + 1 /\ v.offset = worker[r].offset
  <2> HIDE DEF c
  <2>1. c + 1 \in Nat
    BY <1>3
  <2> QED BY <1>1, <2>1 DEF Workers
<1>5. worker' = [worker EXCEPT ![r] = v]
  BY <1>1 DEF KeepChunk
<1> HIDE DEF c, v
<1>6. /\ s \in States /\ BytesOK(s) /\ Len(s.window) = Len(state.window) + 1
      /\ s.start = state.start /\ s.kept = state.kept /\ s.range = state.range
      /\ s.closed = state.closed /\ s.len = state.len /\ s.taken = state.taken
      /\ s.waiting_to = state.waiting_to /\ ReadTo(s) = c + 1
  BY <1>1, <1>3, ExtendedIs
<1> HIDE DEF s
<1>7. d \in 0..Len(s.window)
  <2>1. s.taken \in Nat /\ s.start \in Nat /\ Len(s.window) \in Nat
    BY <1>6 DEF States
  <2>2. d \in Nat
    BY <2>1, SizesAssumption DEF Drop, Minus
  <2> QED BY <1>2, <2>1, <2>2
<1>8. d = LET behind == Minus(state.taken, state.start)
          IN  IF behind > 2 * Behind THEN behind - Behind ELSE 0
  BY <1>6 DEF Drop
<1> HIDE DEF d
<1>9. /\ t \in States /\ BytesOK(t) /\ Len(t.window) = Len(s.window) - d
      /\ t.start = state.start + d /\ t.kept = state.kept /\ t.range = state.range
      /\ t.closed = state.closed /\ t.len = state.len /\ t.taken = state.taken
      /\ t.waiting_to = state.waiting_to /\ ReadTo(t) = c + 1
  BY <1>6, <1>7, DrainedIs
<1> HIDE DEF t
<1>10. WindowFits(t)
  <2> DEFINE b == state.start + d
  <2>1. b \in Nat /\ state.start \in Nat /\ d \in Nat /\ Len(state.window) \in Nat
    BY <1>1, <1>7 DEF States
  <2>2. c + 1 - b <= 2 * Behind + Max2(Ahead, LongestRead + BackOff)
    BY <1>1, <1>2, <1>3, <1>8, <2>1, WindowIsBounded
  <2>3. Len(t.window) = c + 1 - b
    <3>1. c = state.start + Len(state.window)
      BY <1>3 DEF ReadTo
    <3>2. Len(t.window) = Len(state.window) + 1 - d
      <4> DEFINE a == Len(s.window)
                 w == Len(state.window)
      <4>1. a = w + 1 /\ Len(t.window) = a - d /\ w \in Nat
        BY <1>6, <1>9, <2>1
      <4> HIDE DEF a, w
      <4> QED BY <2>1, <4>1 DEF w
    <3> HIDE DEF c
    <3> QED BY <2>1, <3>1, <3>2, SMTT(40)
  <2> QED BY <2>2, <2>3 DEF WindowFits
<1>11. worker' \in [Ranges -> Workers] /\ worker'[r] = v /\ \A x \in Ranges \ {r} : worker'[x] = worker[x]
  BY <1>1, <1>4, <1>5
<1>12. OnTheirWay' = OnTheirWay /\ OnePlace'
  BY <1>2 DEF ReaderInv, OnTheirWay, OnePlace, workerElse, mainVars
<1>13. CoreOK(t, worker', OnTheirWay)
  <2>1. \A q \in OnTheirWay : q.range \in Ranges /\ q.range # r
    BY <1>1, <1>2 DEF CoreOK, RequestsOK, Asked
  <2>2. RequestsOK(t, worker', OnTheirWay)
    BY <1>1, <1>2, <1>9, <1>11, <2>1 DEF CoreOK, RequestsOK
  <2>3. \A x \in Ranges \ {r} : x > t.range => worker'[x].pc = "none"
    BY <1>1, <1>9, <1>11 DEF CoreOK, WritersOK
  <2>4. ~(r > t.range)
    BY <1>2, <1>9 DEF Ranges
  <2>5. WritersOK(t, worker')
    BY <1>2, <1>4, <1>9, <1>11, <2>3, <2>4 DEF WritersOK
  <2> QED BY <1>9, <2>2, <2>5 DEF CoreOK
<1>14. MemoryOK(t, worker')
  BY <1>1, <1>9, <1>10 DEF MemoryOK, KeptOK
<1>15. UNCHANGED <<fetcher, player, asks, inflight, queued, retrying, conn, fetches, faults>>
  BY <1>2 DEF workerElse, mainVars
<1>16. TypeOK'
  <2>1. state' \in States
    BY <1>2, <1>9
  <2> QED BY <1>11, <1>15, <2>1, ReaderTypes, ReaderTypesNext DEF ReaderInv
<1>17. \A x \in Ranges : worker'[x].offset = worker[x].offset
  BY <1>4, <1>11
<1>18. LengthOK'
  BY <1>2, <1>9, <1>12, <1>15, <1>17 DEF ReaderInv, LengthOK, Fetching
<1>19. ServedBytesAreTheFile' /\ fetcher'.length <= LongestRead /\ WaitOK(state')
  BY <1>2, <1>9, <1>15 DEF ReaderInv, ServedBytesAreTheFile, WaitOK
<1> QED BY <1>2, <1>12, <1>13, <1>14, <1>16, <1>18, <1>19 DEF ReaderInv

\* The thread that lets go of more than there is has panicked: the window holds the
\* file's bytes, but nothing is promised of its size any more.
LEMMA PanicStep == ASSUME ReaderInv, NEW r \in Ranges, KeepPanics(r) PROVE ReaderInv'
<1> DEFINE c == worker[r].next
           s == Extended(state, c)
           v == [worker[r] EXCEPT !.pc = "panicked"]
<1>1. /\ state \in States /\ worker \in [Ranges -> Workers] /\ worker[r] \in Workers
      /\ OnTheirWay \subseteq Asked /\ CoreOK(state, worker, OnTheirWay) /\ MemoryOK(state, worker)
      /\ BytesOK(state)
  BY ReaderTypes, WorkerTypes DEF ReaderInv, OnTheirWay, CoreOK
<1>2. /\ worker[r].pc = "keep" /\ state.range = r /\ ~state.closed /\ state' = s
      /\ UNCHANGED <<workerElse, faults>>
  BY DEF KeepPanics, At, Current
<1>3. c \in Nat /\ c = ReadTo(state)
  BY <1>1, <1>2 DEF CoreOK, WritersOK, Workers
<1>4. v \in Workers /\ v.pc = "panicked" /\ v.offset = worker[r].offset
  BY <1>1 DEF Workers
<1>5. worker' = [worker EXCEPT ![r] = v]
  BY <1>1 DEF KeepPanics, Go
<1> HIDE DEF c, v
<1>6. /\ s \in States /\ BytesOK(s) /\ s.kept = state.kept /\ s.range = state.range
      /\ s.closed = state.closed /\ s.len = state.len /\ s.taken = state.taken
      /\ s.waiting_to = state.waiting_to
  BY <1>1, <1>3, ExtendedIs
<1> HIDE DEF s
<1>7. worker' \in [Ranges -> Workers] /\ worker'[r] = v /\ \A x \in Ranges \ {r} : worker'[x] = worker[x]
  BY <1>1, <1>4, <1>5
<1>8. OnTheirWay' = OnTheirWay /\ OnePlace'
  BY <1>2 DEF ReaderInv, OnTheirWay, OnePlace, workerElse, mainVars
<1>9. CoreOK(s, worker', OnTheirWay)
  <2>1. \A q \in OnTheirWay : q.range \in Ranges /\ q.range # r
    BY <1>1, <1>2 DEF CoreOK, RequestsOK, Asked
  <2>2. RequestsOK(s, worker', OnTheirWay)
    BY <1>1, <1>2, <1>6, <1>7, <2>1 DEF CoreOK, RequestsOK
  <2>3. \A x \in Ranges \ {r} : x > s.range => worker'[x].pc = "none"
    BY <1>1, <1>6, <1>7 DEF CoreOK, WritersOK
  <2>4. ~(r > s.range)
    BY <1>2, <1>6 DEF Ranges
  <2>5. WritersOK(s, worker')
    BY <1>2, <1>4, <1>6, <1>7, <2>3, <2>4 DEF WritersOK
  <2> QED BY <1>6, <2>2, <2>5 DEF CoreOK
<1>10. MemoryOK(s, worker')
  BY <1>1, <1>4, <1>6, <1>7 DEF MemoryOK, KeptOK, NoPanic
<1>11. UNCHANGED <<fetcher, player, asks, inflight, queued, retrying, conn, fetches, faults>>
  BY <1>2 DEF workerElse, mainVars
<1>12. TypeOK'
  BY <1>2, <1>6, <1>7, <1>11, ReaderTypes, ReaderTypesNext DEF ReaderInv
<1>13. \A x \in Ranges : worker'[x].offset = worker[x].offset
  BY <1>4, <1>7
<1>14. LengthOK'
  BY <1>2, <1>6, <1>8, <1>11, <1>13 DEF ReaderInv, LengthOK, Fetching
<1>15. ServedBytesAreTheFile' /\ fetcher'.length <= LongestRead /\ WaitOK(state')
  BY <1>2, <1>6, <1>11 DEF ReaderInv, ServedBytesAreTheFile, WaitOK
<1> QED BY <1>2, <1>8, <1>9, <1>10, <1>12, <1>14, <1>15 DEF ReaderInv

\* A chunk comes off the transfer.
LEMMA ReceiveStep == ASSUME ReaderInv, NEW r \in Ranges, Receive(r) PROVE ReaderInv'
<1>1. worker[r].pc = "read" /\ Go(r, "keep") /\ UNCHANGED <<state, workerElse, faults>>
  BY DEF Receive, At
<1>2. PICK v \in Workers : /\ worker' = [worker EXCEPT ![r] = v] /\ v.pc = "keep"
                           /\ v.offset = worker[r].offset /\ v.next = worker[r].next
  BY <1>1, GoIs
<1>3. faults' \in 0..MaxFaults /\ state \in States /\ player \in Players /\ SameWindow(state, state)
  BY <1>1, FaultCounts, WorkerTypes
<1>4. UNCHANGED <<state, player, fetcher, asks, inflight, queued, retrying, conn, fetches>>
  BY <1>1 DEF workerElse, mainVars
<1>5. /\ state' \in States /\ SameWindow(state, state') /\ state'.len = state.len
      /\ state'.taken = state.taken /\ state'.waiting_to = state.waiting_to
      /\ player' \in Players /\ player'.started = player.started /\ player'.start = player.start
  BY <1>3, <1>4
<1> QED BY <1>1, <1>2, <1>3, <1>4, <1>5, WorkerStepOK

\* A step of a worker.
LEMMA WorkerStepKeeps == ASSUME ReaderInv, NEW r \in Ranges, WorkerStep(r) PROVE ReaderInv'
<1>1. {"Connect", "NotAFile", "Stopped", "NoResume", NoProblem} \subseteq Problems \cup {NoProblem}
  BY DEF Problems
<1>2. CASE ConnectFails(r)
  BY <1>1, <1>2, EndsStep DEF ConnectFails, At
<1>3. CASE HeaderFails(r)
  <2>1. worker[r].pc = "head" /\ (Fault \/ faults' = faults) /\ Ends(r, "NotAFile")
        /\ UNCHANGED <<state, workerElse>>
    BY <1>3 DEF HeaderFails, At
  <2> QED BY <1>1, <2>1, EndsStep
<1>4. CASE ReadWhole(r)
  BY <1>1, <1>4, EndsStep DEF ReadWhole, At
<1>5. CASE ReadStops(r)
  <2>1. PICK p \in {"Stopped", NoProblem} :
          /\ worker[r].pc = "read" /\ (Fault \/ faults' = faults) /\ Ends(r, p)
          /\ UNCHANGED <<state, workerElse>>
    BY <1>5 DEF ReadStops, At
  <2> QED BY <1>1, <2>1, EndsStep
<1>6. CASE KeepRefused(r)
  BY <1>1, <1>6, EndsStep DEF KeepRefused, At
<1>7. CASE \E says \in {FileLen - worker[r].offset, FileLen} : Header(r, says)
  BY <1>7, HeaderStep
<1> QED BY <1>2, <1>3, <1>4, <1>5, <1>6, <1>7, ConnectStep, ReceiveStep, KeepStep, PanicStep,
           FinishStep DEF WorkerStep

-----------------------------------------------------------------------------
(* The main thread.                                                          *)

\* What the player may be after a step of the main thread.
PlayerOK(p, t) ==
    /\ t \in Players
    /\ p.started => t.started
    /\ t.started \/ t.start => p.started \/ p.start

\* What a step of the main thread that starts no worker has to keep.
LEMMA MainStepOK ==
    ASSUME ReaderInv, state' \in {state, Close(state)}, worker' = worker, fetcher' = fetcher,
           fetches' = fetches, faults' \in 0..MaxFaults, conn' \in BOOLEAN, PlayerOK(player, player'),
           OnTheirWay' \subseteq OnTheirWay, OnePlace'
    PROVE  ReaderInv'
<1>1. /\ state \in States /\ worker \in [Ranges -> Workers] /\ OnTheirWay \subseteq Asked
      /\ CoreOK(state, worker, OnTheirWay) /\ MemoryOK(state, worker)
  BY ReaderTypes DEF ReaderInv, OnTheirWay
<1>2. /\ state' \in States /\ CoreOK(state', worker, OnTheirWay) /\ MemoryOK(state', worker)
      /\ state'.len = state.len /\ state'.taken = state.taken /\ state'.waiting_to = state.waiting_to
  BY <1>1, CloseIs
<1>3. CoreOK(state', worker', OnTheirWay') /\ MemoryOK(state', worker')
  BY <1>2, FewerRequests
<1>4. asks' \subseteq Asked /\ inflight' \subseteq Asked /\ queued' \subseteq Asked /\ retrying' \subseteq Asked
  BY <1>1 DEF OnTheirWay
<1>5. TypeOK'
  BY <1>2, <1>4, ReaderTypes, ReaderTypesNext DEF ReaderInv, PlayerOK
<1>6. LengthOK'
  BY <1>2 DEF ReaderInv, LengthOK, Fetching, PlayerOK
<1>7. ServedBytesAreTheFile' /\ fetcher'.length <= LongestRead /\ WaitOK(state')
  BY <1>2 DEF ReaderInv, ServedBytesAreTheFile, WaitOK
<1> QED BY <1>3, <1>5, <1>6, <1>7 DEF ReaderInv

\* A range's worker is started.
LEMMA SpawnStep ==
    ASSUME ReaderInv, NEW q \in OnTheirWay, SpawnWorker(q), state' = state, fetcher' = fetcher,
           fetches' = fetches, faults' = faults, conn' = conn, PlayerOK(player, player'),
           OnTheirWay' = OnTheirWay \ {q}, OnePlace'
    PROVE  ReaderInv'
<1> DEFINE v == [Idle EXCEPT !.pc = "connect", !.offset = q.offset, !.next = q.offset,
                             !.first = ~player.started]
<1>1. /\ state \in States /\ worker \in [Ranges -> Workers] /\ OnTheirWay \subseteq Asked
      /\ CoreOK(state, worker, OnTheirWay) /\ MemoryOK(state, worker) /\ player \in Players
  BY ReaderTypes DEF ReaderInv, OnTheirWay
<1>2. q.offset \in Nat /\ (~player.started) \in BOOLEAN
  BY <1>1 DEF Asked, Players
<1>3. v \in Workers /\ v.pc = "connect" /\ v.offset = q.offset /\ v.next = q.offset
  BY <1>2 DEF Idle, Workers
<1>4. worker' = [worker EXCEPT ![q.range] = v]
  BY DEF SpawnWorker
<1> HIDE DEF v
<1>5. /\ worker' \in [Ranges -> Workers] /\ CoreOK(state, worker', OnTheirWay \ {q})
      /\ MemoryOK(state, worker') /\ \A x \in Ranges : worker'[x].offset \in {worker[x].offset, q.offset}
  BY <1>1, <1>3, <1>4, WorkerStarts
<1>6. asks' \subseteq Asked /\ inflight' \subseteq Asked /\ queued' \subseteq Asked /\ retrying' \subseteq Asked
  BY <1>1 DEF OnTheirWay
<1>7. TypeOK'
  BY <1>5, <1>6, ReaderTypes, ReaderTypesNext DEF ReaderInv, PlayerOK
<1>8. LengthOK'
  BY <1>5 DEF ReaderInv, LengthOK, Fetching, PlayerOK
<1>9. ServedBytesAreTheFile' /\ fetcher'.length <= LongestRead /\ WaitOK(state')
  BY DEF ReaderInv, ServedBytesAreTheFile, WaitOK
<1> QED BY <1>5, <1>7, <1>8, <1>9 DEF ReaderInv

\* The changes the main thread makes to the player.
LEMMA PlayerChanges ==
    ASSUME ReaderInv
    PROVE  /\ PlayerOK(player, player) /\ PlayerOK(player, Failed(player))
           /\ PlayerOK(player, [player EXCEPT !.retries = 0])
           /\ PlayerOK(player, [player EXCEPT !.at = "gone"])
           /\ PlayerOK(player, [player EXCEPT !.fail = FALSE])
           /\ PlayerOK(player, [Failed(player) EXCEPT !.fail = FALSE])
           /\ player.retries < Retries => PlayerOK(player, [player EXCEPT !.retries = @ + 1])
<1>1. player \in Players
  BY ReaderTypes DEF ReaderInv
<1>2. player.retries \in Nat /\ Retries \in Nat /\ 0 \in 0..Retries
  BY <1>1, SizesAssumption DEF Players
<1>3. PlayerOK(player, player)
  BY <1>1 DEF PlayerOK
<1>4. PlayerOK(player, Failed(player)) /\ PlayerOK(player, [Failed(player) EXCEPT !.fail = FALSE])
  BY <1>1 DEF PlayerOK, Failed, Players
<1>5. PlayerOK(player, [player EXCEPT !.at = "gone"]) /\ PlayerOK(player, [player EXCEPT !.fail = FALSE])
  BY <1>1 DEF PlayerOK, Players
<1>6. PlayerOK(player, [player EXCEPT !.retries = 0])
  <2> DEFINE z == 0
  <2>1. z \in 0..Retries
    BY <1>2
  <2> HIDE DEF z
  <2>2. PlayerOK(player, [player EXCEPT !.retries = z])
    BY <1>1, <2>1 DEF PlayerOK, Players
  <2> QED BY <2>2 DEF z
<1>7. ASSUME player.retries < Retries PROVE PlayerOK(player, [player EXCEPT !.retries = @ + 1])
  <2> DEFINE z == player.retries + 1
  <2>1. z \in 0..Retries
    BY <1>2, <1>7
  <2> HIDE DEF z
  <2>2. PlayerOK(player, [player EXCEPT !.retries = z])
    BY <1>1, <2>1 DEF PlayerOK, Players
  <2> QED BY <2>2 DEF z
<1> QED BY <1>3, <1>4, <1>5, <1>6, <1>7

\* A range is asked for, or the player fails without a connection.
LEMMA RequestIs ==
    ASSUME ReaderInv, NEW q, Request(q)
    PROVE  /\ state' \in {state, Close(state)} /\ PlayerOK(player, player')
           /\ inflight' \subseteq inflight \cup {q}
  BY PlayerChanges DEF Request

\* The steps that move a range from one place to another, or let go of it.
LEMMA RunAskStep == ASSUME ReaderInv, NEW q \in asks, RunAsk(q) PROVE ReaderInv'
<1>1. /\ asks' = asks \ {q}
      /\ UNCHANGED <<worker, queued, retrying, conn, faults, fetcher, fetches>>
  BY DEF RunAsk, mainElse
<1>2. /\ state' \in {state, Close(state)} /\ PlayerOK(player, player')
      /\ inflight' \subseteq inflight \cup {q}
  BY RequestIs, PlayerChanges DEF RunAsk
<1>3. OnTheirWay' \subseteq OnTheirWay /\ OnePlace'
  BY <1>1, <1>2 DEF ReaderInv, OnTheirWay, OnePlace
<1>4. faults' \in 0..MaxFaults /\ conn' \in BOOLEAN
  BY <1>1, ReaderTypes DEF ReaderInv
<1> QED BY <1>1, <1>2, <1>3, <1>4, MainStepOK

\* A refused range is asked for again.
LEMMA RetryStep == ASSUME ReaderInv, NEW q \in retrying, RetryFires(q) PROVE ReaderInv'
<1>1. /\ retrying' = retrying \ {q}
      /\ UNCHANGED <<worker, asks, queued, conn, faults, fetcher, fetches>>
  BY DEF RetryFires, mainElse
<1>2. /\ state' \in {state, Close(state)} /\ PlayerOK(player, player')
      /\ inflight' \subseteq inflight \cup {q}
  BY RequestIs, PlayerChanges DEF RetryFires
<1>3. OnTheirWay' \subseteq OnTheirWay /\ OnePlace'
  BY <1>1, <1>2 DEF ReaderInv, OnTheirWay, OnePlace
<1>4. faults' \in 0..MaxFaults /\ conn' \in BOOLEAN
  BY <1>1, ReaderTypes DEF ReaderInv
<1> QED BY <1>1, <1>2, <1>3, <1>4, MainStepOK

\* The server grants a range, and it gets its worker while the player lives.
LEMMA GrantedStep == ASSUME ReaderInv, NEW q \in inflight, Granted(q) PROVE ReaderInv'
<1>1. /\ inflight' = inflight \ {q}
      /\ UNCHANGED <<state, asks, queued, retrying, conn, faults, fetcher, fetches>>
  BY DEF Granted, Answer, mainElse
<1>2. OnTheirWay' = OnTheirWay \ {q} /\ OnePlace' /\ q \in OnTheirWay
  BY <1>1 DEF ReaderInv, OnTheirWay, OnePlace
<1>3. CASE Lives
  <2>1. SpawnWorker(q) /\ PlayerOK(player, player')
    BY <1>3, PlayerChanges DEF Granted
  <2> QED BY <1>1, <1>2, <2>1, SpawnStep
<1>4. CASE ~Lives
  <2>1. worker' = worker /\ PlayerOK(player, player')
    BY <1>4, PlayerChanges DEF Granted
  <2>2. faults' \in 0..MaxFaults /\ conn' \in BOOLEAN
    BY <1>1, ReaderTypes DEF ReaderInv
  <2> QED BY <1>1, <1>2, <2>1, <2>2, MainStepOK
<1> QED BY <1>3, <1>4

\* The server queues a range.
LEMMA QueuedStep == ASSUME ReaderInv, NEW q \in inflight, QueuedBehind(q) PROVE ReaderInv'
<1>1. /\ inflight' = inflight \ {q} /\ queued' \subseteq queued \cup {q}
      /\ UNCHANGED <<state, worker, asks, retrying, conn, faults, fetcher, fetches>>
  BY DEF QueuedBehind, Answer, mainElse
<1>2. OnTheirWay' \subseteq OnTheirWay /\ OnePlace'
  BY <1>1 DEF ReaderInv, OnTheirWay, OnePlace
<1>3. PlayerOK(player, player')
  BY PlayerChanges DEF QueuedBehind
<1>4. faults' \in 0..MaxFaults /\ conn' \in BOOLEAN
  BY <1>1, ReaderTypes DEF ReaderInv
<1> QED BY <1>1, <1>2, <1>3, <1>4, MainStepOK

\* The turn of a queued range comes, and it gets its worker.
LEMMA TurnStep == ASSUME ReaderInv, NEW q \in queued, TurnComes(q) PROVE ReaderInv'
<1>1. /\ queued' = queued \ {q} /\ SpawnWorker(q)
      /\ UNCHANGED <<state, player, asks, inflight, retrying, conn, faults, fetcher, fetches>>
  BY DEF TurnComes, mainElse
<1>2. OnTheirWay' = OnTheirWay \ {q} /\ OnePlace' /\ q \in OnTheirWay
  BY <1>1 DEF ReaderInv, OnTheirWay, OnePlace
<1>3. PlayerOK(player, player')
  BY <1>1, PlayerChanges
<1> QED BY <1>1, <1>2, <1>3, SpawnStep

\* A range is refused: asked for again, given up, or of no interest any more.
LEMMA RefusedStep == ASSUME ReaderInv, NEW q \in inflight, Refused(q) PROVE ReaderInv'
<1>1. /\ inflight' = inflight \ {q} /\ retrying' \subseteq retrying \cup {q} /\ Fault
      /\ UNCHANGED <<worker, asks, queued, conn, fetcher, fetches>>
      /\ state' \in {state, Close(state)}
  BY DEF Refused, Answer, mainElse
<1>2. OnTheirWay' \subseteq OnTheirWay /\ OnePlace'
  BY <1>1 DEF ReaderInv, OnTheirWay, OnePlace
<1>3. PlayerOK(player, player')
  BY PlayerChanges DEF Refused
<1>4. faults' \in 0..MaxFaults /\ conn' \in BOOLEAN
  BY <1>1, FaultCounts, ReaderTypes DEF ReaderInv
<1> QED BY <1>1, <1>2, <1>3, <1>4, MainStepOK

\* The connection closes, and every range on its way with it.
LEMMA ConnLostStep == ASSUME ReaderInv, ConnLost PROVE ReaderInv'
<1>1. /\ inflight' = {} /\ queued' = {} /\ Fault /\ conn' = FALSE
      /\ UNCHANGED <<worker, asks, retrying, fetcher, fetches>>
      /\ state' \in {state, Close(state)}
  BY DEF ConnLost, mainElse
<1>2. OnTheirWay' \subseteq OnTheirWay /\ OnePlace'
  BY <1>1 DEF ReaderInv, OnTheirWay, OnePlace
<1>3. PlayerOK(player, player')
  BY PlayerChanges DEF ConnLost
<1>4. faults' \in 0..MaxFaults /\ conn' \in BOOLEAN
  BY <1>1, FaultCounts
<1> QED BY <1>1, <1>2, <1>3, <1>4, MainStepOK

\* The steps that move no range.
LEMMA PlayerStep ==
    ASSUME ReaderInv, RunStart \/ RunFail \/ ErrorShown \/ ClosePlayer
    PROVE  ReaderInv'
<1>1. /\ UNCHANGED <<worker, asks, inflight, queued, retrying, conn, faults, fetcher, fetches>>
      /\ state' \in {state, Close(state)}
  BY DEF RunStart, RunFail, ErrorShown, ClosePlayer, mainElse
<1>2. OnTheirWay' \subseteq OnTheirWay /\ OnePlace' /\ faults' \in 0..MaxFaults /\ conn' \in BOOLEAN
  BY <1>1, ReaderTypes DEF ReaderInv, OnTheirWay, OnePlace
<1>3. PlayerOK(player, player')
  <2>1. CASE RunStart
    <3> DEFINE b == player.started \/ Lives
    <3>1. player \in Players /\ b \in BOOLEAN /\ player.start /\ (player.started => b)
      BY <2>1, ReaderTypes DEF ReaderInv, RunStart, Players
    <3>2. player' = [player EXCEPT !.start = FALSE, !.started = b]
      BY <2>1 DEF RunStart
    <3> HIDE DEF b
    <3> QED BY <3>1, <3>2 DEF PlayerOK, Players
  <2>2. CASE RunFail \/ ErrorShown \/ ClosePlayer
    BY <2>2, PlayerChanges DEF RunFail, ErrorShown, ClosePlayer
  <2> QED BY <2>1, <2>2
<1> QED BY <1>1, <1>2, <1>3, MainStepOK

-----------------------------------------------------------------------------
(* The theorem.                                                              *)

\* Every step keeps the invariant.
LEMMA ReaderStep == ReaderInv /\ [Next]_vars => ReaderInv'
<1> SUFFICES ASSUME ReaderInv, [Next]_vars PROVE ReaderInv'
  OBVIOUS
<1>1. CASE UNCHANGED vars
  <2>1. /\ state' = state /\ worker' = worker /\ fetcher' = fetcher /\ fetches' = fetches
        /\ faults' = faults /\ conn' = conn /\ player' = player /\ asks' = asks
        /\ inflight' = inflight /\ queued' = queued /\ retrying' = retrying
    BY <1>1 DEF vars, mainVars
  <2>2. OnTheirWay' \subseteq OnTheirWay /\ OnePlace' /\ faults' \in 0..MaxFaults /\ conn' \in BOOLEAN
    BY <2>1, ReaderTypes DEF ReaderInv, OnTheirWay, OnePlace
  <2> QED BY <2>1, <2>2, PlayerChanges, MainStepOK
<1>2. CASE \E read \in Reads, main \in BOOLEAN : Fetch(read[1], read[2], main)
  BY <1>2, FetchStep
<1>3. CASE \E flushing \in BOOLEAN : Flush(flushing)
  BY <1>3, FlushStep
<1>4. CASE \E r \in Ranges : WorkerStep(r)
  BY <1>4, WorkerStepKeeps
<1>5. CASE MainStep
  BY <1>5, RunAskStep, GrantedStep, QueuedStep, RefusedStep, TurnStep, RetryStep, ConnLostStep,
     PlayerStep DEF MainStep
<1> QED BY <1>1, <1>2, <1>3, <1>4, <1>5, FetchTurnStep DEF Next

\* What a read is given is the file's, from its offset to its length or the file's end; the
\* window and the ranges kept hold the file's own bytes, and unless a worker panicked take
\* bounded memory: however seeks, late workers, retries and lost connections interleave, for
\* every file, every set of reads with a longest one and every number of ranges.
THEOREM ReaderServesTheFile == Spec => []ServesTheFile
<1>1. ReaderInv => ServesTheFile
  <2> SUFFICES ASSUME ReaderInv PROVE ServesTheFile
    OBVIOUS
  <2>1. TypeOK /\ ServedBytesAreTheFile /\ state \in States /\ worker \in [Ranges -> Workers]
    BY ReaderTypes DEF ReaderInv
  <2>2. WindowIsFile
    <3> DEFINE st == [start |-> state.start, bytes |-> state.window]
               k == state.kept
               all == Stretches(state)
    <3>1. k \in Seq(Stretch) /\ state.window \in Seq(Nat) /\ state.start \in Nat
      BY <2>1 DEF States
    <3>2. BytesOK(state) /\ WritersOK(state, worker)
      BY DEF ReaderInv, CoreOK
    <3>3. st \in Stretch /\ FromFile(st)
      BY <3>1, <3>2 DEF Stretch, FromFile, BytesOK
    <3>4. all = Append(k, st)
      BY DEF Stretches
    <3>5. \A i \in 1..Len(k) : FromFile(k[i])
      BY <3>2 DEF BytesOK
    <3> HIDE DEF st, k, all
    <3>6. /\ Len(all) = Len(k) + 1 /\ Len(k) \in Nat /\ all[Len(k) + 1] = st
          /\ \A i \in 1..Len(k) : all[i] = k[i]
      BY <3>1, <3>3, <3>4
    <3>7. \A i \in 1..Len(all) : i \in 1..Len(k) \/ i = Len(k) + 1
      BY <3>6
    <3>8. \A i \in 1..Len(all) : FromFile(all[i])
      BY <3>3, <3>5, <3>6, <3>7, Zenon
    <3>9. \A r \in Ranges : worker[r].pc \in {"read", "keep"} /\ Current(r)
                              => worker[r].next = ReadTo(state)
      BY <3>2 DEF WritersOK, Current
    <3> QED BY <3>8, <3>9 DEF WindowIsFile, all
  <2>3. BoundedMemory
    BY DEF ReaderInv, MemoryOK, KeptOK, WindowFits, NoPanic, BoundedMemory
  <2> QED BY <2>1, <2>2, <2>3 DEF ServesTheFile
<1> QED BY <1>1, Init_Inv, ReaderStep, PTL DEF Spec

=============================================================================
