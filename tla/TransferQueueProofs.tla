-------------------------- MODULE TransferQueueProofs --------------------------
(***************************************************************************)
(* Proofs about the transfer queue, for any transfers, connections, kinds  *)
(* and replies, and any number of tries.                                   *)
(*                                                                         *)
(* A handler is a composition of calls, each of which changes the row of   *)
(* one transfer; what most of them end with, StartNext, changes the row of *)
(* another.  So the invariant is about one row at a time (RowOK), every    *)
(* call has a lemma that says which rows it changes and that it leaves     *)
(* them right, and the references are counted by what a row owes (Owed):   *)
(* a reply and a cleanup take a holder away first and let go of it last.   *)
(***************************************************************************)
EXTENDS TransferQueue, SequenceTheorems, WellFoundedInduction, TLAPS

\* What the tables of the queue hold, numbers aside.
Pauses == {"None", "Winding", "Paused", "Asked", "Restarted", "Changed", "Failed"}
Workers == {"none", "run", "done", "failed", "fatal", "again", "changed", "reoffer"}
Queues ==
    [list : Seq(Xfers), pause : [Xfers -> Pauses], worker : [Xfers -> Workers],
     gone : [Xfers -> BOOLEAN], tries : [Xfers -> Int], asked : [Xfers -> Int],
     timers : [Xfers -> Int], refs : [Xfers -> Int], canceled : [Xfers -> BOOLEAN],
     aborted : [Xfers -> BOOLEAN], known : [Xfers -> BOOLEAN],
     resumed : [Xfers -> BOOLEAN], again : [Xfers -> Int]]

\* No row is listed twice.
Distinct(l) == \A i, j \in DOMAIN l : l[i] = l[j] => i = j

\* What a row keeps whatever becomes of its pause and its tries: one request
\* or one worker; none of either before the latch of a file is set; only a
\* resumed folder upload ends itself short.
RowCore(s, y) ==
    /\ s.asked[y] >= 0 /\ s.timers[y] >= 0 /\ s.timers[y] <= QueueTries
    /\ s.again[y] >= 0 /\ s.again[y] <= AgainTries
    /\ s.asked[y] <= 1 /\ (s.asked[y] = 1 => s.worker[y] = "none")
    /\ ~Folder(y) /\ ~s.gone[y] =>
           s.asked[y] = 0 /\ s.worker[y] = "none" /\ ~s.known[y]
    /\ s.resumed[y] \/ s.worker[y] \in {"again", "changed", "reoffer"} =>
           Kind[y] = "putfolder"

\* The pause of a row agrees with its request and its worker.
RowPause(s, y) ==
    /\ Listed(s, y) /\ s.asked[y] = 1 => s.pause[y] \in {"None", "Asked", "Restarted"}
    /\ Listed(s, y) /\ s.asked[y] = 1 /\ s.pause[y] = "None" => ~s.known[y]
    /\ s.worker[y] # "none" => s.pause[y] \in {"None", "Winding"}
    /\ s.pause[y] # "None" => Listed(s, y)

\* A retry is counted before its timer is set, and a file the server has
\* given a reference is owed none.
RowTries(s, y) ==
    /\ s.tries[y] >= NoTries /\ s.tries[y] <= QueueTries
    /\ ~Folder(y) /\ s.known[y] => s.tries[y] = NoTries
    /\ s.tries[y] # NoTries => s.timers[y] <= s.tries[y]
    /\ s.tries[y] = NoTries /\ Listed(s, y) /\ ~s.known[y] => s.timers[y] = 0

\* A used token is that of a cancelled transfer, of one winding down, or of
\* one that is done with.
RowToken(s, y) ==
    s.aborted[y] => \/ s.canceled[y]
                    \/ s.pause[y] = "Winding"
                    \/ ~Listed(s, y) /\ s.worker[y] = "none"

RowOK(s, y) == RowCore(s, y) /\ RowPause(s, y) /\ RowTries(s, y) /\ RowToken(s, y)

Good(s) == s \in Queues /\ Distinct(s.list) /\ \A y \in Xfers : RowOK(s, y)

\* References that no holder accounts for.
Owed(s, y) ==
    s.refs[y] - (Bit(Listed(s, y)) + Bit(Working(s, y)) + s.timers[y] + s.asked[y])

\* A row as it is before its transfer is made.
Fresh(s, y) ==
    /\ ~Listed(s, y) /\ s.pause[y] = "None" /\ s.worker[y] = "none" /\ ~s.gone[y]
    /\ s.tries[y] = NoTries /\ s.asked[y] = 0 /\ s.timers[y] = 0 /\ s.refs[y] = 0
    /\ ~s.canceled[y] /\ ~s.aborted[y] /\ ~s.known[y] /\ ~s.resumed[y] /\ s.again[y] = 0

\* QueueMoves, of a queue.
Stopped(s, y) == Kind[y] = "putfolder" /\ s.pause[y] = "Changed"
Moves(s) ==
    \A x \in Xfers : Listed(s, x) /\ Waiting(s, x) =>
        \E y \in Xfers : Listed(s, y) /\ (OnItsWay(s, y) \/ Stopped(s, y))

\* Of the queue s with the transfers M made, the connections U up and the
\* application open or not: every row is right, every reference has a holder,
\* nothing is set of a transfer that was not made, and nothing is on a
\* connection that is gone.
Fits(s, M, U, o) ==
    /\ Good(s)
    /\ \A y \in Xfers : Owed(s, y) = 0
    /\ \A y \in Xfers : y \notin M => Fresh(s, y)
    /\ \A y \in Xfers : (Listed(s, y) \/ s.asked[y] > 0) /\ o => ConnOf[y] \in U

\* The invariant.
QueueInv ==
    /\ Fits(q, made, up, open) /\ Moves(q)
    /\ made \subseteq Xfers /\ up \subseteq Conns /\ open \in BOOLEAN

-----------------------------------------------------------------------------
(* Rows.                                                                    *)

\* The row of y is the same in t as in s, but perhaps for its place.
SameRow(s, t, y) ==
    /\ t.pause[y] = s.pause[y] /\ t.worker[y] = s.worker[y] /\ t.gone[y] = s.gone[y]
    /\ t.tries[y] = s.tries[y] /\ t.asked[y] = s.asked[y] /\ t.timers[y] = s.timers[y]
    /\ t.refs[y] = s.refs[y] /\ t.canceled[y] = s.canceled[y] /\ t.aborted[y] = s.aborted[y]
    /\ t.known[y] = s.known[y] /\ t.resumed[y] = s.resumed[y] /\ t.again[y] = s.again[y]

\* The row of y.
RowIs(t, y, pause, worker, gone, tries, asked, timers, refs,
      canceled, aborted, known, resumed, again) ==
    /\ t.pause[y] = pause /\ t.worker[y] = worker /\ t.gone[y] = gone
    /\ t.tries[y] = tries /\ t.asked[y] = asked /\ t.timers[y] = timers
    /\ t.refs[y] = refs /\ t.canceled[y] = canceled /\ t.aborted[y] = aborted
    /\ t.known[y] = known /\ t.resumed[y] = resumed /\ t.again[y] = again

\* t differs from s in the row of x only.
Others(s, t, x) == \A y \in Xfers : y # x => SameRow(s, t, y)

\* The updates the calls are made of that have no name of their own.
Resumed(s, x) ==
    [s EXCEPT !.pause[x] = "Asked", !.gone[x] = ~Folder(x),
              !.resumed[x] = (Kind[x] = "putfolder")]
Latched(s, x) == [s EXCEPT !.gone[x] = TRUE]
Unlinked(s, x) ==
    [s EXCEPT !.list = RemoveAt(@, Place(s, x)), !.pause[x] = "None",
              !.tries[x] = NoTries, !.refs[x] = @ - 1]
Cancelled(s, x) == [s EXCEPT !.canceled[x] = TRUE, !.aborted[x] = TRUE]
Held(s, x, p) == [s EXCEPT !.pause[x] = p, !.aborted[x] = FALSE]
Runs(s, x) == [s EXCEPT !.worker[x] = "run", !.refs[x] = @ + 1]
Knows(s, x) == [s EXCEPT !.known[x] = TRUE]
WorkerIs(s, x, out) == [s EXCEPT !.worker[x] = out]
OnceMore(s, x) == [s EXCEPT !.again[x] = @ + 1, !.pause[x] = "Paused"]
Short(s, x, p) == [s EXCEPT !.pause[x] = p, !.again[x] = 0]
Fired(s, x) == [s EXCEPT !.timers[x] = @ - 1]
Linked(s, x) == [s EXCEPT !.list = Append(@, x), !.refs[x] = 1]
Winds(s, x) == [s EXCEPT !.pause[x] = "Winding", !.aborted[x] = TRUE]

\* set_pause.
LEMMA SetPauseRow ==
    ASSUME NEW s \in Queues, NEW x \in Xfers, NEW p \in Pauses
    PROVE  /\ SetPause(s, x, p) \in Queues /\ SetPause(s, x, p).list = s.list
           /\ Others(s, SetPause(s, x, p), x)
           /\ RowIs(SetPause(s, x, p), x, p, s.worker[x], s.gone[x], s.tries[x],
                    s.asked[x], s.timers[x], s.refs[x], s.canceled[x],
                    s.aborted[x], s.known[x], s.resumed[x], s.again[x])
<1> DEFINE t == SetPause(s, x, p)
<1>1. /\ t.list = s.list
      /\ t.pause = [s.pause EXCEPT ![x] = p]
      /\ t.worker = s.worker
      /\ t.gone = s.gone
      /\ t.tries = s.tries
      /\ t.asked = s.asked
      /\ t.timers = s.timers
      /\ t.refs = s.refs
      /\ t.canceled = s.canceled
      /\ t.aborted = s.aborted
      /\ t.known = s.known
      /\ t.resumed = s.resumed
      /\ t.again = s.again
  BY DEF SetPause, Queues
<1>2. /\ s.pause \in [Xfers -> Pauses] /\ s.worker \in [Xfers -> Workers]
      /\ s.gone \in [Xfers -> BOOLEAN] /\ s.tries \in [Xfers -> Int]
      /\ s.asked \in [Xfers -> Int] /\ s.timers \in [Xfers -> Int]
      /\ s.refs \in [Xfers -> Int] /\ s.canceled \in [Xfers -> BOOLEAN]
      /\ s.aborted \in [Xfers -> BOOLEAN] /\ s.known \in [Xfers -> BOOLEAN]
      /\ s.resumed \in [Xfers -> BOOLEAN] /\ s.again \in [Xfers -> Int]
  BY DEF Queues
<1> HIDE DEF t
<1>3. t.pause \in [Xfers -> Pauses]
  BY <1>1, <1>2 DEF Pauses, Workers, NoTries
<1>4. t = [s EXCEPT !.pause = t.pause]
  BY <1>1 DEF t, SetPause, Queues
<1>5. t \in Queues
  BY <1>3, <1>4 DEF Queues
<1>6. Others(s, t, x)
  BY <1>1, <1>2 DEF Others, SameRow
<1>7. RowIs(t, x, p, s.worker[x], s.gone[x], s.tries[x],
            s.asked[x], s.timers[x], s.refs[x], s.canceled[x],
            s.aborted[x], s.known[x], s.resumed[x], s.again[x])
  BY <1>1, <1>2 DEF RowIs
<1> QED BY <1>1, <1>5, <1>6, <1>7 DEF t

\* set_tries.
LEMMA SetTriesRow ==
    ASSUME NEW s \in Queues, NEW x \in Xfers, NEW n \in Int
    PROVE  /\ SetTries(s, x, n) \in Queues /\ SetTries(s, x, n).list = s.list
           /\ Others(s, SetTries(s, x, n), x)
           /\ RowIs(SetTries(s, x, n), x, s.pause[x], s.worker[x], s.gone[x], n,
                    s.asked[x], s.timers[x], s.refs[x], s.canceled[x],
                    s.aborted[x], s.known[x], s.resumed[x], s.again[x])
<1> DEFINE t == SetTries(s, x, n)
<1>1. /\ t.list = s.list
      /\ t.pause = s.pause
      /\ t.worker = s.worker
      /\ t.gone = s.gone
      /\ t.tries = [s.tries EXCEPT ![x] = n]
      /\ t.asked = s.asked
      /\ t.timers = s.timers
      /\ t.refs = s.refs
      /\ t.canceled = s.canceled
      /\ t.aborted = s.aborted
      /\ t.known = s.known
      /\ t.resumed = s.resumed
      /\ t.again = s.again
  BY DEF SetTries, Queues
<1>2. /\ s.pause \in [Xfers -> Pauses] /\ s.worker \in [Xfers -> Workers]
      /\ s.gone \in [Xfers -> BOOLEAN] /\ s.tries \in [Xfers -> Int]
      /\ s.asked \in [Xfers -> Int] /\ s.timers \in [Xfers -> Int]
      /\ s.refs \in [Xfers -> Int] /\ s.canceled \in [Xfers -> BOOLEAN]
      /\ s.aborted \in [Xfers -> BOOLEAN] /\ s.known \in [Xfers -> BOOLEAN]
      /\ s.resumed \in [Xfers -> BOOLEAN] /\ s.again \in [Xfers -> Int]
  BY DEF Queues
<1> HIDE DEF t
<1>3. t.tries \in [Xfers -> Int]
  BY <1>1, <1>2 DEF Pauses, Workers, NoTries
<1>4. t = [s EXCEPT !.tries = t.tries]
  BY <1>1 DEF t, SetTries, Queues
<1>5. t \in Queues
  BY <1>3, <1>4 DEF Queues
<1>6. Others(s, t, x)
  BY <1>1, <1>2 DEF Others, SameRow
<1>7. RowIs(t, x, s.pause[x], s.worker[x], s.gone[x], n,
            s.asked[x], s.timers[x], s.refs[x], s.canceled[x],
            s.aborted[x], s.known[x], s.resumed[x], s.again[x])
  BY <1>1, <1>2 DEF RowIs
<1> QED BY <1>1, <1>5, <1>6, <1>7 DEF t

\* A request goes out.
LEMMA AskRow ==
    ASSUME NEW s \in Queues, NEW x \in Xfers
    PROVE  /\ Ask(s, x) \in Queues /\ Ask(s, x).list = s.list
           /\ Others(s, Ask(s, x), x)
           /\ RowIs(Ask(s, x), x, s.pause[x], s.worker[x], s.gone[x], s.tries[x],
                    s.asked[x] + 1, s.timers[x], s.refs[x] + 1, s.canceled[x],
                    s.aborted[x], s.known[x], s.resumed[x], s.again[x])
<1> DEFINE t == Ask(s, x)
<1>1. /\ t.list = s.list
      /\ t.pause = s.pause
      /\ t.worker = s.worker
      /\ t.gone = s.gone
      /\ t.tries = s.tries
      /\ t.asked = [s.asked EXCEPT ![x] = s.asked[x] + 1]
      /\ t.timers = s.timers
      /\ t.refs = [s.refs EXCEPT ![x] = s.refs[x] + 1]
      /\ t.canceled = s.canceled
      /\ t.aborted = s.aborted
      /\ t.known = s.known
      /\ t.resumed = s.resumed
      /\ t.again = s.again
  BY DEF Ask, Queues
<1>2. /\ s.pause \in [Xfers -> Pauses] /\ s.worker \in [Xfers -> Workers]
      /\ s.gone \in [Xfers -> BOOLEAN] /\ s.tries \in [Xfers -> Int]
      /\ s.asked \in [Xfers -> Int] /\ s.timers \in [Xfers -> Int]
      /\ s.refs \in [Xfers -> Int] /\ s.canceled \in [Xfers -> BOOLEAN]
      /\ s.aborted \in [Xfers -> BOOLEAN] /\ s.known \in [Xfers -> BOOLEAN]
      /\ s.resumed \in [Xfers -> BOOLEAN] /\ s.again \in [Xfers -> Int]
  BY DEF Queues
<1> HIDE DEF t
<1>3. t.asked \in [Xfers -> Int] /\ t.refs \in [Xfers -> Int]
  BY <1>1, <1>2 DEF Pauses, Workers, NoTries
<1>4. t = [s EXCEPT !.asked = t.asked, !.refs = t.refs]
  BY <1>1 DEF t, Ask, Queues
<1>5. t \in Queues
  BY <1>3, <1>4 DEF Queues
<1>6. Others(s, t, x)
  BY <1>1, <1>2 DEF Others, SameRow
<1>7. RowIs(t, x, s.pause[x], s.worker[x], s.gone[x], s.tries[x],
            s.asked[x] + 1, s.timers[x], s.refs[x] + 1, s.canceled[x],
            s.aborted[x], s.known[x], s.resumed[x], s.again[x])
  BY <1>1, <1>2 DEF RowIs
<1> QED BY <1>1, <1>5, <1>6, <1>7 DEF t

\* A settled pause is resumed.
LEMMA ResumedRow ==
    ASSUME NEW s \in Queues, NEW x \in Xfers
    PROVE  /\ Resumed(s, x) \in Queues /\ Resumed(s, x).list = s.list
           /\ Others(s, Resumed(s, x), x)
           /\ RowIs(Resumed(s, x), x, "Asked", s.worker[x], ~Folder(x), s.tries[x],
                    s.asked[x], s.timers[x], s.refs[x], s.canceled[x],
                    s.aborted[x], s.known[x], (Kind[x] = "putfolder"), s.again[x])
<1> DEFINE t == Resumed(s, x)
<1>1. /\ t.list = s.list
      /\ t.pause = [s.pause EXCEPT ![x] = "Asked"]
      /\ t.worker = s.worker
      /\ t.gone = [s.gone EXCEPT ![x] = ~Folder(x)]
      /\ t.tries = s.tries
      /\ t.asked = s.asked
      /\ t.timers = s.timers
      /\ t.refs = s.refs
      /\ t.canceled = s.canceled
      /\ t.aborted = s.aborted
      /\ t.known = s.known
      /\ t.resumed = [s.resumed EXCEPT ![x] = (Kind[x] = "putfolder")]
      /\ t.again = s.again
  BY DEF Resumed, Queues
<1>2. /\ s.pause \in [Xfers -> Pauses] /\ s.worker \in [Xfers -> Workers]
      /\ s.gone \in [Xfers -> BOOLEAN] /\ s.tries \in [Xfers -> Int]
      /\ s.asked \in [Xfers -> Int] /\ s.timers \in [Xfers -> Int]
      /\ s.refs \in [Xfers -> Int] /\ s.canceled \in [Xfers -> BOOLEAN]
      /\ s.aborted \in [Xfers -> BOOLEAN] /\ s.known \in [Xfers -> BOOLEAN]
      /\ s.resumed \in [Xfers -> BOOLEAN] /\ s.again \in [Xfers -> Int]
  BY DEF Queues
<1> HIDE DEF t
<1>3. /\ t.pause \in [Xfers -> Pauses] /\ t.gone \in [Xfers -> BOOLEAN]
      /\ t.resumed \in [Xfers -> BOOLEAN]
  BY <1>1, <1>2 DEF Pauses, Workers, NoTries
<1>4. t = [s EXCEPT !.pause = t.pause, !.gone = t.gone, !.resumed = t.resumed]
  BY <1>1 DEF t, Resumed, Queues
<1>5. t \in Queues
  BY <1>3, <1>4 DEF Queues
<1>6. Others(s, t, x)
  BY <1>1, <1>2 DEF Others, SameRow
<1>7. RowIs(t, x, "Asked", s.worker[x], ~Folder(x), s.tries[x],
            s.asked[x], s.timers[x], s.refs[x], s.canceled[x],
            s.aborted[x], s.known[x], (Kind[x] = "putfolder"), s.again[x])
  BY <1>1, <1>2 DEF RowIs
<1> QED BY <1>1, <1>5, <1>6, <1>7 DEF t

\* The latch is set.
LEMMA LatchedRow ==
    ASSUME NEW s \in Queues, NEW x \in Xfers
    PROVE  /\ Latched(s, x) \in Queues /\ Latched(s, x).list = s.list
           /\ Others(s, Latched(s, x), x)
           /\ RowIs(Latched(s, x), x, s.pause[x], s.worker[x], TRUE, s.tries[x],
                    s.asked[x], s.timers[x], s.refs[x], s.canceled[x],
                    s.aborted[x], s.known[x], s.resumed[x], s.again[x])
<1> DEFINE t == Latched(s, x)
<1>1. /\ t.list = s.list
      /\ t.pause = s.pause
      /\ t.worker = s.worker
      /\ t.gone = [s.gone EXCEPT ![x] = TRUE]
      /\ t.tries = s.tries
      /\ t.asked = s.asked
      /\ t.timers = s.timers
      /\ t.refs = s.refs
      /\ t.canceled = s.canceled
      /\ t.aborted = s.aborted
      /\ t.known = s.known
      /\ t.resumed = s.resumed
      /\ t.again = s.again
  BY DEF Latched, Queues
<1>2. /\ s.pause \in [Xfers -> Pauses] /\ s.worker \in [Xfers -> Workers]
      /\ s.gone \in [Xfers -> BOOLEAN] /\ s.tries \in [Xfers -> Int]
      /\ s.asked \in [Xfers -> Int] /\ s.timers \in [Xfers -> Int]
      /\ s.refs \in [Xfers -> Int] /\ s.canceled \in [Xfers -> BOOLEAN]
      /\ s.aborted \in [Xfers -> BOOLEAN] /\ s.known \in [Xfers -> BOOLEAN]
      /\ s.resumed \in [Xfers -> BOOLEAN] /\ s.again \in [Xfers -> Int]
  BY DEF Queues
<1> HIDE DEF t
<1>3. t.gone \in [Xfers -> BOOLEAN]
  BY <1>1, <1>2 DEF Pauses, Workers, NoTries
<1>4. t = [s EXCEPT !.gone = t.gone]
  BY <1>1 DEF t, Latched, Queues
<1>5. t \in Queues
  BY <1>3, <1>4 DEF Queues
<1>6. Others(s, t, x)
  BY <1>1, <1>2 DEF Others, SameRow
<1>7. RowIs(t, x, s.pause[x], s.worker[x], TRUE, s.tries[x],
            s.asked[x], s.timers[x], s.refs[x], s.canceled[x],
            s.aborted[x], s.known[x], s.resumed[x], s.again[x])
  BY <1>1, <1>2 DEF RowIs
<1> QED BY <1>1, <1>5, <1>6, <1>7 DEF t

\* A transfer leaves the list.
LEMMA UnlinkedRow ==
    ASSUME NEW s \in Queues, NEW x \in Xfers,
           RemoveAt(s.list, Place(s, x)) \in Seq(Xfers)
    PROVE  /\ Unlinked(s, x) \in Queues /\ Unlinked(s, x).list = RemoveAt(s.list, Place(s, x))
           /\ Others(s, Unlinked(s, x), x)
           /\ RowIs(Unlinked(s, x), x, "None", s.worker[x], s.gone[x], NoTries,
                    s.asked[x], s.timers[x], s.refs[x] - 1, s.canceled[x],
                    s.aborted[x], s.known[x], s.resumed[x], s.again[x])
<1> DEFINE t == Unlinked(s, x)
<1>1. /\ t.list = RemoveAt(s.list, Place(s, x))
      /\ t.pause = [s.pause EXCEPT ![x] = "None"]
      /\ t.worker = s.worker
      /\ t.gone = s.gone
      /\ t.tries = [s.tries EXCEPT ![x] = NoTries]
      /\ t.asked = s.asked
      /\ t.timers = s.timers
      /\ t.refs = [s.refs EXCEPT ![x] = s.refs[x] - 1]
      /\ t.canceled = s.canceled
      /\ t.aborted = s.aborted
      /\ t.known = s.known
      /\ t.resumed = s.resumed
      /\ t.again = s.again
  BY DEF Unlinked, Queues
<1>2. /\ s.pause \in [Xfers -> Pauses] /\ s.worker \in [Xfers -> Workers]
      /\ s.gone \in [Xfers -> BOOLEAN] /\ s.tries \in [Xfers -> Int]
      /\ s.asked \in [Xfers -> Int] /\ s.timers \in [Xfers -> Int]
      /\ s.refs \in [Xfers -> Int] /\ s.canceled \in [Xfers -> BOOLEAN]
      /\ s.aborted \in [Xfers -> BOOLEAN] /\ s.known \in [Xfers -> BOOLEAN]
      /\ s.resumed \in [Xfers -> BOOLEAN] /\ s.again \in [Xfers -> Int]
  BY DEF Queues
<1> HIDE DEF t
<1>3. t.pause \in [Xfers -> Pauses] /\ t.tries \in [Xfers -> Int] /\ t.refs \in [Xfers -> Int]
  BY <1>1, <1>2 DEF Pauses, Workers, NoTries
<1>4. t = [s EXCEPT !.list = RemoveAt(s.list, Place(s, x)), !.pause = t.pause, !.tries = t.tries,
                    !.refs = t.refs]
  BY <1>1 DEF t, Unlinked, Queues
<1>5. t \in Queues
  BY <1>3, <1>4 DEF Queues
<1>6. Others(s, t, x)
  BY <1>1, <1>2 DEF Others, SameRow
<1>7. RowIs(t, x, "None", s.worker[x], s.gone[x], NoTries,
            s.asked[x], s.timers[x], s.refs[x] - 1, s.canceled[x],
            s.aborted[x], s.known[x], s.resumed[x], s.again[x])
  BY <1>1, <1>2 DEF RowIs
<1> QED BY <1>1, <1>5, <1>6, <1>7 DEF t

\* The cancel flag and the token.
LEMMA CancelledRow ==
    ASSUME NEW s \in Queues, NEW x \in Xfers
    PROVE  /\ Cancelled(s, x) \in Queues /\ Cancelled(s, x).list = s.list
           /\ Others(s, Cancelled(s, x), x)
           /\ RowIs(Cancelled(s, x), x, s.pause[x], s.worker[x], s.gone[x], s.tries[x],
                    s.asked[x], s.timers[x], s.refs[x], TRUE,
                    TRUE, s.known[x], s.resumed[x], s.again[x])
<1> DEFINE t == Cancelled(s, x)
<1>1. /\ t.list = s.list
      /\ t.pause = s.pause
      /\ t.worker = s.worker
      /\ t.gone = s.gone
      /\ t.tries = s.tries
      /\ t.asked = s.asked
      /\ t.timers = s.timers
      /\ t.refs = s.refs
      /\ t.canceled = [s.canceled EXCEPT ![x] = TRUE]
      /\ t.aborted = [s.aborted EXCEPT ![x] = TRUE]
      /\ t.known = s.known
      /\ t.resumed = s.resumed
      /\ t.again = s.again
  BY DEF Cancelled, Queues
<1>2. /\ s.pause \in [Xfers -> Pauses] /\ s.worker \in [Xfers -> Workers]
      /\ s.gone \in [Xfers -> BOOLEAN] /\ s.tries \in [Xfers -> Int]
      /\ s.asked \in [Xfers -> Int] /\ s.timers \in [Xfers -> Int]
      /\ s.refs \in [Xfers -> Int] /\ s.canceled \in [Xfers -> BOOLEAN]
      /\ s.aborted \in [Xfers -> BOOLEAN] /\ s.known \in [Xfers -> BOOLEAN]
      /\ s.resumed \in [Xfers -> BOOLEAN] /\ s.again \in [Xfers -> Int]
  BY DEF Queues
<1> HIDE DEF t
<1>3. t.canceled \in [Xfers -> BOOLEAN] /\ t.aborted \in [Xfers -> BOOLEAN]
  BY <1>1, <1>2 DEF Pauses, Workers, NoTries
<1>4. t = [s EXCEPT !.canceled = t.canceled, !.aborted = t.aborted]
  BY <1>1 DEF t, Cancelled, Queues
<1>5. t \in Queues
  BY <1>3, <1>4 DEF Queues
<1>6. Others(s, t, x)
  BY <1>1, <1>2 DEF Others, SameRow
<1>7. RowIs(t, x, s.pause[x], s.worker[x], s.gone[x], s.tries[x],
            s.asked[x], s.timers[x], s.refs[x], TRUE,
            TRUE, s.known[x], s.resumed[x], s.again[x])
  BY <1>1, <1>2 DEF RowIs
<1> QED BY <1>1, <1>5, <1>6, <1>7 DEF t

\* A pause with a new token.
LEMMA HeldRow ==
    ASSUME NEW s \in Queues, NEW x \in Xfers, NEW p \in Pauses
    PROVE  /\ Held(s, x, p) \in Queues /\ Held(s, x, p).list = s.list
           /\ Others(s, Held(s, x, p), x)
           /\ RowIs(Held(s, x, p), x, p, s.worker[x], s.gone[x], s.tries[x],
                    s.asked[x], s.timers[x], s.refs[x], s.canceled[x],
                    FALSE, s.known[x], s.resumed[x], s.again[x])
<1> DEFINE t == Held(s, x, p)
<1>1. /\ t.list = s.list
      /\ t.pause = [s.pause EXCEPT ![x] = p]
      /\ t.worker = s.worker
      /\ t.gone = s.gone
      /\ t.tries = s.tries
      /\ t.asked = s.asked
      /\ t.timers = s.timers
      /\ t.refs = s.refs
      /\ t.canceled = s.canceled
      /\ t.aborted = [s.aborted EXCEPT ![x] = FALSE]
      /\ t.known = s.known
      /\ t.resumed = s.resumed
      /\ t.again = s.again
  BY DEF Held, Queues
<1>2. /\ s.pause \in [Xfers -> Pauses] /\ s.worker \in [Xfers -> Workers]
      /\ s.gone \in [Xfers -> BOOLEAN] /\ s.tries \in [Xfers -> Int]
      /\ s.asked \in [Xfers -> Int] /\ s.timers \in [Xfers -> Int]
      /\ s.refs \in [Xfers -> Int] /\ s.canceled \in [Xfers -> BOOLEAN]
      /\ s.aborted \in [Xfers -> BOOLEAN] /\ s.known \in [Xfers -> BOOLEAN]
      /\ s.resumed \in [Xfers -> BOOLEAN] /\ s.again \in [Xfers -> Int]
  BY DEF Queues
<1> HIDE DEF t
<1>3. t.pause \in [Xfers -> Pauses] /\ t.aborted \in [Xfers -> BOOLEAN]
  BY <1>1, <1>2 DEF Pauses, Workers, NoTries
<1>4. t = [s EXCEPT !.pause = t.pause, !.aborted = t.aborted]
  BY <1>1 DEF t, Held, Queues
<1>5. t \in Queues
  BY <1>3, <1>4 DEF Queues
<1>6. Others(s, t, x)
  BY <1>1, <1>2 DEF Others, SameRow
<1>7. RowIs(t, x, p, s.worker[x], s.gone[x], s.tries[x],
            s.asked[x], s.timers[x], s.refs[x], s.canceled[x],
            FALSE, s.known[x], s.resumed[x], s.again[x])
  BY <1>1, <1>2 DEF RowIs
<1> QED BY <1>1, <1>5, <1>6, <1>7 DEF t

\* A worker starts.
LEMMA RunsRow ==
    ASSUME NEW s \in Queues, NEW x \in Xfers
    PROVE  /\ Runs(s, x) \in Queues /\ Runs(s, x).list = s.list
           /\ Others(s, Runs(s, x), x)
           /\ RowIs(Runs(s, x), x, s.pause[x], "run", s.gone[x], s.tries[x],
                    s.asked[x], s.timers[x], s.refs[x] + 1, s.canceled[x],
                    s.aborted[x], s.known[x], s.resumed[x], s.again[x])
<1> DEFINE t == Runs(s, x)
<1>1. /\ t.list = s.list
      /\ t.pause = s.pause
      /\ t.worker = [s.worker EXCEPT ![x] = "run"]
      /\ t.gone = s.gone
      /\ t.tries = s.tries
      /\ t.asked = s.asked
      /\ t.timers = s.timers
      /\ t.refs = [s.refs EXCEPT ![x] = s.refs[x] + 1]
      /\ t.canceled = s.canceled
      /\ t.aborted = s.aborted
      /\ t.known = s.known
      /\ t.resumed = s.resumed
      /\ t.again = s.again
  BY DEF Runs, Queues
<1>2. /\ s.pause \in [Xfers -> Pauses] /\ s.worker \in [Xfers -> Workers]
      /\ s.gone \in [Xfers -> BOOLEAN] /\ s.tries \in [Xfers -> Int]
      /\ s.asked \in [Xfers -> Int] /\ s.timers \in [Xfers -> Int]
      /\ s.refs \in [Xfers -> Int] /\ s.canceled \in [Xfers -> BOOLEAN]
      /\ s.aborted \in [Xfers -> BOOLEAN] /\ s.known \in [Xfers -> BOOLEAN]
      /\ s.resumed \in [Xfers -> BOOLEAN] /\ s.again \in [Xfers -> Int]
  BY DEF Queues
<1> HIDE DEF t
<1>3. t.worker \in [Xfers -> Workers] /\ t.refs \in [Xfers -> Int]
  BY <1>1, <1>2 DEF Pauses, Workers, NoTries
<1>4. t = [s EXCEPT !.worker = t.worker, !.refs = t.refs]
  BY <1>1 DEF t, Runs, Queues
<1>5. t \in Queues
  BY <1>3, <1>4 DEF Queues
<1>6. Others(s, t, x)
  BY <1>1, <1>2 DEF Others, SameRow
<1>7. RowIs(t, x, s.pause[x], "run", s.gone[x], s.tries[x],
            s.asked[x], s.timers[x], s.refs[x] + 1, s.canceled[x],
            s.aborted[x], s.known[x], s.resumed[x], s.again[x])
  BY <1>1, <1>2 DEF RowIs
<1> QED BY <1>1, <1>5, <1>6, <1>7 DEF t

\* An answer.
LEMMA AnsweredRow ==
    ASSUME NEW s \in Queues, NEW x \in Xfers
    PROVE  /\ Answered(s, x) \in Queues /\ Answered(s, x).list = s.list
           /\ Others(s, Answered(s, x), x)
           /\ RowIs(Answered(s, x), x, (IF s.pause[x] \in {"Asked", "Restarted"} THEN "None" ELSE s.pause[x]), s.worker[x], s.gone[x], NoTries,
                    s.asked[x], s.timers[x], s.refs[x], s.canceled[x],
                    s.aborted[x], s.known[x], (s.resumed[x] /\ s.pause[x] # "Restarted"), (IF s.pause[x] = "Restarted" THEN 0 ELSE s.again[x]))
<1> DEFINE t == Answered(s, x)
<1>1. /\ t.list = s.list
      /\ t.pause = [s.pause EXCEPT ![x] = (IF s.pause[x] \in {"Asked", "Restarted"} THEN "None" ELSE s.pause[x])]
      /\ t.worker = s.worker
      /\ t.gone = s.gone
      /\ t.tries = [s.tries EXCEPT ![x] = NoTries]
      /\ t.asked = s.asked
      /\ t.timers = s.timers
      /\ t.refs = s.refs
      /\ t.canceled = s.canceled
      /\ t.aborted = s.aborted
      /\ t.known = s.known
      /\ t.resumed = [s.resumed EXCEPT ![x] = (s.resumed[x] /\ s.pause[x] # "Restarted")]
      /\ t.again = [s.again EXCEPT ![x] = (IF s.pause[x] = "Restarted" THEN 0 ELSE s.again[x])]
  BY DEF Answered, Queues
<1>2. /\ s.pause \in [Xfers -> Pauses] /\ s.worker \in [Xfers -> Workers]
      /\ s.gone \in [Xfers -> BOOLEAN] /\ s.tries \in [Xfers -> Int]
      /\ s.asked \in [Xfers -> Int] /\ s.timers \in [Xfers -> Int]
      /\ s.refs \in [Xfers -> Int] /\ s.canceled \in [Xfers -> BOOLEAN]
      /\ s.aborted \in [Xfers -> BOOLEAN] /\ s.known \in [Xfers -> BOOLEAN]
      /\ s.resumed \in [Xfers -> BOOLEAN] /\ s.again \in [Xfers -> Int]
  BY DEF Queues
<1> HIDE DEF t
<1>3. /\ t.pause \in [Xfers -> Pauses] /\ t.tries \in [Xfers -> Int]
      /\ t.resumed \in [Xfers -> BOOLEAN] /\ t.again \in [Xfers -> Int]
  BY <1>1, <1>2 DEF Pauses, Workers, NoTries
<1>4. t = [s EXCEPT !.pause = t.pause, !.tries = t.tries, !.resumed = t.resumed, !.again = t.again]
  BY <1>1 DEF t, Answered, Queues
<1>5. t \in Queues
  BY <1>3, <1>4 DEF Queues
<1>6. Others(s, t, x)
  BY <1>1, <1>2 DEF Others, SameRow
<1>7. RowIs(t, x, (IF s.pause[x] \in {"Asked", "Restarted"} THEN "None" ELSE s.pause[x]), s.worker[x], s.gone[x], NoTries,
            s.asked[x], s.timers[x], s.refs[x], s.canceled[x],
            s.aborted[x], s.known[x], (s.resumed[x] /\ s.pause[x] # "Restarted"), (IF s.pause[x] = "Restarted" THEN 0 ELSE s.again[x]))
  BY <1>1, <1>2 DEF RowIs
<1> QED BY <1>1, <1>5, <1>6, <1>7 DEF t

\* A reference.
LEMMA KnowsRow ==
    ASSUME NEW s \in Queues, NEW x \in Xfers
    PROVE  /\ Knows(s, x) \in Queues /\ Knows(s, x).list = s.list
           /\ Others(s, Knows(s, x), x)
           /\ RowIs(Knows(s, x), x, s.pause[x], s.worker[x], s.gone[x], s.tries[x],
                    s.asked[x], s.timers[x], s.refs[x], s.canceled[x],
                    s.aborted[x], TRUE, s.resumed[x], s.again[x])
<1> DEFINE t == Knows(s, x)
<1>1. /\ t.list = s.list
      /\ t.pause = s.pause
      /\ t.worker = s.worker
      /\ t.gone = s.gone
      /\ t.tries = s.tries
      /\ t.asked = s.asked
      /\ t.timers = s.timers
      /\ t.refs = s.refs
      /\ t.canceled = s.canceled
      /\ t.aborted = s.aborted
      /\ t.known = [s.known EXCEPT ![x] = TRUE]
      /\ t.resumed = s.resumed
      /\ t.again = s.again
  BY DEF Knows, Queues
<1>2. /\ s.pause \in [Xfers -> Pauses] /\ s.worker \in [Xfers -> Workers]
      /\ s.gone \in [Xfers -> BOOLEAN] /\ s.tries \in [Xfers -> Int]
      /\ s.asked \in [Xfers -> Int] /\ s.timers \in [Xfers -> Int]
      /\ s.refs \in [Xfers -> Int] /\ s.canceled \in [Xfers -> BOOLEAN]
      /\ s.aborted \in [Xfers -> BOOLEAN] /\ s.known \in [Xfers -> BOOLEAN]
      /\ s.resumed \in [Xfers -> BOOLEAN] /\ s.again \in [Xfers -> Int]
  BY DEF Queues
<1> HIDE DEF t
<1>3. t.known \in [Xfers -> BOOLEAN]
  BY <1>1, <1>2 DEF Pauses, Workers, NoTries
<1>4. t = [s EXCEPT !.known = t.known]
  BY <1>1 DEF t, Knows, Queues
<1>5. t \in Queues
  BY <1>3, <1>4 DEF Queues
<1>6. Others(s, t, x)
  BY <1>1, <1>2 DEF Others, SameRow
<1>7. RowIs(t, x, s.pause[x], s.worker[x], s.gone[x], s.tries[x],
            s.asked[x], s.timers[x], s.refs[x], s.canceled[x],
            s.aborted[x], TRUE, s.resumed[x], s.again[x])
  BY <1>1, <1>2 DEF RowIs
<1> QED BY <1>1, <1>5, <1>6, <1>7 DEF t

\* Back to queued.
LEMMA QueuedRefusedRow ==
    ASSUME NEW s \in Queues, NEW x \in Xfers
    PROVE  /\ QueuedRefused(s, x) \in Queues /\ QueuedRefused(s, x).list = s.list
           /\ Others(s, QueuedRefused(s, x), x)
           /\ RowIs(QueuedRefused(s, x), x, s.pause[x], s.worker[x], FALSE, s.tries[x] + 1,
                    s.asked[x], s.timers[x] + 1, s.refs[x] + 1, s.canceled[x],
                    s.aborted[x], s.known[x], s.resumed[x], s.again[x])
<1> DEFINE t == QueuedRefused(s, x)
<1>1. /\ t.list = s.list
      /\ t.pause = s.pause
      /\ t.worker = s.worker
      /\ t.gone = [s.gone EXCEPT ![x] = FALSE]
      /\ t.tries = [s.tries EXCEPT ![x] = s.tries[x] + 1]
      /\ t.asked = s.asked
      /\ t.timers = [s.timers EXCEPT ![x] = s.timers[x] + 1]
      /\ t.refs = [s.refs EXCEPT ![x] = s.refs[x] + 1]
      /\ t.canceled = s.canceled
      /\ t.aborted = s.aborted
      /\ t.known = s.known
      /\ t.resumed = s.resumed
      /\ t.again = s.again
  BY DEF QueuedRefused, Queues
<1>2. /\ s.pause \in [Xfers -> Pauses] /\ s.worker \in [Xfers -> Workers]
      /\ s.gone \in [Xfers -> BOOLEAN] /\ s.tries \in [Xfers -> Int]
      /\ s.asked \in [Xfers -> Int] /\ s.timers \in [Xfers -> Int]
      /\ s.refs \in [Xfers -> Int] /\ s.canceled \in [Xfers -> BOOLEAN]
      /\ s.aborted \in [Xfers -> BOOLEAN] /\ s.known \in [Xfers -> BOOLEAN]
      /\ s.resumed \in [Xfers -> BOOLEAN] /\ s.again \in [Xfers -> Int]
  BY DEF Queues
<1> HIDE DEF t
<1>3. /\ t.gone \in [Xfers -> BOOLEAN] /\ t.tries \in [Xfers -> Int]
      /\ t.timers \in [Xfers -> Int] /\ t.refs \in [Xfers -> Int]
  BY <1>1, <1>2 DEF Pauses, Workers, NoTries
<1>4. t = [s EXCEPT !.gone = t.gone, !.tries = t.tries, !.timers = t.timers, !.refs = t.refs]
  BY <1>1 DEF t, QueuedRefused, Queues
<1>5. t \in Queues
  BY <1>3, <1>4 DEF Queues
<1>6. Others(s, t, x)
  BY <1>1, <1>2 DEF Others, SameRow
<1>7. RowIs(t, x, s.pause[x], s.worker[x], FALSE, s.tries[x] + 1,
            s.asked[x], s.timers[x] + 1, s.refs[x] + 1, s.canceled[x],
            s.aborted[x], s.known[x], s.resumed[x], s.again[x])
  BY <1>1, <1>2 DEF RowIs
<1> QED BY <1>1, <1>5, <1>6, <1>7 DEF t

\* A holder lets go.
LEMMA UnrefRow ==
    ASSUME NEW s \in Queues, NEW x \in Xfers
    PROVE  /\ Unref(s, x) \in Queues /\ Unref(s, x).list = s.list
           /\ Others(s, Unref(s, x), x)
           /\ RowIs(Unref(s, x), x, s.pause[x], s.worker[x], s.gone[x], s.tries[x],
                    s.asked[x], s.timers[x], s.refs[x] - 1, s.canceled[x],
                    s.aborted[x], s.known[x], s.resumed[x], s.again[x])
<1> DEFINE t == Unref(s, x)
<1>1. /\ t.list = s.list
      /\ t.pause = s.pause
      /\ t.worker = s.worker
      /\ t.gone = s.gone
      /\ t.tries = s.tries
      /\ t.asked = s.asked
      /\ t.timers = s.timers
      /\ t.refs = [s.refs EXCEPT ![x] = s.refs[x] - 1]
      /\ t.canceled = s.canceled
      /\ t.aborted = s.aborted
      /\ t.known = s.known
      /\ t.resumed = s.resumed
      /\ t.again = s.again
  BY DEF Unref, Queues
<1>2. /\ s.pause \in [Xfers -> Pauses] /\ s.worker \in [Xfers -> Workers]
      /\ s.gone \in [Xfers -> BOOLEAN] /\ s.tries \in [Xfers -> Int]
      /\ s.asked \in [Xfers -> Int] /\ s.timers \in [Xfers -> Int]
      /\ s.refs \in [Xfers -> Int] /\ s.canceled \in [Xfers -> BOOLEAN]
      /\ s.aborted \in [Xfers -> BOOLEAN] /\ s.known \in [Xfers -> BOOLEAN]
      /\ s.resumed \in [Xfers -> BOOLEAN] /\ s.again \in [Xfers -> Int]
  BY DEF Queues
<1> HIDE DEF t
<1>3. t.refs \in [Xfers -> Int]
  BY <1>1, <1>2 DEF Pauses, Workers, NoTries
<1>4. t = [s EXCEPT !.refs = t.refs]
  BY <1>1 DEF t, Unref, Queues
<1>5. t \in Queues
  BY <1>3, <1>4 DEF Queues
<1>6. Others(s, t, x)
  BY <1>1, <1>2 DEF Others, SameRow
<1>7. RowIs(t, x, s.pause[x], s.worker[x], s.gone[x], s.tries[x],
            s.asked[x], s.timers[x], s.refs[x] - 1, s.canceled[x],
            s.aborted[x], s.known[x], s.resumed[x], s.again[x])
  BY <1>1, <1>2 DEF RowIs
<1> QED BY <1>1, <1>5, <1>6, <1>7 DEF t

\* A reply takes its entry.
LEMMA TakeAskedRow ==
    ASSUME NEW s \in Queues, NEW x \in Xfers
    PROVE  /\ TakeAsked(s, x) \in Queues /\ TakeAsked(s, x).list = s.list
           /\ Others(s, TakeAsked(s, x), x)
           /\ RowIs(TakeAsked(s, x), x, s.pause[x], s.worker[x], s.gone[x], s.tries[x],
                    s.asked[x] - 1, s.timers[x], s.refs[x], s.canceled[x],
                    s.aborted[x], s.known[x], s.resumed[x], s.again[x])
<1> DEFINE t == TakeAsked(s, x)
<1>1. /\ t.list = s.list
      /\ t.pause = s.pause
      /\ t.worker = s.worker
      /\ t.gone = s.gone
      /\ t.tries = s.tries
      /\ t.asked = [s.asked EXCEPT ![x] = s.asked[x] - 1]
      /\ t.timers = s.timers
      /\ t.refs = s.refs
      /\ t.canceled = s.canceled
      /\ t.aborted = s.aborted
      /\ t.known = s.known
      /\ t.resumed = s.resumed
      /\ t.again = s.again
  BY DEF TakeAsked, Queues
<1>2. /\ s.pause \in [Xfers -> Pauses] /\ s.worker \in [Xfers -> Workers]
      /\ s.gone \in [Xfers -> BOOLEAN] /\ s.tries \in [Xfers -> Int]
      /\ s.asked \in [Xfers -> Int] /\ s.timers \in [Xfers -> Int]
      /\ s.refs \in [Xfers -> Int] /\ s.canceled \in [Xfers -> BOOLEAN]
      /\ s.aborted \in [Xfers -> BOOLEAN] /\ s.known \in [Xfers -> BOOLEAN]
      /\ s.resumed \in [Xfers -> BOOLEAN] /\ s.again \in [Xfers -> Int]
  BY DEF Queues
<1> HIDE DEF t
<1>3. t.asked \in [Xfers -> Int]
  BY <1>1, <1>2 DEF Pauses, Workers, NoTries
<1>4. t = [s EXCEPT !.asked = t.asked]
  BY <1>1 DEF t, TakeAsked, Queues
<1>5. t \in Queues
  BY <1>3, <1>4 DEF Queues
<1>6. Others(s, t, x)
  BY <1>1, <1>2 DEF Others, SameRow
<1>7. RowIs(t, x, s.pause[x], s.worker[x], s.gone[x], s.tries[x],
            s.asked[x] - 1, s.timers[x], s.refs[x], s.canceled[x],
            s.aborted[x], s.known[x], s.resumed[x], s.again[x])
  BY <1>1, <1>2 DEF RowIs
<1> QED BY <1>1, <1>5, <1>6, <1>7 DEF t

\* A worker returns, or is cleaned up.
LEMMA WorkerIsRow ==
    ASSUME NEW s \in Queues, NEW x \in Xfers, NEW out \in Workers
    PROVE  /\ WorkerIs(s, x, out) \in Queues /\ WorkerIs(s, x, out).list = s.list
           /\ Others(s, WorkerIs(s, x, out), x)
           /\ RowIs(WorkerIs(s, x, out), x, s.pause[x], out, s.gone[x], s.tries[x],
                    s.asked[x], s.timers[x], s.refs[x], s.canceled[x],
                    s.aborted[x], s.known[x], s.resumed[x], s.again[x])
<1> DEFINE t == WorkerIs(s, x, out)
<1>1. /\ t.list = s.list
      /\ t.pause = s.pause
      /\ t.worker = [s.worker EXCEPT ![x] = out]
      /\ t.gone = s.gone
      /\ t.tries = s.tries
      /\ t.asked = s.asked
      /\ t.timers = s.timers
      /\ t.refs = s.refs
      /\ t.canceled = s.canceled
      /\ t.aborted = s.aborted
      /\ t.known = s.known
      /\ t.resumed = s.resumed
      /\ t.again = s.again
  BY DEF WorkerIs, Queues
<1>2. /\ s.pause \in [Xfers -> Pauses] /\ s.worker \in [Xfers -> Workers]
      /\ s.gone \in [Xfers -> BOOLEAN] /\ s.tries \in [Xfers -> Int]
      /\ s.asked \in [Xfers -> Int] /\ s.timers \in [Xfers -> Int]
      /\ s.refs \in [Xfers -> Int] /\ s.canceled \in [Xfers -> BOOLEAN]
      /\ s.aborted \in [Xfers -> BOOLEAN] /\ s.known \in [Xfers -> BOOLEAN]
      /\ s.resumed \in [Xfers -> BOOLEAN] /\ s.again \in [Xfers -> Int]
  BY DEF Queues
<1> HIDE DEF t
<1>3. t.worker \in [Xfers -> Workers]
  BY <1>1, <1>2 DEF Pauses, Workers, NoTries
<1>4. t = [s EXCEPT !.worker = t.worker]
  BY <1>1 DEF t, WorkerIs, Queues
<1>5. t \in Queues
  BY <1>3, <1>4 DEF Queues
<1>6. Others(s, t, x)
  BY <1>1, <1>2 DEF Others, SameRow
<1>7. RowIs(t, x, s.pause[x], out, s.gone[x], s.tries[x],
            s.asked[x], s.timers[x], s.refs[x], s.canceled[x],
            s.aborted[x], s.known[x], s.resumed[x], s.again[x])
  BY <1>1, <1>2 DEF RowIs
<1> QED BY <1>1, <1>5, <1>6, <1>7 DEF t

\* A folder upload about to ask again.
LEMMA OnceMoreRow ==
    ASSUME NEW s \in Queues, NEW x \in Xfers
    PROVE  /\ OnceMore(s, x) \in Queues /\ OnceMore(s, x).list = s.list
           /\ Others(s, OnceMore(s, x), x)
           /\ RowIs(OnceMore(s, x), x, "Paused", s.worker[x], s.gone[x], s.tries[x],
                    s.asked[x], s.timers[x], s.refs[x], s.canceled[x],
                    s.aborted[x], s.known[x], s.resumed[x], s.again[x] + 1)
<1> DEFINE t == OnceMore(s, x)
<1>1. /\ t.list = s.list
      /\ t.pause = [s.pause EXCEPT ![x] = "Paused"]
      /\ t.worker = s.worker
      /\ t.gone = s.gone
      /\ t.tries = s.tries
      /\ t.asked = s.asked
      /\ t.timers = s.timers
      /\ t.refs = s.refs
      /\ t.canceled = s.canceled
      /\ t.aborted = s.aborted
      /\ t.known = s.known
      /\ t.resumed = s.resumed
      /\ t.again = [s.again EXCEPT ![x] = s.again[x] + 1]
  BY DEF OnceMore, Queues
<1>2. /\ s.pause \in [Xfers -> Pauses] /\ s.worker \in [Xfers -> Workers]
      /\ s.gone \in [Xfers -> BOOLEAN] /\ s.tries \in [Xfers -> Int]
      /\ s.asked \in [Xfers -> Int] /\ s.timers \in [Xfers -> Int]
      /\ s.refs \in [Xfers -> Int] /\ s.canceled \in [Xfers -> BOOLEAN]
      /\ s.aborted \in [Xfers -> BOOLEAN] /\ s.known \in [Xfers -> BOOLEAN]
      /\ s.resumed \in [Xfers -> BOOLEAN] /\ s.again \in [Xfers -> Int]
  BY DEF Queues
<1> HIDE DEF t
<1>3. t.pause \in [Xfers -> Pauses] /\ t.again \in [Xfers -> Int]
  BY <1>1, <1>2 DEF Pauses, Workers, NoTries
<1>4. t = [s EXCEPT !.pause = t.pause, !.again = t.again]
  BY <1>1 DEF t, OnceMore, Queues
<1>5. t \in Queues
  BY <1>3, <1>4 DEF Queues
<1>6. Others(s, t, x)
  BY <1>1, <1>2 DEF Others, SameRow
<1>7. RowIs(t, x, "Paused", s.worker[x], s.gone[x], s.tries[x],
            s.asked[x], s.timers[x], s.refs[x], s.canceled[x],
            s.aborted[x], s.known[x], s.resumed[x], s.again[x] + 1)
  BY <1>1, <1>2 DEF RowIs
<1> QED BY <1>1, <1>5, <1>6, <1>7 DEF t

\* A folder upload that ended short.
LEMMA ShortRow ==
    ASSUME NEW s \in Queues, NEW x \in Xfers, NEW p \in Pauses
    PROVE  /\ Short(s, x, p) \in Queues /\ Short(s, x, p).list = s.list
           /\ Others(s, Short(s, x, p), x)
           /\ RowIs(Short(s, x, p), x, p, s.worker[x], s.gone[x], s.tries[x],
                    s.asked[x], s.timers[x], s.refs[x], s.canceled[x],
                    s.aborted[x], s.known[x], s.resumed[x], 0)
<1> DEFINE t == Short(s, x, p)
<1>1. /\ t.list = s.list
      /\ t.pause = [s.pause EXCEPT ![x] = p]
      /\ t.worker = s.worker
      /\ t.gone = s.gone
      /\ t.tries = s.tries
      /\ t.asked = s.asked
      /\ t.timers = s.timers
      /\ t.refs = s.refs
      /\ t.canceled = s.canceled
      /\ t.aborted = s.aborted
      /\ t.known = s.known
      /\ t.resumed = s.resumed
      /\ t.again = [s.again EXCEPT ![x] = 0]
  BY DEF Short, Queues
<1>2. /\ s.pause \in [Xfers -> Pauses] /\ s.worker \in [Xfers -> Workers]
      /\ s.gone \in [Xfers -> BOOLEAN] /\ s.tries \in [Xfers -> Int]
      /\ s.asked \in [Xfers -> Int] /\ s.timers \in [Xfers -> Int]
      /\ s.refs \in [Xfers -> Int] /\ s.canceled \in [Xfers -> BOOLEAN]
      /\ s.aborted \in [Xfers -> BOOLEAN] /\ s.known \in [Xfers -> BOOLEAN]
      /\ s.resumed \in [Xfers -> BOOLEAN] /\ s.again \in [Xfers -> Int]
  BY DEF Queues
<1> HIDE DEF t
<1>3. t.pause \in [Xfers -> Pauses] /\ t.again \in [Xfers -> Int]
  BY <1>1, <1>2 DEF Pauses, Workers, NoTries
<1>4. t = [s EXCEPT !.pause = t.pause, !.again = t.again]
  BY <1>1 DEF t, Short, Queues
<1>5. t \in Queues
  BY <1>3, <1>4 DEF Queues
<1>6. Others(s, t, x)
  BY <1>1, <1>2 DEF Others, SameRow
<1>7. RowIs(t, x, p, s.worker[x], s.gone[x], s.tries[x],
            s.asked[x], s.timers[x], s.refs[x], s.canceled[x],
            s.aborted[x], s.known[x], s.resumed[x], 0)
  BY <1>1, <1>2 DEF RowIs
<1> QED BY <1>1, <1>5, <1>6, <1>7 DEF t

\* A timer fires.
LEMMA FiredRow ==
    ASSUME NEW s \in Queues, NEW x \in Xfers
    PROVE  /\ Fired(s, x) \in Queues /\ Fired(s, x).list = s.list
           /\ Others(s, Fired(s, x), x)
           /\ RowIs(Fired(s, x), x, s.pause[x], s.worker[x], s.gone[x], s.tries[x],
                    s.asked[x], s.timers[x] - 1, s.refs[x], s.canceled[x],
                    s.aborted[x], s.known[x], s.resumed[x], s.again[x])
<1> DEFINE t == Fired(s, x)
<1>1. /\ t.list = s.list
      /\ t.pause = s.pause
      /\ t.worker = s.worker
      /\ t.gone = s.gone
      /\ t.tries = s.tries
      /\ t.asked = s.asked
      /\ t.timers = [s.timers EXCEPT ![x] = s.timers[x] - 1]
      /\ t.refs = s.refs
      /\ t.canceled = s.canceled
      /\ t.aborted = s.aborted
      /\ t.known = s.known
      /\ t.resumed = s.resumed
      /\ t.again = s.again
  BY DEF Fired, Queues
<1>2. /\ s.pause \in [Xfers -> Pauses] /\ s.worker \in [Xfers -> Workers]
      /\ s.gone \in [Xfers -> BOOLEAN] /\ s.tries \in [Xfers -> Int]
      /\ s.asked \in [Xfers -> Int] /\ s.timers \in [Xfers -> Int]
      /\ s.refs \in [Xfers -> Int] /\ s.canceled \in [Xfers -> BOOLEAN]
      /\ s.aborted \in [Xfers -> BOOLEAN] /\ s.known \in [Xfers -> BOOLEAN]
      /\ s.resumed \in [Xfers -> BOOLEAN] /\ s.again \in [Xfers -> Int]
  BY DEF Queues
<1> HIDE DEF t
<1>3. t.timers \in [Xfers -> Int]
  BY <1>1, <1>2 DEF Pauses, Workers, NoTries
<1>4. t = [s EXCEPT !.timers = t.timers]
  BY <1>1 DEF t, Fired, Queues
<1>5. t \in Queues
  BY <1>3, <1>4 DEF Queues
<1>6. Others(s, t, x)
  BY <1>1, <1>2 DEF Others, SameRow
<1>7. RowIs(t, x, s.pause[x], s.worker[x], s.gone[x], s.tries[x],
            s.asked[x], s.timers[x] - 1, s.refs[x], s.canceled[x],
            s.aborted[x], s.known[x], s.resumed[x], s.again[x])
  BY <1>1, <1>2 DEF RowIs
<1> QED BY <1>1, <1>5, <1>6, <1>7 DEF t

\* A transfer joins the list.
LEMMA LinkedRow ==
    ASSUME NEW s \in Queues, NEW x \in Xfers,
           Append(s.list, x) \in Seq(Xfers)
    PROVE  /\ Linked(s, x) \in Queues /\ Linked(s, x).list = Append(s.list, x)
           /\ Others(s, Linked(s, x), x)
           /\ RowIs(Linked(s, x), x, s.pause[x], s.worker[x], s.gone[x], s.tries[x],
                    s.asked[x], s.timers[x], 1, s.canceled[x],
                    s.aborted[x], s.known[x], s.resumed[x], s.again[x])
<1> DEFINE t == Linked(s, x)
<1>1. /\ t.list = Append(s.list, x)
      /\ t.pause = s.pause
      /\ t.worker = s.worker
      /\ t.gone = s.gone
      /\ t.tries = s.tries
      /\ t.asked = s.asked
      /\ t.timers = s.timers
      /\ t.refs = [s.refs EXCEPT ![x] = 1]
      /\ t.canceled = s.canceled
      /\ t.aborted = s.aborted
      /\ t.known = s.known
      /\ t.resumed = s.resumed
      /\ t.again = s.again
  BY DEF Linked, Queues
<1>2. /\ s.pause \in [Xfers -> Pauses] /\ s.worker \in [Xfers -> Workers]
      /\ s.gone \in [Xfers -> BOOLEAN] /\ s.tries \in [Xfers -> Int]
      /\ s.asked \in [Xfers -> Int] /\ s.timers \in [Xfers -> Int]
      /\ s.refs \in [Xfers -> Int] /\ s.canceled \in [Xfers -> BOOLEAN]
      /\ s.aborted \in [Xfers -> BOOLEAN] /\ s.known \in [Xfers -> BOOLEAN]
      /\ s.resumed \in [Xfers -> BOOLEAN] /\ s.again \in [Xfers -> Int]
  BY DEF Queues
<1> HIDE DEF t
<1>3. t.refs \in [Xfers -> Int]
  BY <1>1, <1>2 DEF Pauses, Workers, NoTries
<1>4. t = [s EXCEPT !.list = Append(s.list, x), !.refs = t.refs]
  BY <1>1 DEF t, Linked, Queues
<1>5. t \in Queues
  BY <1>3, <1>4 DEF Queues
<1>6. Others(s, t, x)
  BY <1>1, <1>2 DEF Others, SameRow
<1>7. RowIs(t, x, s.pause[x], s.worker[x], s.gone[x], s.tries[x],
            s.asked[x], s.timers[x], 1, s.canceled[x],
            s.aborted[x], s.known[x], s.resumed[x], s.again[x])
  BY <1>1, <1>2 DEF RowIs
<1> QED BY <1>1, <1>5, <1>6, <1>7 DEF t

\* A worker is told to stop.
LEMMA WindsRow ==
    ASSUME NEW s \in Queues, NEW x \in Xfers
    PROVE  /\ Winds(s, x) \in Queues /\ Winds(s, x).list = s.list
           /\ Others(s, Winds(s, x), x)
           /\ RowIs(Winds(s, x), x, "Winding", s.worker[x], s.gone[x], s.tries[x],
                    s.asked[x], s.timers[x], s.refs[x], s.canceled[x],
                    TRUE, s.known[x], s.resumed[x], s.again[x])
<1> DEFINE t == Winds(s, x)
<1>1. /\ t.list = s.list
      /\ t.pause = [s.pause EXCEPT ![x] = "Winding"]
      /\ t.worker = s.worker
      /\ t.gone = s.gone
      /\ t.tries = s.tries
      /\ t.asked = s.asked
      /\ t.timers = s.timers
      /\ t.refs = s.refs
      /\ t.canceled = s.canceled
      /\ t.aborted = [s.aborted EXCEPT ![x] = TRUE]
      /\ t.known = s.known
      /\ t.resumed = s.resumed
      /\ t.again = s.again
  BY DEF Winds, Queues
<1>2. /\ s.pause \in [Xfers -> Pauses] /\ s.worker \in [Xfers -> Workers]
      /\ s.gone \in [Xfers -> BOOLEAN] /\ s.tries \in [Xfers -> Int]
      /\ s.asked \in [Xfers -> Int] /\ s.timers \in [Xfers -> Int]
      /\ s.refs \in [Xfers -> Int] /\ s.canceled \in [Xfers -> BOOLEAN]
      /\ s.aborted \in [Xfers -> BOOLEAN] /\ s.known \in [Xfers -> BOOLEAN]
      /\ s.resumed \in [Xfers -> BOOLEAN] /\ s.again \in [Xfers -> Int]
  BY DEF Queues
<1> HIDE DEF t
<1>3. t.pause \in [Xfers -> Pauses] /\ t.aborted \in [Xfers -> BOOLEAN]
  BY <1>1, <1>2 DEF Pauses, Workers, NoTries
<1>4. t = [s EXCEPT !.pause = t.pause, !.aborted = t.aborted]
  BY <1>1 DEF t, Winds, Queues
<1>5. t \in Queues
  BY <1>3, <1>4 DEF Queues
<1>6. Others(s, t, x)
  BY <1>1, <1>2 DEF Others, SameRow
<1>7. RowIs(t, x, "Winding", s.worker[x], s.gone[x], s.tries[x],
            s.asked[x], s.timers[x], s.refs[x], s.canceled[x],
            TRUE, s.known[x], s.resumed[x], s.again[x])
  BY <1>1, <1>2 DEF RowIs
<1> QED BY <1>1, <1>5, <1>6, <1>7 DEF t

-----------------------------------------------------------------------------
(* One row at a time.                                                       *)

\* A row that is the same, in the list as before, is as right as it was.
LEMMA RowKept ==
    ASSUME NEW s, NEW t, NEW y, SameRow(s, t, y), Listed(t, y) = Listed(s, y)
    PROVE  /\ RowOK(s, y) => RowOK(t, y)
           /\ Owed(t, y) = Owed(s, y)
           /\ Fresh(s, y) => Fresh(t, y)
           /\ Waiting(t, y) = Waiting(s, y) /\ OnItsWay(t, y) = OnItsWay(s, y)
           /\ Stopped(t, y) = Stopped(s, y)
<1>1. RowCore(s, y) => RowCore(t, y)
  BY DEF SameRow, RowCore
<1>2. RowPause(s, y) => RowPause(t, y)
  BY DEF SameRow, RowPause
<1>3. RowTries(s, y) => RowTries(t, y)
  BY DEF SameRow, RowTries
<1>4. RowToken(s, y) => RowToken(t, y)
  BY DEF SameRow, RowToken
<1>5. Owed(t, y) = Owed(s, y)
  BY DEF SameRow, Owed, Working
<1>6. Fresh(s, y) => Fresh(t, y)
  BY DEF SameRow, Fresh
<1>7. /\ Waiting(t, y) = Waiting(s, y) /\ OnItsWay(t, y) = OnItsWay(s, y)
      /\ Stopped(t, y) = Stopped(s, y)
  BY DEF SameRow, Waiting, OnItsWay, Working, Paused, Stopped
<1> QED BY <1>1, <1>2, <1>3, <1>4, <1>5, <1>6, <1>7, Zenon DEF RowOK

\* All of a queue is right but perhaps the row of x.
GoodBut(s, x) ==
    s \in Queues /\ Distinct(s.list) /\ \A y \in Xfers : y # x => RowOK(s, y)

\* From s to t only the row of x has changed, and of the others those of listed
\* transfers, in what starting them changes.
Frame(s, t, x) ==
    /\ \A y \in Xfers : Listed(t, y) => Listed(s, y)
    /\ \A y \in Xfers : y # x => t.pause[y] = s.pause[y]
    /\ \A y \in Xfers : y # x /\ ~Listed(s, y) => SameRow(s, t, y)
    /\ \A y \in Xfers : ~Listed(s, y) => t.asked[y] <= s.asked[y]

Even(s, t) == \A y \in Xfers : Owed(t, y) = Owed(s, y)

\* A change of one row leaves the others right.
LEMMA OneRow ==
    ASSUME NEW x \in Xfers, NEW s, GoodBut(s, x), NEW t \in Queues, t.list = s.list,
           Others(s, t, x)
    PROVE  /\ GoodBut(t, x)
           /\ RowOK(t, x) => Good(t)
           /\ \A y \in Xfers : Listed(t, y) = Listed(s, y)
           /\ t.asked[x] <= s.asked[x] \/ Listed(s, x) => Frame(s, t, x)
           /\ Owed(t, x) = Owed(s, x) => Even(s, t)
<1>1. \A y \in Xfers : Listed(t, y) = Listed(s, y)
  BY DEF Listed
<1>2. \A y \in Xfers : y # x => SameRow(s, t, y)
  BY DEF Others
<1>3. \A y \in Xfers : y # x => RowOK(t, y) /\ Owed(t, y) = Owed(s, y)
  BY <1>1, <1>2, RowKept, Zenon DEF GoodBut
<1>4. GoodBut(t, x)
  BY <1>3, Zenon DEF GoodBut
<1>5. RowOK(t, x) => Good(t)
  BY <1>4, Zenon DEF GoodBut, Good
<1>6. ASSUME t.asked[x] <= s.asked[x] \/ Listed(s, x) PROVE Frame(s, t, x)
  <2>1. s \in Queues
    BY DEF GoodBut
  <2>2. \A y \in Xfers : s.asked[y] \in Int /\ t.asked[y] \in Int
    BY <2>1 DEF Queues
  <2>3. \A y \in Xfers : y # x => t.pause[y] = s.pause[y] /\ t.asked[y] = s.asked[y]
    BY <1>2, Zenon DEF SameRow
  <2>4. \A y \in Xfers : ~Listed(s, y) => t.asked[y] <= s.asked[y]
    BY <1>6, <2>2, <2>3
  <2> QED BY <1>1, <1>2, <2>3, <2>4, Zenon DEF Frame
<1>7. Owed(t, x) = Owed(s, x) => Even(s, t)
  BY <1>3, Zenon DEF Even
<1> QED BY <1>1, <1>4, <1>5, <1>6, <1>7, Zenon

\* One after the other.
LEMMA FrameTwo ==
    ASSUME NEW x \in Xfers, NEW s \in Queues, NEW t \in Queues, NEW u \in Queues,
           Frame(s, t, x), Frame(t, u, x)
    PROVE  Frame(s, u, x)
<1>1. \A y \in Xfers : Listed(u, y) => Listed(s, y)
  BY Zenon DEF Frame
<1>2. \A y \in Xfers : y # x => u.pause[y] = s.pause[y]
  BY Zenon DEF Frame
<1>3. ASSUME NEW y \in Xfers, y # x, ~Listed(s, y) PROVE SameRow(s, u, y)
  <2>1. SameRow(s, t, y) /\ SameRow(t, u, y)
    BY <1>3, Zenon DEF Frame
  <2> QED BY <2>1 DEF SameRow
<1>4. ASSUME NEW y \in Xfers, ~Listed(s, y) PROVE u.asked[y] <= s.asked[y]
  <2>1. t.asked[y] <= s.asked[y] /\ u.asked[y] <= t.asked[y]
    BY <1>4, Zenon DEF Frame
  <2>2. s.asked[y] \in Int /\ t.asked[y] \in Int /\ u.asked[y] \in Int
    BY DEF Queues
  <2> QED BY <2>1, <2>2
<1> QED BY <1>1, <1>2, <1>3, <1>4, Zenon DEF Frame

\* And of what is owed.
LEMMA EvenTwo ==
    ASSUME NEW s, NEW t, NEW u, Even(s, t), Even(t, u)
    PROVE  Even(s, u)
  BY DEF Even

\* A good queue is good but for any row.
LEMMA GoodIsGoodBut ==
    ASSUME NEW s, Good(s), NEW x \in Xfers
    PROVE  GoodBut(s, x) /\ RowOK(s, x) /\ s \in Queues
  BY Zenon DEF Good, GoodBut

\* The types of a row.
LEMMA RowTypes ==
    ASSUME NEW s \in Queues, NEW y \in Xfers
    PROVE  /\ s.pause[y] \in Pauses /\ s.worker[y] \in Workers /\ s.gone[y] \in BOOLEAN
           /\ s.tries[y] \in Int /\ s.asked[y] \in Int /\ s.timers[y] \in Int
           /\ s.refs[y] \in Int /\ s.canceled[y] \in BOOLEAN /\ s.aborted[y] \in BOOLEAN
           /\ s.known[y] \in BOOLEAN /\ s.resumed[y] \in BOOLEAN /\ s.again[y] \in Int
           /\ s.list \in Seq(Xfers)
  BY DEF Queues

-----------------------------------------------------------------------------
(* The next transfer starts.                                                *)

\* A set of places has a first.
LEMMA FirstPlace ==
    ASSUME NEW S, S \subseteq Nat, S # {}
    PROVE  Min(S) \in S /\ \A i \in S : Min(S) <= i
<1> DEFINE less == OpToRel(<, Nat)
<1>1. IsWellFoundedOn(less, Nat)
  BY NatLessThanWellFounded
<1>2. \A x, y \in Nat : <<x, y>> \in less <=> x < y
  BY Zenon DEF OpToRel
<1> HIDE DEF less
<1>3. PICK t \in S : \A k \in S : ~(<<k, t>> \in less)
  BY <1>1, WFMin
<1>4. \A k \in S : ~(k < t)
  BY <1>2, <1>3
<1>5. \A k \in S : t <= k
  BY <1>4
<1>6. t \in S /\ \A k \in S : t <= k
  BY <1>3, <1>5
<1> QED BY <1>6 DEF Min

\* Only what is listed, and not paused, is started, and it is on its way.
LEMMA StartNextGoes ==
    ASSUME NEW s, Good(s)
    PROVE  /\ Good(StartNext(s)) /\ StartNext(s).list = s.list
           /\ Moves(StartNext(s))
           /\ \A x \in Xfers : Frame(s, StartNext(s), x)
           /\ Even(s, StartNext(s))
           /\ \A y \in Xfers : StartNext(s).pause[y] = s.pause[y]
<1> DEFINE U == Unpaused(s)
           t == StartNext(s)
<1>0. s \in Queues /\ s.list \in Seq(Xfers)
  BY DEF Good, Queues
<1>1. \A y \in Xfers : Listed(s, y) /\ ~Paused(s, y) => U # {}
  BY <1>0 DEF Unpaused, Listed, Range
<1>2. \A y \in Xfers : Waiting(s, y) => ~Paused(s, y)
  BY DEF Waiting, Paused
<1>3. Even(s, s) /\ \A x \in Xfers : Frame(s, s, x)
  <2>1. \A x \in Xfers : s.asked[x] \in Int
    BY <1>0, RowTypes
  <2>2. \A x \in Xfers : s.asked[x] <= s.asked[x]
    BY <2>1
  <2> QED BY <2>2, Zenon DEF Even, Frame, SameRow
<1>4. CASE U = {}
  <2>1. t = s
    BY <1>4 DEF StartNext
  <2>2. Moves(s)
    BY <1>1, <1>2, <1>4, Zenon DEF Moves
  <2> QED BY <1>3, <2>1, <2>2
<1>5. CASE U # {}
  <2> DEFINE h == s.list[Min(U)]
             u == Ask(Latched(s, h), h)
  <2>1. U \subseteq Nat /\ U \subseteq DOMAIN s.list
    BY <1>0 DEF Unpaused
  <2>2. Min(U) \in U
    BY <1>5, <2>1, FirstPlace, Zenon
  <2>3. h \in Xfers /\ Listed(s, h) /\ ~Paused(s, h)
    <3> DEFINE i == Min(U)
    <3>1. i \in DOMAIN s.list /\ ~Paused(s, s.list[i])
      BY <2>2, Zenon DEF Unpaused
    <3> HIDE DEF i
    <3>2. s.list[i] \in Xfers
      BY <1>0, <3>1
    <3>3. Listed(s, s.list[i])
      BY <3>1, Zenon DEF Listed, Range
    <3> QED BY <3>1, <3>2, <3>3 DEF i
  <2>4. t = IF XferGo(s, h, "same").gone[h] /\ ~s.gone[h] /\ s.tries[h] = NoTries
            THEN SetTries(XferGo(s, h, "same"), h, 0) ELSE XferGo(s, h, "same")
    BY <1>5 DEF StartNext
  <2> HIDE DEF U, h, t, u
  <2>5. ~Settled(s, h)
    BY <2>3 DEF Settled, Paused
  <2>6. CASE ~Waiting(s, h)
    <3>1. XferGo(s, h, "same") = s
      BY <2>5, <2>6 DEF XferGo, Waiting
    <3>2. t = s
      BY <2>4, <3>1
    <3>3. OnItsWay(s, h)
      BY <2>3, <2>6, Zenon DEF OnItsWay
    <3>4. Moves(s)
      BY <2>3, <3>3, Zenon DEF Moves
    <3> QED BY <1>3, <3>2, <3>4 DEF t
  <2>7. CASE Waiting(s, h)
    <3>1. XferGo(s, h, "same") = u
      BY <2>5, <2>7 DEF XferGo, Waiting, u, Latched
    <3> DEFINE l == Latched(s, h)
    <3>2. /\ l \in Queues /\ l.list = s.list /\ Others(s, l, h)
          /\ RowIs(l, h, s.pause[h], s.worker[h], TRUE, s.tries[h], s.asked[h], s.timers[h],
                   s.refs[h], s.canceled[h], s.aborted[h], s.known[h], s.resumed[h], s.again[h])
      BY <1>0, <2>3, LatchedRow
    <3> HIDE DEF l
    <3>3. /\ u \in Queues /\ u.list = l.list /\ Others(l, u, h)
          /\ RowIs(u, h, l.pause[h], l.worker[h], l.gone[h], l.tries[h], l.asked[h] + 1,
                   l.timers[h], l.refs[h] + 1, l.canceled[h], l.aborted[h], l.known[h],
                   l.resumed[h], l.again[h])
      BY <2>3, <3>2, AskRow DEF u, l
    <3>4. /\ u \in Queues /\ u.list = s.list /\ Others(s, u, h)
          /\ RowIs(u, h, s.pause[h], s.worker[h], TRUE, s.tries[h], s.asked[h] + 1,
                   s.timers[h], s.refs[h] + 1, s.canceled[h], s.aborted[h], s.known[h],
                   s.resumed[h], s.again[h])
      BY <3>2, <3>3 DEF Others, SameRow, RowIs
    <3> DEFINE n == IF s.tries[h] = NoTries THEN 0 ELSE s.tries[h]
    <3>5. n \in Int
      BY <1>0, <2>3, RowTypes
    <3>6. ~s.gone[h] /\ u.gone[h]
      BY <2>7, <3>4 DEF Waiting, RowIs
    <3>7. t = IF s.tries[h] = NoTries THEN SetTries(u, h, 0) ELSE u
      BY <2>4, <3>1, <3>6
    <3>8. /\ t \in Queues /\ t.list = s.list /\ Others(s, t, h)
          /\ RowIs(t, h, s.pause[h], s.worker[h], TRUE, n, s.asked[h] + 1,
                   s.timers[h], s.refs[h] + 1, s.canceled[h], s.aborted[h], s.known[h],
                   s.resumed[h], s.again[h])
      <4>1. CASE s.tries[h] = NoTries
        <5>1. t = SetTries(u, h, 0) /\ n = 0
          BY <3>7, <4>1
        <5>2. /\ t \in Queues /\ t.list = u.list /\ Others(u, t, h)
              /\ RowIs(t, h, u.pause[h], u.worker[h], u.gone[h], 0, u.asked[h],
                   u.timers[h], u.refs[h], u.canceled[h], u.aborted[h], u.known[h],
                   u.resumed[h], u.again[h])
          BY <2>3, <3>4, <5>1, SetTriesRow
        <5> QED BY <3>4, <5>1, <5>2 DEF Others, SameRow, RowIs
      <4>2. CASE s.tries[h] # NoTries
        BY <3>4, <3>7, <4>2
      <4> QED BY <4>1, <4>2
    <3> HIDE DEF n
    <3>9. GoodBut(s, h) /\ RowOK(s, h)
      BY <2>3, GoodIsGoodBut
    <3>10. Listed(t, h) = Listed(s, h) /\ \A y \in Xfers : Listed(t, y) = Listed(s, y)
      BY <2>3, <3>8 DEF Listed
    <3>11. RowOK(t, h)
      <4>0. n = IF s.tries[h] = NoTries THEN 0 ELSE s.tries[h]
        BY DEF n
      <4>1. /\ s.asked[h] = 0 /\ s.worker[h] = "none" /\ ~s.known[h] /\ s.pause[h] = "None"
            /\ ~Folder(h)
        BY <2>7, <3>9 DEF Waiting, RowOK, RowCore
      <4>2. RowCore(t, h)
        BY <3>8, <3>9, <4>1 DEF RowIs, RowOK, RowCore
      <4>3. RowPause(t, h)
        BY <3>8, <3>9, <4>1, <3>10, <2>3 DEF RowIs, RowPause
      <4>4. RowTries(t, h)
        BY <3>8, <3>9, <4>0, <4>1, <3>10, <2>3, QueueAssumption, RowTypes, <1>0
           DEF RowIs, RowOK, RowTries, NoTries
      <4>5. RowToken(t, h)
        BY <3>8, <3>9, <4>1, <3>10, <2>3 DEF RowIs, RowOK, RowToken
      <4> QED BY <4>2, <4>3, <4>4, <4>5 DEF RowOK
    <3>12. Owed(t, h) = Owed(s, h)
      <4>1. s.refs[h] \in Int /\ s.timers[h] \in Int /\ s.asked[h] \in Int
        BY <1>0, <2>3, RowTypes
      <4>2. Bit(Listed(s, h)) \in Int /\ Bit(Working(s, h)) \in Int
        BY DEF Bit
      <4>3. Working(t, h) = Working(s, h)
        BY <3>8 DEF RowIs, Working
      <4>4. t.refs[h] = s.refs[h] + 1 /\ t.timers[h] = s.timers[h] /\ t.asked[h] = s.asked[h] + 1
        BY <3>8 DEF RowIs
      <4> QED BY <3>10, <4>1, <4>2, <4>3, <4>4 DEF Owed
    <3>13. Good(t) /\ Frame(s, t, h) /\ Even(s, t)
      BY <2>3, <3>8, <3>9, <3>11, <3>12, OneRow
    <3>14. \A y \in Xfers : t.pause[y] = s.pause[y]
      BY <2>3, <3>8 DEF RowIs, Others, SameRow
    <3>15. ASSUME NEW x \in Xfers PROVE Frame(s, t, x)
      <4>1. \A y \in Xfers : ~Listed(s, y) => y # h
        BY <2>3
      <4> QED BY <3>13, <3>14, <4>1, Zenon DEF Frame
    <3>16. OnItsWay(t, h)
      BY <2>7, <3>8 DEF OnItsWay, Waiting, RowIs, Paused
    <3>17. Moves(t)
      BY <2>3, <3>10, <3>16, Zenon DEF Moves
    <3> QED BY <3>8, <3>13, <3>14, <3>15, <3>17 DEF t
  <2> QED BY <2>6, <2>7
<1> QED BY <1>4, <1>5

-----------------------------------------------------------------------------
(* Taking a transfer off the list.                                          *)

\* One place less, the rest as they were.
LEMMA CloseGap ==
    ASSUME NEW S, NEW l \in Seq(S), NEW i \in 1..Len(l)
    PROVE  /\ RemoveAt(l, i) \in Seq(S)
           /\ Len(RemoveAt(l, i)) = Len(l) - 1
           /\ \A j \in 1..(Len(l) - 1) :
                  RemoveAt(l, i)[j] = l[IF j < i THEN j ELSE j + 1]
<1> DEFINE n == Len(l)
           front == SubSeq(l, 1, i - 1)
           back == SubSeq(l, i + 1, n)
<1>1. n \in Nat /\ i \in Nat /\ 1 <= i /\ i <= n
  OBVIOUS
<1>2. front \in Seq(S) /\ Len(front) = i - 1 /\ \A j \in 1..(i - 1) : front[j] = l[j]
  BY <1>1, SubSeqProperties
<1>3. back \in Seq(S) /\ Len(back) = n - i /\ \A j \in 1..(n - i) : back[j] = l[i + j]
  BY <1>1, SubSeqProperties
<1> HIDE DEF front, back
<1>4. /\ front \o back \in Seq(S)
      /\ Len(front \o back) = Len(front) + Len(back)
      /\ \A j \in 1..(Len(front) + Len(back)) :
             (front \o back)[j] = IF j <= Len(front) THEN front[j] ELSE back[j - Len(front)]
  BY <1>2, <1>3, ConcatProperties
<1>5. RemoveAt(l, i) = front \o back
  BY DEF RemoveAt, front, back
<1>6. ASSUME NEW j \in 1..(n - 1) PROVE (front \o back)[j] = l[IF j < i THEN j ELSE j + 1]
  <2>1. (front \o back)[j] = IF j <= i - 1 THEN front[j] ELSE back[j - (i - 1)]
    BY <1>1, <1>2, <1>3, <1>4
  <2>2. CASE j < i
    <3>1. j \in 1..(i - 1) /\ j <= i - 1
      BY <1>1, <2>2
    <3> QED BY <1>2, <2>1, <2>2, <3>1
  <2>3. CASE ~(j < i)
    <3>1. ~(j <= i - 1) /\ j - (i - 1) \in 1..(n - i) /\ i + (j - (i - 1)) = j + 1
      BY <1>1, <2>3
    <3> QED BY <1>3, <2>1, <2>3, <3>1
  <2> QED BY <2>2, <2>3
<1>7. Len(front) + Len(back) = n - 1
  BY <1>1, <1>2, <1>3
<1>8. Len(front \o back) = n - 1
  BY <1>4, <1>7
<1> QED BY <1>4, <1>5, <1>6, <1>8, Zenon

\* A listed transfer has a place, and taking it off leaves the others.
LEMMA ListLess ==
    ASSUME NEW s \in Queues, Distinct(s.list), NEW x \in Xfers, Listed(s, x),
           NEW l, l = RemoveAt(s.list, Place(s, x))
    PROVE  /\ l \in Seq(Xfers) /\ Distinct(l)
           /\ \A y \in Xfers : y \in Range(l) <=> Listed(s, y) /\ y # x
<1> DEFINE k == Place(s, x)
           m == s.list
           n == Len(m)
<1>1. m \in Seq(Xfers) /\ n \in Nat /\ DOMAIN m = 1..n
  BY DEF Queues
<1>2. k \in DOMAIN m /\ m[k] = x
  <2>1. \E i \in DOMAIN m : m[i] = x
    BY DEF Listed, Range
  <2> QED BY <2>1, Zenon DEF Place
<1>0. \A i, j \in 1..n : m[i] = m[j] => i = j
  BY <1>1 DEF Distinct
<1>3. l = RemoveAt(m, k)
  OBVIOUS
<1>9. \A y : Listed(s, y) <=> \E i \in 1..n : m[i] = y
  BY <1>1 DEF Listed, Range
<1> HIDE DEF k, m, n
<1>4. k \in 1..n /\ k \in Int
  BY <1>1, <1>2
<1>5. /\ l \in Seq(Xfers) /\ Len(l) = n - 1
      /\ \A j \in 1..(n - 1) : l[j] = m[IF j < k THEN j ELSE j + 1]
  BY <1>1, <1>3, <1>4, CloseGap DEF n
<1>6. DOMAIN l = 1..(n - 1)
  BY <1>5
<1> DEFINE old(j) == IF j < k THEN j ELSE j + 1
<1>7. \A j \in 1..(n - 1) : old(j) \in 1..n /\ old(j) # k /\ l[j] = m[old(j)]
  BY <1>1, <1>4, <1>5
<1>8. \A i, j \in 1..(n - 1) : old(i) = old(j) => i = j
  BY <1>1, <1>4
<1>10. \A i \in 1..n : i # k => \E j \in 1..(n - 1) : old(j) = i
  <2> SUFFICES ASSUME NEW i \in 1..n, i # k PROVE \E j \in 1..(n - 1) : old(j) = i
    OBVIOUS
  <2>1. CASE i < k
    <3>1. i \in 1..(n - 1) /\ old(i) = i
      BY <1>1, <1>4, <2>1
    <3> QED BY <3>1
  <2>2. CASE ~(i < k)
    <3>1. i - 1 \in 1..(n - 1) /\ old(i - 1) = i
      BY <1>1, <1>4, <2>2
    <3> QED BY <3>1
  <2> QED BY <2>1, <2>2
<1> HIDE DEF old
<1>11. Distinct(l)
  <2>1. \A i, j \in 1..(n - 1) : l[i] = l[j] => i = j
    BY <1>0, <1>7, <1>8
  <2> QED BY <1>6, <2>1 DEF Distinct
<1>12. ASSUME NEW y \in Xfers PROVE y \in Range(l) <=> Listed(s, y) /\ y # x
  <2>1. y \in Range(l) <=> \E j \in 1..(n - 1) : l[j] = y
    BY <1>6 DEF Range
  <2>2. ASSUME NEW j \in 1..(n - 1), l[j] = y PROVE Listed(s, y) /\ y # x
    <3>1. old(j) \in 1..n /\ m[old(j)] = y /\ old(j) # k
      BY <1>7, <2>2
    <3> QED BY <1>0, <1>2, <1>4, <1>9, <3>1
  <2>3. ASSUME Listed(s, y), y # x PROVE \E j \in 1..(n - 1) : l[j] = y
    <3>1. PICK i \in 1..n : m[i] = y
      BY <1>9, <2>3
    <3>2. i # k
      BY <1>2, <2>3, <3>1
    <3>3. PICK j \in 1..(n - 1) : old(j) = i
      BY <1>10, <3>2
    <3> QED BY <1>7, <3>1, <3>3
  <2> QED BY <2>1, <2>2, <2>3
<1> QED BY <1>5, <1>11, <1>12

\* What may be taken off the list, whatever its pause, its tries and its token.
Removable(s, x) ==
    /\ GoodBut(s, x) /\ RowCore(s, x) /\ Listed(s, x)
    /\ s.aborted[x] => s.canceled[x] \/ s.worker[x] = "none"

\* xfer_remove_from_list, of a listed transfer.
LEMMA RemoveGoes ==
    ASSUME NEW s, NEW x \in Xfers, Removable(s, x)
    PROVE  /\ Good(XferRemove(s, x)) /\ Moves(XferRemove(s, x))
           /\ Frame(s, XferRemove(s, x), x) /\ Even(s, XferRemove(s, x))
           /\ \A y \in Xfers : Listed(XferRemove(s, x), y) <=> Listed(s, y) /\ y # x
<1> DEFINE l == RemoveAt(s.list, Place(s, x))
           u == Unlinked(s, x)
           t == StartNext(u)
<1>1. XferRemove(s, x) = t
  BY DEF XferRemove, Removable, Unlinked
<1>2. s \in Queues /\ Distinct(s.list) /\ Listed(s, x)
  BY Zenon DEF Removable, GoodBut
<1>3. /\ l \in Seq(Xfers) /\ Distinct(l)
      /\ \A y \in Xfers : y \in Range(l) <=> Listed(s, y) /\ y # x
  BY <1>2, ListLess
<1>4. /\ u \in Queues /\ u.list = l /\ Others(s, u, x)
      /\ RowIs(u, x, "None", s.worker[x], s.gone[x], NoTries, s.asked[x], s.timers[x],
               s.refs[x] - 1, s.canceled[x], s.aborted[x], s.known[x], s.resumed[x], s.again[x])
  BY <1>2, <1>3, UnlinkedRow
<1> HIDE DEF l, u, t
<1>5. \A y \in Xfers : Listed(u, y) <=> Listed(s, y) /\ y # x
  BY <1>3, <1>4 DEF Listed
<1>6. \A y \in Xfers : y # x => SameRow(s, u, y) /\ Listed(u, y) = Listed(s, y)
  BY <1>4, <1>5 DEF Others, Listed
<1>7. \A y \in Xfers : y # x => RowOK(u, y) /\ Owed(u, y) = Owed(s, y)
  BY <1>6, RowKept, Zenon DEF Removable, GoodBut
<1>8. RowOK(u, x)
  <2>0. ~Listed(u, x)
    BY <1>5
  <2>1. RowCore(u, x)
    BY <1>4 DEF RowIs, RowCore, Removable
  <2>2. RowPause(u, x)
    BY <1>4, <2>0 DEF RowIs, RowPause
  <2>3. RowTries(u, x)
    BY <1>4, <2>0, QueueAssumption DEF RowIs, RowTries, NoTries
  <2>4. RowToken(u, x)
    BY <1>4, <2>0 DEF RowIs, RowToken, Removable
  <2> QED BY <2>1, <2>2, <2>3, <2>4 DEF RowOK
<1>9. Owed(u, x) = Owed(s, x)
  <2>1. s.refs[x] \in Int /\ s.timers[x] \in Int /\ s.asked[x] \in Int
    BY <1>2, RowTypes
  <2>2. Bit(Listed(s, x)) = 1 /\ Bit(Listed(u, x)) = 0 /\ Bit(Working(s, x)) \in Int
    BY <1>2, <1>5 DEF Bit
  <2>3. Working(u, x) = Working(s, x)
    BY <1>4 DEF RowIs, Working
  <2>4. u.refs[x] = s.refs[x] - 1 /\ u.timers[x] = s.timers[x] /\ u.asked[x] = s.asked[x]
    BY <1>4 DEF RowIs
  <2> QED BY <2>1, <2>2, <2>3, <2>4 DEF Owed
<1>10. Good(u)
  BY <1>3, <1>4, <1>7, <1>8 DEF Good
<1>11. Even(s, u)
  BY <1>7, <1>9 DEF Even
<1>12. Frame(s, u, x)
  <2>1. \A y \in Xfers : u.asked[y] = s.asked[y] /\ s.asked[y] \in Int
    BY <1>2, <1>4, RowTypes DEF Others, SameRow, RowIs
  <2>2. \A y \in Xfers : y # x => u.pause[y] = s.pause[y]
    BY <1>6 DEF SameRow
  <2>3. \A y \in Xfers : u.asked[y] <= s.asked[y]
    BY <2>1
  <2> QED BY <1>5, <1>6, <2>2, <2>3, Zenon DEF Frame
<1>13. /\ Good(t) /\ t.list = u.list /\ Moves(t) /\ Frame(u, t, x) /\ Even(u, t)
  BY <1>10, StartNextGoes DEF t
<1>14. \A y \in Xfers : Listed(t, y) <=> Listed(s, y) /\ y # x
  BY <1>5, <1>13 DEF Listed
<1>15. t \in Queues
  BY <1>13 DEF Good
<1>16. Frame(s, t, x) /\ Even(s, t)
  BY <1>2, <1>4, <1>11, <1>12, <1>13, <1>15, FrameTwo, EvenTwo
<1> QED BY <1>1, <1>13, <1>14, <1>16

\* A queue that does not change.
LEMMA Stays ==
    ASSUME NEW s, Good(s), NEW x \in Xfers
    PROVE  Frame(s, s, x) /\ Even(s, s)
<1>1. \A y \in Xfers : s.asked[y] \in Int
  BY RowTypes DEF Good
<1>2. \A y \in Xfers : s.asked[y] <= s.asked[y]
  BY <1>1
<1> QED BY <1>2, Zenon DEF Frame, Even, SameRow

\* What every call leaves: a queue that is right and moves, of which no more
\* has changed than may, and in which nothing is owed that was not.
Call(s, t, x) == Good(t) /\ Moves(t) /\ Frame(s, t, x) /\ Even(s, t)

\* A queue as right as s in which only the row of x changed.
LEMMA RowCall ==
    ASSUME NEW x \in Xfers, NEW s, GoodBut(s, x), NEW t \in Queues, t.list = s.list,
           Others(s, t, x), RowOK(t, x), Owed(t, x) = Owed(s, x),
           t.asked[x] <= s.asked[x] \/ Listed(s, x)
    PROVE  Good(t) /\ Frame(s, t, x) /\ Even(s, t)
  BY OneRow

\* As it moves if x is on its way, or as much as it was.
LEMMA RowMoves ==
    ASSUME NEW x \in Xfers, NEW s, NEW t, t.list = s.list, Others(s, t, x),
           \/ Listed(s, x) /\ (OnItsWay(t, x) \/ Stopped(t, x))
           \/ Moves(s) /\ (Listed(s, x) => /\ Waiting(t, x) => Waiting(s, x)
                                           /\ OnItsWay(s, x) => OnItsWay(t, x)
                                           /\ Stopped(s, x) => Stopped(t, x))
    PROVE  Moves(t)
<1>1. \A y \in Xfers : Listed(t, y) = Listed(s, y)
  BY DEF Listed
<1>2. \A y \in Xfers : y # x => /\ Waiting(t, y) = Waiting(s, y)
                                /\ OnItsWay(t, y) = OnItsWay(s, y)
                                /\ Stopped(t, y) = Stopped(s, y)
  BY <1>1, RowKept, Zenon DEF Others
<1>3. CASE Listed(s, x) /\ (OnItsWay(t, x) \/ Stopped(t, x))
  BY <1>1, <1>3 DEF Moves
<1>4. CASE Moves(s) /\ (Listed(s, x) => /\ Waiting(t, x) => Waiting(s, x)
                                        /\ OnItsWay(s, x) => OnItsWay(t, x)
                                        /\ Stopped(s, x) => Stopped(t, x))
  BY <1>1, <1>2, <1>4 DEF Moves
<1> QED BY <1>3, <1>4

\* A change of the row of x, and then the next transfer starts.
LEMMA ThenNext ==
    ASSUME NEW x \in Xfers, NEW s, GoodBut(s, x), NEW u \in Queues, u.list = s.list,
           Others(s, u, x), RowOK(u, x), Owed(u, x) = Owed(s, x),
           u.asked[x] <= s.asked[x] \/ Listed(s, x)
    PROVE  Call(s, StartNext(u), x) /\ StartNext(u).list = s.list
<1> DEFINE t == StartNext(u)
<1>1. Good(u) /\ Frame(s, u, x) /\ Even(s, u)
  BY RowCall
<1>2. Good(t) /\ t.list = u.list /\ Moves(t) /\ Frame(u, t, x) /\ Even(u, t)
  BY <1>1, StartNextGoes
<1> HIDE DEF t
<1>3. s \in Queues /\ t \in Queues
  BY <1>2, Zenon DEF Good, GoodBut
<1>4. Frame(s, t, x) /\ Even(s, t)
  BY <1>1, <1>2, <1>3, FrameTwo, EvenTwo
<1> QED BY <1>2, <1>4 DEF t, Call

-----------------------------------------------------------------------------
(* The calls.                                                               *)

\* When the counts of a row do not change, nor its worker, neither does what it owes.
LEMMA OwedSame ==
    ASSUME NEW s \in Queues, NEW t, NEW y \in Xfers, t.list = s.list, Working(t, y) = Working(s, y),
           t.refs[y] = s.refs[y], t.timers[y] = s.timers[y], t.asked[y] = s.asked[y]
    PROVE  Owed(t, y) = Owed(s, y)
  BY DEF Owed, Listed

\* A request holds its own reference.
LEMMA OwedAsk ==
    ASSUME NEW s \in Queues, NEW t, NEW y \in Xfers, t.list = s.list, Working(t, y) = Working(s, y),
           t.refs[y] = s.refs[y] + 1, t.timers[y] = s.timers[y], t.asked[y] = s.asked[y] + 1
    PROVE  Owed(t, y) = Owed(s, y)
<1> DEFINE l == Bit(Listed(s, y))
           w == Bit(Working(s, y))
<1>1. s.refs[y] \in Int /\ s.timers[y] \in Int /\ s.asked[y] \in Int
  BY RowTypes
<1>2. l \in Int /\ Bit(Listed(t, y)) = l
  BY DEF Bit, Listed
<1>3. w \in Int /\ Bit(Working(t, y)) = w
  BY DEF Bit
<1> HIDE DEF l, w
<1>4. Owed(s, y) = s.refs[y] - (l + w + s.timers[y] + s.asked[y])
  BY <1>3 DEF Owed, l, w
<1>5. Owed(t, y) = (s.refs[y] + 1) - (l + w + s.timers[y] + (s.asked[y] + 1))
  BY <1>2, <1>3 DEF Owed
<1> QED BY <1>1, <1>2, <1>3, <1>4, <1>5

\* So does a timer.
LEMMA OwedTimer ==
    ASSUME NEW s \in Queues, NEW t, NEW y \in Xfers, t.list = s.list, Working(t, y) = Working(s, y),
           t.refs[y] = s.refs[y] + 1, t.timers[y] = s.timers[y] + 1, t.asked[y] = s.asked[y]
    PROVE  Owed(t, y) = Owed(s, y)
<1> DEFINE l == Bit(Listed(s, y))
           w == Bit(Working(s, y))
<1>1. s.refs[y] \in Int /\ s.timers[y] \in Int /\ s.asked[y] \in Int
  BY RowTypes
<1>2. l \in Int /\ Bit(Listed(t, y)) = l
  BY DEF Bit, Listed
<1>3. w \in Int /\ Bit(Working(t, y)) = w
  BY DEF Bit
<1> HIDE DEF l, w
<1>4. Owed(s, y) = s.refs[y] - (l + w + s.timers[y] + s.asked[y])
  BY <1>3 DEF Owed, l, w
<1>5. Owed(t, y) = (s.refs[y] + 1) - (l + w + (s.timers[y] + 1) + s.asked[y])
  BY <1>2, <1>3 DEF Owed
<1> QED BY <1>1, <1>2, <1>3, <1>4, <1>5

\* A reply that was taken is owed its reference.
LEMMA OwedReply ==
    ASSUME NEW s \in Queues, NEW t, NEW y \in Xfers, t.list = s.list, Working(t, y) = Working(s, y),
           t.refs[y] = s.refs[y], t.timers[y] = s.timers[y], t.asked[y] = s.asked[y] - 1
    PROVE  Owed(t, y) = Owed(s, y) + 1
<1> DEFINE l == Bit(Listed(s, y))
           w == Bit(Working(s, y))
<1>1. s.refs[y] \in Int /\ s.timers[y] \in Int /\ s.asked[y] \in Int
  BY RowTypes
<1>2. l \in Int /\ Bit(Listed(t, y)) = l
  BY DEF Bit, Listed
<1>3. w \in Int /\ Bit(Working(t, y)) = w
  BY DEF Bit
<1> HIDE DEF l, w
<1>4. Owed(s, y) = s.refs[y] - (l + w + s.timers[y] + s.asked[y])
  BY <1>3 DEF Owed, l, w
<1>5. Owed(t, y) = s.refs[y] - (l + w + s.timers[y] + (s.asked[y] - 1))
  BY <1>2, <1>3 DEF Owed
<1> QED BY <1>1, <1>2, <1>3, <1>4, <1>5

\* So is a timer that fired.
LEMMA OwedFired ==
    ASSUME NEW s \in Queues, NEW t, NEW y \in Xfers, t.list = s.list, Working(t, y) = Working(s, y),
           t.refs[y] = s.refs[y], t.timers[y] = s.timers[y] - 1, t.asked[y] = s.asked[y]
    PROVE  Owed(t, y) = Owed(s, y) + 1
<1> DEFINE l == Bit(Listed(s, y))
           w == Bit(Working(s, y))
<1>1. s.refs[y] \in Int /\ s.timers[y] \in Int /\ s.asked[y] \in Int
  BY RowTypes
<1>2. l \in Int /\ Bit(Listed(t, y)) = l
  BY DEF Bit, Listed
<1>3. w \in Int /\ Bit(Working(t, y)) = w
  BY DEF Bit
<1> HIDE DEF l, w
<1>4. Owed(s, y) = s.refs[y] - (l + w + s.timers[y] + s.asked[y])
  BY <1>3 DEF Owed, l, w
<1>5. Owed(t, y) = s.refs[y] - (l + w + (s.timers[y] - 1) + s.asked[y])
  BY <1>2, <1>3 DEF Owed
<1> QED BY <1>1, <1>2, <1>3, <1>4, <1>5

\* And a worker that is done.
LEMMA OwedDone ==
    ASSUME NEW s \in Queues, NEW t, NEW y \in Xfers, t.list = s.list, ~Working(t, y), Working(s, y),
           t.refs[y] = s.refs[y], t.timers[y] = s.timers[y], t.asked[y] = s.asked[y]
    PROVE  Owed(t, y) = Owed(s, y) + 1
<1> DEFINE l == Bit(Listed(s, y))
<1>1. s.refs[y] \in Int /\ s.timers[y] \in Int /\ s.asked[y] \in Int
  BY RowTypes
<1>2. l \in Int /\ Bit(Listed(t, y)) = l
  BY DEF Bit, Listed
<1>3. Bit(Working(t, y)) = 0 /\ Bit(Working(s, y)) = 1
  BY DEF Bit
<1> HIDE DEF l
<1>4. Owed(s, y) = s.refs[y] - (l + 1 + s.timers[y] + s.asked[y])
  BY <1>3 DEF Owed, l
<1>5. Owed(t, y) = s.refs[y] - (l + 0 + s.timers[y] + s.asked[y])
  BY <1>2, <1>3 DEF Owed
<1> QED BY <1>1, <1>2, <1>3, <1>4, <1>5

\* Letting go pays.
LEMMA OwedPaid ==
    ASSUME NEW s \in Queues, NEW t, NEW y \in Xfers, t.list = s.list, Working(t, y) = Working(s, y),
           t.refs[y] = s.refs[y] - 1, t.timers[y] = s.timers[y], t.asked[y] = s.asked[y]
    PROVE  Owed(t, y) = Owed(s, y) - 1
<1> DEFINE l == Bit(Listed(s, y))
           w == Bit(Working(s, y))
<1>1. s.refs[y] \in Int /\ s.timers[y] \in Int /\ s.asked[y] \in Int
  BY RowTypes
<1>2. l \in Int /\ Bit(Listed(t, y)) = l
  BY DEF Bit, Listed
<1>3. w \in Int /\ Bit(Working(t, y)) = w
  BY DEF Bit
<1> HIDE DEF l, w
<1>4. Owed(s, y) = s.refs[y] - (l + w + s.timers[y] + s.asked[y])
  BY <1>3 DEF Owed, l, w
<1>5. Owed(t, y) = (s.refs[y] - 1) - (l + w + s.timers[y] + s.asked[y])
  BY <1>2, <1>3 DEF Owed
<1> QED BY <1>1, <1>2, <1>3, <1>4, <1>5

\* xfer_delete, of a listed transfer.
LEMMA DeleteListed ==
    ASSUME NEW s, NEW x \in Xfers, GoodBut(s, x), RowCore(s, x), Listed(s, x)
    PROVE  /\ Call(s, XferDelete(s, x), x)
           /\ \A y \in Xfers : Listed(XferDelete(s, x), y) <=> Listed(s, y) /\ y # x
<1> DEFINE u == Cancelled(s, x)
           t == XferRemove(u, x)
<1>0. s \in Queues
  BY DEF GoodBut
<1>1. XferDelete(s, x) = t
  BY DEF XferDelete, Cancelled
<1>2. /\ u \in Queues /\ u.list = s.list /\ Others(s, u, x)
      /\ RowIs(u, x, s.pause[x], s.worker[x], s.gone[x], s.tries[x],
               s.asked[x], s.timers[x], s.refs[x], TRUE,
               TRUE, s.known[x], s.resumed[x], s.again[x])
  BY <1>0, CancelledRow
<1> HIDE DEF u
<1>3. /\ GoodBut(u, x) /\ (\A y \in Xfers : Listed(u, y) = Listed(s, y))
      /\ (Listed(s, x) => Frame(s, u, x)) /\ (Owed(u, x) = Owed(s, x) => Even(s, u))
  BY <1>2, OneRow
<1>4. Owed(u, x) = Owed(s, x)
  BY <1>0, <1>2, OwedSame DEF RowIs, Working
<1>5. Removable(u, x)
  BY <1>2, <1>3 DEF Removable, RowCore, RowIs
<1>6. /\ Good(t) /\ Moves(t) /\ Frame(u, t, x) /\ Even(u, t)
      /\ \A y \in Xfers : Listed(t, y) <=> Listed(u, y) /\ y # x
  BY <1>5, RemoveGoes
<1> HIDE DEF t
<1>7. t \in Queues
  BY <1>6 DEF Good
<1>8. Frame(s, t, x) /\ Even(s, t)
  BY <1>0, <1>2, <1>3, <1>4, <1>6, <1>7, FrameTwo, EvenTwo
<1> QED BY <1>1, <1>3, <1>6, <1>8 DEF Call

\* And of one that is no longer listed.
LEMMA DeleteUnlisted ==
    ASSUME NEW s, NEW x \in Xfers, Good(s), Moves(s), ~Listed(s, x)
    PROVE  Call(s, XferDelete(s, x), x)
<1> DEFINE u == Cancelled(s, x)
<1>0. s \in Queues /\ GoodBut(s, x) /\ RowOK(s, x)
  BY GoodIsGoodBut
<1>2. /\ u \in Queues /\ u.list = s.list /\ Others(s, u, x)
      /\ RowIs(u, x, s.pause[x], s.worker[x], s.gone[x], s.tries[x],
               s.asked[x], s.timers[x], s.refs[x], TRUE,
               TRUE, s.known[x], s.resumed[x], s.again[x])
  BY <1>0, CancelledRow
<1>3. ~Listed(u, x)
  BY <1>2 DEF Listed
<1>4. XferDelete(s, x) = u
  BY <1>3 DEF XferDelete, XferRemove, Cancelled
<1> HIDE DEF u
<1>5. RowOK(u, x)
  <2>1. RowCore(u, x)
    BY <1>2, <1>3, <1>0, QueueAssumption DEF RowIs, RowOK, RowCore
  <2>2. RowPause(u, x)
    BY <1>2, <1>3, <1>0 DEF RowIs, RowOK, RowPause
  <2>3. RowTries(u, x)
    BY <1>2, <1>3, <1>0, QueueAssumption DEF RowIs, RowOK, RowTries, NoTries
  <2>4. RowToken(u, x)
    BY <1>2, <1>3, <1>0 DEF RowIs, RowOK, RowToken
  <2> QED BY <2>1, <2>2, <2>3, <2>4 DEF RowOK
<1>6. Owed(u, x) = Owed(s, x)
  BY <1>0, <1>2, OwedSame DEF RowIs, Working
<1>7. s.asked[x] \in Int /\ u.asked[x] = s.asked[x]
  BY <1>0, <1>2, RowTypes DEF RowIs
<1>8. u.asked[x] <= s.asked[x]
  BY <1>7
<1>9. Good(u) /\ Frame(s, u, x) /\ Even(s, u)
  BY <1>0, <1>2, <1>5, <1>6, <1>8, RowCall
<1>10. Moves(u)
  BY <1>2, RowMoves
<1> QED BY <1>4, <1>9, <1>10 DEF Call

\* A row that may be paused: no request, no worker.
Idle(s, x) ==
    /\ GoodBut(s, x) /\ RowCore(s, x) /\ RowTries(s, x) /\ Listed(s, x)
    /\ s.asked[x] = 0 /\ s.worker[x] = "none"

\* hold: a pause with a new token, and the queue moves on.
LEMMA HoldGoes ==
    ASSUME NEW s, NEW x \in Xfers, Idle(s, x), NEW p \in {"Paused", "Failed"}
    PROVE  Call(s, Hold(s, x, p), x)
<1> DEFINE u == Held(s, x, p)
<1>0. s \in Queues /\ GoodBut(s, x) /\ p \in Pauses
  BY DEF Idle, GoodBut, Pauses
<1>1. Hold(s, x, p) = StartNext(u)
  BY DEF Hold, Held
<1>2. /\ u \in Queues /\ u.list = s.list /\ Others(s, u, x)
      /\ RowIs(u, x, p, s.worker[x], s.gone[x], s.tries[x],
               s.asked[x], s.timers[x], s.refs[x], s.canceled[x],
               FALSE, s.known[x], s.resumed[x], s.again[x])
  BY <1>0, HeldRow
<1>3. Listed(u, x) /\ Listed(s, x)
  BY <1>2 DEF Listed, Idle
<1> HIDE DEF u
<1>5. RowOK(u, x)
  <2>1. RowCore(u, x)
    BY <1>2, <1>3, QueueAssumption DEF RowIs, Idle, RowCore
  <2>2. RowPause(u, x)
    BY <1>2, <1>3 DEF RowIs, Idle, RowPause
  <2>3. RowTries(u, x)
    BY <1>2, <1>3, QueueAssumption DEF RowIs, Idle, RowTries, NoTries
  <2>4. RowToken(u, x)
    BY <1>2, <1>3 DEF RowIs, Idle, RowToken
  <2> QED BY <2>1, <2>2, <2>3, <2>4 DEF RowOK
<1>6. Owed(u, x) = Owed(s, x)
  BY <1>0, <1>2, OwedSame DEF RowIs, Working
<1> QED BY <1>0, <1>1, <1>2, <1>3, <1>5, <1>6, ThenNext

\* A pause that keeps its token, and the queue moves on.
LEMMA PauseGoes ==
    ASSUME NEW s, NEW x \in Xfers, Idle(s, x), s.aborted[x] => s.canceled[x],
           NEW p \in {"Paused", "Changed"}
    PROVE  Call(s, StartNext(SetPause(s, x, p)), x)
<1> DEFINE u == SetPause(s, x, p)
<1>0. s \in Queues /\ GoodBut(s, x) /\ p \in Pauses
  BY DEF Idle, GoodBut, Pauses
<1>2. /\ u \in Queues /\ u.list = s.list /\ Others(s, u, x)
      /\ RowIs(u, x, p, s.worker[x], s.gone[x], s.tries[x],
               s.asked[x], s.timers[x], s.refs[x], s.canceled[x],
               s.aborted[x], s.known[x], s.resumed[x], s.again[x])
  BY <1>0, SetPauseRow
<1>3. Listed(u, x) /\ Listed(s, x)
  BY <1>2 DEF Listed, Idle
<1> HIDE DEF u
<1>5. RowOK(u, x)
  <2>1. RowCore(u, x)
    BY <1>2, <1>3, QueueAssumption DEF RowIs, Idle, RowCore
  <2>2. RowPause(u, x)
    BY <1>2, <1>3 DEF RowIs, Idle, RowPause
  <2>3. RowTries(u, x)
    BY <1>2, <1>3, QueueAssumption DEF RowIs, Idle, RowTries, NoTries
  <2>4. RowToken(u, x)
    BY <1>2, <1>3 DEF RowIs, Idle, RowToken
  <2> QED BY <2>1, <2>2, <2>3, <2>4 DEF RowOK
<1>6. Owed(u, x) = Owed(s, x)
  BY <1>0, <1>2, OwedSame DEF RowIs, Working
<1>7. Call(s, StartNext(u), x)
  BY <1>0, <1>2, <1>3, <1>5, <1>6, ThenNext
<1> QED BY <1>7 DEF u

\* The same for a folder upload that ended short.
LEMMA ShortGoes ==
    ASSUME NEW s, NEW x \in Xfers, Idle(s, x), s.aborted[x] => s.canceled[x],
           NEW p \in {"Paused", "Changed"}
    PROVE  Call(s, StartNext(Short(s, x, p)), x)
<1> DEFINE u == Short(s, x, p)
<1>0. s \in Queues /\ GoodBut(s, x) /\ p \in Pauses
  BY DEF Idle, GoodBut, Pauses
<1>2. /\ u \in Queues /\ u.list = s.list /\ Others(s, u, x)
      /\ RowIs(u, x, p, s.worker[x], s.gone[x], s.tries[x],
               s.asked[x], s.timers[x], s.refs[x], s.canceled[x],
               s.aborted[x], s.known[x], s.resumed[x], 0)
  BY <1>0, ShortRow
<1>3. Listed(u, x) /\ Listed(s, x)
  BY <1>2 DEF Listed, Idle
<1> HIDE DEF u
<1>5. RowOK(u, x)
  <2>1. RowCore(u, x)
    BY <1>2, <1>3, QueueAssumption DEF RowIs, Idle, RowCore
  <2>2. RowPause(u, x)
    BY <1>2, <1>3 DEF RowIs, Idle, RowPause
  <2>3. RowTries(u, x)
    BY <1>2, <1>3, QueueAssumption DEF RowIs, Idle, RowTries, NoTries
  <2>4. RowToken(u, x)
    BY <1>2, <1>3 DEF RowIs, Idle, RowToken
  <2> QED BY <2>1, <2>2, <2>3, <2>4 DEF RowOK
<1>6. Owed(u, x) = Owed(s, x)
  BY <1>0, <1>2, OwedSame DEF RowIs, Working
<1>7. Call(s, StartNext(u), x)
  BY <1>0, <1>2, <1>3, <1>5, <1>6, ThenNext
<1> QED BY <1>7 DEF u

\* What xfer_go does, case by case.
LEMMA GoCases ==
    ASSUME NEW s, NEW x, NEW disk
    PROVE  /\ Settled(s, x) /\ Upload(x) /\ disk = "changed" =>
                  XferGo(s, x, disk) = SetPause(s, x, "Changed")
           /\ Settled(s, x) /\ ~(Upload(x) /\ disk = "changed") =>
                  XferGo(s, x, disk) = Ask(Resumed(s, x), x)
           /\ ~Settled(s, x) /\ Waiting(s, x) => XferGo(s, x, disk) = Ask(Latched(s, x), x)
           /\ ~Settled(s, x) /\ ~Waiting(s, x) => XferGo(s, x, disk) = s
<1> DEFINE A == Settled(s, x)
           B == Upload(x) /\ disk = "changed"
           C == s.pause[x] = "None" /\ ~Folder(x) /\ ~s.gone[x]
           a == SetPause(s, x, "Changed")
           b == Ask(Resumed(s, x), x)
           c == Ask(Latched(s, x), x)
<1>1. XferGo(s, x, disk) =
        CASE A /\ B -> a [] A /\ ~B -> b [] C -> c [] OTHER -> s
  BY DEF XferGo, Resumed, Latched
<1>2. Waiting(s, x) <=> C
  BY DEF Waiting
<1>3. C => ~A
  BY DEF Settled
<1> HIDE DEF A, B, C, a, b, c
<1>4. /\ A /\ B => XferGo(s, x, disk) = a
      /\ A /\ ~B => XferGo(s, x, disk) = b
      /\ ~A /\ C => XferGo(s, x, disk) = c
      /\ ~A /\ ~C => XferGo(s, x, disk) = s
  BY <1>1, <1>3
<1> QED BY <1>2, <1>4 DEF A, B, a, b, c

\* A worker holds its own reference.
LEMMA OwedRun ==
    ASSUME NEW s \in Queues, NEW t, NEW y \in Xfers, t.list = s.list, Working(t, y), ~Working(s, y),
           t.refs[y] = s.refs[y] + 1, t.timers[y] = s.timers[y], t.asked[y] = s.asked[y]
    PROVE  Owed(t, y) = Owed(s, y)
<1> DEFINE l == Bit(Listed(s, y))
<1>1. s.refs[y] \in Int /\ s.timers[y] \in Int /\ s.asked[y] \in Int
  BY RowTypes
<1>2. l \in Int /\ Bit(Listed(t, y)) = l
  BY DEF Bit, Listed
<1>3. Bit(Working(t, y)) = 1 /\ Bit(Working(s, y)) = 0
  BY DEF Bit
<1> HIDE DEF l
<1>4. Owed(s, y) = s.refs[y] - (l + 0 + s.timers[y] + s.asked[y])
  BY <1>3 DEF Owed, l
<1>5. Owed(t, y) = (s.refs[y] + 1) - (l + 1 + s.timers[y] + s.asked[y])
  BY <1>2, <1>3 DEF Owed
<1> QED BY <1>1, <1>2, <1>4, <1>5

\* A file's latch is set and its request goes out.
LEMMA LatchGoes ==
    ASSUME NEW s, NEW x \in Xfers, Good(s), Listed(s, x), Waiting(s, x)
    PROVE  Call(s, Ask(Latched(s, x), x), x)
<1> DEFINE l == Latched(s, x)
           u == Ask(l, x)
<1>0. s \in Queues /\ GoodBut(s, x) /\ RowOK(s, x)
  BY GoodIsGoodBut
<1>1. /\ l \in Queues /\ l.list = s.list /\ Others(s, l, x)
      /\ RowIs(l, x, s.pause[x], s.worker[x], TRUE, s.tries[x],
               s.asked[x], s.timers[x], s.refs[x], s.canceled[x],
               s.aborted[x], s.known[x], s.resumed[x], s.again[x])
  BY <1>0, LatchedRow
<1> HIDE DEF l
<1>2. /\ u \in Queues /\ u.list = l.list /\ Others(l, u, x)
      /\ RowIs(u, x, l.pause[x], l.worker[x], l.gone[x], l.tries[x],
               l.asked[x] + 1, l.timers[x], l.refs[x] + 1, l.canceled[x],
               l.aborted[x], l.known[x], l.resumed[x], l.again[x])
  BY <1>1, AskRow
<1> HIDE DEF u
<1>3. /\ u.list = s.list /\ Others(s, u, x)
      /\ RowIs(u, x, s.pause[x], s.worker[x], TRUE, s.tries[x],
               s.asked[x] + 1, s.timers[x], s.refs[x] + 1, s.canceled[x],
               s.aborted[x], s.known[x], s.resumed[x], s.again[x])
  BY <1>1, <1>2 DEF Others, SameRow, RowIs
<1>4. Listed(u, x)
  BY <1>3 DEF Listed
<1>5. s.asked[x] = 0 /\ s.worker[x] = "none" /\ ~s.known[x] /\ s.pause[x] = "None"
  BY <1>0 DEF Waiting, RowOK, RowCore
<1>6. RowOK(u, x)
  <2>1. RowCore(u, x)
    BY <1>3, <1>4, <1>0, <1>5, QueueAssumption DEF RowIs, RowOK, RowCore
  <2>2. RowPause(u, x)
    BY <1>3, <1>4, <1>0, <1>5 DEF RowIs, RowOK, RowPause
  <2>3. RowTries(u, x)
    BY <1>3, <1>4, <1>0, <1>5, QueueAssumption DEF RowIs, RowOK, RowTries, NoTries
  <2>4. RowToken(u, x)
    BY <1>3, <1>4, <1>0, <1>5 DEF RowIs, RowOK, RowToken
  <2> QED BY <2>1, <2>2, <2>3, <2>4 DEF RowOK
<1>7. Owed(u, x) = Owed(s, x)
  BY <1>0, <1>3, OwedAsk DEF RowIs, Working
<1>8. Good(u) /\ Frame(s, u, x) /\ Even(s, u)
  BY <1>0, <1>2, <1>3, <1>6, <1>7, RowCall
<1>9. OnItsWay(u, x)
  BY <1>3, <1>5 DEF OnItsWay, Waiting, Paused, RowIs
<1>10. Moves(u)
  BY <1>3, <1>9, RowMoves
<1> QED BY <1>8, <1>10 DEF Call, u, l

\* A settled pause is resumed.
LEMMA ResumedGoes ==
    ASSUME NEW s, NEW x \in Xfers, Good(s), Settled(s, x)
    PROVE  Call(s, Ask(Resumed(s, x), x), x)
<1> DEFINE l == Resumed(s, x)
           u == Ask(l, x)
<1>0. s \in Queues /\ GoodBut(s, x) /\ RowOK(s, x)
  BY GoodIsGoodBut
<1>1. /\ l \in Queues /\ l.list = s.list /\ Others(s, l, x)
      /\ RowIs(l, x, "Asked", s.worker[x], ~Folder(x), s.tries[x],
               s.asked[x], s.timers[x], s.refs[x], s.canceled[x],
               s.aborted[x], s.known[x], (Kind[x] = "putfolder"), s.again[x])
  BY <1>0, ResumedRow
<1> HIDE DEF l
<1>2. /\ u \in Queues /\ u.list = l.list /\ Others(l, u, x)
      /\ RowIs(u, x, l.pause[x], l.worker[x], l.gone[x], l.tries[x],
               l.asked[x] + 1, l.timers[x], l.refs[x] + 1, l.canceled[x],
               l.aborted[x], l.known[x], l.resumed[x], l.again[x])
  BY <1>1, AskRow
<1> HIDE DEF u
<1>3. /\ u.list = s.list /\ Others(s, u, x)
      /\ RowIs(u, x, "Asked", s.worker[x], ~Folder(x), s.tries[x],
               s.asked[x] + 1, s.timers[x], s.refs[x] + 1, s.canceled[x],
               s.aborted[x], s.known[x], (Kind[x] = "putfolder"), s.again[x])
  BY <1>1, <1>2 DEF Others, SameRow, RowIs
<1>5. s.asked[x] = 0 /\ s.worker[x] = "none" /\ s.pause[x] \in {"Paused", "Failed"} /\ Listed(s, x)
  <2>1. s.pause[x] \in {"Paused", "Failed"} /\ Listed(s, x)
    BY <1>0 DEF Settled, RowOK, RowPause
  <2>2. s.asked[x] \in Int /\ s.asked[x] >= 0 /\ s.asked[x] <= 1
    BY <1>0, RowTypes DEF RowOK, RowCore
  <2>3. s.asked[x] # 1 /\ s.worker[x] = "none"
    BY <1>0, <2>1 DEF RowOK, RowPause
  <2> QED BY <2>1, <2>2, <2>3
<1>4. Listed(u, x)
  BY <1>3, <1>5 DEF Listed
<1>6. RowOK(u, x)
  <2>0. /\ Folder(x) \/ u.gone[x]
        /\ u.resumed[x] => Kind[x] = "putfolder"
    BY <1>3, Zenon DEF RowIs
  <2>5. /\ u.asked[x] = 1 /\ u.timers[x] = s.timers[x] /\ u.again[x] = s.again[x]
        /\ u.worker[x] = "none"
    BY <1>3, <1>5 DEF RowIs
  <2>1. RowCore(u, x)
    BY <1>0, <2>0, <2>5 DEF RowOK, RowCore
  <2>2. RowPause(u, x)
    BY <1>3, <1>4, <1>0, <1>5 DEF RowIs, RowOK, RowPause
  <2>3. RowTries(u, x)
    BY <1>3, <1>4, <1>0, <1>5, QueueAssumption DEF RowIs, RowOK, RowTries, NoTries
  <2>4. RowToken(u, x)
    BY <1>3, <1>4, <1>0, <1>5 DEF RowIs, RowOK, RowToken
  <2> QED BY <2>1, <2>2, <2>3, <2>4 DEF RowOK
<1>7. Owed(u, x) = Owed(s, x)
  BY <1>0, <1>3, OwedAsk DEF RowIs, Working
<1>8. Good(u) /\ Frame(s, u, x) /\ Even(s, u)
  BY <1>0, <1>2, <1>3, <1>5, <1>6, <1>7, RowCall
<1>9. OnItsWay(u, x)
  BY <1>3, <1>5 DEF OnItsWay, Waiting, Paused, RowIs
<1>10. Moves(u)
  BY <1>3, <1>5, <1>9, RowMoves
<1> QED BY <1>8, <1>10 DEF Call, u, l

\* xfer_go.  A folder upload that asks for itself again was not on its way.
LEMMA GoGoes ==
    ASSUME NEW s, NEW x \in Xfers, NEW disk, Good(s), Listed(s, x),
           Moves(s) \/ (Settled(s, x) /\ Kind[x] = "putfolder")
    PROVE  Call(s, XferGo(s, x, disk), x)
<1>0. s \in Queues /\ GoodBut(s, x) /\ RowOK(s, x)
  BY GoodIsGoodBut
<1>1. CASE Settled(s, x) /\ Upload(x) /\ disk = "changed"
  <2> DEFINE u == SetPause(s, x, "Changed")
  <2>1. XferGo(s, x, disk) = u
    BY <1>1, GoCases
  <2>2. "Changed" \in Pauses
    BY DEF Pauses
  <2>3. /\ u \in Queues /\ u.list = s.list /\ Others(s, u, x)
        /\ RowIs(u, x, "Changed", s.worker[x], s.gone[x], s.tries[x],
               s.asked[x], s.timers[x], s.refs[x], s.canceled[x],
               s.aborted[x], s.known[x], s.resumed[x], s.again[x])
    BY <1>0, <2>2, SetPauseRow
  <2> HIDE DEF u
  <2>4. Listed(u, x)
    BY <2>3 DEF Listed
  <2>5. s.pause[x] \in {"Paused", "Failed"} /\ s.worker[x] = "none" /\ s.asked[x] # 1
    BY <1>0, <1>1 DEF Settled, RowOK, RowPause
  <2>6. RowOK(u, x)
    <3>1. RowCore(u, x)
      BY <2>3, <2>4, <1>0, <2>5, QueueAssumption DEF RowIs, RowOK, RowCore
    <3>2. RowPause(u, x)
      BY <2>3, <2>4, <1>0, <2>5 DEF RowIs, RowOK, RowPause
    <3>3. RowTries(u, x)
      BY <2>3, <2>4, <1>0, <2>5, QueueAssumption DEF RowIs, RowOK, RowTries, NoTries
    <3>4. RowToken(u, x)
      BY <2>3, <2>4, <1>0, <2>5 DEF RowIs, RowOK, RowToken
    <3> QED BY <3>1, <3>2, <3>3, <3>4 DEF RowOK
  <2>7. Owed(u, x) = Owed(s, x)
    BY <1>0, <2>3, OwedSame DEF RowIs, Working
  <2>8. Good(u) /\ Frame(s, u, x) /\ Even(s, u)
    BY <1>0, <2>3, <2>6, <2>7, RowCall
  <2>9. Moves(u)
    <3>1. CASE Moves(s)
      <4>1. ~Waiting(u, x) /\ ~Stopped(s, x) /\ (OnItsWay(s, x) => OnItsWay(u, x))
        BY <2>3, <2>5 DEF RowIs, Waiting, Stopped, OnItsWay, Working, Paused
      <4> QED BY <2>3, <3>1, <4>1, RowMoves
    <3>2. CASE Kind[x] = "putfolder"
      <4>1. Stopped(u, x)
        BY <2>3, <3>2 DEF RowIs, Stopped
      <4> QED BY <2>3, <4>1, RowMoves
    <3> QED BY <3>1, <3>2
  <2> QED BY <2>1, <2>8, <2>9 DEF Call
<1>2. CASE Settled(s, x) /\ ~(Upload(x) /\ disk = "changed")
  <2>1. XferGo(s, x, disk) = Ask(Resumed(s, x), x)
    BY <1>2, GoCases
  <2> QED BY <1>2, <2>1, ResumedGoes
<1>3. CASE ~Settled(s, x) /\ Waiting(s, x)
  <2>1. XferGo(s, x, disk) = Ask(Latched(s, x), x)
    BY <1>3, GoCases
  <2> QED BY <1>3, <2>1, LatchGoes
<1>4. CASE ~Settled(s, x) /\ ~Waiting(s, x)
  <2>1. XferGo(s, x, disk) = s
    BY <1>4, GoCases
  <2> QED BY <1>4, <2>1, Stays DEF Call
<1> QED BY <1>1, <1>2, <1>3, <1>4

\* xfer_go and resume_folder.
LEMMA ResumeGoes ==
    ASSUME NEW s, NEW x \in Xfers, NEW disk, Good(s), Listed(s, x),
           Moves(s) \/ (Settled(s, x) /\ Kind[x] = "putfolder")
    PROVE  Call(s, Resume(s, x, disk), x)
<1>1. CASE disk = "sent" /\ Settled(s, x)
  <2>1. Resume(s, x, disk) = XferRemove(s, x)
    BY <1>1 DEF Resume
  <2>2. GoodBut(s, x) /\ RowOK(s, x)
    BY GoodIsGoodBut
  <2>3. s.worker[x] = "none"
    BY <1>1, <2>2 DEF Settled, RowOK, RowPause
  <2>4. Removable(s, x)
    BY <2>2, <2>3 DEF Removable, RowOK
  <2> QED BY <2>1, <2>4, RemoveGoes DEF Call
<1>2. CASE ~(disk = "sent" /\ Settled(s, x))
  <2>1. Resume(s, x, disk) = XferGo(s, x, disk)
    BY <1>2 DEF Resume
  <2> QED BY <2>1, GoGoes
<1> QED BY <1>1, <1>2

\* xfer_ready_write.
LEMMA ReadyWriteGoes ==
    ASSUME NEW s, NEW x \in Xfers, Good(s), Listed(s, x), Moves(s),
           s.pause[x] = "None" => s.asked[x] = 0, Folder(x) \/ s.gone[x]
    PROVE  Call(s, ReadyWrite(s, x), x)
<1>0. s \in Queues /\ GoodBut(s, x) /\ RowOK(s, x)
  BY GoodIsGoodBut
<1>1. CASE s.pause[x] # "None" \/ Working(s, x)
  <2>1. ReadyWrite(s, x) = s
    BY <1>1 DEF ReadyWrite
  <2> QED BY <2>1, Stays DEF Call
<1>2. CASE ~(s.pause[x] # "None" \/ Working(s, x))
  <2> DEFINE u == Runs(s, x)
  <2>1. ReadyWrite(s, x) = u
    BY <1>2 DEF ReadyWrite, Runs
  <2>2. /\ u \in Queues /\ u.list = s.list /\ Others(s, u, x)
        /\ RowIs(u, x, s.pause[x], "run", s.gone[x], s.tries[x],
               s.asked[x], s.timers[x], s.refs[x] + 1, s.canceled[x],
               s.aborted[x], s.known[x], s.resumed[x], s.again[x])
    BY <1>0, RunsRow
  <2> HIDE DEF u
  <2>3. Listed(u, x)
    BY <2>2 DEF Listed
  <2>4. s.pause[x] = "None" /\ s.worker[x] = "none" /\ s.asked[x] = 0
    BY <1>2 DEF Working
  <2>5. RowOK(u, x)
    <3>1. RowCore(u, x)
      BY <2>2, <2>3, <1>0, <2>4, QueueAssumption DEF RowIs, RowOK, RowCore
    <3>2. RowPause(u, x)
      BY <2>2, <2>3, <1>0, <2>4 DEF RowIs, RowOK, RowPause
    <3>3. RowTries(u, x)
      BY <2>2, <2>3, <1>0, <2>4, QueueAssumption DEF RowIs, RowOK, RowTries, NoTries
    <3>4. RowToken(u, x)
      BY <2>2, <2>3, <1>0, <2>4 DEF RowIs, RowOK, RowToken
    <3> QED BY <3>1, <3>2, <3>3, <3>4 DEF RowOK
  <2>6. Owed(u, x) = Owed(s, x)
    BY <1>0, <2>2, <2>4, OwedRun DEF RowIs, Working
  <2>7. Good(u) /\ Frame(s, u, x) /\ Even(s, u)
    BY <1>0, <2>2, <2>5, <2>6, RowCall
  <2>8. OnItsWay(u, x)
    BY <2>2 DEF OnItsWay, Working, RowIs
  <2>9. Moves(u)
    BY <2>2, <2>8, RowMoves
  <2> QED BY <2>1, <2>7, <2>9 DEF Call
<1> QED BY <1>1, <1>2

-----------------------------------------------------------------------------
(* Replies.                                                                 *)

\* A queue whose reply to x has been taken: it was on its way, not paused.
Replied(s, x) ==
    /\ Good(s) /\ Moves(s) /\ s.asked[x] = 0 /\ s.worker[x] = "none"
    /\ Folder(x) \/ s.gone[x]
    /\ Listed(s, x) => s.pause[x] \in {"None", "Asked", "Restarted"}

\* Its row may be paused, and its token is used only if it is cancelled.
LEMMA RepliedIdle ==
    ASSUME NEW s, NEW x \in Xfers, Replied(s, x), Listed(s, x)
    PROVE  /\ Idle(s, x) /\ (s.aborted[x] => s.canceled[x])
           /\ s \in Queues /\ GoodBut(s, x) /\ RowOK(s, x) /\ Good(s) /\ Moves(s)
<1>1. Good(s) /\ Moves(s)
  BY DEF Replied
<1>2. s \in Queues /\ GoodBut(s, x) /\ RowOK(s, x)
  BY <1>1, GoodIsGoodBut
<1>3. Idle(s, x)
  BY <1>2 DEF Idle, RowOK, Replied
<1>4. s.aborted[x] => s.canceled[x]
  BY <1>2 DEF RowOK, RowToken, Replied
<1> QED BY <1>1, <1>2, <1>3, <1>4

\* download_ready and upload_ready.
LEMMA ReadyGoes ==
    ASSUME NEW s, NEW x \in Xfers, NEW place, Replied(s, x), Listed(s, x)
    PROVE  Call(s, Ready(s, x, place), x)
<1> DEFINE l == Answered(s, x)
           u == Knows(l, x)
           pause == IF s.pause[x] \in {"Asked", "Restarted"} THEN "None" ELSE s.pause[x]
           resumed == s.resumed[x] /\ s.pause[x] # "Restarted"
           again == IF s.pause[x] = "Restarted" THEN 0 ELSE s.again[x]
<1>0. /\ s \in Queues /\ GoodBut(s, x) /\ RowOK(s, x) /\ Good(s)
      /\ (s.aborted[x] => s.canceled[x])
  BY RepliedIdle
<1>1. /\ l \in Queues /\ l.list = s.list /\ Others(s, l, x)
      /\ RowIs(l, x, pause, s.worker[x], s.gone[x], NoTries,
               s.asked[x], s.timers[x], s.refs[x], s.canceled[x],
               s.aborted[x], s.known[x], resumed, again)
  BY <1>0, AnsweredRow
<1> HIDE DEF l
<1>2. /\ u \in Queues /\ u.list = l.list /\ Others(l, u, x)
      /\ RowIs(u, x, l.pause[x], l.worker[x], l.gone[x], l.tries[x],
               l.asked[x], l.timers[x], l.refs[x], l.canceled[x],
               l.aborted[x], TRUE, l.resumed[x], l.again[x])
  BY <1>1, KnowsRow
<1> HIDE DEF u
<1>3. pause = "None" /\ (resumed => s.resumed[x]) /\ (again = 0 \/ again = s.again[x])
  BY DEF Replied
<1> HIDE DEF pause, resumed, again
<1>4. /\ u.list = s.list /\ Others(s, u, x)
      /\ RowIs(u, x, "None", s.worker[x], s.gone[x], NoTries,
               s.asked[x], s.timers[x], s.refs[x], s.canceled[x],
               s.aborted[x], TRUE, resumed, again)
  BY <1>1, <1>2, <1>3 DEF Others, SameRow, RowIs
<1>5. Listed(u, x)
  BY <1>4 DEF Listed
<1>6. s.asked[x] = 0 /\ s.worker[x] = "none" /\ (Folder(x) \/ s.gone[x])
  BY DEF Replied
<1>7. RowOK(u, x)
  <2>1. RowCore(u, x)
    BY <1>4, <1>5, <1>0, <1>3, <1>6, QueueAssumption DEF RowIs, RowOK, RowCore
  <2>2. RowPause(u, x)
    BY <1>4, <1>5, <1>0, <1>3, <1>6 DEF RowIs, RowOK, RowPause
  <2>3. RowTries(u, x)
    BY <1>4, <1>5, <1>0, <1>3, <1>6, QueueAssumption DEF RowIs, RowOK, RowTries, NoTries
  <2>4. RowToken(u, x)
    BY <1>4, <1>5, <1>0, <1>3, <1>6 DEF RowIs, RowOK, RowToken
  <2> QED BY <2>1, <2>2, <2>3, <2>4 DEF RowOK
<1>8. Owed(u, x) = Owed(s, x)
  BY <1>0, <1>4, OwedSame DEF RowIs, Working
<1>9. Good(u) /\ Frame(s, u, x) /\ Even(s, u)
  BY <1>0, <1>2, <1>4, <1>7, <1>8, RowCall
<1>10. OnItsWay(u, x) /\ u.asked[x] = 0 /\ (Folder(x) \/ u.gone[x])
  BY <1>4, <1>6 DEF OnItsWay, Waiting, Paused, RowIs
<1>11. Moves(u)
  BY <1>4, <1>10, RowMoves
<1>12. Ready(s, x, place) = IF place = 0 THEN ReadyWrite(u, x) ELSE u
  BY DEF Ready, Knows, u, l
<1>13. CASE place = 0
  <2> DEFINE t == ReadyWrite(u, x)
  <2>1. Call(u, t, x)
    BY <1>5, <1>9, <1>10, <1>11, ReadyWriteGoes
  <2> HIDE DEF t
  <2>2. t \in Queues
    BY <2>1 DEF Call, Good
  <2>3. Frame(s, t, x) /\ Even(s, t)
    BY <1>0, <1>2, <1>9, <2>1, <2>2, FrameTwo, EvenTwo DEF Call
  <2>4. Call(s, t, x)
    BY <2>1, <2>3 DEF Call
  <2> QED BY <1>12, <1>13, <2>4 DEF t
<1>14. CASE place # 0
  BY <1>9, <1>11, <1>12, <1>14 DEF Call
<1> QED BY <1>13, <1>14

\* queued_refused: the retry is counted, and its timer holds the transfer.
LEMMA QueuedRefusedGoes ==
    ASSUME NEW s, NEW x \in Xfers, Replied(s, x), Listed(s, x), s.tries[x] \in 0..(QueueTries - 1)
    PROVE  Call(s, QueuedRefused(s, x), x)
<1> DEFINE u == QueuedRefused(s, x)
<1>0. s \in Queues /\ GoodBut(s, x) /\ RowOK(s, x) /\ (s.aborted[x] => s.canceled[x])
  BY RepliedIdle
<1>1. /\ u \in Queues /\ u.list = s.list /\ Others(s, u, x)
      /\ RowIs(u, x, s.pause[x], s.worker[x], FALSE, s.tries[x] + 1,
               s.asked[x], s.timers[x] + 1, s.refs[x] + 1, s.canceled[x],
               s.aborted[x], s.known[x], s.resumed[x], s.again[x])
  BY <1>0, QueuedRefusedRow
<1> HIDE DEF u
<1>2. Listed(u, x)
  BY <1>1 DEF Listed
<1>3. s.asked[x] = 0 /\ s.worker[x] = "none"
  BY DEF Replied
<1>4. /\ s.tries[x] \in Int /\ s.timers[x] \in Int /\ 0 <= s.tries[x]
      /\ s.tries[x] + 1 <= QueueTries /\ 0 <= s.timers[x] /\ s.timers[x] <= s.tries[x]
      /\ (~Folder(x) => ~s.known[x])
  <2>1. s.tries[x] \in Int /\ s.timers[x] \in Int
    BY <1>0, RowTypes
  <2>2. s.tries[x] # NoTries /\ 0 <= s.tries[x] /\ s.tries[x] + 1 <= QueueTries
    BY QueueAssumption, <2>1 DEF NoTries
  <2>3. 0 <= s.timers[x]
    BY <1>0, <2>1 DEF RowOK, RowCore
  <2> QED BY <1>0, <2>1, <2>2, <2>3 DEF RowOK, RowTries
<1>5. RowOK(u, x)
  <2>1. RowCore(u, x)
    BY <1>1, <1>2, <1>0, <1>3, <1>4, QueueAssumption DEF RowIs, RowOK, RowCore
  <2>2. RowPause(u, x)
    BY <1>1, <1>2, <1>0, <1>3, <1>4 DEF RowIs, RowOK, RowPause
  <2>3. RowTries(u, x)
    BY <1>1, <1>2, <1>0, <1>3, <1>4, QueueAssumption DEF RowIs, RowOK, RowTries, NoTries
  <2>4. RowToken(u, x)
    BY <1>1, <1>2, <1>0, <1>3, <1>4 DEF RowIs, RowOK, RowToken
  <2> QED BY <2>1, <2>2, <2>3, <2>4 DEF RowOK
<1>6. Owed(u, x) = Owed(s, x)
  BY <1>0, <1>1, OwedTimer DEF RowIs, Working
<1>7. Good(u) /\ Frame(s, u, x) /\ Even(s, u)
  BY <1>0, <1>1, <1>5, <1>6, RowCall
<1>8. OnItsWay(u, x)
  BY <1>1, <1>4 DEF OnItsWay, RowIs
<1>9. Moves(u)
  BY <1>1, <1>8, RowMoves
<1> QED BY <1>7, <1>9 DEF Call, u

\* What the refusals do, case by case.
LEMMA RefusedCases ==
    ASSUME NEW s, NEW x
    PROVE  /\ s.pause[x] = "Asked" => DownloadRefused(s, x) = StartNext(SetPause(s, x, "Paused"))
           /\ s.pause[x] # "Asked" /\ s.tries[x] \in 0..(QueueTries - 1) =>
                  DownloadRefused(s, x) = QueuedRefused(s, x)
           /\ s.pause[x] # "Asked" /\ ~(s.tries[x] \in 0..(QueueTries - 1)) =>
                  DownloadRefused(s, x) = XferDelete(SetTries(s, x, NoTries), x)
           /\ s.pause[x] = "Asked" => UploadRefused(s, x) = Ask(SetPause(s, x, "Restarted"), x)
           /\ s.pause[x] = "Restarted" => UploadRefused(s, x) = StartNext(SetPause(s, x, "Paused"))
           /\ s.pause[x] # "Asked" /\ s.pause[x] # "Restarted" => UploadRefused(s, x) = XferDelete(s, x)
<1> DEFINE A == s.pause[x] = "Asked"
           B == s.tries[x] \in 0..(QueueTries - 1)
           R == s.pause[x] = "Restarted"
           a == StartNext(SetPause(s, x, "Paused"))
           b == QueuedRefused(s, x)
           c == XferDelete(SetTries(s, x, NoTries), x)
           d == Ask(SetPause(s, x, "Restarted"), x)
           e == XferDelete(s, x)
<1>1. DownloadRefused(s, x) = CASE A -> a [] ~A /\ B -> b [] OTHER -> c
  BY DEF DownloadRefused
<1>2. UploadRefused(s, x) = CASE A -> d [] R -> a [] OTHER -> e
  BY DEF UploadRefused
<1>3. A => ~R
  OBVIOUS
<1> HIDE DEF A, B, R, a, b, c, d, e
<1>4. /\ A => DownloadRefused(s, x) = a
      /\ ~A /\ B => DownloadRefused(s, x) = b
      /\ ~A /\ ~B => DownloadRefused(s, x) = c
  BY <1>1
<1>5. /\ A => UploadRefused(s, x) = d
      /\ R => UploadRefused(s, x) = a
      /\ ~A /\ ~R => UploadRefused(s, x) = e
  BY <1>2, <1>3
<1> QED BY <1>4, <1>5 DEF A, B, R, a, b, c, d, e

\* download_refused.
LEMMA DownloadRefusedGoes ==
    ASSUME NEW s, NEW x \in Xfers, Replied(s, x), Listed(s, x)
    PROVE  Call(s, DownloadRefused(s, x), x)
<1>0. /\ Idle(s, x) /\ (s.aborted[x] => s.canceled[x])
      /\ s \in Queues /\ GoodBut(s, x) /\ RowOK(s, x)
  BY RepliedIdle
<1>1. CASE s.pause[x] = "Asked"
  BY <1>0, <1>1, PauseGoes, RefusedCases
<1>2. CASE s.pause[x] # "Asked" /\ s.tries[x] \in 0..(QueueTries - 1)
  BY <1>2, QueuedRefusedGoes, RefusedCases
<1>3. CASE s.pause[x] # "Asked" /\ ~(s.tries[x] \in 0..(QueueTries - 1))
  <2> DEFINE u == SetTries(s, x, NoTries)
             t == XferDelete(u, x)
  <2>1. DownloadRefused(s, x) = t
    BY <1>3, RefusedCases
  <2>2. NoTries \in Int
    BY DEF NoTries
  <2>3. /\ u \in Queues /\ u.list = s.list /\ Others(s, u, x)
        /\ RowIs(u, x, s.pause[x], s.worker[x], s.gone[x], NoTries,
               s.asked[x], s.timers[x], s.refs[x], s.canceled[x],
               s.aborted[x], s.known[x], s.resumed[x], s.again[x])
    BY <1>0, <2>2, SetTriesRow
  <2> HIDE DEF u
  <2>4. /\ GoodBut(u, x) /\ Frame(s, u, x)
        /\ Owed(u, x) = Owed(s, x) => Even(s, u)
    BY <1>0, <2>3, OneRow
  <2>5. Owed(u, x) = Owed(s, x)
    BY <1>0, <2>3, OwedSame DEF RowIs, Working
  <2>6. RowCore(u, x) /\ Listed(u, x)
    BY <1>0, <2>3 DEF RowIs, RowOK, RowCore, Listed
  <2>7. Call(u, t, x)
    BY <2>4, <2>6, DeleteListed
  <2> HIDE DEF t
  <2>8. t \in Queues
    BY <2>7 DEF Call, Good
  <2>9. Frame(s, t, x) /\ Even(s, t)
    BY <1>0, <2>3, <2>4, <2>5, <2>7, <2>8, FrameTwo, EvenTwo DEF Call
  <2> QED BY <2>1, <2>7, <2>9 DEF Call
<1> QED BY <1>1, <1>2, <1>3

\* upload_resume_refused.
LEMMA UploadRefusedGoes ==
    ASSUME NEW s, NEW x \in Xfers, Replied(s, x), Listed(s, x)
    PROVE  Call(s, UploadRefused(s, x), x)
<1>0. /\ Idle(s, x) /\ (s.aborted[x] => s.canceled[x])
      /\ s \in Queues /\ GoodBut(s, x) /\ RowOK(s, x)
  BY RepliedIdle
<1>1. CASE s.pause[x] = "Asked"
  <2> DEFINE l == SetPause(s, x, "Restarted")
             u == Ask(l, x)
  <2>0. "Restarted" \in Pauses
    BY DEF Pauses
  <2>1. /\ l \in Queues /\ l.list = s.list /\ Others(s, l, x)
        /\ RowIs(l, x, "Restarted", s.worker[x], s.gone[x], s.tries[x],
               s.asked[x], s.timers[x], s.refs[x], s.canceled[x],
               s.aborted[x], s.known[x], s.resumed[x], s.again[x])
    BY <1>0, <2>0, SetPauseRow
  <2> HIDE DEF l
  <2>2. /\ u \in Queues /\ u.list = l.list /\ Others(l, u, x)
        /\ RowIs(u, x, l.pause[x], l.worker[x], l.gone[x], l.tries[x],
               l.asked[x] + 1, l.timers[x], l.refs[x] + 1, l.canceled[x],
               l.aborted[x], l.known[x], l.resumed[x], l.again[x])
    BY <2>1, AskRow
  <2> HIDE DEF u
  <2>3. /\ u.list = s.list /\ Others(s, u, x)
        /\ RowIs(u, x, "Restarted", s.worker[x], s.gone[x], s.tries[x],
               s.asked[x] + 1, s.timers[x], s.refs[x] + 1, s.canceled[x],
               s.aborted[x], s.known[x], s.resumed[x], s.again[x])
    BY <2>1, <2>2 DEF Others, SameRow, RowIs
  <2>4. Listed(u, x)
    BY <2>3 DEF Listed
  <2>5. s.asked[x] = 0 /\ s.worker[x] = "none" /\ (Folder(x) \/ s.gone[x])
    BY DEF Replied
  <2>6. RowOK(u, x)
    <3>1. RowCore(u, x)
      BY <2>3, <2>4, <1>0, <2>5, QueueAssumption DEF RowIs, RowOK, RowCore
    <3>2. RowPause(u, x)
      BY <2>3, <2>4, <1>0, <2>5 DEF RowIs, RowOK, RowPause
    <3>3. RowTries(u, x)
      BY <2>3, <2>4, <1>0, <2>5, QueueAssumption DEF RowIs, RowOK, RowTries, NoTries
    <3>4. RowToken(u, x)
      BY <2>3, <2>4, <1>0, <2>5 DEF RowIs, RowOK, RowToken
    <3> QED BY <3>1, <3>2, <3>3, <3>4 DEF RowOK
  <2>7. Owed(u, x) = Owed(s, x)
    BY <1>0, <2>3, OwedAsk DEF RowIs, Working
  <2>8. Good(u) /\ Frame(s, u, x) /\ Even(s, u)
    BY <1>0, <2>2, <2>3, <2>6, <2>7, RowCall
  <2>9. OnItsWay(u, x)
    BY <2>3 DEF OnItsWay, Waiting, Paused, RowIs
  <2>10. Moves(u)
    BY <2>3, <2>9, RowMoves
  <2>11. UploadRefused(s, x) = u
    BY <1>1, RefusedCases DEF u, l
  <2> QED BY <2>8, <2>10, <2>11 DEF Call
<1>2. CASE s.pause[x] = "Restarted"
  BY <1>0, <1>2, PauseGoes, RefusedCases
<1>3. CASE s.pause[x] # "Asked" /\ s.pause[x] # "Restarted"
  <2>1. RowCore(s, x)
    BY <1>0 DEF RowOK
  <2> QED BY <1>0, <1>3, <2>1, DeleteListed, RefusedCases
<1> QED BY <1>1, <1>2, <1>3

\* What is done with a reply.
LEMMA HandleGoes ==
    ASSUME NEW s, NEW x \in Xfers, Replied(s, x),
           NEW r \in {"ready", "refused", "larger", "nothing"}, NEW place
    PROVE  Call(s, Handle(s, x, r, place), x)
<1>1. CASE ~Listed(s, x) \/ r = "nothing"
  <2>1. Handle(s, x, r, place) = s
    BY <1>1 DEF Handle
  <2> QED BY <2>1, Stays DEF Call, Replied
<1>2. CASE Listed(s, x) /\ r = "ready"
  <2>1. Handle(s, x, r, place) = Ready(s, x, place)
    BY <1>2 DEF Handle
  <2> QED BY <1>2, <2>1, ReadyGoes
<1>3. CASE Listed(s, x) /\ r = "refused"
  <2>1. Handle(s, x, r, place) = IF Upload(x) THEN UploadRefused(s, x) ELSE DownloadRefused(s, x)
    BY <1>3 DEF Handle
  <2> QED BY <1>3, <2>1, UploadRefusedGoes, DownloadRefusedGoes
<1>4. CASE Listed(s, x) /\ r = "larger"
  <2>1. Handle(s, x, r, place) = UploadLarger(s, x)
    BY <1>4 DEF Handle
  <2>2. Idle(s, x) /\ (s.aborted[x] => s.canceled[x])
    BY <1>4, RepliedIdle
  <2>3. UploadLarger(s, x) = StartNext(SetPause(s, x, "Changed"))
           \/ UploadLarger(s, x) = UploadRefused(s, x)
    BY DEF UploadLarger
  <2> QED BY <1>4, <2>1, <2>2, <2>3, PauseGoes, UploadRefusedGoes
<1> QED BY <1>1, <1>2, <1>3, <1>4

-----------------------------------------------------------------------------
(* Workers that returned.                                                   *)

\* A change that needs no more of the queue, and then a call.
LEMMA ThenCall ==
    ASSUME NEW x \in Xfers, NEW s \in Queues, NEW u \in Queues, NEW t,
           Frame(s, u, x), Even(s, u), Call(u, t, x)
    PROVE  Call(s, t, x)
<1>1. t \in Queues
  BY DEF Call, Good
<1>2. Frame(s, t, x) /\ Even(s, t)
  BY <1>1, FrameTwo, EvenTwo DEF Call
<1> QED BY <1>2 DEF Call

\* A row without request or worker, pause and token aside; it may be unlisted.
Over(s, x) ==
    /\ GoodBut(s, x) /\ RowCore(s, x) /\ RowTries(s, x)
    /\ s.asked[x] = 0 /\ s.worker[x] = "none"
    /\ Listed(s, x) \/ (Good(s) /\ Moves(s))

\* Kept to be retried, or unlinked.
LEMMA FinishGoes ==
    ASSUME NEW s, NEW x \in Xfers, NEW out, Over(s, x)
    PROVE  Call(s, Finish(s, x, out), x)
<1>1. CASE out = "failed" /\ ~s.canceled[x] /\ Resumable(x) /\ Listed(s, x)
  <2>1. Finish(s, x, out) = Hold(s, x, "Failed")
    BY <1>1 DEF Finish
  <2>2. Idle(s, x)
    BY <1>1 DEF Over, Idle
  <2> QED BY <2>1, <2>2, HoldGoes
<1>2. CASE ~(out = "failed" /\ ~s.canceled[x] /\ Resumable(x) /\ Listed(s, x)) /\ Listed(s, x)
  <2>1. Finish(s, x, out) = XferRemove(s, x)
    BY <1>2 DEF Finish
  <2>2. Removable(s, x)
    BY <1>2 DEF Over, Removable
  <2> QED BY <2>1, <2>2, RemoveGoes DEF Call
<1>3. CASE ~Listed(s, x)
  <2>1. Finish(s, x, out) = s
    BY <1>3 DEF Finish, XferRemove
  <2>2. Good(s) /\ Moves(s)
    BY <1>3 DEF Over
  <2> QED BY <2>1, <2>2, Stays DEF Call
<1> QED BY <1>1, <1>2, <1>3

\* What is done with a worker's return, case by case.
LEMMA SettleCases ==
    ASSUME NEW s, NEW x, NEW out, NEW disk, NEW full
    PROVE  /\ s.pause[x] = "Winding" =>
                  \/ Settle(s, x, out, disk, full) = Finish(SetPause(s, x, "None"), x, out)
                  \/ Settle(s, x, out, disk, full) = Hold(s, x, "Paused")
           /\ s.pause[x] # "Winding" =>
                  \/ Settle(s, x, out, disk, full) = Finish(s, x, out)
                  \/ /\ out \in {"again", "changed", "reoffer"} /\ Listed(s, x)
                     /\ Settle(s, x, out, disk, full) = SettleStop(s, x, out, disk)
<1> DEFINE W == s.pause[x] = "Winding"
           E == Finished(x, out, full)
           B == out \in {"again", "changed", "reoffer"} /\ Listed(s, x) /\ ~s.canceled[x]
           a == Finish(SetPause(s, x, "None"), x, out)
           b == Hold(s, x, "Paused")
           c == SettleStop(s, x, out, disk)
           d == Finish(s, x, out)
<1>1. Settle(s, x, out, disk, full) =
          CASE W -> IF E THEN a ELSE b [] ~W /\ B -> c [] OTHER -> d
  BY DEF Settle
<1> HIDE DEF W, E, B, a, b, c, d
<1>2. /\ W => Settle(s, x, out, disk, full) = a \/ Settle(s, x, out, disk, full) = b
      /\ ~W /\ B => Settle(s, x, out, disk, full) = c
      /\ ~W /\ ~B => Settle(s, x, out, disk, full) = d
  BY <1>1
<1> QED BY <1>2 DEF W, B, a, b, c, d

\* settle_pause and the rest of xfer_cleanup_dispatch.
LEMMA SettleGoes ==
    ASSUME NEW s, NEW x \in Xfers, NEW out, NEW disk, NEW full, Good(s), Moves(s) \/ Listed(s, x),
           s.asked[x] = 0, s.worker[x] = "none",
           out \in {"again", "changed", "reoffer"} => Kind[x] = "putfolder"
    PROVE  Call(s, Settle(s, x, out, disk, full), x)
<1>0. s \in Queues /\ GoodBut(s, x) /\ RowOK(s, x) /\ RowCore(s, x) /\ RowTries(s, x)
  BY GoodIsGoodBut DEF RowOK
<1>1. CASE s.pause[x] = "Winding"
  <2>1. Listed(s, x)
    BY <1>0, <1>1 DEF RowOK, RowPause
  <2> DEFINE u == SetPause(s, x, "None")
  <2>2. "None" \in Pauses
    BY DEF Pauses
  <2>3. /\ u \in Queues /\ u.list = s.list /\ Others(s, u, x)
        /\ RowIs(u, x, "None", s.worker[x], s.gone[x], s.tries[x],
               s.asked[x], s.timers[x], s.refs[x], s.canceled[x],
               s.aborted[x], s.known[x], s.resumed[x], s.again[x])
    BY <1>0, <2>2, SetPauseRow
  <2> HIDE DEF u
  <2>4. GoodBut(u, x) /\ Frame(s, u, x) /\ (Owed(u, x) = Owed(s, x) => Even(s, u))
    BY <1>0, <2>1, <2>3, OneRow
  <2>5. Owed(u, x) = Owed(s, x)
    BY <1>0, <2>3, OwedSame DEF RowIs, Working
  <2>6. Listed(u, x)
    BY <2>1, <2>3 DEF Listed
  <2>7. RowCore(u, x)
    BY <1>0, <2>3 DEF RowIs, RowCore
  <2>8. RowTries(u, x)
    BY <1>0, <2>1, <2>3, <2>6 DEF RowIs, RowTries
  <2>9. Over(u, x)
    BY <2>3, <2>4, <2>6, <2>7, <2>8 DEF Over, RowIs
  <2>10. Call(u, Finish(u, x, out), x)
    BY <2>9, FinishGoes
  <2>11. Call(s, Finish(u, x, out), x)
    BY <1>0, <2>3, <2>4, <2>5, <2>10, ThenCall
  <2>12. Idle(s, x)
    BY <1>0, <2>1 DEF Idle
  <2>13. Call(s, Hold(s, x, "Paused"), x)
    BY <2>12, HoldGoes
  <2>14. \/ Settle(s, x, out, disk, full) = Finish(u, x, out)
         \/ Settle(s, x, out, disk, full) = Hold(s, x, "Paused")
    BY <1>1, SettleCases DEF u
  <2> QED BY <2>11, <2>13, <2>14
<1>2. CASE Settle(s, x, out, disk, full) = Finish(s, x, out)
  <2>1. Over(s, x)
    BY <1>0 DEF Over
  <2> QED BY <1>2, <2>1, FinishGoes
<1>3. CASE /\ s.pause[x] # "Winding"
           /\ out \in {"again", "changed", "reoffer"} /\ Listed(s, x)
           /\ Settle(s, x, out, disk, full) = SettleStop(s, x, out, disk)
  <2>0. s.aborted[x] => s.canceled[x]
    BY <1>0, <1>3 DEF RowOK, RowToken
  <2>1. CASE out = "again" /\ s.again[x] < AgainTries
    <3> DEFINE u == OnceMore(s, x)
    <3>1. SettleStop(s, x, out, disk) = Resume(u, x, disk)
      BY <2>1 DEF SettleStop, OnceMore
    <3>2. /\ u \in Queues /\ u.list = s.list /\ Others(s, u, x)
          /\ RowIs(u, x, "Paused", s.worker[x], s.gone[x], s.tries[x],
               s.asked[x], s.timers[x], s.refs[x], s.canceled[x],
               s.aborted[x], s.known[x], s.resumed[x], s.again[x] + 1)
      BY <1>0, OnceMoreRow
    <3> HIDE DEF u
    <3>3. Listed(u, x)
      BY <1>3, <3>2 DEF Listed
    <3>4. s.again[x] \in Int
      BY <1>0, RowTypes
    <3>5. RowOK(u, x)
      <4>1. RowCore(u, x)
        BY <3>2, <3>3, <1>0, <1>3, <2>0, <2>1, <3>4, QueueAssumption DEF RowIs, RowOK, RowCore
      <4>2. RowPause(u, x)
        BY <3>2, <3>3, <1>0, <1>3, <2>0, <2>1, <3>4 DEF RowIs, RowOK, RowPause
      <4>3. RowTries(u, x)
        BY <3>2, <3>3, <1>0, <1>3, <2>0, <2>1, <3>4, QueueAssumption
           DEF RowIs, RowOK, RowTries, NoTries
      <4>4. RowToken(u, x)
        BY <3>2, <3>3, <1>0, <1>3, <2>0, <2>1, <3>4 DEF RowIs, RowOK, RowToken
      <4> QED BY <4>1, <4>2, <4>3, <4>4 DEF RowOK
    <3>6. Owed(u, x) = Owed(s, x)
      BY <1>0, <3>2, OwedSame DEF RowIs, Working
    <3>7. Good(u) /\ Frame(s, u, x) /\ Even(s, u)
      BY <1>0, <1>3, <3>2, <3>5, <3>6, RowCall
    <3>8. Settled(u, x) /\ Kind[x] = "putfolder"
      BY <1>3, <3>2 DEF Settled, RowIs
    <3>9. Call(u, Resume(u, x, disk), x)
      BY <3>3, <3>7, <3>8, ResumeGoes
    <3>10. Call(s, Resume(u, x, disk), x)
      BY <1>0, <3>2, <3>7, <3>9, ThenCall
    <3> QED BY <1>3, <3>1, <3>10
  <2>2. CASE ~(out = "again" /\ s.again[x] < AgainTries)
    <3> DEFINE p == IF out = "changed" THEN "Changed" ELSE "Paused"
    <3>1. SettleStop(s, x, out, disk) = StartNext(Short(s, x, p))
      BY <2>2 DEF SettleStop, Short
    <3>2. p \in {"Paused", "Changed"}
      OBVIOUS
    <3> HIDE DEF p
    <3>3. Idle(s, x)
      BY <1>0, <1>3 DEF Idle
    <3> QED BY <1>3, <2>0, <3>1, <3>2, <3>3, ShortGoes
  <2> QED BY <2>1, <2>2
<1> QED BY <1>1, <1>2, <1>3, SettleCases

-----------------------------------------------------------------------------
(* A connection's transfers are swept.                                      *)

\* Induction over the numbers, of a set.
LEMMA CountUp ==
    ASSUME NEW S, 0 \in S, \A n \in Nat : n \in S => n + 1 \in S
    PROVE  \A n \in Nat : n \in S
<1> DEFINE T == Nat \ S
<1> SUFFICES ASSUME T # {} PROVE FALSE
  OBVIOUS
<1>1. T \subseteq Nat
  OBVIOUS
<1> HIDE DEF T
<1>2. Min(T) \in T /\ \A i \in T : Min(T) <= i
  BY <1>1, FirstPlace
<1> DEFINE t == Min(T)
<1> HIDE DEF t
<1>3. t \in Nat /\ t \notin S /\ t # 0 /\ \A i \in T : t <= i
  BY <1>2 DEF T, t
<1>4. t - 1 \in Nat /\ ~(t <= t - 1) /\ (t - 1) + 1 = t
  BY <1>3
<1>5. t - 1 \in S
  BY <1>3, <1>4 DEF T
<1> QED BY <1>3, <1>4, <1>5

\* The i-th step of the sweep g.
SweepAt(g, s, c, i) ==
    IF i = 0 THEN s
    ELSE IF ConnOf[s.list[i]] = c THEN XferDelete(g[i - 1], s.list[i])
    ELSE g[i - 1]
IsSweep(g, s, c, n) == g = [i \in 0..n |-> SweepAt(g, s, c, i)]

\* There is such a sweep.
LEMMA SweepExists ==
    ASSUME NEW s, NEW c, NEW N \in Nat
    PROVE  \E g : IsSweep(g, s, c, N)
<1> DEFINE S == {n \in Nat : \E g : IsSweep(g, s, c, n)}
<1>1. 0 \in S
  <2> DEFINE g == [i \in 0..0 |-> s]
  <2>1. \A i \in 0..0 : SweepAt(g, s, c, i) = s
    BY DEF SweepAt
  <2>2. g = [i \in 0..0 |-> SweepAt(g, s, c, i)]
    BY <2>1
  <2> HIDE DEF g
  <2> QED BY <2>2 DEF IsSweep
<1>2. ASSUME NEW n \in Nat, n \in S PROVE n + 1 \in S
  <2>1. PICK g : IsSweep(g, s, c, n)
    BY <1>2
  <2>2. \A i \in 0..n : g[i] = SweepAt(g, s, c, i)
    BY <2>1 DEF IsSweep
  <2> DEFINE h == [i \in 0..n + 1 |-> IF i = n + 1 THEN SweepAt(g, s, c, n + 1) ELSE g[i]]
  <2>3. ASSUME NEW i \in 0..n + 1 PROVE h[i] = SweepAt(h, s, c, i)
    <3>1. i # 0 => h[i - 1] = g[i - 1]
      <4>1. i # 0 => i - 1 \in 0..n + 1 /\ i - 1 # n + 1
        OBVIOUS
      <4> QED BY <4>1
    <3>2. h[i] = IF i = n + 1 THEN SweepAt(g, s, c, n + 1) ELSE g[i]
      OBVIOUS
    <3> HIDE DEF h
    <3>3. SweepAt(h, s, c, i) = SweepAt(g, s, c, i)
      BY <3>1 DEF SweepAt
    <3>4. i # n + 1 => i \in 0..n
      OBVIOUS
    <3> QED BY <2>2, <3>2, <3>3, <3>4
  <2>4. h = [i \in 0..n + 1 |-> h[i]]
    OBVIOUS
  <2> HIDE DEF h
  <2>5. h = [i \in 0..n + 1 |-> SweepAt(h, s, c, i)]
    BY <2>3, <2>4
  <2> QED BY <2>5 DEF IsSweep
<1> HIDE DEF S
<1>3. N \in S
  BY <1>1, <1>2, CountUp
<1> QED BY <1>3 DEF S

\* xfers_delete_on_conn is its last step.
LEMMA SweepIs ==
    ASSUME NEW s, NEW c, s.list \in Seq(Xfers)
    PROVE  \E g : /\ DeleteOnConn(s, c) = g[Len(s.list)]
                  /\ \A i \in 0..Len(s.list) : g[i] = SweepAt(g, s, c, i)
<1> DEFINE n == Len(s.list)
           g == CHOOSE f : f = [i \in 0..n |->
                    IF i = 0 THEN s
                    ELSE IF ConnOf[s.list[i]] = c THEN XferDelete(f[i - 1], s.list[i])
                    ELSE f[i - 1]]
<1>1. DeleteOnConn(s, c) = g[n]
  BY DEF DeleteOnConn
<1>2. n \in Nat
  OBVIOUS
<1>3. \E f : IsSweep(f, s, c, n)
  BY <1>2, SweepExists
<1>4. g = CHOOSE f : IsSweep(f, s, c, n)
  BY DEF IsSweep, SweepAt
<1> HIDE DEF g
<1>5. IsSweep(g, s, c, n)
  BY <1>3, <1>4
<1>6. \A i \in 0..n : g[i] = SweepAt(g, s, c, i)
  BY <1>5 DEF IsSweep
<1> QED BY <1>1, <1>6

\* What a sweep leaves of the rows of s.
SweepFrame(s, t) ==
    /\ \A y \in Xfers : Listed(t, y) => Listed(s, y) /\ t.pause[y] = s.pause[y]
    /\ \A y \in Xfers : ~Listed(s, y) => SameRow(s, t, y)
    /\ Even(s, t)

\* After the sweep nothing of the connection is listed, and the rest moves on.
LEMMA SweepGoes ==
    ASSUME NEW s, NEW c, Good(s), Moves(s)
    PROVE  /\ Good(DeleteOnConn(s, c)) /\ Moves(DeleteOnConn(s, c))
           /\ SweepFrame(s, DeleteOnConn(s, c))
           /\ \A y \in Xfers : Listed(DeleteOnConn(s, c), y) => ConnOf[y] # c
<1> DEFINE n == Len(s.list)
           l == s.list
<1>0. s \in Queues /\ l \in Seq(Xfers) /\ Distinct(l) /\ n \in Nat
  BY DEF Good, Queues
<1>1. PICK g : DeleteOnConn(s, c) = g[n] /\ \A i \in 0..n : g[i] = SweepAt(g, s, c, i)
  BY <1>0, SweepIs
<1>2. \A y \in Xfers : Listed(s, y) <=> \E j \in 1..n : l[j] = y
  BY <1>0 DEF Listed, Range
<1>3. \A i, j \in 1..n : l[i] = l[j] => i = j
  BY <1>0 DEF Distinct
<1>4. \A i \in 1..n : l[i] \in Xfers
  BY <1>0
<1> DEFINE Gone(i, y) == ConnOf[y] = c /\ \E j \in 1..i : l[j] = y
           P(i) == /\ Good(g[i]) /\ Moves(g[i]) /\ SweepFrame(s, g[i])
                   /\ \A y \in Xfers : Listed(g[i], y) <=> Listed(s, y) /\ ~Gone(i, y)
           S == {i \in Nat : i <= n => P(i)}
<1> HIDE DEF l, n
<1>5. 0 \in S
  <2>1. g[0] = s
    BY <1>0, <1>1 DEF SweepAt
  <2>2. \A y : ~Gone(0, y)
    OBVIOUS
  <2>3. SweepFrame(s, s)
    BY Zenon DEF SweepFrame, SameRow, Even
  <2> QED BY <2>1, <2>2, <2>3
<1>6. ASSUME NEW i \in Nat, i \in S PROVE i + 1 \in S
  <2> SUFFICES ASSUME i + 1 <= n PROVE P(i + 1)
    OBVIOUS
  <2>0. P(i)
    BY <1>0, <1>6
  <2> DEFINE x == l[i + 1]
             u == g[i]
             t == g[i + 1]
  <2>1. i + 1 \in 1..n /\ i + 1 \in 0..n /\ (i + 1) - 1 = i /\ i + 1 # 0
    BY <1>0
  <2>2. x \in Xfers
    BY <1>4, <2>1
  <2>3. t = IF ConnOf[x] = c THEN XferDelete(u, x) ELSE u
    <3>1. t = SweepAt(g, s, c, i + 1)
      BY <1>1, <2>1
    <3> QED BY <2>1, <3>1 DEF SweepAt, l
  <2>4. \A y \in Xfers : Gone(i + 1, y) <=> Gone(i, y) \/ (ConnOf[x] = c /\ y = x)
    <3>1. \A j : j \in 1..(i + 1) <=> j \in 1..i \/ j = i + 1
      BY <1>6
    <3> QED BY <3>1
  <2>5. Good(u) /\ Moves(u) /\ SweepFrame(s, u)
    BY <2>0
  <2>6. \A y \in Xfers : Listed(u, y) <=> Listed(s, y) /\ ~Gone(i, y)
    BY <2>0
  <2>7. CASE ConnOf[x] # c
    <3>1. t = u
      BY <2>3, <2>7
    <3>2. \A y \in Xfers : Gone(i + 1, y) <=> Gone(i, y)
      BY <2>4, <2>7
    <3> HIDE DEF Gone, t, u
    <3> QED BY <2>5, <2>6, <3>1, <3>2 DEF t
  <2>8. CASE ConnOf[x] = c
    <3>1. Listed(s, x)
      BY <1>2, <2>1, <2>2
    <3>2. ~Gone(i, x)
      <4>1. \A j \in 1..i : j \in 1..n /\ j # i + 1
        BY <1>0, <2>1
      <4> QED BY <1>3, <2>1, <4>1
    <3>3. \A y \in Xfers : Gone(i + 1, y) <=> Gone(i, y) \/ y = x
      BY <2>4, <2>8
    <3>4. t = XferDelete(u, x)
      BY <2>3, <2>8
    <3> HIDE DEF Gone, t, u, x
    <3>5. Listed(u, x)
      BY <2>2, <2>6, <3>1, <3>2
    <3>6. GoodBut(u, x) /\ RowCore(u, x)
      BY <2>2, <2>5, GoodIsGoodBut DEF RowOK
    <3>7. /\ Call(u, t, x)
          /\ \A y \in Xfers : Listed(t, y) <=> Listed(u, y) /\ y # x
      BY <2>2, <3>4, <3>5, <3>6, DeleteListed
    <3>8. \A y \in Xfers : Listed(t, y) <=> Listed(s, y) /\ ~Gone(i + 1, y)
      BY <2>6, <3>3, <3>7
    <3>9. SweepFrame(s, t)
      <4>1. ASSUME NEW y \in Xfers, Listed(t, y) PROVE Listed(s, y) /\ t.pause[y] = s.pause[y]
        <5>1. Listed(u, y) /\ y # x
          BY <3>7, <4>1
        <5>2. Listed(s, y) /\ u.pause[y] = s.pause[y]
          BY <2>5, <5>1 DEF SweepFrame
        <5>3. t.pause[y] = u.pause[y]
          BY <3>7, <5>1 DEF Call, Frame
        <5> QED BY <5>2, <5>3
      <4>2. ASSUME NEW y \in Xfers, ~Listed(s, y) PROVE SameRow(s, t, y)
        <5>1. ~Listed(u, y) /\ y # x
          BY <2>6, <3>1, <4>2
        <5>2. SameRow(s, u, y)
          BY <2>5, <4>2 DEF SweepFrame
        <5>3. SameRow(u, t, y)
          BY <3>7, <5>1 DEF Call, Frame
        <5> QED BY <5>2, <5>3 DEF SameRow
      <4>3. Even(s, t)
        BY <2>5, <3>7, EvenTwo DEF SweepFrame, Call
      <4> QED BY <4>1, <4>2, <4>3, Zenon DEF SweepFrame
    <3> QED BY <3>7, <3>8, <3>9 DEF t, Call
  <2> QED BY <2>7, <2>8
<1> HIDE DEF S
<1>7. n \in S
  BY <1>0, <1>5, <1>6, CountUp
<1>8. P(n)
  BY <1>0, <1>7 DEF S
<1>9. \A y \in Xfers : Listed(g[n], y) => ConnOf[y] # c
  BY <1>2, <1>8
<1> QED BY <1>1, <1>8, <1>9

-----------------------------------------------------------------------------
(* Steps.                                                                   *)

\* What is paused, and still listed, is paused as it was.
Leaves(s, t) == \A y \in Xfers : Settled(s, y) /\ Listed(t, y) => t.pause[y] = s.pause[y]

\* A frame leaves what is paused but perhaps for the transfer it is about.
LEMMA FrameLeaves ==
    ASSUME NEW s, NEW t, NEW x \in Xfers, Frame(s, t, x),
           Settled(s, x) /\ Listed(t, x) => t.pause[x] = s.pause[x]
    PROVE  Leaves(s, t)
  BY DEF Leaves, Frame

\* A frame keeps what is not made and what is swept.
LEMMA FrameFits ==
    ASSUME NEW s, NEW t, NEW M, NEW U, NEW o, Fits(s, M, U, o), NEW x \in Xfers, x \in M,
           t \in Queues, Frame(s, t, x)
    PROVE  /\ \A y \in Xfers : y \notin M => Fresh(t, y)
           /\ \A y \in Xfers : (Listed(t, y) \/ t.asked[y] > 0) /\ o => ConnOf[y] \in U
<1>0. s \in Queues
  BY DEF Fits, Good
<1>1. ASSUME NEW y \in Xfers, y \notin M PROVE Fresh(t, y)
  <2>1. Fresh(s, y) /\ y # x
    BY <1>1 DEF Fits
  <2>2. ~Listed(s, y)
    BY <2>1 DEF Fresh
  <2>3. ~Listed(t, y) /\ SameRow(s, t, y)
    BY <2>1, <2>2 DEF Frame
  <2> QED BY <2>1, <2>3 DEF Fresh, SameRow
<1>2. ASSUME NEW y \in Xfers, Listed(t, y) \/ t.asked[y] > 0, o PROVE ConnOf[y] \in U
  <2>1. CASE Listed(s, y)
    BY <1>2, <2>1 DEF Fits
  <2>2. CASE ~Listed(s, y)
    <3>1. ~Listed(t, y) /\ t.asked[y] <= s.asked[y]
      BY <2>2 DEF Frame
    <3>2. s.asked[y] \in Int /\ t.asked[y] \in Int
      BY <1>0, RowTypes
    <3>3. s.asked[y] > 0
      BY <1>2, <3>1, <3>2
    <3> QED BY <1>2, <3>3 DEF Fits
  <2> QED BY <2>1, <2>2
<1> QED BY <1>1, <1>2

\* A call keeps the invariant.
LEMMA CallFits ==
    ASSUME NEW s, NEW t, NEW M, NEW U, NEW o, Fits(s, M, U, o), NEW x \in Xfers, x \in M,
           Call(s, t, x)
    PROVE  Fits(t, M, U, o) /\ Moves(t)
<1>1. Good(t) /\ Moves(t) /\ Frame(s, t, x) /\ Even(s, t) /\ t \in Queues
  BY DEF Call, Good
<1>2. \A y \in Xfers : Owed(t, y) = 0
  BY <1>1 DEF Even, Fits
<1> QED BY <1>1, <1>2, FrameFits DEF Fits

\* So does one that began by taking a holder of x away, once it is let go of.
LEMMA TakenFits ==
    ASSUME NEW s, NEW M, NEW U, NEW o, Fits(s, M, U, o), NEW x \in Xfers, x \in M,
           NEW u \in Queues, u.list = s.list, Others(s, u, x), Owed(u, x) = Owed(s, x) + 1,
           u.asked[x] <= s.asked[x], NEW t, Call(u, t, x)
    PROVE  /\ Fits(Unref(t, x), M, U, o) /\ Moves(Unref(t, x)) /\ Frame(s, Unref(t, x), x)
           /\ Unref(t, x).pause[x] = t.pause[x]
<1> DEFINE v == Unref(t, x)
<1>1. Good(t) /\ Moves(t) /\ Frame(u, t, x) /\ Even(u, t) /\ t \in Queues
  BY DEF Call, Good
<1>2. Good(s) /\ s \in Queues /\ GoodBut(s, x)
  BY GoodIsGoodBut DEF Fits
<1>3. Frame(s, u, x)
  BY <1>2, OneRow
<1>4. Frame(s, t, x)
  BY <1>1, <1>2, <1>3, FrameTwo
<1>5. /\ v \in Queues /\ v.list = t.list /\ Others(t, v, x)
      /\ RowIs(v, x, t.pause[x], t.worker[x], t.gone[x], t.tries[x],
               t.asked[x], t.timers[x], t.refs[x] - 1, t.canceled[x],
               t.aborted[x], t.known[x], t.resumed[x], t.again[x])
  BY <1>1, UnrefRow
<1> HIDE DEF v
<1>6. GoodBut(t, x) /\ RowOK(t, x)
  BY <1>1, GoodIsGoodBut
<1>7. Listed(v, x) = Listed(t, x)
  BY <1>5 DEF Listed
<1>8. RowOK(v, x)
  <2>1. RowCore(v, x)
    BY <1>5, <1>6 DEF RowIs, RowOK, RowCore
  <2>2. RowPause(v, x)
    BY <1>5, <1>6, <1>7 DEF RowIs, RowOK, RowPause
  <2>3. RowTries(v, x)
    BY <1>5, <1>6, <1>7 DEF RowIs, RowOK, RowTries
  <2>4. RowToken(v, x)
    BY <1>5, <1>6, <1>7 DEF RowIs, RowOK, RowToken
  <2> QED BY <2>1, <2>2, <2>3, <2>4 DEF RowOK
<1>9. t.asked[x] \in Int /\ v.asked[x] = t.asked[x]
  BY <1>1, <1>5, RowTypes DEF RowIs
<1>10. v.asked[x] <= t.asked[x]
  BY <1>9
<1>11. Good(v) /\ Frame(t, v, x)
  BY <1>5, <1>6, <1>8, <1>10, OneRow
<1>12. Moves(v)
  <2>1. /\ Waiting(v, x) = Waiting(t, x) /\ OnItsWay(v, x) = OnItsWay(t, x)
        /\ Stopped(v, x) = Stopped(t, x)
    BY <1>5 DEF RowIs, Waiting, OnItsWay, Stopped, Working, Paused
  <2> QED BY <1>1, <1>5, <2>1, RowMoves
<1>13. Frame(s, v, x)
  BY <1>1, <1>2, <1>4, <1>5, <1>11, FrameTwo
<1>14. ASSUME NEW y \in Xfers PROVE Owed(v, y) = 0
  <2>1. Owed(s, y) = 0 /\ Owed(s, x) = 0 /\ Owed(t, y) = Owed(u, y)
    BY <1>1 DEF Fits, Even
  <2>2. CASE y # x
    <3>1. SameRow(s, u, y) /\ SameRow(t, v, y)
      BY <1>5, <2>2 DEF Others
    <3>2. Listed(u, y) = Listed(s, y) /\ Listed(v, y) = Listed(t, y)
      BY <1>5 DEF Listed
    <3>3. Owed(u, y) = Owed(s, y) /\ Owed(v, y) = Owed(t, y)
      BY <3>1, <3>2, RowKept
    <3> QED BY <2>1, <3>3
  <2>3. CASE y = x
    <3>1. Owed(v, x) = Owed(t, x) - 1
      BY <1>1, <1>5, OwedPaid DEF RowIs, Working
    <3> QED BY <2>1, <2>3, <3>1
  <2> QED BY <2>2, <2>3
<1>15. /\ \A y \in Xfers : y \notin M => Fresh(v, y)
       /\ \A y \in Xfers : (Listed(v, y) \/ v.asked[y] > 0) /\ o => ConnOf[y] \in U
  BY <1>5, <1>13, FrameFits
<1>16. v.pause[x] = t.pause[x]
  BY <1>5 DEF RowIs
<1> QED BY <1>11, <1>12, <1>13, <1>14, <1>15, <1>16 DEF Fits, v

\* A transfer that shows anywhere has been made.
LEMMA ShowsMade ==
    ASSUME NEW s, NEW M, NEW U, NEW o, Fits(s, M, U, o), NEW x \in Xfers,
           Listed(s, x) \/ s.asked[x] > 0 \/ s.known[x] \/ s.worker[x] # "none" \/ s.timers[x] > 0
    PROVE  x \in M
  BY DEF Fits, Fresh

\* transfer, refused: a reply keeps the invariant.
LEMMA ReplyFits ==
    ASSUME QueueInv, NEW x \in Xfers, NEW r \in Replies[x], NEW place, Reply(x, r, place)
    PROVE  QueueInv' /\ Leaves(q, q')
<1> DEFINE u == TakeAsked(q, x)
           t == Handle(u, x, r, place)
<1>0. /\ Fits(q, made, up, open) /\ Moves(q) /\ made \subseteq Xfers /\ up \subseteq Conns
      /\ open \in BOOLEAN
  BY DEF QueueInv
<1>1. q.asked[x] > 0 /\ q' = Unref(t, x) /\ made' = made /\ up' = up /\ open' = open
  BY DEF Reply
<1>2. Good(q) /\ q \in Queues /\ GoodBut(q, x) /\ RowOK(q, x)
  BY <1>0, GoodIsGoodBut DEF Fits
<1>3. x \in made
  BY <1>0, <1>1, ShowsMade
<1>4. /\ u \in Queues /\ u.list = q.list /\ Others(q, u, x)
      /\ RowIs(u, x, q.pause[x], q.worker[x], q.gone[x], q.tries[x],
               q.asked[x] - 1, q.timers[x], q.refs[x], q.canceled[x],
               q.aborted[x], q.known[x], q.resumed[x], q.again[x])
  BY <1>2, TakeAskedRow
<1> HIDE DEF u
<1>5. q.asked[x] = 1
  <2>1. q.asked[x] \in Int
    BY <1>2, RowTypes
  <2> QED BY <1>1, <1>2, <2>1 DEF RowOK, RowCore
<1>6. u.asked[x] = 0 /\ u.asked[x] <= q.asked[x]
  BY <1>4, <1>5 DEF RowIs
<1>7. Listed(u, x) = Listed(q, x)
  BY <1>4 DEF Listed
<1>8. Owed(u, x) = Owed(q, x) + 1
  BY <1>2, <1>4, OwedReply DEF RowIs, Working
<1>9. RowOK(u, x)
  <2>1. RowCore(u, x)
    BY <1>2, <1>4, <1>5 DEF RowIs, RowOK, RowCore
  <2>2. RowPause(u, x)
    BY <1>2, <1>4, <1>5, <1>7 DEF RowIs, RowOK, RowPause
  <2>3. RowTries(u, x)
    BY <1>2, <1>4, <1>7 DEF RowIs, RowOK, RowTries
  <2>4. RowToken(u, x)
    BY <1>2, <1>4, <1>7 DEF RowIs, RowOK, RowToken
  <2> QED BY <2>1, <2>2, <2>3, <2>4 DEF RowOK
<1>10. Good(u)
  BY <1>2, <1>4, <1>9, OneRow
<1>11. Moves(u)
  <2>1. /\ Waiting(u, x) = Waiting(q, x) /\ OnItsWay(u, x) = OnItsWay(q, x)
        /\ Stopped(u, x) = Stopped(q, x)
    BY <1>4 DEF RowIs, Waiting, OnItsWay, Stopped, Working, Paused
  <2> QED BY <1>0, <1>4, <2>1, RowMoves
<1>12. Replied(u, x)
  <2>1. q.worker[x] = "none" /\ (Folder(x) \/ q.gone[x])
    BY <1>2, <1>5 DEF RowOK, RowCore
  <2>2. Listed(q, x) => q.pause[x] \in {"None", "Asked", "Restarted"}
    BY <1>2, <1>5 DEF RowOK, RowPause
  <2> QED BY <1>4, <1>6, <1>7, <1>10, <1>11, <2>1, <2>2 DEF Replied, RowIs
<1>13. r \in {"ready", "refused", "larger", "nothing"}
  BY QueueAssumption
<1>14. Call(u, t, x)
  BY <1>12, <1>13, HandleGoes
<1> HIDE DEF t
<1>15. Fits(q', made, up, open) /\ Moves(q') /\ Frame(q, q', x)
  BY <1>0, <1>1, <1>3, <1>4, <1>6, <1>8, <1>14, TakenFits
<1>16. ~Settled(q, x)
  <2>1. q.pause[x] # "None" => Listed(q, x)
    BY <1>2 DEF RowOK, RowPause
  <2>2. Listed(q, x) => q.pause[x] \in {"None", "Asked", "Restarted"}
    BY <1>2, <1>5 DEF RowOK, RowPause
  <2> QED BY <2>1, <2>2 DEF Settled
<1>17. Leaves(q, q')
  BY <1>15, <1>16, FrameLeaves
<1> QED BY <1>0, <1>1, <1>15, <1>17 DEF QueueInv

\* queued: an unsolicited place in the server's queue.
LEMMA QueueUpdateFits ==
    ASSUME QueueInv, NEW x \in Xfers, QueueUpdate(x)
    PROVE  QueueInv' /\ Leaves(q, q')
<1>0. /\ Fits(q, made, up, open) /\ Moves(q) /\ made \subseteq Xfers /\ up \subseteq Conns
      /\ open \in BOOLEAN
  BY DEF QueueInv
<1>2. Good(q) /\ q \in Queues /\ GoodBut(q, x) /\ RowOK(q, x)
  BY <1>0, GoodIsGoodBut DEF Fits
<1>1. /\ Listed(q, x) /\ q.known[x] /\ q' = ReadyWrite(q, x) /\ made' = made /\ up' = up
      /\ open' = open
  BY DEF QueueUpdate
<1>3. x \in made
  BY <1>0, <1>1, ShowsMade
<1>4. Folder(x) \/ q.gone[x]
  BY <1>1, <1>2 DEF RowOK, RowCore
<1>5. q.pause[x] = "None" => q.asked[x] = 0
  <2>1. q.asked[x] \in Int
    BY <1>2, RowTypes
  <2>2. q.asked[x] >= 0 /\ q.asked[x] <= 1
    BY <1>2 DEF RowOK, RowCore
  <2>3. q.pause[x] = "None" => q.asked[x] # 1
    BY <1>1, <1>2 DEF RowOK, RowPause
  <2> QED BY <2>1, <2>2, <2>3
<1>6. Call(q, q', x)
  BY <1>0, <1>1, <1>2, <1>4, <1>5, ReadyWriteGoes
<1>7. Fits(q', made, up, open) /\ Moves(q')
  BY <1>0, <1>3, <1>6, CallFits
<1>8. Settled(q, x) => q' = q
  BY <1>1 DEF ReadyWrite, Settled
<1>9. Leaves(q, q')
  BY <1>6, <1>8, FrameLeaves DEF Call
<1> QED BY <1>0, <1>1, <1>7, <1>9 DEF QueueInv

\* A worker returns.
LEMMA WorkerReturnsFits ==
    ASSUME QueueInv, NEW x \in Xfers, NEW out \in Outcomes(x), WorkerReturns(x, out)
    PROVE  QueueInv' /\ Leaves(q, q')
<1> DEFINE u == WorkerIs(q, x, out)
<1>0. /\ Fits(q, made, up, open) /\ Moves(q) /\ made \subseteq Xfers /\ up \subseteq Conns
      /\ open \in BOOLEAN
  BY DEF QueueInv
<1>2. Good(q) /\ q \in Queues /\ GoodBut(q, x) /\ RowOK(q, x)
  BY <1>0, GoodIsGoodBut DEF Fits
<1>1. q.worker[x] = "run" /\ q' = u /\ made' = made /\ up' = up /\ open' = open
  BY DEF WorkerReturns, WorkerIs
<1>3. x \in made
  BY <1>0, <1>1, ShowsMade
<1>4. /\ out \in Workers /\ out # "none"
      /\ out \in {"again", "changed", "reoffer"} => q.resumed[x]
  BY DEF Outcomes, Workers
<1>5. /\ u \in Queues /\ u.list = q.list /\ Others(q, u, x)
      /\ RowIs(u, x, q.pause[x], out, q.gone[x], q.tries[x],
               q.asked[x], q.timers[x], q.refs[x], q.canceled[x],
               q.aborted[x], q.known[x], q.resumed[x], q.again[x])
  BY <1>2, <1>4, WorkerIsRow
<1> HIDE DEF u
<1>6. Listed(u, x) = Listed(q, x)
  BY <1>5 DEF Listed
<1>7. RowOK(u, x)
  <2>1. RowCore(u, x)
    BY <1>1, <1>2, <1>4, <1>5 DEF RowIs, RowOK, RowCore
  <2>2. RowPause(u, x)
    BY <1>1, <1>2, <1>5, <1>6 DEF RowIs, RowOK, RowPause
  <2>3. RowTries(u, x)
    BY <1>2, <1>5, <1>6 DEF RowIs, RowOK, RowTries
  <2>4. RowToken(u, x)
    BY <1>1, <1>2, <1>5, <1>6 DEF RowIs, RowOK, RowToken
  <2> QED BY <2>1, <2>2, <2>3, <2>4 DEF RowOK
<1>8. Working(u, x) = Working(q, x)
  BY <1>1, <1>4, <1>5 DEF RowIs, Working
<1>9. Owed(u, x) = Owed(q, x)
  BY <1>2, <1>5, <1>8, OwedSame DEF RowIs
<1>10. q.asked[x] \in Int /\ u.asked[x] = q.asked[x]
  BY <1>2, <1>5, RowTypes DEF RowIs
<1>11. u.asked[x] <= q.asked[x]
  BY <1>10
<1>12. Good(u) /\ Frame(q, u, x) /\ Even(q, u)
  BY <1>2, <1>5, <1>7, <1>9, <1>11, RowCall
<1>13. Moves(u)
  <2>1. /\ Waiting(u, x) = Waiting(q, x) /\ OnItsWay(u, x) = OnItsWay(q, x)
        /\ Stopped(u, x) = Stopped(q, x)
    BY <1>5, <1>8 DEF RowIs, Waiting, OnItsWay, Stopped, Paused
  <2> QED BY <1>0, <1>5, <2>1, RowMoves
<1>14. Fits(u, made, up, open) /\ Moves(u)
  BY <1>0, <1>3, <1>12, <1>13, CallFits DEF Call
<1>15. Leaves(q, u)
  BY <1>5, <1>12, FrameLeaves DEF RowIs
<1> QED BY <1>0, <1>1, <1>14, <1>15 DEF QueueInv

\* xfer_cleanup_dispatch.
LEMMA CleanupFits ==
    ASSUME QueueInv, NEW x \in Xfers, NEW disk, NEW full, Cleanup(x, disk, full)
    PROVE  QueueInv' /\ Leaves(q, q')
<1> DEFINE u == WorkerIs(q, x, "none")
           t == Settle(u, x, q.worker[x], disk, full)
<1>0. /\ Fits(q, made, up, open) /\ Moves(q) /\ made \subseteq Xfers /\ up \subseteq Conns
      /\ open \in BOOLEAN
  BY DEF QueueInv
<1>2. Good(q) /\ q \in Queues /\ GoodBut(q, x) /\ RowOK(q, x)
  BY <1>0, GoodIsGoodBut DEF Fits
<1>1. /\ q.worker[x] # "none" /\ q' = Unref(t, x)
      /\ made' = made /\ up' = up /\ open' = open
  BY DEF Cleanup, WorkerIs
<1>3. x \in made
  BY <1>0, <1>1, ShowsMade
<1>4. "none" \in Workers
  BY DEF Workers
<1>5. /\ u \in Queues /\ u.list = q.list /\ Others(q, u, x)
      /\ RowIs(u, x, q.pause[x], "none", q.gone[x], q.tries[x],
               q.asked[x], q.timers[x], q.refs[x], q.canceled[x],
               q.aborted[x], q.known[x], q.resumed[x], q.again[x])
  BY <1>2, <1>4, WorkerIsRow
<1> HIDE DEF u
<1>6. Listed(u, x) = Listed(q, x)
  BY <1>5 DEF Listed
<1>7. RowOK(u, x)
  <2>1. RowCore(u, x)
    BY <1>1, <1>2, <1>5 DEF RowIs, RowOK, RowCore
  <2>2. RowPause(u, x)
    BY <1>1, <1>2, <1>5, <1>6 DEF RowIs, RowOK, RowPause
  <2>3. RowTries(u, x)
    BY <1>2, <1>5, <1>6 DEF RowIs, RowOK, RowTries
  <2>4. RowToken(u, x)
    BY <1>1, <1>2, <1>5, <1>6 DEF RowIs, RowOK, RowToken
  <2> QED BY <2>1, <2>2, <2>3, <2>4 DEF RowOK
<1>8. Working(q, x) /\ ~Working(u, x)
  BY <1>1, <1>5 DEF RowIs, Working
<1>9. Owed(u, x) = Owed(q, x) + 1
  BY <1>2, <1>5, <1>8, OwedDone DEF RowIs
<1>10. u.asked[x] = 0 /\ u.asked[x] <= q.asked[x]
  <2>1. q.asked[x] \in Int /\ q.asked[x] >= 0 /\ q.asked[x] <= 1 /\ q.asked[x] # 1
    BY <1>1, <1>2, RowTypes DEF RowOK, RowCore
  <2> QED BY <1>5, <2>1 DEF RowIs
<1>11. Good(u)
  BY <1>2, <1>5, <1>7, OneRow
<1>12. Moves(u) \/ Listed(u, x)
  BY <1>0, <1>5, <1>6, RowMoves
<1>13. q.worker[x] \in {"again", "changed", "reoffer"} => Kind[x] = "putfolder"
  BY <1>2 DEF RowOK, RowCore
<1>14. u.worker[x] = "none"
  BY <1>5 DEF RowIs
<1>15. Call(u, t, x)
  BY <1>10, <1>11, <1>12, <1>13, <1>14, SettleGoes
<1> HIDE DEF t
<1>16. Fits(q', made, up, open) /\ Moves(q') /\ Frame(q, q', x)
  BY <1>0, <1>1, <1>3, <1>5, <1>9, <1>10, <1>15, TakenFits
<1>17. ~Settled(q, x)
  BY <1>1, <1>2 DEF RowOK, RowPause, Settled
<1>18. Leaves(q, q')
  BY <1>16, <1>17, FrameLeaves
<1> QED BY <1>0, <1>1, <1>16, <1>18 DEF QueueInv

\* queue_retry.
LEMMA QueueRetryFits ==
    ASSUME QueueInv, NEW x \in Xfers, QueueRetry(x)
    PROVE  QueueInv' /\ Leaves(q, q')
<1> DEFINE u == Fired(q, x)
           t == IF Listed(u, x) THEN StartNext(u) ELSE u
<1>0. /\ Fits(q, made, up, open) /\ Moves(q) /\ made \subseteq Xfers /\ up \subseteq Conns
      /\ open \in BOOLEAN
  BY DEF QueueInv
<1>2. Good(q) /\ q \in Queues /\ GoodBut(q, x) /\ RowOK(q, x)
  BY <1>0, GoodIsGoodBut DEF Fits
<1>1. /\ q.timers[x] > 0 /\ q' = Unref(t, x)
      /\ made' = made /\ up' = up /\ open' = open
  BY DEF QueueRetry, Fired
<1>3. x \in made
  BY <1>0, <1>1, ShowsMade
<1>5. /\ u \in Queues /\ u.list = q.list /\ Others(q, u, x)
      /\ RowIs(u, x, q.pause[x], q.worker[x], q.gone[x], q.tries[x],
               q.asked[x], q.timers[x] - 1, q.refs[x], q.canceled[x],
               q.aborted[x], q.known[x], q.resumed[x], q.again[x])
  BY <1>2, FiredRow
<1> HIDE DEF u
<1>6. Listed(u, x) = Listed(q, x)
  BY <1>5 DEF Listed
<1>4. q.timers[x] \in Int /\ q.tries[x] \in Int /\ q.asked[x] \in Int
  BY <1>2, RowTypes
<1>7. RowOK(u, x)
  <2>1. RowCore(u, x)
    BY <1>1, <1>2, <1>4, <1>5, QueueAssumption DEF RowIs, RowOK, RowCore
  <2>2. RowPause(u, x)
    BY <1>1, <1>2, <1>5, <1>6 DEF RowIs, RowOK, RowPause
  <2>3. RowTries(u, x)
    BY <1>1, <1>2, <1>4, <1>5, <1>6 DEF RowIs, RowOK, RowTries
  <2>4. RowToken(u, x)
    BY <1>1, <1>2, <1>5, <1>6 DEF RowIs, RowOK, RowToken
  <2> QED BY <2>1, <2>2, <2>3, <2>4 DEF RowOK
<1>9. Owed(u, x) = Owed(q, x) + 1
  BY <1>2, <1>5, OwedFired DEF RowIs, Working
<1>10. u.asked[x] <= q.asked[x]
  BY <1>4, <1>5 DEF RowIs
<1>11. Good(u)
  BY <1>2, <1>5, <1>7, OneRow
<1>15. Call(u, t, x) /\ t.pause[x] = u.pause[x]
  <2>1. CASE Listed(u, x)
    <3>1. t = StartNext(u)
      BY <2>1
    <3> QED BY <1>11, <3>1, StartNextGoes DEF Call
  <2>2. CASE ~Listed(u, x)
    <3>1. Moves(u)
      BY <1>0, <1>5, <1>6, <2>2, RowMoves
    <3> QED BY <1>11, <2>2, <3>1, Stays DEF Call
  <2> QED BY <2>1, <2>2
<1> HIDE DEF t
<1>16. Fits(q', made, up, open) /\ Moves(q') /\ Frame(q, q', x) /\ q'.pause[x] = t.pause[x]
  BY <1>0, <1>1, <1>3, <1>5, <1>9, <1>10, <1>15, TakenFits
<1>17. Leaves(q, q')
  BY <1>5, <1>15, <1>16, FrameLeaves DEF RowIs
<1> QED BY <1>0, <1>1, <1>16, <1>17 DEF QueueInv

\* The user starts a transfer.
LEMMA StartFits ==
    ASSUME QueueInv, NEW x \in Xfers, NEW disk, Start(x, disk)
    PROVE  QueueInv' /\ Frame(q, q', x)
<1>0. /\ Fits(q, made, up, open) /\ Moves(q) /\ made \subseteq Xfers /\ up \subseteq Conns
      /\ open \in BOOLEAN
  BY DEF QueueInv
<1>2. Good(q) /\ q \in Queues /\ GoodBut(q, x) /\ RowOK(q, x)
  BY <1>0, GoodIsGoodBut DEF Fits
<1>1. Listed(q, x) /\ q' = Resume(q, x, disk) /\ made' = made /\ up' = up /\ open' = open
  BY DEF Start
<1>3. x \in made
  BY <1>0, <1>1, ShowsMade
<1>6. Call(q, q', x)
  BY <1>0, <1>1, <1>2, ResumeGoes
<1>7. Fits(q', made, up, open) /\ Moves(q')
  BY <1>0, <1>3, <1>6, CallFits
<1> QED BY <1>0, <1>1, <1>6, <1>7 DEF QueueInv, Call

\* Cancels it.
LEMMA DeleteFits ==
    ASSUME QueueInv, NEW x \in Xfers, Delete(x)
    PROVE  QueueInv' /\ Leaves(q, q')
<1>0. /\ Fits(q, made, up, open) /\ Moves(q) /\ made \subseteq Xfers /\ up \subseteq Conns
      /\ open \in BOOLEAN
  BY DEF QueueInv
<1>2. Good(q) /\ q \in Queues /\ GoodBut(q, x) /\ RowOK(q, x)
  BY <1>0, GoodIsGoodBut DEF Fits
<1>1. /\ Listed(q, x) \/ q.known[x]
      /\ q' = XferDelete(q, x) /\ made' = made /\ up' = up /\ open' = open
  BY DEF Delete
<1>3. x \in made
  BY <1>0, <1>1, ShowsMade
<1>4. RowCore(q, x)
  BY <1>2 DEF RowOK
<1>6. Call(q, q', x) /\ (Listed(q, x) => ~Listed(q', x))
  BY <1>0, <1>1, <1>2, <1>4, DeleteListed, DeleteUnlisted
<1>7. Fits(q', made, up, open) /\ Moves(q')
  BY <1>0, <1>3, <1>6, CallFits
<1>8. ~Listed(q', x)
  BY <1>6 DEF Call, Frame
<1>9. Leaves(q, q')
  BY <1>6, <1>8, FrameLeaves DEF Call
<1> QED BY <1>0, <1>1, <1>7, <1>9 DEF QueueInv

\* Pauses it.
LEMMA PauseFits ==
    ASSUME QueueInv, NEW x \in Xfers, Pause(x)
    PROVE  QueueInv' /\ Leaves(q, q')
<1> DEFINE u == Winds(q, x)
<1>0. /\ Fits(q, made, up, open) /\ Moves(q) /\ made \subseteq Xfers /\ up \subseteq Conns
      /\ open \in BOOLEAN
  BY DEF QueueInv
<1>2. Good(q) /\ q \in Queues /\ GoodBut(q, x) /\ RowOK(q, x)
  BY <1>0, GoodIsGoodBut DEF Fits
<1>1. /\ Listed(q, x) /\ q.worker[x] # "none" /\ q.pause[x] = "None"
      /\ q' = u /\ made' = made /\ up' = up /\ open' = open
  BY DEF Pause, Winds, Working
<1>3. x \in made
  BY <1>0, <1>1, ShowsMade
<1>5. /\ u \in Queues /\ u.list = q.list /\ Others(q, u, x)
      /\ RowIs(u, x, "Winding", q.worker[x], q.gone[x], q.tries[x],
               q.asked[x], q.timers[x], q.refs[x], q.canceled[x],
               TRUE, q.known[x], q.resumed[x], q.again[x])
  BY <1>2, WindsRow
<1> HIDE DEF u
<1>6. Listed(u, x) /\ q.asked[x] # 1
  BY <1>1, <1>2, <1>5 DEF Listed, RowOK, RowCore
<1>7. RowOK(u, x)
  <2>1. RowCore(u, x)
    BY <1>5, <1>6, <1>1, <1>2, QueueAssumption DEF RowIs, RowOK, RowCore
  <2>2. RowPause(u, x)
    BY <1>5, <1>6, <1>1, <1>2 DEF RowIs, RowOK, RowPause
  <2>3. RowTries(u, x)
    BY <1>5, <1>6, <1>1, <1>2, QueueAssumption DEF RowIs, RowOK, RowTries, NoTries
  <2>4. RowToken(u, x)
    BY <1>5, <1>6, <1>1, <1>2 DEF RowIs, RowOK, RowToken
  <2> QED BY <2>1, <2>2, <2>3, <2>4 DEF RowOK
<1>9. Owed(u, x) = Owed(q, x)
  BY <1>2, <1>5, OwedSame DEF RowIs, Working
<1>12. Good(u) /\ Frame(q, u, x) /\ Even(q, u)
  BY <1>1, <1>2, <1>5, <1>7, <1>9, RowCall
<1>13. OnItsWay(u, x)
  BY <1>1, <1>5 DEF OnItsWay, Working, RowIs
<1>14. Moves(u)
  BY <1>1, <1>5, <1>13, RowMoves
<1>15. Fits(u, made, up, open) /\ Moves(u)
  BY <1>0, <1>3, <1>12, <1>14, CallFits DEF Call
<1>16. Leaves(q, u)
  BY <1>1, <1>12, FrameLeaves DEF Settled
<1> QED BY <1>0, <1>1, <1>15, <1>16 DEF QueueInv

\* A transfer joins the list: its row is new, the others are as they were.
LEMMA JoinFits ==
    ASSUME NEW s, NEW M, NEW U, NEW o, Fits(s, M, U, o), NEW x \in Xfers, x \notin M, ConnOf[x] \in U
    PROVE  LET t == Linked(s, x)
           IN  /\ Fits(t, M \cup {x}, U, o) /\ Others(s, t, x)
               /\ \A y \in Xfers : Listed(t, y) <=> Listed(s, y) \/ y = x
               /\ t \in Queues
               /\ t.pause[x] = "None" /\ ~t.gone[x] /\ t.asked[x] = 0 /\ t.worker[x] = "none"
               /\ ~t.known[x] /\ ~t.aborted[x]
<1> DEFINE t == Linked(s, x)
           l == s.list
           n == Len(l)
<1>0. Good(s) /\ s \in Queues /\ Fresh(s, x) /\ Distinct(l) /\ l \in Seq(Xfers) /\ n \in Nat
  BY DEF Fits, Good, Queues
<1>1. Append(l, x) \in Seq(Xfers) /\ DOMAIN Append(l, x) = 1..(n + 1)
  BY <1>0
<1>2. /\ \A i \in 1..n : Append(l, x)[i] = l[i]
      /\ Append(l, x)[n + 1] = x
  BY <1>0
<1>3. /\ t \in Queues /\ t.list = Append(l, x) /\ Others(s, t, x)
      /\ RowIs(t, x, s.pause[x], s.worker[x], s.gone[x], s.tries[x],
               s.asked[x], s.timers[x], 1, s.canceled[x],
               s.aborted[x], s.known[x], s.resumed[x], s.again[x])
  BY <1>0, <1>1, LinkedRow
<1>4. \A y : Listed(s, y) <=> \E i \in 1..n : l[i] = y
  BY <1>0 DEF Listed, Range
<1>5. ~Listed(s, x)
  BY <1>0 DEF Fresh
<1>6. \A i, j \in 1..n : l[i] = l[j] => i = j
  BY <1>0 DEF Distinct
<1> HIDE DEF t, l, n
<1>7. \A i : i \in 1..(n + 1) <=> i \in 1..n \/ i = n + 1
  BY <1>0
<1>8. \A y \in Xfers : Listed(t, y) <=> Listed(s, y) \/ y = x
  <2>1. \A y : Listed(t, y) <=> \E i \in 1..(n + 1) : Append(l, x)[i] = y
    BY <1>1, <1>3 DEF Listed, Range
  <2> QED BY <1>2, <1>4, <1>7, <2>1
<1>9. Distinct(t.list)
  <2>1. \A i \in 1..n : Append(l, x)[i] # x
    BY <1>2, <1>4, <1>5
  <2>2. \A i, j \in 1..(n + 1) : Append(l, x)[i] = Append(l, x)[j] => i = j
    BY <1>2, <1>6, <1>7, <2>1
  <2> QED BY <1>1, <1>3, <2>2 DEF Distinct
<1>10. /\ t.pause[x] = "None" /\ t.worker[x] = "none" /\ ~t.gone[x] /\ t.tries[x] = NoTries
       /\ t.asked[x] = 0 /\ t.timers[x] = 0 /\ t.refs[x] = 1 /\ ~t.aborted[x] /\ ~t.known[x]
       /\ ~t.resumed[x] /\ t.again[x] = 0
  BY <1>0, <1>3 DEF Fresh, RowIs
<1>11. RowOK(t, x)
  <2>1. RowCore(t, x)
    BY <1>10, QueueAssumption DEF RowCore
  <2>2. RowPause(t, x)
    BY <1>8, <1>10 DEF RowPause
  <2>3. RowTries(t, x)
    BY <1>10, QueueAssumption DEF RowTries, NoTries
  <2>4. RowToken(t, x)
    BY <1>10 DEF RowToken
  <2> QED BY <2>1, <2>2, <2>3, <2>4 DEF RowOK
<1>12. \A y \in Xfers : y # x => SameRow(s, t, y) /\ Listed(t, y) = Listed(s, y)
  BY <1>3, <1>8 DEF Others, Listed
<1>13. \A y \in Xfers : y # x => /\ RowOK(t, y) /\ Owed(t, y) = Owed(s, y)
                                 /\ Fresh(s, y) => Fresh(t, y)
  BY <1>0, <1>12, RowKept DEF Good
<1>14. Good(t)
  BY <1>3, <1>9, <1>11, <1>13 DEF Good
<1>15. Owed(t, x) = 0
  <2>1. Bit(Listed(t, x)) = 1 /\ Bit(Working(t, x)) = 0
    BY <1>8, <1>10 DEF Bit, Working
  <2> QED BY <1>10, <2>1 DEF Owed
<1>16. \A y \in Xfers : Owed(t, y) = 0
  BY <1>13, <1>15 DEF Fits
<1>17. \A y \in Xfers : y \notin M \cup {x} => Fresh(t, y)
  BY <1>13 DEF Fits
<1>18. ASSUME NEW y \in Xfers, Listed(t, y) \/ t.asked[y] > 0, o PROVE ConnOf[y] \in U
  <2>1. CASE y = x
    BY <2>1
  <2>2. CASE y # x
    BY <1>12, <1>18, <2>2 DEF SameRow, Fits
  <2> QED BY <2>1, <2>2
<1>19. Fits(t, M \cup {x}, U, o)
  BY <1>14, <1>16, <1>17, <1>18 DEF Fits
<1> QED BY <1>3, <1>8, <1>10, <1>19 DEF t

\* xfer_new.
LEMMA XferNewFits ==
    ASSUME QueueInv, NEW x \in Xfers, NEW b \in BOOLEAN, XferNew(x, b)
    PROVE  QueueInv' /\ Leaves(q, q')
<1> DEFINE t == Linked(q, x)
           M == made \cup {x}
           alone == \A y \in Range(q.list) : Paused(q, y)
<1>0. /\ Fits(q, made, up, open) /\ Moves(q) /\ made \subseteq Xfers /\ up \subseteq Conns
      /\ open \in BOOLEAN
  BY DEF QueueInv
<1>1. /\ x \notin made /\ ~Folder(x) /\ ConnOf[x] \in up
      /\ q' = IF alone \/ ~b THEN XferGo(t, x, "same") ELSE t
      /\ made' = M /\ up' = up /\ open' = open
  BY DEF XferNew, Linked
<1>2. /\ Fits(t, M, up, open) /\ Others(q, t, x)
      /\ \A y \in Xfers : Listed(t, y) <=> Listed(q, y) \/ y = x
      /\ t \in Queues /\ t.pause[x] = "None" /\ ~t.gone[x]
  BY <1>0, <1>1, JoinFits
<1> HIDE DEF t
<1>3. Good(t) /\ Listed(t, x) /\ Waiting(t, x) /\ ~Settled(t, x)
  BY <1>1, <1>2 DEF Fits, Waiting, Settled
<1>4. Fits(q', M, up, open) /\ Moves(q') /\ \A y \in Xfers : y # x => q'.pause[y] = t.pause[y]
  <2>1. CASE alone \/ ~b
    <3>1. q' = Ask(Latched(t, x), x)
      BY <1>1, <1>3, <2>1, GoCases
    <3>2. Call(t, q', x)
      BY <1>3, <3>1, LatchGoes
    <3> QED BY <1>2, <3>2, CallFits DEF Call, Frame
  <2>2. CASE ~(alone \/ ~b)
    <3>1. q' = t
      BY <1>1, <2>2
    <3>2. q.list \in Seq(Xfers)
      BY <1>0 DEF Fits, Good, Queues
    <3>3. PICK y \in Range(q.list) : ~Paused(q, y)
      BY <2>2
    <3>4. y \in Xfers /\ Listed(q, y)
      BY <3>2, <3>3 DEF Range, Listed
    <3>5. PICK z \in Xfers : Listed(q, z) /\ (OnItsWay(q, z) \/ Stopped(q, z))
      <4>1. CASE Waiting(q, y)
        BY <1>0, <3>4, <4>1 DEF Moves
      <4>2. CASE ~Waiting(q, y)
        BY <3>3, <3>4, <4>2 DEF OnItsWay
      <4> QED BY <4>1, <4>2
    <3>6. z # x
      BY <1>0, <1>1, <3>5, ShowsMade
    <3>7. SameRow(q, t, z) /\ Listed(t, z)
      BY <1>2, <3>5, <3>6 DEF Others
    <3>8. OnItsWay(t, z) \/ Stopped(t, z)
      BY <3>5, <3>7 DEF OnItsWay, Stopped, Waiting, Paused, Working, SameRow
    <3>9. Moves(t)
      BY <3>7, <3>8 DEF Moves
    <3> QED BY <1>2, <3>1, <3>9
  <2> QED BY <2>1, <2>2
<1>5. ASSUME NEW y \in Xfers, Settled(q, y) PROVE q'.pause[y] = q.pause[y]
  <2>1. Listed(q, y)
    BY <1>0, <1>5 DEF Fits, Good, RowOK, RowPause, Settled
  <2>2. y # x
    BY <1>0, <1>1, <2>1, ShowsMade
  <2> QED BY <1>2, <1>4, <2>2 DEF Others, SameRow
<1> QED BY <1>0, <1>1, <1>4, <1>5 DEF QueueInv, Leaves

\* ask_folder and ask_put_folder.
LEMMA FolderNewFits ==
    ASSUME QueueInv, NEW x \in Xfers, FolderNew(x)
    PROVE  QueueInv' /\ Leaves(q, q')
<1> DEFINE t == Linked(q, x)
           u == Ask(t, x)
           M == made \cup {x}
<1>0. /\ Fits(q, made, up, open) /\ Moves(q) /\ made \subseteq Xfers /\ up \subseteq Conns
      /\ open \in BOOLEAN
  BY DEF QueueInv
<1>1. /\ x \notin made /\ Folder(x) /\ ConnOf[x] \in up
      /\ q' = u /\ made' = M /\ up' = up /\ open' = open
  BY DEF FolderNew, Linked
<1>2. /\ Fits(t, M, up, open) /\ Others(q, t, x) /\ \A y \in Xfers : Listed(t, y) <=> Listed(q, y) \/ y = x
      /\ t \in Queues /\ t.pause[x] = "None" /\ t.asked[x] = 0 /\ t.worker[x] = "none"
      /\ ~t.known[x] /\ ~t.aborted[x]
  BY <1>0, <1>1, JoinFits
<1> HIDE DEF t
<1>3. GoodBut(t, x) /\ RowOK(t, x) /\ Listed(t, x)
  BY <1>2, GoodIsGoodBut DEF Fits
<1>4. /\ u \in Queues /\ u.list = t.list /\ Others(t, u, x)
      /\ RowIs(u, x, t.pause[x], t.worker[x], t.gone[x], t.tries[x],
               t.asked[x] + 1, t.timers[x], t.refs[x] + 1, t.canceled[x],
               t.aborted[x], t.known[x], t.resumed[x], t.again[x])
  BY <1>2, AskRow
<1> HIDE DEF u
<1>5. Listed(u, x)
  BY <1>3, <1>4 DEF Listed
<1>6. RowOK(u, x)
  <2>1. RowCore(u, x)
    BY <1>4, <1>5, <1>1, <1>2, <1>3, QueueAssumption DEF RowIs, RowOK, RowCore
  <2>2. RowPause(u, x)
    BY <1>4, <1>5, <1>1, <1>2, <1>3 DEF RowIs, RowOK, RowPause
  <2>3. RowTries(u, x)
    BY <1>4, <1>5, <1>1, <1>2, <1>3, QueueAssumption DEF RowIs, RowOK, RowTries, NoTries
  <2>4. RowToken(u, x)
    BY <1>4, <1>5, <1>1, <1>2, <1>3 DEF RowIs, RowOK, RowToken
  <2> QED BY <2>1, <2>2, <2>3, <2>4 DEF RowOK
<1>7. Owed(u, x) = Owed(t, x)
  BY <1>2, <1>4, OwedAsk DEF RowIs, Working
<1>8. Good(u) /\ Frame(t, u, x) /\ Even(t, u)
  BY <1>3, <1>4, <1>6, <1>7, RowCall
<1>9. OnItsWay(u, x)
  BY <1>1, <1>2, <1>4 DEF OnItsWay, Waiting, Paused, RowIs
<1>10. Moves(u)
  BY <1>3, <1>4, <1>9, RowMoves
<1>11. Fits(u, M, up, open)
  BY <1>2, <1>8, <1>10, CallFits DEF Call
<1>12. ASSUME NEW y \in Xfers, Settled(q, y) PROVE u.pause[y] = q.pause[y]
  <2>1. Listed(q, y)
    BY <1>0, <1>12 DEF Fits, Good, RowOK, RowPause, Settled
  <2>2. y # x
    BY <1>0, <1>1, <2>1, ShowsMade
  <2> QED BY <1>2, <1>4, <2>2 DEF Others, SameRow
<1> QED BY <1>0, <1>1, <1>10, <1>11, <1>12 DEF QueueInv, Leaves

\* A queue whose rows are the same and whose list names the same transfers.
LEMMA SameRowsFit ==
    ASSUME NEW s, NEW t, NEW M, NEW U, NEW o, Fits(s, M, U, o), Moves(s),
           t \in Queues, Distinct(t.list),
           \A y \in Xfers : SameRow(s, t, y) /\ Listed(t, y) = Listed(s, y)
    PROVE  Fits(t, M, U, o) /\ Moves(t)
<1>1. \A y \in Xfers : /\ RowOK(s, y) => RowOK(t, y)
                       /\ Owed(t, y) = Owed(s, y)
                       /\ Fresh(s, y) => Fresh(t, y)
                       /\ Waiting(t, y) = Waiting(s, y) /\ OnItsWay(t, y) = OnItsWay(s, y)
                       /\ Stopped(t, y) = Stopped(s, y)
  BY RowKept
<1>2. Good(t)
  BY <1>1 DEF Fits, Good
<1>3. \A y \in Xfers : t.asked[y] = s.asked[y]
  BY DEF SameRow
<1>4. Fits(t, M, U, o)
  BY <1>1, <1>2, <1>3 DEF Fits
<1>5. Moves(t)
  BY <1>1 DEF Moves
<1> QED BY <1>4, <1>5

\* xfer_up and xfer_down.
LEMMA SwapFits ==
    ASSUME QueueInv, NEW i \in 1..Len(q.list), Swap(i)
    PROVE  QueueInv' /\ Leaves(q, q')
<1> DEFINE l == q.list
           n == Len(l)
           m == [l EXCEPT ![i] = l[i + 1], ![i + 1] = l[i]]
           t == [q EXCEPT !.list = m]
<1>0. /\ Fits(q, made, up, open) /\ Moves(q) /\ made \subseteq Xfers /\ up \subseteq Conns
      /\ open \in BOOLEAN
  BY DEF QueueInv
<1>1. i \in 1..(n - 1) /\ q' = t /\ made' = made /\ up' = up /\ open' = open
  BY DEF Swap
<1>2. q \in Queues /\ l \in Seq(Xfers) /\ Distinct(l) /\ n \in Nat /\ DOMAIN l = 1..n
  BY <1>0 DEF Fits, Good, Queues
<1>3. \A j, k \in 1..n : l[j] = l[k] => j = k
  BY <1>2 DEF Distinct
<1>4. \A y : Listed(q, y) <=> \E j \in 1..n : l[j] = y
  BY <1>2 DEF Listed, Range
<1>5. \A j \in 1..n : l[j] \in Xfers
  BY <1>2
<1>6. i \in 1..n /\ i + 1 \in 1..n /\ i # i + 1
  BY <1>1, <1>2
<1>7. m \in Seq(Xfers) /\ Len(m) = n /\ DOMAIN m = 1..n
  <2>1. l \in [1..n -> Xfers]
    BY <1>2
  <2>2. m \in [1..n -> Xfers]
    BY <1>5, <1>6, <2>1
  <2> QED BY <1>2, <2>2
<1>8. /\ t \in Queues /\ t.list = m
      /\ t.pause = q.pause /\ t.worker = q.worker /\ t.gone = q.gone /\ t.tries = q.tries
      /\ t.asked = q.asked /\ t.timers = q.timers /\ t.refs = q.refs /\ t.canceled = q.canceled
      /\ t.aborted = q.aborted /\ t.known = q.known /\ t.resumed = q.resumed
      /\ t.again = q.again
  BY <1>2, <1>7 DEF Queues
<1>9. \A j \in 1..n : m[j] = IF j = i THEN l[i + 1] ELSE IF j = i + 1 THEN l[i] ELSE l[j]
  BY <1>2, <1>6
<1> HIDE DEF t, m, l, n
<1>10. \A y : Listed(t, y) <=> \E j \in 1..n : m[j] = y
  BY <1>7, <1>8 DEF Listed, Range
<1>11. \A y : Listed(t, y) <=> Listed(q, y)
  BY <1>4, <1>6, <1>9, <1>10
<1>12. Distinct(m)
  <2>1. \A j, k \in 1..n : m[j] = m[k] => j = k
    BY <1>3, <1>6, <1>9
  <2> QED BY <1>7, <2>1 DEF Distinct
<1>13. \A y \in Xfers : SameRow(q, t, y) /\ Listed(t, y) = Listed(q, y)
  BY <1>8, <1>11 DEF SameRow, Listed
<1>14. Fits(t, made, up, open) /\ Moves(t)
  BY <1>0, <1>8, <1>12, <1>13, SameRowsFit
<1>15. Leaves(q, t)
  BY <1>13 DEF Leaves, SameRow
<1> QED BY <1>0, <1>1, <1>14, <1>15 DEF QueueInv

\* hx_recv_forget: the requests of a connection have no holder.
LEMMA ForgetRows ==
    ASSUME NEW s \in Queues, NEW c
    PROVE  LET t == Forget(s, c)
           IN  /\ t \in Queues /\ t.list = s.list
               /\ \A y \in Xfers :
                      /\ ConnOf[y] # c => SameRow(s, t, y)
                      /\ ConnOf[y] = c => RowIs(t, y, s.pause[y], s.worker[y], s.gone[y], s.tries[y], 0, s.timers[y],
                             s.refs[y] - s.asked[y], s.canceled[y], s.aborted[y], s.known[y],
                             s.resumed[y], s.again[y])
<1> DEFINE t == Forget(s, c)
           a == [x \in Xfers |-> IF ConnOf[x] = c THEN 0 ELSE s.asked[x]]
           r == [x \in Xfers |-> IF ConnOf[x] = c THEN s.refs[x] - s.asked[x] ELSE s.refs[x]]
<1>1. s.asked \in [Xfers -> Int] /\ s.refs \in [Xfers -> Int]
  BY DEF Queues
<1>2. a \in [Xfers -> Int] /\ r \in [Xfers -> Int]
  BY <1>1
<1>3. t = [s EXCEPT !.asked = a, !.refs = r]
  BY DEF Forget
<1>4. \A y \in Xfers : /\ a[y] = IF ConnOf[y] = c THEN 0 ELSE s.asked[y]
                       /\ r[y] = IF ConnOf[y] = c THEN s.refs[y] - s.asked[y] ELSE s.refs[y]
  OBVIOUS
<1> HIDE DEF t, a, r
<1>5. /\ t \in Queues /\ t.list = s.list /\ t.asked = a /\ t.refs = r
      /\ t.pause = s.pause /\ t.worker = s.worker /\ t.gone = s.gone /\ t.tries = s.tries
      /\ t.timers = s.timers /\ t.canceled = s.canceled /\ t.aborted = s.aborted
      /\ t.known = s.known /\ t.resumed = s.resumed /\ t.again = s.again
  BY <1>2, <1>3 DEF Queues
<1>6. \A y \in Xfers : ConnOf[y] # c => SameRow(s, t, y)
  BY <1>4, <1>5 DEF SameRow
<1>7. \A y \in Xfers : ConnOf[y] = c =>
          RowIs(t, y, s.pause[y], s.worker[y], s.gone[y], s.tries[y], 0, s.timers[y],
                s.refs[y] - s.asked[y], s.canceled[y], s.aborted[y], s.known[y],
                s.resumed[y], s.again[y])
  BY <1>4, <1>5 DEF RowIs
<1> QED BY <1>5, <1>6, <1>7 DEF t

\* hx_htlc_close: the sweep, and what is in flight is forgotten.
LEMMA DisconnectFits ==
    ASSUME QueueInv, NEW c \in Conns, Disconnect(c)
    PROVE  QueueInv' /\ Leaves(q, q')
<1> DEFINE s == DeleteOnConn(q, c)
           t == Forget(s, c)
           U == up \ {c}
<1>0. /\ Fits(q, made, up, open) /\ Moves(q) /\ made \subseteq Xfers /\ up \subseteq Conns
      /\ open \in BOOLEAN
  BY DEF QueueInv
<1>1. q' = t /\ up' = U /\ made' = made /\ open' = open
  BY DEF Disconnect
<1>2. Good(q)
  BY <1>0 DEF Fits
<1>3. /\ Good(s) /\ Moves(s) /\ SweepFrame(q, s)
      /\ \A y \in Xfers : Listed(s, y) => ConnOf[y] # c
  BY <1>0, <1>2, SweepGoes
<1> HIDE DEF s
<1>4. s \in Queues
  BY <1>3 DEF Good
<1>5. /\ t \in Queues /\ t.list = s.list
      /\ \A y \in Xfers :
             /\ ConnOf[y] # c => SameRow(s, t, y)
             /\ ConnOf[y] = c => RowIs(t, y, s.pause[y], s.worker[y], s.gone[y], s.tries[y], 0,
                    s.timers[y], s.refs[y] - s.asked[y], s.canceled[y], s.aborted[y], s.known[y],
                    s.resumed[y], s.again[y])
  BY <1>4, ForgetRows
<1> HIDE DEF t
<1>6. \A y \in Xfers : Listed(t, y) = Listed(s, y)
  BY <1>5 DEF Listed
<1>7. ASSUME NEW y \in Xfers
      PROVE  /\ RowOK(t, y) /\ Owed(t, y) = 0 /\ (y \notin made => Fresh(t, y))
             /\ Waiting(t, y) = Waiting(s, y) /\ OnItsWay(t, y) = OnItsWay(s, y)
             /\ Stopped(t, y) = Stopped(s, y)
  <2>1. RowOK(s, y) /\ Owed(s, y) = 0
    BY <1>0, <1>3 DEF Good, SweepFrame, Even, Fits
  <2>2. Listed(t, y) = Listed(s, y)
    BY <1>6
  <2>3. y \notin made => Fresh(s, y)
    <3> SUFFICES ASSUME y \notin made PROVE Fresh(s, y)
      OBVIOUS
    <3>1. Fresh(q, y)
      BY <1>0 DEF Fits
    <3>2. ~Listed(q, y)
      BY <3>1 DEF Fresh
    <3>3. SameRow(q, s, y) /\ ~Listed(s, y)
      BY <1>3, <3>2 DEF SweepFrame
    <3> QED BY <3>1, <3>3 DEF Fresh, SameRow
  <2>4. CASE ConnOf[y] # c
    <3>1. SameRow(s, t, y)
      BY <1>5, <2>4
    <3> QED BY <2>1, <2>2, <2>3, <3>1, RowKept
  <2>5. CASE ConnOf[y] = c
    <3>1. /\ t.pause[y] = s.pause[y] /\ t.worker[y] = s.worker[y] /\ t.gone[y] = s.gone[y]
          /\ t.tries[y] = s.tries[y] /\ t.asked[y] = 0 /\ t.timers[y] = s.timers[y]
          /\ t.refs[y] = s.refs[y] - s.asked[y] /\ t.canceled[y] = s.canceled[y]
          /\ t.aborted[y] = s.aborted[y] /\ t.known[y] = s.known[y]
          /\ t.resumed[y] = s.resumed[y] /\ t.again[y] = s.again[y]
      BY <1>5, <2>5 DEF RowIs
    <3>2. RowCore(t, y)
      BY <2>1, <3>1 DEF RowOK, RowCore
    <3>3. RowPause(t, y)
      BY <2>1, <2>2, <3>1 DEF RowOK, RowPause
    <3>4. RowTries(t, y)
      BY <2>1, <2>2, <3>1 DEF RowOK, RowTries
    <3>5. RowToken(t, y)
      BY <2>1, <2>2, <3>1 DEF RowOK, RowToken
    <3>6. Owed(t, y) = Owed(s, y)
      <4>1. s.refs[y] \in Int /\ s.timers[y] \in Int /\ s.asked[y] \in Int
        BY <1>4, RowTypes
      <4> DEFINE b == Bit(Listed(s, y))
                 w == Bit(Working(s, y))
      <4>2. b \in Int /\ w \in Int
        BY DEF Bit
      <4>3. Working(t, y) = Working(s, y)
        BY <3>1 DEF Working
      <4>4. Owed(s, y) = s.refs[y] - (b + w + s.timers[y] + s.asked[y])
        BY DEF Owed
      <4>5. Owed(t, y) = (s.refs[y] - s.asked[y]) - (b + w + s.timers[y] + 0)
        BY <2>2, <3>1, <4>3 DEF Owed
      <4> HIDE DEF b, w
      <4> QED BY <4>1, <4>2, <4>4, <4>5
    <3>7. y \notin made => Fresh(t, y)
      BY <2>2, <2>3, <3>1 DEF Fresh
    <3>8. /\ Waiting(t, y) = Waiting(s, y) /\ OnItsWay(t, y) = OnItsWay(s, y)
          /\ Stopped(t, y) = Stopped(s, y)
      BY <3>1 DEF Waiting, OnItsWay, Stopped, Working, Paused
    <3> QED BY <2>1, <3>2, <3>3, <3>4, <3>5, <3>6, <3>7, <3>8 DEF RowOK
  <2> QED BY <2>4, <2>5
<1>8. Good(t)
  BY <1>3, <1>5, <1>7 DEF Good
<1>9. Moves(t)
  BY <1>3, <1>6, <1>7 DEF Moves
<1>10. ASSUME NEW y \in Xfers, Listed(t, y) \/ t.asked[y] > 0, open PROVE ConnOf[y] \in U
  <2>1. ConnOf[y] # c
    BY <1>3, <1>5, <1>6, <1>10 DEF RowIs
  <2>2. Listed(s, y) \/ s.asked[y] > 0
    BY <1>5, <1>6, <1>10, <2>1 DEF SameRow
  <2>3. Listed(q, y) \/ q.asked[y] > 0
    BY <1>3, <2>2 DEF SweepFrame, SameRow
  <2>4. ConnOf[y] \in up
    BY <1>0, <1>10, <2>3 DEF Fits
  <2> QED BY <2>1, <2>4
<1>11. Fits(t, made, U, open)
  BY <1>7, <1>8, <1>10 DEF Fits
<1>12. ASSUME NEW y \in Xfers, Listed(t, y) PROVE t.pause[y] = q.pause[y]
  <2>1. s.pause[y] = q.pause[y]
    BY <1>3, <1>6, <1>12 DEF SweepFrame
  <2>2. t.pause[y] = s.pause[y]
    BY <1>5 DEF SameRow, RowIs
  <2> QED BY <2>1, <2>2
<1> QED BY <1>0, <1>1, <1>9, <1>11, <1>12 DEF QueueInv, Leaves

\* A connection comes up.
LEMMA ConnectFits ==
    ASSUME QueueInv, NEW c \in Conns, Connect(c)
    PROVE  QueueInv' /\ Leaves(q, q')
<1>0. /\ Fits(q, made, up, open) /\ Moves(q) /\ made \subseteq Xfers /\ up \subseteq Conns
      /\ open \in BOOLEAN
  BY DEF QueueInv
<1>1. up' = up \cup {c} /\ q' = q /\ made' = made /\ open' = open
  BY DEF Connect
<1>2. Fits(q, made, up', open)
  BY <1>0, <1>1 DEF Fits
<1> QED BY <1>0, <1>1, <1>2 DEF QueueInv, Leaves

\* xfers_delete_all.
LEMMA QuitFits ==
    ASSUME QueueInv, Quit
    PROVE  QueueInv' /\ Leaves(q, q')
<1> DEFINE p == [x \in Xfers |-> "None"]
           n == [x \in Xfers |-> NoTries]
           k == [x \in Xfers |-> q.canceled[x] \/ Listed(q, x)]
           a == [x \in Xfers |-> q.aborted[x] \/ Listed(q, x)]
           r == [x \in Xfers |-> IF Listed(q, x) THEN q.refs[x] - 1 ELSE q.refs[x]]
           t == [q EXCEPT !.list = <<>>, !.pause = p, !.tries = n, !.canceled = k,
                          !.aborted = a, !.refs = r]
<1>0. /\ Fits(q, made, up, open) /\ Moves(q) /\ made \subseteq Xfers /\ up \subseteq Conns
      /\ open \in BOOLEAN
  BY DEF QueueInv
<1>1. q' = t /\ open' = FALSE /\ made' = made /\ up' = up
  BY DEF Quit
<1>2. q \in Queues /\ Good(q)
  BY <1>0 DEF Fits, Good
<1>3. q.refs \in [Xfers -> Int]
  BY <1>2 DEF Queues
<1>4. /\ p \in [Xfers -> Pauses] /\ n \in [Xfers -> Int]
  BY DEF Pauses, NoTries
<1>5. k \in [Xfers -> BOOLEAN] /\ a \in [Xfers -> BOOLEAN] /\ r \in [Xfers -> Int]
  <2>1. \A x \in Xfers : (q.canceled[x] \/ Listed(q, x)) \in BOOLEAN /\ (q.aborted[x] \/ Listed(q, x)) \in BOOLEAN
    OBVIOUS
  <2>2. r \in [Xfers -> Int]
    BY <1>3
  <2> QED BY <2>1, <2>2
<1>6. \A x \in Xfers : /\ p[x] = "None" /\ n[x] = NoTries /\ k[x] = (q.canceled[x] \/ Listed(q, x))
                       /\ a[x] = (q.aborted[x] \/ Listed(q, x))
                       /\ r[x] = IF Listed(q, x) THEN q.refs[x] - 1 ELSE q.refs[x]
  OBVIOUS
<1>7. t = [q EXCEPT !.list = <<>>, !.pause = p, !.tries = n, !.canceled = k, !.aborted = a,
                    !.refs = r]
  OBVIOUS
<1> HIDE DEF p, n, k, a, r, t
<1>8. /\ t.list = <<>> /\ t.pause = p /\ t.tries = n /\ t.canceled = k
      /\ t.aborted = a /\ t.refs = r
      /\ t.worker = q.worker /\ t.gone = q.gone /\ t.asked = q.asked /\ t.timers = q.timers
      /\ t.known = q.known /\ t.resumed = q.resumed /\ t.again = q.again
  BY <1>2, <1>7 DEF Queues
<1>13. t \in Queues
  <2> DEFINE e == <<>>
             u == [q EXCEPT !.list = e, !.pause = p, !.tries = n]
  <2>0. e \in Seq(Xfers)
    OBVIOUS
  <2> HIDE DEF e
  <2>1. u \in Queues
    BY <1>2, <1>4, <2>0 DEF Queues
  <2>2. t = [u EXCEPT !.canceled = k, !.aborted = a, !.refs = r]
    BY <1>2, <1>7 DEF Queues, e
  <2> HIDE DEF u
  <2> QED BY <1>5, <2>1, <2>2 DEF Queues
<1>9. Distinct(t.list) /\ \A y \in Xfers : ~Listed(t, y)
  BY <1>8 DEF Distinct, Listed, Range
<1>10. ASSUME NEW y \in Xfers
       PROVE  /\ RowOK(t, y) /\ Owed(t, y) = 0 /\ (y \notin made => Fresh(t, y))
  <2>1. RowOK(q, y) /\ Owed(q, y) = 0
    BY <1>0, <1>2 DEF Good, Fits
  <2>2. ~Listed(t, y)
    BY <1>9
  <2>3. /\ t.pause[y] = "None" /\ t.worker[y] = q.worker[y] /\ t.gone[y] = q.gone[y]
        /\ t.tries[y] = NoTries /\ t.asked[y] = q.asked[y] /\ t.timers[y] = q.timers[y]
        /\ t.refs[y] = IF Listed(q, y) THEN q.refs[y] - 1 ELSE q.refs[y]
        /\ t.known[y] = q.known[y] /\ t.resumed[y] = q.resumed[y] /\ t.again[y] = q.again[y]
    BY <1>6, <1>8
  <2>4. /\ t.canceled[y] <=> q.canceled[y] \/ Listed(q, y)
        /\ t.aborted[y] <=> q.aborted[y] \/ Listed(q, y)
    BY <1>6, <1>8
  <2>5. RowCore(t, y)
    BY <2>1, <2>3 DEF RowOK, RowCore
  <2>6. RowPause(t, y)
    BY <2>2, <2>3 DEF RowPause
  <2>7. RowTries(t, y)
    BY <2>2, <2>3, QueueAssumption DEF RowTries, NoTries
  <2>8. RowToken(t, y)
    <3>1. RowToken(q, y) /\ RowPause(q, y)
      BY <2>1 DEF RowOK
    <3> QED BY <2>2, <2>3, <2>4, <3>1 DEF RowToken, RowPause
  <2>9. Owed(t, y) = Owed(q, y)
    <3>1. q.refs[y] \in Int /\ q.timers[y] \in Int /\ q.asked[y] \in Int
      BY <1>2, RowTypes
    <3> DEFINE w == Bit(Working(q, y))
    <3>2. w \in Int
      BY DEF Bit
    <3>3. Bit(Listed(t, y)) = 0 /\ Working(t, y) = Working(q, y)
      BY <2>2, <2>3 DEF Bit, Working
    <3>4. Owed(t, y) = t.refs[y] - (0 + w + q.timers[y] + q.asked[y])
      BY <2>3, <3>3 DEF Owed
    <3>5. CASE Listed(q, y)
      <4>1. Bit(Listed(q, y)) = 1 /\ t.refs[y] = q.refs[y] - 1
        BY <2>3, <3>5 DEF Bit
      <4>2. Owed(q, y) = q.refs[y] - (1 + w + q.timers[y] + q.asked[y])
        BY <4>1 DEF Owed
      <4> HIDE DEF w
      <4> QED BY <3>1, <3>2, <3>4, <4>1, <4>2
    <3>6. CASE ~Listed(q, y)
      <4>1. Bit(Listed(q, y)) = 0 /\ t.refs[y] = q.refs[y]
        BY <2>3, <3>6 DEF Bit
      <4>2. Owed(q, y) = q.refs[y] - (0 + w + q.timers[y] + q.asked[y])
        BY <4>1 DEF Owed
      <4> HIDE DEF w
      <4> QED BY <3>4, <4>1, <4>2
    <3> QED BY <3>5, <3>6
  <2>10. y \notin made => Fresh(t, y)
    <3>1. y \notin made => Fresh(q, y)
      BY <1>0 DEF Fits
    <3> QED BY <2>2, <2>3, <2>4, <3>1 DEF Fresh
  <2> QED BY <2>1, <2>5, <2>6, <2>7, <2>8, <2>9, <2>10 DEF RowOK
<1>11. Good(t) /\ Moves(t)
  BY <1>8, <1>9, <1>13, <1>10 DEF Good, Moves
<1>12. Fits(t, made, up, FALSE)
  BY <1>10, <1>11 DEF Fits
<1> QED BY <1>0, <1>1, <1>9, <1>11, <1>12 DEF QueueInv, Leaves

\* Nothing is listed or made at the start.
LEMMA InitFits ==
    ASSUME Init
    PROVE  QueueInv
<1> DEFINE e == EmptyQueue
<1>1. q = e /\ made = {} /\ up = Conns /\ open = TRUE
  BY DEF Init
<1>2. e.list = <<>> /\ e.list \in Seq(Xfers)
  BY DEF EmptyQueue
<1>3. /\ \A y \in Xfers :
             /\ e.pause[y] = "None" /\ e.worker[y] = "none" /\ e.gone[y] = FALSE
             /\ e.tries[y] = NoTries /\ e.asked[y] = 0 /\ e.timers[y] = 0 /\ e.refs[y] = 0
             /\ e.canceled[y] = FALSE /\ e.aborted[y] = FALSE /\ e.known[y] = FALSE
             /\ e.resumed[y] = FALSE /\ e.again[y] = 0
  BY DEF EmptyQueue
<1>4. /\ e.pause \in [Xfers -> Pauses] /\ e.worker \in [Xfers -> Workers]
      /\ e.gone \in [Xfers -> BOOLEAN] /\ e.tries \in [Xfers -> Int]
      /\ e.asked \in [Xfers -> Int] /\ e.timers \in [Xfers -> Int] /\ e.refs \in [Xfers -> Int]
      /\ e.canceled \in [Xfers -> BOOLEAN] /\ e.aborted \in [Xfers -> BOOLEAN]
      /\ e.known \in [Xfers -> BOOLEAN] /\ e.resumed \in [Xfers -> BOOLEAN]
      /\ e.again \in [Xfers -> Int]
  BY DEF EmptyQueue, Pauses, Workers, NoTries
<1>5. e = [list |-> e.list, pause |-> e.pause, worker |-> e.worker, gone |-> e.gone,
           tries |-> e.tries, asked |-> e.asked, timers |-> e.timers, refs |-> e.refs,
           canceled |-> e.canceled, aborted |-> e.aborted, known |-> e.known,
           resumed |-> e.resumed, again |-> e.again]
  BY DEF EmptyQueue
<1> HIDE DEF e
<1>6. e \in Queues
  BY <1>2, <1>4, <1>5 DEF Queues
<1>7. Distinct(e.list) /\ \A y \in Xfers : ~Listed(e, y)
  BY <1>2 DEF Distinct, Listed, Range
<1>8. \A y \in Xfers : RowOK(e, y)
  BY <1>3, <1>7, QueueAssumption DEF RowOK, RowCore, RowPause, RowTries, RowToken, NoTries
<1>9. \A y \in Xfers : Owed(e, y) = 0
  <2> SUFFICES ASSUME NEW y \in Xfers PROVE Owed(e, y) = 0
    OBVIOUS
  <2>1. Bit(Listed(e, y)) = 0 /\ Bit(Working(e, y)) = 0
    BY <1>3, <1>7 DEF Bit, Working
  <2> QED BY <1>3, <2>1 DEF Owed
<1>10. \A y \in Xfers : Fresh(e, y)
  BY <1>3, <1>7 DEF Fresh
<1>11. \A y \in Xfers : ConnOf[y] \in Conns
  BY QueueAssumption
<1>12. Fits(e, {}, Conns, TRUE)
  BY <1>6, <1>7, <1>8, <1>9, <1>10, <1>11 DEF Fits, Good
<1>13. Moves(e)
  BY <1>7 DEF Moves
<1> QED BY <1>1, <1>12, <1>13 DEF QueueInv

\* What a start may resume is the transfer that is started.
Resumes(x) ==
    Settled(q, x) /\ q'.pause[x] \in {"Asked", "None"} /\ Listed(q', x)
        => \E d \in Disks(x) : Start(x, d)

\* A step that leaves what is paused resumes nothing.
LEMMA LeavesResumes ==
    ASSUME Leaves(q, q')
    PROVE  \A x \in Xfers : Resumes(x)
  BY DEF Leaves, Resumes, Settled

\* Every step keeps the invariant, and none but a start resumes a transfer.
LEMMA NextFits ==
    ASSUME QueueInv, Next
    PROVE  QueueInv' /\ \A x \in Xfers : Resumes(x)
<1>1. ASSUME NEW x \in Xfers, NEW b \in BOOLEAN, XferNew(x, b)
      PROVE  QueueInv' /\ \A y \in Xfers : Resumes(y)
  BY <1>1, XferNewFits, LeavesResumes
<1>2. ASSUME NEW x \in Xfers, FolderNew(x)
      PROVE  QueueInv' /\ \A y \in Xfers : Resumes(y)
  BY <1>2, FolderNewFits, LeavesResumes
<1>3. ASSUME NEW x \in Xfers, NEW d \in Disks(x), Start(x, d)
      PROVE  QueueInv' /\ \A y \in Xfers : Resumes(y)
  <2>1. QueueInv' /\ Frame(q, q', x)
    BY <1>3, StartFits
  <2>2. Resumes(x)
    BY <1>3 DEF Resumes
  <2>3. \A y \in Xfers : y # x => Resumes(y)
    BY <2>1 DEF Frame, Resumes, Settled
  <2> QED BY <2>1, <2>2, <2>3
<1>4. ASSUME NEW x \in Xfers, Pause(x)
      PROVE  QueueInv' /\ \A y \in Xfers : Resumes(y)
  BY <1>4, PauseFits, LeavesResumes
<1>5. ASSUME NEW x \in Xfers, Delete(x)
      PROVE  QueueInv' /\ \A y \in Xfers : Resumes(y)
  BY <1>5, DeleteFits, LeavesResumes
<1>6. ASSUME NEW i \in 1..Len(q.list), Swap(i)
      PROVE  QueueInv' /\ \A y \in Xfers : Resumes(y)
  BY <1>6, SwapFits, LeavesResumes
<1>7. ASSUME NEW c \in Conns, Disconnect(c)
      PROVE  QueueInv' /\ \A y \in Xfers : Resumes(y)
  BY <1>7, DisconnectFits, LeavesResumes
<1>8. ASSUME NEW c \in Conns, Connect(c)
      PROVE  QueueInv' /\ \A y \in Xfers : Resumes(y)
  BY <1>8, ConnectFits, LeavesResumes
<1>9. ASSUME Quit
      PROVE  QueueInv' /\ \A y \in Xfers : Resumes(y)
  BY <1>9, QuitFits, LeavesResumes
<1>10. ASSUME NEW x \in Xfers, NEW r \in Replies[x], NEW place \in 0..1, Reply(x, r, place)
       PROVE  QueueInv' /\ \A y \in Xfers : Resumes(y)
  BY <1>10, ReplyFits, LeavesResumes
<1>11. ASSUME NEW x \in Xfers, QueueUpdate(x)
       PROVE  QueueInv' /\ \A y \in Xfers : Resumes(y)
  BY <1>11, QueueUpdateFits, LeavesResumes
<1>12. ASSUME NEW x \in Xfers, NEW out \in Outcomes(x), WorkerReturns(x, out)
       PROVE  QueueInv' /\ \A y \in Xfers : Resumes(y)
  BY <1>12, WorkerReturnsFits, LeavesResumes
<1>13. ASSUME NEW x \in Xfers, NEW d \in Disks(x), NEW full \in BOOLEAN, Cleanup(x, d, full)
       PROVE  QueueInv' /\ \A y \in Xfers : Resumes(y)
  BY <1>13, CleanupFits, LeavesResumes
<1>14. ASSUME NEW x \in Xfers, QueueRetry(x)
       PROVE  QueueInv' /\ \A y \in Xfers : Resumes(y)
  BY <1>14, QueueRetryFits, LeavesResumes
<1>15. CASE UserStep
  BY <1>1, <1>2, <1>3, <1>4, <1>5, <1>6, <1>7, <1>8, <1>9, <1>15 DEF UserStep
<1>16. CASE \E x \in Xfers : ServerStep(x)
  BY <1>10, <1>11, <1>16 DEF ServerStep
<1>17. CASE \E x \in Xfers : LoopStep(x)
  BY <1>12, <1>13, <1>14, <1>17 DEF LoopStep
<1> QED BY <1>15, <1>16, <1>17 DEF Next

\* The rows are right: a queue that fits has a holder for each reference, one
\* request or worker to a transfer, and live tokens.
LEMMA FitsHolders ==
    ASSUME QueueInv
    PROVE  OneHolderEach
<1>1. Fits(q, made, up, open) /\ made \subseteq Xfers /\ up \subseteq Conns /\ open \in BOOLEAN
  BY DEF QueueInv
<1>2. q \in Queues /\ Distinct(q.list) /\ \A y \in Xfers : RowOK(q, y)
  BY <1>1 DEF Fits, Good
<1>3. ASSUME NEW x \in Xfers
      PROVE  /\ q.asked[x] \in Nat /\ q.timers[x] \in 0..QueueTries
             /\ q.tries[x] \in NoTries..QueueTries /\ q.again[x] \in 0..AgainTries
             /\ q.asked[x] <= 1 /\ (q.asked[x] = 1 => q.worker[x] = "none")
  <2>1. /\ q.asked[x] \in Int /\ q.timers[x] \in Int /\ q.tries[x] \in Int
        /\ q.again[x] \in Int
    BY <1>2 DEF Queues
  <2>2. RowCore(q, x) /\ RowTries(q, x)
    BY <1>2 DEF RowOK
  <2> QED BY <2>1, <2>2, QueueAssumption DEF RowCore, RowTries, NoTries
<1>4. ASSUME NEW x \in Xfers
      PROVE  /\ q.refs[x] = Bit(Listed(q, x)) + Bit(Working(q, x)) + q.timers[x] + q.asked[x]
             /\ q.refs[x] \in Nat
  <2> DEFINE l == Bit(Listed(q, x))
             w == Bit(Working(q, x))
  <2>1. l \in Nat /\ w \in Nat
    BY DEF Bit
  <2>2. Owed(q, x) = q.refs[x] - (l + w + q.timers[x] + q.asked[x]) /\ Owed(q, x) = 0
    BY <1>1 DEF Fits, Owed
  <2>3. q.refs[x] \in Int
    BY <1>2 DEF Queues
  <2>4. q.timers[x] \in Nat /\ q.asked[x] \in Nat
    BY <1>3, QueueAssumption
  <2> HIDE DEF l, w
  <2>5. q.refs[x] = l + w + q.timers[x] + q.asked[x] /\ q.refs[x] \in Nat
    BY <2>1, <2>2, <2>3, <2>4
  <2> QED BY <2>5 DEF l, w
<1>5. QueueTypeOK
  <2>1. /\ q.list \in Seq(Xfers) /\ q.pause \in [Xfers -> Pauses]
        /\ q.worker \in [Xfers -> Workers] /\ q.gone \in [Xfers -> BOOLEAN]
        /\ q.tries \in [Xfers -> Int] /\ q.asked \in [Xfers -> Int]
        /\ q.timers \in [Xfers -> Int] /\ q.refs \in [Xfers -> Int]
        /\ q.canceled \in [Xfers -> BOOLEAN] /\ q.aborted \in [Xfers -> BOOLEAN]
        /\ q.known \in [Xfers -> BOOLEAN] /\ q.resumed \in [Xfers -> BOOLEAN]
        /\ q.again \in [Xfers -> Int]
    BY <1>2 DEF Queues
  <2>2. q.tries \in [Xfers -> NoTries..QueueTries]
    BY <1>3, <2>1
  <2>3. q.asked \in [Xfers -> Nat]
    BY <1>3, <2>1
  <2>4. q.timers \in [Xfers -> 0..QueueTries]
    BY <1>3, <2>1
  <2>5. q.refs \in [Xfers -> Nat]
    BY <1>4, <2>1
  <2>6. q.again \in [Xfers -> 0..AgainTries]
    BY <1>3, <2>1
  <2>7. \A i, j \in DOMAIN q.list : q.list[i] = q.list[j] => i = j
    BY <1>2 DEF Distinct
  <2> QED BY <1>1, <2>1, <2>2, <2>3, <2>4, <2>5, <2>6, <2>7, Zenon
          DEF QueueTypeOK, Pauses, Workers
<1>6. RefsAreHolders
  BY <1>4 DEF RefsAreHolders
<1>7. SweptWithConnection
  BY <1>1 DEF SweptWithConnection, Fits
<1>8. OneRequestOrWorker
  <2> SUFFICES ASSUME NEW x \in Xfers
               PROVE  /\ q.asked[x] + Bit(Working(q, x)) <= 1
                      /\ Listed(q, x) /\ q.asked[x] > 0
                             => q.pause[x] \in {"None", "Asked", "Restarted"}
                      /\ Working(q, x) => q.pause[x] \in {"None", "Winding"}
    BY DEF OneRequestOrWorker
  <2>1. q.asked[x] = 0 \/ (q.asked[x] = 1 /\ ~Working(q, x))
    BY <1>3 DEF Working
  <2>2. RowPause(q, x)
    BY <1>2 DEF RowOK
  <2> QED BY <2>1, <2>2 DEF Bit, RowPause, Working
<1>9. WorkersHaveLiveTokens
  BY <1>2 DEF WorkersHaveLiveTokens, RowOK, RowToken
<1> QED BY <1>5, <1>6, <1>7, <1>8, <1>9 DEF OneHolderEach

\* Moves is QueueMoves of the queue.
LEMMA FitsMoves ==
    ASSUME QueueInv
    PROVE  QueueMoves
<1>1. Moves(q) /\ q.list \in Seq(Xfers)
  BY DEF QueueInv, Fits, Good, Queues
<1>2. \A y : y \in Range(q.list) <=> y \in Xfers /\ Listed(q, y)
  BY <1>1 DEF Listed, Range
<1> QED BY <1>1, <1>2, Zenon DEF QueueMoves, Moves, Stopped

\* The invariant holds whatever the users, servers, workers and timers do.
THEOREM QueueInvariant == Spec => []QueueInv
<1>1. ASSUME QueueInv, UNCHANGED vars PROVE QueueInv'
  BY <1>1, Zenon DEF QueueInv, vars
<1>2. QueueInv /\ [Next]_vars => QueueInv'
  BY <1>1, NextFits
<1> QED BY <1>2, InitFits, PTL DEF Spec

\* A transfer is freed by the last of the list, its worker, its retry timers
\* and its requests to let go of it (xfer_ref, xfer_unref); it has one request
\* or one worker, whose token is live; and nothing of it is left on a
\* connection that is gone.
THEOREM HoldersAreAlwaysKnown == Spec => []OneHolderEach
  BY QueueInvariant, FitsHolders, PTL

\* While a transfer waits its turn, another is on its way whose end or retry
\* starts the next (start_next), but for a folder upload stopped at a changed
\* file.
THEOREM QueueAlwaysMoves == Spec => []QueueMoves
  BY QueueInvariant, FitsMoves, PTL

\* The queue passes over what is paused (xfer_go, start_next): no step but the
\* user's start resumes it.
THEOREM QueueAlwaysLeavesPauses == Spec => QueueLeavesPauses
<1>1. QueueInv /\ Next => \A x \in Xfers : Resumes(x)
  BY NextFits
<1>2. QueueInv /\ [Next]_vars => [\A x \in Xfers : Resumes(x)]_vars
  BY <1>1
<1>3. [\A x \in Xfers : Resumes(x)]_vars =>
      [\A x \in Xfers :
          Settled(q, x) /\ q'.pause[x] \in {"Asked", "None"} /\ Listed(q', x)
              => \E d \in Disks(x) : Start(x, d)]_vars
  BY DEF Resumes
<1> QED BY <1>2, <1>3, QueueInvariant, PTL DEF Spec, QueueLeavesPauses

=============================================================================
