----------------------------- MODULE TransferQueue -----------------------------
(***************************************************************************)
(* The file-transfer queue (rust/crates/hxhandlers/src/xfer.rs and the      *)
(* replies in recv/xfer.rs): one list of transfers for every connection,    *)
(* kept by the main thread, whose workers run on a thread pool.             *)
(*                                                                          *)
(* A transfer is asked for on its control connection; the server's reply    *)
(* starts its worker, now or when the server's own queue reaches it; the    *)
(* worker's return is settled in a later main-loop idle.  Between any two   *)
(* of these the user may pause, start, move or cancel it, its connection    *)
(* may close, and retry timers may fire.  Each call of the code is an       *)
(* operator from the queue's state q to the next, so that a handler is      *)
(* their composition.  Bytes, paths, sizes and rows are left out.           *)
(***************************************************************************)
EXTENDS Integers, Sequences, SequencesExt

CONSTANTS
    Xfers,        \* transfers, each made at most once
    Conns,        \* server connections
    ConnOf,       \* the connection a transfer runs on
    Kind,         \* "get", "preview", "put", "getfolder", "putfolder" or "bigput",
                  \* an upload of more bytes than 32 bits say
    Replies,      \* what a server answers: "ready", "refused", "larger", "nothing"
    QueueTries,   \* QUEUE_TRIES (5 in the code)
    AgainTries    \* AGAIN_TRIES (8 in the code)

ASSUME QueueAssumption ==
    /\ ConnOf \in [Xfers -> Conns]
    /\ Kind \in [Xfers -> {"get", "preview", "put", "bigput", "getfolder", "putfolder"}]
    /\ Replies \in [Xfers -> SUBSET {"ready", "refused", "larger", "nothing"}]
    /\ QueueTries \in Nat
    /\ AgainTries \in Nat

VARIABLES
    q,      \* the queue: every per-transfer table of xfer.rs, below
    made,   \* transfers that exist or did
    up,     \* connections with a control channel
    open    \* the application has not quit

vars == <<q, made, up, open>>

NoTries == -1
Folder(x) == Kind[x] \in {"getfolder", "putfolder"}
Upload(x) == Kind[x] \in {"put", "bigput", "putfolder"}
Resumable(x) == Kind[x] \notin {"preview", "bigput"}

Listed(s, x) == x \in Range(s.list)
Paused(s, x) == s.pause[x] \in {"Winding", "Paused", "Changed", "Failed"}
Settled(s, x) == s.pause[x] \in {"Paused", "Failed"}
Working(s, x) == s.worker[x] # "none"

EmptyQueue ==
    [list |-> <<>>,                               \* XFERS, top first
     pause |-> [x \in Xfers |-> "None"],          \* PAUSES
     worker |-> [x \in Xfers |-> "none"],         \* WORKING: running, or how it returned
     gone |-> [x \in Xfers |-> FALSE],            \* the request latch
     tries |-> [x \in Xfers |-> NoTries],         \* QUEUED
     asked |-> [x \in Xfers |-> 0],               \* requests in flight (recv/files.rs ASKED)
     timers |-> [x \in Xfers |-> 0],              \* queue_retry timers
     refs |-> [x \in Xfers |-> 0],                \* refcount
     canceled |-> [x \in Xfers |-> FALSE],        \* the cancel flag
     aborted |-> [x \in Xfers |-> FALSE],         \* the current abort token was used
     known |-> [x \in Xfers |-> FALSE],           \* the server gave it a reference
     resumed |-> [x \in Xfers |-> FALSE],         \* FolderRun.resumed
     again |-> [x \in Xfers |-> 0]]               \* FolderRun.again

Init == q = EmptyQueue /\ made = {} /\ up = Conns /\ open = TRUE

-----------------------------------------------------------------------------
(* The calls the handlers are made of.                                       *)

SetPause(s, x, p) == [s EXCEPT !.pause[x] = p]
SetTries(s, x, n) == [s EXCEPT !.tries[x] = n]

\* expect_transfer and the write: the entry keeps the transfer alive.
Ask(s, x) == [s EXCEPT !.asked[x] = @ + 1, !.refs[x] = @ + 1]

\* xfer_go: the latch keeps a request from going twice, a settled pause is
\* resumed, any other left alone.  disk is "changed" when an upload's local
\* files are not as the pause left them.
XferGo(s, x, disk) ==
    CASE Settled(s, x) /\ Upload(x) /\ disk = "changed" -> SetPause(s, x, "Changed")
      [] Settled(s, x) /\ ~(Upload(x) /\ disk = "changed") ->
             Ask([s EXCEPT !.pause[x] = "Asked", !.gone[x] = ~Folder(x),
                           !.resumed[x] = (Kind[x] = "putfolder")], x)
      [] s.pause[x] = "None" /\ ~Folder(x) /\ ~s.gone[x] -> Ask([s EXCEPT !.gone[x] = TRUE], x)
      [] OTHER -> s

\* Mutated form: the head of the list, paused or not.
UnpausedAny(s) == DOMAIN s.list

\* The places of the transfers the queue may start, of which the first goes.
Unpaused(s) == {i \in DOMAIN s.list : ~Paused(s, s.list[i])}

StartNext(s) ==
    IF Unpaused(s) = {} THEN s
    ELSE LET h == s.list[Min(Unpaused(s))]
             t == XferGo(s, h, "same")
         IN IF t.gone[h] /\ ~s.gone[h] /\ s.tries[h] = NoTries
            THEN SetTries(t, h, 0)
            ELSE t

Place(s, x) == CHOOSE i \in DOMAIN s.list : s.list[i] = x

XferRemove(s, x) ==
    IF ~Listed(s, x) THEN s
    ELSE StartNext([s EXCEPT !.list = RemoveAt(@, Place(s, x)), !.pause[x] = "None",
                             !.tries[x] = NoTries, !.refs[x] = @ - 1])

XferDelete(s, x) ==
    XferRemove([s EXCEPT !.canceled[x] = TRUE, !.aborted[x] = TRUE], x)

\* Mutated form: the old token is kept for the next connection.
HoldOldToken(s, x, p) == StartNext(SetPause(s, x, p))

Hold(s, x, p) == StartNext([s EXCEPT !.pause[x] = p, !.aborted[x] = FALSE])

\* How the local files may be found when a transfer is started: a folder
\* upload may also have nothing left to offer.
Disks(x) == CASE Kind[x] = "putfolder" -> {"same", "changed", "sent"}
              [] Kind[x] = "put" -> {"same", "changed"}
              [] OTHER -> {"same"}

\* xfer_go and resume_folder, whose resume ends the upload if all is sent.
Resume(s, x, disk) ==
    IF disk = "sent" /\ Settled(s, x) THEN XferRemove(s, x) ELSE XferGo(s, x, disk)

ReadyWrite(s, x) ==
    IF s.pause[x] # "None" \/ Working(s, x) THEN s
    ELSE [s EXCEPT !.worker[x] = "run", !.refs[x] = @ + 1]

\* The server answered: no longer paused, nor owed another try.
Answered(s, x) ==
    LET fresh == s.pause[x] = "Restarted"
    IN [s EXCEPT !.pause[x] = IF @ \in {"Asked", "Restarted"} THEN "None" ELSE @,
                 !.tries[x] = NoTries,
                 !.resumed[x] = @ /\ ~fresh,
                 !.again[x] = IF fresh THEN 0 ELSE @]

-----------------------------------------------------------------------------
(* Replies.  Each takes its entry out of ASKED, and lets go of it after.     *)

Unref(s, x) == [s EXCEPT !.refs[x] = @ - 1]
TakeAsked(s, x) == [s EXCEPT !.asked[x] = @ - 1]

\* download_ready and upload_ready, told the place in the server's queue.
Ready(s, x, place) ==
    LET t == [Answered(s, x) EXCEPT !.known[x] = TRUE]
    IN IF place = 0 THEN ReadyWrite(t, x) ELSE t

\* Back to queued, for a timer to have the queue try again.
QueuedRefused(s, x) ==
    [s EXCEPT !.tries[x] = @ + 1, !.gone[x] = FALSE,
              !.timers[x] = @ + 1, !.refs[x] = @ + 1]

\* Mutated form: a refused resume does not let the queue move on.
DownloadRefusedStill(s, x) ==
    CASE s.pause[x] = "Asked" -> SetPause(s, x, "Paused")
      [] s.pause[x] # "Asked" /\ s.tries[x] \in 0..(QueueTries - 1) -> QueuedRefused(s, x)
      [] OTHER -> XferDelete(SetTries(s, x, NoTries), x)

\* A resumed download goes back to paused, one the queue started back to
\* queued a few times; any other is dropped.
DownloadRefused(s, x) ==
    CASE s.pause[x] = "Asked" -> StartNext(SetPause(s, x, "Paused"))
      [] s.pause[x] # "Asked" /\ s.tries[x] \in 0..(QueueTries - 1) -> QueuedRefused(s, x)
      [] OTHER -> XferDelete(SetTries(s, x, NoTries), x)

\* A refused resume is asked for from the start, that refused is paused again.
UploadRefused(s, x) ==
    CASE s.pause[x] = "Asked" -> Ask(SetPause(s, x, "Restarted"), x)
      [] s.pause[x] = "Restarted" -> StartNext(SetPause(s, x, "Paused"))
      [] OTHER -> XferDelete(s, x)

\* The server holds more of a file than it has.
UploadLarger(s, x) ==
    IF s.pause[x] \in {"Asked", "Restarted"}
    THEN StartNext(SetPause(s, x, "Changed"))
    ELSE UploadRefused(s, x)

Handle(s, x, r, place) ==
    CASE ~Listed(s, x) \/ r = "nothing" -> s
      [] Listed(s, x) /\ r = "ready" -> Ready(s, x, place)
      [] Listed(s, x) /\ r = "refused" ->
             IF Upload(x) THEN UploadRefused(s, x) ELSE DownloadRefused(s, x)
      [] Listed(s, x) /\ r = "larger" -> UploadLarger(s, x)

Reply(x, r, place) ==
    /\ q.asked[x] > 0
    /\ r = "larger" => Upload(x) /\ ~Folder(x)
    /\ q' = Unref(Handle(TakeAsked(q, x), x, r, place), x)
    /\ UNCHANGED <<made, up, open>>

\* An unsolicited queue position for a reference; servers repeat 0.
QueueUpdate(x) ==
    /\ Listed(q, x)
    /\ q.known[x]
    /\ q' = ReadyWrite(q, x)
    /\ UNCHANGED <<made, up, open>>

-----------------------------------------------------------------------------
(* Workers and timers.                                                       *)

Outcomes(x) ==
    {"done", "failed", "fatal"}
        \cup (IF q.resumed[x] THEN {"again", "changed", "reoffer"} ELSE {})

WorkerReturns(x, out) ==
    /\ q.worker[x] = "run"
    /\ q' = [q EXCEPT !.worker[x] = out]
    /\ UNCHANGED <<made, up, open>>

\* A resumed folder upload that ended itself short, and is still wanted.
SettleStop(s, x, out, disk) ==
    IF out = "again" /\ s.again[x] < AgainTries
    THEN Resume([s EXCEPT !.again[x] = @ + 1, !.pause[x] = "Paused"], x, disk)
    ELSE StartNext([s EXCEPT !.pause[x] = IF out = "changed" THEN "Changed" ELSE "Paused",
                             !.again[x] = 0])

\* A worker that returned, pause aside: kept to be retried, or unlinked.
Finish(s, x, out) ==
    IF out = "failed" /\ ~s.canceled[x] /\ Resumable(x) /\ Listed(s, x)
    THEN Hold(s, x, "Failed")
    ELSE XferRemove(s, x)

\* A worker that was paused had finished: a folder's says so itself; of a
\* file's the bytes counted are all of them (full), to which a download that
\* is done sets them.
Finished(x, out, full) ==
    IF Folder(x) THEN out = "done" ELSE full \/ (out = "done" /\ ~Upload(x))

Settle(s, x, out, disk, full) ==
    CASE s.pause[x] = "Winding" ->
             IF Finished(x, out, full)
             THEN Finish(SetPause(s, x, "None"), x, out)
             ELSE Hold(s, x, "Paused")
      [] s.pause[x] # "Winding" /\ out \in {"again", "changed", "reoffer"}
             /\ Listed(s, x) /\ ~s.canceled[x] -> SettleStop(s, x, out, disk)
      [] OTHER -> Finish(s, x, out)

Cleanup(x, disk, full) ==
    /\ q.worker[x] \notin {"none", "run"}
    /\ q' = Unref(Settle([q EXCEPT !.worker[x] = "none"], x, q.worker[x], disk, full), x)
    /\ UNCHANGED <<made, up, open>>

\* Mutated form: the timer only lets go of the transfer.
QueueRetryIdle(x) ==
    /\ q.timers[x] > 0
    /\ q' = Unref([q EXCEPT !.timers[x] = @ - 1], x)
    /\ UNCHANGED <<made, up, open>>

QueueRetry(x) ==
    /\ q.timers[x] > 0
    /\ LET t == [q EXCEPT !.timers[x] = @ - 1]
       IN q' = Unref(IF Listed(t, x) THEN StartNext(t) ELSE t, x)
    /\ UNCHANGED <<made, up, open>>

-----------------------------------------------------------------------------
(* The user, and the connections.                                            *)

\* queueing: the "queue downloads" preference, which the user may change.
XferNew(x, queueing) ==
    /\ open /\ x \notin made /\ ~Folder(x) /\ ConnOf[x] \in up
    /\ LET s == [q EXCEPT !.list = Append(@, x), !.refs[x] = 1]
           alone == \A y \in Range(q.list) : Paused(q, y)
       IN q' = IF alone \/ ~queueing THEN XferGo(s, x, "same") ELSE s
    /\ made' = made \cup {x}
    /\ UNCHANGED <<up, open>>

FolderNew(x) ==
    /\ open /\ x \notin made /\ Folder(x) /\ ConnOf[x] \in up
    /\ q' = Ask([q EXCEPT !.list = Append(@, x), !.refs[x] = 1], x)
    /\ made' = made \cup {x}
    /\ UNCHANGED <<up, open>>

Start(x, disk) ==
    /\ open /\ Listed(q, x)
    /\ q' = Resume(q, x, disk)
    /\ UNCHANGED <<made, up, open>>

Pause(x) ==
    /\ open /\ Listed(q, x) /\ Resumable(x) /\ Working(q, x) /\ q.pause[x] = "None"
    /\ q' = [q EXCEPT !.pause[x] = "Winding", !.aborted[x] = TRUE]
    /\ UNCHANGED <<made, up, open>>

\* Cancel, or the close of a preview window, which may outlive the row.
Delete(x) ==
    /\ open
    /\ Listed(q, x) \/ (Kind[x] = "preview" /\ q.known[x] /\ q.refs[x] > 0)
    /\ q' = XferDelete(q, x)
    /\ UNCHANGED <<made, up, open>>

\* Move up the transfer at i + 1, or down the one at i.
Swap(i) ==
    /\ open /\ i \in 1..(Len(q.list) - 1)
    /\ q' = [q EXCEPT !.list = [@ EXCEPT ![i] = q.list[i + 1], ![i + 1] = q.list[i]]]
    /\ UNCHANGED <<made, up, open>>

\* xfers_delete_on_conn: each deletion lets the queue move on, perhaps to a
\* transfer that is deleted next.
DeleteOnConn(s, c) ==
    LET swept[i \in 0..Len(s.list)] ==
            IF i = 0 THEN s
            ELSE IF ConnOf[s.list[i]] = c THEN XferDelete(swept[i - 1], s.list[i])
            ELSE swept[i - 1]
    IN swept[Len(s.list)]

\* hx_recv_forget: requests of a closed connection have no reply.
Forget(s, c) ==
    [s EXCEPT !.asked = [x \in Xfers |-> IF ConnOf[x] = c THEN 0 ELSE s.asked[x]],
              !.refs = [x \in Xfers |-> IF ConnOf[x] = c THEN @[x] - s.asked[x] ELSE @[x]]]

Disconnect(c) ==
    /\ open /\ c \in up
    /\ q' = Forget(DeleteOnConn(q, c), c)
    /\ up' = up \ {c}
    /\ UNCHANGED <<made, open>>

Connect(c) ==
    /\ open /\ c \notin up
    /\ up' = up \cup {c}
    /\ UNCHANGED <<q, made, open>>

\* xfers_delete_all, at shutdown.
Quit ==
    /\ open
    /\ LET in(x) == Listed(q, x)
       IN q' = [q EXCEPT !.list = <<>>,
                !.pause = [x \in Xfers |-> "None"], !.tries = [x \in Xfers |-> NoTries],
                !.canceled = [x \in Xfers |-> @[x] \/ in(x)],
                !.aborted = [x \in Xfers |-> @[x] \/ in(x)],
                !.refs = [x \in Xfers |-> IF in(x) THEN @[x] - 1 ELSE @[x]]]
    /\ open' = FALSE
    /\ UNCHANGED <<made, up>>

UserStep ==
    \/ \E x \in Xfers :
           \/ \E b \in BOOLEAN : XferNew(x, b)
           \/ FolderNew(x)
           \/ \E d \in Disks(x) : Start(x, d)
           \/ Pause(x)
           \/ Delete(x)
    \/ \E i \in 1..Len(q.list) : Swap(i)
    \/ \E c \in Conns : Disconnect(c) \/ Connect(c)
    \/ Quit

ServerStep(x) ==
    \/ \E r \in Replies[x], place \in 0..1 : Reply(x, r, place)
    \/ QueueUpdate(x)

LoopStep(x) ==
    \/ \E out \in Outcomes(x) : WorkerReturns(x, out)
    \/ \E d \in Disks(x), full \in BOOLEAN : Cleanup(x, d, full)
    \/ QueueRetry(x)

Next == UserStep \/ \E x \in Xfers : ServerStep(x) \/ LoopStep(x)

Spec == Init /\ [][Next]_vars

\* Servers answer and let their queues move, workers return, and the main
\* loop runs its idles and timers; the user need do nothing.
FairTo(x) ==
    /\ WF_vars(\E r \in Replies[x], place \in 0..1 : Reply(x, r, place))
    /\ WF_vars(QueueUpdate(x))
    /\ WF_vars(LoopStep(x))

FairSpec == Spec /\ \A x \in Xfers : FairTo(x)

-----------------------------------------------------------------------------
\* Every table holds what its type in xfer.rs allows, and no row is listed
\* twice.
QueueTypeOK ==
    /\ q.list \in Seq(Xfers)
    /\ \A i, j \in DOMAIN q.list : q.list[i] = q.list[j] => i = j
    /\ q.pause \in [Xfers -> {"None", "Winding", "Paused", "Asked", "Restarted",
                              "Changed", "Failed"}]
    /\ q.worker \in [Xfers -> {"none", "run", "done", "failed", "fatal", "again",
                               "changed", "reoffer"}]
    /\ q.gone \in [Xfers -> BOOLEAN]
    /\ q.tries \in [Xfers -> NoTries..QueueTries]
    /\ q.asked \in [Xfers -> Nat]
    /\ q.timers \in [Xfers -> 0..QueueTries]
    /\ q.refs \in [Xfers -> Nat]
    /\ {q.canceled, q.aborted, q.known, q.resumed} \subseteq [Xfers -> BOOLEAN]
    /\ q.again \in [Xfers -> 0..AgainTries]
    /\ made \subseteq Xfers
    /\ up \subseteq Conns
    /\ open \in BOOLEAN

\* The reference count is the number of holders: the list, the worker, every
\* retry timer and every request in flight.  So a transfer is freed by the
\* last of them, whichever that is, and by no other.
Bit(b) == IF b THEN 1 ELSE 0
RefsAreHolders ==
    \A x \in Xfers :
        q.refs[x] = Bit(Listed(q, x)) + Bit(Working(q, x)) + q.timers[x] + q.asked[x]

\* A transfer has one request in flight or one worker, never two of either
\* nor both, however starts, retries, resumes and restarts interleave; a
\* worker runs only outside a pause or in one that is winding down.
OneRequestOrWorker ==
    \A x \in Xfers :
        /\ q.asked[x] + Bit(Working(q, x)) <= 1
        /\ Listed(q, x) /\ q.asked[x] > 0 => q.pause[x] \in {"None", "Asked", "Restarted"}
        /\ Working(q, x) => q.pause[x] \in {"None", "Winding"}

\* A worker nobody paused or cancelled runs on a live abort token: a resumed
\* transfer never inherits the one its pause used.
WorkersHaveLiveTokens ==
    \A x \in Xfers :
        q.worker[x] = "run" /\ q.pause[x] = "None" /\ ~q.canceled[x] => ~q.aborted[x]

\* Nothing is listed or asked for on a connection that is gone, though the
\* sweep of its transfers lets the queue start some of them.
SweptWithConnection ==
    \A x \in Xfers : (Listed(q, x) \/ q.asked[x] > 0) /\ open => ConnOf[x] \in up

\* A transfer on its way: asked for, in the server's queue, working, waiting
\* for a retry, or answered with nothing to transfer.
Waiting(s, x) == ~Folder(x) /\ ~s.gone[x] /\ s.pause[x] = "None"
OnItsWay(s, x) ==
    \/ Working(s, x)
    \/ s.timers[x] > 0
    \/ ~Paused(s, x) /\ ~Waiting(s, x)

\* While a transfer waits its turn, some listed transfer is on its way, whose
\* end or retry starts the next, unless a folder upload was stopped at a
\* changed file, the case of QueueNeverStops.
QueueMoves ==
    \A x \in Range(q.list) : Waiting(q, x) =>
        \E y \in Range(q.list) :
            OnItsWay(q, y) \/ (Kind[y] = "putfolder" /\ q.pause[y] = "Changed")

\* The queue never stops: "settle it, keep it in the list and let the queue
\* move on" (settle_pause).
QueueNeverStops ==
    \A x \in Range(q.list) : Waiting(q, x) => \E y \in Range(q.list) : OnItsWay(q, y)

\* Only the user resumes what is paused, or a folder upload itself when its
\* worker asks to be started again: the queue passes paused transfers over.
QueueLeavesPauses ==
    [][\A x \in Xfers :
          Settled(q, x) /\ q'.pause[x] \in {"Asked", "None"} /\ Listed(q', x)
              => \E d \in Disks(x) : Start(x, d)]_vars

\* A waiting transfer gets its turn: its worker runs, or it is paused,
\* refused or cancelled.
TransferGoes(x) ==
    Listed(q, x) /\ Waiting(q, x) ~> Working(q, x) \/ Paused(q, x) \/ ~Listed(q, x)

\* Who holds a transfer is accounted for: a reference for each holder, and no
\* holder left on a connection that is gone; one request or one worker, and the
\* worker a token that works.
OneHolderEach ==
    /\ QueueTypeOK /\ RefsAreHolders /\ SweptWithConnection
    /\ OneRequestOrWorker /\ WorkersHaveLiveTokens
=============================================================================
