---------------------------- MODULE RangeReader ----------------------------
(***************************************************************************)
(* The media preview's file, read a range at a time                        *)
(* (gtkhx-ui/src/media_preview).  Three kinds of thread meet on one lock:  *)
(* the streaming thread, which takes bytes at any offset (`fetch`), one    *)
(* worker for each range the server granted (`read`, `stream`, `keep`),    *)
(* and the main thread, which asks the server for ranges and hears its     *)
(* answers (`Player`).  A read the current range cannot reach starts a new *)
(* range; the worker of the old one notices that it was moved on from.     *)
(* A demuxer that reads while it seeks reads on the main thread, which is  *)
(* then held up until the read returns.                                    *)
(*                                                                         *)
(* Sizes are in chunks of READ_CHUNK bytes.  A byte is its own position in *)
(* the file, so a window or a buffer shows whether it holds the bytes it   *)
(* claims to hold.                                                         *)
(***************************************************************************)
EXTENDS Integers, Sequences, FiniteSets

CONSTANTS
    FileLen,    \* the data fork's length
    SkipAhead,  \* SKIP_AHEAD
    Ahead,      \* AHEAD
    Behind,     \* BEHIND
    BackOff,    \* BACK_OFF
    KeptMax,    \* KEPT
    Retries,    \* RETRIES
    Reads,      \* the reads a demuxer makes: pairs of an offset and a length
    MaxRanges,  \* bound: ranges begun
    MaxFetches, \* bound: reads made
    MaxFaults   \* bound: refusals, cut connections and servers that misbehave

ASSUME SizesAssumption ==
    /\ FileLen \in Nat \ {0} /\ SkipAhead \in Nat /\ Ahead \in Nat \ {0}
    /\ Behind \in Nat \ {0} /\ BackOff \in Nat /\ KeptMax \in Nat
    /\ Retries \in Nat /\ MaxRanges \in Nat \ {0}
    /\ MaxFetches \in Nat /\ MaxFaults \in Nat
ASSUME ReadsAssumption ==
    /\ Reads \subseteq Nat \X (Nat \ {0})
    /\ \E read \in Reads : \A other \in Reads : other[2] <= read[2]
ASSUME BackOffAssumption == BackOff <= SkipAhead

Ranges == 1..MaxRanges

Problems == {"Connect", "NotAFile", "Stopped", "NoResume"}
NoProblem == "none"

VARIABLES
    state,    \* Reader::state, what the lock guards
    fetcher,  \* the thread that reads: its read, and what the last one gave
    worker,   \* the range's worker thread, by range
    player,   \* the Player on the main thread
    asks,     \* ranges to ask for, each from an idle of its own
    inflight, \* requests the server has not answered
    queued,   \* ranges waiting in the server's queue
    retrying, \* ranges to ask for again when the timer fires
    conn,     \* the connection the player is bound to is live
    fetches,  \* reads made (bound)
    faults    \* faults met (bound)

readerVars == <<state, fetcher>>
mainVars == <<player, asks, inflight, queued, retrying, conn>>
vars == <<state, fetcher, worker, mainVars, fetches, faults>>

--------------------------------------------------------------------------
(* The state under the lock. *)

ReadTo(s) == s.start + Len(s.window)

Max2(a, b) == IF a > b THEN a ELSE b
Min2(a, b) == IF a < b THEN a ELSE b

Minus(a, b) == IF a > b THEN a - b ELSE 0  \* saturating_sub

\* What `kept` holds in all.
Total(k) ==
    LET sum[i \in 0..Len(k)] ==
            IF i = 0 THEN 0 ELSE sum[i - 1] + Len(k[i].bytes)
    IN  sum[Len(k)]

\* The oldest go until what is left fits: the longest suffix that does.
Trim(k) ==
    LET From(i) == SubSeq(k, i + 1, Len(k))
        First(i) == /\ Total(From(i)) <= KeptMax
                    /\ \A j \in 0..(i - 1) : Total(From(j)) > KeptMax
    IN  IF \E i \in 0..Len(k) : First(i)
        THEN From(CHOOSE i \in 0..Len(k) : First(i))
        ELSE <<>>

\* State::restart: a new range from `offset`, the old window kept.
Restart(s, offset) ==
    [s EXCEPT
        !.kept = IF s.window = <<>> THEN s.kept
                 ELSE Trim(Append(s.kept, [start |-> s.start, bytes |-> s.window])),
        !.window = <<>>,
        !.range = s.range + 1,
        !.active = TRUE,
        !.start = offset,
        !.taken = offset,
        !.waiting_to = 0,
        !.failed = NoProblem,
        !.abort = 0]

\* The stretches a read can be served from, the window first and then the
\* ranges kept, the newest first.
Stretches(s) == Append(s.kept, [start |-> s.start, bytes |-> s.window])

Holds(st, offset, end) == st.start <= offset /\ end <= st.start + Len(st.bytes)

Slice(st, offset, end) == SubSeq(st.bytes, offset - st.start + 1, end - st.start)

CanServe(s, offset, end) ==
    \E i \in 1..Len(Stretches(s)) : Holds(Stretches(s)[i], offset, end)

\* State::bytes
Bytes(s, offset, end) ==
    LET n == CHOOSE i \in 1..Len(Stretches(s)) :
                /\ Holds(Stretches(s)[i], offset, end)
                /\ \A j \in 1..Len(Stretches(s)) :
                        Holds(Stretches(s)[j], offset, end) => j <= i
    IN  Slice(Stretches(s)[n], offset, end)

Current(r) == state.range = r /\ ~state.closed

\* Mutated form: the token stays, and the read it would abort goes on.
CloseKeepsToken(s) == [s EXCEPT !.closed = TRUE, !.range = s.range + 1]

\* Reader::close: the number moves on and the token is let go of, which
\* aborts the read of the worker it belongs to.
Close(s) == [s EXCEPT !.closed = TRUE, !.range = s.range + 1, !.abort = 0]

--------------------------------------------------------------------------
Idle == [pc |-> "none", offset |-> 0, next |-> 0, end |-> 0,
         problem |-> NoProblem, first |-> FALSE]

\* `open`: the first range is begun and asked for at once.
Init ==
    /\ state = [range |-> 1, active |-> TRUE, start |-> 0, window |-> <<>>,
                kept |-> <<>>, taken |-> 0, waiting_to |-> 0, len |-> 0,
                failed |-> NoProblem, flushing |-> FALSE, closed |-> FALSE,
                abort |-> 0]
    /\ fetcher = [pc |-> "idle", main |-> FALSE, offset |-> 0, length |-> 1,
                  gave |-> "nothing", bytes |-> <<>>]
    /\ worker = [r \in Ranges |-> Idle]
    /\ player = [at |-> "open", started |-> FALSE, retries |-> 0,
                 start |-> FALSE, fail |-> FALSE]
    /\ asks = {}
    /\ inflight = {[range |-> 1, offset |-> 0]}
    /\ queued = {}
    /\ retrying = {}
    /\ conn = TRUE
    /\ fetches = 0
    /\ faults = 0

\* The main loop runs: the main thread is not itself in a read.
MainRuns == ~(fetcher.pc = "fetching" /\ fetcher.main)

Fault == faults < MaxFaults /\ faults' = faults + 1

--------------------------------------------------------------------------
(* Reads: RangeSrc::create and Reader::fetch. *)

\* A read begins once playbin runs: it is made by the first range's length.
\* It is the streaming thread's, or the main thread's in a seek.
Fetch(offset, length, main) ==
    /\ fetcher.pc = "idle" /\ ~state.flushing
    /\ player.started /\ player.at # "gone"
    /\ fetches < MaxFetches
    /\ fetches' = fetches + 1
    /\ fetcher' = [fetcher EXCEPT !.pc = "fetching", !.main = main,
                                  !.offset = offset, !.length = length,
                                  !.gave = "nothing", !.bytes = <<>>]
    /\ UNCHANGED <<state, worker, mainVars, faults>>

Give(what, bytes) ==
    fetcher' = [fetcher EXCEPT !.pc = "idle", !.gave = what, !.bytes = bytes]

ReadEnd == Min2(fetcher.offset + fetcher.length, state.len)

Reachable(s, offset) ==
    s.active /\ s.start <= offset /\ offset <= ReadTo(s) + SkipAhead

\* What a served read does to how far the player has taken.
Taken(s, offset, end) ==
    IF s.start <= offset /\ offset <= ReadTo(s)
    THEN [s EXCEPT !.taken = Max2(s.taken, end)]
    ELSE s

\* A turn of fetch's loop.  Notified or not it looks again after 200 ms, so
\* a waiting read may take its turn at any time.
Fetching == fetcher.pc = "fetching"
Looks == Fetching /\ ~state.closed /\ ~state.flushing
Lacks == /\ Looks /\ fetcher.offset < state.len
         /\ ~CanServe(state, fetcher.offset, ReadEnd)
fetchElse == <<worker, player, inflight, queued, retrying, conn, fetches, faults>>

FetchFlushed ==
    /\ Fetching /\ (state.closed \/ state.flushing)
    /\ Give("Flushing", <<>>)
    /\ UNCHANGED <<state, asks, fetchElse>>

FetchEnds ==
    /\ Looks /\ fetcher.offset >= state.len
    /\ Give("End", <<>>)
    /\ UNCHANGED <<state, asks, fetchElse>>

FetchServed ==
    /\ Looks /\ fetcher.offset < state.len
    /\ CanServe(state, fetcher.offset, ReadEnd)
    /\ Give("Bytes", Bytes(state, fetcher.offset, ReadEnd))
    /\ state' = Taken(state, fetcher.offset, ReadEnd)
    /\ UNCHANGED <<asks, fetchElse>>

FetchFails ==
    /\ Lacks /\ state.failed # NoProblem
    /\ Give("Failed", <<>>)
    /\ UNCHANGED <<state, asks, fetchElse>>

FetchWaits ==
    /\ Lacks /\ state.failed = NoProblem /\ Reachable(state, fetcher.offset)
    /\ state' = [state EXCEPT !.taken = Max2(state.taken, fetcher.offset),
                              !.waiting_to = ReadEnd]
    /\ UNCHANGED <<fetcher, asks, fetchElse>>

FetchRestarts ==
    /\ Lacks /\ state.failed = NoProblem /\ ~Reachable(state, fetcher.offset)
    /\ state.range < MaxRanges
    /\ LET from == Minus(fetcher.offset, BackOff) IN
       /\ state' = [Restart(state, from) EXCEPT !.waiting_to = ReadEnd]
       /\ asks' = asks \cup {[range |-> state.range + 1, offset |-> from]}
    /\ UNCHANGED <<fetcher, fetchElse>>

FetchTurn == \/ FetchFlushed \/ FetchEnds \/ FetchServed
             \/ FetchFails \/ FetchWaits \/ FetchRestarts

\* RangeSrc::unlock and unlock_stop, around a seek from the main thread.
\* GStreamer stops the flush once the streaming thread has let go of the
\* stream lock, and reads nothing meanwhile; a flush that meets no read is
\* left out.
Flush(flushing) ==
    /\ MainRuns
    /\ player.started /\ player.at # "gone"
    /\ state.flushing # flushing /\ flushing = (fetcher.pc = "fetching")
    /\ state' = [state EXCEPT !.flushing = flushing]
    /\ UNCHANGED <<fetcher, worker, mainVars, fetches, faults>>

--------------------------------------------------------------------------
(* A range's worker thread: Reader::read, stream and keep. *)

\* The token the worker armed is no longer held: its reads are aborted.
Aborted(r) == state.abort # r

workerElse == <<fetcher, mainVars, fetches>>

At(r, pc) == worker[r].pc = pc
Go(r, pc) == worker' = [worker EXCEPT ![r].pc = pc]
Ends(r, problem) ==
    worker' = [worker EXCEPT ![r].pc = "ends", ![r].problem = problem]

\* The transfer is opened.  Under the lock the worker finds out whether its
\* range has been moved on from and, if not, leaves its token there.
Connect(r) ==
    /\ At(r, "connect")
    /\ \/ /\ Current(r)
          /\ state' = [state EXCEPT !.abort = r]
          /\ Go(r, "head")
       \/ /\ ~Current(r)
          /\ Ends(r, NoProblem)
          /\ UNCHANGED state
    /\ UNCHANGED <<workerElse, faults>>

ConnectFails(r) ==
    /\ At(r, "connect")
    /\ Fault
    /\ Ends(r, "Connect")
    /\ UNCHANGED <<state, workerElse>>

\* The header says how long the data fork is: what is left of the file from
\* the offset on or, from a server that ignores it, the whole file.
Header(r, says) ==
    /\ At(r, "head")
    /\ IF says = FileLen - worker[r].offset THEN UNCHANGED faults ELSE Fault
    /\ LET end == worker[r].offset + says IN
       \/ /\ state.len \in {0, end}
          /\ state' = [state EXCEPT !.len = end]
          /\ worker' = [worker EXCEPT ![r].pc = "read", ![r].end = end]
          /\ player' = [player EXCEPT !.start = @ \/ worker[r].first]
       \/ /\ state.len \notin {0, end}
          /\ Ends(r, "NoResume")
          /\ UNCHANGED <<state, player>>
    /\ UNCHANGED <<fetcher, asks, inflight, queued, retrying, conn, fetches>>

HeaderFails(r) ==
    /\ At(r, "head")
    /\ IF Aborted(r) THEN UNCHANGED faults ELSE Fault
    /\ Ends(r, "NotAFile")
    /\ UNCHANGED <<state, workerElse>>

\* A chunk comes off the transfer, outside the lock.
Receive(r) ==
    /\ At(r, "read") /\ worker[r].next < worker[r].end
    /\ Go(r, "keep")
    /\ UNCHANGED <<state, workerElse, faults>>

ReadWhole(r) ==
    /\ At(r, "read") /\ worker[r].next >= worker[r].end
    /\ Ends(r, NoProblem)
    /\ UNCHANGED <<state, workerElse, faults>>

\* The read is aborted, or the server stops part way.
ReadStops(r) ==
    /\ At(r, "read") /\ worker[r].next < worker[r].end
    /\ IF Aborted(r) THEN UNCHANGED faults ELSE Fault
    /\ Ends(r, IF worker[r].next = worker[r].offset THEN "Stopped" ELSE NoProblem)
    /\ UNCHANGED <<state, workerElse>>

\* keep: a chunk joins the window once the player is close enough behind,
\* and what the player is well past goes.
Room(s) == ReadTo(s) < Max2(s.taken + Ahead, s.waiting_to)

Drop(s) == LET behind == Minus(s.taken, s.start)
           IN  IF behind > 2 * Behind THEN behind - Behind ELSE 0

Extended(s, chunk) == [s EXCEPT !.window = Append(s.window, chunk)]

Drained(s, drop) ==
    [s EXCEPT !.window = SubSeq(s.window, drop + 1, Len(s.window)),
              !.start = s.start + drop]

\* Mutated form: the chunk is kept whichever range is current.
KeepChunkLate(r) ==
    /\ At(r, "keep") /\ Room(state)
    /\ LET s == Extended(state, worker[r].next) IN
       /\ Drop(s) <= Len(s.window)
       /\ state' = Drained(s, Drop(s))
    /\ worker' = [worker EXCEPT ![r].pc = "read", ![r].next = @ + 1]
    /\ UNCHANGED <<workerElse, faults>>

KeepChunk(r) ==
    /\ At(r, "keep") /\ Current(r) /\ Room(state)
    /\ LET s == Extended(state, worker[r].next) IN
       /\ Drop(s) <= Len(s.window)
       /\ state' = Drained(s, Drop(s))
    /\ worker' = [worker EXCEPT ![r].pc = "read", ![r].next = @ + 1]
    /\ UNCHANGED <<workerElse, faults>>

\* Letting go of more than the window holds: `drain` panics, and the thread
\* is gone with its range still marked active.
KeepPanics(r) ==
    /\ At(r, "keep") /\ Current(r) /\ Room(state)
    /\ LET s == Extended(state, worker[r].next) IN
       /\ Drop(s) > Len(s.window)
       /\ state' = s
    /\ Go(r, "panicked")
    /\ UNCHANGED <<workerElse, faults>>

KeepRefused(r) ==
    /\ At(r, "keep") /\ ~Current(r)
    /\ Ends(r, NoProblem)
    /\ UNCHANGED <<state, workerElse, faults>>

\* Mutated form: a range that ended without a problem stays active.
FinishStaysActive(r) ==
    /\ At(r, "ends")
    /\ Go(r, "done")
    /\ state' = IF Current(r) THEN [state EXCEPT !.failed = worker[r].problem] ELSE state
    /\ player' = [player EXCEPT !.fail = @ \/ ( /\ Current(r) /\ worker[r].first
                                                /\ worker[r].problem # NoProblem )]
    /\ UNCHANGED <<fetcher, asks, inflight, queued, retrying, conn, fetches, faults>>

\* The end of `read`: the range that is still current says how it ended.
Finish(r) ==
    /\ At(r, "ends")
    /\ Go(r, "done")
    /\ state' = IF Current(r)
                THEN [state EXCEPT !.active = FALSE, !.failed = worker[r].problem]
                ELSE state
    /\ player' = [player EXCEPT !.fail = @ \/ ( /\ Current(r) /\ worker[r].first
                                                /\ worker[r].problem # NoProblem )]
    /\ UNCHANGED <<fetcher, asks, inflight, queued, retrying, conn, fetches, faults>>

WorkerStep(r) ==
    \/ Connect(r) \/ ConnectFails(r)
    \/ \E says \in {FileLen - worker[r].offset, FileLen} : Header(r, says)
    \/ HeaderFails(r) \/ Receive(r) \/ ReadWhole(r) \/ ReadStops(r)
    \/ KeepChunk(r) \/ KeepPanics(r) \/ KeepRefused(r) \/ Finish(r)

--------------------------------------------------------------------------
(* The main thread: the Player, when the main loop runs. *)

mainElse == <<fetcher, fetches>>

Lives == player.at # "gone"

\* Player::fail
Failed(p) == [p EXCEPT !.at = "failed"]

\* Player::request
Request(q) ==
    \/ /\ conn
       /\ inflight' = inflight \cup {q}
       /\ UNCHANGED <<state, player>>
    \/ /\ ~conn
       /\ state' = Close(state)
       /\ player' = Failed(player)
       /\ UNCHANGED inflight

\* The idle that asks for a range a read restarted at.
RunAsk(q) ==
    /\ MainRuns /\ q \in asks
    /\ asks' = asks \ {q}
    /\ IF Lives THEN Request(q) ELSE UNCHANGED <<state, player, inflight>>
    /\ UNCHANGED <<worker, queued, retrying, conn, faults, mainElse>>

\* Player::read: a thread of its own opens the transfer.
SpawnWorker(q) ==
    worker' = [worker EXCEPT ![q.range] =
        [Idle EXCEPT !.pc = "connect", !.offset = q.offset, !.next = q.offset,
                     !.first = ~player.started]]

Answer(q) == MainRuns /\ conn /\ q \in inflight /\ inflight' = inflight \ {q}

Granted(q) ==
    /\ Answer(q)
    /\ IF Lives
       THEN SpawnWorker(q) /\ player' = [player EXCEPT !.retries = 0]
       ELSE UNCHANGED <<worker, player>>
    /\ UNCHANGED <<state, asks, queued, retrying, conn, faults, mainElse>>

QueuedBehind(q) ==
    /\ Answer(q)
    /\ IF Lives
       THEN queued' = queued \cup {q} /\ player' = [player EXCEPT !.retries = 0]
       ELSE UNCHANGED <<queued, player>>
    /\ UNCHANGED <<state, worker, asks, retrying, conn, faults, mainElse>>

\* The queue reaches the range: it is opened even when the player is gone.
TurnComes(q) ==
    /\ MainRuns /\ conn /\ q \in queued
    /\ queued' = queued \ {q}
    /\ SpawnWorker(q)
    /\ UNCHANGED <<state, player, asks, inflight, retrying, conn, faults, mainElse>>

\* Refused with a reason: asked for again a little later, so many times.
Refused(q) ==
    /\ Answer(q)
    /\ Fault
    /\ \/ /\ Lives /\ Current(q.range)
          /\ player.started /\ player.retries < Retries
          /\ player' = [player EXCEPT !.retries = @ + 1]
          /\ retrying' = retrying \cup {q}
          /\ UNCHANGED state
       \/ /\ Lives /\ Current(q.range)
          /\ ~(player.started /\ player.retries < Retries)
          /\ state' = Close(state) /\ player' = Failed(player)
          /\ UNCHANGED retrying
       \/ /\ ~(Lives /\ Current(q.range))
          /\ UNCHANGED <<state, player, retrying>>
    /\ UNCHANGED <<worker, asks, queued, conn, mainElse>>

RetryFires(q) ==
    /\ MainRuns /\ q \in retrying
    /\ retrying' = retrying \ {q}
    /\ IF Lives /\ Current(q.range) THEN Request(q)
       ELSE UNCHANGED <<state, player, inflight>>
    /\ UNCHANGED <<worker, asks, queued, conn, faults, mainElse>>

\* The connection closes (recv::files::forget): every request in flight and
\* every range in the queue is told.
ConnLost ==
    /\ MainRuns /\ conn /\ conn' = FALSE
    /\ Fault
    /\ inflight' = {} /\ queued' = {}
    /\ IF Lives /\ (queued # {} \/ \E q \in inflight : Current(q.range))
       THEN state' = Close(state) /\ player' = Failed(player)
       ELSE UNCHANGED <<state, player>>
    /\ UNCHANGED <<worker, asks, retrying, mainElse>>

\* What a worker had run on the main loop: start playing, or say why not.
RunStart ==
    /\ MainRuns /\ player.start
    /\ player' = [player EXCEPT !.start = FALSE, !.started = @ \/ Lives]
    /\ UNCHANGED <<state, worker, asks, inflight, queued, retrying, conn, faults, mainElse>>

RunFail ==
    /\ MainRuns /\ player.fail
    /\ IF Lives
       THEN state' = Close(state) /\ player' = [Failed(player) EXCEPT !.fail = FALSE]
       ELSE player' = [player EXCEPT !.fail = FALSE] /\ UNCHANGED state
    /\ UNCHANGED <<worker, asks, inflight, queued, retrying, conn, faults, mainElse>>

\* The pipeline reports the element's error: Player::on_message.
ErrorShown ==
    /\ MainRuns /\ player.at = "open" /\ fetcher.gave = "Failed"
    /\ state' = Close(state)
    /\ player' = Failed(player)
    /\ UNCHANGED <<worker, asks, inflight, queued, retrying, conn, faults, mainElse>>

\* Player::close, on the window's close.
ClosePlayer ==
    /\ MainRuns /\ Lives
    /\ state' = Close(state)
    /\ player' = [player EXCEPT !.at = "gone"]
    /\ UNCHANGED <<worker, asks, inflight, queued, retrying, conn, faults, mainElse>>

MainStep ==
    \/ \E q \in asks : RunAsk(q)
    \/ \E q \in inflight : Granted(q) \/ QueuedBehind(q) \/ Refused(q)
    \/ \E q \in queued : TurnComes(q)
    \/ \E q \in retrying : RetryFires(q)
    \/ ConnLost \/ RunStart \/ RunFail \/ ErrorShown \/ ClosePlayer

Next ==
    \/ \E read \in Reads, main \in BOOLEAN : Fetch(read[1], read[2], main)
    \/ FetchTurn
    \/ \E flushing \in BOOLEAN : Flush(flushing)
    \/ \E r \in Ranges : WorkerStep(r)
    \/ MainStep

Spec == Init /\ [][Next]_vars

--------------------------------------------------------------------------
(* Fairness: every thread runs, the main loop runs what it was handed      *)
(* (never while the main thread is in a read: its actions say so), and a   *)
(* live server answers, reaches a queued range and sends what it granted   *)
(* to the range being read.  An aborted read ends.                         *)

ServerSends(r) ==
    /\ Current(r)
    /\ \/ Header(r, FileLen - worker[r].offset)
       \/ Receive(r)
AbortedEnds(r) == Aborted(r) /\ (HeaderFails(r) \/ ReadStops(r))
WorkerRuns(r) ==
    \/ Connect(r) \/ ReadWhole(r) \/ Finish(r)
    \/ KeepChunk(r) \/ KeepPanics(r) \/ KeepRefused(r)
MainLoopRuns ==
    \/ \E q \in asks : RunAsk(q)
    \/ \E q \in retrying : RetryFires(q)
    \/ RunStart \/ RunFail
ServerAnswers == \E q \in inflight : Granted(q) \/ QueuedBehind(q) \/ Refused(q)
QueueMoves == \E q \in queued : TurnComes(q)

Fairness ==
    /\ WF_vars(FetchTurn)
    /\ WF_vars(MainLoopRuns)
    /\ WF_vars(ServerAnswers)
    /\ WF_vars(QueueMoves)
    /\ \A r \in Ranges : /\ WF_vars(ServerSends(r))
                         /\ WF_vars(AbortedEnds(r))
                         /\ WF_vars(WorkerRuns(r))

FairSpec == Spec /\ Fairness

--------------------------------------------------------------------------
(* Properties. *)

Stretch == [start : Nat, bytes : Seq(Nat)]
Asked == [range : Ranges, offset : Nat]

\* The variables keep their types.
TypeOK ==
    /\ state \in [range : Nat, active : BOOLEAN, start : Nat, window : Seq(Nat),
                  kept : Seq(Stretch), taken : Nat, waiting_to : Nat, len : Nat,
                  failed : Problems \cup {NoProblem}, flushing : BOOLEAN,
                  closed : BOOLEAN, abort : 0..MaxRanges]
    /\ fetcher \in [pc : {"idle", "fetching"}, main : BOOLEAN, offset : Nat,
                    length : Nat \ {0},
                    gave : {"nothing", "Flushing", "End", "Bytes", "Failed"},
                    bytes : Seq(Nat)]
    /\ worker \in [Ranges ->
           [pc : {"none", "connect", "head", "read", "keep", "ends", "done", "panicked"},
            offset : Nat, next : Nat, end : Nat, problem : Problems \cup {NoProblem},
            first : BOOLEAN]]
    /\ player \in [at : {"open", "failed", "gone"}, started : BOOLEAN,
                   retries : 0..Retries, start : BOOLEAN, fail : BOOLEAN]
    /\ asks \subseteq Asked /\ inflight \subseteq Asked
    /\ queued \subseteq Asked /\ retrying \subseteq Asked
    /\ conn \in BOOLEAN
    /\ fetches \in 0..MaxFetches /\ faults \in 0..MaxFaults

\* The bytes a stretch holds are the file's, from where it says it starts.
FromFile(st) == \A i \in 1..Len(st.bytes) : st.bytes[i] = st.start + i - 1

\* The window and every range kept hold the file's own bytes, and the worker
\* that adds to the window adds where it ends: what `restart` moves aside,
\* `keep` drains and a late worker of an older range would add never shifts
\* the bytes against `start`.
WindowIsFile ==
    /\ \A i \in 1..Len(Stretches(state)) : FromFile(Stretches(state)[i])
    /\ \A r \in Ranges :
           worker[r].pc \in {"read", "keep"} /\ Current(r)
               => worker[r].next = ReadTo(state)

\* A read that was given bytes was given the file's, from its offset to its
\* length or the end, and the end of the file is told only past it.
ServedBytesAreTheFile ==
    /\ fetcher.gave = "Bytes"
           => /\ FromFile([start |-> fetcher.offset, bytes |-> fetcher.bytes])
              /\ Len(fetcher.bytes)
                    = Min2(fetcher.length, FileLen - fetcher.offset)
    /\ fetcher.gave = "End" => fetcher.offset >= FileLen

LongestRead == CHOOSE n \in {read[2] : read \in Reads} :
                   \A read \in Reads : read[2] <= n

\* Memory stays bounded however far the player reads or seeks: the window by
\* what is kept behind and read ahead, and the ranges kept by KEPT.
BoundedMemory ==
    (\A r \in Ranges : worker[r].pc # "panicked")
        => /\ Len(state.window)
                 <= 2 * Behind + Max2(Ahead, LongestRead + BackOff)
           /\ Total(state.kept) <= KeptMax

\* A worker whose range was moved on from, or whose player closed, ends: it
\* is not left in a read of a server that says nothing.
StaleWorkersEnd ==
    \A r \in Ranges :
        (worker[r].pc \notin {"none", "done", "panicked"} /\ ~Current(r))
            ~> (worker[r].pc = "done")

\* The read holds up the main thread, and the range it lacks bytes of has no
\* worker yet: its request or its answer is the main loop's to handle.
WaitsForMainLoop ==
    /\ Lacks /\ fetcher.main /\ state.failed = NoProblem
    /\ worker[state.range].pc = "none"

\* A read ends, with bytes or with why there are none, unless a worker
\* panicked under it; one on the main thread also waits for ever if no worker
\* has begun the range it needs (mod.rs:92).
ReadReturns ==
    Fetching ~> \/ ~Fetching \/ WaitsForMainLoop
                \/ \E r \in Ranges : worker[r].pc = "panicked"

\* A read of the streaming thread that waits for the worker is answered,
\* however far past what has been read it lands.
EveryReadReturns == Fetching /\ ~fetcher.main ~> ~Fetching

\* What the player is given is the file, in bounded memory, however reads,
\* seeks, late workers and retries interleave.
ServesTheFile == TypeOK /\ WindowIsFile /\ ServedBytesAreTheFile /\ BoundedMemory
====
