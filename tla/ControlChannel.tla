--------------------------- MODULE ControlChannel ---------------------------
(***************************************************************************)
(* A connection's control channel, from the request a window makes to the  *)
(* socket and from the socket to the handler its reply goes to:            *)
(*                                                                         *)
(*   main thread   hlwrite_chunks, the requests held until the login       *)
(*                 settles, the tables replies are matched by, connect     *)
(*                 and close (hxtask, hxhandlers, network.c)               *)
(*   tokio         the actor's read, write and delivery sides over one     *)
(*                 session, and the pump to the main loop (hxnet)          *)
(*   main thread   the forwarder and the bridge's callbacks (hxbridge,     *)
(*                 hxnet_bridge.c)                                         *)
(*                                                                         *)
(* One connection (`struct htlc_conn`) outlives its transports: each       *)
(* connect makes a new handle, and what the old one still has under way    *)
(* must not reach the new one.  A request is an id, the trans it goes out  *)
(* on and how its reply is matched:                                        *)
(*   plain   nothing is recorded                                           *)
(*   first   recorded, then sent                                           *)
(*   after   sent, then recorded                                           *)
(*   banner  sent, then recorded, and kept when the login settles          *)
(***************************************************************************)
EXTENDS Integers, Sequences, FiniteSets

CONSTANTS
    CommandCapacity,  \* the command channel
    EventCapacity,    \* the actor's event channel
    FerryCapacity,    \* the channel to the main loop
    MaxHandles,       \* bound: connects made
    Asks,             \* the kinds the windows ask
    MaxRequests       \* bound: requests made, but for the login's own

ASSUME CapacitiesAssumption ==
    /\ CommandCapacity \in Nat \ {0} /\ EventCapacity \in Nat \ {0}
    /\ FerryCapacity \in Nat \ {0}
ASSUME BoundsAssumption == MaxHandles \in Nat \ {0} /\ MaxRequests \in Nat

Kinds == {"plain", "first", "after", "banner"}

ASSUME AsksAssumption == Asks \subseteq Kinds

Handles == 1..MaxHandles
Sides == {"read", "deliver"}
NoEvent == [what |-> "none"]

VARIABLES
    conn,     \* open (fd), its handle, post_login_fetched, the trans reserved
    held,     \* HELD: the frames of this connection
    records,  \* the requests replies are matched to, by trans
    actor,    \* per handle: its task, its channels and its forwarder
    made,     \* handles made
    ids,      \* requests made
    asked,    \* history of each live handle: the frames asked for
    wire,     \* the frames that reached its server
    spoken,   \* history: what its session said
    heard,    \* history: what the main thread was handed of it
    stalled   \* the handles whose server takes no more of what is written

mainVars == <<conn, held, records, made, ids, asked>>
histories == <<wire, spoken, heard>>
vars == <<mainVars, actor, histories, stalled>>

NoActor ==
    [phase |-> "none", next |-> 1, cmds |-> <<>>, out |-> <<>>, said |-> <<>>,
     wants |-> {}, turn |-> "none", hand |-> [s \in Sides |-> NoEvent],
     evt |-> <<>>, ferry |-> <<>>, forwarder |-> "gone"]

Closed == [open |-> FALSE, handle |-> 0, fetched |-> FALSE, trans |-> 0]

Nothing == [h \in Handles |-> <<>>]

Init ==
    /\ conn = Closed
    /\ held = <<>>
    /\ records = {}
    /\ actor = [h \in Handles |-> NoActor]
    /\ made = 0
    /\ ids = 0
    /\ asked = Nothing /\ wire = Nothing /\ spoken = Nothing /\ heard = Nothing
    /\ stalled = {}

--------------------------------------------------------------------------
(* What main-thread calls do, to the state they share.  A callback of      *)
(* handle `cb` may close its own connection: its forwarder is then in the  *)
(* middle of a poll, and still hands on what is queued.                    *)

State == [conn |-> conn, held |-> held, records |-> records, actor |-> actor,
          ids |-> ids, asked |-> asked, wire |-> wire, spoken |-> spoken,
          heard |-> heard]

Becomes(s) ==
    /\ conn' = s.conn /\ held' = s.held /\ records' = s.records
    /\ actor' = s.actor /\ ids' = s.ids /\ asked' = s.asked
    /\ wire' = s.wire /\ spoken' = s.spoken /\ heard' = s.heard
    /\ stalled' = {h \in stalled : s.actor[h].phase # "gone"}

\* hxnet_connection_destroy: the task is aborted and the forwarder dropped.
Destroyed(a, within) ==
    [NoActor EXCEPT !.phase = "gone",
                    !.forwarder = IF within THEN "last" ELSE "gone",
                    !.evt = IF within THEN a.evt ELSE <<>>,
                    !.ferry = IF within THEN a.ferry ELSE <<>>]

\* hx_recv_forget
Forget(s, login) ==
    [s EXCEPT !.held = IF login THEN @ ELSE <<>>,
              !.records = {r \in @ : login /\ r.kind = "banner"}]

\* hx_htlc_close.  The trans reserved stays until the next connect.
Close(s, cb) ==
    LET h == s.conn.handle
        within == cb = h
    IN  [Forget(s, FALSE) EXCEPT
            !.conn = [Closed EXCEPT !.trans = s.conn.trans],
            !.actor[h] = Destroyed(@, within),
            !.asked[h] = <<>>, !.wire[h] = <<>>,
            !.spoken[h] = IF within THEN @ ELSE <<>>,
            !.heard[h] = IF within THEN @ ELSE <<>>]

\* next_trans: the session's next, reserved until a send uses it.
Reserve(s) ==
    LET h == s.conn.handle IN
    IF s.conn.trans # 0 THEN s
    ELSE [s EXCEPT !.conn.trans = s.actor[h].next, !.actor[h].next = @ + 1]

\* The actor takes commands: its end of the channel is still there.
Accepts(a) == a.phase \in {"login", "in", "ready", "ending"}

\* send_frame, for each of the frames in turn: a full channel, or a task
\* that has ended, closes the connection.
SendFrames(s, frames, cb) ==
    LET h == s.conn.handle
        a == s.actor[h]
    IN  IF Accepts(a) /\ Len(a.cmds) + Len(frames) <= CommandCapacity
        THEN [s EXCEPT !.actor[h].cmds = a.cmds \o frames]
        ELSE Close(s, cb)

\* Mutated form: what was held goes after the request that lets it go.
HlwriteHeldLast(s, frame, cb) ==
    LET used == [s EXCEPT !.conn.trans = 0,
                          !.asked[s.conn.handle] = Append(@, frame)]
    IN  IF ~s.conn.open THEN s
        ELSE IF ~s.conn.fetched
        THEN [used EXCEPT !.held = Append(@, frame)]
        ELSE SendFrames([used EXCEPT !.held = <<>>],
                        <<frame>> \o s.held, cb)

\* hlwrite_chunks: held until the login has settled; after that what was
\* held goes first.
Hlwrite(s, frame, cb) ==
    LET used == [s EXCEPT !.conn.trans = 0,
                          !.asked[s.conn.handle] = Append(@, frame)]
    IN  IF ~s.conn.open THEN s
        ELSE IF ~s.conn.fetched
        THEN [used EXCEPT !.held = Append(@, frame)]
        ELSE SendFrames([used EXCEPT !.held = <<>>],
                        Append(s.held, frame), cb)

Record(s, frame) ==
    [s EXCEPT !.records = {r \in @ : r.trans # frame.trans} \cup {frame}]

\* A request, its reply recorded before it is sent or after.
Request(s, kind, id, cb) ==
    LET r == Reserve(s)
        frame == [id |-> id, trans |-> r.conn.trans, kind |-> kind]
    IN  CASE kind = "plain" -> Hlwrite(r, frame, cb)
          [] kind = "first" -> Hlwrite(Record(r, frame), frame, cb)
          [] OTHER -> Record(Hlwrite(r, frame, cb), frame)

NextId(s) == [s EXCEPT !.ids = @ + 1]

--------------------------------------------------------------------------
(* What the user does.  A callback that closed its connection is still on  *)
(* the main thread until its forwarder's poll is over.                     *)

MainIdle == \A h \in Handles : actor[h].forwarder # "last"

Fresh == [NoActor EXCEPT !.phase = "login", !.forwarder = "live"]

\* post_login_fetched is still off: hx_htlc_close clears it, and no Ready is
\* handed on after a close.
Opened(h) == [Closed EXCEPT !.open = TRUE, !.handle = h]

\* Mutated form: the trans reserved on the last connection is kept.
ConnectKeepsTrans ==
    LET s == IF conn.open THEN Close(State, 0) ELSE State
        h == made + 1
    IN  /\ MainIdle /\ h \in Handles
        /\ made' = h
        /\ Becomes([s EXCEPT !.conn = [Opened(h) EXCEPT !.trans = conn.trans],
                             !.actor[h] = Fresh])

\* hx_connect: what is open is closed first, and no trans is reserved.
Connect ==
    LET s == IF conn.open THEN Close(State, 0) ELSE State
        h == made + 1
    IN  /\ MainIdle /\ h \in Handles
        /\ made' = h
        /\ Becomes([s EXCEPT !.conn = Opened(h), !.actor[h] = Fresh])

\* The transport could not be made: nothing is left open.
ConnectFails ==
    LET s == IF conn.open THEN Close(State, 0) ELSE State IN
    /\ MainIdle /\ (conn.open \/ conn.trans # 0)
    /\ Becomes([s EXCEPT !.conn = Closed])
    /\ UNCHANGED made

Disconnect ==
    /\ MainIdle /\ conn.open
    /\ Becomes(Close(State, 0))
    /\ UNCHANGED made

Ask(kind) ==
    /\ MainIdle /\ conn.open /\ ids < MaxRequests
    /\ Becomes(Request(NextId(State), kind, ids + 1, 0))
    /\ UNCHANGED made

\* A request that cannot be packed closes the connection, its trans still
\* reserved.
AskUnpackable ==
    /\ MainIdle /\ conn.open /\ ids < MaxRequests
    /\ Becomes(Close(Reserve(NextId(State)), 0))
    /\ UNCHANGED made

--------------------------------------------------------------------------
(* The actor's task (session.rs), over the session and the socket.         *)

Runs(h) == actor[h].phase \in {"login", "in", "ready"}

actorElse == <<mainVars, heard, stalled>>

\* The session says something, which one side then has to deliver.
Says(a, event, side) ==
    [a EXCEPT !.said = Append(@, event), !.wants = @ \cup {side}]

\* The session has not closed itself.
Talks(h) == Runs(h) /\ \A n \in 1..Len(actor[h].said) : actor[h].said[n].what # "Closed"

\* The read side has read something, and hands on what the session makes of
\* it before it reads more.
Reads(h) == Talks(h) /\ "read" \notin actor[h].wants

Feed(h, event) ==
    /\ Reads(h)
    /\ actor' = [actor EXCEPT ![h] = Says(@, event, "read")]
    /\ spoken' = [spoken EXCEPT ![h] = Append(@, event)]
    /\ UNCHANGED <<actorElse, wire>>

\* The login's reply.
LogIn(h) ==
    /\ Reads(h) /\ actor[h].phase = "login"
    /\ actor' = [actor EXCEPT ![h] =
                    [Says(@, [what |-> "LoggedIn"], "read") EXCEPT !.phase = "in"]]
    /\ spoken' = [spoken EXCEPT ![h] = Append(@, [what |-> "LoggedIn"])]
    /\ UNCHANGED <<actorElse, wire>>

\* The side that makes the session speak is not held up: the read side by
\* what it delivers, the write side, which keeps the session's time, by what
\* it writes.
Free(h, side) == IF side = "read" THEN Reads(h) ELSE actor[h].out = <<>>

\* The login settles: the server sent no agreement, or it was agreed to, by
\* the user or after a wait, which the write side does.
Settle(h, side) ==
    /\ Talks(h) /\ actor[h].phase = "in"
    /\ Free(h, side)
    /\ actor' = [actor EXCEPT ![h] =
                    [Says(@, [what |-> "Ready"], side) EXCEPT !.phase = "ready"]]
    /\ spoken' = [spoken EXCEPT ![h] = Append(@, [what |-> "Ready"])]
    /\ UNCHANGED <<actorElse, wire>>

\* The server answers a request, granting it or not.
Answer(h, i, ok) ==
    /\ ~\E n \in 1..Len(spoken[h]) :
           spoken[h][n].what = "Reply" /\ spoken[h][n].req = wire[h][i]
    /\ Feed(h, [what |-> "Reply", req |-> wire[h][i], ok |-> ok])

\* The session closes itself: the login refused, or nothing heard for too
\* long, which the write side's clock finds.
SessionCloses(h, side) ==
    /\ Talks(h) /\ Free(h, side)
    /\ actor' = [actor EXCEPT ![h] = Says(@, [what |-> "Closed"], side)]
    /\ UNCHANGED <<actorElse, wire, spoken>>

\* Mutated form: both sides deliver at once.
TakesTurnUnlocked(a, side) == side \in a.wants

\* A turn at delivering: the event popped waits in hand for room.
TakesTurn(a, side) == side \in a.wants /\ a.turn \in {"none", side}

\* select! drops the other sides, with what they had in hand, and whatever
\* the session still had to say.
Ending(a) == [a EXCEPT !.phase = "ending", !.said = <<>>, !.wants = {},
                       !.turn = "none", !.hand = [s \in Sides |-> NoEvent]]

Pop(h, side) ==
    LET a == actor[h] IN
    /\ Runs(h) /\ TakesTurn(a, side)
    /\ a.hand[side] = NoEvent /\ a.said # <<>>
    /\ actor' = [actor EXCEPT ![h] =
                    IF Head(a.said).what = "Closed" THEN Ending(a)
                    ELSE [a EXCEPT !.turn = side, !.said = Tail(a.said),
                                   !.hand[side] = Head(a.said)]]
    /\ UNCHANGED <<actorElse, wire, spoken>>

HandOn(h, side) ==
    LET a == actor[h] IN
    /\ Runs(h) /\ a.hand[side] # NoEvent
    /\ Len(a.evt) < EventCapacity
    /\ actor' = [actor EXCEPT ![h].evt = Append(@, a.hand[side]),
                              ![h].hand[side] = NoEvent]
    /\ UNCHANGED <<actorElse, wire, spoken>>

TurnEnds(h, side) ==
    LET a == actor[h] IN
    /\ Runs(h) /\ TakesTurn(a, side)
    /\ a.hand[side] = NoEvent /\ a.said = <<>>
    /\ actor' = [actor EXCEPT ![h].turn = "none",
                              ![h].wants = @ \ {side}]
    /\ UNCHANGED <<actorElse, wire, spoken>>

\* The write side takes a command, once logged in; it wakes the delivery.
TakeCommand(h) ==
    LET a == actor[h] IN
    /\ Runs(h) /\ a.phase # "login" /\ a.cmds # <<>> /\ a.out = <<>>
    /\ actor' = [actor EXCEPT ![h].out = Append(@, Head(a.cmds)),
                              ![h].cmds = Tail(@),
                              ![h].wants = @ \cup {"deliver"}]
    /\ UNCHANGED <<actorElse, wire, spoken>>

Write(h) ==
    /\ Runs(h) /\ actor[h].out # <<>> /\ h \notin stalled
    /\ wire' = [wire EXCEPT ![h] = @ \o actor[h].out]
    /\ actor' = [actor EXCEPT ![h].out = <<>>]
    /\ UNCHANGED <<actorElse, spoken>>

\* The server stops reading with its socket full: write_all waits, and nothing
\* times it out.
WriteStalls(h) ==
    /\ Runs(h) /\ actor[h].out # <<>> /\ h \notin stalled
    /\ stalled' = stalled \cup {h}
    /\ UNCHANGED <<mainVars, actor, histories>>

\* The stream ends or breaks, which the read side finds between reads and
\* the write side as it writes.
StreamEnds(h) ==
    /\ Runs(h) /\ ("read" \notin actor[h].wants \/ actor[h].out # <<>>)
    /\ actor' = [actor EXCEPT ![h] = Ending(@)]
    /\ UNCHANGED <<actorElse, wire, spoken>>

\* Mutated form: the shutdown is dropped where there is no room.
SendShutdownOrDrop(h) ==
    /\ actor[h].phase = "ending"
    /\ actor' = [actor EXCEPT ![h].phase = "ended", ![h].cmds = <<>>,
                              ![h].evt = IF Len(@) < EventCapacity
                                         THEN Append(@, [what |-> "Shutdown"]) ELSE @]
    /\ UNCHANGED <<actorElse, wire, spoken>>

\* The shutdown is the last event, and waits for room as any.
SendShutdown(h) ==
    /\ actor[h].phase = "ending" /\ Len(actor[h].evt) < EventCapacity
    /\ actor' = [actor EXCEPT ![h].phase = "ended", ![h].cmds = <<>>,
                              ![h].evt = Append(@, [what |-> "Shutdown"])]
    /\ UNCHANGED <<actorElse, wire, spoken>>

Pump(h) ==
    /\ actor[h].evt # <<>> /\ Len(actor[h].ferry) < FerryCapacity
    /\ actor[h].forwarder # "gone"
    /\ actor' = [actor EXCEPT ![h].ferry = Append(@, Head(actor[h].evt)),
                              ![h].evt = Tail(@)]
    /\ UNCHANGED <<actorElse, wire, spoken>>

TaskStep(h) ==
    \/ LogIn(h)
    \/ \E side \in Sides : \/ Settle(h, side) \/ SessionCloses(h, side)
                           \/ Pop(h, side) \/ HandOn(h, side) \/ TurnEnds(h, side)
    \/ \E i \in 1..Len(wire[h]), ok \in BOOLEAN : Answer(h, i, ok)
    \/ TakeCommand(h) \/ Write(h) \/ StreamEnds(h) \/ SendShutdown(h) \/ Pump(h)

--------------------------------------------------------------------------
(* The forwarder's poll, and the callbacks (hxnet_bridge.c).               *)

\* The next event of handle h is on the main thread; nothing else is.
Polls(h) ==
    /\ actor[h].forwarder # "gone" /\ actor[h].ferry # <<>>
    /\ \A g \in Handles \ {h} : actor[g].forwarder # "last"

NextEvent(h) == Head(actor[h].ferry)

Taken(h) == [State EXCEPT !.actor[h].ferry = Tail(@)]

\* ... and heard.  The shutdown is not the session's.
Heard(h) == [Taken(h) EXCEPT !.heard[h] = Append(@, NextEvent(h))]

\* The bridge's gate: only the handle the connection has now.
Installed(h) == conn.open /\ conn.handle = h

\* login::logged_in asks for the roster where the server has friends.
Roster(s, h, friends) ==
    IF friends /\ ids < MaxRequests THEN Request(NextId(s), "first", ids + 1, h) ELSE s

\* login::logged_in: what an earlier connect asked for is let go of.
OnLoggedIn(h, friends) ==
    /\ Polls(h) /\ NextEvent(h).what = "LoggedIn"
    /\ Becomes(IF Installed(h) THEN Roster(Forget(Heard(h), TRUE), h, friends)
               ELSE Heard(h))
    /\ UNCHANGED made

\* hx_post_login_fetches, from a callback that has no gate of its own.
PostLoginFetches(s, cb) ==
    IF s.conn.fetched THEN s
    ELSE LET settled == [s EXCEPT !.conn.fetched = TRUE]
         IN  IF s.conn.open THEN Request(settled, "plain", 0, cb) ELSE settled

OnReady(h) ==
    /\ Polls(h) /\ NextEvent(h).what = "Ready"
    /\ Becomes(PostLoginFetches(Heard(h), h))
    /\ UNCHANGED made

\* The record of a reply's trans, and whether it acts on it: on one of its
\* kind, or on a refusal of something that waits.
Matching(e) == {r \in records : r.trans = e.req.trans}
Acting(e) == {r \in Matching(e) : IF e.ok THEN r.kind = e.req.kind
                                  ELSE r.kind \in {"first", "after"}}

\* A reply takes its record; what was moved may then have to be renamed.
OnReply(h, again) ==
    LET e == NextEvent(h)
        s == [Heard(h) EXCEPT !.records = @ \ Matching(e)]
        renames == /\ again /\ e.ok /\ ids < MaxRequests
                   /\ \E r \in Acting(e) : r.kind = "after"
    IN  /\ Polls(h) /\ e.what = "Reply"
        /\ Becomes(IF ~Installed(h) THEN Heard(h)
                   ELSE IF renames THEN Request(NextId(s), "plain", ids + 1, h)
                   ELSE s)
        /\ UNCHANGED made

OnShutdown(h) ==
    /\ Polls(h) /\ NextEvent(h).what = "Shutdown"
    /\ Becomes(IF Installed(h) THEN Close(Taken(h), h) ELSE Taken(h))
    /\ UNCHANGED made

\* Nothing is left to hand on: the dropped forwarder goes.
PollEnds(h) ==
    /\ actor[h].forwarder = "last" /\ actor[h].ferry = <<>>
    /\ actor' = [actor EXCEPT ![h].forwarder = "gone", ![h].evt = <<>>]
    /\ spoken' = [spoken EXCEPT ![h] = <<>>]
    /\ heard' = [heard EXCEPT ![h] = <<>>]
    /\ UNCHANGED <<mainVars, wire, stalled>>

Callback(h) ==
    \/ \E friends \in BOOLEAN : OnLoggedIn(h, friends)
    \/ OnReady(h)
    \/ \E again \in BOOLEAN : OnReply(h, again)
    \/ OnShutdown(h)
    \/ PollEnds(h)

UserStep ==
    \/ Connect \/ ConnectFails \/ Disconnect
    \/ \E kind \in Asks : Ask(kind)
    \/ AskUnpackable

Next ==
    \/ UserStep
    \/ \E h \in Handles : TaskStep(h) \/ Callback(h) \/ WriteStalls(h)

Spec == Init /\ [][Next]_vars

--------------------------------------------------------------------------
(* Fairness: the runtime and the main loop run what is ready.  Nothing is  *)
(* asked of the user or of the server: a write is ready only while its     *)
(* server reads, and one that stops may do so for ever.  One handle at a   *)
(* time is not gone, so that fairness to any is fairness to each.          *)

Delivery(h) == \E side \in Sides : Pop(h, side) \/ HandOn(h, side) \/ TurnEnds(h, side)

Fairness ==
    /\ WF_vars(\E h \in Handles : Delivery(h))
    /\ WF_vars(\E h \in Handles : TakeCommand(h))
    /\ WF_vars(\E h \in Handles : Write(h))
    /\ WF_vars(\E h \in Handles : SendShutdown(h))
    /\ WF_vars(\E h \in Handles : Pump(h))
    /\ WF_vars(\E h \in Handles : Callback(h))

FairSpec == Spec /\ Fairness

--------------------------------------------------------------------------
(* Properties. *)

Frame == [id : 0..MaxRequests, trans : Nat, kind : Kinds]
Said == [what : {"LoggedIn", "Ready"}]
            \cup [what : {"Reply"}, req : Frame, ok : BOOLEAN]
Event == Said \cup [what : {"Shutdown"}]

\* The variables keep their types, and the channels their bounds.
TypeOK ==
    /\ conn \in [open : BOOLEAN, handle : 0..MaxHandles, fetched : BOOLEAN,
                 trans : Nat]
    /\ held \in Seq(Frame) /\ records \subseteq Frame
    /\ \A h \in Handles :
          LET a == actor[h] IN
          /\ a.phase \in {"none", "login", "in", "ready", "ending", "ended", "gone"}
          /\ a.next \in Nat \ {0} /\ a.wants \subseteq Sides
          /\ a.turn \in Sides \cup {"none"}
          /\ a.hand \in [Sides -> Said \cup {NoEvent}]
          /\ a.forwarder \in {"live", "last", "gone"}
          /\ a.cmds \in Seq(Frame) /\ Len(a.cmds) <= CommandCapacity
          /\ a.out \in Seq(Frame)
          /\ a.evt \in Seq(Event) /\ Len(a.evt) <= EventCapacity
          /\ a.ferry \in Seq(Event) /\ Len(a.ferry) <= FerryCapacity
    /\ made \in 0..MaxHandles
    /\ ids \in 0..MaxRequests
    /\ stalled \subseteq Handles

Requests == INSTANCE Fifo WITH
    Channels <- Handles, sent <- asked, got <- wire,
    open <- [h \in Handles |-> actor[h].phase \notin {"none", "gone"}]
Events == INSTANCE Fifo WITH
    Channels <- Handles, sent <- spoken, got <- heard,
    open <- [h \in Handles |-> actor[h].forwarder # "gone"]

\* What reaches a server is what was asked of that connect, in the order it
\* was asked: what was held goes first, nothing held, queued or sent for one
\* connect goes out on the next, and nothing goes out once it is closed.
RequestsInOrder == Requests!Spec

\* The main thread hears what a session said in the order it was said, with
\* nothing left out before the end, whichever side of the actor handed it on,
\* and nothing once the connection it was said on is closed.
EventsInOrder == Events!Spec

\* The record that acts on a reply is the one of the request it answers,
\* though a new connect numbers its requests from the start again.
AnswersTheirOwn ==
    \A h \in Handles :
        Polls(h) /\ Installed(h) /\ NextEvent(h).what = "Reply"
            => \A r \in Acting(NextEvent(h)) : r.id = NextEvent(h).req.id

\* A server is asked for nothing before its login has settled: one that shows
\* an agreement drops a client that does.
JoinedBeforeAsked ==
    \A h \in Handles :
        wire[h] # <<>>
            => \E n \in 1..Len(spoken[h]) : spoken[h][n].what = "Ready"

\* The requests of a connect are numbered by its session, each with a trans
\* of its own, so that a reply names one request.
OneTransEach ==
    \A h \in Handles :
        \A i \in 1..Len(asked[h]), j \in 1..Len(asked[h]) :
            /\ asked[h][i].trans \in 1..(actor[h].next - 1)
            /\ i # j => asked[h][i].trans # asked[h][j].trans

\* What follows says []<>~P, which is P ~> ~P, and which TLC checks with no
\* tableau.
Ended == conn.open /\ actor[conn.handle].phase \in {"ending", "ended"}

\* A connection whose actor ended is closed, though its channels are full.
EndedIsClosed == []<>~Ended

Unwritten ==
    /\ conn.open /\ conn.fetched
    /\ Runs(conn.handle) /\ Len(wire[conn.handle]) < Len(asked[conn.handle])

\* Once the login has settled what was asked goes out, what was held too,
\* unless the connection ends or its server stops reading.
AskedGoesOut == []<>(~Unwritten \/ conn.handle \in stalled)

Unheard ==
    /\ conn.open /\ Runs(conn.handle)
    /\ Len(heard[conn.handle]) < Len(spoken[conn.handle])

\* What the session says is heard, unless the connection ends: neither a main
\* loop that was behind nor a server that stops reading holds it back.
SaidIsHeard == []<>~Unheard

\* Each request is asked once its server will hear it, under a trans of its
\* own, and a reply acts on the request it answers and on no other connect's.
RepliesFindTheirRequest ==
    TypeOK /\ AnswersTheirOwn /\ JoinedBeforeAsked /\ OneTransEach

\* Nothing waits for ever on the actor: what was asked of a server that reads
\* goes out, and of any server what was said is heard and the connection is
\* closed when the actor ends, though a write still waits.
ActorFinishes == AskedGoesOut /\ SaidIsHeard /\ EndedIsClosed
=============================================================================
