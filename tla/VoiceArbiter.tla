------------------------------ MODULE VoiceArbiter ------------------------------
(***************************************************************************)
(* Who has the microphone (rust/crates/gtkhx-ui/src/voice_arbiter.rs), and  *)
(* what the voice panels and push-to-talk do with the answer.               *)
(*                                                                          *)
(* Every connection has a voice session of its own (VoiceSession), of which *)
(* only the room it is in and its mute are kept here.  The token, holder,   *)
(* is one for the application.  Nothing ties the two but the order of the   *)
(* panels' calls: a session may fail, or its connection close, at any time, *)
(* and the question a join asks may be answered long after it was put.      *)
(***************************************************************************)
EXTENDS Naturals

CONSTANTS
    Conns,     \* connections, by serial
    ChatIds,   \* chat ids, the same numbers on every connection
    Nobody     \* no holder, and no room

Holders == [conn : Conns, cid : ChatIds]

ASSUME NobodyAssumption == Nobody \notin ChatIds /\ Nobody \notin Holders

VARIABLES
    up,        \* connections whose server offers voice
    rt,        \* connections that have built their voice runtime
    room,      \* the room each session is in: JoinSent to Connected
    mutes,     \* each session's mute
    holder,    \* HOLDER
    asking,    \* panels with a preempt question open
    pressed    \* PRESSED_KEYVAL: push-to-talk is held

vars == <<up, rt, room, mutes, holder, asking, pressed>>

Panels == Conns \X ChatIds
Token(c, r) == [conn |-> c, cid |-> r]

Init ==
    /\ up = {} /\ rt = {}
    /\ room = [c \in Conns |-> Nobody]
    /\ mutes = [c \in Conns |-> FALSE]
    /\ holder = Nobody
    /\ asking = {}
    /\ pressed = FALSE

-----------------------------------------------------------------------------
\* acquire: nothing has to be given up for this room.
Free(c, r) == holder \in {Nobody, Token(c, r)}

\* leave_holder: a holder on another connection leaves its room; one on this
\* connection is left by the join itself.
RoomsAfterLeave(c) ==
    IF holder # Nobody /\ holder.conn # c /\ room[holder.conn] = holder.cid
    THEN [room EXCEPT ![holder.conn] = Nobody]
    ELSE room

\* release_session: the token goes with the connection that has it.
Released(c) == IF holder # Nobody /\ holder.conn = c THEN Nobody ELSE holder

\* A session that leaves its room forgets its mute.
MutesAfter(rooms) ==
    [c \in Conns |-> mutes[c] /\ (room[c] # Nobody => rooms[c] # Nobody)]

\* join_now, the other rooms being as in rooms and the token h if it fails:
\* the join goes out, the session enters the room muted, the token is taken.
JoinNow(c, r, rooms, h) ==
    \/ /\ c \in up
       /\ rt' = rt \cup {c}
       /\ room' = [rooms EXCEPT ![c] = r]
       /\ mutes' = [MutesAfter(rooms) EXCEPT ![c] = TRUE]
       /\ holder' = Token(c, r)
    \* The server takes no voice, or the runtime cannot be built.
    \/ /\ c \notin up \cap rt
       /\ room' = rooms
       /\ mutes' = MutesAfter(rooms)
       /\ holder' = h
       /\ UNCHANGED rt

\* on_join_toggled: a join that would take the microphone from someone asks.
JoinFree(c, r) ==
    /\ room[c] # r
    /\ Free(c, r)
    /\ JoinNow(c, r, room, holder)
    /\ UNCHANGED <<up, asking, pressed>>

JoinAsks(c, r) ==
    /\ room[c] # r
    /\ ~Free(c, r)
    /\ asking' = asking \cup {<<c, r>>}
    /\ UNCHANGED <<up, rt, room, mutes, holder, pressed>>

\* The answer asks acquire again: the holder may have changed meanwhile.
AnswerSwitch(c, r) ==
    /\ <<c, r>> \in asking
    /\ asking' = asking \ {<<c, r>>}
    /\ \/ Free(c, r) /\ JoinNow(c, r, room, holder)
       \/ ~Free(c, r) /\ JoinNow(c, r, RoomsAfterLeave(c), Nobody)
    /\ UNCHANGED <<up, pressed>>

AnswerCancel(c, r) ==
    /\ <<c, r>> \in asking
    /\ asking' = asking \ {<<c, r>>}
    /\ UNCHANGED <<up, rt, room, mutes, holder, pressed>>

LeaveNow(c) ==
    /\ room[c] # Nobody
    /\ room' = [room EXCEPT ![c] = Nobody]
    /\ mutes' = [mutes EXCEPT ![c] = FALSE]
    /\ holder' = Released(c)
    /\ UNCHANGED <<up, rt, asking, pressed>>

\* Mutated form: the callback leaves the token to the panel's leave path.
FailKeepsToken(c) ==
    /\ room[c] # Nobody
    /\ room' = [room EXCEPT ![c] = Nobody]
    /\ UNCHANGED <<up, rt, mutes, holder, asking, pressed>>

\* state_changed_cb: the session left by itself, refused, failed or wedged.
SessionFails(c) ==
    /\ room[c] # Nobody
    /\ room' = [room EXCEPT ![c] = Nobody]
    /\ holder' = Released(c)
    /\ UNCHANGED <<up, rt, mutes, asking, pressed>>

\* hx_htlc_close frees the runtime, which tells nobody, and the token.
Disconnect(c) ==
    /\ c \in up
    /\ up' = up \ {c}
    /\ rt' = rt \ {c}
    /\ room' = [room EXCEPT ![c] = Nobody]
    /\ mutes' = [mutes EXCEPT ![c] = FALSE]
    /\ holder' = Released(c)
    /\ UNCHANGED <<asking, pressed>>

Connect(c) ==
    /\ c \notin up
    /\ up' = up \cup {c}
    /\ UNCHANGED <<rt, room, mutes, holder, asking, pressed>>

MuteClick(c) ==
    /\ room[c] # Nobody
    /\ mutes' = [mutes EXCEPT ![c] = ~@]
    /\ UNCHANGED <<up, rt, room, holder, asking, pressed>>

\* voice_holder: the connection in voice, by the token and its session.
Speaking == holder # Nobody /\ room[holder.conn] # Nobody

PushToTalk ==
    /\ ~pressed
    /\ Speaking
    /\ mutes' = [mutes EXCEPT ![holder.conn] = FALSE]
    /\ pressed' = TRUE
    /\ UNCHANGED <<up, rt, room, holder, asking>>

\* Mutated form: the latch is cleared and nothing muted.
ReleaseUnmuted ==
    /\ pressed
    /\ pressed' = FALSE
    /\ UNCHANGED <<up, rt, room, mutes, holder, asking>>

\* The key or the focus is let go: whoever is in voice now is muted.
Release ==
    /\ pressed
    /\ pressed' = FALSE
    /\ mutes' = IF Speaking THEN [mutes EXCEPT ![holder.conn] = TRUE] ELSE mutes
    /\ UNCHANGED <<up, rt, room, holder, asking>>

Next ==
    \/ \E c \in Conns, r \in ChatIds :
           JoinFree(c, r) \/ JoinAsks(c, r) \/ AnswerSwitch(c, r) \/ AnswerCancel(c, r)
    \/ \E c \in Conns :
           LeaveNow(c) \/ SessionFails(c) \/ Disconnect(c) \/ Connect(c) \/ MuteClick(c)
    \/ PushToTalk
    \/ Release

Spec == Init /\ [][Next]_vars

-----------------------------------------------------------------------------
\* Every variable has its type; sessions exist only on connections with voice
\* that built a runtime.
TypeOK ==
    /\ up \subseteq Conns
    /\ rt \subseteq up
    /\ room \in [Conns -> ChatIds \cup {Nobody}]
    /\ mutes \in [Conns -> BOOLEAN]
    /\ holder \in Holders \cup {Nobody}
    /\ asking \subseteq Panels
    /\ pressed \in BOOLEAN

\* The token is the truth: a session is in a room exactly when the token
\* names it and that room, whatever failed, closed or was answered late
\* (voice_panel.rs: the token must not keep naming a connection not in voice).
TokenIsTruth ==
    \A c \in Conns, r \in ChatIds : room[c] = r <=> holder = Token(c, r)

\* There is one microphone: no two connections are in voice at once.
OneMicrophone ==
    \A c, d \in Conns : room[c] # Nobody /\ room[d] # Nobody => c = d

\* Letting go of push-to-talk leaves no open microphone anywhere, though the
\* session it opened may have given way to another since.
ReleaseMutes ==
    [][pressed /\ ~pressed' => \A c \in Conns : room'[c] # Nobody => mutes'[c]]_vars
=============================================================================
