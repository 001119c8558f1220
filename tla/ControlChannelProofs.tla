------------------------ MODULE ControlChannelProofs ------------------------
(***************************************************************************)
(* The control channel for any number of connects, requests and channel    *)
(* places: a reply acts on the request it answers, and both channels of a  *)
(* handle are first in, first out.                                         *)
(*                                                                         *)
(* ChannelInv is the inductive invariant.  What a run checks says only     *)
(* what the main thread sees; the induction needs to know where a frame or *)
(* an event is in between:                                                 *)
(*   ConnPart      the handle that is open is the one whose actor lives;   *)
(*   EventsPart    for each handle, what is on its way (the bridge's ferry,*)
(*                 the channel, what a side of the actor has in hand, the  *)
(*                 session's own queue) goes on where what was heard ends; *)
(*   RequestsPart  what was asked is what was written, then what the       *)
(*                 session holds, then the channel, then what is held back *)
(*                 until the login settles;                                *)
(*   TransPart     no two requests of a connect share a number;            *)
(*   RecordsPart   a record is of a request of this connect or is one that *)
(*                 no reply of this connect can meet.                      *)
(*                                                                         *)
(* The main thread's handlers call one another, so what they do is stated  *)
(* over the records they pass along (the lemmas named ...Fields and ...OK) *)
(* and each action is then one lemma (...Step for the invariant, ...Moves  *)
(* for the two refinements).                                               *)
(***************************************************************************)
EXTENDS ControlChannel, SequenceTheorems, TLAPS

\* What a session says and what an actor hands on: the last is Closed or Shutdown.
ClosedEvent == [what |-> "Closed"]
ShutdownEvent == [what |-> "Shutdown"]
Uttered == Said \cup {ClosedEvent}
Handed == Uttered \cup {ShutdownEvent}

\* The values of the state, an actor at a time.
Phases == {"none", "login", "in", "ready", "ending", "ended", "gone"}
Actors ==
    [phase : Phases, next : Nat \ {0}, cmds : Seq(Frame), out : Seq(Frame),
     said : Seq(Uttered), wants : SUBSET Sides, turn : Sides \cup {"none"},
     hand : [Sides -> Said \cup {NoEvent}], evt : Seq(Event), ferry : Seq(Event),
     forwarder : {"live", "last", "gone"}]
States ==
    [conn : [open : BOOLEAN, handle : 0..MaxHandles, fetched : BOOLEAN, trans : Nat],
     held : Seq(Frame), records : SUBSET Frame, actor : [Handles -> Actors],
     ids : 0..MaxRequests,
     asked : [Handles -> Seq(Frame)], wire : [Handles -> Seq(Frame)],
     spoken : [Handles -> Seq(Said)], heard : [Handles -> Seq(Said)]]

\* There is an actor; it still runs its session.
Live(a) == a.phase \in {"login", "in", "ready", "ending", "ended"}
Running(a) == a.phase \in {"login", "in", "ready"}

---------------------------------------------------------------------------
(* The events of a handle. *)

\* What a side has in hand, as a sequence.
InHand(a) ==
    IF a.hand["read"] # NoEvent THEN <<a.hand["read"]>>
    ELSE IF a.hand["deliver"] # NoEvent THEN <<a.hand["deliver"]>> ELSE <<>>

\* All that is on its way to the main thread, the next first.
Coming(a) == a.ferry \o (a.evt \o (InHand(a) \o a.said))

\* Nothing follows the last event of a session, or of an actor.
Last(e) == e.what \in {"Closed", "Shutdown"}
NoLast(q) == \A i \in 1..Len(q) : ~Last(q[i])
NotClosed(a) == \A n \in 1..Len(a.said) : a.said[n].what # "Closed"

\* What is coming of a handle goes on where what was heard of it ends.
Follows(q, sp, he) ==
    /\ Len(he) <= Len(sp)
    /\ \A i \in 1..Len(he) : he[i] = sp[i]
    /\ \A i \in 1..Len(q) :
         IF Last(q[i]) THEN i = Len(q)
         ELSE Len(he) + i <= Len(sp) /\ q[i] = sp[Len(he) + i]

\* What holds of one actor, what its session said and what was heard of it.
ActorOK(a, sp, he) ==
    /\ Live(a) <=> a.forwarder = "live"
    /\ a.forwarder = "last" => a.phase = "gone"
    /\ ~Running(a) => a.said = <<>> /\ \A side \in Sides : a.hand[side] = NoEvent
    /\ \A side \in Sides : a.hand[side] # NoEvent => a.turn = side
    /\ a.forwarder = "gone" => sp = <<>> /\ he = <<>>
    /\ a.forwarder # "gone" => Follows(Coming(a), sp, he)
    /\ Running(a) /\ NotClosed(a) => Len(sp) = Len(he) + Len(Coming(a))
    /\ Running(a) \/ a.phase = "ending" => NoLast(a.ferry) /\ NoLast(a.evt)
    /\ a.phase = "login" => sp = <<>>
    /\ a.phase \in {"in", "ready"} => sp # <<>>
    /\ sp # <<>> => sp[1].what = "LoggedIn"
    /\ Len(a.cmds) <= CommandCapacity
    /\ Len(a.evt) <= EventCapacity /\ Len(a.ferry) <= FerryCapacity

EventsPart(s) == \A h \in Handles : ActorOK(s.actor[h], s.spoken[h], s.heard[h])

---------------------------------------------------------------------------
(* The connection and its handles. *)

\* The open connection is of the one handle whose actor lives; a handle not made yet
\* and one that is gone have nothing.
ConnPart(s, m) ==
    /\ s \in States /\ m \in 0..MaxHandles
    /\ s.conn.open => s.conn.handle \in 1..m
    /\ \A h \in Handles : /\ Live(s.actor[h]) <=> s.conn.open /\ s.conn.handle = h
                          /\ s.actor[h].forwarder = "last" => ~s.conn.open
                          /\ h > m => s.actor[h].forwarder = "gone" /\ s.actor[h].phase = "none"
                          /\ ~Live(s.actor[h]) => s.asked[h] = <<>> /\ s.wire[h] = <<>>

(* The requests. *)

\* The session said it.
HasSaid(sp, what) == \E n \in 1..Len(sp) : sp[n].what = what

\* What was asked is, in order, what was written, what is to be written, what is in
\* the channel and what is held; nothing leaves before the login has settled.
RequestsPart(s) ==
    LET h == s.conn.handle
        a == s.actor[h]
    IN  /\ ~s.conn.open => s.held = <<>>
        /\ s.conn.open /\ a.phase # "ended" =>
              s.asked[h] = s.wire[h] \o (a.out \o (a.cmds \o s.held))
        /\ s.conn.open =>
              /\ s.conn.fetched => HasSaid(s.spoken[h], "Ready")
              /\ ~s.conn.fetched => s.wire[h] = <<>> /\ a.out = <<>> /\ a.cmds = <<>>
              /\ \A n \in 1..Len(s.spoken[h]) : s.spoken[h][n].what = "Reply" =>
                    \E i \in 1..Len(s.asked[h]) : s.asked[h][i] = s.spoken[h][n].req

\* Requests are numbered once, below the next number to give.
TransPart(s) ==
    s.conn.open =>
        LET q == s.asked[s.conn.handle] IN
        /\ s.conn.trans = 0
        /\ \A i \in 1..Len(q) : q[i].trans \in 1..(s.actor[s.conn.handle].next - 1)
        /\ \A i, j \in 1..Len(q) : q[i].trans = q[j].trans => i = j

\* A record is of a request of this connect, or left by an earlier one: of a banner,
\* whose number no banner of this connect has, or of one that was sent and then
\* recorded, until the login lets go of it.
RecordOK(r, q, he) ==
    \/ \E i \in 1..Len(q) : q[i] = r
    \/ r.kind = "banner" /\ \A i \in 1..Len(q) : q[i].trans = r.trans => q[i].kind # "banner"
    \/ r.kind = "after" /\ he = <<>>

RecordsPart(s) ==
    \A r \in s.records :
        IF s.conn.open THEN RecordOK(r, s.asked[s.conn.handle], s.heard[s.conn.handle])
        ELSE r.kind \in {"after", "banner"}

\* The inductive invariant, of a state that may be between two calls of one handler.
ChannelOK(s, m) == ConnPart(s, m) /\ EventsPart(s) /\ RequestsPart(s) /\ TransPart(s) /\ RecordsPart(s)

ChannelInv == ChannelOK(State, made)

---------------------------------------------------------------------------
(* Sequences. *)

\* The empty sequence adds nothing.
LEMMA Nil == ASSUME NEW S, NEW a \in Seq(S) PROVE <<>> \o a = a /\ a \o <<>> = a
  OBVIOUS

\* Three facts of sequences, as operators: the provers then match what is said of
\* them with the sequences it is about, and look no further into either.
Over(a, b, c) == Append(a, Head(b)) \o (Tail(b) \o c) = a \o (b \o c)
Grows(a, b, e) == a \o Append(b, e) = Append(a \o b, e)
Assoc(a, b, c) == (a \o b) \o c = a \o (b \o c)

\* Appending to the second of two sequences appends to both.
LEMMA GrowsAll ==
    ASSUME NEW S, NEW a \in Seq(S), NEW b \in Seq(S), NEW e \in S
    PROVE  Grows(a, b, e)
  BY DEF Grows

\* Three sequences, in either grouping.
LEMMA AssocAll ==
    ASSUME NEW S, NEW a \in Seq(S), NEW b \in Seq(S), NEW c \in Seq(S)
    PROVE  Assoc(a, b, c)
  BY ConcatAssociative DEF Assoc

\* The head of what follows may go over to what comes before.
LEMMA Shift ==
    ASSUME NEW S, NEW a \in Seq(S), NEW b \in Seq(S), NEW c \in Seq(S), b # <<>>
    PROVE  Over(a, b, c)
<1>1. Head(b) \in S /\ Tail(b) \in Seq(S)
  OBVIOUS
<1>2. Append(a, Head(b)) = a \o <<Head(b)>> /\ b = <<Head(b)>> \o Tail(b)
  OBVIOUS
<1> DEFINE x == <<Head(b)>>
           t == Tail(b)
<1>3. x \in Seq(S) /\ t \in Seq(S)
  BY <1>1
<1>4. b = x \o t /\ Append(a, Head(b)) = a \o x
  BY <1>2
<1> HIDE DEF x, t
<1>5. (a \o x) \o (t \o c) = a \o (x \o (t \o c)) /\ x \o (t \o c) = (x \o t) \o c
  <2>1. t \o c \in Seq(S)
    BY <1>3
  <2>2. (a \o x) \o (t \o c) = a \o (x \o (t \o c))
    <3> DEFINE r == t \o c
    <3> HIDE DEF r
    <3>1. r \in Seq(S)
      BY <2>1 DEF r
    <3>2. (a \o x) \o r = a \o (x \o r)
      BY <1>3, <3>1, ConcatAssociative, SMTT(40)
    <3> QED BY <3>2 DEF r
  <2>3. (x \o t) \o c = x \o (t \o c)
    BY <1>3, ConcatAssociative, SMTT(40)
  <2> QED BY <2>2, <2>3
<1> QED BY <1>4, <1>5 DEF t, Over

\* Appending goes to the end of a concatenation.
LEMMA AppendLast ==
    ASSUME NEW S, NEW a \in Seq(S), NEW b \in Seq(S), NEW e \in S
    PROVE  a \o Append(b, e) = Append(a \o b, e)
  OBVIOUS

\* Two sequences without a last event make one without.
LEMMA NoLastConcat ==
    ASSUME NEW S, NEW a \in Seq(S), NEW b \in Seq(S), NoLast(a), NoLast(b)
    PROVE  NoLast(a \o b)
<1>1. /\ a \o b \in Seq(S) /\ Len(a \o b) = Len(a) + Len(b)
      /\ \A i \in 1..Len(a) + Len(b) : (a \o b)[i] = IF i <= Len(a) THEN a[i] ELSE b[i - Len(a)]
  OBVIOUS
<1>2. ASSUME NEW i \in 1..Len(a \o b) PROVE ~Last((a \o b)[i])
  <2>1. CASE i <= Len(a)
    BY <1>1, <2>1 DEF NoLast
  <2>2. CASE ~(i <= Len(a))
    <3>1. i - Len(a) \in 1..Len(b)
      BY <1>1, <2>2
    <3> QED BY <1>1, <2>2, <3>1 DEF NoLast
  <2> QED BY <2>1, <2>2
<1> QED BY <1>2 DEF NoLast

\* Hearing the next event keeps what follows in order.
LEMMA FollowsHears ==
    ASSUME NEW S, NEW q \in Seq(S), NEW sp \in Seq(S), NEW he \in Seq(S),
           Follows(q, sp, he), q # <<>>, ~Last(Head(q))
    PROVE  /\ Follows(Tail(q), sp, Append(he, Head(q)))
           /\ Len(he) + 1 <= Len(sp) /\ Append(he, Head(q)) = SubSeq(sp, 1, Len(he) + 1)
           /\ Head(q) = sp[Len(he) + 1]
<1> DEFINE n == Len(he)
           m == Len(sp)
           k == Len(q)
           x == Head(q)
<1>1. n \in Nat /\ m \in Nat /\ k \in Nat /\ k > 0 /\ n <= m /\ q[1] = x /\ x \in S
  BY DEF Follows
<1>2. n + 1 <= m /\ x = sp[n + 1]
  BY <1>1 DEF Follows
<1>3. /\ Append(he, x) \in Seq(S) /\ Len(Append(he, x)) = n + 1
      /\ \A i \in 1..(n + 1) : Append(he, x)[i] = sp[i]
  BY <1>1, <1>2 DEF Follows
<1>4. Append(he, x) = SubSeq(sp, 1, n + 1)
  <2>1. SubSeq(sp, 1, n + 1) \in Seq(S) /\ Len(SubSeq(sp, 1, n + 1)) = n + 1
        /\ \A i \in 1..(n + 1) : SubSeq(sp, 1, n + 1)[i] = sp[i]
    BY <1>1, <1>2
  <2> QED BY <1>3, <2>1, SeqEqual
<1>5. Tail(q) \in Seq(S) /\ Len(Tail(q)) = k - 1 /\ \A i \in 1..(k - 1) : Tail(q)[i] = q[i + 1]
  BY <1>1
<1>6. ASSUME NEW i \in 1..(k - 1)
      PROVE  IF Last(Tail(q)[i]) THEN i = k - 1
             ELSE (n + 1) + i <= m /\ Tail(q)[i] = sp[(n + 1) + i]
  <2>1. i + 1 \in 1..k /\ n + (i + 1) = (n + 1) + i
    BY <1>1
  <2>2. IF Last(q[i + 1]) THEN i + 1 = k ELSE n + (i + 1) <= m /\ q[i + 1] = sp[n + (i + 1)]
    BY <2>1 DEF Follows
  <2>3. Tail(q)[i] = q[i + 1]
    BY <1>5
  <2> HIDE DEF n, m, k
  <2>4. i + 1 = k => i = k - 1
    BY <1>1
  <2> QED BY <2>1, <2>2, <2>3, <2>4
<1> HIDE DEF n, m, k, x
<1>7. Follows(Tail(q), sp, Append(he, x))
  BY <1>2, <1>3, <1>5, <1>6 DEF Follows, m
<1> QED BY <1>2, <1>4, <1>7 DEF n, m, x

\* After the last event nothing follows.
LEMMA FollowsTaken ==
    ASSUME NEW S, NEW q \in Seq(S), NEW sp, NEW he, Follows(q, sp, he), q # <<>>, Last(Head(q))
    PROVE  Tail(q) = <<>> /\ Follows(Tail(q), sp, he)
<1>1. Len(q) \in Nat /\ Len(q) > 0 /\ q[1] = Head(q)
  OBVIOUS
<1>2. Len(q) = 1
  <2>1. 1 \in 1..Len(q)
    BY <1>1
  <2> QED BY <1>1, <2>1 DEF Follows
<1>3. Tail(q) = <<>>
  <2>1. Tail(q) \in Seq(S) /\ Len(Tail(q)) = 0
    BY <1>1, <1>2
  <2> QED BY <2>1, EmptySeq
<1> QED BY <1>3 DEF Follows

\* What a session says comes behind all that is on its way.
LEMMA FollowsSays ==
    ASSUME NEW S, NEW q \in Seq(S), NEW sp \in Seq(S), NEW he \in Seq(S), NEW e \in S,
           Follows(q, sp, he), Len(sp) = Len(he) + Len(q), NoLast(q), ~Last(e)
    PROVE  /\ Follows(Append(q, e), Append(sp, e), he)
           /\ Len(Append(sp, e)) = Len(he) + Len(Append(q, e))
<1> DEFINE n == Len(he)
           m == Len(sp)
           k == Len(q)
<1>1. n \in Nat /\ m \in Nat /\ k \in Nat /\ m = n + k
  OBVIOUS
<1>2. /\ Append(q, e) \in Seq(S) /\ Len(Append(q, e)) = k + 1 /\ Append(q, e)[k + 1] = e
      /\ \A i \in 1..k : Append(q, e)[i] = q[i]
      /\ Append(sp, e) \in Seq(S) /\ Len(Append(sp, e)) = m + 1 /\ Append(sp, e)[m + 1] = e
      /\ \A i \in 1..m : Append(sp, e)[i] = sp[i]
  OBVIOUS
<1>3. n <= m /\ (\A i \in 1..n : he[i] = sp[i])
      /\ \A i \in 1..k : n + i <= m /\ q[i] = sp[n + i]
  BY DEF Follows, NoLast
<1> HIDE DEF n, m, k
<1>4. \A i \in 1..n : he[i] = Append(sp, e)[i]
  BY <1>1, <1>2, <1>3
<1>5. ASSUME NEW i \in 1..(k + 1)
      PROVE  /\ ~Last(Append(q, e)[i]) /\ n + i <= m + 1
             /\ Append(q, e)[i] = Append(sp, e)[n + i]
  <2>1. CASE i = k + 1
    BY <1>1, <1>2, <2>1
  <2>2. CASE i # k + 1
    <3>1. i \in 1..k /\ n + i \in 1..m
      BY <1>1, <2>2
    <3> QED BY <1>1, <1>2, <1>3, <3>1 DEF NoLast, k
  <2> QED BY <2>1, <2>2
<1>6. n <= m + 1
  BY <1>1, <1>3
<1>7. Follows(Append(q, e), Append(sp, e), he)
  BY <1>2, <1>4, <1>5, <1>6 DEF Follows, n
<1> QED BY <1>1, <1>2, <1>7 DEF n

\* So does the last event, which no one hears as said.
LEMMA FollowsLast ==
    ASSUME NEW S, NEW q \in Seq(S), NEW sp, NEW he \in Seq(S), NEW e \in S,
           Follows(q, sp, he), NoLast(q), Last(e)
    PROVE  Follows(Append(q, e), sp, he)
<1>1. /\ Append(q, e) \in Seq(S) /\ Len(Append(q, e)) = Len(q) + 1 /\ Append(q, e)[Len(q) + 1] = e
      /\ \A i \in 1..Len(q) : Append(q, e)[i] = q[i]
  OBVIOUS
<1>2. ASSUME NEW i \in 1..(Len(q) + 1)
      PROVE  IF Last(Append(q, e)[i]) THEN i = Len(q) + 1
             ELSE Len(he) + i <= Len(sp) /\ Append(q, e)[i] = sp[Len(he) + i]
  <2>1. CASE i = Len(q) + 1
    BY <1>1, <2>1
  <2>2. CASE i \in 1..Len(q)
    BY <1>1, <2>2 DEF NoLast, Follows
  <2> QED BY <2>1, <2>2
<1> QED BY <1>1, <1>2 DEF Follows

\* Dropping what is behind keeps the rest in order.
LEMMA FollowsCut ==
    ASSUME NEW S, NEW p \in Seq(S), NEW r \in Seq(S), NEW sp, NEW he \in Seq(S),
           Follows(p \o r, sp, he), NoLast(p)
    PROVE  Follows(p, sp, he)
<1>1. /\ Len(p \o r) = Len(p) + Len(r) /\ Len(p) \in Nat /\ Len(r) \in Nat
      /\ \A i \in 1..Len(p) : i \in 1..(Len(p) + Len(r)) /\ (p \o r)[i] = p[i]
  OBVIOUS
<1> QED BY <1>1 DEF Follows, NoLast

---------------------------------------------------------------------------
(* One actor. *)

\* The events, and which of them are the last.
LEMMA EventKinds ==
    /\ Said \subseteq Handed /\ Event \subseteq Handed /\ Uttered \subseteq Handed
    /\ Said \subseteq Event /\ Said \subseteq Uttered
    /\ NoEvent \notin Handed
    /\ \A e \in Said : e.what \in {"LoggedIn", "Ready", "Reply"} /\ ~Last(e)
    /\ \A e \in Event : e \in Said \/ e = ShutdownEvent
    /\ ClosedEvent \in Uttered /\ ClosedEvent.what = "Closed" /\ Last(ClosedEvent)
    /\ ShutdownEvent \in Event /\ ShutdownEvent.what = "Shutdown" /\ Last(ShutdownEvent)
<1>1. \A e \in Said : e.what \in {"LoggedIn", "Ready", "Reply"} /\ ~Last(e)
  BY DEF Said, Last
<1>2. ClosedEvent.what = "Closed" /\ ShutdownEvent.what = "Shutdown" /\ NoEvent.what = "none"
  BY DEF ClosedEvent, ShutdownEvent, NoEvent
<1>3. \A e \in [what : {"Shutdown"}] : e = ShutdownEvent
  BY DEF ShutdownEvent
<1>4. ShutdownEvent \in [what : {"Shutdown"}]
  BY DEF ShutdownEvent
<1> HIDE DEF Said, ClosedEvent, ShutdownEvent, NoEvent
<1>5. NoEvent \notin Handed
  BY <1>1, <1>2 DEF Handed, Uttered
<1> QED BY <1>1, <1>2, <1>3, <1>4, <1>5 DEF Handed, Uttered, Event, Last

\* The sequences of an actor, as sequences of one set.
LEMMA ActorSeqs ==
    ASSUME NEW a \in Actors
    PROVE  /\ a.ferry \in Seq(Handed) /\ a.evt \in Seq(Handed) /\ a.said \in Seq(Handed)
           /\ InHand(a) \in Seq(Handed) /\ NoLast(InHand(a))
           /\ InHand(a) \o a.said \in Seq(Handed)
           /\ a.evt \o (InHand(a) \o a.said) \in Seq(Handed)
           /\ Coming(a) \in Seq(Handed)
<1>1. /\ a.ferry \in Seq(Event) /\ a.evt \in Seq(Event) /\ a.said \in Seq(Uttered)
      /\ \A side \in Sides : a.hand[side] \in Said \cup {NoEvent}
  BY DEF Actors
<1>2. a.ferry \in Seq(Handed) /\ a.evt \in Seq(Handed) /\ a.said \in Seq(Handed)
  BY <1>1, EventKinds, SeqMonotonic
<1>3. \A e \in Said : <<e>> \in Seq(Handed) /\ NoLast(<<e>>)
  BY EventKinds DEF NoLast
<1>4. "read" \in Sides /\ "deliver" \in Sides
  BY DEF Sides
<1>5. InHand(a) \in Seq(Handed) /\ NoLast(InHand(a))
  <2>1. CASE InHand(a) = <<>>
    BY <2>1 DEF NoLast
  <2>2. CASE InHand(a) # <<>>
    BY <1>1, <1>3, <1>4, <2>2 DEF InHand
  <2> QED BY <2>1, <2>2
<1>6. InHand(a) \o a.said \in Seq(Handed)
  BY <1>2, <1>5
<1>7. a.evt \o (InHand(a) \o a.said) \in Seq(Handed)
  BY <1>2, <1>6, ConcatProperties
<1>8. Coming(a) \in Seq(Handed)
  BY <1>2, <1>7, ConcatProperties DEF Coming
<1> QED BY <1>2, <1>5, <1>6, <1>7, <1>8

\* What is said last is last of what is coming.
LEMMA ComingSays ==
    ASSUME NEW a \in Actors, NEW b \in Actors, NEW e \in Uttered,
           b.ferry = a.ferry, b.evt = a.evt, b.hand = a.hand, b.said = Append(a.said, e)
    PROVE  Coming(b) = Append(Coming(a), e)
<1>1. InHand(b) = InHand(a)
  BY DEF InHand
<1>2. e \in Handed
  BY EventKinds
<1> DEFINE i == InHand(a)
           x == i \o a.said
           y == a.evt \o x
<1>3. /\ i \in Seq(Handed) /\ x \in Seq(Handed) /\ y \in Seq(Handed)
      /\ a.said \in Seq(Handed) /\ a.evt \in Seq(Handed) /\ a.ferry \in Seq(Handed)
  BY ActorSeqs
<1>4. Coming(b) = a.ferry \o (a.evt \o (i \o Append(a.said, e))) /\ Coming(a) = a.ferry \o y
  BY <1>1 DEF Coming
<1> HIDE DEF i, x, y
<1>5. Grows(i, a.said, e) /\ Grows(a.evt, x, e) /\ Grows(a.ferry, y, e)
  BY <1>2, <1>3, GrowsAll
<1>6. i \o Append(a.said, e) = Append(x, e) /\ a.evt \o Append(x, e) = Append(y, e)
  BY <1>5, Zenon DEF Grows, x, y
<1>7. a.ferry \o Append(y, e) = Append(a.ferry \o y, e)
  BY <1>5, Zenon DEF Grows
<1> QED BY <1>4, <1>6, <1>7, Zenon

\* Nothing on its way is a last event while the session has not closed.
LEMMA ComingNotLast ==
    ASSUME NEW a \in Actors, NoLast(a.ferry), NoLast(a.evt), NotClosed(a)
    PROVE  NoLast(Coming(a))
<1>1. NoLast(a.said)
  <2> SUFFICES ASSUME NEW i \in 1..Len(a.said) PROVE ~Last(a.said[i])
    BY DEF NoLast
  <2>1. a.said \in Seq(Uttered)
    BY DEF Actors
  <2>2. a.said[i] \in Uttered /\ a.said[i].what # "Closed"
    BY <2>1 DEF NotClosed
  <2> QED BY <2>2, EventKinds DEF Uttered
<1>2. NoLast(InHand(a) \o a.said)
  BY <1>1, ActorSeqs, NoLastConcat
<1>3. NoLast(a.evt \o (InHand(a) \o a.said))
  BY <1>2, ActorSeqs, NoLastConcat
<1> QED BY <1>3, ActorSeqs, NoLastConcat DEF Coming

\* A session that says something stays in step.
LEMMA SaysOK ==
    ASSUME NEW a \in Actors, NEW b \in Actors, NEW e \in Said, NEW sp \in Seq(Said),
           NEW he \in Seq(Said), ActorOK(a, sp, he), Running(a), NotClosed(a),
           b.ferry = a.ferry, b.evt = a.evt, b.hand = a.hand, b.said = Append(a.said, e),
           b.turn = a.turn, b.forwarder = a.forwarder, b.cmds = a.cmds, b.phase \in {"in", "ready"},
           sp = <<>> => e.what = "LoggedIn"
    PROVE  ActorOK(b, Append(sp, e), he)
<1>1. a.forwarder = "live" /\ Running(b) /\ Live(b) /\ NoLast(a.ferry) /\ NoLast(a.evt)
  BY DEF ActorOK, Running, Live
<1>2. Coming(b) = Append(Coming(a), e)
  BY EventKinds, ComingSays
<1>3. e \in Handed /\ ~Last(e) /\ sp \in Seq(Handed) /\ he \in Seq(Handed)
  BY EventKinds, SeqMonotonic
<1>4. /\ Follows(Coming(b), Append(sp, e), he)
      /\ Len(Append(sp, e)) = Len(he) + Len(Coming(b))
  <2>1. Follows(Coming(a), sp, he) /\ Len(sp) = Len(he) + Len(Coming(a)) /\ NoLast(Coming(a))
    BY <1>1, ComingNotLast DEF ActorOK
  <2>2. Coming(a) \in Seq(Handed)
    BY ActorSeqs
  <2> QED BY <1>2, <1>3, <2>1, <2>2, FollowsSays
<1>5. Append(sp, e) # <<>> /\ Append(sp, e)[1].what = "LoggedIn"
  <2>1. CASE sp = <<>>
    BY <2>1
  <2>2. CASE sp # <<>>
    BY <2>2 DEF ActorOK
  <2> QED BY <2>1, <2>2
<1> QED BY <1>1, <1>4, <1>5 DEF ActorOK, Running

\* A session that closes stays in step.
LEMMA ClosesOK ==
    ASSUME NEW a \in Actors, NEW b \in Actors, NEW sp \in Seq(Said),
           NEW he \in Seq(Said), ActorOK(a, sp, he), Running(a), NotClosed(a),
           b.ferry = a.ferry, b.evt = a.evt, b.hand = a.hand, b.said = Append(a.said, ClosedEvent),
           b.turn = a.turn, b.forwarder = a.forwarder, b.cmds = a.cmds, b.phase = a.phase
    PROVE  ActorOK(b, sp, he)
<1>1. a.forwarder = "live" /\ Running(b) /\ Live(b) /\ NoLast(a.ferry) /\ NoLast(a.evt)
  BY DEF ActorOK, Running, Live
<1>2. Coming(b) = Append(Coming(a), ClosedEvent)
  BY EventKinds, ComingSays
<1>3. ClosedEvent \in Handed /\ Last(ClosedEvent) /\ he \in Seq(Handed)
  BY EventKinds, SeqMonotonic
<1>4. Follows(Coming(b), sp, he)
  <2>1. Follows(Coming(a), sp, he) /\ NoLast(Coming(a))
    BY <1>1, ComingNotLast DEF ActorOK
  <2>2. Coming(a) \in Seq(Handed)
    BY ActorSeqs
  <2> QED BY <1>2, <1>3, <2>1, <2>2, FollowsLast
<1>5. ~NotClosed(b)
  <2>1. a.said \in Seq(Uttered) /\ b.said = Append(a.said, ClosedEvent)
    BY DEF Actors
  <2>2. Len(a.said) \in Nat /\ Len(b.said) = Len(a.said) + 1 /\ b.said[Len(a.said) + 1] = ClosedEvent
    BY <2>1
  <2>3. Len(a.said) + 1 \in 1..Len(b.said)
    BY <2>2
  <2> QED BY <2>2, <2>3, EventKinds DEF NotClosed
<1> QED BY <1>1, <1>4, <1>5 DEF ActorOK, Running

\* What fields of an actor ActorOK is about, but for next, out and wants.
SameTalk(a, b) ==
    /\ b.phase = a.phase /\ b.said = a.said /\ b.turn = a.turn /\ b.hand = a.hand
    /\ b.evt = a.evt /\ b.ferry = a.ferry /\ b.forwarder = a.forwarder

\* A change of nothing an actor says or hands on keeps it in step.
LEMMA QuietOK ==
    ASSUME NEW a, NEW b, NEW sp, NEW he, ActorOK(a, sp, he), SameTalk(a, b),
           Len(b.cmds) <= CommandCapacity
    PROVE  ActorOK(b, sp, he)
<1>1. Coming(b) = Coming(a)
  BY DEF Coming, InHand, SameTalk
<1> QED BY <1>1 DEF ActorOK, SameTalk, Live, Running, NotClosed

\* What is already handed on goes on where what was heard ends.
LEMMA HandedOn ==
    ASSUME NEW a \in Actors, NEW sp \in Seq(Said), NEW he \in Seq(Said),
           ActorOK(a, sp, he), a.forwarder # "gone"
    PROVE  /\ Follows(a.ferry \o a.evt, sp, he)
           /\ a.ferry \o a.evt \in Seq(Handed)
<1>1. he \in Seq(Handed)
  BY EventKinds, SeqMonotonic
<1> DEFINE f == a.ferry
           v == a.evt
           x == InHand(a) \o a.said
<1>2. f \in Seq(Handed) /\ v \in Seq(Handed) /\ x \in Seq(Handed) /\ Follows(f \o (v \o x), sp, he)
  BY ActorSeqs DEF ActorOK, Coming
<1>3. CASE NoLast(f) /\ NoLast(v)
  <2> HIDE DEF f, v, x
  <2>1. f \o v \in Seq(Handed) /\ f \o (v \o x) = (f \o v) \o x
    BY <1>2, ConcatAssociative, SMTT(40)
  <2>2. NoLast(f \o v)
    BY <1>2, <1>3, NoLastConcat
  <2> DEFINE p == f \o v
  <2>3. Follows(p \o x, sp, he) /\ p \in Seq(Handed) /\ NoLast(p)
    BY <1>2, <2>1, <2>2
  <2> HIDE DEF p
  <2>4. Follows(p, sp, he)
    BY <1>1, <1>2, <2>3, FollowsCut
  <2> QED BY <2>1, <2>4 DEF p, f, v
<1>4. CASE ~(NoLast(f) /\ NoLast(v))
  <2>1. ~Running(a)
    BY <1>4 DEF ActorOK
  <2>2. a.said = <<>> /\ a.hand["read"] = NoEvent /\ a.hand["deliver"] = NoEvent
    BY <2>1 DEF ActorOK, Sides
  <2>3. x = <<>>
    BY <2>2 DEF InHand
  <2> HIDE DEF f, v, x
  <2>4. v \o x = v /\ f \o v \in Seq(Handed)
    BY <1>2, <2>3
  <2> QED BY <1>2, <2>4 DEF f, v
<1> QED BY <1>3, <1>4

\* An actor that has nothing more to say, but what was handed on.
LEMMA EndingOK ==
    ASSUME NEW a \in Actors, NEW b \in Actors, NEW sp \in Seq(Said), NEW he \in Seq(Said),
           ActorOK(a, sp, he), Live(a), Len(b.cmds) <= CommandCapacity,
           b.said = <<>>, \A side \in Sides : b.hand[side] = NoEvent,
           b.ferry = a.ferry, b.evt = a.evt,
           \/ Running(a) /\ b.phase = "ending" /\ b.forwarder = "live"
           \/ b.phase = "gone" /\ b.forwarder = "last"
    PROVE  ActorOK(b, sp, he)
<1>1. a.forwarder = "live"
  BY DEF ActorOK
<1>2. Follows(a.ferry \o a.evt, sp, he)
  BY <1>1, HandedOn
<1>3. Coming(b) = a.ferry \o a.evt
  <2>1. InHand(b) = <<>> /\ b.said = <<>>
    BY DEF InHand, Sides
  <2>2. b.evt \o (InHand(b) \o b.said) = b.evt
    <3>1. InHand(b) \o b.said = <<>>
      BY <2>1
    <3> QED BY <3>1, Nil DEF Actors
  <2> QED BY <2>2 DEF Coming
<1>4. ~Running(b)
  BY DEF Running
<1> QED BY <1>1, <1>2, <1>3, <1>4 DEF ActorOK, Live, Running

\* Of two sides only one has an event in hand.
LEMMA OtherHand ==
    ASSUME NEW a, NEW sp, NEW he, ActorOK(a, sp, he), NEW side \in Sides,
           a.turn \in {"none", side}, a.hand[side] = NoEvent
    PROVE  InHand(a) = <<>> /\ \A x \in Sides : a.hand[x] = NoEvent
  BY DEF ActorOK, InHand, Sides

\* Nothing of what is coming changes, nor of who has ended.
LEMMA MovesOK ==
    ASSUME NEW a \in Actors, NEW b \in Actors, NEW sp, NEW he,
           ActorOK(a, sp, he), Coming(b) = Coming(a), b.phase = a.phase,
           b.forwarder = a.forwarder, b.cmds = a.cmds,
           ~Running(a) => (b.said = a.said /\ b.hand = a.hand),
           \A side \in Sides : b.hand[side] # NoEvent => b.turn = side,
           (Running(a) /\ NotClosed(b)) => NotClosed(a),
           (Running(a) \/ a.phase = "ending") => (NoLast(b.ferry) /\ NoLast(b.evt)),
           Len(b.evt) <= EventCapacity, Len(b.ferry) <= FerryCapacity
    PROVE  ActorOK(b, sp, he)
<1>1. Running(b) <=> Running(a)
  BY DEF Running
<1>2. Live(b) <=> Live(a)
  BY DEF Live
<1> QED BY <1>1, <1>2 DEF ActorOK

\* A side takes the next thing said into its hand.
LEMMA PopOK ==
    ASSUME NEW a \in Actors, NEW b \in Actors, NEW sp, NEW he, NEW side \in Sides,
           ActorOK(a, sp, he), Running(a), a.turn \in {"none", side},
           a.hand[side] = NoEvent, a.said # <<>>, Head(a.said) \in Said,
           b.said = Tail(a.said), b.hand = [a.hand EXCEPT ![side] = Head(a.said)],
           b.turn = side, b.phase = a.phase, b.evt = a.evt, b.ferry = a.ferry,
           b.forwarder = a.forwarder, b.cmds = a.cmds
    PROVE  ActorOK(b, sp, he)
<1>1. InHand(a) = <<>> /\ \A x \in Sides : a.hand[x] = NoEvent
  BY OtherHand
<1>2. DOMAIN a.hand = Sides
  BY DEF Actors
<1>3. b.hand[side] = Head(a.said) /\ \A x \in Sides \ {side} : b.hand[x] = NoEvent
  BY <1>1, <1>2
<1>4. Head(a.said) # NoEvent
  BY EventKinds
<1>5. InHand(b) = <<Head(a.said)>>
  BY <1>3, <1>4 DEF InHand, Sides
<1>6. InHand(b) \o b.said = InHand(a) \o a.said
  <2>1. a.said \in Seq(Uttered)
    BY DEF Actors
  <2>2. a.said = <<Head(a.said)>> \o Tail(a.said) /\ <<>> \o a.said = a.said
    BY <2>1
  <2> QED BY <1>1, <1>5, <2>2
<1>7. Coming(b) = Coming(a)
  BY <1>6 DEF Coming
<1>8. NotClosed(b) => NotClosed(a)
  <2> SUFFICES ASSUME NotClosed(b), NEW n \in 1..Len(a.said) PROVE a.said[n].what # "Closed"
    BY DEF NotClosed
  <2>1. a.said \in Seq(Uttered) /\ Len(a.said) > 0
    BY DEF Actors
  <2>2. CASE n = 1
    BY <2>1, <2>2, EventKinds
  <2>3. CASE n # 1
    <3>1. n - 1 \in 1..Len(b.said) /\ b.said[n - 1] = a.said[n]
      BY <2>1, <2>3
    <3> QED BY <3>1 DEF NotClosed
  <2> QED BY <2>2, <2>3
<1>9. \A x \in Sides : b.hand[x] # NoEvent => b.turn = x
  BY <1>3
<1> QED BY <1>7, <1>8, <1>9, MovesOK DEF ActorOK

\* A side puts what it has in hand into the channel, behind what is there.
LEMMA HandOnOK ==
    ASSUME NEW a \in Actors, NEW b \in Actors, NEW sp, NEW he, NEW side \in Sides,
           ActorOK(a, sp, he), Running(a), a.hand[side] # NoEvent,
           Len(a.evt) < EventCapacity,
           b.evt = Append(a.evt, a.hand[side]), b.hand = [a.hand EXCEPT ![side] = NoEvent],
           b.said = a.said, b.turn = a.turn, b.phase = a.phase, b.ferry = a.ferry,
           b.forwarder = a.forwarder, b.cmds = a.cmds
    PROVE  ActorOK(b, sp, he)
<1> DEFINE x == a.hand[side]
<1>1. x \in Said /\ x \in Handed /\ ~Last(x)
  BY EventKinds DEF Actors
<1>2. a.turn = side /\ \A y \in Sides \ {side} : a.hand[y] = NoEvent
  BY DEF ActorOK, Sides
<1>3. DOMAIN a.hand = Sides
  BY DEF Actors
<1>4. \A y \in Sides : b.hand[y] = NoEvent
  BY <1>2, <1>3
<1>5. InHand(a) = <<x>> /\ InHand(b) = <<>>
  BY <1>2, <1>4 DEF InHand, Sides
<1>6. b.evt \o (InHand(b) \o b.said) = a.evt \o (InHand(a) \o a.said)
  <2> DEFINE q == <<x>>
  <2>1. a.evt \in Seq(Handed) /\ a.said \in Seq(Handed)
    BY ActorSeqs
  <2>2. q \in Seq(Handed) /\ Head(q) = x /\ Tail(q) = <<>> /\ q # <<>>
    BY <1>1
  <2>3. InHand(a) = q /\ InHand(b) = <<>> /\ b.evt = Append(a.evt, x) /\ b.said = a.said
    BY <1>5
  <2> HIDE DEF q, x
  <2>4. Over(a.evt, q, a.said)
    BY <2>1, <2>2, Shift
  <2> QED BY <2>2, <2>3, <2>4, Zenon DEF Over
<1>7. Coming(b) = Coming(a)
  BY <1>6 DEF Coming
<1>8. NoLast(a.evt) /\ NoLast(a.ferry)
  BY DEF ActorOK
<1>9. NoLast(b.evt) /\ Len(b.evt) <= EventCapacity
  <2>1. a.evt \in Seq(Handed)
    BY ActorSeqs
  <2> HIDE DEF x
  <2>2. Len(b.evt) = Len(a.evt) + 1 /\ b.evt[Len(a.evt) + 1] = x
        /\ \A i \in 1..Len(a.evt) : b.evt[i] = a.evt[i]
    BY <1>1, <2>1 DEF x
  <2>3. \A i \in 1..(Len(a.evt) + 1) : i \in 1..Len(a.evt) \/ i = Len(a.evt) + 1
    BY <2>1
  <2>4. NoLast(b.evt)
    BY <1>1, <1>8, <2>2, <2>3 DEF NoLast
  <2> QED BY <2>1, <2>2, <2>4, CapacitiesAssumption
<1>10. NotClosed(b) => NotClosed(a)
  BY DEF NotClosed
<1> QED BY <1>4, <1>7, <1>8, <1>9, <1>10, MovesOK DEF ActorOK

\* A side with nothing in hand gives up its turn.
LEMMA TurnEndsOK ==
    ASSUME NEW a \in Actors, NEW b \in Actors, NEW sp, NEW he, NEW side \in Sides,
           ActorOK(a, sp, he), Running(a), a.turn \in {"none", side},
           a.hand[side] = NoEvent, b.hand = a.hand,
           b.evt = a.evt, b.said = a.said, b.phase = a.phase, b.ferry = a.ferry,
           b.forwarder = a.forwarder, b.cmds = a.cmds
    PROVE  ActorOK(b, sp, he)
<1>1. \A x \in Sides : a.hand[x] = NoEvent
  BY OtherHand
<1>2. Coming(b) = Coming(a)
  BY DEF Coming, InHand
<1>3. NotClosed(b) => NotClosed(a)
  BY DEF NotClosed
<1> QED BY <1>1, <1>2, <1>3, MovesOK DEF ActorOK

\* The actor's last event goes behind all it handed on.
LEMMA ShutdownOK ==
    ASSUME NEW a \in Actors, NEW b \in Actors, NEW sp \in Seq(Said), NEW he \in Seq(Said),
           ActorOK(a, sp, he), a.phase = "ending", Len(a.evt) < EventCapacity,
           b.evt = Append(a.evt, ShutdownEvent), b.cmds = <<>>, b.phase = "ended",
           b.hand = a.hand, b.said = a.said, b.turn = a.turn, b.ferry = a.ferry,
           b.forwarder = a.forwarder
    PROVE  ActorOK(b, sp, he)
<1>1. /\ Live(a) /\ Live(b) /\ ~Running(a) /\ ~Running(b) /\ a.forwarder = "live"
      /\ NoLast(a.ferry) /\ NoLast(a.evt)
      /\ a.said = <<>> /\ \A x \in Sides : a.hand[x] = NoEvent
  BY DEF ActorOK, Live, Running
<1>2. InHand(b) \o b.said = <<>>
  <2>1. InHand(b) = <<>> /\ b.said = <<>>
    BY <1>1 DEF InHand, Sides
  <2> QED BY <2>1
<1> DEFINE f == a.ferry
           v == a.evt
<1>3. /\ f \in Seq(Handed) /\ v \in Seq(Handed) /\ he \in Seq(Handed)
      /\ ShutdownEvent \in Handed /\ Last(ShutdownEvent)
  BY ActorSeqs, EventKinds, SeqMonotonic
<1>4. Follows(f \o v, sp, he) /\ f \o v \in Seq(Handed)
  BY <1>1, HandedOn
<1>5. Coming(b) = f \o b.evt
  <2>1. b.evt \in Seq(Event)
    BY DEF Actors
  <2>2. b.evt \o <<>> = b.evt
    BY <2>1, Nil
  <2> QED BY <1>2, <2>2 DEF Coming
<1> HIDE DEF f, v
<1>6. f \o Append(v, ShutdownEvent) = Append(f \o v, ShutdownEvent)
  BY <1>3, AppendLast, SMTT(40)
<1>7. NoLast(f \o v)
  BY <1>1, <1>3, NoLastConcat DEF f, v
<1>8. Follows(f \o b.evt, sp, he)
  <2> DEFINE p == f \o v
  <2>1. Follows(p, sp, he) /\ p \in Seq(Handed) /\ NoLast(p)
    BY <1>4, <1>7
  <2> HIDE DEF p
  <2>2. Follows(Append(p, ShutdownEvent), sp, he)
    BY <1>3, <2>1, FollowsLast
  <2> QED BY <1>6, <2>2 DEF p, v
<1>9. Len(b.evt) <= EventCapacity /\ Len(b.cmds) <= CommandCapacity
  <2>1. Len(b.evt) = Len(a.evt) + 1 /\ Len(a.evt) \in Nat /\ Len(b.cmds) = 0
    BY <1>3 DEF v
  <2> QED BY <2>1, CapacitiesAssumption
<1> QED BY <1>1, <1>5, <1>8, <1>9 DEF ActorOK

\* Moving an event from the channel to the ferry makes none the last.
LEMMA NoLastShift ==
    ASSUME NEW S, NEW f \in Seq(S), NEW v \in Seq(S), NoLast(f), NoLast(v), v # <<>>
    PROVE  NoLast(Append(f, Head(v))) /\ NoLast(Tail(v))
<1>1. Len(v) \in Nat /\ Len(v) > 0 /\ Head(v) = v[1] /\ Head(v) \in S /\ Len(f) \in Nat
  OBVIOUS
<1>2. /\ Len(Append(f, Head(v))) = Len(f) + 1 /\ Append(f, Head(v))[Len(f) + 1] = v[1]
      /\ \A i \in 1..Len(f) : Append(f, Head(v))[i] = f[i]
  BY <1>1
<1>3. Len(Tail(v)) = Len(v) - 1 /\ \A i \in 1..(Len(v) - 1) : Tail(v)[i] = v[i + 1]
  BY <1>1
<1>4. \A i \in 1..(Len(f) + 1) : i \in 1..Len(f) \/ i = Len(f) + 1
  BY <1>1
<1>5. \A i \in 1..(Len(v) - 1) : i + 1 \in 1..Len(v)
  BY <1>1
<1>6. 1 \in 1..Len(v)
  BY <1>1
<1>7. NoLast(Append(f, Head(v)))
  BY <1>2, <1>4, <1>6 DEF NoLast
<1> QED BY <1>3, <1>5, <1>7 DEF NoLast

\* The forwarder moves an event from the channel to the ferry.
LEMMA PumpOK ==
    ASSUME NEW a \in Actors, NEW b \in Actors, NEW sp, NEW he,
           ActorOK(a, sp, he), a.evt # <<>>, Len(a.ferry) < FerryCapacity,
           b.ferry = Append(a.ferry, Head(a.evt)), b.evt = Tail(a.evt),
           b.hand = a.hand, b.said = a.said, b.turn = a.turn, b.phase = a.phase,
           b.forwarder = a.forwarder, b.cmds = a.cmds
    PROVE  ActorOK(b, sp, he)
<1> DEFINE x == InHand(a) \o a.said
           f == a.ferry
           v == a.evt
<1>1. f \in Seq(Handed) /\ v \in Seq(Handed) /\ x \in Seq(Handed)
  BY ActorSeqs
<1>2. InHand(b) \o b.said = x
  BY DEF InHand
<1>3. Coming(b) = Append(f, Head(v)) \o (Tail(v) \o x) /\ Coming(a) = f \o (v \o x)
  BY <1>2 DEF Coming
<1> HIDE DEF x, f, v
<1>4. Coming(b) = Coming(a)
  <2>1. v # <<>>
    BY DEF v
  <2>2. Over(f, v, x)
    BY <1>1, <2>1, Shift
  <2> QED BY <1>3, <2>2, Zenon DEF Over
<1>5. (Running(a) \/ a.phase = "ending") => (NoLast(b.ferry) /\ NoLast(b.evt))
  <2>1. v # <<>> /\ b.ferry = Append(f, Head(v)) /\ b.evt = Tail(v)
    BY DEF f, v
  <2>2. (Running(a) \/ a.phase = "ending") => (NoLast(f) /\ NoLast(v))
    BY DEF ActorOK, f, v
  <2> QED BY <1>1, <2>1, <2>2, NoLastShift
<1>6. Len(b.evt) <= EventCapacity /\ Len(b.ferry) <= FerryCapacity
  <2>1. v # <<>> /\ b.ferry = Append(f, Head(v)) /\ b.evt = Tail(v) /\ Len(f) < FerryCapacity
        /\ Len(v) <= EventCapacity
    BY DEF f, v, ActorOK
  <2>2. Len(Tail(v)) = Len(v) - 1 /\ Len(v) \in Nat
    BY <1>1, <2>1
  <2>3. Len(Append(f, Head(v))) = Len(f) + 1 /\ Len(f) \in Nat
    BY <1>1, <2>1
  <2>4. Len(b.evt) = Len(v) - 1 /\ Len(b.ferry) = Len(f) + 1
    BY <2>1, <2>2, <2>3, Zenon
  <2>5. Len(f) < FerryCapacity /\ Len(v) <= EventCapacity /\ Len(f) \in Nat /\ Len(v) \in Nat
    BY <2>1, <2>2, <2>3, Zenon
  <2> QED BY <2>4, <2>5, CapacitiesAssumption
<1>7. NotClosed(b) => NotClosed(a)
  BY DEF NotClosed
<1> QED BY <1>4, <1>5, <1>6, <1>7, MovesOK DEF ActorOK

\* The head and the tail of a concatenation are those of its front.
LEMMA TailConcat ==
    ASSUME NEW S, NEW f \in Seq(S), NEW r \in Seq(S), f # <<>>
    PROVE  /\ f \o r \in Seq(S) /\ f \o r # <<>>
           /\ Head(f \o r) = Head(f) /\ Tail(f \o r) = Tail(f) \o r
           /\ Len(f \o r) \in Nat /\ Len(Tail(f \o r)) = Len(f \o r) - 1
  OBVIOUS

\* What is coming loses its head when the ferry does.
LEMMA ComingTail ==
    ASSUME NEW a \in Actors, NEW b \in Actors, a.ferry # <<>>, b.ferry = Tail(a.ferry),
           b.evt = a.evt, b.hand = a.hand, b.said = a.said
    PROVE  /\ Coming(a) # <<>> /\ Head(Coming(a)) = Head(a.ferry)
           /\ Coming(b) = Tail(Coming(a))
           /\ Len(Coming(a)) \in Nat /\ Len(Coming(b)) = Len(Coming(a)) - 1
<1> DEFINE f == a.ferry
           r == a.evt \o (InHand(a) \o a.said)
<1>1. f \in Seq(Handed) /\ r \in Seq(Handed) /\ f # <<>>
  BY ActorSeqs
<1>2. Coming(a) = f \o r /\ Coming(b) = Tail(f) \o r
  BY DEF Coming, InHand
<1> HIDE DEF f, r
<1>3. /\ f \o r # <<>> /\ Head(f \o r) = Head(f) /\ Tail(f \o r) = Tail(f) \o r
      /\ Len(f \o r) \in Nat /\ Len(Tail(f \o r)) = Len(f \o r) - 1
  BY <1>1, TailConcat
<1> QED BY <1>2, <1>3 DEF f

\* Fewer on the ferry.
LEMMA TailShort ==
    ASSUME NEW S, NEW f \in Seq(S), f # <<>>, NEW n \in Nat, Len(f) <= n
    PROVE  Len(Tail(f)) <= n /\ (NoLast(f) => NoLast(Tail(f)))
<1>1. Len(f) \in Nat /\ Len(f) > 0 /\ Len(Tail(f)) = Len(f) - 1
      /\ \A i \in 1..(Len(f) - 1) : Tail(f)[i] = f[i + 1] /\ i + 1 \in 1..Len(f)
  OBVIOUS
<1>2. Len(Tail(f)) <= n
  BY <1>1
<1>3. NoLast(f) => NoLast(Tail(f))
  BY <1>1 DEF NoLast
<1> QED BY <1>2, <1>3

\* The next event is off the ferry.
Tells(a, b) == b = [a EXCEPT !.ferry = Tail(@)]

\* It is what the session said next.
HeardNext(a, b, sp, he) ==
    /\ ActorOK(b, sp, Append(he, Head(a.ferry)))
    /\ Head(a.ferry) \in Said /\ Len(he) + 1 <= Len(sp)
    /\ Append(he, Head(a.ferry)) = SubSeq(sp, 1, Len(he) + 1)
    /\ Head(a.ferry) = sp[Len(he) + 1]

\* The next event is heard.
LEMMA HearOK ==
    ASSUME NEW a \in Actors, NEW b \in Actors, NEW sp \in Seq(Said), NEW he \in Seq(Said),
           ActorOK(a, sp, he), a.forwarder # "gone", a.ferry # <<>>, ~Last(Head(a.ferry)),
           Tells(a, b)
    PROVE  HeardNext(a, b, sp, he)
<1> DEFINE e == Head(a.ferry)
           q == Coming(a)
<1>1. /\ b.ferry = Tail(a.ferry) /\ b.evt = a.evt /\ b.hand = a.hand /\ b.said = a.said
      /\ b.phase = a.phase /\ b.forwarder = a.forwarder /\ b.turn = a.turn /\ b.cmds = a.cmds
  BY DEF Actors, Tells
<1>2. /\ q # <<>> /\ Head(q) = e /\ Coming(b) = Tail(q)
      /\ Len(q) \in Nat /\ Len(Tail(q)) = Len(q) - 1
  BY <1>1, ComingTail
<1>3. q \in Seq(Handed) /\ sp \in Seq(Handed) /\ he \in Seq(Handed)
  BY ActorSeqs, EventKinds, SeqMonotonic
<1>4. Follows(q, sp, he) /\ ~Last(Head(q))
  BY <1>2 DEF ActorOK
<1> HIDE DEF q
<1>5. /\ Follows(Tail(q), sp, Append(he, e)) /\ Len(he) + 1 <= Len(sp)
      /\ Append(he, e) = SubSeq(sp, 1, Len(he) + 1) /\ e = sp[Len(he) + 1]
  BY <1>2, <1>3, <1>4, FollowsHears, SMTT(40)
<1>6. a.ferry \in Seq(Event) /\ e \in Event
  BY SMTT(40) DEF Actors
<1>7. e \in Said
  BY <1>6, EventKinds
<1>8. Len(b.ferry) <= FerryCapacity /\ (NoLast(a.ferry) => NoLast(b.ferry))
  BY <1>1, <1>6, TailShort, CapacitiesAssumption DEF ActorOK
<1>9. Running(a) /\ NotClosed(a) => Len(sp) = Len(Append(he, e)) + Len(Tail(q))
  <2>1. Running(a) /\ NotClosed(a) => Len(sp) = Len(he) + Len(q)
    BY DEF ActorOK, q
  <2>2. Len(Append(he, e)) = Len(he) + 1 /\ Len(he) \in Nat
    BY <1>7
  <2>3. Len(q) \in Nat /\ Len(Tail(q)) = Len(q) - 1
    BY <1>2
  <2> DEFINE n == Len(Append(he, e))
             k == Len(Tail(q))
  <2> HIDE DEF n, k
  <2>4. n = Len(he) + 1 /\ k = Len(q) - 1
    BY <2>2, <2>3 DEF n, k
  <2>5. Running(a) /\ NotClosed(a) => Len(sp) = n + k
    <3> DEFINE u == Len(he)
               v == Len(q)
               z == Len(sp)
    <3>1. u \in Nat /\ v \in Nat /\ n = u + 1 /\ k = v - 1
      BY <2>2, <2>3, <2>4
    <3>2. Running(a) /\ NotClosed(a) => z = u + v
      BY <2>1
    <3> HIDE DEF u, v, z
    <3>3. u + v = n + k
      BY <3>1
    <3>4. Running(a) /\ NotClosed(a) => z = n + k
      BY <3>2, <3>3, Zenon
    <3> QED BY <3>4 DEF z
  <2> QED BY <2>5 DEF n, k
<1>10. /\ Running(b) <=> Running(a)
       /\ Live(b) <=> Live(a)
       /\ NotClosed(b) <=> NotClosed(a)
  BY <1>1 DEF Running, Live, NotClosed
<1> HIDE DEF e
<1>11. ActorOK(b, sp, Append(he, e))
  <2>1. Follows(Coming(b), sp, Append(he, e))
    BY <1>2, <1>5
  <2>2. Running(b) /\ NotClosed(b) => Len(sp) = Len(Append(he, e)) + Len(Coming(b))
    BY <1>2, <1>9, <1>10
  <2> QED BY <1>1, <1>8, <1>10, <2>1, <2>2 DEF ActorOK
<1> QED BY <1>5, <1>7, <1>11, Zenon DEF e, HeardNext

\* The shutdown is taken: it is the last that comes.
LEMMA TakenOK ==
    ASSUME NEW a \in Actors, NEW b \in Actors, NEW sp \in Seq(Said), NEW he \in Seq(Said),
           ActorOK(a, sp, he), a.forwarder # "gone", a.ferry # <<>>, Last(Head(a.ferry)),
           b = [a EXCEPT !.ferry = Tail(@)]
    PROVE  ActorOK(b, sp, he)
<1> DEFINE q == Coming(a)
<1>1. /\ b.ferry = Tail(a.ferry) /\ b.evt = a.evt /\ b.hand = a.hand /\ b.said = a.said
      /\ b.phase = a.phase /\ b.forwarder = a.forwarder /\ b.turn = a.turn /\ b.cmds = a.cmds
  BY DEF Actors
<1>2. q # <<>> /\ Head(q) = Head(a.ferry) /\ Coming(b) = Tail(q)
  BY <1>1, ComingTail
<1>3. q \in Seq(Handed) /\ he \in Seq(Handed) /\ a.ferry \in Seq(Event)
  BY ActorSeqs, EventKinds, SeqMonotonic DEF Actors
<1>4. Follows(q, sp, he) /\ Last(Head(q))
  BY <1>2 DEF ActorOK
<1> HIDE DEF q
<1>5. Tail(q) = <<>> /\ Follows(Tail(q), sp, he)
  BY <1>2, <1>3, <1>4, FollowsTaken
<1>6. Len(b.ferry) <= FerryCapacity
  BY <1>1, <1>3, TailShort, CapacitiesAssumption DEF ActorOK
<1>7. ~NoLast(a.ferry)
  <2>1. 1 \in 1..Len(a.ferry) /\ a.ferry[1] = Head(a.ferry)
    BY <1>3
  <2> QED BY <2>1 DEF NoLast
<1>8. ~Running(a) /\ a.phase # "ending"
  BY <1>7 DEF ActorOK
<1>9. /\ ~Running(b)
      /\ Live(b) <=> Live(a)
  BY <1>1, <1>8 DEF Running, Live
<1> QED BY <1>1, <1>2, <1>5, <1>6, <1>8, <1>9 DEF ActorOK, Running

---------------------------------------------------------------------------
(* The task's steps, over one handle. *)

\* What the fields of a state are.
LEMMA StateTypes ==
    ASSUME NEW s \in States
    PROVE  /\ s.conn \in [open : BOOLEAN, handle : 0..MaxHandles, fetched : BOOLEAN, trans : Nat]
           /\ s.held \in Seq(Frame) /\ s.records \subseteq Frame /\ s.ids \in 0..MaxRequests
           /\ DOMAIN s.actor = Handles /\ DOMAIN s.asked = Handles /\ DOMAIN s.wire = Handles
           /\ DOMAIN s.spoken = Handles /\ DOMAIN s.heard = Handles
           /\ \A h \in Handles : /\ s.actor[h] \in Actors
                                 /\ s.asked[h] \in Seq(Frame) /\ s.wire[h] \in Seq(Frame)
                                 /\ s.spoken[h] \in Seq(Said) /\ s.heard[h] \in Seq(Said)
  BY DEF States

\* An open connection has an actor.
LEMMA HandleOfOpen ==
    ASSUME NEW s, NEW m, ConnPart(s, m), s.conn.open
    PROVE  s.conn.handle \in Handles /\ Live(s.actor[s.conn.handle])
<1>1. m \in 0..MaxHandles /\ s.conn.handle \in 1..m
  BY DEF ConnPart
<1>2. s.conn.handle \in Handles
  BY <1>1, BoundsAssumption DEF Handles
<1> QED BY <1>2 DEF ConnPart

\* What RequestsPart says, of what it is about.
ReqOK(c, q, w, out, cmds, hd, phase, sp) ==
    /\ ~c.open => hd = <<>>
    /\ c.open /\ phase # "ended" => q = w \o (out \o (cmds \o hd))
    /\ c.open =>
              /\ c.fetched => HasSaid(sp, "Ready")
              /\ ~c.fetched => w = <<>> /\ out = <<>> /\ cmds = <<>>
              /\ \A n \in 1..Len(sp) : sp[n].what = "Reply" =>
                    \E i \in 1..Len(q) : q[i] = sp[n].req

\* RequestsPart is of these alone.
LEMMA ReqIs ==
    ASSUME NEW s
    PROVE  LET h == s.conn.handle
               a == s.actor[h]
           IN  RequestsPart(s) <=> ReqOK(s.conn, s.asked[h], s.wire[h], a.out, a.cmds, s.held,
                                         a.phase, s.spoken[h])
  BY Zenon DEF RequestsPart, ReqOK

\* More is said, and a reply is to what was asked.
LEMMA ReqSays ==
    ASSUME NEW c, NEW q, NEW w, NEW out, NEW cmds, NEW hd, NEW p1, NEW p2, NEW sp, NEW sp2,
           ReqOK(c, q, w, out, cmds, hd, p1, sp), p1 # "ended",
           HasSaid(sp, "Ready") => HasSaid(sp2, "Ready"),
           \A n \in 1..Len(sp2) : sp2[n].what = "Reply" => \E i \in 1..Len(q) : q[i] = sp2[n].req
    PROVE  ReqOK(c, q, w, out, cmds, hd, p2, sp2)
  BY DEF ReqOK

\* An actor that ends may drop what is in the channel.
LEMMA ReqQuiet ==
    ASSUME NEW c, NEW q, NEW w, NEW out, NEW cm1, NEW cm2, NEW hd, NEW p1, NEW p2, NEW sp,
           ReqOK(c, q, w, out, cm1, hd, p1, sp),
           \/ p2 = "ended" /\ cm2 \in {cm1, <<>>}
           \/ p1 # "ended" /\ cm2 = cm1
    PROVE  ReqOK(c, q, w, out, cm2, hd, p2, sp)
  BY DEF ReqOK

\* A step of the task of one handle, which its own requests decide.
LEMMA TaskLift ==
    ASSUME NEW m, NEW s, NEW t \in States, ChannelOK(s, m), NEW h \in Handles,
           t.conn = s.conn, t.held = s.held, t.records = s.records, t.asked = s.asked,
           t.heard = s.heard,
           \A g \in Handles \ {h} : /\ t.actor[g] = s.actor[g] /\ t.spoken[g] = s.spoken[g]
                                    /\ t.wire[g] = s.wire[g],
           Live(t.actor[h]) <=> Live(s.actor[h]), t.actor[h].next = s.actor[h].next,
           t.actor[h].forwarder = s.actor[h].forwarder, s.actor[h].forwarder # "gone",
           ~Live(s.actor[h]) => t.wire[h] = s.wire[h],
           ActorOK(t.actor[h], t.spoken[h], t.heard[h]),
           (s.conn.open /\ s.conn.handle = h) => RequestsPart(t)
    PROVE  ChannelOK(t, m)
<1>1. ConnPart(s, m) /\ EventsPart(s) /\ RequestsPart(s) /\ TransPart(s) /\ RecordsPart(s)
  BY DEF ChannelOK
<1>2. ConnPart(t, m)
  BY <1>1 DEF ConnPart
<1>3. EventsPart(t)
  BY <1>1 DEF EventsPart
<1>4. s.conn.open => s.conn.handle \in Handles
  BY <1>1, HandleOfOpen
<1>5. RequestsPart(t)
  <2>1. CASE s.conn.open /\ s.conn.handle = h
    BY <2>1
  <2>2. CASE s.conn.open /\ s.conn.handle # h
    <3> DEFINE g == s.conn.handle
    <3>1. g \in Handles \ {h}
      BY <1>4, <2>2
    <3>2. t.actor[g] = s.actor[g] /\ t.spoken[g] = s.spoken[g] /\ t.wire[g] = s.wire[g]
      BY <3>1
    <3> HIDE DEF g
    <3>3. s.conn.handle = g /\ t.conn.handle = g
      BY DEF g
    <3> QED BY <1>1, <3>2, <3>3, ReqIs
  <2>3. CASE ~s.conn.open
    BY <1>1, <2>3, ZenonT(40) DEF RequestsPart
  <2> QED BY <2>1, <2>2, <2>3
<1>6. TransPart(t)
  <2>1. s.conn.open => t.actor[s.conn.handle].next = s.actor[s.conn.handle].next
    BY <1>4
  <2> QED BY <1>1, <2>1 DEF TransPart
<1>7. RecordsPart(t)
  BY <1>1 DEF RecordsPart
<1> QED BY <1>2, <1>3, <1>5, <1>6, <1>7 DEF ChannelOK

\* What moves events, and no request.
LEMMA EventMoves ==
    ASSUME NEW s, NEW t, RequestsPart(s), NEW h,
           t.conn = s.conn, t.held = s.held, t.asked = s.asked,
           t.wire[h] = s.wire[h], t.spoken[h] = s.spoken[h],
           s.conn.open, s.conn.handle = h,
           t.actor[h].out = s.actor[h].out,
           \/ t.actor[h].phase = "ended" /\ t.actor[h].cmds \in {s.actor[h].cmds, <<>>}
           \/ s.actor[h].phase # "ended" /\ t.actor[h].cmds = s.actor[h].cmds
    PROVE  RequestsPart(t)
<1>1. ReqOK(s.conn, s.asked[h], s.wire[h], s.actor[h].out, s.actor[h].cmds, s.held,
            s.actor[h].phase, s.spoken[h])
  BY ReqIs
<1>2. ReqOK(s.conn, s.asked[h], s.wire[h], s.actor[h].out, t.actor[h].cmds, s.held,
            t.actor[h].phase, s.spoken[h])
  BY <1>1, ReqQuiet
<1> QED BY <1>2, ReqIs

\* The session says what is not a reply, or replies to what is on the wire.
LEMMA SpeechMoves ==
    ASSUME NEW s \in States, NEW t, RequestsPart(s), NEW h \in Handles, NEW e \in Said,
           t.conn = s.conn, t.held = s.held, t.asked = s.asked,
           t.wire[h] = s.wire[h], t.spoken[h] = Append(s.spoken[h], e),
           s.conn.open, s.conn.handle = h, s.actor[h].phase # "ended",
           t.actor[h].out = s.actor[h].out, t.actor[h].cmds = s.actor[h].cmds,
           e.what = "Reply" => \E i \in 1..Len(s.wire[h]) : e.req = s.wire[h][i]
    PROVE  RequestsPart(t)
<1> DEFINE a == s.actor[h]
           sp == s.spoken[h]
           q == s.asked[h]
           w == s.wire[h]
           r == a.out \o (a.cmds \o s.held)
<1>1. sp \in Seq(Said) /\ w \in Seq(Frame) /\ q \in Seq(Frame) /\ a \in Actors /\ s.held \in Seq(Frame)
  BY StateTypes
<1>2. /\ t.spoken[h] = Append(sp, e)
      /\ Len(sp) \in Nat /\ Len(Append(sp, e)) = Len(sp) + 1
      /\ Append(sp, e)[Len(sp) + 1] = e
      /\ \A i \in 1..Len(sp) : Append(sp, e)[i] = sp[i]
  BY <1>1
<1>3. \A i \in 1..(Len(sp) + 1) : i \in 1..Len(sp) \/ i = Len(sp) + 1
  BY <1>2
<1>4. 1..Len(sp) \subseteq 1..(Len(sp) + 1)
  BY <1>2
<1>5. e.what = "Reply" => \E i \in 1..Len(q) : q[i] = e.req
  <2>1. q = w \o r
    BY DEF RequestsPart
  <2>2. r \in Seq(Frame)
    <3>1. a.out \in Seq(Frame) /\ a.cmds \in Seq(Frame)
      BY <1>1 DEF Actors
    <3>2. a.cmds \o s.held \in Seq(Frame)
      BY <1>1, <3>1, ConcatProperties
    <3> QED BY <3>1, <3>2, ConcatProperties
  <2> HIDE DEF q, w, r
  <2>3. \A i \in 1..Len(w) : i \in 1..Len(w \o r) /\ (w \o r)[i] = w[i]
    BY <1>1, <2>2
  <2> QED BY <2>1, <2>3, SMTT(40) DEF w
<1>6. HasSaid(sp, "Ready") => HasSaid(Append(sp, e), "Ready")
  BY <1>2, <1>4 DEF HasSaid
<1>7. \A n \in 1..Len(sp) : sp[n].what = "Reply" => \E i \in 1..Len(q) : q[i] = sp[n].req
  BY DEF RequestsPart
<1>8. \A n \in 1..(Len(sp) + 1) : Append(sp, e)[n].what = "Reply" =>
          \E i \in 1..Len(q) : q[i] = Append(sp, e)[n].req
  BY <1>2, <1>3, <1>5, <1>7
<1>9. \A n \in 1..Len(Append(sp, e)) : Append(sp, e)[n].what = "Reply" =>
          \E i \in 1..Len(q) : q[i] = Append(sp, e)[n].req
  BY <1>2, <1>8, Zenon
<1>10. ReqOK(s.conn, q, w, a.out, a.cmds, s.held, a.phase, sp)
  BY ReqIs
<1> DEFINE sp2 == Append(sp, e)
<1> HIDE DEF sp, q, w, a, sp2
<1>11. HasSaid(sp, "Ready") => HasSaid(sp2, "Ready")
  BY <1>6, Zenon DEF sp2
<1>12. \A n \in 1..Len(sp2) : sp2[n].what = "Reply" => \E i \in 1..Len(q) : q[i] = sp2[n].req
  BY <1>9, Zenon DEF sp2
<1>13. a.phase # "ended"
  BY DEF a
<1>14. ReqOK(s.conn, q, w, a.out, a.cmds, s.held, t.actor[h].phase, sp2)
  BY <1>10, <1>11, <1>12, <1>13, ReqSays
<1>15. t.asked[h] = q /\ t.wire[h] = w /\ t.spoken[h] = sp2 /\ t.conn = s.conn /\ t.held = s.held
       /\ t.actor[h].out = a.out /\ t.actor[h].cmds = a.cmds /\ t.conn.handle = h
  BY Zenon DEF q, w, a, sp, sp2
<1> QED BY <1>14, <1>15, ReqIs

\* What the variables are while the invariant holds.
LEMMA InvTypes ==
    ASSUME ChannelInv
    PROVE  /\ State \in States /\ made \in 0..MaxHandles
           /\ conn \in [open : BOOLEAN, handle : 0..MaxHandles, fetched : BOOLEAN, trans : Nat]
           /\ held \in Seq(Frame) /\ records \in SUBSET Frame /\ ids \in 0..MaxRequests
           /\ actor \in [Handles -> Actors]
           /\ asked \in [Handles -> Seq(Frame)] /\ wire \in [Handles -> Seq(Frame)]
           /\ spoken \in [Handles -> Seq(Said)] /\ heard \in [Handles -> Seq(Said)]
<1>1. State \in States /\ made \in 0..MaxHandles
  BY DEF ChannelInv, ChannelOK, ConnPart
<1> QED BY <1>1 DEF State, States

\* What the invariant says of one handle.
LEMMA LiveFacts ==
    ASSUME ChannelInv, NEW h \in Handles
    PROVE  /\ actor[h] \in Actors /\ spoken[h] \in Seq(Said) /\ heard[h] \in Seq(Said)
           /\ wire[h] \in Seq(Frame) /\ asked[h] \in Seq(Frame)
           /\ ActorOK(actor[h], spoken[h], heard[h])
           /\ Live(actor[h]) <=> conn.open /\ conn.handle = h
           /\ Live(actor[h]) <=> actor[h].forwarder = "live"
           /\ Running(actor[h]) => Live(actor[h])
           /\ RequestsPart(State)
<1>1. ActorOK(actor[h], spoken[h], heard[h]) /\ RequestsPart(State)
  BY DEF ChannelInv, ChannelOK, EventsPart, State
<1>2. Live(actor[h]) <=> conn.open /\ conn.handle = h
  BY DEF ChannelInv, ChannelOK, ConnPart, State
<1>3. Live(actor[h]) <=> actor[h].forwarder = "live"
  BY <1>1 DEF ActorOK
<1>4. Running(actor[h]) => Live(actor[h])
  BY DEF Running, Live
<1> QED BY <1>1, <1>2, <1>3, <1>4, InvTypes

\* A step of one actor keeps the invariant when it keeps that actor's part.
LEMMA TaskMoves ==
    ASSUME ChannelInv, NEW h \in Handles, NEW b \in Actors, NEW sp \in Seq(Said),
           NEW w \in Seq(Frame), actor' = [actor EXCEPT ![h] = b],
           spoken' = [spoken EXCEPT ![h] = sp], wire' = [wire EXCEPT ![h] = w],
           UNCHANGED actorElse,
           Live(b) <=> Live(actor[h]), b.next = actor[h].next,
           b.forwarder = actor[h].forwarder, actor[h].forwarder # "gone",
           ~Live(actor[h]) => w = wire[h],
           ActorOK(b, sp, heard[h]),
           (conn.open /\ conn.handle = h) => RequestsPart(State')
    PROVE  ChannelInv'
<1> DEFINE s == State
           t == State'
<1>1. /\ conn' = conn /\ held' = held /\ records' = records /\ asked' = asked /\ heard' = heard
      /\ made' = made /\ ids' = ids
  BY DEF actorElse, mainVars
<1>2. t \in States
  <2>1. /\ actor' \in [Handles -> Actors] /\ spoken' \in [Handles -> Seq(Said)]
        /\ wire' \in [Handles -> Seq(Frame)]
    BY InvTypes
  <2> QED BY <1>1, <2>1, InvTypes DEF State, States
<1>3. /\ t.conn = s.conn /\ t.held = s.held /\ t.records = s.records /\ t.asked = s.asked
      /\ t.heard = s.heard
  BY <1>1 DEF State
<1>4. /\ t.actor[h] = b /\ t.spoken[h] = sp /\ t.wire[h] = w /\ t.heard[h] = heard[h]
      /\ s.actor[h] = actor[h] /\ s.wire[h] = wire[h] /\ s.spoken[h] = spoken[h] /\ s.conn = conn
      /\ \A g \in Handles \ {h} : /\ t.actor[g] = s.actor[g] /\ t.spoken[g] = s.spoken[g]
                                  /\ t.wire[g] = s.wire[g]
  BY <1>1, InvTypes DEF State
<1>5. ChannelOK(s, made)
  BY DEF ChannelInv
<1> HIDE DEF s, t
<1>6. (s.conn.open /\ s.conn.handle = h) => RequestsPart(t)
  BY <1>4 DEF t
<1>7. ChannelOK(t, made)
  BY <1>2, <1>3, <1>4, <1>5, <1>6, TaskLift, SMTT(40)
<1> QED BY <1>1, <1>7 DEF ChannelInv, t

\* ... of events only.
LEMMA EventSteps ==
    ASSUME ChannelInv, NEW h \in Handles, NEW b \in Actors,
           actor' = [actor EXCEPT ![h] = b],
           UNCHANGED <<actorElse, wire, spoken>>,
           Live(b) <=> Live(actor[h]), b.next = actor[h].next, b.out = actor[h].out,
           b.forwarder = actor[h].forwarder, actor[h].forwarder # "gone",
           ActorOK(b, spoken[h], heard[h]),
           \/ b.phase = "ended" /\ b.cmds \in {actor[h].cmds, <<>>}
           \/ actor[h].phase # "ended" /\ b.cmds = actor[h].cmds
    PROVE  ChannelInv'
<1>1. /\ spoken' = [spoken EXCEPT ![h] = spoken[h]] /\ wire' = [wire EXCEPT ![h] = wire[h]]
      /\ spoken[h] \in Seq(Said) /\ wire[h] \in Seq(Frame)
  BY InvTypes
<1>2. conn' = conn /\ held' = held /\ asked' = asked /\ wire' = wire /\ spoken' = spoken
  BY DEF actorElse, mainVars
<1>3. actor'[h] = b
  BY InvTypes
<1>4. (conn.open /\ conn.handle = h) => RequestsPart(State')
  <2> SUFFICES ASSUME conn.open, conn.handle = h PROVE RequestsPart(State')
    OBVIOUS
  <2> DEFINE s == State
             t == State'
  <2>1. RequestsPart(s)
    BY LiveFacts
  <2>2. /\ t.conn = s.conn /\ t.held = s.held /\ t.asked = s.asked /\ t.wire[h] = s.wire[h]
        /\ t.spoken[h] = s.spoken[h] /\ s.conn.open /\ s.conn.handle = h
        /\ t.actor[h] = b /\ s.actor[h] = actor[h]
    BY <1>2, <1>3 DEF State
  <2> HIDE DEF s, t
  <2>3. RequestsPart(t)
    BY <2>1, <2>2, EventMoves
  <2> QED BY <2>3 DEF t
<1> QED BY <1>1, <1>4, TaskMoves

\* ... of what the session says.
LEMMA SpeechSteps ==
    ASSUME ChannelInv, NEW h \in Handles, NEW b \in Actors, NEW e \in Said,
           actor' = [actor EXCEPT ![h] = b], spoken' = [spoken EXCEPT ![h] = Append(@, e)],
           UNCHANGED <<actorElse, wire>>, Running(actor[h]), NotClosed(actor[h]),
           b.next = actor[h].next, b.out = actor[h].out, b.cmds = actor[h].cmds,
           b.ferry = actor[h].ferry, b.evt = actor[h].evt, b.hand = actor[h].hand,
           b.said = Append(actor[h].said, e), b.turn = actor[h].turn,
           b.forwarder = actor[h].forwarder, b.phase \in {"in", "ready"},
           spoken[h] = <<>> => e.what = "LoggedIn",
           e.what = "Reply" => \E i \in 1..Len(wire[h]) : e.req = wire[h][i]
    PROVE  ChannelInv'
<1>1. /\ spoken' = [spoken EXCEPT ![h] = Append(spoken[h], e)] /\ wire' = [wire EXCEPT ![h] = wire[h]]
      /\ Append(spoken[h], e) \in Seq(Said) /\ wire[h] \in Seq(Frame)
  BY InvTypes
<1>2. conn' = conn /\ held' = held /\ asked' = asked /\ wire' = wire
  BY DEF actorElse, mainVars
<1>3. actor'[h] = b /\ spoken'[h] = Append(spoken[h], e)
  BY InvTypes
<1>4. ActorOK(b, Append(spoken[h], e), heard[h])
  BY LiveFacts, SaysOK
<1>5. Live(actor[h]) /\ Live(b) /\ actor[h].forwarder = "live" /\ conn.open /\ conn.handle = h
  BY LiveFacts DEF Live
<1>6. RequestsPart(State')
  <2> DEFINE s == State
             t == State'
  <2>1. RequestsPart(s) /\ s \in States
    BY LiveFacts, InvTypes
  <2>2. /\ t.conn = s.conn /\ t.held = s.held /\ t.asked = s.asked /\ t.wire[h] = s.wire[h]
        /\ t.spoken[h] = Append(s.spoken[h], e) /\ s.conn.open /\ s.conn.handle = h
        /\ t.actor[h] = b /\ s.actor[h] = actor[h] /\ s.wire[h] = wire[h]
    BY <1>2, <1>3, <1>5 DEF State
  <2>3. s.actor[h].phase # "ended"
    BY <2>2 DEF Running
  <2> HIDE DEF s, t
  <2>4. RequestsPart(t)
    BY <2>1, <2>2, <2>3, SpeechMoves, SMTT(40)
  <2> QED BY <2>4 DEF t
<1> QED BY <1>1, <1>4, <1>5, <1>6, TaskMoves

\* What the steps of an actor make of it is an actor.
LEMMA WithPhase == ASSUME NEW a \in Actors, NEW p \in Phases PROVE [a EXCEPT !.phase = p] \in Actors
  BY DEF Actors

\* An actor whose session has said something.
LEMMA SaysTypes ==
    ASSUME NEW a \in Actors, NEW e \in Uttered, NEW side \in Sides
    PROVE  Says(a, e, side) \in Actors
<1> DEFINE x == Append(a.said, e)
           w == a.wants \cup {side}
<1>1. x \in Seq(Uttered) /\ w \in SUBSET Sides
  BY DEF Actors
<1> HIDE DEF x, w
<1>2. [a EXCEPT !.said = x, !.wants = w] \in Actors
  BY <1>1 DEF Actors
<1> QED BY <1>2 DEF Says, x, w

\* An actor that leaves its loop.
LEMMA EndingTypes == ASSUME NEW a \in Actors PROVE Ending(a) \in Actors
<1> DEFINE f == [s \in Sides |-> NoEvent]
<1>1. f \in [Sides -> Said \cup {NoEvent}] /\ <<>> \in Seq(Uttered) /\ "ending" \in Phases
  BY DEF Phases
<1> HIDE DEF f
<1>2. [a EXCEPT !.phase = "ending", !.said = <<>>, !.wants = {}, !.turn = "none", !.hand = f] \in Actors
  BY <1>1 DEF Actors
<1> QED BY <1>2 DEF Ending, f

\* An actor one side of which took an event.
LEMMA PopTypes ==
    ASSUME NEW a \in Actors, NEW side \in Sides, a.said # <<>>, Head(a.said) \in Said
    PROVE  [a EXCEPT !.turn = side, !.said = Tail(a.said), !.hand[side] = Head(a.said)] \in Actors
<1> DEFINE q == Tail(a.said)
           x == Head(a.said)
           g == [a.hand EXCEPT ![side] = x]
<1>1. q \in Seq(Uttered) /\ x \in Said /\ a.hand \in [Sides -> Said \cup {NoEvent}]
  BY DEF Actors
<1> HIDE DEF q, x
<1>2. g \in [Sides -> Said \cup {NoEvent}]
  BY <1>1
<1> HIDE DEF g
<1>3. [a EXCEPT !.turn = side, !.said = q, !.hand = g] \in Actors
  BY <1>1, <1>2 DEF Actors
<1> QED BY <1>3 DEF q, x, g

\* An actor one side of which handed an event on.
LEMMA HandOnTypes ==
    ASSUME NEW a \in Actors, NEW side \in Sides, a.hand[side] \in Event
    PROVE  [a EXCEPT !.evt = Append(@, a.hand[side]), !.hand[side] = NoEvent] \in Actors
<1> DEFINE q == Append(a.evt, a.hand[side])
           g == [a.hand EXCEPT ![side] = NoEvent]
<1>1. q \in Seq(Event) /\ a.hand \in [Sides -> Said \cup {NoEvent}]
  BY DEF Actors
<1> HIDE DEF q
<1>2. g \in [Sides -> Said \cup {NoEvent}]
  BY <1>1
<1> HIDE DEF g
<1>3. [a EXCEPT !.evt = q, !.hand = g] \in Actors
  BY <1>1, <1>2 DEF Actors
<1> QED BY <1>3 DEF q, g

\* An actor that sent its last event.
LEMMA ShutdownTypes ==
    ASSUME NEW a \in Actors
    PROVE  [a EXCEPT !.phase = "ended", !.cmds = <<>>, !.evt = Append(@, ShutdownEvent)] \in Actors
<1> DEFINE q == Append(a.evt, ShutdownEvent)
<1>1. q \in Seq(Event) /\ "ended" \in Phases /\ <<>> \in Seq(Frame)
  BY EventKinds DEF Actors, Phases
<1> HIDE DEF q
<1>2. [a EXCEPT !.phase = "ended", !.cmds = <<>>, !.evt = q] \in Actors
  BY <1>1 DEF Actors
<1> QED BY <1>2 DEF q

\* An actor one event of which is on the ferry.
LEMMA PumpTypes ==
    ASSUME NEW a \in Actors, a.evt # <<>>
    PROVE  [a EXCEPT !.ferry = Append(@, Head(a.evt)), !.evt = Tail(@)] \in Actors
<1> DEFINE q == Append(a.ferry, Head(a.evt))
           r == Tail(a.evt)
<1>1. q \in Seq(Event) /\ r \in Seq(Event)
  BY DEF Actors
<1> HIDE DEF q, r
<1>2. [a EXCEPT !.ferry = q, !.evt = r] \in Actors
  BY <1>1 DEF Actors
<1> QED BY <1>2 DEF q, r

\* An actor that took a command.
LEMMA TakeTypes ==
    ASSUME NEW a \in Actors, a.cmds # <<>>
    PROVE  [a EXCEPT !.out = Append(@, Head(a.cmds)), !.cmds = Tail(@),
                     !.wants = @ \cup {"deliver"}] \in Actors
<1> DEFINE q == Append(a.out, Head(a.cmds))
           r == Tail(a.cmds)
           w == a.wants \cup {"deliver"}
<1>1. q \in Seq(Frame) /\ r \in Seq(Frame) /\ w \in SUBSET Sides
  BY DEF Actors, Sides
<1> HIDE DEF q, r, w
<1>2. [a EXCEPT !.out = q, !.cmds = r, !.wants = w] \in Actors
  BY <1>1 DEF Actors
<1> QED BY <1>2 DEF q, r, w

\* An actor that wrote what was queued.
LEMMA WrittenTypes == ASSUME NEW a \in Actors PROVE [a EXCEPT !.out = <<>>] \in Actors
<1>1. <<>> \in Seq(Frame)
  OBVIOUS
<1> QED BY <1>1 DEF Actors

\* The login is answered.
LEMMA LogInStep ==
    ASSUME ChannelInv, NEW h \in Handles, LogIn(h)
    PROVE  ChannelInv'
<1> DEFINE a == actor[h]
           e == [what |-> "LoggedIn"]
           b == [Says(a, e, "read") EXCEPT !.phase = "in"]
<1>1. a \in Actors /\ e \in Said /\ e.what = "LoggedIn" /\ Running(a) /\ NotClosed(a) /\ e \in Uttered
  BY LiveFacts DEF LogIn, Reads, Talks, Runs, Running, NotClosed, Said, Uttered
<1>2. b \in Actors
  <2>1. Says(a, e, "read") \in Actors /\ "in" \in Phases
    BY <1>1, SaysTypes DEF Sides, Phases
  <2> QED BY <2>1, WithPhase
<1>3. /\ b.next = a.next /\ b.out = a.out /\ b.cmds = a.cmds /\ b.ferry = a.ferry
      /\ b.evt = a.evt /\ b.hand = a.hand /\ b.said = Append(a.said, e) /\ b.turn = a.turn
      /\ b.forwarder = a.forwarder /\ b.phase \in {"in", "ready"}
  BY <1>1 DEF Says, Actors
<1>4. /\ actor' = [actor EXCEPT ![h] = b] /\ spoken' = [spoken EXCEPT ![h] = Append(@, e)]
      /\ UNCHANGED <<actorElse, wire>>
  BY DEF LogIn
<1> HIDE DEF b, e
<1> QED BY <1>1, <1>2, <1>3, <1>4, SpeechSteps

\* The session settles after the login.
LEMMA SettleStep ==
    ASSUME ChannelInv, NEW h \in Handles, NEW side \in Sides, Settle(h, side)
    PROVE  ChannelInv'
<1> DEFINE a == actor[h]
           e == [what |-> "Ready"]
           b == [Says(a, e, side) EXCEPT !.phase = "ready"]
<1>1. a \in Actors /\ e \in Said /\ e.what = "Ready" /\ Running(a) /\ NotClosed(a) /\ e \in Uttered
  BY LiveFacts DEF Settle, Talks, Runs, Running, NotClosed, Said, Uttered
<1>2. b \in Actors
  <2>1. Says(a, e, side) \in Actors /\ "ready" \in Phases
    BY <1>1, SaysTypes DEF Sides, Phases
  <2> QED BY <2>1, WithPhase
<1>3. /\ b.next = a.next /\ b.out = a.out /\ b.cmds = a.cmds /\ b.ferry = a.ferry
      /\ b.evt = a.evt /\ b.hand = a.hand /\ b.said = Append(a.said, e) /\ b.turn = a.turn
      /\ b.forwarder = a.forwarder /\ b.phase \in {"in", "ready"}
  BY <1>1 DEF Says, Actors
<1>4. /\ actor' = [actor EXCEPT ![h] = b] /\ spoken' = [spoken EXCEPT ![h] = Append(@, e)]
      /\ UNCHANGED <<actorElse, wire>>
  BY DEF Settle
<1>5. spoken[h] # <<>>
  BY LiveFacts DEF Settle, ActorOK
<1> HIDE DEF b, e
<1> QED BY <1>1, <1>2, <1>3, <1>4, <1>5, SpeechSteps

\* The server answers a request it was sent.
LEMMA AnswerStep ==
    ASSUME ChannelInv, NEW h \in Handles, NEW i \in 1..Len(wire[h]), NEW ok \in BOOLEAN,
           Answer(h, i, ok)
    PROVE  ChannelInv'
<1> DEFINE a == actor[h]
           e == [what |-> "Reply", req |-> wire[h][i], ok |-> ok]
           b == Says(a, e, "read")
<1>1. a \in Actors /\ Running(a) /\ NotClosed(a) /\ wire[h] \in Seq(Frame)
  BY LiveFacts DEF Answer, Feed, Reads, Talks, Runs, Running, NotClosed
<1>2. wire[h][i] \in Frame
  BY <1>1
<1>3. e \in Said /\ e.what = "Reply" /\ e.req = wire[h][i] /\ e \in Uttered
  BY <1>2 DEF Said, Uttered
<1> HIDE DEF e
<1>4. b \in Actors
  BY <1>1, <1>3, SaysTypes DEF Sides
<1>5. /\ b.next = a.next /\ b.out = a.out /\ b.cmds = a.cmds /\ b.ferry = a.ferry
      /\ b.evt = a.evt /\ b.hand = a.hand /\ b.said = Append(a.said, e) /\ b.turn = a.turn
      /\ b.forwarder = a.forwarder /\ b.phase = a.phase
  BY <1>1 DEF Says, Actors
<1>6. /\ actor' = [actor EXCEPT ![h] = b] /\ spoken' = [spoken EXCEPT ![h] = Append(@, e)]
      /\ UNCHANGED <<actorElse, wire>>
  BY DEF Answer, Feed, e
<1>7. a.phase \in {"in", "ready"} /\ spoken[h] # <<>>
  <2>1. wire[h] # <<>>
    BY <1>1
  <2>2. Live(a) /\ conn.open /\ conn.handle = h
    BY <1>1, LiveFacts
  <2>3. conn.fetched /\ HasSaid(spoken[h], "Ready")
    BY <2>1, <2>2, LiveFacts DEF RequestsPart, State
  <2>4. spoken[h] \in Seq(Said)
    BY LiveFacts
  <2>5. spoken[h] # <<>>
    BY <2>3, <2>4 DEF HasSaid
  <2>6. a.phase # "login"
    BY <2>5, LiveFacts DEF ActorOK
  <2> QED BY <1>1, <2>5, <2>6 DEF Running
<1> HIDE DEF b
<1> QED BY <1>1, <1>3, <1>4, <1>5, <1>6, <1>7, SpeechSteps

\* The session closes.
LEMMA SessionClosesStep ==
    ASSUME ChannelInv, NEW h \in Handles, NEW side \in Sides, SessionCloses(h, side)
    PROVE  ChannelInv'
<1> DEFINE a == actor[h]
           b == Says(a, ClosedEvent, side)
<1>1. a \in Actors /\ Running(a) /\ NotClosed(a)
  BY LiveFacts DEF SessionCloses, Talks, Runs, Running, NotClosed
<1>2. b \in Actors
  BY <1>1, EventKinds, SaysTypes
<1>3. /\ b.next = a.next /\ b.out = a.out /\ b.cmds = a.cmds /\ b.ferry = a.ferry
      /\ b.evt = a.evt /\ b.hand = a.hand /\ b.said = Append(a.said, ClosedEvent) /\ b.turn = a.turn
      /\ b.forwarder = a.forwarder /\ b.phase = a.phase
  BY <1>1 DEF Says, Actors
<1>4. actor' = [actor EXCEPT ![h] = b] /\ UNCHANGED <<actorElse, wire, spoken>>
  BY DEF SessionCloses, ClosedEvent
<1> HIDE DEF b
<1>5. ActorOK(b, spoken[h], heard[h])
  BY <1>1, <1>2, <1>3, LiveFacts, ClosesOK
<1>6. Live(a) /\ Live(b) /\ a.forwarder = "live" /\ a.phase # "ended"
  BY <1>1, <1>3, LiveFacts DEF Live, Running
<1> QED BY <1>2, <1>3, <1>4, <1>5, <1>6, EventSteps

\* An actor that leaves its loop drops what its session had to say.
LEMMA EndingStep ==
    ASSUME ChannelInv, NEW h \in Handles, Running(actor[h]),
           actor' = [actor EXCEPT ![h] = Ending(actor[h])],
           UNCHANGED <<actorElse, wire, spoken>>
    PROVE  ChannelInv'
<1> DEFINE a == actor[h]
           b == Ending(a)
<1>1. a \in Actors /\ Running(a)
  BY LiveFacts
<1>2. b \in Actors
  BY <1>1, EndingTypes
<1>3. /\ b.next = a.next /\ b.out = a.out /\ b.cmds = a.cmds /\ b.ferry = a.ferry
      /\ b.evt = a.evt /\ b.said = <<>> /\ b.forwarder = a.forwarder /\ b.phase = "ending"
      /\ \A side \in Sides : b.hand[side] = NoEvent
  BY <1>1 DEF Ending, Actors
<1> HIDE DEF b
<1>4. Live(a) /\ Live(b) /\ a.forwarder = "live" /\ a.phase # "ended"
  BY <1>1, <1>3, LiveFacts DEF Live, Running
<1>5. Len(b.cmds) <= CommandCapacity
  BY <1>3, LiveFacts DEF ActorOK
<1>6. ActorOK(b, spoken[h], heard[h])
  BY <1>1, <1>2, <1>3, <1>4, <1>5, LiveFacts, EndingOK, SMTT(40)
<1> QED BY <1>2, <1>3, <1>4, <1>6, EventSteps DEF b

\* poll_event on one side.
LEMMA PopStep ==
    ASSUME ChannelInv, NEW h \in Handles, NEW side \in Sides, Pop(h, side)
    PROVE  ChannelInv'
<1> DEFINE a == actor[h]
           b == [a EXCEPT !.turn = side, !.said = Tail(a.said), !.hand[side] = Head(a.said)]
<1>1. /\ a \in Actors /\ Running(a) /\ a.turn \in {"none", side}
      /\ a.hand[side] = NoEvent /\ a.said # <<>> /\ UNCHANGED <<actorElse, wire, spoken>>
      /\ actor' = [actor EXCEPT ![h] = IF Head(a.said).what = "Closed" THEN Ending(a) ELSE b]
  BY LiveFacts DEF Pop, Runs, Running, TakesTurn
<1>2. CASE Head(a.said).what = "Closed"
  BY <1>1, <1>2, EndingStep
<1>3. CASE Head(a.said).what # "Closed"
  <2>1. a.said \in Seq(Uttered)
    BY <1>1 DEF Actors
  <2>2. Head(a.said) \in Said
    BY <1>1, <1>3, <2>1, EventKinds DEF Uttered
  <2>3. b \in Actors
    BY <1>1, <2>2, PopTypes
  <2>4. /\ b.next = a.next /\ b.out = a.out /\ b.cmds = a.cmds /\ b.ferry = a.ferry
        /\ b.evt = a.evt /\ b.said = Tail(a.said) /\ b.forwarder = a.forwarder
        /\ b.phase = a.phase /\ b.turn = side
        /\ b.hand = [a.hand EXCEPT ![side] = Head(a.said)]
    BY <1>1 DEF Actors
  <2>5. actor' = [actor EXCEPT ![h] = b]
    BY <1>1, <1>3
  <2> HIDE DEF b
  <2>6. ActorOK(b, spoken[h], heard[h])
    BY <1>1, <2>2, <2>3, <2>4, LiveFacts, PopOK
  <2>7. Live(a) /\ Live(b) /\ a.forwarder = "live" /\ a.phase # "ended"
    BY <1>1, <2>4, LiveFacts DEF Live, Running
  <2> QED BY <1>1, <2>3, <2>4, <2>5, <2>6, <2>7, EventSteps
<1> QED BY <1>2, <1>3

\* The send of an event on one side.
LEMMA HandOnStep ==
    ASSUME ChannelInv, NEW h \in Handles, NEW side \in Sides, HandOn(h, side)
    PROVE  ChannelInv'
<1> DEFINE a == actor[h]
           b == [a EXCEPT !.evt = Append(@, a.hand[side]), !.hand[side] = NoEvent]
<1>1. /\ a \in Actors /\ Running(a) /\ a.hand[side] # NoEvent /\ Len(a.evt) < EventCapacity
      /\ UNCHANGED <<actorElse, wire, spoken>>
  BY LiveFacts DEF HandOn, Runs, Running
<1>2. actor' = [actor EXCEPT ![h] = b]
  BY InvTypes DEF HandOn
<1>3. a.hand[side] \in Event
  BY <1>1, EventKinds DEF Actors
<1>4. b \in Actors
  BY <1>1, <1>3, HandOnTypes
<1>5. /\ b.next = a.next /\ b.out = a.out /\ b.cmds = a.cmds /\ b.ferry = a.ferry
      /\ b.evt = Append(a.evt, a.hand[side]) /\ b.said = a.said /\ b.forwarder = a.forwarder
      /\ b.phase = a.phase /\ b.turn = a.turn
      /\ b.hand = [a.hand EXCEPT ![side] = NoEvent]
  BY <1>1 DEF Actors
<1> HIDE DEF b
<1>6. ActorOK(b, spoken[h], heard[h])
  BY <1>1, <1>4, <1>5, LiveFacts, HandOnOK
<1>7. Live(a) /\ Live(b) /\ a.forwarder = "live" /\ a.phase # "ended"
  BY <1>1, <1>5, LiveFacts DEF Live, Running
<1> QED BY <1>1, <1>2, <1>4, <1>5, <1>6, <1>7, EventSteps

\* The end of a side's turn.
LEMMA TurnEndsStep ==
    ASSUME ChannelInv, NEW h \in Handles, NEW side \in Sides, TurnEnds(h, side)
    PROVE  ChannelInv'
<1> DEFINE a == actor[h]
           b == [a EXCEPT !.turn = "none", !.wants = @ \ {side}]
<1>1. /\ a \in Actors /\ Running(a) /\ a.turn \in {"none", side} /\ a.hand[side] = NoEvent
      /\ UNCHANGED <<actorElse, wire, spoken>>
  BY LiveFacts DEF TurnEnds, Runs, Running, TakesTurn
<1>2. actor' = [actor EXCEPT ![h] = b]
  BY InvTypes DEF TurnEnds
<1>4. b \in Actors
  BY <1>1 DEF Actors, Sides
<1>5. /\ b.next = a.next /\ b.out = a.out /\ b.cmds = a.cmds /\ b.ferry = a.ferry
      /\ b.evt = a.evt /\ b.said = a.said /\ b.forwarder = a.forwarder
      /\ b.phase = a.phase /\ b.hand = a.hand
  BY <1>1 DEF Actors
<1> HIDE DEF b
<1>6. ActorOK(b, spoken[h], heard[h])
  BY <1>1, <1>4, <1>5, LiveFacts, TurnEndsOK
<1>7. Live(a) /\ Live(b) /\ a.forwarder = "live" /\ a.phase # "ended"
  BY <1>1, <1>5, LiveFacts DEF Live, Running
<1> QED BY <1>1, <1>2, <1>4, <1>5, <1>6, <1>7, EventSteps

\* The actor sends its last event.
LEMMA SendShutdownStep ==
    ASSUME ChannelInv, NEW h \in Handles, SendShutdown(h)
    PROVE  ChannelInv'
<1> DEFINE a == actor[h]
           b == [a EXCEPT !.phase = "ended", !.cmds = <<>>, !.evt = Append(@, ShutdownEvent)]
<1>1. /\ a \in Actors /\ a.phase = "ending" /\ Len(a.evt) < EventCapacity
      /\ UNCHANGED <<actorElse, wire, spoken>>
  BY LiveFacts DEF SendShutdown
<1>2. actor' = [actor EXCEPT ![h] = b]
  BY InvTypes DEF SendShutdown, ShutdownEvent
<1>3. ShutdownEvent \in Event
  BY EventKinds
<1>4. b \in Actors
  BY <1>1, ShutdownTypes
<1>5. /\ b.next = a.next /\ b.out = a.out /\ b.cmds = <<>> /\ b.ferry = a.ferry
      /\ b.evt = Append(a.evt, ShutdownEvent) /\ b.said = a.said /\ b.forwarder = a.forwarder
      /\ b.phase = "ended" /\ b.turn = a.turn /\ b.hand = a.hand
  BY <1>1 DEF Actors
<1> HIDE DEF b
<1>6. ActorOK(b, spoken[h], heard[h])
  BY <1>1, <1>4, <1>5, LiveFacts, ShutdownOK
<1>7. Live(a) /\ Live(b)
  BY <1>1, <1>5 DEF Live
<1>8. a.forwarder = "live"
  BY <1>7, LiveFacts
<1> QED BY <1>1, <1>2, <1>4, <1>5, <1>6, <1>7, <1>8, EventSteps

\* The forwarder's step.
LEMMA PumpStep ==
    ASSUME ChannelInv, NEW h \in Handles, Pump(h)
    PROVE  ChannelInv'
<1> DEFINE a == actor[h]
           b == [a EXCEPT !.ferry = Append(@, Head(a.evt)), !.evt = Tail(@)]
<1>1. /\ a \in Actors /\ a.evt # <<>> /\ Len(a.ferry) < FerryCapacity /\ a.forwarder # "gone"
      /\ UNCHANGED <<actorElse, wire, spoken>>
  BY LiveFacts DEF Pump
<1>2. actor' = [actor EXCEPT ![h] = b]
  BY InvTypes DEF Pump
<1>3. a.evt \in Seq(Event) /\ Head(a.evt) \in Event /\ Tail(a.evt) \in Seq(Event)
  BY <1>1 DEF Actors
<1>4. b \in Actors
  BY <1>1, PumpTypes
<1>5. /\ b.next = a.next /\ b.out = a.out /\ b.cmds = a.cmds /\ b.ferry = Append(a.ferry, Head(a.evt))
      /\ b.evt = Tail(a.evt) /\ b.said = a.said /\ b.forwarder = a.forwarder
      /\ b.phase = a.phase /\ b.turn = a.turn /\ b.hand = a.hand
  BY <1>1 DEF Actors
<1> HIDE DEF b
<1>6. ActorOK(b, spoken[h], heard[h])
  BY <1>1, <1>4, <1>5, LiveFacts, PumpOK
<1>7. Live(b) <=> Live(a)
  BY <1>5 DEF Live
<1> QED BY <1>1, <1>2, <1>4, <1>5, <1>6, <1>7, EventSteps

\* The actor takes a frame from the command channel.
LEMMA TakeCommandStep ==
    ASSUME ChannelInv, NEW h \in Handles, TakeCommand(h)
    PROVE  ChannelInv'
<1> DEFINE a == actor[h]
           b == [a EXCEPT !.out = Append(@, Head(a.cmds)), !.cmds = Tail(@),
                          !.wants = @ \cup {"deliver"}]
<1>1. /\ a \in Actors /\ Running(a) /\ a.cmds # <<>> /\ a.out = <<>>
      /\ UNCHANGED <<actorElse, wire, spoken>>
  BY LiveFacts DEF TakeCommand, Runs, Running
<1>2. actor' = [actor EXCEPT ![h] = b]
  BY InvTypes DEF TakeCommand
<1>3. a.cmds \in Seq(Frame) /\ a.out \in Seq(Frame) /\ Head(a.cmds) \in Frame /\ Tail(a.cmds) \in Seq(Frame)
  BY <1>1 DEF Actors
<1>4. b \in Actors
  BY <1>1, TakeTypes
<1>5. /\ b.next = a.next /\ b.out = Append(a.out, Head(a.cmds)) /\ b.cmds = Tail(a.cmds)
      /\ SameTalk(a, b)
  BY <1>1 DEF Actors, SameTalk
<1> HIDE DEF b
<1>6. ActorOK(b, spoken[h], heard[h])
  <2>1. Len(b.cmds) = Len(a.cmds) - 1 /\ Len(a.cmds) \in Nat /\ Len(a.cmds) <= CommandCapacity
    <3>1. Len(Tail(a.cmds)) = Len(a.cmds) - 1 /\ Len(a.cmds) \in Nat
      BY <1>1, <1>3
    <3>2. Len(a.cmds) <= CommandCapacity
      BY LiveFacts DEF ActorOK
    <3> QED BY <1>5, <3>1, <3>2, Zenon
  <2>2. Len(b.cmds) <= CommandCapacity
    BY <2>1, CapacitiesAssumption
  <2> QED BY <1>5, <2>2, LiveFacts, QuietOK
<1>7. Live(a) /\ Live(b) /\ a.forwarder = "live" /\ a.phase # "ended" /\ conn.open /\ conn.handle = h
  BY <1>1, <1>5, LiveFacts DEF Live, Running, SameTalk
<1>8. RequestsPart(State')
  <2>1. /\ conn' = conn /\ held' = held /\ asked' = asked /\ wire' = wire /\ spoken' = spoken
        /\ actor'[h] = b
    BY <1>1, <1>2, InvTypes DEF actorElse, mainVars
  <2>2. held \in Seq(Frame)
    BY InvTypes
  <2>3. b.out \o (b.cmds \o held) = a.out \o (a.cmds \o held)
    <3>1. Over(a.out, a.cmds, held)
      BY <1>1, <1>3, <2>2, Shift
    <3> QED BY <1>5, <3>1, Zenon DEF Over
  <2>4. RequestsPart(State)
    BY LiveFacts
  <2>5. b.phase = a.phase
    BY <1>5 DEF SameTalk
  <2>6. conn.fetched
    BY <1>1, <1>7, <2>4, SMTT(40) DEF RequestsPart, State
  <2>7. asked[h] = wire[h] \o (b.out \o (b.cmds \o held))
    BY <1>7, <2>3, <2>4 DEF RequestsPart, State
  <2>8. /\ HasSaid(spoken[h], "Ready")
        /\ \A n \in 1..Len(spoken[h]) : spoken[h][n].what = "Reply" =>
                    \E i \in 1..Len(asked[h]) : asked[h][i] = spoken[h][n].req
    BY <1>7, <2>4, <2>6 DEF RequestsPart, State
  <2> QED BY <1>7, <2>1, <2>6, <2>7, <2>8, ZenonT(40) DEF RequestsPart, State
<1>9. /\ spoken' = [spoken EXCEPT ![h] = spoken[h]] /\ wire' = [wire EXCEPT ![h] = wire[h]]
      /\ spoken[h] \in Seq(Said) /\ wire[h] \in Seq(Frame) /\ b.forwarder = a.forwarder
      /\ UNCHANGED actorElse
  BY <1>1, <1>5, InvTypes DEF SameTalk
<1> QED BY <1>2, <1>4, <1>5, <1>6, <1>7, <1>8, <1>9, TaskMoves

\* The actor writes what is queued.
LEMMA WriteStep ==
    ASSUME ChannelInv, NEW h \in Handles, Write(h)
    PROVE  ChannelInv'
<1> DEFINE a == actor[h]
           b == [a EXCEPT !.out = <<>>]
           w == wire[h] \o a.out
<1>1. /\ a \in Actors /\ Running(a) /\ a.out # <<>> /\ wire[h] \in Seq(Frame)
      /\ UNCHANGED <<actorElse, spoken>>
  BY LiveFacts DEF Write, Runs, Running
<1>2. actor' = [actor EXCEPT ![h] = b] /\ wire' = [wire EXCEPT ![h] = w]
  BY InvTypes DEF Write
<1>3. a.cmds \in Seq(Frame) /\ a.out \in Seq(Frame) /\ w \in Seq(Frame)
  BY <1>1 DEF Actors
<1>4. b \in Actors
  BY <1>1, WrittenTypes
<1>5. b.next = a.next /\ b.out = <<>> /\ b.cmds = a.cmds /\ SameTalk(a, b)
  BY <1>1 DEF Actors, SameTalk
<1> HIDE DEF b, w
<1>6. ActorOK(b, spoken[h], heard[h])
  <2>1. Len(b.cmds) <= CommandCapacity
    BY <1>5, LiveFacts DEF ActorOK
  <2> QED BY <1>5, <2>1, LiveFacts, QuietOK
<1>7. Live(a) /\ Live(b) /\ a.forwarder = "live" /\ a.phase # "ended" /\ conn.open /\ conn.handle = h
  BY <1>1, <1>5, LiveFacts DEF Live, Running, SameTalk
<1>8. RequestsPart(State')
  <2>1. /\ conn' = conn /\ held' = held /\ asked' = asked /\ wire'[h] = w /\ spoken' = spoken
        /\ actor'[h] = b
    BY <1>1, <1>2, InvTypes DEF actorElse, mainVars
  <2>2. held \in Seq(Frame)
    BY InvTypes
  <2>3. w \o (b.out \o (b.cmds \o held)) = wire[h] \o (a.out \o (a.cmds \o held))
    <3> DEFINE c == a.cmds \o held
    <3>1. c \in Seq(Frame)
      BY <1>3, <2>2, ConcatProperties
    <3> HIDE DEF c
    <3>2. <<>> \o c = c
      BY <3>1
    <3>3. (wire[h] \o a.out) \o c = wire[h] \o (a.out \o c)
      <4>1. Assoc(wire[h], a.out, c)
        BY <1>1, <1>3, <3>1, AssocAll
      <4> QED BY <4>1, Zenon DEF Assoc
    <3> QED BY <1>5, <3>2, <3>3 DEF c, w
  <2>4. RequestsPart(State)
    BY LiveFacts
  <2>5. b.phase = a.phase
    BY <1>5 DEF SameTalk
  <2>6. conn.fetched
    BY <1>1, <1>7, <2>4, SMTT(40) DEF RequestsPart, State
  <2>7. asked[h] = w \o (b.out \o (b.cmds \o held))
    BY <1>7, <2>3, <2>4 DEF RequestsPart, State
  <2>8. /\ HasSaid(spoken[h], "Ready")
        /\ \A n \in 1..Len(spoken[h]) : spoken[h][n].what = "Reply" =>
                    \E i \in 1..Len(asked[h]) : asked[h][i] = spoken[h][n].req
    BY <1>7, <2>4, <2>6 DEF RequestsPart, State
  <2> QED BY <1>7, <2>1, <2>6, <2>7, <2>8, ZenonT(40) DEF RequestsPart, State
<1>9. /\ spoken' = [spoken EXCEPT ![h] = spoken[h]]
      /\ spoken[h] \in Seq(Said) /\ b.forwarder = a.forwarder
      /\ UNCHANGED actorElse
  BY <1>1, <1>5, InvTypes DEF SameTalk
<1> QED BY <1>2, <1>3, <1>4, <1>5, <1>6, <1>7, <1>8, <1>9, TaskMoves

\* No step of the tasks breaks the invariant.
LEMMA TaskStepOK ==
    ASSUME ChannelInv, NEW h \in Handles, TaskStep(h)
    PROVE  ChannelInv'
<1>1. CASE LogIn(h)
  BY <1>1, LogInStep
<1>2. CASE \E side \in Sides : \/ Settle(h, side) \/ SessionCloses(h, side)
                               \/ Pop(h, side) \/ HandOn(h, side) \/ TurnEnds(h, side)
  BY <1>2, SettleStep, SessionClosesStep, PopStep, HandOnStep, TurnEndsStep
<1>3. CASE \E i \in 1..Len(wire[h]), ok \in BOOLEAN : Answer(h, i, ok)
  BY <1>3, AnswerStep
<1>4. CASE TakeCommand(h) \/ Write(h) \/ SendShutdown(h) \/ Pump(h)
  BY <1>4, TakeCommandStep, WriteStep, SendShutdownStep, PumpStep
<1>5. CASE StreamEnds(h)
  BY <1>5, EndingStep DEF StreamEnds, Runs, Running
<1> QED BY <1>1, <1>2, <1>3, <1>4, <1>5 DEF TaskStep

---------------------------------------------------------------------------
(* What the main thread does. *)

\* The connection of s is closed in t, and nothing of it is left but what a
\* callback of its own has still to hand on.
Shut(s, t, cb) ==
    LET h == s.conn.handle
        a == s.actor[h]
        b == t.actor[h]
    IN  /\ t \in States
        /\ ~t.conn.open /\ t.held = <<>> /\ t.ids = s.ids
        /\ b.phase = "gone" /\ b.cmds = <<>> /\ b.said = <<>>
        /\ \A side \in Sides : b.hand[side] = NoEvent
        /\ t.asked[h] = <<>> /\ t.wire[h] = <<>>
        /\ IF cb = h
           THEN /\ b.forwarder = "last" /\ b.evt = a.evt /\ b.ferry = a.ferry
                /\ t.spoken[h] = s.spoken[h] /\ t.heard[h] = s.heard[h]
           ELSE /\ b.forwarder = "gone" /\ b.evt = <<>> /\ b.ferry = <<>>
                /\ t.spoken[h] = <<>> /\ t.heard[h] = <<>>
        /\ \A g \in Handles \ {h} :
              /\ t.actor[g] = s.actor[g] /\ t.asked[g] = s.asked[g] /\ t.wire[g] = s.wire[g]
              /\ t.spoken[g] = s.spoken[g] /\ t.heard[g] = s.heard[g]

\* A handle before its connect.
LEMMA NoActorOK ==
    /\ NoActor \in Actors /\ NoActor.phase = "none" /\ NoActor.forwarder = "gone"
    /\ NoActor.cmds = <<>> /\ NoActor.out = <<>> /\ NoActor.said = <<>>
    /\ NoActor.evt = <<>> /\ NoActor.ferry = <<>> /\ NoActor.next = 1
    /\ \A side \in Sides : NoActor.hand[side] = NoEvent
  BY DEF NoActor, Actors, Phases, Sides

\* What hx_task_destroy leaves of an actor, inside its own callback and outside.
LEMMA DestroyedFields ==
    ASSUME NEW a \in Actors, NEW within \in BOOLEAN
    PROVE  LET b == Destroyed(a, within) IN
           /\ b \in Actors /\ b.phase = "gone" /\ b.cmds = <<>> /\ b.said = <<>>
           /\ \A side \in Sides : b.hand[side] = NoEvent
           /\ IF within THEN b.forwarder = "last" /\ b.evt = a.evt /\ b.ferry = a.ferry
              ELSE b.forwarder = "gone" /\ b.evt = <<>> /\ b.ferry = <<>>
<1>1. a.evt \in Seq(Event) /\ a.ferry \in Seq(Event)
  BY DEF Actors
<1>2. CASE within = TRUE
  BY <1>1, <1>2, NoActorOK DEF Destroyed, Actors, Phases
<1>3. CASE within = FALSE
  BY <1>1, <1>3, NoActorOK DEF Destroyed, Actors, Phases
<1> QED BY <1>2, <1>3

\* What is said of a connection.
Conns == [open : BOOLEAN, handle : 0..MaxHandles, fetched : BOOLEAN, trans : Nat]

\* A state is its fields.
LEMMA StateRecord ==
    ASSUME NEW s \in States
    PROVE  /\ s = [conn |-> s.conn, held |-> s.held, records |-> s.records, actor |-> s.actor,
              ids |-> s.ids, asked |-> s.asked, wire |-> s.wire, spoken |-> s.spoken,
              heard |-> s.heard]
           /\ s.conn \in Conns
  BY DEF States, Conns

\* A connection with another number reserved.
LEMMA ConnTrans ==
    ASSUME NEW c \in Conns, NEW n \in Nat
    PROVE  LET d == [c EXCEPT !.trans = n] IN
           d \in Conns /\ d.open = c.open /\ d.handle = c.handle /\ d.fetched = c.fetched /\ d.trans = n
  BY DEF Conns

\* A closed connection.
LEMMA ClosedConn == Closed \in Conns /\ Closed.open = FALSE
  BY BoundsAssumption DEF Conns, Closed

\* What hx_htlc_close leaves, field by field.
LEMMA CloseIs ==
    ASSUME NEW s \in States, NEW cb, s.conn.handle \in Handles
    PROVE  LET h == s.conn.handle 
               t == Close(s, cb)
           IN  /\ t \in States /\ t.conn = [Closed EXCEPT !.trans = s.conn.trans] /\ t.held = <<>>
               /\ t.records = {} /\ t.ids = s.ids
               /\ t.actor = [s.actor EXCEPT ![h] = Destroyed(s.actor[h], cb = h)]
               /\ t.asked = [s.asked EXCEPT ![h] = <<>>] /\ t.wire = [s.wire EXCEPT ![h] = <<>>]
               /\ t.spoken = [s.spoken EXCEPT ![h] = IF cb = h THEN s.spoken[h] ELSE <<>>]
               /\ t.heard = [s.heard EXCEPT ![h] = IF cb = h THEN s.heard[h] ELSE <<>>]
<1> DEFINE h == s.conn.handle
           R == {r \in s.records : FALSE /\ r.kind = "banner"}
           f == [s EXCEPT !.held = <<>>, !.records = R]
           C == [Closed EXCEPT !.trans = s.conn.trans]
           A == [s.actor EXCEPT ![h] = Destroyed(s.actor[h], cb = h)]
           Q == [s.asked EXCEPT ![h] = <<>>]
           W == [s.wire EXCEPT ![h] = <<>>]
           S == [s.spoken EXCEPT ![h] = IF cb = h THEN s.spoken[h] ELSE <<>>]
           H == [s.heard EXCEPT ![h] = IF cb = h THEN s.heard[h] ELSE <<>>]
<1>0. R = {} /\ R \subseteq Frame
  OBVIOUS
<1>1. Forget(s, FALSE) = f
  BY DEF Forget
<1>2. /\ f.conn = s.conn /\ f.held = <<>> /\ f.records = R /\ f.actor = s.actor /\ f.ids = s.ids
      /\ f.asked = s.asked /\ f.wire = s.wire /\ f.spoken = s.spoken /\ f.heard = s.heard
  <2> HIDE DEF R
  <2> QED BY DEF States
<1>3. f \in States
  <2> HIDE DEF R
  <2>1. <<>> \in Seq(Frame)
    OBVIOUS
  <2> QED BY <1>0, <2>1 DEF States
<1> HIDE DEF f
<1>4. Close(s, cb) = [f EXCEPT !.conn = C, !.actor = A, !.asked = Q, !.wire = W, !.spoken = S, !.heard = H]
  <2>1. Close(s, cb) = [f EXCEPT !.conn = C, !.actor = [f.actor EXCEPT ![h] = Destroyed(f.actor[h], cb = h)],
                                 !.asked = [f.asked EXCEPT ![h] = <<>>], 
                                 !.wire = [f.wire EXCEPT ![h] = <<>>], 
                                 !.spoken = [f.spoken EXCEPT ![h] = IF cb = h THEN f.spoken[h] ELSE <<>>], 
                                 !.heard = [f.heard EXCEPT ![h] = IF cb = h THEN f.heard[h] ELSE <<>>]]
    BY <1>1, ZenonT(40) DEF Close
  <2> QED BY <1>2, <2>1, Zenon
<1>5. C \in Conns /\ Destroyed(s.actor[h], cb = h) \in Actors
  <2>1. Closed \in Conns /\ s.conn.trans \in Nat /\ s.actor[h] \in Actors
    BY ClosedConn, StateRecord, StateTypes DEF Conns
  <2> QED BY <2>1, ConnTrans, DestroyedFields
<1>6. /\ s.actor \in [Handles -> Actors]
      /\ s.asked \in [Handles -> Seq(Frame)] /\ s.wire \in [Handles -> Seq(Frame)]
      /\ s.spoken \in [Handles -> Seq(Said)] /\ s.heard \in [Handles -> Seq(Said)]
      /\ <<>> \in Seq(Frame) /\ <<>> \in Seq(Said)
  BY DEF States
<1>7. A \in [Handles -> Actors] /\ Q \in [Handles -> Seq(Frame)] /\ W \in [Handles -> Seq(Frame)]
      /\ S \in [Handles -> Seq(Said)] /\ H \in [Handles -> Seq(Said)]
  BY <1>5, <1>6
<1> HIDE DEF C, A, Q, W, S, H, R
<1> DEFINE t == [f EXCEPT !.conn = C, !.actor = A, !.asked = Q, !.wire = W, !.spoken = S, !.heard = H]
<1>8. /\ t \in States
      /\ t.conn = C /\ t.held = f.held /\ t.records = f.records /\ t.actor = A
      /\ t.ids = f.ids /\ t.asked = Q /\ t.wire = W /\ t.spoken = S /\ t.heard = H
  <2>1. t \in States
    BY <1>3, <1>5, <1>7 DEF States, Conns
  <2>2. /\ t.conn = C /\ t.held = f.held /\ t.records = f.records /\ t.actor = A
        /\ t.ids = f.ids /\ t.asked = Q /\ t.wire = W /\ t.spoken = S /\ t.heard = H
    BY <1>3 DEF States
  <2> QED BY <2>1, <2>2
<1> HIDE DEF t
<1>9. Close(s, cb) = t
  BY <1>4 DEF t
<1> QED BY <1>0, <1>2, <1>8, <1>9, Zenon DEF C, A, Q, W, S, H

\* What closing a connection leaves.
LEMMA CloseShuts ==
    ASSUME NEW s \in States, NEW cb, s.conn.handle \in Handles
    PROVE  /\ Shut(s, Close(s, cb), cb) /\ Close(s, cb).records = {}
           /\ Close(s, cb).conn.trans = s.conn.trans
<1> DEFINE h == s.conn.handle
           d == Destroyed(s.actor[h], cb = h)
           t == Close(s, cb)
           sp == IF cb = h THEN s.spoken[h] ELSE <<>>
           he == IF cb = h THEN s.heard[h] ELSE <<>>
<1>1. /\ s.actor[h] \in Actors /\ s.actor \in [Handles -> Actors]
      /\ s.asked \in [Handles -> Seq(Frame)] /\ s.wire \in [Handles -> Seq(Frame)]
      /\ s.spoken \in [Handles -> Seq(Said)] /\ s.heard \in [Handles -> Seq(Said)]
      /\ s.ids \in 0..MaxRequests /\ s.conn.trans \in Nat
  BY DEF States
<1>2. d \in Actors
  BY <1>1, DestroyedFields
<1>3. sp \in Seq(Said) /\ he \in Seq(Said)
  BY <1>1
<1>4. /\ t \in States /\ t.conn = [Closed EXCEPT !.trans = s.conn.trans] /\ t.held = <<>>
      /\ t.records = {} /\ t.actor = [s.actor EXCEPT ![h] = d] /\ t.ids = s.ids
      /\ t.asked = [s.asked EXCEPT ![h] = <<>>] /\ t.wire = [s.wire EXCEPT ![h] = <<>>]
      /\ t.spoken = [s.spoken EXCEPT ![h] = sp] /\ t.heard = [s.heard EXCEPT ![h] = he]
  BY CloseIs
<1> HIDE DEF t, d, sp, he
<1>5. t.records = {}
  BY <1>4
<1>6. t.conn.open = FALSE /\ t.conn.trans = s.conn.trans
  BY <1>1, <1>4, ClosedConn, ConnTrans
<1>7. t \in States
  BY <1>4
<1>8. /\ t.actor[h] = d /\ t.asked[h] = <<>> /\ t.wire[h] = <<>> /\ t.spoken[h] = sp
      /\ t.heard[h] = he
      /\ \A g \in Handles \ {h} :
              /\ t.actor[g] = s.actor[g] /\ t.asked[g] = s.asked[g] /\ t.wire[g] = s.wire[g]
              /\ t.spoken[g] = s.spoken[g] /\ t.heard[g] = s.heard[g]
  BY <1>1, <1>4, SMTT(40)
<1>9. /\ d.phase = "gone" /\ d.cmds = <<>> /\ d.said = <<>>
      /\ \A side \in Sides : d.hand[side] = NoEvent
      /\ IF cb = h THEN d.forwarder = "last" /\ d.evt = s.actor[h].evt /\ d.ferry = s.actor[h].ferry
         ELSE d.forwarder = "gone" /\ d.evt = <<>> /\ d.ferry = <<>>
  BY <1>1, DestroyedFields DEF d
<1>10. Shut(s, t, cb)
  <2>1. ~t.conn.open /\ t.held = <<>> /\ t.ids = s.ids
    BY <1>4, <1>6
  <2>2. IF cb = h
        THEN /\ d.forwarder = "last" /\ d.evt = s.actor[h].evt /\ d.ferry = s.actor[h].ferry
             /\ t.spoken[h] = s.spoken[h] /\ t.heard[h] = s.heard[h]
        ELSE /\ d.forwarder = "gone" /\ d.evt = <<>> /\ d.ferry = <<>>
             /\ t.spoken[h] = <<>> /\ t.heard[h] = <<>>
    BY <1>8, <1>9 DEF sp, he
  <2> QED BY <1>7, <1>8, <1>9, <2>1, <2>2 DEF Shut
<1> QED BY <1>5, <1>6, <1>10 DEF t

\* A closed connection is in order.
LEMMA ShutOK ==
    ASSUME NEW m, NEW s, NEW t, NEW cb, ConnPart(s, m), EventsPart(s), s.conn.open,
           Shut(s, t, cb), \A r \in t.records : r.kind \in {"after", "banner"}
    PROVE  ChannelOK(t, m)
<1> DEFINE h == s.conn.handle
<1>1. h \in Handles /\ Live(s.actor[h]) /\ s \in States /\ h \in 1..m /\ m \in 0..MaxHandles
  BY HandleOfOpen DEF ConnPart
<1>2. /\ t \in States /\ ~t.conn.open /\ t.held = <<>>
      /\ t.actor[h].phase = "gone" /\ ~Live(t.actor[h])
      /\ \A g \in Handles \ {h} :
              /\ t.actor[g] = s.actor[g] /\ t.asked[g] = s.asked[g] /\ t.wire[g] = s.wire[g]
              /\ t.spoken[g] = s.spoken[g] /\ t.heard[g] = s.heard[g]
      /\ t.asked[h] = <<>> /\ t.wire[h] = <<>>
  BY DEF Shut, Live
<1>3. ConnPart(t, m)
  <2>1. ASSUME NEW g \in Handles \ {h} PROVE ~Live(s.actor[g])
    BY <2>1 DEF ConnPart
  <2>2. ASSUME NEW g \in Handles, g > m
        PROVE  t.actor[g].forwarder = "gone" /\ t.actor[g].phase = "none"
    <3>1. g # h
      BY <1>1, <2>2 DEF Handles
    <3> QED BY <1>2, <2>2, <3>1 DEF ConnPart
  <2> QED BY <1>1, <1>2, <2>1, <2>2 DEF ConnPart
<1>4. EventsPart(t)
  <2>1. ASSUME NEW g \in Handles \ {h} PROVE ActorOK(t.actor[g], t.spoken[g], t.heard[g])
    BY <1>2 DEF EventsPart
  <2>2. ActorOK(t.actor[h], t.spoken[h], t.heard[h])
    <3> DEFINE a == s.actor[h]
               b == t.actor[h]
    <3>1. /\ a \in Actors /\ b \in Actors /\ s.spoken[h] \in Seq(Said) /\ s.heard[h] \in Seq(Said)
          /\ ActorOK(a, s.spoken[h], s.heard[h])
      BY <1>1, <1>2, StateTypes DEF EventsPart
    <3>2. /\ b.phase = "gone" /\ b.cmds = <<>> /\ b.said = <<>>
          /\ \A side \in Sides : b.hand[side] = NoEvent
          /\ Len(b.cmds) <= CommandCapacity
      BY CapacitiesAssumption DEF Shut
    <3>3. CASE cb = h
      <4>1. /\ b.forwarder = "last" /\ b.evt = a.evt /\ b.ferry = a.ferry
            /\ t.spoken[h] = s.spoken[h] /\ t.heard[h] = s.heard[h]
        BY <3>3 DEF Shut
      <4> QED BY <1>1, <3>1, <3>2, <4>1, EndingOK
    <3>4. CASE cb # h
      <4>1. /\ b.forwarder = "gone" /\ b.evt = <<>> /\ b.ferry = <<>>
            /\ t.spoken[h] = <<>> /\ t.heard[h] = <<>>
        BY <3>4 DEF Shut
      <4>2. Len(b.evt) <= EventCapacity /\ Len(b.ferry) <= FerryCapacity
        BY <4>1, CapacitiesAssumption, SMTT(40)
      <4> QED BY <1>2, <3>2, <4>1, <4>2 DEF ActorOK, Running, Live
    <3> QED BY <3>3, <3>4
  <2> QED BY <2>1, <2>2 DEF EventsPart
<1>5. RequestsPart(t) /\ TransPart(t) /\ RecordsPart(t)
  BY <1>2, Zenon DEF RequestsPart, TransPart, RecordsPart
<1> QED BY <1>3, <1>4, <1>5 DEF ChannelOK

\* A frame is asked for in t: held, or in the channel behind what was held.
Kept(s, t, frame) ==
    LET h == s.conn.handle
        a == s.actor[h]
        b == t.actor[h]
    IN  /\ t \in States
        /\ t.conn = s.conn /\ t.ids = s.ids /\ t.wire = s.wire
        /\ t.spoken = s.spoken /\ t.heard = s.heard
        /\ t.asked = [s.asked EXCEPT ![h] = Append(@, frame)]
        /\ b.next = a.next + 1 /\ b.out = a.out /\ SameTalk(a, b)
        /\ \A g \in Handles \ {h} : t.actor[g] = s.actor[g]
        /\ \/ ~s.conn.fetched /\ t.held = Append(s.held, frame) /\ b.cmds = a.cmds
           \/ /\ s.conn.fetched /\ t.held = <<>> /\ b.cmds = a.cmds \o Append(s.held, frame)
              /\ a.phase # "ended" /\ Len(b.cmds) <= CommandCapacity

\* What matches its reply.
Recorded(s, t, frame) ==
    t.records = IF frame.kind = "plain" THEN s.records
                ELSE {r \in s.records : r.trans # frame.trans} \cup {frame}

\* A state but for what is recorded.
LEMMA RecordFields ==
    ASSUME NEW s \in States, NEW frame \in Frame
    PROVE  LET t == Record(s, frame) IN
           /\ t \in States
           /\ t.records = {r \in s.records : r.trans # frame.trans} \cup {frame}
           /\ t.conn = s.conn /\ t.held = s.held /\ t.actor = s.actor /\ t.ids = s.ids
           /\ t.asked = s.asked /\ t.wire = s.wire /\ t.spoken = s.spoken /\ t.heard = s.heard
  BY DEF Record, States

\* What reserving a number changes.
LEMMA ReserveFields ==
    ASSUME NEW s \in States, s.conn.handle \in Handles
    PROVE  LET t == Reserve(s)
               h == s.conn.handle
           IN  /\ t \in States
               /\ t.conn.open = s.conn.open /\ t.conn.handle = s.conn.handle
               /\ t.conn.fetched = s.conn.fetched
               /\ t.held = s.held /\ t.records = s.records /\ t.ids = s.ids
               /\ t.asked = s.asked /\ t.wire = s.wire /\ t.spoken = s.spoken /\ t.heard = s.heard
               /\ SameTalk(s.actor[h], t.actor[h])
               /\ t.actor[h].out = s.actor[h].out /\ t.actor[h].cmds = s.actor[h].cmds
               /\ \A g \in Handles \ {h} : t.actor[g] = s.actor[g]
               /\ s.conn.trans = 0 => /\ t.conn.trans = s.actor[h].next
                                      /\ t.actor[h].next = s.actor[h].next + 1
<1> DEFINE t == Reserve(s)
           h == s.conn.handle
           n == s.actor[h].next
<1>1. s.actor \in [Handles -> Actors] /\ s.actor[h] \in Actors /\ n \in Nat /\ n + 1 \in Nat \ {0}
  <2>1. s.actor \in [Handles -> Actors] /\ s.actor[h] \in Actors
    BY StateTypes DEF States
  <2>2. n \in Nat
    BY <2>1 DEF Actors
  <2> HIDE DEF n
  <2>3. n + 1 \in Nat \ {0}
    BY <2>2
  <2> QED BY <2>1, <2>2, <2>3
<1>2. CASE s.conn.trans # 0
  BY <1>1, <1>2 DEF Reserve, SameTalk
<1>3. CASE s.conn.trans = 0
  <2> DEFINE b == [s.actor[h] EXCEPT !.next = n + 1]
  <2>1. b \in Actors
    BY <1>1 DEF Actors
  <2>2. b.next = n + 1 /\ SameTalk(s.actor[h], b) /\ b.out = s.actor[h].out /\ b.cmds = s.actor[h].cmds
    BY <1>1 DEF Actors, SameTalk
  <2>3. /\ t.conn = [s.conn EXCEPT !.trans = n] /\ t.actor = [s.actor EXCEPT ![h] = b]
        /\ t.held = s.held /\ t.records = s.records /\ t.ids = s.ids
        /\ t.asked = s.asked /\ t.wire = s.wire /\ t.spoken = s.spoken /\ t.heard = s.heard
        /\ t = [conn |-> t.conn, held |-> t.held, records |-> t.records, actor |-> t.actor,
              ids |-> t.ids, asked |-> t.asked, wire |-> t.wire, spoken |-> t.spoken,
              heard |-> t.heard]
    BY <1>1, <1>3 DEF Reserve, States
  <2> HIDE DEF b, t
  <2>4. t.actor[h] = b /\ t.actor \in [Handles -> Actors]
        /\ \A g \in Handles \ {h} : t.actor[g] = s.actor[g]
    BY <1>1, <2>1, <2>3
  <2>5. /\ t.conn \in [open : BOOLEAN, handle : 0..MaxHandles, fetched : BOOLEAN, trans : Nat]
        /\ t.conn.open = s.conn.open /\ t.conn.handle = s.conn.handle
        /\ t.conn.fetched = s.conn.fetched /\ t.conn.trans = n
    BY <1>1, <2>3 DEF States
  <2>6. t \in States
    BY <2>3, <2>4, <2>5, Zenon DEF States
  <2> QED BY <2>2, <2>3, <2>4, <2>5, <2>6 DEF t
<1> QED BY <1>2, <1>3

\* A frame is written, with its trans reserved: held, queued, or the connection closed.
LEMMA HlwriteFields ==
    ASSUME NEW x \in States, NEW cb, NEW frame \in Frame, x.conn.handle \in Handles, x.conn.open
    PROVE  LET h == x.conn.handle
               a == x.actor[h]
               t == Hlwrite(x, frame, cb)
               b == t.actor[h]
           IN  \/ /\ t \in States
                  /\ t.conn = [x.conn EXCEPT !.trans = 0] /\ t.ids = x.ids /\ t.wire = x.wire
                  /\ t.spoken = x.spoken /\ t.heard = x.heard /\ t.records = x.records
                  /\ t.asked = [x.asked EXCEPT ![h] = Append(@, frame)]
                  /\ b.next = a.next /\ b.out = a.out /\ SameTalk(a, b)
                  /\ \A g \in Handles \ {h} : t.actor[g] = x.actor[g]
                  /\ \/ ~x.conn.fetched /\ t.held = Append(x.held, frame) /\ b.cmds = a.cmds
                     \/ /\ x.conn.fetched /\ t.held = <<>>
                        /\ b.cmds = a.cmds \o Append(x.held, frame)
                        /\ a.phase # "ended" /\ Len(b.cmds) <= CommandCapacity
               \/ Shut(x, t, cb) /\ t.records = {}
<1> DEFINE h == x.conn.handle
           a == x.actor[h]
           t == Hlwrite(x, frame, cb)
           u == [x EXCEPT !.conn.trans = 0, !.asked[h] = Append(@, frame)]
<1>1. /\ x.actor \in [Handles -> Actors] /\ a \in Actors /\ x.asked \in [Handles -> Seq(Frame)]
      /\ x.held \in Seq(Frame) /\ a.cmds \in Seq(Frame)
  BY DEF States, Actors
<1> DEFINE A == [x.asked EXCEPT ![h] = Append(@, frame)]
           C == [x.conn EXCEPT !.trans = 0]
<1>2. /\ A \in [Handles -> Seq(Frame)]
      /\ C \in [open : BOOLEAN, handle : 0..MaxHandles, fetched : BOOLEAN, trans : Nat]
      /\ C.open /\ C.handle = h /\ C.fetched = x.conn.fetched
  <2>1. x.asked[h] \in Seq(Frame) /\ Append(x.asked[h], frame) \in Seq(Frame)
    BY <1>1
  <2>2. A \in [Handles -> Seq(Frame)]
    BY <1>1, <2>1
  <2>3. x.conn \in Conns /\ 0 \in Nat
    BY StateRecord
  <2>4. C \in Conns /\ C.open = x.conn.open /\ C.handle = h /\ C.fetched = x.conn.fetched
    BY <2>3, ConnTrans
  <2> QED BY <2>2, <2>4 DEF Conns
<1>3. CASE ~x.conn.fetched
  <2> DEFINE q == Append(x.held, frame)
  <2>1. t = [x EXCEPT !.conn = C, !.asked = A, !.held = q]
    BY <1>3 DEF Hlwrite
  <2> HIDE DEF A, C, t, q
  <2>2. /\ t.conn = C /\ t.asked = A /\ t.held = q /\ t.actor = x.actor
        /\ t.ids = x.ids /\ t.wire = x.wire /\ t.spoken = x.spoken /\ t.heard = x.heard
        /\ t.records = x.records
    BY <2>1 DEF States
  <2>3. q \in Seq(Frame)
    BY <1>1 DEF q
  <2>4. t \in States
    BY <1>2, <2>1, <2>3, Zenon DEF States
  <2>5. SameTalk(a, t.actor[h])
    BY <2>2 DEF SameTalk
  <2> QED BY <1>3, <2>2, <2>4, <2>5 DEF A, C, t, q
<1>4. CASE x.conn.fetched
  <2> DEFINE v == [u EXCEPT !.held = <<>>]
  <2>1. t = SendFrames(v, Append(x.held, frame), cb)
    BY <1>4 DEF Hlwrite
  <2>0. v = [x EXCEPT !.conn = C, !.asked = A, !.held = <<>>]
    OBVIOUS
  <2> HIDE DEF A, C, v
  <2>2. /\ v.conn = C /\ v.asked = A /\ v.held = <<>> /\ v.actor = x.actor
        /\ v.ids = x.ids /\ v.wire = x.wire /\ v.spoken = x.spoken /\ v.heard = x.heard
        /\ v.records = x.records
    BY <2>0 DEF States
  <2>3. v \in States
    <3>1. <<>> \in Seq(Frame)
      OBVIOUS
    <3> QED BY <1>2, <2>0, <3>1, ZenonT(40) DEF States
  <2> DEFINE q == Append(x.held, frame)
             b == [a EXCEPT !.cmds = a.cmds \o q]
  <2>4. q \in Seq(Frame) /\ a.cmds \o q \in Seq(Frame) /\ Len(a.cmds \o q) = Len(a.cmds) + Len(q)
    BY <1>1
  <2>5. b \in Actors /\ b.cmds = a.cmds \o q /\ b.next = a.next /\ b.out = a.out /\ SameTalk(a, b)
    BY <1>1, <2>4, Zenon DEF Actors, SameTalk
  <2>6. CASE Accepts(a) /\ Len(a.cmds) + Len(q) <= CommandCapacity
    <3>1. t = [v EXCEPT !.actor[h].cmds = a.cmds \o q]
      BY <1>2, <2>1, <2>2, <2>6 DEF SendFrames
    <3> DEFINE B == [x.actor EXCEPT ![h] = b]
    <3>0. t = [v EXCEPT !.actor = B]
      BY <2>2, <3>1
    <3> HIDE DEF t, q, B
    <3>2. /\ t.conn = C /\ t.asked = A /\ t.held = <<>> /\ t.actor = B
          /\ t.ids = x.ids /\ t.wire = x.wire /\ t.spoken = x.spoken /\ t.heard = x.heard
          /\ t.records = x.records
      BY <2>2, <2>3, <3>0, SMTT(40) DEF States
    <3> HIDE DEF b
    <3>3. /\ B \in [Handles -> Actors] /\ B[h] = b
          /\ \A g \in Handles \ {h} : B[g] = x.actor[g]
      BY <1>1, <2>5 DEF B
    <3>4. t \in States
      BY <2>3, <3>0, <3>3 DEF States
    <3>5. a.phase # "ended" /\ Len(b.cmds) <= CommandCapacity
      BY <2>4, <2>5, <2>6 DEF Accepts
    <3> QED BY <1>4, <2>5, <3>2, <3>3, <3>4, <3>5, ZenonT(40) DEF A, C, t, q
  <2>7. CASE ~(Accepts(a) /\ Len(a.cmds) + Len(q) <= CommandCapacity)
    <3>1. t = Close(v, cb)
      BY <1>2, <2>1, <2>2, <2>7 DEF SendFrames
    <3>2. v.conn.handle = h
      BY <1>2, <2>2
    <3>3. Shut(v, t, cb) /\ t.records = {}
      BY <2>3, <3>1, <3>2, CloseShuts
    <3> HIDE DEF t
    <3>4. \A g \in Handles \ {h} : v.asked[g] = x.asked[g]
      BY <1>1, <2>2 DEF A
    <3>5. Shut(x, t, cb)
      BY <2>2, <3>2, <3>3, <3>4 DEF Shut
    <3> QED BY <3>3, <3>5 DEF t
  <2> QED BY <2>6, <2>7, Zenon
<1> QED BY <1>3, <1>4, Zenon

\* The frame a request of s makes.
FrameOf(s, kind, id) == [id |-> id, trans |-> s.actor[s.conn.handle].next, kind |-> kind]

\* A request is kept and recorded, or found the connection dead and closed it.
Asked(s, t, frame, cb) ==
    \/ Kept(s, t, frame) /\ Recorded(s, t, frame)
    \/ Shut(s, t, cb) /\ \A r \in t.records : r.kind \in {"after", "banner"}

\* What closed x closed s, if all a close looks at is the same.
LEMMA ShutSame ==
    ASSUME NEW s, NEW x, NEW w, NEW cb, NEW h, Shut(x, w, cb), x.conn.handle = h, s.conn.handle = h,
           x.ids = s.ids, x.actor[h].evt = s.actor[h].evt, x.actor[h].ferry = s.actor[h].ferry,
           x.asked = s.asked, x.wire = s.wire, x.spoken = s.spoken, x.heard = s.heard,
           \A g \in Handles \ {h} : x.actor[g] = s.actor[g]
    PROVE  Shut(s, w, cb)
  BY DEF Shut

\* What a request comes to: kept and recorded, or the connection closed.
LEMMA RequestOutcome ==
    ASSUME NEW s \in States, s.conn.handle \in Handles, s.conn.open, s.conn.trans = 0,
           NEW kind \in Kinds, NEW id \in 0..MaxRequests, NEW cb
    PROVE  /\ FrameOf(s, kind, id) \in Frame
           /\ Asked(s, Request(s, kind, id, cb), FrameOf(s, kind, id), cb)
<1> DEFINE h == s.conn.handle
           r == Reserve(s)
           frame == FrameOf(s, kind, id)
           t == Request(s, kind, id, cb)
<1>1. /\ r \in States
      /\ r.conn.open /\ r.conn.handle = h
      /\ r.conn.fetched = s.conn.fetched
      /\ r.held = s.held /\ r.records = s.records /\ r.ids = s.ids
      /\ r.asked = s.asked /\ r.wire = s.wire /\ r.spoken = s.spoken /\ r.heard = s.heard
      /\ SameTalk(s.actor[h], r.actor[h])
      /\ r.actor[h].out = s.actor[h].out /\ r.actor[h].cmds = s.actor[h].cmds
      /\ \A g \in Handles \ {h} : r.actor[g] = s.actor[g]
      /\ r.conn.trans = s.actor[h].next /\ r.actor[h].next = s.actor[h].next + 1
  BY ReserveFields
<1>2. frame = [id |-> id, trans |-> r.conn.trans, kind |-> kind] /\ frame.kind = kind
  BY <1>1 DEF FrameOf
<1>3. s.actor[h].next \in Nat
  BY DEF States, Actors
<1>4. frame \in Frame
  BY <1>3 DEF FrameOf, Frame
<1>5. t = CASE kind = "plain" -> Hlwrite(r, frame, cb)
            [] kind = "first" -> Hlwrite(Record(r, frame), frame, cb)
            [] OTHER -> Record(Hlwrite(r, frame, cb), frame)
  BY <1>2 DEF Request
<1> HIDE DEF r, frame, t
<1>6. s.conn \in [open : BOOLEAN, handle : 0..MaxHandles, fetched : BOOLEAN, trans : Nat]
  BY StateTypes
<1>7. r.conn \in [open : BOOLEAN, handle : 0..MaxHandles, fetched : BOOLEAN, trans : Nat]
  BY <1>1, StateTypes
<1>8. [r.conn EXCEPT !.trans = 0] = s.conn
  BY <1>1, <1>6, <1>7, SMTT(40)
<1>9. ASSUME NEW x \in States, x.conn = r.conn, x.held = r.held, x.actor = r.actor, x.ids = r.ids,
             x.asked = r.asked, x.wire = r.wire, x.spoken = r.spoken, x.heard = r.heard
      PROVE  LET w == Hlwrite(x, frame, cb) IN
             \/ Kept(s, w, frame) /\ w.records = x.records
             \/ Shut(s, w, cb) /\ w.records = {}
  <2> DEFINE w == Hlwrite(x, frame, cb)
             a == x.actor[h]
             b == w.actor[h]
  <2>1. \/ /\ w \in States
           /\ w.conn = [x.conn EXCEPT !.trans = 0] /\ w.ids = x.ids /\ w.wire = x.wire
           /\ w.spoken = x.spoken /\ w.heard = x.heard /\ w.records = x.records
           /\ w.asked = [x.asked EXCEPT ![h] = Append(@, frame)]
           /\ b.next = a.next /\ b.out = a.out /\ SameTalk(a, b)
           /\ \A g \in Handles \ {h} : w.actor[g] = x.actor[g]
           /\ \/ ~x.conn.fetched /\ w.held = Append(x.held, frame) /\ b.cmds = a.cmds
              \/ /\ x.conn.fetched /\ w.held = <<>>
                 /\ b.cmds = a.cmds \o Append(x.held, frame)
                 /\ a.phase # "ended" /\ Len(b.cmds) <= CommandCapacity
        \/ Shut(x, w, cb) /\ w.records = {}
    <3>1. x.conn.handle = h /\ x.conn.open /\ h \in Handles
      BY <1>1, <1>9, Zenon
    <3> QED BY <1>4, <3>1, HlwriteFields, ZenonT(40)
  <2> HIDE DEF w
  <2>2. CASE Shut(x, w, cb) /\ w.records = {}
    <3>1. x.conn.handle = h /\ SameTalk(s.actor[h], x.actor[h])
      BY <1>1, <1>9
    <3>2. /\ x.ids = s.ids /\ x.asked = s.asked /\ x.wire = s.wire /\ x.spoken = s.spoken
          /\ x.heard = s.heard /\ \A g \in Handles \ {h} : x.actor[g] = s.actor[g]
      BY <1>1, <1>9, Zenon
    <3>3. x.actor[h].evt = s.actor[h].evt /\ x.actor[h].ferry = s.actor[h].ferry
      BY <3>1, Zenon DEF SameTalk
    <3>4. Shut(s, w, cb)
      BY <2>2, <3>1, <3>2, <3>3, ShutSame
    <3> QED BY <2>2, <3>4 DEF w
  <2>3. CASE /\ w \in States
             /\ w.conn = [x.conn EXCEPT !.trans = 0] /\ w.ids = x.ids /\ w.wire = x.wire
             /\ w.spoken = x.spoken /\ w.heard = x.heard /\ w.records = x.records
             /\ w.asked = [x.asked EXCEPT ![h] = Append(@, frame)]
             /\ b.next = a.next /\ b.out = a.out /\ SameTalk(a, b)
             /\ \A g \in Handles \ {h} : w.actor[g] = x.actor[g]
             /\ \/ ~x.conn.fetched /\ w.held = Append(x.held, frame) /\ b.cmds = a.cmds
                \/ /\ x.conn.fetched /\ w.held = <<>>
                   /\ b.cmds = a.cmds \o Append(x.held, frame)
                   /\ a.phase # "ended" /\ Len(b.cmds) <= CommandCapacity
    <3>1. w.conn = s.conn
      BY <1>8, <1>9, <2>3, ZenonT(40)
    <3>2. SameTalk(s.actor[h], b) /\ s.actor[h].phase = a.phase
      <4>1. SameTalk(s.actor[h], a)
        BY <1>1, <1>9, Zenon
      <4>2. SameTalk(a, b)
        BY <2>3, Zenon
      <4> HIDE DEF a, b
      <4> QED BY <4>1, <4>2 DEF SameTalk
    <3>3. \/ ~s.conn.fetched /\ w.held = Append(s.held, frame) /\ b.cmds = s.actor[h].cmds
          \/ /\ s.conn.fetched /\ w.held = <<>>
             /\ b.cmds = s.actor[h].cmds \o Append(s.held, frame)
             /\ s.actor[h].phase # "ended" /\ Len(b.cmds) <= CommandCapacity
      <4>1. x.conn.fetched = s.conn.fetched /\ x.held = s.held /\ a.cmds = s.actor[h].cmds
        BY <1>1, <1>9, Zenon
      <4>2. \/ ~x.conn.fetched /\ w.held = Append(x.held, frame) /\ b.cmds = a.cmds
            \/ /\ x.conn.fetched /\ w.held = <<>>
               /\ b.cmds = a.cmds \o Append(x.held, frame)
               /\ a.phase # "ended" /\ Len(b.cmds) <= CommandCapacity
        BY <2>3, Zenon
      <4> HIDE DEF a, b
      <4> QED BY <3>2, <4>1, <4>2, Zenon
    <3>4. Kept(s, w, frame)
      <4>1. /\ x.ids = s.ids /\ x.asked = s.asked /\ x.wire = s.wire /\ x.spoken = s.spoken
            /\ x.heard = s.heard /\ \A g \in Handles \ {h} : x.actor[g] = s.actor[g]
        BY <1>1, <1>9, Zenon
      <4>2. a.next = s.actor[h].next + 1 /\ a.out = s.actor[h].out
        BY <1>1, <1>9, Zenon
      <4>3. /\ w \in States /\ w.ids = s.ids /\ w.wire = s.wire
            /\ w.spoken = s.spoken /\ w.heard = s.heard
            /\ w.asked = [s.asked EXCEPT ![h] = Append(@, frame)]
            /\ b.next = s.actor[h].next + 1 /\ b.out = s.actor[h].out
            /\ \A g \in Handles \ {h} : w.actor[g] = s.actor[g]
        BY <2>3, <4>1, <4>2, ZenonT(40)
      <4> QED BY <3>1, <3>2, <3>3, <4>3, Zenon DEF Kept
    <3> QED BY <2>3, <3>4, ZenonT(40) DEF w
  <2> QED BY <2>1, <2>2, <2>3, ZenonT(40)
<1>10. CASE kind = "plain"
  <2>1. t = Hlwrite(r, frame, cb)
    BY <1>5, <1>10
  <2>2. \/ Kept(s, t, frame) /\ t.records = r.records
        \/ Shut(s, t, cb) /\ t.records = {}
    BY <1>1, <1>9, <2>1, SMTT(40)
  <2> QED BY <1>1, <1>2, <1>4, <1>10, <2>2 DEF Asked, Recorded, t, frame
<1>11. CASE kind = "first"
  <2> DEFINE x == Record(r, frame)
  <2>1. t = Hlwrite(x, frame, cb)
    BY <1>5, <1>11
  <2>2. /\ x \in States /\ x.records = {y \in r.records : y.trans # frame.trans} \cup {frame}
        /\ x.conn = r.conn /\ x.held = r.held /\ x.actor = r.actor /\ x.ids = r.ids
        /\ x.asked = r.asked /\ x.wire = r.wire /\ x.spoken = r.spoken /\ x.heard = r.heard
    BY <1>1, <1>4, RecordFields
  <2> HIDE DEF x
  <2>3. \/ Kept(s, t, frame) /\ t.records = x.records
        \/ Shut(s, t, cb) /\ t.records = {}
    BY <1>9, <2>1, <2>2
  <2> QED BY <1>1, <1>2, <1>4, <1>11, <2>2, <2>3 DEF Asked, Recorded, t, frame
<1>12. CASE kind \in {"after", "banner"}
  <2> DEFINE w == Hlwrite(r, frame, cb)
  <2>1. t = Record(w, frame)
    BY <1>5, <1>12
  <2>2. \/ Kept(s, w, frame) /\ w.records = r.records
        \/ Shut(s, w, cb) /\ w.records = {}
    BY <1>1, <1>9, SMTT(40)
  <2> HIDE DEF w
  <2>3. w \in States
    BY <2>2, Zenon DEF Kept, Shut
  <2>4. /\ t \in States /\ t.records = {y \in w.records : y.trans # frame.trans} \cup {frame}
        /\ t.conn = w.conn /\ t.held = w.held /\ t.actor = w.actor /\ t.ids = w.ids
        /\ t.asked = w.asked /\ t.wire = w.wire /\ t.spoken = w.spoken /\ t.heard = w.heard
    BY <1>4, <2>1, <2>3, RecordFields
  <2>5. CASE Kept(s, w, frame) /\ w.records = r.records
    <3>1. Kept(s, t, frame)
      BY <2>4, <2>5, ZenonT(40) DEF Kept
    <3>2. Recorded(s, t, frame)
      BY <1>1, <1>2, <1>12, <2>4, <2>5 DEF Recorded
    <3> QED BY <1>4, <3>1, <3>2, SMTT(40) DEF Asked, t, frame
  <2>6. CASE Shut(s, w, cb) /\ w.records = {}
    <3>1. Shut(s, t, cb)
      BY <2>4, <2>6 DEF Shut
    <3>2. \A y \in t.records : y.kind \in {"after", "banner"}
      BY <1>2, <1>12, <2>4, <2>6
    <3> QED BY <1>4, <3>1, <3>2 DEF Asked, t, frame
  <2> QED BY <2>2, <2>5, <2>6
<1> QED BY <1>10, <1>11, <1>12 DEF Kinds

\* A request that is kept keeps the invariant: its number is new to this connect.
LEMMA KeptOK ==
    ASSUME NEW m, NEW s, NEW t, NEW frame \in Frame, ChannelOK(s, m), s.conn.open,
           frame.trans = s.actor[s.conn.handle].next,
           Kept(s, t, frame), Recorded(s, t, frame)
    PROVE  ChannelOK(t, m)
<1> DEFINE h == s.conn.handle
           a == s.actor[h]
           b == t.actor[h]
           q == s.asked[h]
<1>1. /\ ConnPart(s, m) /\ EventsPart(s) /\ RequestsPart(s) /\ TransPart(s) /\ RecordsPart(s)
      /\ h \in Handles /\ Live(a) /\ s \in States /\ t \in States
  BY HandleOfOpen, ZenonT(40) DEF ChannelOK, ConnPart, Kept
<1>2. /\ a \in Actors /\ b \in Actors /\ q \in Seq(Frame) /\ s.held \in Seq(Frame)
      /\ s.wire[h] \in Seq(Frame) /\ a.out \in Seq(Frame) /\ a.cmds \in Seq(Frame)
      /\ a.next \in Nat \ {0} /\ DOMAIN s.asked = Handles
  BY <1>1, StateTypes DEF Actors
<1>3. /\ t.conn = s.conn /\ t.wire = s.wire /\ t.spoken = s.spoken /\ t.heard = s.heard
      /\ t.asked[h] = Append(q, frame) /\ \A g \in Handles \ {h} : t.asked[g] = s.asked[g]
      /\ b.next = a.next + 1 /\ b.out = a.out /\ SameTalk(a, b) /\ b.phase = a.phase
      /\ b.forwarder = a.forwarder /\ Live(b)
      /\ \A g \in Handles \ {h} : t.actor[g] = s.actor[g]
  BY <1>1, <1>2, ZenonT(40) DEF Kept, SameTalk, Live
<1>4. \/ ~s.conn.fetched /\ t.held = Append(s.held, frame) /\ b.cmds = a.cmds
      \/ /\ s.conn.fetched /\ t.held = <<>> /\ b.cmds = a.cmds \o Append(s.held, frame)
         /\ a.phase # "ended" /\ Len(b.cmds) <= CommandCapacity
  BY Zenon DEF Kept
<1>5. /\ Len(q) \in Nat /\ Len(Append(q, frame)) = Len(q) + 1 /\ Append(q, frame)[Len(q) + 1] = frame
      /\ \A i \in 1..Len(q) : Append(q, frame)[i] = q[i]
      /\ \A i \in 1..(Len(q) + 1) : i \in 1..Len(q) \/ i = Len(q) + 1
      /\ 1..Len(q) \subseteq 1..(Len(q) + 1)
  <2>1. q \in Seq(Frame)
    BY <1>2, SMTT(40)
  <2> HIDE DEF q
  <2> QED BY <2>1
<1>6. ConnPart(t, m)
  BY <1>1, <1>3, SMTT(40) DEF ConnPart
<1>7. EventsPart(t)
  <2>1. ActorOK(a, s.spoken[h], s.heard[h])
    BY <1>1, SMTT(40) DEF EventsPart
  <2>2. Len(b.cmds) <= CommandCapacity
    BY <1>4, <2>1, ZenonT(40) DEF ActorOK
  <2>3. ActorOK(b, s.spoken[h], s.heard[h])
    BY <1>3, <2>1, <2>2, QuietOK, SMTT(40)
  <2> QED BY <1>1, <1>3, <2>3 DEF EventsPart
<1> HIDE DEF a, b, q
<1>8. RequestsPart(t)
  <2>1. a.phase # "ended" => Append(q, frame) = s.wire[h] \o (a.out \o (b.cmds \o t.held))
    <3> SUFFICES ASSUME a.phase # "ended"
                 PROVE  Append(q, frame) = s.wire[h] \o (a.out \o (b.cmds \o t.held))
      BY Zenon
    <3> DEFINE y == a.cmds \o s.held
               z == a.out \o y
    <3>1. q = s.wire[h] \o z
      BY <1>1, Zenon DEF RequestsPart, a, q
    <3>2. y \in Seq(Frame)
      BY <1>2
    <3>3. b.cmds \o t.held = Append(y, frame)
      <4>1. CASE t.held = Append(s.held, frame) /\ b.cmds = a.cmds
        <5>1. Grows(a.cmds, s.held, frame)
          BY <1>2, GrowsAll
        <5> QED BY <4>1, <5>1, Zenon DEF Grows
      <4>2. CASE t.held = <<>> /\ b.cmds = a.cmds \o Append(s.held, frame)
        <5>1. a.cmds \o Append(s.held, frame) = Append(y, frame)
          <6>1. Grows(a.cmds, s.held, frame)
            BY <1>2, GrowsAll
          <6> QED BY <6>1, Zenon DEF Grows
        <5>2. Append(y, frame) \in Seq(Frame)
          BY <3>2
        <5> HIDE DEF y
        <5> QED BY <4>2, <5>1, <5>2, Nil
      <4> QED BY <1>4, <4>1, <4>2
    <3> HIDE DEF y
    <3>4. z \in Seq(Frame) /\ a.out \o Append(y, frame) = Append(z, frame)
      <4>1. z \in Seq(Frame) /\ Grows(a.out, y, frame)
        BY <1>2, <3>2, GrowsAll
      <4> QED BY <4>1, Zenon DEF Grows
    <3> HIDE DEF z
    <3>5. s.wire[h] \o Append(z, frame) = Append(s.wire[h] \o z, frame)
      <4>1. Grows(s.wire[h], z, frame)
        BY <1>2, <3>4, GrowsAll, SMTT(40)
      <4> QED BY <4>1, Zenon DEF Grows
    <3> QED BY <3>1, <3>3, <3>4, <3>5, SMTT(40)
  <2>2. /\ s.conn.fetched => HasSaid(s.spoken[h], "Ready")
        /\ ~s.conn.fetched => (s.wire[h] = <<>> /\ a.out = <<>> /\ b.cmds = <<>>)
    BY <1>1, <1>4, Zenon DEF RequestsPart, a
  <2>3. \A n \in 1..Len(s.spoken[h]) : s.spoken[h][n].what = "Reply" =>
            \E i \in 1..Len(Append(q, frame)) : Append(q, frame)[i] = s.spoken[h][n].req
    <3>1. \A n \in 1..Len(s.spoken[h]) : s.spoken[h][n].what = "Reply" =>
              \E i \in 1..Len(q) : q[i] = s.spoken[h][n].req
      BY <1>1, Zenon DEF RequestsPart, q
    <3> QED BY <1>5, <3>1, SMTT(40)
  <2>4. t.actor[h].out = a.out /\ t.actor[h].cmds = b.cmds /\ t.actor[h].phase = a.phase
    BY <1>3 DEF b
  <2> DEFINE Q == Append(q, frame)
             sp == s.spoken[h]
  <2>5. t.asked[h] = Q /\ t.wire[h] = s.wire[h] /\ t.spoken[h] = sp /\ t.conn.handle = h
    BY <1>3, SMTT(40)
  <2>6. ReqOK(s.conn, Q, s.wire[h], a.out, b.cmds, t.held, a.phase, sp)
    <3> HIDE DEF Q, sp
    <3>1. a.phase # "ended" => Q = s.wire[h] \o (a.out \o (b.cmds \o t.held))
      BY <2>1 DEF Q
    <3>2. \A n \in 1..Len(sp) : sp[n].what = "Reply" => \E i \in 1..Len(Q) : Q[i] = sp[n].req
      BY <2>3, Zenon DEF Q, sp
    <3>3. s.conn.fetched => HasSaid(sp, "Ready")
      BY <2>2 DEF sp
    <3> QED BY <2>2, <3>1, <3>2, <3>3 DEF ReqOK
  <2> HIDE DEF Q, sp
  <2> QED BY <1>3, <2>4, <2>5, <2>6, ReqIs, SMTT(40)
<1>9. TransPart(t)
  <2>1. /\ s.conn.trans = 0
        /\ \A i \in 1..Len(q) : q[i].trans \in 1..(a.next - 1)
        /\ \A i, j \in 1..Len(q) : q[i].trans = q[j].trans => i = j
    BY <1>1 DEF TransPart, q, a
  <2>2. frame.trans = a.next
    BY DEF a
  <2>3. \A k \in 1..(a.next - 1) : k \in 1..a.next /\ k # a.next
    BY <1>2
  <2>4. a.next \in 1..a.next /\ (a.next + 1) - 1 = a.next
    BY <1>2
  <2>5. \A i \in 1..(Len(q) + 1) : Append(q, frame)[i].trans \in 1..a.next
    BY <1>5, <2>1, <2>2, <2>3, <2>4
  <2>6. \A i, j \in 1..(Len(q) + 1) : Append(q, frame)[i].trans = Append(q, frame)[j].trans => i = j
    BY <1>5, <2>1, <2>2, <2>3
  <2> QED BY <1>3, <1>5, <2>1, <2>4, <2>5, <2>6, SMTT(40) DEF TransPart, b
<1>10. RecordsPart(t)
  <2> SUFFICES ASSUME NEW r \in t.records
               PROVE  RecordOK(r, Append(q, frame), s.heard[h])
    BY <1>3 DEF RecordsPart
  <2>1. CASE r = frame
    <3>1. Len(q) + 1 \in 1..Len(Append(q, frame))
      BY <1>5
    <3> QED BY <1>5, <2>1, <3>1 DEF RecordOK
  <2>2. CASE r \in s.records /\ (frame.kind # "plain" => r.trans # frame.trans)
    <3>1. RecordOK(r, q, s.heard[h])
      BY <1>1, <2>2 DEF RecordsPart, q
    <3>2. CASE \E i \in 1..Len(q) : q[i] = r
      BY <1>5, <3>2 DEF RecordOK
    <3>3. CASE r.kind = "banner" /\ \A i \in 1..Len(q) : q[i].trans = r.trans => q[i].kind # "banner"
      <4>1. frame.trans = r.trans => frame.kind # "banner"
        BY <2>2
      <4>2. \A i \in 1..(Len(q) + 1) :
                Append(q, frame)[i].trans = r.trans => Append(q, frame)[i].kind # "banner"
        BY <1>5, <3>3, <4>1
      <4> QED BY <1>5, <3>3, <4>2 DEF RecordOK
    <3>4. CASE r.kind = "after" /\ s.heard[h] = <<>>
      BY <3>4 DEF RecordOK
    <3> QED BY <3>1, <3>2, <3>3, <3>4 DEF RecordOK
  <2> QED BY <2>1, <2>2 DEF Recorded
<1> QED BY <1>6, <1>7, <1>8, <1>9, <1>10, SMTT(40) DEF ChannelOK

\* A request made anywhere in a handler keeps the invariant.
LEMMA RequestOK ==
    ASSUME NEW m, NEW s, ChannelOK(s, m), s.conn.open,
           NEW kind \in Kinds, NEW id \in 0..MaxRequests, NEW cb
    PROVE  ChannelOK(Request(s, kind, id, cb), m) /\ Request(s, kind, id, cb) \in States
<1> DEFINE frame == FrameOf(s, kind, id)
           t == Request(s, kind, id, cb)
<1>1. /\ ConnPart(s, m) /\ EventsPart(s) /\ s \in States /\ s.conn.handle \in Handles
      /\ s.conn.trans = 0
  BY HandleOfOpen DEF ChannelOK, ConnPart, TransPart
<1>2. frame \in Frame /\ Asked(s, t, frame, cb)
  BY <1>1, RequestOutcome
<1>3. frame.trans = s.actor[s.conn.handle].next
  BY DEF FrameOf
<1> HIDE DEF frame, t
<1>4. ChannelOK(t, m)
  BY <1>1, <1>2, <1>3, KeptOK, ShutOK DEF Asked
<1> QED BY <1>4 DEF ChannelOK, ConnPart, t

\* So does closing the connection.
LEMMA CloseOK ==
    ASSUME NEW m, NEW s, NEW cb, ConnPart(s, m), EventsPart(s), s.conn.open
    PROVE  /\ ChannelOK(Close(s, cb), m) /\ Close(s, cb) \in States
           /\ Shut(s, Close(s, cb), cb) /\ Close(s, cb).records = {}
<1>1. s \in States /\ s.conn.handle \in Handles
  BY HandleOfOpen DEF ConnPart
<1>2. Shut(s, Close(s, cb), cb) /\ Close(s, cb).records = {}
  BY <1>1, CloseShuts
<1>3. ChannelOK(Close(s, cb), m)
  BY <1>2, ShutOK
<1> QED BY <1>2, <1>3 DEF ChannelOK, ConnPart

\* A handler leaves the record it worked out.
LEMMA BecomesOK ==
    ASSUME NEW s \in States, Becomes(s)
    PROVE  State' = s
<1>1. s = [conn |-> s.conn, held |-> s.held, records |-> s.records, actor |-> s.actor,
           ids |-> s.ids, asked |-> s.asked, wire |-> s.wire, spoken |-> s.spoken,
           heard |-> s.heard]
  BY DEF States
<1> QED BY <1>1 DEF Becomes, State

\* The variables as one record.
LEMMA StateFields ==
    /\ State.conn = conn /\ State.held = held /\ State.records = records
    /\ State.actor = actor /\ State.ids = ids /\ State.asked = asked
    /\ State.wire = wire /\ State.spoken = spoken /\ State.heard = heard
  BY DEF State

\* The event is off the ferry.
LEMMA TakenFields ==
    ASSUME ChannelInv, NEW h \in Handles, actor[h].ferry # <<>>
    PROVE  LET t == Taken(h) IN
           /\ t \in States
           /\ t.conn = conn /\ t.held = held /\ t.records = records /\ t.ids = ids
           /\ t.asked = asked /\ t.wire = wire /\ t.spoken = spoken /\ t.heard = heard
           /\ t.actor = [actor EXCEPT ![h] = [actor[h] EXCEPT !.ferry = Tail(@)]]
           /\ [actor[h] EXCEPT !.ferry = Tail(@)] \in Actors
<1> DEFINE t == Taken(h)
           b == [actor[h] EXCEPT !.ferry = Tail(@)]
<1>1. actor[h] \in Actors /\ actor[h].ferry \in Seq(Event)
  BY InvTypes DEF Actors
<1>2. Tail(actor[h].ferry) \in Seq(Event)
  BY <1>1
<1>3. b \in Actors
  BY <1>1, <1>2 DEF Actors
<1>4. /\ t.conn = conn /\ t.held = held /\ t.records = records /\ t.ids = ids
      /\ t.asked = asked /\ t.wire = wire /\ t.spoken = spoken /\ t.heard = heard
      /\ t.actor = [actor EXCEPT ![h] = b]
      /\ t \in States
  <2> DEFINE B == [actor EXCEPT ![h] = b]
             S == State
  <2>1. t = [S EXCEPT !.actor = B]
    BY StateFields, Zenon DEF Taken
  <2>2. S \in States
    BY InvTypes
  <2>3. /\ S.conn = conn /\ S.held = held /\ S.records = records
        /\ S.actor = actor /\ S.ids = ids /\ S.asked = asked
        /\ S.wire = wire /\ S.spoken = spoken /\ S.heard = heard
    BY StateFields
  <2> HIDE DEF b, t, S
  <2>4. B \in [Handles -> Actors]
    BY <1>3, InvTypes
  <2> HIDE DEF B
  <2>5. t \in States /\ t.actor = B
    BY <2>1, <2>2, <2>4 DEF States
  <2>6. /\ t.conn = S.conn /\ t.held = S.held /\ t.records = S.records /\ t.ids = S.ids
        /\ t.asked = S.asked /\ t.wire = S.wire /\ t.spoken = S.spoken /\ t.heard = S.heard
    BY <2>1, <2>2 DEF States
  <2> QED BY <2>3, <2>5, <2>6, Zenon DEF B
<1> HIDE DEF b, t
<1>6. t \in States
  BY <1>4
<1> QED BY <1>3, <1>4, <1>6 DEF b, t

\* What hearing the next event changes.
LEMMA HeardFields ==
    ASSUME ChannelInv, NEW h \in Handles, actor[h].ferry # <<>>, NextEvent(h) \in Said
    PROVE  LET t == Heard(h) IN
           /\ t \in States
           /\ t.conn = conn /\ t.held = held /\ t.records = records /\ t.ids = ids
           /\ t.asked = asked /\ t.wire = wire /\ t.spoken = spoken
           /\ t.heard = [heard EXCEPT ![h] = Append(@, NextEvent(h))]
           /\ t.actor = [actor EXCEPT ![h] = [actor[h] EXCEPT !.ferry = Tail(@)]]
<1> DEFINE t == Heard(h)
           u == Taken(h)
<1>1. /\ u \in States
      /\ u.conn = conn /\ u.held = held /\ u.records = records /\ u.ids = ids
      /\ u.asked = asked /\ u.wire = wire /\ u.spoken = spoken /\ u.heard = heard
      /\ u.actor = [actor EXCEPT ![h] = [actor[h] EXCEPT !.ferry = Tail(@)]]
  BY TakenFields
<1>2. t = [u EXCEPT !.heard[h] = Append(@, NextEvent(h))]
  BY DEF Heard
<1> HIDE DEF u, t
<1>3. [heard EXCEPT ![h] = Append(@, NextEvent(h))] \in [Handles -> Seq(Said)]
  BY InvTypes
<1>4. /\ t.conn = conn /\ t.held = held /\ t.records = records /\ t.ids = ids
      /\ t.asked = asked /\ t.wire = wire /\ t.spoken = spoken
      /\ t.heard = [heard EXCEPT ![h] = Append(@, NextEvent(h))]
      /\ t.actor = u.actor
  BY <1>1, <1>2 DEF States
<1>5. t \in States
  BY <1>1, <1>2, <1>3 DEF States
<1> QED BY <1>1, <1>4, <1>5 DEF t

\* Nothing else is open while a handle that is not the connection's polls.
LEMMA PollFacts ==
    ASSUME ChannelInv, NEW h \in Handles, Polls(h)
    PROVE  /\ actor[h].forwarder # "gone" /\ actor[h].ferry # <<>>
           /\ conn.open => Installed(h)
           /\ h <= made
<1>1. actor[h].forwarder # "gone" /\ actor[h].ferry # <<>>
  BY DEF Polls
<1>2. actor[h].forwarder \in {"live", "last", "gone"}
  BY LiveFacts DEF Actors
<1>3. conn.open => Installed(h)
  <2>1. actor[h].forwarder = "last" => ~conn.open
    BY StateFields DEF ChannelInv, ChannelOK, ConnPart
  <2> QED BY <1>1, <1>2, <2>1, LiveFacts DEF Installed
<1>4. h > made => actor[h].forwarder = "gone"
  BY StateFields DEF ChannelInv, ChannelOK, ConnPart
<1> QED BY <1>1, <1>3, <1>4, InvTypes DEF Handles

\* What a callback leaves, before it asks for anything.
LEMMA HearStep ==
    ASSUME ChannelInv, NEW h \in Handles, Polls(h), NextEvent(h) \in Said,
           NEW x \in States, x.conn.open = conn.open, x.conn.handle = conn.handle,
           x.conn.trans = conn.trans,
           x.conn.fetched # conn.fetched => NextEvent(h).what = "Ready" /\ x.conn.fetched,
           x.held = held, x.asked = asked, x.wire = wire, x.spoken = spoken,
           x.heard = [heard EXCEPT ![h] = Append(@, NextEvent(h))],
           x.actor = [actor EXCEPT ![h] = [actor[h] EXCEPT !.ferry = Tail(@)]],
           x.records \subseteq records,
           Installed(h) /\ NextEvent(h).what = "LoggedIn" => \A r \in x.records : r.kind = "banner"
    PROVE  ChannelOK(x, made)
<1> DEFINE a == actor[h]
           b == [a EXCEPT !.ferry = Tail(@)]
           e == NextEvent(h)
           sp == spoken[h]
           he == heard[h]
<1>1. /\ a \in Actors /\ sp \in Seq(Said) /\ he \in Seq(Said) /\ ActorOK(a, sp, he)
      /\ a.forwarder # "gone" /\ a.ferry # <<>> /\ (conn.open => Installed(h)) /\ b \in Actors
  BY LiveFacts, PollFacts, TakenFields
<1>2. ~Last(e)
  BY EventKinds
<1>3. /\ ActorOK(b, sp, Append(he, e)) /\ Len(he) + 1 <= Len(sp) /\ e = sp[Len(he) + 1]
  <2>1. Tells(a, b) /\ e = Head(a.ferry) /\ ~Last(Head(a.ferry))
    BY <1>2, Zenon DEF Tells, NextEvent
  <2> HIDE DEF a, b, e, sp, he
  <2>2. HeardNext(a, b, sp, he)
    BY <1>1, <2>1, HearOK
  <2> QED BY <2>1, <2>2, Zenon DEF HeardNext
<1>4. SameTalk(a, [b EXCEPT !.ferry = a.ferry]) /\ b.phase = a.phase /\ b.forwarder = a.forwarder
      /\ b.next = a.next /\ b.out = a.out /\ b.cmds = a.cmds
  BY <1>1 DEF Actors, SameTalk
<1>5. /\ x.actor[h] = b /\ x.heard[h] = Append(he, e)
      /\ \A g \in Handles \ {h} : x.actor[g] = actor[g] /\ x.heard[g] = heard[g]
  BY InvTypes
<1>6. ChannelOK(State, made)
  BY DEF ChannelInv
<1> HIDE DEF b, e
<1>7. \A g \in Handles : /\ x.actor[g].phase = actor[g].phase
                         /\ x.actor[g].forwarder = actor[g].forwarder
                         /\ x.actor[g].next = actor[g].next /\ x.actor[g].out = actor[g].out
                         /\ x.actor[g].cmds = actor[g].cmds
                         /\ Live(x.actor[g]) <=> Live(actor[g])
  BY <1>4, <1>5 DEF Live
<1>8. ConnPart(x, made)
  <2>1. ConnPart(State, made)
    BY <1>6 DEF ChannelOK
  <2>2. /\ made \in 0..MaxHandles /\ (conn.open => conn.handle \in 1..made)
        /\ \A g \in Handles : /\ Live(actor[g]) <=> conn.open /\ conn.handle = g
                              /\ actor[g].forwarder = "last" => ~conn.open
                              /\ g > made => actor[g].forwarder = "gone" /\ actor[g].phase = "none"
                              /\ ~Live(actor[g]) => asked[g] = <<>> /\ wire[g] = <<>>
    BY <2>1, StateFields, ZenonT(40) DEF ConnPart
  <2>3. ASSUME NEW g \in Handles
        PROVE  /\ Live(x.actor[g]) <=> x.conn.open /\ x.conn.handle = g
               /\ x.actor[g].forwarder = "last" => ~x.conn.open
               /\ g > made => x.actor[g].forwarder = "gone" /\ x.actor[g].phase = "none"
               /\ ~Live(x.actor[g]) => x.asked[g] = <<>> /\ x.wire[g] = <<>>
    <3>1. /\ x.actor[g].phase = actor[g].phase /\ x.actor[g].forwarder = actor[g].forwarder
          /\ Live(x.actor[g]) <=> Live(actor[g])
      BY <1>7
    <3>2. /\ Live(actor[g]) <=> conn.open /\ conn.handle = g
          /\ actor[g].forwarder = "last" => ~conn.open
          /\ g > made => actor[g].forwarder = "gone" /\ actor[g].phase = "none"
          /\ ~Live(actor[g]) => asked[g] = <<>> /\ wire[g] = <<>>
      BY <2>2
    <3> DEFINE A == x.actor[g]
               B == actor[g]
               later == g > made
    <3> HIDE DEF A, B, later
    <3>3. A.phase = B.phase /\ A.forwarder = B.forwarder /\ (Live(A) <=> Live(B))
      BY <3>1 DEF A, B
    <3>4. /\ Live(B) <=> conn.open /\ conn.handle = g
          /\ B.forwarder = "last" => ~conn.open
          /\ later => B.forwarder = "gone" /\ B.phase = "none"
          /\ ~Live(B) => asked[g] = <<>> /\ wire[g] = <<>>
      BY <3>2 DEF B, later
    <3>5. x.conn.open = conn.open /\ x.conn.handle = conn.handle /\ x.asked[g] = asked[g]
          /\ x.wire[g] = wire[g]
      OBVIOUS
    <3>6. /\ Live(A) <=> x.conn.open /\ x.conn.handle = g
          /\ A.forwarder = "last" => ~x.conn.open
          /\ later => A.forwarder = "gone" /\ A.phase = "none"
          /\ ~Live(A) => x.asked[g] = <<>> /\ x.wire[g] = <<>>
      BY <3>3, <3>4, <3>5
    <3> QED BY <3>6 DEF A, later
  <2> QED BY <2>2, <2>3, Zenon DEF ConnPart
<1>9. EventsPart(x)
  <2>1. \A g \in Handles : ActorOK(actor[g], spoken[g], heard[g])
    BY LiveFacts
  <2> QED BY <1>3, <1>5, <2>1, ZenonT(40) DEF EventsPart
<1>10. conn.open => conn.handle = h
  BY <1>1 DEF Installed
<1>11. RequestsPart(x)
  <2>1. RequestsPart(State)
    BY <1>6, SMTT(40) DEF ChannelOK
  <2>2. CASE ~conn.open
    BY <2>1, <2>2, StateFields, ZenonT(40) DEF RequestsPart
  <2>3. CASE conn.open
    <3>1. conn.handle = h /\ x.conn.handle = h
      BY <1>10, <2>3
    <3>2. x.conn.fetched => HasSaid(sp, "Ready")
      <4>1. CASE e.what = "Ready"
        <5>1. Len(he) + 1 \in 1..Len(sp)
          BY <1>1, <1>3
        <5> QED BY <1>3, <4>1, <5>1 DEF HasSaid
      <4>2. CASE e.what # "Ready"
        BY <2>1, <2>3, <3>1, <4>2, StateFields DEF RequestsPart, e
      <4> QED BY <4>1, <4>2
    <3>3. ~x.conn.fetched => (wire[h] = <<>> /\ a.out = <<>> /\ a.cmds = <<>>)
      BY <2>1, <2>3, <3>1, StateFields, InvTypes, StateTypes, SMTT(40) DEF RequestsPart
    <3>4. a.phase # "ended" => asked[h] = wire[h] \o (a.out \o (a.cmds \o held))
      BY <2>1, <2>3, <3>1, StateFields DEF RequestsPart
    <3>5. \A n \in 1..Len(sp) : sp[n].what = "Reply" => \E i \in 1..Len(asked[h]) : asked[h][i] = sp[n].req
      BY <2>1, <2>3, <3>1, StateFields DEF RequestsPart
    <3>6. x.actor[h].phase = a.phase /\ x.actor[h].out = a.out /\ x.actor[h].cmds = a.cmds
      BY <1>7
    <3>7. x.conn.open
      BY <2>3
    <3> HIDE DEF a, sp
    <3>8. ReqOK(x.conn, asked[h], wire[h], a.out, a.cmds, held, a.phase, sp)
      BY <3>2, <3>3, <3>4, <3>5, <3>7, Zenon DEF ReqOK
    <3>9. x.spoken[h] = sp
      BY Zenon DEF sp
    <3> QED BY <3>1, <3>6, <3>8, <3>9, ReqIs, Zenon
  <2> QED BY <2>2, <2>3
<1>12. TransPart(x)
  <2>1. TransPart(State)
    BY <1>6 DEF ChannelOK
  <2> QED BY <1>7, <1>10, <2>1, StateFields DEF TransPart
<1>13. RecordsPart(x)
  <2>1. RecordsPart(State)
    BY <1>6 DEF ChannelOK
  <2>2. CASE ~conn.open
    BY <2>1, <2>2, StateFields DEF RecordsPart
  <2>3. CASE conn.open
    <3> SUFFICES ASSUME NEW r \in x.records PROVE RecordOK(r, asked[h], x.heard[h])
      BY <1>10, <2>3 DEF RecordsPart
    <3>1. RecordOK(r, asked[h], he)
      BY <1>10, <2>1, <2>3, StateFields DEF RecordsPart
    <3>2. CASE r.kind = "after" /\ he = <<>>
      <4>1. e = sp[1] /\ sp # <<>>
        BY <1>1, <1>3, <3>2
      <4>2. e.what = "LoggedIn"
        BY <1>1, <4>1 DEF ActorOK
      <4> QED BY <1>1, <2>3, <3>2, <4>2 DEF e
    <3> QED BY <3>1, <3>2 DEF RecordOK
  <2> QED BY <2>2, <2>3
<1> QED BY <1>8, <1>9, <1>11, <1>12, <1>13 DEF ChannelOK

\* A new actor is in order.
LEMMA FreshOK ==
    /\ Fresh \in Actors /\ Fresh.phase = "login" /\ Fresh.forwarder = "live"
    /\ Fresh.cmds = <<>> /\ Fresh.out = <<>> /\ Live(Fresh)
    /\ ActorOK(Fresh, <<>>, <<>>)
<1>1. /\ Fresh \in Actors /\ Fresh.phase = "login" /\ Fresh.forwarder = "live"
      /\ Fresh.cmds = <<>> /\ Fresh.out = <<>> /\ Fresh.said = <<>>
      /\ Fresh.evt = <<>> /\ Fresh.ferry = <<>>
      /\ \A side \in Sides : Fresh.hand[side] = NoEvent
  BY NoActorOK DEF Fresh, Actors, Phases
<1> HIDE DEF Fresh
<1>2. Running(Fresh) /\ Live(Fresh)
  BY <1>1 DEF Running, Live
<1>3. InHand(Fresh) = <<>>
  BY <1>1 DEF InHand, Sides
<1>4. Coming(Fresh) = <<>> /\ Len(<<>>) = 0
  BY <1>1, <1>3 DEF Coming
<1>5. Follows(<<>>, <<>>, <<>>) /\ NoLast(<<>>)
  BY DEF Follows, NoLast
<1> QED BY <1>1, <1>2, <1>4, <1>5, CapacitiesAssumption DEF ActorOK

\* A state but for what is recorded, the handles' bound and the count of requests.
LEMMA NextIdOK ==
    ASSUME NEW m, NEW s, ChannelOK(s, m), s.ids + 1 \in 0..MaxRequests
    PROVE  /\ ChannelOK(NextId(s), m) /\ NextId(s) \in States /\ NextId(s).ids = s.ids + 1
           /\ NextId(s).conn = s.conn /\ NextId(s).held = s.held /\ NextId(s).records = s.records
           /\ NextId(s).actor = s.actor /\ NextId(s).asked = s.asked /\ NextId(s).wire = s.wire
           /\ NextId(s).spoken = s.spoken /\ NextId(s).heard = s.heard
<1> DEFINE t == NextId(s)
<1>1. s \in States
  BY DEF ChannelOK, ConnPart
<1>2. /\ t.conn = s.conn /\ t.held = s.held /\ t.records = s.records /\ t.actor = s.actor
      /\ t.asked = s.asked /\ t.wire = s.wire /\ t.spoken = s.spoken /\ t.heard = s.heard
      /\ t.ids = s.ids + 1 /\ t \in States
  BY <1>1 DEF NextId, States
<1> HIDE DEF t
<1>3. ConnPart(t, m) /\ EventsPart(t) /\ RequestsPart(t) /\ TransPart(t) /\ RecordsPart(t)
  <2>1. ConnPart(s, m) /\ EventsPart(s) /\ RequestsPart(s) /\ TransPart(s) /\ RecordsPart(s)
    BY DEF ChannelOK
  <2>2. ConnPart(t, m)
    BY <1>2, <2>1 DEF ConnPart
  <2>3. EventsPart(t)
    BY <1>2, <2>1, Zenon DEF EventsPart
  <2>4. RequestsPart(t)
    <3> DEFINE h == s.conn.handle
               a == s.actor[h]
    <3>1. ReqOK(s.conn, s.asked[h], s.wire[h], a.out, a.cmds, s.held, a.phase, s.spoken[h])
      BY <2>1, ReqIs, Zenon
    <3>2. ReqOK(t.conn, t.asked[h], t.wire[h], t.actor[h].out, t.actor[h].cmds, t.held,
                t.actor[h].phase, t.spoken[h]) /\ t.conn.handle = h
      BY <1>2, <3>1, SMTT(40)
    <3> QED BY <3>2, ReqIs, Zenon
  <2>5. TransPart(t)
    BY <1>2, <2>1 DEF TransPart
  <2>6. RecordsPart(t)
    BY <1>2, <2>1, Zenon DEF RecordsPart
  <2> QED BY <2>2, <2>3, <2>4, <2>5, <2>6
<1> QED BY <1>2, <1>3 DEF ChannelOK, t

\* What is open is closed first.
LEMMA ClosedFirst ==
    ASSUME ChannelInv, MainIdle
    PROVE  LET s == IF conn.open THEN Close(State, 0) ELSE State IN
           /\ ChannelOK(s, made) /\ s \in States /\ ~s.conn.open
           /\ \A h \in Handles : s.actor[h].forwarder # "last"
           /\ conn.open => Shut(State, s, 0)
<1>1. CASE conn.open
  <2> DEFINE s == Close(State, 0)
  <2>1. ConnPart(State, made) /\ EventsPart(State) /\ State.conn.open
    BY <1>1, StateFields DEF ChannelInv, ChannelOK
  <2>2. ChannelOK(s, made) /\ s \in States /\ Shut(State, s, 0)
    BY <2>1, CloseOK
  <2>3. State.conn.handle \in Handles /\ State.conn.handle # 0
    BY <2>1, HandleOfOpen DEF Handles
  <2> HIDE DEF s
  <2>4. ~s.conn.open /\ \A h \in Handles : s.actor[h].forwarder # "last"
    BY <2>2, <2>3, StateFields DEF Shut, MainIdle
  <2> QED BY <1>1, <2>2, <2>4 DEF s
<1>2. CASE ~conn.open
  BY <1>2, StateFields, InvTypes DEF ChannelInv, MainIdle
<1> QED BY <1>1, <1>2

\* What Connect leaves, once what was open is closed.
OpenedState(s, h) == [s EXCEPT !.conn = Opened(h), !.actor[h] = Fresh]

\* A new handle is in order, whatever the last connection left recorded.
LEMMA OpensOK ==
    ASSUME NEW m, NEW s, ChannelOK(s, m), ~s.conn.open, m + 1 \in Handles,
           \A h \in Handles : s.actor[h].forwarder # "last"
    PROVE  LET t == OpenedState(s, m + 1) IN
           /\ ChannelOK(t, m + 1) /\ t \in States
           /\ t.conn.open /\ t.conn.handle = m + 1
           /\ t.asked = s.asked /\ t.wire = s.wire /\ t.spoken = s.spoken /\ t.heard = s.heard
           /\ t.actor = [s.actor EXCEPT ![m + 1] = Fresh]
           /\ s.asked[m + 1] = <<>> /\ s.wire[m + 1] = <<>>
           /\ s.spoken[m + 1] = <<>> /\ s.heard[m + 1] = <<>>
           /\ ~Live(s.actor[m + 1]) /\ s.actor[m + 1].forwarder = "gone"
<1> DEFINE h == m + 1
           t == OpenedState(s, h)
<1>1. /\ s \in States /\ m \in 0..MaxHandles /\ h > m
      /\ ConnPart(s, m) /\ EventsPart(s) /\ RequestsPart(s) /\ RecordsPart(s)
  BY DEF ChannelOK, ConnPart
<1>2. /\ s.actor[h].forwarder = "gone" /\ s.actor[h].phase = "none" /\ ~Live(s.actor[h])
      /\ s.asked[h] = <<>> /\ s.wire[h] = <<>>
  BY <1>1 DEF ConnPart, Live
<1>3. s.spoken[h] = <<>> /\ s.heard[h] = <<>>
  BY <1>1, <1>2 DEF EventsPart, ActorOK
<1>4. /\ Opened(h) \in Conns
      /\ Opened(h).open /\ Opened(h).handle = h /\ Opened(h).fetched = FALSE /\ Opened(h).trans = 0
  <2>1. h \in 0..MaxHandles
    BY <1>1, BoundsAssumption DEF Handles
  <2> HIDE DEF h
  <2>2. Closed \in Conns /\ Closed.fetched = FALSE /\ Closed.trans = 0
    BY ClosedConn DEF Closed
  <2>3. Opened(h) = [Closed EXCEPT !.open = TRUE, !.handle = h]
    BY DEF Opened
  <2> QED BY <2>1, <2>2, <2>3 DEF Conns
<1>5. /\ t.conn = Opened(h) /\ t.held = s.held /\ t.records = s.records /\ t.ids = s.ids
      /\ t.actor = [s.actor EXCEPT ![h] = Fresh] /\ t.asked = s.asked /\ t.wire = s.wire
      /\ t.spoken = s.spoken /\ t.heard = s.heard /\ t \in States
  <2> DEFINE B == [s.actor EXCEPT ![h] = Fresh]
             C == Opened(h)
  <2>1. t = [s EXCEPT !.conn = C, !.actor = B]
    BY Zenon DEF OpenedState
  <2>2. B \in [Handles -> Actors] /\ C \in [open : BOOLEAN, handle : 0..MaxHandles, fetched : BOOLEAN, trans : Nat]
    BY <1>1, <1>4, StateTypes, FreshOK DEF States, Conns
  <2> HIDE DEF B, C, t, h
  <2>3. t \in States /\ t.conn = C /\ t.actor = B
    BY <1>1, <2>1, <2>2 DEF States
  <2>4. /\ t.held = s.held /\ t.records = s.records /\ t.ids = s.ids /\ t.asked = s.asked
        /\ t.wire = s.wire /\ t.spoken = s.spoken /\ t.heard = s.heard
    BY <1>1, <2>1 DEF States
  <2> QED BY <2>3, <2>4, Zenon DEF B, C
<1> HIDE DEF t
<1>6. /\ t.actor \in [Handles -> Actors] /\ t.actor[h] = Fresh
      /\ \A g \in Handles \ {h} : t.actor[g] = s.actor[g]
  BY <1>1, <1>5, FreshOK DEF States
<1>7. t \in States
  BY <1>5
<1>8. h \in 0..MaxHandles /\ h \in 1..h /\ \A g \in Handles : g > h => g > m /\ g # h
  BY <1>1, BoundsAssumption DEF Handles
<1>9. ConnPart(t, h)
  <2>1. \A g \in Handles : ~Live(s.actor[g])
    BY <1>1 DEF ConnPart
  <2> QED BY <1>1, <1>2, <1>4, <1>5, <1>6, <1>7, <1>8, <2>1, FreshOK DEF ConnPart
<1>10. EventsPart(t)
  BY <1>1, <1>3, <1>5, <1>6, FreshOK, SMTT(40) DEF EventsPart
<1>11. s.held = <<>>
  BY <1>1 DEF RequestsPart
<1>12. RequestsPart(t)
  <2>1. <<>> \o (<<>> \o (<<>> \o <<>>)) = <<>> /\ Len(<<>>) = 0
    OBVIOUS
  <2>2. \A sp : sp = <<>> => \A n \in 1..Len(sp) : sp[n].what # "Reply"
    BY <2>1
  <2>3. ASSUME NEW c, c.open, ~c.fetched PROVE ReqOK(c, <<>>, <<>>, <<>>, <<>>, <<>>, "login", <<>>)
    BY <2>1, <2>2, <2>3, Zenon DEF ReqOK
  <2>4. ReqOK(t.conn, <<>>, <<>>, <<>>, <<>>, <<>>, "login", <<>>)
    BY <1>4, <1>5, <2>3, Zenon
  <2>5. /\ t.conn.handle = h /\ t.asked[h] = <<>> /\ t.wire[h] = <<>> /\ t.spoken[h] = <<>>
        /\ t.held = <<>>
    BY <1>2, <1>3, <1>4, <1>5, <1>11, Zenon
  <2>6. t.actor[h].out = <<>> /\ t.actor[h].cmds = <<>> /\ t.actor[h].phase = "login"
    BY <1>6, FreshOK
  <2> QED BY <2>4, <2>5, <2>6, ReqIs, Zenon
<1>13. TransPart(t)
  <2>1. Len(<<>>) = 0
    OBVIOUS
  <2> QED BY <1>2, <1>4, <1>5, <2>1 DEF TransPart
<1>14. RecordsPart(t)
  <2> SUFFICES ASSUME NEW r \in s.records PROVE RecordOK(r, <<>>, <<>>)
    BY <1>2, <1>3, <1>4, <1>5 DEF RecordsPart
  <2>1. r.kind \in {"after", "banner"}
    BY <1>1 DEF RecordsPart
  <2> QED BY <2>1 DEF RecordOK
<1>15. ChannelOK(t, h)
  BY <1>9, <1>10, <1>12, <1>13, <1>14 DEF ChannelOK
<1> QED BY <1>2, <1>3, <1>4, <1>5, <1>7, <1>15 DEF t

\* Connecting, with the connection there was closed first.
LEMMA ConnectStep ==
    ASSUME ChannelInv, Connect
    PROVE  ChannelInv'
<1> DEFINE s == IF conn.open THEN Close(State, 0) ELSE State
           h == made + 1
           t == OpenedState(s, h)
<1>1. MainIdle /\ h \in Handles /\ made' = h /\ Becomes(t)
  BY DEF Connect, OpenedState
<1>2. ChannelOK(s, made) /\ ~s.conn.open /\ \A g \in Handles : s.actor[g].forwarder # "last"
  BY <1>1, ClosedFirst
<1> HIDE DEF s
<1>3. ChannelOK(t, h) /\ t \in States
  BY <1>1, <1>2, OpensOK
<1> HIDE DEF t
<1>4. State' = t
  BY <1>1, <1>3, BecomesOK
<1> QED BY <1>1, <1>3, <1>4 DEF ChannelInv

\* A connect that fails leaves no connection.
LEMMA ConnectFailsStep ==
    ASSUME ChannelInv, ConnectFails
    PROVE  ChannelInv'
<1> DEFINE s == IF conn.open THEN Close(State, 0) ELSE State
           t == [s EXCEPT !.conn = Closed]
<1>1. MainIdle /\ made' = made /\ Becomes(t)
  BY DEF ConnectFails
<1>2. ChannelOK(s, made) /\ ~s.conn.open /\ s \in States
  BY <1>1, ClosedFirst
<1> HIDE DEF s
<1>3. /\ Closed \in [open : BOOLEAN, handle : 0..MaxHandles, fetched : BOOLEAN, trans : Nat]
      /\ ~Closed.open
  BY BoundsAssumption DEF Closed
<1>4. /\ t.conn = Closed /\ t.held = s.held /\ t.records = s.records /\ t.ids = s.ids
      /\ t.actor = s.actor /\ t.asked = s.asked /\ t.wire = s.wire
      /\ t.spoken = s.spoken /\ t.heard = s.heard /\ t \in States
  BY <1>2, <1>3, Zenon DEF States
<1> HIDE DEF t
<1>5. ConnPart(t, made) /\ EventsPart(t)
  BY <1>2, <1>3, <1>4 DEF ChannelOK, ConnPart, EventsPart
<1>6. RequestsPart(t) /\ TransPart(t) /\ RecordsPart(t)
  BY <1>2, <1>3, <1>4, Zenon DEF ChannelOK, RequestsPart, TransPart, RecordsPart
<1>7. State' = t
  BY <1>1, <1>4, BecomesOK
<1> QED BY <1>1, <1>5, <1>6, <1>7 DEF ChannelInv, ChannelOK

\* Disconnecting.
LEMMA DisconnectStep ==
    ASSUME ChannelInv, Disconnect
    PROVE  ChannelInv'
<1>1. conn.open /\ Becomes(Close(State, 0)) /\ made' = made
  BY DEF Disconnect
<1>2. ChannelOK(Close(State, 0), made) /\ Close(State, 0) \in States
  BY <1>1, CloseOK, StateFields DEF ChannelInv, ChannelOK
<1>3. State' = Close(State, 0)
  BY <1>1, <1>2, BecomesOK
<1> QED BY <1>1, <1>2, <1>3 DEF ChannelInv

\* The next request is within the bound.
LEMMA NextIdBound ==
    ASSUME ChannelInv, ids < MaxRequests
    PROVE  ids + 1 \in 0..MaxRequests
  BY InvTypes, BoundsAssumption

\* A request from the user interface.
LEMMA AskStep ==
    ASSUME ChannelInv, NEW kind \in Asks, Ask(kind)
    PROVE  ChannelInv'
<1> DEFINE s == NextId(State)
           t == Request(s, kind, ids + 1, 0)
<1>1. conn.open /\ ids < MaxRequests /\ Becomes(t) /\ made' = made /\ kind \in Kinds
  BY AsksAssumption DEF Ask
<1>2. ids + 1 \in 0..MaxRequests
  BY <1>1, NextIdBound
<1>3. ChannelOK(s, made) /\ s.conn = conn
  BY <1>2, NextIdOK, StateFields DEF ChannelInv
<1> HIDE DEF s
<1>4. ChannelOK(t, made) /\ t \in States
  BY <1>1, <1>2, <1>3, RequestOK
<1> HIDE DEF t
<1>5. State' = t
  BY <1>1, <1>4, BecomesOK
<1> QED BY <1>1, <1>4, <1>5 DEF ChannelInv

\* A reserved number keeps what is said of connections and events.
LEMMA ReserveOK ==
    ASSUME NEW m, NEW s, ConnPart(s, m), EventsPart(s), s.conn.open
    PROVE  ConnPart(Reserve(s), m) /\ EventsPart(Reserve(s)) /\ Reserve(s).conn.open
<1> DEFINE h == s.conn.handle
           t == Reserve(s)
<1>1. s \in States /\ h \in Handles
  BY HandleOfOpen DEF ConnPart
<1>2. /\ t \in States
      /\ t.conn.open = s.conn.open /\ t.conn.handle = s.conn.handle
      /\ t.asked = s.asked /\ t.wire = s.wire /\ t.spoken = s.spoken /\ t.heard = s.heard
      /\ SameTalk(s.actor[h], t.actor[h]) /\ t.actor[h].cmds = s.actor[h].cmds
      /\ \A g \in Handles \ {h} : t.actor[g] = s.actor[g]
  BY <1>1, ReserveFields
<1> HIDE DEF t
<1>3. ConnPart(t, m)
  <2>1. \A g \in Handles : /\ t.actor[g].phase = s.actor[g].phase
                           /\ t.actor[g].forwarder = s.actor[g].forwarder
                           /\ Live(t.actor[g]) <=> Live(s.actor[g])
    BY <1>2 DEF SameTalk, Live
  <2> QED BY <1>2, <2>1 DEF ConnPart
<1>4. EventsPart(t)
  <2>1. ActorOK(s.actor[h], s.spoken[h], s.heard[h])
    BY <1>1 DEF EventsPart
  <2>2. ActorOK(t.actor[h], s.spoken[h], s.heard[h])
    <3>1. Len(t.actor[h].cmds) <= CommandCapacity
      BY <1>2, <2>1 DEF ActorOK
    <3> QED BY <1>2, <2>1, <3>1, QuietOK, SMTT(40)
  <2> QED BY <1>2, <2>2 DEF EventsPart
<1> QED BY <1>2, <1>3, <1>4 DEF t

\* A request that cannot be packed closes the connection.
LEMMA AskUnpackableStep ==
    ASSUME ChannelInv, AskUnpackable
    PROVE  ChannelInv'
<1> DEFINE s == NextId(State)
           r == Reserve(s)
           t == Close(r, 0)
<1>1. conn.open /\ ids < MaxRequests /\ Becomes(t) /\ made' = made
  BY DEF AskUnpackable
<1>2. ids + 1 \in 0..MaxRequests
  BY <1>1, NextIdBound
<1>3. ChannelOK(s, made) /\ s.conn = conn
  BY <1>2, NextIdOK, StateFields DEF ChannelInv
<1> HIDE DEF s
<1>4. ConnPart(r, made) /\ EventsPart(r) /\ r.conn.open
  BY <1>1, <1>3, ReserveOK DEF ChannelOK
<1> HIDE DEF r
<1>5. ChannelOK(t, made) /\ t \in States
  BY <1>4, CloseOK
<1> HIDE DEF t
<1>6. State' = t
  BY <1>1, <1>5, BecomesOK, SMTT(40)
<1> QED BY <1>1, <1>5, <1>6 DEF ChannelInv

\* What the login's answer does to the records.
LEMMA ForgetFields ==
    ASSUME NEW s \in States
    PROVE  LET t == Forget(s, TRUE) IN
           /\ t \in States /\ t.records = {r \in s.records : r.kind = "banner"}
           /\ t.conn = s.conn /\ t.held = s.held /\ t.actor = s.actor /\ t.ids = s.ids
           /\ t.asked = s.asked /\ t.wire = s.wire /\ t.spoken = s.spoken /\ t.heard = s.heard
  BY DEF Forget, States

\* What naming a request changes.
LEMMA NextIdFields ==
    ASSUME NEW s \in States, s.ids + 1 \in 0..MaxRequests
    PROVE  LET t == NextId(s) IN
           /\ t \in States /\ t.records = s.records
           /\ t.conn = s.conn /\ t.held = s.held /\ t.actor = s.actor
           /\ t.asked = s.asked /\ t.wire = s.wire /\ t.spoken = s.spoken /\ t.heard = s.heard
  BY DEF NextId, States

\* A callback's event, where it is the session's.
LEMMA SessionEvent ==
    ASSUME ChannelInv, NEW h \in Handles, Polls(h), NextEvent(h).what # "Shutdown"
    PROVE  NextEvent(h) \in Said
<1>1. actor[h].ferry \in Seq(Event) /\ actor[h].ferry # <<>>
  BY LiveFacts, PollFacts DEF Actors
<1>2. NextEvent(h) \in Event
  BY <1>1 DEF NextEvent
<1> QED BY <1>2, EventKinds

\* The callback of a login: the records of an earlier connect go.
LEMMA OnLoggedInStep ==
    ASSUME ChannelInv, NEW h \in Handles, NEW friends \in BOOLEAN, OnLoggedIn(h, friends)
    PROVE  ChannelInv'
<1> DEFINE e == NextEvent(h)
           y == Heard(h)
           x == Forget(y, TRUE)
<1>1. Polls(h) /\ e.what = "LoggedIn" /\ made' = made
      /\ Becomes(IF Installed(h) THEN Roster(x, h, friends) ELSE y)
  BY DEF OnLoggedIn
<1>2. e \in Said /\ actor[h].ferry # <<>>
  BY <1>1, SessionEvent, PollFacts
<1>3. /\ y \in States
      /\ y.conn = conn /\ y.held = held /\ y.records = records /\ y.ids = ids
      /\ y.asked = asked /\ y.wire = wire /\ y.spoken = spoken
      /\ y.heard = [heard EXCEPT ![h] = Append(@, NextEvent(h))]
      /\ y.actor = [actor EXCEPT ![h] = [actor[h] EXCEPT !.ferry = Tail(@)]]
  BY <1>2, HeardFields
<1>4. /\ x \in States /\ x.records = {r \in y.records : r.kind = "banner"}
      /\ x.conn = y.conn /\ x.held = y.held /\ x.actor = y.actor /\ x.ids = y.ids
      /\ x.asked = y.asked /\ x.wire = y.wire /\ x.spoken = y.spoken /\ x.heard = y.heard
  BY <1>3, ForgetFields
<1>5. CASE ~Installed(h)
  <2> HIDE DEF y
  <2>1. ChannelOK(y, made)
    BY <1>1, <1>2, <1>3, <1>5, HearStep
  <2>2. State' = y
    BY <1>1, <1>3, <1>5, BecomesOK
  <2> QED BY <1>1, <2>1, <2>2 DEF ChannelInv
<1> DEFINE asks == friends /\ ids < MaxRequests
           z == NextId(x)
           t == Request(z, "first", ids + 1, h)
<1>6. CASE Installed(h) /\ ~asks
  <2>1. Becomes(x)
    BY <1>1, <1>6 DEF Roster
  <2> HIDE DEF x, y
  <2>2. ChannelOK(x, made)
    BY <1>1, <1>2, <1>3, <1>4, HearStep
  <2>3. State' = x
    BY <1>4, <2>1, BecomesOK
  <2> QED BY <1>1, <2>2, <2>3 DEF ChannelInv
<1>7. CASE Installed(h) /\ asks
  <2>1. Becomes(t)
    BY <1>1, <1>7 DEF Roster
  <2>2. ids + 1 \in 0..MaxRequests
    BY <1>7, NextIdBound
  <2> HIDE DEF x, y
  <2>3. /\ z \in States /\ z.records = x.records
        /\ z.conn = x.conn /\ z.held = x.held /\ z.actor = x.actor
        /\ z.asked = x.asked /\ z.wire = x.wire /\ z.spoken = x.spoken /\ z.heard = x.heard
    BY <1>3, <1>4, <2>2, NextIdFields
  <2> HIDE DEF z
  <2>4. ChannelOK(z, made)
    BY <1>1, <1>2, <1>3, <1>4, <2>3, HearStep, SMTT(40)
  <2>5. z.conn.open /\ "first" \in Kinds
    BY <1>3, <1>4, <1>7, <2>3 DEF Installed, Kinds
  <2>6. ChannelOK(t, made) /\ t \in States
    BY <2>2, <2>4, <2>5, RequestOK
  <2> HIDE DEF t
  <2>7. State' = t
    BY <2>1, <2>6, BecomesOK
  <2> QED BY <1>1, <2>6, <2>7 DEF ChannelInv
<1> QED BY <1>5, <1>6, <1>7

\* What the end of the login changes.
LEMMA SettledFields ==
    ASSUME NEW s \in States
    PROVE  LET t == [s EXCEPT !.conn.fetched = TRUE] IN
           /\ t \in States /\ t.conn.open = s.conn.open /\ t.conn.handle = s.conn.handle
           /\ t.conn.trans = s.conn.trans /\ t.conn.fetched = TRUE
           /\ t.records = s.records /\ t.held = s.held /\ t.actor = s.actor /\ t.ids = s.ids
           /\ t.asked = s.asked /\ t.wire = s.wire /\ t.spoken = s.spoken /\ t.heard = s.heard
<1>1. s.conn \in [open : BOOLEAN, handle : 0..MaxHandles, fetched : BOOLEAN, trans : Nat]
  BY DEF States
<1> DEFINE c == [s.conn EXCEPT !.fetched = TRUE]
           t == [s EXCEPT !.conn.fetched = TRUE]
<1>2. /\ c \in [open : BOOLEAN, handle : 0..MaxHandles, fetched : BOOLEAN, trans : Nat]
      /\ c.open = s.conn.open /\ c.handle = s.conn.handle /\ c.trans = s.conn.trans /\ c.fetched = TRUE
  BY <1>1
<1>3. t = [s EXCEPT !.conn = c]
  BY Zenon
<1> HIDE DEF t, c
<1>4. t \in States /\ t.conn = c
  BY <1>2, <1>3 DEF States
<1>5. /\ t.records = s.records /\ t.held = s.held /\ t.actor = s.actor /\ t.ids = s.ids
      /\ t.asked = s.asked /\ t.wire = s.wire /\ t.spoken = s.spoken /\ t.heard = s.heard
  BY <1>3 DEF States
<1> QED BY <1>2, <1>4, <1>5 DEF t

\* The callback of the session's end of login.
LEMMA OnReadyStep ==
    ASSUME ChannelInv, NEW h \in Handles, OnReady(h)
    PROVE  ChannelInv'
<1> DEFINE e == NextEvent(h)
           y == Heard(h)
           x == [y EXCEPT !.conn.fetched = TRUE]
           t == Request(x, "plain", 0, h)
<1>1. Polls(h) /\ e.what = "Ready" /\ made' = made /\ Becomes(PostLoginFetches(y, h))
  BY DEF OnReady
<1>2. e \in Said /\ actor[h].ferry # <<>>
  BY <1>1, SessionEvent, PollFacts
<1>3. /\ y \in States
      /\ y.conn = conn /\ y.held = held /\ y.records = records /\ y.ids = ids
      /\ y.asked = asked /\ y.wire = wire /\ y.spoken = spoken
      /\ y.heard = [heard EXCEPT ![h] = Append(@, NextEvent(h))]
      /\ y.actor = [actor EXCEPT ![h] = [actor[h] EXCEPT !.ferry = Tail(@)]]
  BY <1>2, HeardFields
<1>4. /\ x \in States /\ x.conn.open = y.conn.open /\ x.conn.handle = y.conn.handle
      /\ x.conn.trans = y.conn.trans /\ x.conn.fetched = TRUE
      /\ x.records = y.records /\ x.held = y.held /\ x.actor = y.actor /\ x.ids = y.ids
      /\ x.asked = y.asked /\ x.wire = y.wire /\ x.spoken = y.spoken /\ x.heard = y.heard
  BY <1>3, SettledFields
<1>5. ChannelOK(y, made)
  <2> HIDE DEF y
  <2> QED BY <1>1, <1>2, <1>3, HearStep
<1>6. ChannelOK(x, made)
  <2> HIDE DEF x, y
  <2> QED BY <1>1, <1>2, <1>3, <1>4, HearStep, ZenonT(40)
<1>7. CASE conn.fetched
  <2>1. Becomes(y)
    BY <1>1, <1>3, <1>7 DEF PostLoginFetches
  <2> QED BY <1>1, <1>3, <1>5, <2>1, BecomesOK DEF ChannelInv
<1>8. CASE ~conn.fetched /\ ~conn.open
  <2>1. Becomes(x)
    BY <1>1, <1>3, <1>8 DEF PostLoginFetches
  <2> QED BY <1>1, <1>4, <1>6, <2>1, BecomesOK DEF ChannelInv
<1>9. CASE ~conn.fetched /\ conn.open
  <2>1. Becomes(t)
    BY <1>1, <1>3, <1>9 DEF PostLoginFetches
  <2>2. x.conn.open /\ "plain" \in Kinds /\ 0 \in 0..MaxRequests
    <3>1. x.conn.open
      BY <1>3, <1>4, <1>9, Zenon
    <3>2. "plain" \in Kinds /\ 0 \in 0..MaxRequests
      BY BoundsAssumption DEF Kinds
    <3> QED BY <3>1, <3>2
  <2> HIDE DEF x
  <2>3. ChannelOK(t, made) /\ t \in States
    BY <1>6, <2>2, RequestOK
  <2> QED BY <1>1, <2>1, <2>3, BecomesOK DEF ChannelInv
<1> QED BY <1>7, <1>8, <1>9

\* What forgetting records changes.
LEMMA RecordsFields ==
    ASSUME NEW s \in States, NEW M
    PROVE  LET t == [s EXCEPT !.records = @ \ M] IN
           /\ t \in States /\ t.records = s.records \ M
           /\ t.conn = s.conn /\ t.held = s.held /\ t.actor = s.actor /\ t.ids = s.ids
           /\ t.asked = s.asked /\ t.wire = s.wire /\ t.spoken = s.spoken /\ t.heard = s.heard
  BY DEF States

\* The callback of a reply.
LEMMA OnReplyStep ==
    ASSUME ChannelInv, NEW h \in Handles, NEW again \in BOOLEAN, OnReply(h, again)
    PROVE  ChannelInv'
<1> DEFINE e == NextEvent(h)
           y == Heard(h)
           x == [y EXCEPT !.records = @ \ Matching(e)]
           renames == /\ again /\ e.ok /\ ids < MaxRequests
                      /\ \E r \in Acting(e) : r.kind = "after"
           z == NextId(x)
           t == Request(z, "plain", ids + 1, h)
<1>1. Polls(h) /\ e.what = "Reply" /\ made' = made
      /\ Becomes(IF ~Installed(h) THEN y ELSE IF renames THEN t ELSE x)
  BY DEF OnReply
<1>2. e \in Said /\ actor[h].ferry # <<>>
  BY <1>1, SessionEvent, PollFacts
<1>3. /\ y \in States
      /\ y.conn = conn /\ y.held = held /\ y.records = records /\ y.ids = ids
      /\ y.asked = asked /\ y.wire = wire /\ y.spoken = spoken
      /\ y.heard = [heard EXCEPT ![h] = Append(@, NextEvent(h))]
      /\ y.actor = [actor EXCEPT ![h] = [actor[h] EXCEPT !.ferry = Tail(@)]]
  BY <1>2, HeardFields
<1>4. /\ x \in States /\ x.records = y.records \ Matching(e)
      /\ x.conn = y.conn /\ x.held = y.held /\ x.actor = y.actor /\ x.ids = y.ids
      /\ x.asked = y.asked /\ x.wire = y.wire /\ x.spoken = y.spoken /\ x.heard = y.heard
  BY <1>3, RecordsFields
<1>5. CASE ~Installed(h)
  <2>1. State' = y
    BY <1>1, <1>3, <1>5, BecomesOK
  <2> HIDE DEF y
  <2>2. ChannelOK(y, made)
    BY <1>1, <1>2, <1>3, <1>5, HearStep
  <2> QED BY <1>1, <2>1, <2>2 DEF ChannelInv
<1> HIDE DEF renames
<1>6. CASE Installed(h) /\ ~renames
  <2>1. State' = x
    BY <1>1, <1>4, <1>6, BecomesOK
  <2> HIDE DEF x, y
  <2>2. ChannelOK(x, made)
    BY <1>1, <1>2, <1>3, <1>4, HearStep
  <2> QED BY <1>1, <2>1, <2>2 DEF ChannelInv
<1>7. CASE Installed(h) /\ renames
  <2>1. Becomes(t)
    BY <1>1, <1>7
  <2>2. ids + 1 \in 0..MaxRequests
    BY <1>7, NextIdBound DEF renames
  <2> HIDE DEF x, y
  <2>3. /\ z \in States /\ z.records = x.records
        /\ z.conn = x.conn /\ z.held = x.held /\ z.actor = x.actor
        /\ z.asked = x.asked /\ z.wire = x.wire /\ z.spoken = x.spoken /\ z.heard = x.heard
    BY <1>3, <1>4, <2>2, NextIdFields
  <2> HIDE DEF z
  <2>4. ChannelOK(z, made)
    BY <1>1, <1>2, <1>3, <1>4, <2>3, HearStep, ZenonT(40)
  <2>5. z.conn.open /\ "plain" \in Kinds
    BY <1>3, <1>4, <1>7, <2>3 DEF Installed, Kinds
  <2>6. ChannelOK(t, made) /\ t \in States
    BY <2>2, <2>4, <2>5, RequestOK
  <2> HIDE DEF t
  <2>7. State' = t
    BY <2>1, <2>6, BecomesOK
  <2> QED BY <1>1, <2>6, <2>7 DEF ChannelInv
<1> QED BY <1>5, <1>6, <1>7

\* The callback of the actor's end.
LEMMA OnShutdownStep ==
    ASSUME ChannelInv, NEW h \in Handles, OnShutdown(h)
    PROVE  ChannelInv'
<1> DEFINE y == Taken(h)
           a == actor[h]
           b == [a EXCEPT !.ferry = Tail(@)]
<1>1. /\ Polls(h) /\ NextEvent(h).what = "Shutdown" /\ made' = made
      /\ Becomes(IF Installed(h) THEN Close(y, h) ELSE y)
      /\ a.ferry # <<>> /\ a.forwarder # "gone"
  BY PollFacts DEF OnShutdown
<1>2. /\ y \in States
      /\ y.conn = conn /\ y.held = held /\ y.records = records /\ y.ids = ids
      /\ y.asked = asked /\ y.wire = wire /\ y.spoken = spoken /\ y.heard = heard
      /\ y.actor = [actor EXCEPT ![h] = b] /\ b \in Actors
  BY <1>1, TakenFields
<1>3. Last(Head(a.ferry))
  BY <1>1 DEF Last, NextEvent
<1>4. ActorOK(b, spoken[h], heard[h])
  BY <1>1, <1>2, <1>3, LiveFacts, TakenOK, SMTT(40)
<1>5. b.phase = a.phase /\ b.forwarder = a.forwarder
  BY LiveFacts DEF Actors
<1> HIDE DEF b, y
<1>6. y.actor[h] = b /\ \A g \in Handles \ {h} : y.actor[g] = actor[g]
  BY <1>2, InvTypes
<1>7. ConnPart(y, made)
  <2>1. ConnPart(State, made)
    BY DEF ChannelInv, ChannelOK
  <2>2. \A g \in Handles : /\ y.actor[g].phase = actor[g].phase
                           /\ y.actor[g].forwarder = actor[g].forwarder
                           /\ Live(y.actor[g]) <=> Live(actor[g])
    BY <1>5, <1>6 DEF Live
  <2> QED BY <1>2, <2>1, <2>2, StateFields DEF ConnPart
<1>8. EventsPart(y)
  BY <1>2, <1>4, <1>6, LiveFacts DEF EventsPart
<1>9. CASE Installed(h)
  <2>1. Becomes(Close(y, h)) /\ y.conn.open
    BY <1>1, <1>2, <1>9 DEF Installed
  <2>2. ChannelOK(Close(y, h), made) /\ Close(y, h) \in States
    BY <1>7, <1>8, <2>1, CloseOK
  <2>3. State' = Close(y, h)
    BY <2>1, <2>2, BecomesOK
  <2> QED BY <1>1, <2>2, <2>3 DEF ChannelInv
<1>10. CASE ~Installed(h)
  <2>1. ~conn.open
    BY <1>1, <1>10, PollFacts, SMTT(40)
  <2>2. RequestsPart(y) /\ TransPart(y) /\ RecordsPart(y)
    BY <1>2, <2>1, StateFields DEF ChannelInv, ChannelOK, RequestsPart, TransPart, RecordsPart
  <2>3. State' = y
    BY <1>1, <1>2, <1>10, BecomesOK
  <2> QED BY <1>1, <1>7, <1>8, <2>2, <2>3 DEF ChannelInv, ChannelOK
<1> QED BY <1>9, <1>10

\* The last callback of a connection closed within it.
LEMMA PollEndsStep ==
    ASSUME ChannelInv, NEW h \in Handles, PollEnds(h)
    PROVE  ChannelInv'
<1> DEFINE a == actor[h]
           b == [a EXCEPT !.forwarder = "gone", !.evt = <<>>]
           t == State'
<1>1. a \in Actors /\ ActorOK(a, spoken[h], heard[h]) /\ a.forwarder = "last" /\ a.ferry = <<>>
  BY LiveFacts DEF PollEnds
<1>2. /\ actor' = [actor EXCEPT ![h] = b] /\ spoken' = [spoken EXCEPT ![h] = <<>>]
      /\ heard' = [heard EXCEPT ![h] = <<>>] /\ conn' = conn /\ held' = held
      /\ records' = records /\ made' = made /\ ids' = ids /\ asked' = asked /\ wire' = wire
  BY InvTypes DEF PollEnds, mainVars
<1>3. b \in Actors /\ b.forwarder = "gone" /\ b.evt = <<>> /\ b.ferry = <<>> /\ b.phase = a.phase
      /\ b.said = a.said /\ b.hand = a.hand /\ b.cmds = a.cmds
  BY <1>1 DEF Actors
<1>4. ~Live(a) /\ ~Running(a) /\ ~conn.open /\ a.phase = "gone"
  <2>1. a.forwarder = "last" => ~conn.open
    BY StateFields DEF ChannelInv, ChannelOK, ConnPart
  <2> QED BY <1>1, <2>1 DEF ActorOK, Live, Running
<1> HIDE DEF b
<1>5. ActorOK(b, <<>>, <<>>)
  <2>1. Len(b.cmds) <= CommandCapacity /\ Len(b.evt) <= EventCapacity /\ Len(b.ferry) <= FerryCapacity
    BY <1>1, <1>3, CapacitiesAssumption DEF ActorOK
  <2>2. ~Live(b) /\ ~Running(b)
    BY <1>3, <1>4 DEF Live, Running
  <2>3. b.said = <<>> /\ \A side \in Sides : b.hand[side] = NoEvent
    BY <1>1, <1>3, <1>4 DEF ActorOK
  <2> QED BY <1>3, <1>4, <2>1, <2>2, <2>3 DEF ActorOK
<1>6. /\ actor'[h] = b /\ spoken'[h] = <<>> /\ heard'[h] = <<>>
      /\ \A g \in Handles \ {h} : actor'[g] = actor[g] /\ spoken'[g] = spoken[g] /\ heard'[g] = heard[g]
      /\ actor' \in [Handles -> Actors] /\ spoken' \in [Handles -> Seq(Said)]
      /\ heard' \in [Handles -> Seq(Said)]
  BY <1>2, <1>3, InvTypes
<1>7. /\ t.conn = conn /\ t.held = held /\ t.records = records /\ t.ids = ids
      /\ t.actor = actor' /\ t.asked = asked /\ t.wire = wire /\ t.spoken = spoken' /\ t.heard = heard'
  BY <1>2 DEF State
<1>8. t \in States
  BY <1>2, <1>6, InvTypes DEF State, States
<1> HIDE DEF t
<1>9. ConnPart(t, made)
  <2>1. ConnPart(State, made)
    BY DEF ChannelInv, ChannelOK
  <2>2. ~Live(b) /\ b.forwarder = "gone" /\ b.phase = actor[h].phase
    BY <1>3, <1>4 DEF Live
  <2>3. ASSUME NEW g \in Handles
        PROVE  /\ ~Live(actor[g]) /\ asked[g] = <<>> /\ wire[g] = <<>>
               /\ g > made => actor[g].forwarder = "gone" /\ actor[g].phase = "none"
    BY <1>4, <2>1, StateFields DEF ConnPart
  <2>4. ~(h > made)
    BY <1>1, <2>3
  <2>5. ASSUME NEW g \in Handles
        PROVE  /\ ~Live(t.actor[g]) /\ t.asked[g] = <<>> /\ t.wire[g] = <<>>
               /\ g > made => t.actor[g].forwarder = "gone" /\ t.actor[g].phase = "none"
    <3>1. CASE g = h
      BY <1>6, <1>7, <2>2, <2>3, <2>4, <3>1, Zenon
    <3>2. CASE g # h
      <4>1. t.actor[g] = actor[g] /\ t.asked[g] = asked[g] /\ t.wire[g] = wire[g]
        BY <1>6, <1>7, <3>2
      <4> QED BY <2>3, <4>1, Zenon
    <3> QED BY <3>1, <3>2
  <2>6. made \in 0..MaxHandles /\ ~t.conn.open
    BY <1>4, <1>7, InvTypes
  <2> QED BY <1>8, <2>5, <2>6, Zenon DEF ConnPart
<1>10. EventsPart(t)
  <2> SUFFICES ASSUME NEW g \in Handles PROVE ActorOK(t.actor[g], t.spoken[g], t.heard[g])
    BY Zenon DEF EventsPart
  <2>1. CASE g = h
    BY <1>5, <1>6, <1>7, <2>1, Zenon
  <2>2. CASE g # h
    <3>1. t.actor[g] = actor[g] /\ t.spoken[g] = spoken[g] /\ t.heard[g] = heard[g]
      BY <1>6, <1>7, <2>2
    <3> QED BY <3>1, LiveFacts, Zenon
  <2> QED BY <2>1, <2>2
<1>11. RequestsPart(t) /\ TransPart(t) /\ RecordsPart(t)
  BY <1>4, <1>7, StateFields DEF ChannelInv, ChannelOK, RequestsPart, TransPart, RecordsPart
<1> QED BY <1>2, <1>9, <1>10, <1>11 DEF ChannelInv, ChannelOK, t

\* At the start no handle has been made.
LEMMA InitOK == Init => ChannelInv
<1> SUFFICES ASSUME Init PROVE ChannelInv
  OBVIOUS
<1>1. /\ conn = Closed /\ held = <<>> /\ records = {} /\ actor = [h \in Handles |-> NoActor]
      /\ made = 0 /\ ids = 0 /\ asked = Nothing /\ wire = Nothing /\ spoken = Nothing /\ heard = Nothing
  BY DEF Init
<1>2. /\ Closed \in [open : BOOLEAN, handle : 0..MaxHandles, fetched : BOOLEAN, trans : Nat]
      /\ ~Closed.open
  BY BoundsAssumption DEF Closed
<1>3. /\ Nothing \in [Handles -> Seq(Frame)] /\ Nothing \in [Handles -> Seq(Said)]
      /\ \A h \in Handles : Nothing[h] = <<>>
  BY DEF Nothing
<1>4. State \in States /\ made \in 0..MaxHandles
  <2>1. actor \in [Handles -> Actors]
    BY <1>1, NoActorOK
  <2>2. ids \in 0..MaxRequests /\ made \in 0..MaxHandles
    BY <1>1, BoundsAssumption
  <2> HIDE DEF Nothing, Closed
  <2> QED BY <1>1, <1>2, <1>3, <2>1, <2>2 DEF State, States
<1>5. \A h \in Handles : actor[h] = NoActor /\ ~Live(actor[h])
  BY <1>1, NoActorOK DEF Live
<1>6. ConnPart(State, made)
  BY <1>1, <1>2, <1>3, <1>4, <1>5, NoActorOK, StateFields DEF ConnPart
<1>7. ActorOK(NoActor, <<>>, <<>>)
  <2>1. ~Live(NoActor) /\ ~Running(NoActor) /\ Len(<<>>) = 0
    BY NoActorOK DEF Live, Running
  <2> QED BY <2>1, NoActorOK, CapacitiesAssumption DEF ActorOK
<1>8. EventsPart(State)
  BY <1>1, <1>3, <1>5, <1>7, StateFields DEF EventsPart
<1>9. RequestsPart(State) /\ TransPart(State) /\ RecordsPart(State)
  BY <1>1, <1>2, StateFields DEF RequestsPart, TransPart, RecordsPart
<1> QED BY <1>6, <1>8, <1>9 DEF ChannelInv, ChannelOK

\* No step breaks the invariant.
LEMMA NextOK == ChannelInv /\ [Next]_vars => ChannelInv'
<1> SUFFICES ASSUME ChannelInv, [Next]_vars PROVE ChannelInv'
  OBVIOUS
<1>1. CASE UserStep
  BY <1>1, ConnectStep, ConnectFailsStep, DisconnectStep, AskStep, AskUnpackableStep DEF UserStep
<1>2. CASE \E h \in Handles : TaskStep(h)
  BY <1>2, TaskStepOK
<1>3. CASE \E h \in Handles : Callback(h)
  BY <1>3, OnLoggedInStep, OnReadyStep, OnReplyStep, OnShutdownStep, PollEndsStep DEF Callback
<1>4. CASE UNCHANGED vars
  <2>1. State' = State /\ made' = made
    BY <1>4 DEF vars, mainVars, histories, State
  <2> QED BY <2>1 DEF ChannelInv
<1>5. CASE \E h \in Handles : WriteStalls(h)
  <2>1. State' = State /\ made' = made
    BY <1>5 DEF WriteStalls, mainVars, histories, State
  <2> QED BY <2>1 DEF ChannelInv
<1> QED BY <1>1, <1>2, <1>3, <1>4, <1>5 DEF Next

\* Only handles are stalled.
StalledInv == stalled \subseteq Handles

\* A step of a task stalls nothing, one of the main thread ends what was stalled, and a
\* write that waits is a handle's.
LEMMA StalledOK == StalledInv /\ [Next]_vars => StalledInv'
<1> SUFFICES ASSUME StalledInv, [Next]_vars PROVE stalled' \subseteq Handles
  BY DEF StalledInv
<1>1. ASSUME NEW s, Becomes(s) PROVE stalled' \subseteq Handles
  BY <1>1 DEF Becomes, StalledInv
<1>2. CASE UserStep
  BY <1>1, <1>2 DEF UserStep, Connect, ConnectFails, Disconnect, Ask, AskUnpackable
<1>3. CASE \E h \in Handles : TaskStep(h)
  <2>1. PICK h \in Handles : TaskStep(h)
    BY <1>3
  <2>2. ASSUME UNCHANGED actorElse PROVE stalled' \subseteq Handles
    BY <2>2 DEF actorElse, StalledInv
  <2>3. CASE LogIn(h) \/ TakeCommand(h) \/ Write(h) \/ StreamEnds(h) \/ SendShutdown(h) \/ Pump(h)
    BY <2>2, <2>3, Zenon DEF LogIn, TakeCommand, Write, StreamEnds, SendShutdown, Pump
  <2>4. ASSUME NEW side \in Sides,
               Settle(h, side) \/ SessionCloses(h, side) \/ Pop(h, side) \/ HandOn(h, side)
               \/ TurnEnds(h, side)
        PROVE  stalled' \subseteq Handles
    BY <2>2, <2>4, Zenon DEF Settle, SessionCloses, Pop, HandOn, TurnEnds
  <2>5. ASSUME NEW i \in 1..Len(wire[h]), NEW ok \in BOOLEAN, Answer(h, i, ok)
        PROVE  stalled' \subseteq Handles
    BY <2>2, <2>5, Zenon DEF Answer, Feed
  <2> QED BY <2>1, <2>3, <2>4, <2>5, Zenon DEF TaskStep
<1>4. CASE \E h \in Handles : Callback(h)
  BY <1>1, <1>4 DEF Callback, OnLoggedIn, OnReady, OnReply, OnShutdown, PollEnds, StalledInv
<1>5. CASE \E h \in Handles : WriteStalls(h)
  BY <1>5 DEF WriteStalls, StalledInv
<1>6. CASE UNCHANGED vars
  BY <1>6 DEF vars, StalledInv
<1> QED BY <1>2, <1>3, <1>4, <1>5, <1>6 DEF Next

\* The invariant is what the run checks, and more.
LEMMA InvImplies == ChannelInv /\ StalledInv => RepliesFindTheirRequest
<1> SUFFICES ASSUME ChannelInv, StalledInv PROVE RepliesFindTheirRequest
  OBVIOUS
<1>1. TypeOK
  <2>1. ASSUME NEW h \in Handles
        PROVE  LET a == actor[h] IN
               /\ a.phase \in {"none", "login", "in", "ready", "ending", "ended", "gone"}
               /\ a.next \in Nat \ {0} /\ a.wants \subseteq Sides
               /\ a.turn \in Sides \cup {"none"}
               /\ a.hand \in [Sides -> Said \cup {NoEvent}]
               /\ a.forwarder \in {"live", "last", "gone"}
               /\ a.cmds \in Seq(Frame) /\ Len(a.cmds) <= CommandCapacity
               /\ a.out \in Seq(Frame)
               /\ a.evt \in Seq(Event) /\ Len(a.evt) <= EventCapacity
               /\ a.ferry \in Seq(Event) /\ Len(a.ferry) <= FerryCapacity
    <3>1. actor[h] \in Actors
      BY LiveFacts
    <3>2. /\ Len(actor[h].cmds) <= CommandCapacity /\ Len(actor[h].evt) <= EventCapacity
          /\ Len(actor[h].ferry) <= FerryCapacity
      BY LiveFacts DEF ActorOK
    <3> QED BY <3>1, <3>2 DEF Actors, Phases
  <2> QED BY <2>1, InvTypes DEF TypeOK, StalledInv
<1>2. JoinedBeforeAsked
  <2> SUFFICES ASSUME NEW h \in Handles, wire[h] # <<>>
               PROVE  \E n \in 1..Len(spoken[h]) : spoken[h][n].what = "Ready"
    BY DEF JoinedBeforeAsked
  <2>1. Live(actor[h]) /\ conn.open /\ conn.handle = h
    BY StateFields DEF ChannelInv, ChannelOK, ConnPart
  <2>2. HasSaid(spoken[h], "Ready")
    BY <2>1, StateFields, LiveFacts DEF RequestsPart
  <2> QED BY <2>2 DEF HasSaid
<1>3. OneTransEach
  <2> SUFFICES ASSUME NEW h \in Handles, NEW i \in 1..Len(asked[h]), NEW j \in 1..Len(asked[h])
               PROVE  /\ asked[h][i].trans \in 1..(actor[h].next - 1)
                      /\ i # j => asked[h][i].trans # asked[h][j].trans
    BY DEF OneTransEach
  <2>1. asked[h] # <<>>
    BY LiveFacts
  <2>2. Live(actor[h]) /\ conn.open /\ conn.handle = h
    BY <2>1, StateFields DEF ChannelInv, ChannelOK, ConnPart
  <2>3. TransPart(State)
    BY DEF ChannelInv, ChannelOK
  <2> QED BY <2>2, <2>3, StateFields DEF TransPart
<1>4. AnswersTheirOwn
  <2> SUFFICES ASSUME NEW h \in Handles, Polls(h), Installed(h), NextEvent(h).what = "Reply",
                      NEW r \in Acting(NextEvent(h))
               PROVE  r.id = NextEvent(h).req.id
    BY DEF AnswersTheirOwn
  <2> DEFINE a == actor[h]
             ev == NextEvent(h)
             sp == spoken[h]
             he == heard[h]
             q == asked[h]
  <2>1. ev \in Said /\ ~Last(ev) /\ conn.open /\ conn.handle = h
    BY SessionEvent, EventKinds DEF Installed
  <2>2. Len(he) + 1 <= Len(sp) /\ ev = sp[Len(he) + 1] /\ sp \in Seq(Said) /\ he \in Seq(Said)
    <3>1. [a EXCEPT !.ferry = Tail(@)] \in Actors
      BY PollFacts, TakenFields
    <3> DEFINE b == [a EXCEPT !.ferry = Tail(@)]
    <3>2. Tells(a, b) /\ ev = Head(a.ferry) /\ ~Last(Head(a.ferry)) /\ b \in Actors
      BY <2>1, <3>1, Zenon DEF Tells, NextEvent
    <3>3. /\ a \in Actors /\ sp \in Seq(Said) /\ he \in Seq(Said) /\ ActorOK(a, sp, he)
          /\ a.forwarder # "gone" /\ a.ferry # <<>>
      BY PollFacts, LiveFacts
    <3> HIDE DEF a, b, ev, sp, he
    <3>4. HeardNext(a, b, sp, he)
      BY <3>2, <3>3, HearOK
    <3> QED BY <3>2, <3>3, <3>4, Zenon DEF HeardNext
  <2>3. PICK i \in 1..Len(q) : q[i] = ev.req
    <3>1. Len(he) + 1 \in 1..Len(sp)
      BY <2>2
    <3>2. RequestsPart(State)
      BY LiveFacts
    <3>3. \A n \in 1..Len(sp) : sp[n].what = "Reply" => \E k \in 1..Len(q) : q[k] = sp[n].req
      BY <2>1, <3>2, StateFields DEF RequestsPart
    <3> HIDE DEF sp, q, he
    <3> QED BY <2>2, <3>1, <3>3
  <2>4. r \in records /\ r.trans = ev.req.trans
        /\ (IF ev.ok THEN r.kind = ev.req.kind ELSE r.kind \in {"first", "after"})
    BY DEF Acting, Matching
  <2>5. RecordOK(r, q, he)
    BY <2>1, <2>4, StateFields DEF ChannelInv, ChannelOK, RecordsPart
  <2>6. CASE \E j \in 1..Len(q) : q[j] = r
    <3>1. PICK j \in 1..Len(q) : q[j] = r
      BY <2>6
    <3>2. \A k, l \in 1..Len(q) : q[k].trans = q[l].trans => k = l
      BY <2>1, StateFields DEF ChannelInv, ChannelOK, TransPart
    <3>3. i = j
      BY <2>3, <2>4, <3>1, <3>2
    <3> QED BY <2>3, <3>1, <3>3
  <2>7. CASE r.kind = "banner" /\ \A j \in 1..Len(q) : q[j].trans = r.trans => q[j].kind # "banner"
    BY <2>3, <2>4, <2>7
  <2>8. CASE r.kind = "after" /\ he = <<>>
    <3>1. ev = sp[1] /\ sp # <<>>
      BY <2>2, <2>8
    <3>2. ev.what = "LoggedIn"
      BY <3>1, LiveFacts DEF ActorOK
    <3> QED BY <3>2
  <2> QED BY <2>5, <2>6, <2>7, <2>8 DEF RecordOK
<1> QED BY <1>1, <1>2, <1>3, <1>4 DEF RepliesFindTheirRequest

\* For any number of connects, requests and channel places: the record that acts on a reply
\* (the handlers' tables, by number and kind) is the one of the request the reply answers, though each
\* connect numbers its requests from 1 again and records of an earlier one may still be
\* there; no request is sent before the login has settled; and the requests of a connect
\* have numbers of their own.
THEOREM RequestsAreAnswered == Spec => []RepliesFindTheirRequest
<1>1. Spec => []ChannelInv
  BY InitOK, NextOK, PTL DEF Spec
<1>2. Init => StalledInv
  BY DEF Init, StalledInv
<1>3. Spec => []StalledInv
  BY <1>2, StalledOK, PTL DEF Spec
<1> QED BY <1>1, <1>3, InvImplies, PTL

---------------------------------------------------------------------------
(* The two channels of a handle, as first in, first out. *)

\* One channel's step: into it, out of it, opened, closed, or none.
Moves(sent, got, opn, sent2, got2, opn2) ==
    \/ /\ opn /\ opn2 /\ Len(sent2) > Len(sent)
       /\ SubSeq(sent2, 1, Len(sent)) = sent /\ got2 = got
    \/ /\ opn /\ opn2 /\ sent2 = sent
       /\ \E n \in (Len(got) + 1)..Len(sent) : got2 = SubSeq(sent, 1, n)
    \/ ~opn /\ opn2 /\ sent2 = <<>> /\ got2 = <<>>
    \/ opn /\ ~opn2 /\ sent2 = <<>> /\ got2 = <<>>
    \/ (opn2 <=> opn) /\ sent2 = sent /\ got2 = got

\* The main thread still hears of this handle.
Hears(a) == a.forwarder # "gone"

\* A step of the requests, and of the events, of one handle; and none.
ReqMove(s, t, c) ==
    Moves(s.asked[c], s.wire[c], Live(s.actor[c]), t.asked[c], t.wire[c], Live(t.actor[c]))
EvtMove(s, t, c) ==
    Moves(s.spoken[c], s.heard[c], Hears(s.actor[c]), t.spoken[c], t.heard[c], Hears(t.actor[c]))

ReqSame(s, t, c) ==
    t.asked[c] = s.asked[c] /\ t.wire[c] = s.wire[c] /\ (Live(t.actor[c]) <=> Live(s.actor[c]))
EvtSame(s, t, c) ==
    t.spoken[c] = s.spoken[c] /\ t.heard[c] = s.heard[c] /\ (Hears(t.actor[c]) <=> Hears(s.actor[c]))

\* No change is a step that does nothing.
LEMMA SameMoves ==
    ASSUME NEW s, NEW t, NEW c
    PROVE  /\ ReqSame(s, t, c) => ReqMove(s, t, c)
           /\ EvtSame(s, t, c) => EvtMove(s, t, c)
  BY DEF ReqSame, EvtSame, ReqMove, EvtMove, Moves

\* A step before or after one that does nothing is the same step.
LEMMA ComposeMoves ==
    ASSUME NEW s, NEW x, NEW t, NEW c
    PROVE  /\ ReqSame(s, x, c) /\ ReqMove(x, t, c) => ReqMove(s, t, c)
           /\ EvtSame(s, x, c) /\ EvtMove(x, t, c) => EvtMove(s, t, c)
           /\ EvtMove(s, x, c) /\ EvtSame(x, t, c) => EvtMove(s, t, c)
           /\ ReqMove(s, x, c) /\ ReqSame(x, t, c) => ReqMove(s, t, c)
           /\ ReqSame(s, x, c) /\ ReqSame(x, t, c) => ReqSame(s, t, c)
           /\ EvtSame(s, x, c) /\ EvtSame(x, t, c) => EvtSame(s, t, c)
<1>1. ReqSame(s, x, c) /\ ReqMove(x, t, c) => ReqMove(s, t, c)
  BY DEF ReqSame, ReqMove, Moves
<1>2. EvtSame(s, x, c) /\ EvtMove(x, t, c) => EvtMove(s, t, c)
  BY DEF EvtSame, EvtMove, Moves
<1>3. EvtMove(s, x, c) /\ EvtSame(x, t, c) => EvtMove(s, t, c)
  BY DEF EvtSame, EvtMove, Moves
<1>4. ReqMove(s, x, c) /\ ReqSame(x, t, c) => ReqMove(s, t, c)
  BY SMTT(40) DEF ReqSame, ReqMove, Moves
<1> QED BY <1>1, <1>2, <1>3, <1>4 DEF ReqSame, EvtSame

\* An append puts one thing in.
LEMMA PutMoves ==
    ASSUME NEW S, NEW q \in Seq(S), NEW e \in S, NEW got, NEW opn, NEW opn2, opn, opn2
    PROVE  Moves(q, got, opn, Append(q, e), got, opn2)
<1>1. Len(Append(q, e)) > Len(q) /\ SubSeq(Append(q, e), 1, Len(q)) = q
  <2>1. /\ Append(q, e) \in Seq(S) /\ Len(q) \in Nat /\ Len(Append(q, e)) = Len(q) + 1
        /\ \A i \in 1..Len(q) : Append(q, e)[i] = q[i]
    OBVIOUS
  <2> DEFINE z == Append(q, e)
  <2>2. z \in Seq(S) /\ Len(q) <= Len(z)
    BY <2>1
  <2> HIDE DEF z
  <2>3. /\ SubSeq(z, 1, Len(q)) \in Seq(S) /\ Len(SubSeq(z, 1, Len(q))) = Len(q)
        /\ \A i \in 1..Len(q) : SubSeq(z, 1, Len(q))[i] = z[i]
    BY <2>1, <2>2
  <2>4. SubSeq(z, 1, Len(q)) = q
    BY <2>1, <2>3, SeqEqual DEF z
  <2> QED BY <2>1, <2>4 DEF z
<1> QED BY <1>1, Zenon DEF Moves

\* What is closed is closed at its two ends, unless its callback is not over.
LEMMA ShutMoves ==
    ASSUME NEW s, NEW t, NEW cb, s.conn.handle \in Handles, Live(s.actor[s.conn.handle]),
           Hears(s.actor[s.conn.handle]), Shut(s, t, cb)
    PROVE  /\ \A c \in Handles : ReqMove(s, t, c) /\ EvtMove(s, t, c)
           /\ cb = s.conn.handle => \A c \in Handles : EvtSame(s, t, c)
<1> DEFINE h == s.conn.handle
<1>1. /\ t.actor[h].phase = "gone" /\ t.asked[h] = <<>> /\ t.wire[h] = <<>>
      /\ IF cb = h
         THEN /\ t.actor[h].forwarder = "last"
              /\ t.spoken[h] = s.spoken[h] /\ t.heard[h] = s.heard[h]
         ELSE t.actor[h].forwarder = "gone" /\ t.spoken[h] = <<>> /\ t.heard[h] = <<>>
      /\ \A g \in Handles \ {h} :
              /\ t.actor[g] = s.actor[g] /\ t.asked[g] = s.asked[g] /\ t.wire[g] = s.wire[g]
              /\ t.spoken[g] = s.spoken[g] /\ t.heard[g] = s.heard[g]
  BY DEF Shut
<1>2. \A g \in Handles \ {h} : ReqSame(s, t, g) /\ EvtSame(s, t, g)
  BY <1>1 DEF ReqSame, EvtSame
<1>3. ReqMove(s, t, h)
  BY <1>1 DEF ReqMove, Moves, Live
<1>4. cb = h => EvtSame(s, t, h)
  BY <1>1 DEF EvtSame, Hears
<1>5. cb # h => EvtMove(s, t, h)
  BY <1>1 DEF EvtMove, Moves, Hears
<1>6. EvtMove(s, t, h)
  BY <1>4, <1>5, SameMoves
<1> QED BY <1>2, <1>3, <1>4, <1>6, SameMoves

\* A request puts its frame in, or closes the channel.
LEMMA AskedMoves ==
    ASSUME NEW m, NEW s, NEW t, NEW cb, NEW frame \in Frame, ChannelOK(s, m), s.conn.open,
           Asked(s, t, frame, cb)
    PROVE  /\ \A c \in Handles : ReqMove(s, t, c) /\ EvtMove(s, t, c)
           /\ cb = s.conn.handle => \A c \in Handles : EvtSame(s, t, c)
<1> DEFINE h == s.conn.handle
<1>1. s \in States /\ h \in Handles /\ Live(s.actor[h]) /\ s.asked[h] \in Seq(Frame)
      /\ DOMAIN s.asked = Handles
  BY HandleOfOpen, StateTypes, SMTT(40) DEF ChannelOK, ConnPart
<1>2. Hears(s.actor[h])
  BY <1>1 DEF ChannelOK, EventsPart, ActorOK, Hears
<1>3. CASE Shut(s, t, cb)
  BY <1>1, <1>2, <1>3, ShutMoves
<1>4. CASE Kept(s, t, frame)
  <2>1. /\ t.wire = s.wire /\ t.spoken = s.spoken /\ t.heard = s.heard
        /\ t.asked = [s.asked EXCEPT ![h] = Append(@, frame)]
        /\ t.actor[h].phase = s.actor[h].phase /\ t.actor[h].forwarder = s.actor[h].forwarder
        /\ \A g \in Handles \ {h} : t.actor[g] = s.actor[g]
    BY <1>4, ZenonT(40) DEF Kept, SameTalk
  <2>2. /\ t.asked[h] = Append(s.asked[h], frame)
        /\ \A g \in Handles \ {h} : t.asked[g] = s.asked[g]
    BY <1>1, <2>1, SMTT(40)
  <2>3. \A c \in Handles : EvtSame(s, t, c)
    BY <2>1 DEF EvtSame, Hears
  <2>4. Live(t.actor[h])
    BY <1>1, <2>1 DEF Live
  <2>5. ReqMove(s, t, h)
    <3> DEFINE q == s.asked[h]
               w == s.wire[h]
    <3>1. q \in Seq(Frame) /\ Live(s.actor[h]) /\ t.asked[h] = Append(q, frame) /\ t.wire[h] = w
      BY <1>1, <2>1, <2>2
    <3>2. Moves(q, w, TRUE, Append(q, frame), w, TRUE)
      <4> HIDE DEF q, w
      <4> QED BY <3>1, PutMoves
    <3>3. Live(s.actor[h]) = TRUE /\ Live(t.actor[h]) = TRUE
      BY <2>4, <3>1 DEF Live
    <3> QED BY <3>1, <3>2, <3>3, ZenonT(40) DEF ReqMove
  <2>6. \A g \in Handles \ {h} : ReqSame(s, t, g)
    BY <2>1, <2>2 DEF ReqSame
  <2> QED BY <2>3, <2>5, <2>6, SameMoves, SMTT(40)
<1> QED BY <1>3, <1>4 DEF Asked

\* Each channel of each handle takes one step of a first-in-first-out queue.
BothMove(t) == \A c \in Handles : ReqMove(State, t, c) /\ EvtMove(State, t, c)

\* A step that asks, writes, says and hears nothing.
LEMMA CalmMoves ==
    ASSUME asked' = asked, wire' = wire, spoken' = spoken, heard' = heard,
           \A g \in Handles : /\ actor'[g].forwarder = actor[g].forwarder
                              /\ Live(actor'[g]) <=> Live(actor[g])
    PROVE  BothMove(State')
<1>1. \A c \in Handles : ReqSame(State, State', c) /\ EvtSame(State, State', c)
  BY DEF State, ReqSame, EvtSame, Hears
<1> QED BY <1>1, SameMoves DEF BothMove

\* What a session says is put into the events.
LEMMA SpeechPut ==
    ASSUME ChannelInv, NEW h \in Handles, NEW e \in Said, NEW b,
           actor' = [actor EXCEPT ![h] = b], spoken' = [spoken EXCEPT ![h] = Append(@, e)],
           UNCHANGED <<actorElse, wire>>, Running(actor[h]), Live(b),
           b.forwarder = actor[h].forwarder
    PROVE  BothMove(State')
<1>1. asked' = asked /\ heard' = heard /\ wire' = wire
  BY DEF actorElse, mainVars
<1>2. /\ actor'[h] = b /\ spoken'[h] = Append(spoken[h], e) /\ spoken[h] \in Seq(Said)
      /\ \A g \in Handles \ {h} : actor'[g] = actor[g] /\ spoken'[g] = spoken[g]
  BY InvTypes
<1>3. Live(actor[h]) /\ actor[h].forwarder = "live"
  BY LiveFacts
<1> DEFINE s == State
           t == State'
<1>4. \A c \in Handles : ReqSame(s, t, c)
  BY <1>1, <1>2, <1>3 DEF ReqSame, State
<1>5. \A c \in Handles \ {h} : EvtSame(s, t, c)
  BY <1>1, <1>2 DEF EvtSame, State
<1>6. EvtMove(s, t, h)
  <2>1. /\ s.spoken[h] = spoken[h] /\ t.spoken[h] = Append(spoken[h], e) /\ t.heard[h] = s.heard[h]
        /\ Hears(s.actor[h]) /\ Hears(t.actor[h])
    BY <1>1, <1>2, <1>3 DEF State, Hears
  <2> HIDE DEF s, t
  <2> DEFINE q == spoken[h]
             w == s.heard[h]
  <2>2. Moves(q, w, TRUE, Append(q, e), w, TRUE)
    <3> HIDE DEF q, w
    <3> QED BY <1>2, PutMoves DEF q
  <2>3. Hears(s.actor[h]) = TRUE /\ Hears(t.actor[h]) = TRUE
    BY <2>1 DEF Hears
  <2> QED BY <2>1, <2>2, <2>3, Zenon DEF EvtMove
<1> HIDE DEF t
<1> QED BY <1>4, <1>5, <1>6, SameMoves DEF BothMove, t

\* What is written is got from the requests, in the order asked.
LEMMA WriteGets ==
    ASSUME ChannelInv, NEW h \in Handles, Write(h)
    PROVE  BothMove(State')
<1> DEFINE a == actor[h]
           q == asked[h]
           w == wire[h]
           o == a.out
           r == a.cmds \o held
           n == Len(w) + Len(o)
<1>1. /\ Running(a) /\ o # <<>> /\ asked' = asked /\ spoken' = spoken /\ heard' = heard
      /\ wire' = [wire EXCEPT ![h] = w \o o] /\ actor' = [actor EXCEPT ![h].out = <<>>]
  BY DEF Write, Runs, Running, actorElse, mainVars
<1>2. a \in Actors /\ Live(a) /\ a.phase # "ended" /\ conn.open /\ conn.handle = h
  BY <1>1, LiveFacts DEF Running
<1>3. w \in Seq(Frame) /\ o \in Seq(Frame) /\ r \in Seq(Frame) /\ q = w \o (o \o r)
  <2>1. a.cmds \in Seq(Frame) /\ held \in Seq(Frame)
    BY <1>2, InvTypes DEF Actors
  <2>2. r \in Seq(Frame)
    <3> HIDE DEF a
    <3> QED BY <2>1, ConcatProperties
  <2>3. w \in Seq(Frame) /\ o \in Seq(Frame)
    BY <1>2, LiveFacts DEF Actors
  <2> QED BY <1>2, <2>2, <2>3, LiveFacts, StateFields DEF RequestsPart
<1>4. /\ \A g \in Handles : /\ actor'[g].forwarder = actor[g].forwarder
                            /\ Live(actor'[g]) <=> Live(actor[g])
      /\ wire'[h] = w \o o /\ \A g \in Handles \ {h} : wire'[g] = wire[g]
  BY <1>1, InvTypes, ZenonT(40) DEF Live, Actors
<1> HIDE DEF a, q, w, o, r
<1>5. w \o o = SubSeq(q, 1, n) /\ n \in (Len(w) + 1)..Len(q)
  <2> DEFINE p == w \o o
  <2>1. p \in Seq(Frame) /\ Len(p) = n /\ Len(p) \in Nat /\ q = p \o r
    BY <1>3, ConcatAssociative, SMTT(40)
  <2>2. Len(o) > 0 /\ Len(o) \in Nat /\ Len(w) \in Nat
    BY <1>1, <1>3
  <2> HIDE DEF p
  <2>3. /\ q \in Seq(Frame) /\ Len(q) = Len(p) + Len(r) /\ Len(r) \in Nat
        /\ \A i \in 1..Len(p) : q[i] = p[i]
    <3>1. r \in Seq(Frame) /\ p \in Seq(Frame)
      BY <1>3, <2>1, Zenon
    <3>2. /\ p \o r \in Seq(Frame) /\ Len(p \o r) = Len(p) + Len(r) /\ Len(r) \in Nat
          /\ \A i \in 1..Len(p) : (p \o r)[i] = p[i]
      BY <3>1
    <3> QED BY <2>1, <3>2, Zenon
  <2> HIDE DEF n
  <2>4. n \in Nat /\ n <= Len(q)
    BY <2>1, <2>3
  <2>5. /\ SubSeq(q, 1, n) \in Seq(Frame) /\ Len(SubSeq(q, 1, n)) = n
        /\ \A i \in 1..n : SubSeq(q, 1, n)[i] = q[i]
    BY <2>3, <2>4
  <2>6. SubSeq(q, 1, n) = p
    BY <2>1, <2>3, <2>5, SeqEqual
  <2>7. n >= Len(w) + 1
    BY <2>2 DEF n
  <2> QED BY <2>2, <2>3, <2>4, <2>6, <2>7 DEF p
<1> HIDE DEF n
<1> DEFINE s == State
           t == State'
<1>6. \A c \in Handles : EvtSame(s, t, c)
  BY <1>1, <1>4 DEF EvtSame, Hears, State
<1>7. \A c \in Handles \ {h} : ReqSame(s, t, c)
  BY <1>1, <1>4 DEF ReqSame, State
<1>8. ReqMove(s, t, h)
  <2>1. /\ s.asked[h] = q /\ t.asked[h] = q /\ s.wire[h] = w /\ t.wire[h] = w \o o
        /\ Live(s.actor[h]) /\ Live(t.actor[h])
    BY <1>1, <1>2, <1>4 DEF State, q, w, a
  <2> HIDE DEF s, t
  <2> QED BY <1>5, <2>1 DEF ReqMove, Moves
<1> HIDE DEF t
<1> QED BY <1>6, <1>7, <1>8, SameMoves DEF BothMove, t

\* A step of the tasks is a step of the two queues.
LEMMA TaskStepMoves ==
    ASSUME ChannelInv, NEW h \in Handles, TaskStep(h)
    PROVE  BothMove(State')
<1> DEFINE a == actor[h]
<1>1. a \in Actors /\ actor \in [Handles -> Actors] /\ (Running(a) => Live(a))
  BY InvTypes, LiveFacts
<1>2. CASE LogIn(h)
  <2> DEFINE e == [what |-> "LoggedIn"]
             b == [Says(a, e, "read") EXCEPT !.phase = "in"]
  <2>1. Live(b) /\ b.forwarder = a.forwarder /\ e \in Said
    BY <1>1 DEF Says, Live, Said, Actors
  <2>2. /\ actor' = [actor EXCEPT ![h] = b] /\ spoken' = [spoken EXCEPT ![h] = Append(@, e)]
        /\ UNCHANGED <<actorElse, wire>> /\ Running(a)
    BY <1>2 DEF LogIn, Reads, Talks, Runs, Running
  <2> HIDE DEF b, e
  <2> QED BY <2>1, <2>2, SpeechPut
<1>3. ASSUME NEW side \in Sides, Settle(h, side) PROVE BothMove(State')
  <2> DEFINE e == [what |-> "Ready"]
             b == [Says(a, e, side) EXCEPT !.phase = "ready"]
  <2>1. Live(b) /\ b.forwarder = a.forwarder /\ e \in Said
    BY <1>1 DEF Says, Live, Said, Actors
  <2>2. /\ actor' = [actor EXCEPT ![h] = b] /\ spoken' = [spoken EXCEPT ![h] = Append(@, e)]
        /\ UNCHANGED <<actorElse, wire>> /\ Running(a)
    BY <1>3 DEF Settle, Talks, Runs, Running
  <2> HIDE DEF b, e
  <2> QED BY <2>1, <2>2, SpeechPut
<1>4. ASSUME NEW i \in 1..Len(wire[h]), NEW ok \in BOOLEAN, Answer(h, i, ok) PROVE BothMove(State')
  <2> DEFINE e == [what |-> "Reply", req |-> wire[h][i], ok |-> ok]
             b == Says(a, e, "read")
  <2>1. wire[h][i] \in Frame
    BY InvTypes
  <2>2. e \in Said
    BY <2>1 DEF Said
  <2>3. /\ actor' = [actor EXCEPT ![h] = b] /\ spoken' = [spoken EXCEPT ![h] = Append(@, e)]
        /\ UNCHANGED <<actorElse, wire>> /\ Running(a)
    BY <1>4 DEF Answer, Feed, Reads, Talks, Runs, Running
  <2> HIDE DEF e
  <2>4. Live(b) /\ b.forwarder = a.forwarder
    BY <1>1, <2>3 DEF Says, Live, Actors
  <2> HIDE DEF b
  <2> QED BY <2>2, <2>3, <2>4, SpeechPut
<1>5. CASE Write(h)
  BY <1>5, WriteGets
<1>6. ASSUME NEW b, actor' = [actor EXCEPT ![h] = b], b.forwarder = a.forwarder,
             Live(b) <=> Live(a), UNCHANGED <<actorElse, wire, spoken>>
      PROVE  BothMove(State')
  <2>1. asked' = asked /\ wire' = wire /\ spoken' = spoken /\ heard' = heard
    BY <1>6 DEF actorElse, mainVars
  <2>2. \A g \in Handles : /\ actor'[g].forwarder = actor[g].forwarder
                           /\ Live(actor'[g]) <=> Live(actor[g])
    BY <1>1, <1>6
  <2> QED BY <2>1, <2>2, CalmMoves
<1>7. ASSUME NEW side \in Sides, SessionCloses(h, side) PROVE BothMove(State')
  <2> DEFINE b == Says(a, [what |-> "Closed"], side)
  <2>1. b.forwarder = a.forwarder /\ b.phase = a.phase
    BY <1>1 DEF Says, Actors
  <2>2. Live(b) <=> Live(a)
    BY <2>1 DEF Live
  <2>3. actor' = [actor EXCEPT ![h] = b] /\ UNCHANGED <<actorElse, wire, spoken>>
    BY <1>7 DEF SessionCloses
  <2> QED BY <1>6, <2>1, <2>2, <2>3
<1>8. Running(a) => (Live(Ending(a)) /\ Ending(a).forwarder = a.forwarder)
  BY <1>1 DEF Ending, Live, Actors
<1>9. CASE StreamEnds(h)
  <2>1. actor' = [actor EXCEPT ![h] = Ending(a)] /\ Running(a) /\ UNCHANGED <<actorElse, wire, spoken>>
    BY <1>9 DEF StreamEnds, Runs, Running
  <2> QED BY <1>1, <1>6, <1>8, <2>1
<1>10. ASSUME NEW side \in Sides, Pop(h, side) PROVE BothMove(State')
  <2> DEFINE c == [a EXCEPT !.turn = side, !.said = Tail(a.said), !.hand[side] = Head(a.said)]
             b == IF Head(a.said).what = "Closed" THEN Ending(a) ELSE c
  <2>1. actor' = [actor EXCEPT ![h] = b] /\ Running(a) /\ UNCHANGED <<actorElse, wire, spoken>>
    BY <1>10 DEF Pop, Runs, Running
  <2>2. c.forwarder = a.forwarder /\ c.phase = a.phase
    BY <1>1 DEF Actors
  <2> HIDE DEF c
  <2>3. Live(c) <=> Live(a)
    BY <2>2 DEF Live
  <2>4. b.forwarder = a.forwarder /\ (Live(b) <=> Live(a))
    BY <1>1, <1>8, <2>1, <2>2, <2>3
  <2> QED BY <1>6, <2>1, <2>4
<1>11. ASSUME NEW side \in Sides, HandOn(h, side) PROVE BothMove(State')
  <2> DEFINE b == [a EXCEPT !.evt = Append(@, a.hand[side]), !.hand[side] = NoEvent]
  <2>1. actor' = [actor EXCEPT ![h] = b] /\ UNCHANGED <<actorElse, wire, spoken>>
    BY <1>1, <1>11 DEF HandOn
  <2>2. b.forwarder = a.forwarder /\ b.phase = a.phase
    BY <1>1 DEF Actors
  <2> HIDE DEF b
  <2>3. Live(b) <=> Live(a)
    BY <2>2 DEF Live
  <2> QED BY <1>6, <2>1, <2>2, <2>3
<1>12. ASSUME NEW side \in Sides, TurnEnds(h, side) PROVE BothMove(State')
  <2> DEFINE b == [a EXCEPT !.turn = "none", !.wants = @ \ {side}]
  <2>1. actor' = [actor EXCEPT ![h] = b] /\ UNCHANGED <<actorElse, wire, spoken>>
    BY <1>1, <1>12 DEF TurnEnds
  <2>2. b.forwarder = a.forwarder /\ b.phase = a.phase
    BY <1>1 DEF Actors
  <2> HIDE DEF b
  <2>3. Live(b) <=> Live(a)
    BY <2>2 DEF Live
  <2> QED BY <1>6, <2>1, <2>2, <2>3
<1>13. CASE TakeCommand(h)
  <2> DEFINE b == [a EXCEPT !.out = Append(@, Head(a.cmds)), !.cmds = Tail(@),
                            !.wants = @ \cup {"deliver"}]
  <2>1. actor' = [actor EXCEPT ![h] = b] /\ UNCHANGED <<actorElse, wire, spoken>>
    BY <1>1, <1>13 DEF TakeCommand
  <2>2. b.forwarder = a.forwarder /\ b.phase = a.phase
    BY <1>1 DEF Actors
  <2> HIDE DEF b
  <2>3. Live(b) <=> Live(a)
    BY <2>2 DEF Live
  <2> QED BY <1>6, <2>1, <2>2, <2>3
<1>14. CASE SendShutdown(h)
  <2> DEFINE b == [a EXCEPT !.phase = "ended", !.cmds = <<>>, !.evt = Append(@, [what |-> "Shutdown"])]
  <2>1. actor' = [actor EXCEPT ![h] = b] /\ UNCHANGED <<actorElse, wire, spoken>> /\ a.phase = "ending"
    BY <1>1, <1>14 DEF SendShutdown
  <2>2. b.forwarder = a.forwarder /\ b.phase = "ended"
    BY <1>1 DEF Actors
  <2> HIDE DEF b
  <2>3. Live(b) <=> Live(a)
    BY <2>1, <2>2 DEF Live
  <2> QED BY <1>6, <2>1, <2>2, <2>3
<1>15. CASE Pump(h)
  <2> DEFINE b == [a EXCEPT !.ferry = Append(@, Head(a.evt)), !.evt = Tail(@)]
  <2>1. actor' = [actor EXCEPT ![h] = b] /\ UNCHANGED <<actorElse, wire, spoken>>
    BY <1>1, <1>15 DEF Pump
  <2>2. b.forwarder = a.forwarder /\ b.phase = a.phase
    BY <1>1 DEF Actors
  <2> HIDE DEF b
  <2>3. Live(b) <=> Live(a)
    BY <2>2 DEF Live
  <2> QED BY <1>6, <2>1, <2>2, <2>3
<1> QED BY <1>2, <1>3, <1>4, <1>5, <1>7, <1>9, <1>10, <1>11, <1>12, <1>13, <1>14, <1>15 DEF TaskStep

\* A callback's event is got.
LEMMA HeardMoves ==
    ASSUME ChannelInv, NEW h \in Handles, Polls(h), NextEvent(h) \in Said, NEW x,
           x.asked = asked, x.wire = wire, x.spoken = spoken,
           x.heard = [heard EXCEPT ![h] = Append(@, NextEvent(h))],
           x.actor = [actor EXCEPT ![h] = [actor[h] EXCEPT !.ferry = Tail(@)]]
    PROVE  \A c \in Handles : ReqSame(State, x, c) /\ EvtMove(State, x, c)
<1> DEFINE a == actor[h]
           b == [a EXCEPT !.ferry = Tail(@)]
           sp == spoken[h]
           he == heard[h]
           e == NextEvent(h)
<1>1. /\ a \in Actors /\ sp \in Seq(Said) /\ he \in Seq(Said) /\ ActorOK(a, sp, he)
      /\ a.forwarder # "gone" /\ a.ferry # <<>> /\ b \in Actors
  BY LiveFacts, PollFacts, TakenFields
<1>2. Append(he, e) = SubSeq(sp, 1, Len(he) + 1) /\ Len(he) + 1 <= Len(sp)
  <2>1. ~Last(e)
    BY EventKinds
  <2>2. Tells(a, b) /\ e = Head(a.ferry) /\ ~Last(Head(a.ferry))
    BY <2>1, Zenon DEF Tells, NextEvent
  <2> HIDE DEF a, b, e, sp, he
  <2>3. HeardNext(a, b, sp, he)
    BY <1>1, <2>2, HearOK
  <2> QED BY <2>2, <2>3, Zenon DEF HeardNext
<1>3. b.phase = a.phase /\ b.forwarder = a.forwarder
  BY <1>1 DEF Actors
<1> HIDE DEF b
<1>4. /\ x.actor[h] = b /\ x.heard[h] = Append(he, e)
      /\ \A g \in Handles \ {h} : x.actor[g] = actor[g] /\ x.heard[g] = heard[g]
  BY InvTypes DEF b
<1>5. \A c \in Handles : ReqSame(State, x, c)
  BY <1>3, <1>4, StateFields DEF ReqSame, Live
<1>6. \A c \in Handles \ {h} : EvtSame(State, x, c)
  BY <1>4, StateFields DEF EvtSame
<1>7. EvtMove(State, x, h)
  <2>1. Hears(State.actor[h]) /\ Hears(x.actor[h])
    BY <1>1, <1>3, <1>4, StateFields DEF Hears
  <2>2. Len(he) + 1 \in (Len(he) + 1)..Len(sp)
    BY <1>1, <1>2
  <2> QED BY <1>2, <1>4, <2>1, <2>2, StateFields DEF EvtMove, Moves
<1> QED BY <1>5, <1>6, <1>7, SameMoves

\* ... and something is asked for.
LEMMA HeardThenAsks ==
    ASSUME NEW h \in Handles, NEW x, ChannelOK(x, made), x.conn.open, x.conn.handle = h,
           \A c \in Handles : ReqSame(State, x, c) /\ EvtMove(State, x, c),
           NEW kind \in Kinds, NEW id \in 0..MaxRequests
    PROVE  BothMove(Request(x, kind, id, h))
<1> DEFINE t == Request(x, kind, id, h)
           frame == FrameOf(x, kind, id)
<1>1. x \in States /\ x.conn.trans = 0
  BY DEF ChannelOK, ConnPart, TransPart
<1>2. frame \in Frame /\ Asked(x, t, frame, h)
  BY <1>1, RequestOutcome
<1> HIDE DEF t, frame
<1>3. \A c \in Handles : ReqMove(x, t, c) /\ EvtSame(x, t, c)
  BY <1>2, AskedMoves
<1> QED BY <1>3, ComposeMoves DEF BothMove, t

\* Hearing alone is a step of the events.
LEMMA HeardOnly ==
    ASSUME NEW x, \A c \in Handles : ReqSame(State, x, c) /\ EvtMove(State, x, c)
    PROVE  BothMove(x)
  BY SameMoves DEF BothMove

\* A login's callback hears one event, and asks for one thing or none.
LEMMA OnLoggedInMoves ==
    ASSUME ChannelInv, NEW h \in Handles, NEW friends \in BOOLEAN, OnLoggedIn(h, friends)
    PROVE  BothMove(State')
<1> DEFINE e == NextEvent(h)
           y == Heard(h)
           x == Forget(y, TRUE)
           asks == friends /\ ids < MaxRequests
           z == NextId(x)
           t == Request(z, "first", ids + 1, h)
<1>1. Polls(h) /\ e.what = "LoggedIn"
      /\ Becomes(IF Installed(h) THEN Roster(x, h, friends) ELSE y)
  BY DEF OnLoggedIn
<1>2. e \in Said /\ actor[h].ferry # <<>>
  BY <1>1, SessionEvent, PollFacts
<1>3. /\ y \in States
      /\ y.conn = conn /\ y.held = held /\ y.records = records /\ y.ids = ids
      /\ y.asked = asked /\ y.wire = wire /\ y.spoken = spoken
      /\ y.heard = [heard EXCEPT ![h] = Append(@, NextEvent(h))]
      /\ y.actor = [actor EXCEPT ![h] = [actor[h] EXCEPT !.ferry = Tail(@)]]
  BY <1>2, HeardFields
<1>4. /\ x \in States /\ x.records = {r \in y.records : r.kind = "banner"}
      /\ x.conn = y.conn /\ x.held = y.held /\ x.actor = y.actor /\ x.ids = y.ids
      /\ x.asked = y.asked /\ x.wire = y.wire /\ x.spoken = y.spoken /\ x.heard = y.heard
  BY <1>3, ForgetFields
<1>5. CASE ~Installed(h)
  <2>1. State' = y
    BY <1>1, <1>3, <1>5, BecomesOK
  <2> HIDE DEF y
  <2> QED BY <1>1, <1>2, <1>3, <2>1, HeardMoves, HeardOnly
<1>6. CASE Installed(h) /\ ~asks
  <2>1. Becomes(x)
    BY <1>1, <1>6 DEF Roster
  <2>2. State' = x
    BY <1>4, <2>1, BecomesOK
  <2> HIDE DEF x, y
  <2> QED BY <1>1, <1>2, <1>3, <1>4, <2>2, HeardMoves, HeardOnly
<1>7. CASE Installed(h) /\ asks
  <2>1. Becomes(t)
    BY <1>1, <1>7 DEF Roster
  <2>2. ids + 1 \in 0..MaxRequests
    BY <1>7, NextIdBound
  <2> HIDE DEF x, y
  <2>3. /\ z \in States /\ z.records = x.records
        /\ z.conn = x.conn /\ z.held = x.held /\ z.actor = x.actor
        /\ z.asked = x.asked /\ z.wire = x.wire /\ z.spoken = x.spoken /\ z.heard = x.heard
    BY <1>3, <1>4, <2>2, NextIdFields
  <2> HIDE DEF z
  <2>4. ChannelOK(z, made)
    BY <1>1, <1>2, <1>3, <1>4, <2>3, HearStep, ZenonT(40)
  <2>5. z.conn.open /\ z.conn.handle = h /\ "first" \in Kinds
    BY <1>3, <1>4, <1>7, <2>3 DEF Installed, Kinds
  <2>6. t \in States
    BY <2>2, <2>4, <2>5, RequestOK
  <2>7. \A c \in Handles : ReqSame(State, z, c) /\ EvtMove(State, z, c)
    BY <1>1, <1>2, <1>3, <1>4, <2>3, HeardMoves, ZenonT(40)
  <2>8. BothMove(t)
    BY <2>2, <2>4, <2>5, <2>7, HeardThenAsks
  <2> HIDE DEF t
  <2> QED BY <2>1, <2>6, <2>8, BecomesOK
<1> QED BY <1>5, <1>6, <1>7

\* So does the callback at the end of the login.
LEMMA OnReadyMoves ==
    ASSUME ChannelInv, NEW h \in Handles, OnReady(h)
    PROVE  BothMove(State')
<1> DEFINE e == NextEvent(h)
           y == Heard(h)
           x == [y EXCEPT !.conn.fetched = TRUE]
           t == Request(x, "plain", 0, h)
<1>1. Polls(h) /\ e.what = "Ready" /\ Becomes(PostLoginFetches(y, h))
  BY DEF OnReady
<1>2. e \in Said /\ actor[h].ferry # <<>>
  BY <1>1, SessionEvent, PollFacts
<1>3. /\ y \in States
      /\ y.conn = conn /\ y.held = held /\ y.records = records /\ y.ids = ids
      /\ y.asked = asked /\ y.wire = wire /\ y.spoken = spoken
      /\ y.heard = [heard EXCEPT ![h] = Append(@, NextEvent(h))]
      /\ y.actor = [actor EXCEPT ![h] = [actor[h] EXCEPT !.ferry = Tail(@)]]
  BY <1>2, HeardFields
<1>4. /\ x \in States /\ x.conn.open = y.conn.open /\ x.conn.handle = y.conn.handle
      /\ x.conn.trans = y.conn.trans /\ x.conn.fetched = TRUE
      /\ x.records = y.records /\ x.held = y.held /\ x.actor = y.actor /\ x.ids = y.ids
      /\ x.asked = y.asked /\ x.wire = y.wire /\ x.spoken = y.spoken /\ x.heard = y.heard
  BY <1>3, SettledFields
<1>5. \A c \in Handles : ReqSame(State, y, c) /\ EvtMove(State, y, c)
  <2> HIDE DEF y
  <2> QED BY <1>1, <1>2, <1>3, HeardMoves
<1>6. (\A c \in Handles : ReqSame(State, x, c) /\ EvtMove(State, x, c)) /\ ChannelOK(x, made)
  <2> HIDE DEF x, y
  <2> QED BY <1>1, <1>2, <1>3, <1>4, HeardMoves, HearStep, ZenonT(40)
<1>7. CASE conn.fetched
  <2>1. Becomes(y)
    BY <1>1, <1>3, <1>7 DEF PostLoginFetches
  <2> QED BY <1>3, <1>5, <2>1, BecomesOK, HeardOnly
<1>8. CASE ~conn.fetched /\ ~conn.open
  <2>1. Becomes(x)
    BY <1>1, <1>3, <1>8 DEF PostLoginFetches
  <2> QED BY <1>4, <1>6, <2>1, BecomesOK, HeardOnly
<1>9. CASE ~conn.fetched /\ conn.open
  <2>1. Becomes(t)
    BY <1>1, <1>3, <1>9 DEF PostLoginFetches
  <2>2. x.conn.open /\ x.conn.handle = h /\ "plain" \in Kinds /\ 0 \in 0..MaxRequests
    <3>1. conn.handle = h
      BY <1>1, <1>9, PollFacts DEF Installed
    <3>2. x.conn.open /\ x.conn.handle = h
      BY <1>3, <1>4, <1>9, <3>1, Zenon
    <3>3. "plain" \in Kinds /\ 0 \in 0..MaxRequests
      BY BoundsAssumption DEF Kinds
    <3> QED BY <3>2, <3>3
  <2> HIDE DEF x
  <2>3. t \in States
    BY <1>6, <2>2, RequestOK
  <2>4. BothMove(t)
    BY <1>6, <2>2, HeardThenAsks
  <2> HIDE DEF t
  <2> QED BY <2>1, <2>3, <2>4, BecomesOK
<1> QED BY <1>7, <1>8, <1>9

\* So does the callback of a reply.
LEMMA OnReplyMoves ==
    ASSUME ChannelInv, NEW h \in Handles, NEW again \in BOOLEAN, OnReply(h, again)
    PROVE  BothMove(State')
<1> DEFINE e == NextEvent(h)
           y == Heard(h)
           x == [y EXCEPT !.records = @ \ Matching(e)]
           renames == /\ again /\ e.ok /\ ids < MaxRequests
                      /\ \E r \in Acting(e) : r.kind = "after"
           z == NextId(x)
           t == Request(z, "plain", ids + 1, h)
<1>1. Polls(h) /\ e.what = "Reply"
      /\ Becomes(IF ~Installed(h) THEN y ELSE IF renames THEN t ELSE x)
  BY DEF OnReply
<1>2. e \in Said /\ actor[h].ferry # <<>>
  BY <1>1, SessionEvent, PollFacts
<1>3. /\ y \in States
      /\ y.conn = conn /\ y.held = held /\ y.records = records /\ y.ids = ids
      /\ y.asked = asked /\ y.wire = wire /\ y.spoken = spoken
      /\ y.heard = [heard EXCEPT ![h] = Append(@, NextEvent(h))]
      /\ y.actor = [actor EXCEPT ![h] = [actor[h] EXCEPT !.ferry = Tail(@)]]
  BY <1>2, HeardFields
<1>4. /\ x \in States /\ x.records = y.records \ Matching(e)
      /\ x.conn = y.conn /\ x.held = y.held /\ x.actor = y.actor /\ x.ids = y.ids
      /\ x.asked = y.asked /\ x.wire = y.wire /\ x.spoken = y.spoken /\ x.heard = y.heard
  BY <1>3, RecordsFields
<1>5. CASE ~Installed(h)
  <2>1. State' = y
    BY <1>1, <1>3, <1>5, BecomesOK
  <2> HIDE DEF y
  <2> QED BY <1>1, <1>2, <1>3, <2>1, HeardMoves, HeardOnly
<1> HIDE DEF renames
<1>6. CASE Installed(h) /\ ~renames
  <2>1. State' = x
    BY <1>1, <1>4, <1>6, BecomesOK
  <2> HIDE DEF x, y
  <2> QED BY <1>1, <1>2, <1>3, <1>4, <2>1, HeardMoves, HeardOnly
<1>7. CASE Installed(h) /\ renames
  <2>1. Becomes(t)
    BY <1>1, <1>7
  <2>2. ids + 1 \in 0..MaxRequests
    BY <1>7, NextIdBound DEF renames
  <2> HIDE DEF x, y
  <2>3. /\ z \in States /\ z.records = x.records
        /\ z.conn = x.conn /\ z.held = x.held /\ z.actor = x.actor
        /\ z.asked = x.asked /\ z.wire = x.wire /\ z.spoken = x.spoken /\ z.heard = x.heard
    BY <1>3, <1>4, <2>2, NextIdFields
  <2> HIDE DEF z
  <2>4. ChannelOK(z, made)
    BY <1>1, <1>2, <1>3, <1>4, <2>3, HearStep, ZenonT(40)
  <2>5. z.conn.open /\ z.conn.handle = h /\ "plain" \in Kinds
    BY <1>3, <1>4, <1>7, <2>3 DEF Installed, Kinds
  <2>6. t \in States
    BY <2>2, <2>4, <2>5, RequestOK
  <2>7. \A c \in Handles : ReqSame(State, z, c) /\ EvtMove(State, z, c)
    BY <1>1, <1>2, <1>3, <1>4, <2>3, HeardMoves, ZenonT(40)
  <2>8. BothMove(t)
    BY <2>2, <2>4, <2>5, <2>7, HeardThenAsks
  <2> HIDE DEF t
  <2> QED BY <2>1, <2>6, <2>8, BecomesOK
<1> QED BY <1>5, <1>6, <1>7

\* Of an open connection the main thread still hears.
LEMMA OpenIsHeard ==
    ASSUME NEW m, NEW s, ConnPart(s, m), EventsPart(s), s.conn.open
    PROVE  /\ s.conn.handle \in Handles /\ Live(s.actor[s.conn.handle])
           /\ Hears(s.actor[s.conn.handle])
  BY HandleOfOpen DEF EventsPart, ActorOK, Hears

\* The callback of the actor's end closes both queues.
LEMMA OnShutdownMoves ==
    ASSUME ChannelInv, NEW h \in Handles, OnShutdown(h)
    PROVE  BothMove(State')
<1> DEFINE y == Taken(h)
           a == actor[h]
           b == [a EXCEPT !.ferry = Tail(@)]
<1>1. /\ Polls(h) /\ Becomes(IF Installed(h) THEN Close(y, h) ELSE y)
      /\ a.ferry # <<>>
  BY PollFacts DEF OnShutdown
<1>2. /\ y \in States
      /\ y.conn = conn /\ y.held = held /\ y.records = records /\ y.ids = ids
      /\ y.asked = asked /\ y.wire = wire /\ y.spoken = spoken /\ y.heard = heard
      /\ y.actor = [actor EXCEPT ![h] = b] /\ b \in Actors
  BY <1>1, TakenFields
<1>3. b.phase = a.phase /\ b.forwarder = a.forwarder
  BY LiveFacts DEF Actors
<1> HIDE DEF b, y
<1>4. y.actor[h] = b /\ \A g \in Handles \ {h} : y.actor[g] = actor[g]
  BY <1>2, InvTypes
<1>5. \A c \in Handles : ReqSame(State, y, c) /\ EvtSame(State, y, c)
  BY <1>2, <1>3, <1>4, StateFields DEF ReqSame, EvtSame, Live, Hears
<1>6. CASE ~Installed(h)
  <2>1. State' = y
    BY <1>1, <1>2, <1>6, BecomesOK
  <2> QED BY <1>5, <2>1, SameMoves DEF BothMove
<1>7. CASE Installed(h)
  <2>1. Becomes(Close(y, h)) /\ y.conn.handle = h /\ Live(actor[h]) /\ Hears(actor[h])
    BY <1>1, <1>2, <1>7, LiveFacts DEF Installed, Hears
  <2>2. Live(y.actor[h]) /\ Hears(y.actor[h])
    BY <1>3, <1>4, <2>1 DEF Live, Hears
  <2>3. Shut(y, Close(y, h), h)
    BY <1>2, <2>1, CloseShuts
  <2> DEFINE t == Close(y, h)
  <2> HIDE DEF t
  <2>4. \A c \in Handles : ReqMove(y, t, c) /\ EvtMove(y, t, c)
    BY <2>1, <2>2, <2>3, ShutMoves DEF t
  <2>5. BothMove(t)
    BY <1>5, <2>4, ComposeMoves DEF BothMove
  <2>6. State' = t
    <3>1. t \in States
      BY <2>3 DEF Shut, t
    <3> QED BY <2>1, <3>1, BecomesOK DEF t
  <2> QED BY <2>5, <2>6
<1> QED BY <1>6, <1>7

\* So does the last callback of a closed connection.
LEMMA PollEndsMoves ==
    ASSUME ChannelInv, NEW h \in Handles, PollEnds(h)
    PROVE  BothMove(State')
<1> DEFINE a == actor[h]
           b == [a EXCEPT !.forwarder = "gone", !.evt = <<>>]
<1>1. a \in Actors /\ a.forwarder = "last"
  BY LiveFacts DEF PollEnds
<1>2. /\ actor' = [actor EXCEPT ![h] = b] /\ spoken' = [spoken EXCEPT ![h] = <<>>]
      /\ heard' = [heard EXCEPT ![h] = <<>>] /\ asked' = asked /\ wire' = wire
  BY InvTypes DEF PollEnds, mainVars
<1>3. b.forwarder = "gone" /\ b.phase = a.phase
  BY <1>1 DEF Actors
<1> HIDE DEF b
<1>4. /\ actor'[h] = b /\ spoken'[h] = <<>> /\ heard'[h] = <<>>
      /\ \A g \in Handles \ {h} : actor'[g] = actor[g] /\ spoken'[g] = spoken[g] /\ heard'[g] = heard[g]
  BY <1>2, InvTypes
<1> DEFINE s == State
           t == State'
<1>5. \A c \in Handles : ReqSame(s, t, c)
  BY <1>2, <1>3, <1>4 DEF ReqSame, State, Live
<1>6. \A c \in Handles \ {h} : EvtSame(s, t, c)
  BY <1>4 DEF EvtSame, State
<1>7. EvtMove(s, t, h)
  <2>1. Hears(s.actor[h]) /\ ~Hears(t.actor[h]) /\ t.spoken[h] = <<>> /\ t.heard[h] = <<>>
    BY <1>1, <1>3, <1>4 DEF State, Hears
  <2> HIDE DEF s, t
  <2> QED BY <2>1 DEF EvtMove, Moves
<1> HIDE DEF t
<1> QED BY <1>5, <1>6, <1>7, SameMoves DEF BothMove, t

\* What is open is closed first, and a closed connection's channels are.
LEMMA ClosedFirstMoves ==
    ASSUME ChannelInv, MainIdle
    PROVE  LET s == IF conn.open THEN Close(State, 0) ELSE State IN
           /\ \A c \in Handles : ReqMove(State, s, c) /\ EvtMove(State, s, c)
           /\ \A c \in Handles : c > made => ReqSame(State, s, c) /\ EvtSame(State, s, c)
<1> DEFINE s == IF conn.open THEN Close(State, 0) ELSE State
<1>1. CASE ~conn.open
  <2>1. s = State
    BY <1>1
  <2>2. \A c \in Handles : ReqSame(State, s, c) /\ EvtSame(State, s, c)
    BY <2>1 DEF ReqSame, EvtSame
  <2> HIDE DEF s
  <2>3. \A c \in Handles : ReqMove(State, s, c) /\ EvtMove(State, s, c)
    BY <2>2, SameMoves
  <2> QED BY <2>2, <2>3 DEF s
<1>2. CASE conn.open
  <2>1. Shut(State, s, 0)
    BY <1>2, ClosedFirst
  <2>2. ConnPart(State, made) /\ EventsPart(State) /\ State.conn.open
    BY <1>2, StateFields DEF ChannelInv, ChannelOK
  <2>3. /\ conn.handle \in Handles /\ Live(actor[conn.handle]) /\ Hears(actor[conn.handle])
        /\ conn.handle \in 1..made /\ made \in 0..MaxHandles
    BY <2>2, OpenIsHeard, StateFields DEF ConnPart
  <2> HIDE DEF s
  <2>4. \A c \in Handles : ReqMove(State, s, c) /\ EvtMove(State, s, c)
    BY <2>1, <2>3, StateFields, ShutMoves
  <2>5. ASSUME NEW c \in Handles, c > made PROVE ReqSame(State, s, c) /\ EvtSame(State, s, c)
    <3>1. c # conn.handle
      BY <2>3, <2>5 DEF Handles
    <3>2. /\ s.actor[c] = actor[c] /\ s.asked[c] = asked[c] /\ s.wire[c] = wire[c]
          /\ s.spoken[c] = spoken[c] /\ s.heard[c] = heard[c]
      BY <2>1, <3>1, StateFields DEF Shut
    <3> QED BY <3>2, StateFields DEF ReqSame, EvtSame
  <2> QED BY <2>4, <2>5 DEF s
<1> QED BY <1>1, <1>2

\* A connect closes the queues of one handle and opens those of another.
LEMMA ConnectMoves ==
    ASSUME ChannelInv, Connect
    PROVE  BothMove(State')
<1> DEFINE s == IF conn.open THEN Close(State, 0) ELSE State
           h == made + 1
           t == OpenedState(s, h)
<1>1. MainIdle /\ h \in Handles /\ Becomes(t)
  BY DEF Connect, OpenedState
<1>2. ChannelOK(s, made) /\ ~s.conn.open /\ \A g \in Handles : s.actor[g].forwarder # "last"
  BY <1>1, ClosedFirst
<1>3. /\ \A c \in Handles : ReqMove(State, s, c) /\ EvtMove(State, s, c)
      /\ \A c \in Handles : c > made => ReqSame(State, s, c) /\ EvtSame(State, s, c)
  BY <1>1, ClosedFirstMoves
<1> HIDE DEF s
<1>4. /\ t \in States
      /\ t.asked = s.asked /\ t.wire = s.wire /\ t.spoken = s.spoken /\ t.heard = s.heard
      /\ t.actor = [s.actor EXCEPT ![h] = Fresh]
      /\ s.asked[h] = <<>> /\ s.wire[h] = <<>> /\ s.spoken[h] = <<>> /\ s.heard[h] = <<>>
      /\ ~Live(s.actor[h]) /\ s.actor[h].forwarder = "gone"
  BY <1>1, <1>2, OpensOK
<1> HIDE DEF t
<1>5. DOMAIN s.actor = Handles /\ made \in 0..MaxHandles /\ h > made
  BY <1>2, StateTypes DEF ChannelOK, ConnPart
<1>6. t.actor[h] = Fresh /\ \A c \in Handles \ {h} : t.actor[c] = s.actor[c]
  BY <1>1, <1>4, <1>5
<1> HIDE DEF h
<1>7. ReqMove(s, t, h) /\ EvtMove(s, t, h)
  <2>1. Live(t.actor[h]) /\ Hears(t.actor[h]) /\ ~Hears(s.actor[h])
    BY <1>4, <1>6, FreshOK DEF Hears
  <2>2. t.asked[h] = <<>> /\ t.wire[h] = <<>> /\ t.spoken[h] = <<>> /\ t.heard[h] = <<>>
    BY <1>4
  <2> QED BY <1>4, <2>1, <2>2 DEF ReqMove, EvtMove, Moves
<1>8. \A c \in Handles \ {h} : ReqSame(s, t, c) /\ EvtSame(s, t, c)
  BY <1>4, <1>6 DEF ReqSame, EvtSame
<1>9. BothMove(t)
  <2>1. ReqMove(State, t, h) /\ EvtMove(State, t, h)
    BY <1>1, <1>3, <1>5, <1>7, ComposeMoves
  <2>2. ASSUME NEW c \in Handles \ {h} PROVE ReqMove(State, t, c) /\ EvtMove(State, t, c)
    BY <1>3, <1>8, ComposeMoves
  <2> QED BY <2>1, <2>2 DEF BothMove
<1> QED BY <1>1, <1>4, <1>9, BecomesOK

\* A failed connect closes those of the connection there was.
LEMMA ConnectFailsMoves ==
    ASSUME ChannelInv, ConnectFails
    PROVE  BothMove(State')
<1> DEFINE s == IF conn.open THEN Close(State, 0) ELSE State
           t == [s EXCEPT !.conn = Closed]
<1>1. MainIdle /\ Becomes(t)
  BY DEF ConnectFails
<1>2. s \in States /\ \A c \in Handles : ReqMove(State, s, c) /\ EvtMove(State, s, c)
  BY <1>1, ClosedFirst, ClosedFirstMoves
<1> HIDE DEF s
<1>3. Closed \in [open : BOOLEAN, handle : 0..MaxHandles, fetched : BOOLEAN, trans : Nat]
  BY BoundsAssumption DEF Closed
<1>4. /\ t.actor = s.actor /\ t.asked = s.asked /\ t.wire = s.wire
      /\ t.spoken = s.spoken /\ t.heard = s.heard /\ t \in States
  BY <1>2, <1>3 DEF States
<1> HIDE DEF t
<1>5. \A c \in Handles : ReqSame(s, t, c) /\ EvtSame(s, t, c)
  BY <1>4 DEF ReqSame, EvtSame
<1>6. BothMove(t)
  BY <1>2, <1>5, ComposeMoves DEF BothMove
<1> QED BY <1>1, <1>4, <1>6, BecomesOK

\* Disconnecting closes both queues.
LEMMA DisconnectMoves ==
    ASSUME ChannelInv, Disconnect
    PROVE  BothMove(State')
<1> DEFINE t == Close(State, 0)
<1>1. conn.open /\ Becomes(t)
  BY DEF Disconnect
<1>2. ConnPart(State, made) /\ EventsPart(State) /\ State.conn.open
  BY <1>1, StateFields DEF ChannelInv, ChannelOK
<1>3. Shut(State, t, 0) /\ t \in States
  BY <1>2, CloseOK
<1> HIDE DEF t
<1>4. BothMove(t)
  BY <1>2, <1>3, OpenIsHeard, ShutMoves DEF BothMove
<1> QED BY <1>1, <1>3, <1>4, BecomesOK

\* A request puts one frame in, or closes.
LEMMA AskMoves ==
    ASSUME ChannelInv, NEW kind \in Asks, Ask(kind)
    PROVE  BothMove(State')
<1> DEFINE s == NextId(State)
           t == Request(s, kind, ids + 1, 0)
           frame == FrameOf(s, kind, ids + 1)
<1>1. conn.open /\ ids < MaxRequests /\ Becomes(t) /\ kind \in Kinds
  BY AsksAssumption DEF Ask
<1>2. ids + 1 \in 0..MaxRequests
  BY <1>1, NextIdBound
<1>3. /\ ChannelOK(s, made) /\ s.conn = conn /\ s.actor = actor /\ s.asked = asked
      /\ s.wire = wire /\ s.spoken = spoken /\ s.heard = heard
  BY <1>2, NextIdOK, StateFields DEF ChannelInv
<1> HIDE DEF s
<1>4. s \in States /\ s.conn.handle \in Handles /\ s.conn.open /\ s.conn.trans = 0
  BY <1>1, <1>3, HandleOfOpen DEF ChannelOK, ConnPart, TransPart
<1>5. frame \in Frame /\ Asked(s, t, frame, 0) /\ t \in States
  BY <1>1, <1>2, <1>3, <1>4, RequestOutcome, RequestOK
<1> HIDE DEF t, frame
<1>6. \A c \in Handles : ReqMove(s, t, c) /\ EvtMove(s, t, c)
  BY <1>3, <1>4, <1>5, AskedMoves
<1>7. \A c \in Handles : ReqSame(State, s, c) /\ EvtSame(State, s, c)
  BY <1>3, StateFields DEF ReqSame, EvtSame
<1>8. BothMove(t)
  BY <1>6, <1>7, ComposeMoves DEF BothMove
<1> QED BY <1>1, <1>5, <1>8, BecomesOK

\* A request that cannot be packed closes both queues.
LEMMA AskUnpackableMoves ==
    ASSUME ChannelInv, AskUnpackable
    PROVE  BothMove(State')
<1> DEFINE s == NextId(State)
           r == Reserve(s)
           t == Close(r, 0)
<1>1. conn.open /\ ids < MaxRequests /\ Becomes(t)
  BY DEF AskUnpackable
<1>2. ids + 1 \in 0..MaxRequests
  BY <1>1, NextIdBound
<1>3. /\ ChannelOK(s, made) /\ s.conn = conn /\ s.actor = actor /\ s.asked = asked
      /\ s.wire = wire /\ s.spoken = spoken /\ s.heard = heard
  BY <1>2, NextIdOK, StateFields DEF ChannelInv
<1> HIDE DEF s
<1>4. s \in States /\ s.conn.handle \in Handles /\ s.conn.open
  BY <1>1, <1>3, HandleOfOpen DEF ChannelOK, ConnPart
<1>5. ConnPart(r, made) /\ EventsPart(r) /\ r.conn.open
  BY <1>3, <1>4, ReserveOK DEF ChannelOK
<1>6. \A c \in Handles : ReqSame(s, r, c) /\ EvtSame(s, r, c)
  BY <1>4, ReserveFields DEF ReqSame, EvtSame, SameTalk, Live, Hears
<1> HIDE DEF r
<1>7. Shut(r, t, 0) /\ t \in States
  BY <1>5, CloseOK
<1> HIDE DEF t
<1>8. \A c \in Handles : ReqMove(r, t, c) /\ EvtMove(r, t, c)
  BY <1>5, <1>7, OpenIsHeard, ShutMoves
<1>9. \A c \in Handles : ReqSame(State, s, c) /\ EvtSame(State, s, c)
  BY <1>3, StateFields DEF ReqSame, EvtSame
<1>10. BothMove(t)
  BY <1>6, <1>8, <1>9, ComposeMoves DEF BothMove
<1> QED BY <1>1, <1>7, <1>10, BecomesOK

\* Every step is a step of the two queues of every handle.
LEMMA NextMoves == ChannelInv /\ [Next]_vars => BothMove(State')
<1> SUFFICES ASSUME ChannelInv, [Next]_vars PROVE BothMove(State')
  OBVIOUS
<1>1. CASE UserStep
  BY <1>1, ConnectMoves, ConnectFailsMoves, DisconnectMoves, AskMoves, AskUnpackableMoves DEF UserStep
<1>2. CASE \E h \in Handles : TaskStep(h)
  BY <1>2, TaskStepMoves
<1>3. CASE \E h \in Handles : Callback(h)
  BY <1>3, OnLoggedInMoves, OnReadyMoves, OnReplyMoves, OnShutdownMoves, PollEndsMoves DEF Callback
<1>4. CASE UNCHANGED vars
  <2>1. asked' = asked /\ wire' = wire /\ spoken' = spoken /\ heard' = heard /\ actor' = actor
    BY <1>4 DEF vars, mainVars, histories
  <2> QED BY <2>1, CalmMoves
<1>5. CASE \E h \in Handles : WriteStalls(h)
  <2>1. asked' = asked /\ wire' = wire /\ spoken' = spoken /\ heard' = heard /\ actor' = actor
    BY <1>5 DEF WriteStalls, mainVars, histories
  <2> QED BY <2>1, CalmMoves
<1> QED BY <1>1, <1>2, <1>3, <1>4, <1>5 DEF Next

\* What the actor writes to a server is what was asked of that connect, in that order, as a
\* first-in-first-out queue that opens with the connect and closes with it: the requests
\* held until the login settles go out first, and none goes out on another connect.
THEOREM RequestsRefineFifo == Spec => RequestsInOrder
<1>1. Init => Requests!Init
  <2> SUFFICES ASSUME Init, NEW h \in Handles
               PROVE  asked[h] = <<>> /\ wire[h] = <<>> /\ actor[h].phase \in {"none", "gone"}
    BY DEF Requests!Init, Requests!Empty
  <2> QED BY NoActorOK DEF Init, Nothing
<1>2. ChannelInv /\ ChannelInv' /\ [Next]_vars => [Requests!Next]_<<asked, wire, [h \in Handles |-> actor[h].phase \notin {"none", "gone"}]>>
  <2> SUFFICES ASSUME ChannelInv, ChannelInv', [Next]_vars PROVE Requests!Next
    OBVIOUS
  <2>1. BothMove(State')
    BY NextMoves
  <2>2. \A c \in Handles : Moves(asked[c], wire[c], Live(actor[c]), asked'[c], wire'[c], Live(actor'[c]))
    BY <2>1 DEF BothMove, ReqMove, State
  <2>3. actor \in [Handles -> Actors] /\ actor' \in [Handles -> Actors]
    <3>1. actor \in [Handles -> Actors]
      BY InvTypes
    <3>2. State' \in States
      BY DEF ChannelInv, ChannelOK, ConnPart
    <3> QED BY <3>1, <3>2 DEF State, States
  <2>4. \A c \in Handles : /\ Live(actor[c]) <=> actor[c].phase \notin {"none", "gone"}
                           /\ Live(actor'[c]) <=> actor'[c].phase \notin {"none", "gone"}
    BY <2>3 DEF Live, Actors, Phases
  <2> QED BY <2>2, <2>4, ZenonT(40) DEF Moves, Requests!Next, Requests!Put, Requests!Get, Requests!Open,
                            Requests!Close, Requests!Idle, Requests!Empty
<1>3. Spec => []ChannelInv
  BY InitOK, NextOK, PTL DEF Spec
<1> QED BY <1>1, <1>2, <1>3, PTL DEF Spec, RequestsInOrder, Requests!Spec

\* The main thread hears what a session said in the order it was said and with nothing left
\* out, whichever side of the actor took it from the session and handed it on, through the
\* event channel and the ferry to the main loop, and hears nothing of a connection once it
\* is closed.
THEOREM EventsRefineFifo == Spec => EventsInOrder
<1>1. Init => Events!Init
  <2> SUFFICES ASSUME Init, NEW h \in Handles
               PROVE  spoken[h] = <<>> /\ heard[h] = <<>> /\ actor[h].forwarder = "gone"
    BY DEF Events!Init, Events!Empty
  <2> QED BY NoActorOK DEF Init, Nothing
<1>2. ChannelInv /\ [Next]_vars => [Events!Next]_<<spoken, heard, [h \in Handles |-> actor[h].forwarder # "gone"]>>
  <2> SUFFICES ASSUME ChannelInv, [Next]_vars PROVE Events!Next
    OBVIOUS
  <2>1. BothMove(State')
    BY NextMoves
  <2>2. \A c \in Handles : Moves(spoken[c], heard[c], Hears(actor[c]), spoken'[c], heard'[c], Hears(actor'[c]))
    BY <2>1 DEF BothMove, EvtMove, State
  <2> QED BY <2>2 DEF Moves, Hears, Events!Next, Events!Put, Events!Get, Events!Open,
                      Events!Close, Events!Idle, Events!Empty
<1>3. Spec => []ChannelInv
  BY InitOK, NextOK, PTL DEF Spec
<1> QED BY <1>1, <1>2, <1>3, PTL DEF Spec, EventsInOrder, Events!Spec
=============================================================================
