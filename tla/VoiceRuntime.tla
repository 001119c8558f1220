------------------------------ MODULE VoiceRuntime ------------------------------
(***************************************************************************)
(* The runtime around the voice session machine                            *)
(* (rust/crates/hxvoice-runtime/src/runtime.rs): it feeds the machine      *)
(* events, carries out the effects step returns, and owns the timers, the  *)
(* wedge watchdog and the GStreamer pipeline.                              *)
(*                                                                         *)
(* webrtcbin works in threads of its own.  What it finishes comes back as  *)
(* a closure posted to the GLib main context, run later and in order, so   *)
(* between the post and the run the user may have left or switched rooms.  *)
(* Mute, participants and video events do not touch what is modelled here  *)
(* and are left to VoiceSession; so are ICE candidates and receive pads.   *)
(***************************************************************************)
EXTENDS VoiceSession

CONSTANTS
    MaxNegotiations,   \* bound: offers handed to webrtcbin
    MaxPosted          \* bound: closures waiting in the main context

ASSUME BoundsAssumption == MaxNegotiations \in Nat /\ MaxPosted \in Nat \ {0}

VARIABLES
    timers,          \* armed_timer_sources
    wedge,           \* the wedge watchdog is armed
    rtp,             \* RTP has arrived since the watchdog's snapshot
    lastPeer,        \* last_seen_peer_state
    beenConnected,   \* has_been_connected_since_join
    answerGen,       \* answer_generation
    pending,         \* events queued behind the one being dispatched
    bin,             \* the current pipeline's webrtcbin
    promises,        \* promises webrtcbin has not resolved
    capsWaits,       \* answers waiting for the senders' caps
    posted           \* closures in the main context, oldest first

binVars == <<bin, promises, capsWaits, posted>>
clockVars == <<timers, wedge, rtp, lastPeer, beenConnected>>
runtimeVars == <<sessionVars, clockVars, answerGen, pending, binVars>>

FreshBin == [up |-> TRUE, remote |-> None, local |-> FALSE, peer |-> "Closed"]
NoBin == [FreshBin EXCEPT !.up = FALSE]

Promise(phase, g, o) == [phase |-> phase, gen |-> g, offer |-> o]
Post(what, g, v) == [what |-> what, gen |-> g, value |-> v]

RuntimeInit ==
    /\ SessionInit
    /\ timers = {}
    /\ wedge = FALSE
    /\ rtp = FALSE
    /\ lastPeer = None
    /\ beenConnected = FALSE
    /\ answerGen = 0
    /\ pending = <<>>
    /\ bin = FreshBin
    /\ promises = {}
    /\ capsWaits = {}
    /\ posted = <<>>

-----------------------------------------------------------------------------
(* Carrying out the effects of a step of the machine.                       *)

TornDown == EmitsIn(out', TearDown)
Enters(s) == state # s /\ state' = s

\* Mutated form of TimersAfter: the teardown leaves them running.
TimersOutliveTearDown(armed, effects) ==
    {k \in Timers :
        \E i \in 0 .. Len(effects) :
            /\ \/ i = 0 /\ k \in armed
               \/ i > 0 /\ effects[i] = Arm(k)
            /\ \A j \in i + 1 .. Len(effects) : effects[j] # Cancel(k)}

\* The timers left armed by the effects, in their order.
TimersAfter(armed, effects) ==
    {k \in Timers :
        \E i \in 0 .. Len(effects) :
            /\ \/ i = 0 /\ k \in armed
               \/ i > 0 /\ effects[i] = Arm(k)
            /\ \A j \in i + 1 .. Len(effects) : effects[j] \notin {TearDown, Cancel(k)}}

\* reset_and_rebuild_pipeline: a new webrtcbin, or none if the build fails;
\* once there is none there is nothing to rebuild.  Closures already posted
\* stay, and answer_generation is not bumped.
BinAfter ==
    IF TornDown
    THEN /\ bin' \in (IF bin.up THEN {FreshBin, NoBin} ELSE {NoBin})
         /\ promises' = {}
    ELSE /\ bin' = [bin EXCEPT !.local = @ \/ \E a \in Offers : EmitsIn(out', SetLocal(a))]
         /\ promises' = promises \cup
                {Promise("remote", answerGen', o) :
                    o \in {x \in Offers : bin.up /\ EmitsIn(out', SetRemote(x))}}

GenAfter ==
    answerGen' = IF \E o \in Offers : EmitsIn(out', SetRemote(o)) THEN answerGen + 1 ELSE answerGen

\* A session that connected before is not watched again, nor is one webrtcbin
\* already reports connected.
WedgeArms(peer) == peer # "Connected" /\ ~beenConnected

WedgeAfter(peer) ==
    wedge' = CASE Enters("Connecting") -> wedge \/ WedgeArms(peer)
               [] OTHER -> wedge /\ state' = "Connecting" /\ ~TornDown

\* Mutated form of Synthesized: nothing is queued.
SynthesizedNever(peer) == <<>>

\* webrtcbin reports changes only, so a renegotiation that leaves it connected
\* would never be reported: the runtime queues the report itself.
Synthesized(peer) == IF Enters("Connecting") /\ peer = "Connected" THEN <<"Connected">> ELSE <<>>

\* The rest of one turn of handle_event's loop, after the machine's step.
Dispatch(armed, peer, rest) ==
    /\ timers' = TimersAfter(armed, out')
    /\ GenAfter
    /\ BinAfter
    /\ lastPeer' = IF TornDown \/ Enters("JoinSent") THEN None ELSE peer
    /\ beenConnected' = /\ ~TornDown
                        /\ ~Enters("JoinSent")
                        /\ beenConnected \/ (state = "Connecting" /\ state' = "Connected")
    /\ WedgeAfter(peer)
    /\ rtp' = (rtp /\ ~TornDown /\ ~(wedge' /\ ~wedge))
    /\ pending' = rest \o Synthesized(peer)

LoopFree == pending = <<>>   \* the main loop is between events

HandlePeer(st, rest) ==
    /\ WebrtcConnectionStateChanged(st)
    /\ Dispatch(timers, st, rest)
    /\ UNCHANGED capsWaits

\* Event queued during the dispatch of another.
DispatchPending ==
    /\ pending # <<>>
    /\ HandlePeer(Head(pending), Tail(pending))
    /\ UNCHANGED posted

-----------------------------------------------------------------------------
(* Events from the UI, the server and the timers.                           *)

Step(event) ==
    /\ LoopFree
    /\ event
    /\ Dispatch(timers, lastPeer, <<>>)
    /\ UNCHANGED <<capsWaits, posted>>

Join(c) == Step(JoinRequested(c))
LeaveRoom(c) == Step(LeaveRequested(c))
Offer(o) == answerGen < MaxNegotiations /\ Step(SdpOfferReceived(o))
Refusal(op) == Step(ServerTaskError(op))

\* The source is dropped from the table before the machine hears of it.
TimerFires(k) ==
    /\ LoopFree
    /\ k \in timers
    /\ Timeout(k)
    /\ Dispatch(timers \ {k}, lastPeer, <<>>)
    /\ UNCHANGED <<capsWaits, posted>>

\* RTP in the last window keeps a session webrtcbin never reported connected.
WedgeTick ==
    /\ LoopFree
    /\ wedge
    /\ \/ /\ rtp
          /\ rtp' = FALSE
          /\ out' = <<>>
          /\ UNCHANGED <<machineVars, timers, wedge, lastPeer, beenConnected, answerGen, pending, binVars>>
       \/ /\ ~rtp
          /\ Timeout("WedgeDeadline")
          /\ Dispatch(timers, lastPeer, <<>>)
          /\ UNCHANGED <<capsWaits, posted>>

-----------------------------------------------------------------------------
(* Closures run by the main context, oldest first.                          *)

Quiet == out' = <<>> /\ UNCHANGED <<machineVars, clockVars, answerGen, pending>>

\* create_answer on whatever webrtcbin there is now.
CreateAnswerNow(g) == promises' = promises \cup (IF bin.up THEN {Promise("answer", g, None)} ELSE {})

\* The offer is applied: answer at once, or wait for fresh senders' caps.
RunRemoteApplied(m) ==
    /\ m.what = "remote"
    /\ \/ /\ m.gen = answerGen
          /\ \/ CreateAnswerNow(m.gen) /\ UNCHANGED capsWaits
             \/ bin.up /\ capsWaits' = capsWaits \cup {m.gen} /\ UNCHANGED promises
       \/ m.gen # answerGen /\ UNCHANGED <<promises, capsWaits>>
    /\ Quiet
    /\ UNCHANGED bin

RunCapsReady(m) ==
    /\ m.what = "caps"
    /\ \/ m.gen = answerGen /\ CreateAnswerNow(m.gen)
       \/ m.gen # answerGen /\ UNCHANGED promises
    /\ Quiet
    /\ UNCHANGED <<bin, capsWaits>>

\* Mutated form of RunAnswer: the generation is not compared.
RunAnswerAnyGeneration(m) ==
    /\ m.what = "answer"
    /\ WebrtcAnswerCreated(m.value)
    /\ Dispatch(timers, lastPeer, <<>>)
    /\ UNCHANGED capsWaits

\* An answer to a superseded offer is dropped.
RunAnswer(m) ==
    /\ m.what = "answer"
    /\ \/ /\ m.gen = answerGen
          /\ WebrtcAnswerCreated(m.value)
          /\ Dispatch(timers, lastPeer, <<>>)
          /\ UNCHANGED capsWaits
       \/ /\ m.gen # answerGen
          /\ Quiet
          /\ UNCHANGED <<bin, promises, capsWaits>>

\* The closure knows the runtime, not the pipeline that posted it.
RunPeerState(m) ==
    /\ m.what = "peer"
    /\ HandlePeer(m.value, <<>>)

RunPosted ==
    /\ LoopFree
    /\ posted # <<>>
    /\ posted' = Tail(posted)
    /\ LET m == Head(posted)
       IN  RunRemoteApplied(m) \/ RunCapsReady(m) \/ RunAnswer(m) \/ RunPeerState(m)

-----------------------------------------------------------------------------
(* webrtcbin's threads (external).                                          *)

Posts(m) == Len(posted) < MaxPosted /\ posted' = Append(posted, m)

BinAppliesRemote(p) ==
    /\ p.phase = "remote"
    /\ bin' = [bin EXCEPT !.remote = p.offer]
    /\ promises' = promises \ {p}
    /\ Posts(Post("remote", p.gen, None))
    /\ UNCHANGED capsWaits

\* The answer is written for the remote description in force.
BinAnswers(p) ==
    /\ p.phase = "answer"
    /\ bin.remote # None
    /\ promises' = promises \ {p}
    /\ Posts(Post("answer", p.gen, bin.remote))
    /\ UNCHANGED <<bin, capsWaits>>

\* A description that does not parse or apply, an answer that is not written:
\* logged, and nothing is posted.
BinRefuses(p) ==
    /\ promises' = promises \ {p}
    /\ UNCHANGED <<bin, capsWaits, posted>>

\* The senders' caps, or SENDER_CAPS_WAIT_MS, which does without them.
CapsReady(g) ==
    /\ capsWaits' = capsWaits \ {g}
    /\ Posts(Post("caps", g, None))
    /\ UNCHANGED <<bin, promises>>

BinPeer(st) ==
    /\ bin.up /\ bin.local
    /\ st # bin.peer /\ bin.peer # "Failed"
    /\ bin' = [bin EXCEPT !.peer = st]
    /\ Posts(Post("peer", 0, st))
    /\ UNCHANGED <<promises, capsWaits>>

BinRtp ==
    /\ bin.up /\ bin.local /\ ~rtp
    /\ rtp' = TRUE
    /\ out' = <<>>
    /\ UNCHANGED <<machineVars, timers, wedge, lastPeer, beenConnected, answerGen, pending, binVars>>

BinNext ==
    \/ /\ \/ \E p \in promises : BinAppliesRemote(p) \/ BinAnswers(p) \/ BinRefuses(p)
          \/ \E g \in capsWaits : CapsReady(g)
          \/ \E st \in PeerStates \ {"Closed"} : BinPeer(st)
       /\ Quiet
    \/ BinRtp

-----------------------------------------------------------------------------
LoopNext ==
    \/ \E c \in Rooms : Join(c) \/ LeaveRoom(c)
    \/ \E o \in Offers : Offer(o)
    \/ \E op \in {"JOIN", "ANSWER"} : Refusal(op)
    \/ \E k \in Timers : TimerFires(k)
    \/ WedgeTick
    \/ RunPosted
    \/ DispatchPending

RuntimeNext == LoopNext \/ BinNext

\* The main loop runs what is posted and what is due, and webrtcbin resolves
\* its promises one way or the other.  Nothing is assumed of the user, the
\* server or the network.
RuntimeFairness ==
    /\ WF_runtimeVars(RunPosted)
    /\ WF_runtimeVars(DispatchPending)
    /\ WF_runtimeVars(WedgeTick)
    /\ \A k \in Timers : WF_runtimeVars(TimerFires(k))
    /\ WF_runtimeVars(\E p \in promises : (BinAppliesRemote(p) \/ BinAnswers(p) \/ BinRefuses(p)) /\ Quiet)
    /\ WF_runtimeVars(\E g \in capsWaits : CapsReady(g) /\ Quiet)

RuntimeSpec == RuntimeInit /\ [][RuntimeNext]_runtimeVars /\ RuntimeFairness
-----------------------------------------------------------------------------
(* Properties.                                                              *)

\* Every variable of the machine and of the runtime has its type, and what
\* webrtcbin still has in hand belongs to a negotiation that was begun.
RuntimeTypeOK ==
    /\ SessionTypeOK
    /\ timers \subseteq Timers
    /\ {wedge, rtp, beenConnected} \subseteq BOOLEAN
    /\ lastPeer \in PeerStates \cup {None}
    /\ answerGen \in 0 .. MaxNegotiations
    /\ pending \in Seq(PeerStates)
    /\ bin \in [up : BOOLEAN, remote : Offers \cup {None}, local : BOOLEAN,
                peer : PeerStates]
    /\ \A p \in promises : p.phase \in {"remote", "answer"} /\ p.gen \in 1 .. answerGen
    /\ capsWaits \subseteq 1 .. answerGen

AnswersTheOffer ==
    \A a \in Offers : EmitsIn(out', SetLocal(a)) => a = bin.remote /\ a.cid = activeCid

\* Every answer sent answers the offer webrtcbin holds, an offer of the room
\* joined: one written for a superseded offer or for the room before a switch
\* is never sent, although nothing withdraws its promise.
AnswersAreCurrent == [][AnswersTheOffer]_runtimeVars

\* webrtcbin never has two remote descriptions on the way at once.
NegotiationsSerialised ==
    \A p, q \in promises : p.phase = "remote" /\ q.phase = "remote" => p = q

\* The join is guarded by its timer exactly while it waits for the offer, and
\* no timer or watchdog outlives the session it was armed for.
TimersMatchSession ==
    /\ "JoinReply" \in timers <=> state = "JoinSent"
    /\ ~InRoom => timers = {} /\ ~wedge

\* A session that has never been connected is watched all the time it is
\* connecting, and the watchdog watches nothing else.
UnconnectedIsWatched ==
    /\ wedge => state = "Connecting"
    /\ LoopFree /\ state = "Connecting" /\ ~beenConnected => wedge

\* A join whose offer never comes is given up.
JoinEnds == \A c \in Rooms :
    (state = "JoinSent" /\ activeCid = c) ~> ~(state = "JoinSent" /\ activeCid = c)

\* A first connection that carries no media is given up.
WedgedEnds ==
    (state = "Connecting" /\ ~beenConnected) ~> (state # "Connecting" \/ rtp)

\* Once webrtcbin is connected the session does not stay in Connecting, however
\* the report and a renegotiation were ordered.
ConnectedIsNoticed ==
    (state = "Connecting" /\ bin.peer = "Connected")
        ~> (state # "Connecting" \/ bin.peer # "Connected")

\* What the comments say of an offer webrtcbin refuses: a timer ends the session.
UnansweredOfferEnds ==
    (state = "OfferPending" /\ bin.up) ~> (state # "OfferPending")

\* The runtime keeps step with the machine: one negotiation at a time, the
\* timers and the watchdog of the session there is, and no others.
RuntimeInStep ==
    RuntimeTypeOK /\ NegotiationsSerialised /\ TimersMatchSession /\ UnconnectedIsWatched

\* A session gets somewhere: a join without an offer and a first connection
\* without media are given up, and a connection made is noticed.
SessionsGetSomewhere == JoinEnds /\ WedgedEnds /\ ConnectedIsNoticed
=============================================================================
