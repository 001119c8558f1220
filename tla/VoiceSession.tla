------------------------------ MODULE VoiceSession ------------------------------
(***************************************************************************)
(* The voice session machine of GtkHx (rust/crates/hxvoice/src/state.rs).  *)
(*                                                                         *)
(* SessionMachine::step is a function of the current state and one event;  *)
(* it returns the side effects the runtime has to carry out, in order.     *)
(* Here every event is an action, total in the states (an event that no    *)
(* arm of the match takes is Ignored), and the returned effects are the    *)
(* value of the variable out.  Signals to the UI (StateChanged, toasts,    *)
(* RoomStatus, ...) announce changes the variables already show and are    *)
(* left out of out.  An SDP is reduced to the receive mids it names and    *)
(* the ones among them whose section is a=inactive.                        *)
(***************************************************************************)
EXTENDS Naturals, Sequences

CONSTANTS
    Rooms,      \* chat-room ids
    Users,      \* user ids
    Self,       \* this client's own user id
    Kinds,      \* VideoKind::ALL: the camera and the screen
    Mids,       \* receive mids an SDP can name
    Sdps,       \* the offers' bodies: [mids : SUBSET Mids, inactive : SUBSET Mids]
    GenMod,     \* number of values of a generation counter (2^32 in the code)
    None        \* Option::None

ASSUME RoomsAssumption == None \notin Rooms
ASSUME SelfAssumption == Self \in Users
ASSUME SdpsAssumption ==
    Sdps \subseteq {s \in [mids : SUBSET Mids, inactive : SUBSET Mids] : s.inactive \subseteq s.mids}
ASSUME GenModAssumption == GenMod \in Nat \ {0}

VARIABLES
    state,            \* SessionState
    activeCid,        \* the room joined or being joined, or None
    midToUser,        \* the receive mids of the last offer taken
    publications,     \* the room's streams, as the last 611 listed them
    wanted,           \* the receive set the UI wants
    subscribed,       \* the receive set last sent to the server (610)
    subscribedStale,  \* the server refused the last 610
    localVideo,       \* own publications: "off", "live" or "paused"
    localListed,      \* whether a 611 has listed each of them
    startGen,         \* number of the latest 607, per kind
    pauseGen,         \* number of the latest 609, per kind
    participants,     \* the users of the last 605
    muted,            \* the mute state last asked for
    queuedOffer,      \* an offer received while another is being answered
    out               \* the effects the last step returned, in order

videoVars == <<publications, wanted, subscribed, subscribedStale, localVideo, localListed>>
genVars == <<startGen, pauseGen>>
machineVars == <<state, activeCid, midToUser, videoVars, genVars, participants, muted, queuedOffer>>
sessionVars == <<machineVars, out>>

States == {"Idle", "JoinSent", "OfferPending", "Connecting", "Connected", "Leaving"}
Timers == {"JoinReply", "Dtls", "IceConnectivity", "Media"}
PeerStates == {"Closed", "Connecting", "Connected", "Disconnected", "Failed"}
Streams == [user : Users, kind : Kinds]
Offers == [cid : Rooms, sdp : Sdps]
Gens == 0 .. GenMod - 1

-----------------------------------------------------------------------------
(* Effects (action.rs).                                                     *)

Cancel(t) == [do |-> "CancelTimer", timer |-> t]
Arm(t) == [do |-> "ArmTimer", timer |-> t]
TearDown == [do |-> "TearDown"]
SendFrame(op, c) == [do |-> "Send", op |-> op, cid |-> c]
SendAnswer(c, a) == [do |-> "Send", op |-> "ANSWER", cid |-> c, answer |-> a]
SendKind(op, c, k, g) == [do |-> "Send", op |-> op, cid |-> c, kind |-> k, gen |-> g]
SendPaused(c, k, p, g) == [do |-> "Send", op |-> "STATE", cid |-> c, kind |-> k, paused |-> p, gen |-> g]
SendStreams(c, ss) == [do |-> "Send", op |-> "SUBSCRIBE", cid |-> c, streams |-> ss]
SendMuted(c, b) == [do |-> "Send", op |-> "MUTE", cid |-> c, muted |-> b]
SetRemote(o) == [do |-> "SetRemoteDescription", offer |-> o]
SetLocal(a) == [do |-> "SetLocalDescription", answer |-> a]
CreateAnswer == [do |-> "CreateAnswer"]
AddIce == [do |-> "AddRemoteIce"]
StartReceive(m) == [do |-> "StartReceivePipeline", mid |-> m]
StopReceive(ms) == [do |-> "StopReceivePipeline", mids |-> ms]   \* one for each mid of ms
SetMute(b) == [do |-> "SetSendPipelineMute", muted |-> b]
Publish(ks, b) == [do |-> "SetVideoPublishing", kinds |-> ks, on |-> b]   \* one for each kind of ks
PauseVideo(k, b) == [do |-> "SetVideoPaused", kind |-> k, paused |-> b]

CancelAll == <<Cancel("JoinReply"), Cancel("Dtls"), Cancel("IceConnectivity"), Cancel("Media")>>

\* The offer handed to webrtcbin: the legs of departed users are stopped first.
Negotiate(o) == <<StopReceive(o.sdp.inactive), SetRemote(o), CreateAnswer>>

Wrap(g) == (g + 1) % GenMod

-----------------------------------------------------------------------------
InVoice == state \in {"OfferPending", "Connecting", "Connected"}
InRoom == state \in {"JoinSent", "OfferPending", "Connecting", "Connected"}
AcceptsOffer(c) == activeCid = c /\ InRoom

\* The catch-all arm and the early returns: the event is observed, nothing happens.
Ignored == out' = <<>> /\ UNCHANGED machineVars

\* Mutated form of ResetVideo: the captures are forgotten.
ResetVideoButCaptures ==
    /\ publications' = {} /\ wanted' = {} /\ subscribed' = {} /\ subscribedStale' = FALSE
    /\ UNCHANGED <<localVideo, localListed>>

ResetVideo ==
    /\ publications' = {}
    /\ wanted' = {}
    /\ subscribed' = {}
    /\ subscribedStale' = FALSE
    /\ localVideo' = [k \in Kinds |-> "off"]
    /\ localListed' = [k \in Kinds |-> FALSE]

SessionInit ==
    /\ state = "Idle"
    /\ activeCid = None
    /\ midToUser = {}
    /\ publications = {} /\ wanted = {} /\ subscribed = {} /\ subscribedStale = FALSE
    /\ localVideo = [k \in Kinds |-> "off"]
    /\ localListed = [k \in Kinds |-> FALSE]
    /\ startGen = [k \in Kinds |-> 0]
    /\ pauseGen = [k \in Kinds |-> 0]
    /\ participants = {}
    /\ muted = FALSE
    /\ queuedOffer = None
    /\ out = <<>>

-----------------------------------------------------------------------------
(* Joining and leaving.                                                     *)

EnterRoom(c) ==
    /\ activeCid' = c
    /\ midToUser' = {}
    /\ participants' = {}
    /\ ResetVideo
    /\ queuedOffer' = None
    /\ state' = "JoinSent"
    /\ UNCHANGED genVars

JoinFromIdle(c) ==
    /\ state = "Idle"
    /\ EnterRoom(c)
    /\ out' = <<SendFrame("JOIN", c), Arm("JoinReply")>>
    /\ UNCHANGED muted

\* A join with a session up (a room switch), or after a failure.
JoinSwitch(c) ==
    /\ state # "Idle"
    /\ state # "Leaving" => activeCid # c
    /\ EnterRoom(c)
    /\ muted' = FALSE
    /\ out' = CancelAll \o <<TearDown, SendFrame("JOIN", c), Arm("JoinReply")>>

JoinRequested(c) ==
    \/ JoinFromIdle(c)
    \/ JoinSwitch(c)
    \/ InRoom /\ activeCid = c /\ Ignored

Leave(c) ==
    /\ InRoom
    /\ activeCid = c
    /\ queuedOffer' = None
    /\ activeCid' = None
    /\ midToUser' = {}
    /\ participants' = {}
    /\ ResetVideo
    /\ muted' = FALSE
    /\ state' = "Idle"
    /\ out' = CancelAll \o <<SendFrame("LEAVE", c), TearDown>>
    /\ UNCHANGED genVars

LeaveRequested(c) ==
    \/ Leave(c)
    \/ ~(InRoom /\ activeCid = c) /\ Ignored

FailCancels ==
    CASE state = "Connected" -> CancelAll
      [] state = "Connecting" -> <<Cancel("JoinReply"), Cancel("Dtls"), Cancel("IceConnectivity")>>
      [] OTHER -> <<Cancel("JoinReply")>>

\* Mutated form of FailLeave: the server is not told.
FailSilently == <<>>

FailLeave == IF activeCid # None THEN <<SendFrame("LEAVE", activeCid)>> ELSE <<>>

\* fail(): the session collapses to Leaving.  The timers cancelled depend on
\* the state left; muted, participants and midToUser are not touched.
Fail ==
    /\ out' = FailCancels \o FailLeave \o <<TearDown>>
    /\ state' = "Leaving"
    /\ activeCid' = None
    /\ queuedOffer' = None
    /\ ResetVideo
    /\ UNCHANGED <<midToUser, participants, muted, genVars>>

-----------------------------------------------------------------------------
(* Offers, answers and ICE.                                                 *)

\* The 610 that brings the server's receive set to w, if one is due in the
\* state the step ends in.
FlushDue(w) == w # subscribed \/ subscribedStale

\* Mutated form of FlushOnJoin: a set declared before the offer stays behind.
ForgetFlush == UNCHANGED <<subscribed, subscribedStale>>

FlushOnJoin == subscribed' = wanted /\ subscribedStale' = FALSE

OfferOnJoin(o) ==
    /\ state = "JoinSent"
    /\ activeCid = o.cid
    /\ midToUser' = o.sdp.mids
    /\ state' = "OfferPending"
    /\ out' = <<Cancel("JoinReply")>> \o Negotiate(o)
              \o (IF FlushDue(wanted) THEN <<SendStreams(activeCid, wanted)>> ELSE <<>>)
    /\ FlushOnJoin
    /\ UNCHANGED <<activeCid, publications, wanted, localVideo, localListed, genVars,
                   participants, muted, queuedOffer>>

OfferRenegotiate(o) ==
    /\ state \in {"Connecting", "Connected"}
    /\ activeCid = o.cid
    /\ midToUser' = o.sdp.mids
    /\ state' = "OfferPending"
    /\ out' = Negotiate(o)
    /\ UNCHANGED <<activeCid, videoVars, genVars, participants, muted, queuedOffer>>

\* One negotiation at a time: a newer offer waits, and replaces one waiting.
OfferQueue(o) ==
    /\ state = "OfferPending"
    /\ activeCid = o.cid
    /\ queuedOffer' = o
    /\ out' = <<>>
    /\ UNCHANGED <<state, activeCid, midToUser, videoVars, genVars, participants, muted>>

SdpOfferReceived(o) ==
    \/ OfferOnJoin(o)
    \/ OfferRenegotiate(o)
    \/ OfferQueue(o)
    \/ ~AcceptsOffer(o.cid) /\ Ignored

AnswerThenNext(a) ==
    /\ state = "OfferPending"
    /\ queuedOffer # None
    /\ queuedOffer.cid = activeCid
    /\ midToUser' = queuedOffer.sdp.mids
    /\ queuedOffer' = None
    /\ out' = <<SetLocal(a), SendAnswer(activeCid, a)>> \o Negotiate(queuedOffer)
    /\ UNCHANGED <<state, activeCid, videoVars, genVars, participants, muted>>

AnswerThenConnect(a) ==
    /\ state = "OfferPending"
    /\ queuedOffer # None => queuedOffer.cid # activeCid
    /\ queuedOffer' = None
    /\ state' = "Connecting"
    /\ out' = <<SetLocal(a), SendAnswer(activeCid, a), Arm("Dtls"), Arm("IceConnectivity")>>
    /\ UNCHANGED <<activeCid, midToUser, videoVars, genVars, participants, muted>>

WebrtcAnswerCreated(a) ==
    \/ AnswerThenNext(a)
    \/ AnswerThenConnect(a)
    \/ state # "OfferPending" /\ Ignored

IceCandidateReceived(c) ==
    \/ /\ InVoice /\ activeCid = c
       /\ out' = <<AddIce>>
       /\ UNCHANGED machineVars
    \/ ~(InVoice /\ activeCid = c) /\ Ignored

\* Mutated form of WebrtcLocalIceGathered: a late candidate is sent all the same.
WebrtcLocalIceAnytime ==
    /\ out' = <<SendFrame("ICE", activeCid)>>
    /\ UNCHANGED machineVars

WebrtcLocalIceGathered ==
    \/ /\ InVoice
       /\ out' = <<SendFrame("ICE", activeCid)>>
       /\ UNCHANGED machineVars
    \/ ~InVoice /\ Ignored

WebrtcPadAdded(m) ==
    \/ /\ InVoice
       /\ out' = <<StartReceive(m)>>
       /\ UNCHANGED machineVars
    \/ ~InVoice /\ Ignored

WebrtcPadRemoved(m) ==
    \/ /\ InVoice
       /\ out' = <<StopReceive({m})>>
       /\ UNCHANGED machineVars
    \/ ~InVoice /\ Ignored

-----------------------------------------------------------------------------
(* Room status, mute and video.                                             *)

ParticipantsUpdated(c, ps) ==
    \/ /\ InRoom /\ activeCid = c
       /\ participants' = ps
       /\ out' = <<>>
       /\ UNCHANGED <<state, activeCid, midToUser, videoVars, genVars, muted, queuedOffer>>
    \/ ~(InRoom /\ activeCid = c) /\ Ignored

MuteToggleRequested(b) ==
    \/ /\ InRoom /\ muted # b
       /\ muted' = b
       /\ out' = <<SetMute(b), SendMuted(activeCid, b)>>
       /\ UNCHANGED <<state, activeCid, midToUser, videoVars, genVars, participants, queuedOffer>>
    \/ ~(InRoom /\ muted # b) /\ Ignored

\* Own publications the 611 ends: once listed, and now left out.
Ended(pubs) == {k \in Kinds : /\ localVideo[k] # "off"
                              /\ localListed[k]
                              /\ [user |-> Self, kind |-> k] \notin pubs}

VideoStatusReceived(c, pubs, selfKnown) ==
    \/ /\ InRoom /\ activeCid = c
       /\ publications' = pubs
       /\ LET ended == IF selfKnown THEN Ended(pubs) ELSE {}
              listed == {k \in Kinds : /\ selfKnown
                                       /\ localVideo[k] # "off"
                                       /\ [user |-> Self, kind |-> k] \in pubs}
          IN  /\ localVideo' = [k \in Kinds |-> IF k \in ended THEN "off" ELSE localVideo[k]]
              /\ localListed' = [k \in Kinds |-> (localListed[k] \/ k \in listed) /\ k \notin ended]
              /\ out' = <<Publish(ended, FALSE)>>
       /\ UNCHANGED <<state, activeCid, midToUser, wanted, subscribed, subscribedStale, genVars,
                      participants, muted, queuedOffer>>
    \/ ~(InRoom /\ activeCid = c) /\ Ignored

VideoSubscriptionsWanted(ss) ==
    /\ wanted' = ss
    /\ \/ /\ InVoice /\ FlushDue(ss)
          /\ subscribed' = ss
          /\ subscribedStale' = FALSE
          /\ out' = <<SendStreams(activeCid, ss)>>
       \/ /\ ~(InVoice /\ FlushDue(ss))
          /\ out' = <<>>
          /\ UNCHANGED <<subscribed, subscribedStale>>
    /\ UNCHANGED <<state, activeCid, midToUser, publications, localVideo, localListed, genVars,
                   participants, muted, queuedOffer>>

VideoStartRequested(k) ==
    \/ /\ InVoice /\ localVideo[k] = "off"
       /\ localVideo' = [localVideo EXCEPT ![k] = "live"]
       /\ localListed' = [localListed EXCEPT ![k] = FALSE]
       /\ startGen' = [startGen EXCEPT ![k] = Wrap(@)]
       /\ pauseGen' = [pauseGen EXCEPT ![k] = Wrap(@)]
       /\ out' = <<Publish({k}, TRUE), SendKind("START", activeCid, k, Wrap(startGen[k]))>>
       /\ UNCHANGED <<state, activeCid, midToUser, publications, wanted, subscribed,
                      subscribedStale, participants, muted, queuedOffer>>
    \/ ~(InVoice /\ localVideo[k] = "off") /\ Ignored

\* A publication ends here: localListed is left as it is.
EndLocal(k) ==
    /\ localVideo' = [localVideo EXCEPT ![k] = "off"]
    /\ UNCHANGED <<state, activeCid, midToUser, publications, wanted, subscribed, subscribedStale,
                   localListed, genVars, participants, muted, queuedOffer>>

VideoStopRequested(k) ==
    \/ /\ InVoice /\ localVideo[k] # "off"
       /\ EndLocal(k)
       /\ out' = <<Publish({k}, FALSE), SendKind("STOP", activeCid, k, 0)>>
    \/ ~(InVoice /\ localVideo[k] # "off") /\ Ignored

VideoCaptureFailed(k) ==
    \/ /\ localVideo[k] # "off"
       /\ EndLocal(k)
       /\ out' = <<Publish({k}, FALSE)>>
                 \o (IF InVoice /\ activeCid # None
                     THEN <<SendKind("STOP", activeCid, k, 0)>> ELSE <<>>)
    \/ localVideo[k] = "off" /\ Ignored

PauseValue(p) == IF p THEN "paused" ELSE "live"

SetLocalPaused(k, p) ==
    /\ localVideo' = [localVideo EXCEPT ![k] = PauseValue(p)]
    /\ UNCHANGED <<state, activeCid, midToUser, publications, wanted, subscribed, subscribedStale,
                   localListed, startGen, participants, muted, queuedOffer>>

VideoPauseRequested(k, p) ==
    \/ /\ InVoice /\ localVideo[k] = PauseValue(~p)
       /\ SetLocalPaused(k, p)
       /\ pauseGen' = [pauseGen EXCEPT ![k] = Wrap(@)]
       /\ out' = <<PauseVideo(k, p), SendPaused(activeCid, k, p, Wrap(pauseGen[k]))>>
    \/ ~(InVoice /\ localVideo[k] = PauseValue(~p)) /\ Ignored

\* Refusals: only the request they answer is undone.
VideoStartFailed(c, k, g) ==
    \/ /\ activeCid = c /\ g = startGen[k] /\ localVideo[k] # "off"
       /\ EndLocal(k)
       /\ out' = <<Publish({k}, FALSE)>>
    \/ ~(activeCid = c /\ g = startGen[k] /\ localVideo[k] # "off") /\ Ignored

VideoPauseFailed(c, k, g) ==
    \/ /\ activeCid = c /\ g = pauseGen[k] /\ localVideo[k] # "off"
       /\ SetLocalPaused(k, localVideo[k] = "live")
       /\ out' = <<PauseVideo(k, localVideo[k] = "live")>>
       /\ UNCHANGED pauseGen
    \/ ~(activeCid = c /\ g = pauseGen[k] /\ localVideo[k] # "off") /\ Ignored

-----------------------------------------------------------------------------
(* The peer connection, refusals and timeouts.                              *)

PeerConnected ==
    /\ state = "Connecting"
    /\ state' = "Connected"
    /\ out' = <<Cancel("Dtls"), Cancel("IceConnectivity"), Arm("Media")>>
    /\ UNCHANGED <<activeCid, midToUser, videoVars, genVars, participants, muted, queuedOffer>>

WebrtcConnectionStateChanged(st) ==
    \/ st = "Connected" /\ PeerConnected
    \/ st = "Failed" /\ InVoice /\ Fail
    \/ /\ ~(st = "Connected" /\ state = "Connecting")
       /\ ~(st = "Failed" /\ InVoice)
       /\ Ignored

\* A refusal names the opcode, never the room.
ServerTaskError(op) ==
    \/ op \in {"JOIN", "ANSWER"} /\ Fail
    \/ /\ op = "SUBSCRIBE"
       /\ subscribedStale' = TRUE
       /\ out' = <<>>
       /\ UNCHANGED <<state, activeCid, midToUser, publications, wanted, subscribed, localVideo,
                      localListed, genVars, participants, muted, queuedOffer>>
    \/ op \notin {"JOIN", "ANSWER", "SUBSCRIBE"} /\ Ignored

\* Dtls, IceConnectivity and Media only warn the user.
Timeout(t) ==
    \/ t = "JoinReply" /\ state = "JoinSent" /\ Fail
    \/ t = "WedgeDeadline" /\ state = "Connecting" /\ Fail
    \/ /\ ~(t = "JoinReply" /\ state = "JoinSent")
       /\ ~(t = "WedgeDeadline" /\ state = "Connecting")
       /\ Ignored

-----------------------------------------------------------------------------
\* What the UI asks for.
UserNext ==
    \/ \E c \in Rooms : JoinRequested(c) \/ LeaveRequested(c)
    \/ \E b \in BOOLEAN : MuteToggleRequested(b)
    \/ \E ss \in SUBSET Streams : VideoSubscriptionsWanted(ss)
    \/ \E k \in Kinds : VideoStartRequested(k) \/ VideoStopRequested(k)
    \/ \E k \in Kinds, p \in BOOLEAN : VideoPauseRequested(k, p)

\* What the server sends.
ServerNext ==
    \/ \E o \in Offers : SdpOfferReceived(o)
    \/ \E c \in Rooms : IceCandidateReceived(c)
    \/ \E c \in Rooms, ps \in SUBSET Users : ParticipantsUpdated(c, ps)
    \/ \E c \in Rooms, pubs \in SUBSET Streams, b \in BOOLEAN : VideoStatusReceived(c, pubs, b)
    \/ \E c \in Rooms, k \in Kinds, g \in Gens : VideoStartFailed(c, k, g) \/ VideoPauseFailed(c, k, g)
    \/ \E op \in {"JOIN", "ANSWER", "SUBSCRIBE", "MUTE"} : ServerTaskError(op)

\* What webrtcbin, the capture and the timers report.
MediaNext ==
    \/ \E a \in Offers : WebrtcAnswerCreated(a)
    \/ WebrtcLocalIceGathered
    \/ \E m \in Mids : WebrtcPadAdded(m) \/ WebrtcPadRemoved(m)
    \/ \E k \in Kinds : VideoCaptureFailed(k)
    \/ \E st \in PeerStates : WebrtcConnectionStateChanged(st)
    \/ \E t \in Timers \cup {"WedgeDeadline"} : Timeout(t)

SessionNext == UserNext \/ ServerNext \/ MediaNext

SessionSpec == SessionInit /\ [][SessionNext]_sessionVars
-----------------------------------------------------------------------------
(* Properties.                                                              *)

Frames ==
    [do : {"Send"}, op : {"JOIN", "LEAVE", "ICE"}, cid : Rooms]
    \cup [do : {"Send"}, op : {"ANSWER"}, cid : Rooms, answer : Offers]
    \cup [do : {"Send"}, op : {"START", "STOP"}, cid : Rooms, kind : Kinds, gen : Gens]
    \cup [do : {"Send"}, op : {"STATE"}, cid : Rooms, kind : Kinds, paused : BOOLEAN, gen : Gens]
    \cup [do : {"Send"}, op : {"SUBSCRIBE"}, cid : Rooms, streams : SUBSET Streams]
    \cup [do : {"Send"}, op : {"MUTE"}, cid : Rooms, muted : BOOLEAN]

Effects ==
    Frames
    \cup [do : {"CancelTimer", "ArmTimer"}, timer : Timers]
    \cup {TearDown, CreateAnswer, AddIce}
    \cup [do : {"SetRemoteDescription"}, offer : Offers]
    \cup [do : {"SetLocalDescription"}, answer : Offers]
    \cup [do : {"StartReceivePipeline"}, mid : Mids]
    \cup [do : {"StopReceivePipeline"}, mids : SUBSET Mids]
    \cup [do : {"SetSendPipelineMute"}, muted : BOOLEAN]
    \cup [do : {"SetVideoPublishing"}, kinds : SUBSET Kinds, on : BOOLEAN]
    \cup [do : {"SetVideoPaused"}, kind : Kinds, paused : BOOLEAN]

StateTypeOK ==
    /\ state \in States
    /\ activeCid \in Rooms \cup {None}
    /\ midToUser \subseteq Mids
    /\ publications \subseteq Streams
    /\ wanted \subseteq Streams
    /\ subscribed \subseteq Streams
    /\ subscribedStale \in BOOLEAN
    /\ localVideo \in [Kinds -> {"off", "live", "paused"}]
    /\ localListed \in [Kinds -> BOOLEAN]
    /\ startGen \in [Kinds -> Gens]
    /\ pauseGen \in [Kinds -> Gens]
    /\ participants \subseteq Users
    /\ muted \in BOOLEAN
    /\ queuedOffer \in Offers \cup {None}

\* The state is well typed, and every effect step returns is one of action.rs's,
\* with a room of its own in every frame: the unwrap_or(0) fallbacks, which
\* would address the public chat, are never taken.
SessionTypeOK == StateTypeOK /\ out \in Seq(Effects)

\* There is a room exactly while there is a session, and what belongs to a room
\* goes with it: after a leave or a failure no publication, subscription or
\* waiting offer is left for the next room to inherit.
RoomStateDiesWithRoom ==
    /\ InRoom <=> activeCid # None
    /\ ~InRoom => /\ queuedOffer = None
                  /\ publications = {} /\ subscribed = {}
    /\ ~InVoice => /\ \A k \in Kinds : localVideo[k] = "off"
                   /\ subscribed = {}

\* An offer waits only behind the answer to another offer of the same room, so
\* draining the queue never renegotiates against a room already left.
QueuedOfferIsForThisRoom ==
    queuedOffer # None => state = "OfferPending" /\ queuedOffer.cid = activeCid

\* In voice, the receive set the server was last told is the one the UI wants,
\* whatever joins, switches and renegotiations came between, unless the server
\* refused the last one.
SubscriptionsCurrent ==
    InVoice /\ ~subscribedStale => subscribed = wanted

SendsIn(o, op, c) == \E i \in DOMAIN o : o[i].do = "Send" /\ o[i].op = op /\ o[i].cid = c
EmitsIn(o, e) == \E i \in DOMAIN o : o[i] = e

LeavesRoomAloud ==
    activeCid # None /\ activeCid' # activeCid
        => /\ EmitsIn(out', TearDown)
           /\ activeCid' = None => SendsIn(out', "LEAVE", activeCid)
           /\ activeCid' # None => SendsIn(out', "JOIN", activeCid')

\* No room is abandoned silently: a step that gives up a room tears the pipeline
\* down and tells the server, by a leave or by the join of the next room.
EveryRoomIsLeft == [][LeavesRoomAloud]_sessionVars

\* Nothing of a room reaches another: its publications, receive set, captures
\* and waiting offer go with it, and an offer that waits is for the room joined,
\* whatever sequence of switches, failures and late offers came before.
RoomsAreIsolated == RoomStateDiesWithRoom /\ QueuedOfferIsForThisRoom
=============================================================================
