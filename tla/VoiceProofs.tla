------------------------------ MODULE VoiceProofs ------------------------------
(***************************************************************************)
(* Proofs about voice, for every set of rooms, users, kinds and offers and *)
(* every bound.                                                            *)
(*                                                                         *)
(* First the session machine and the microphone: the token names exactly   *)
(* the session in voice, so at most one is, and letting go of push-to-talk *)
(* mutes it.                                                               *)
(*                                                                         *)
(* Then the runtime that drives the machine.  A negotiation is in one      *)
(* place at a time: with webrtcbin, in the main context or waiting for     *)
(* caps (OneStage).  What is older keeps its number, which is why it is    *)
(* told apart; what is of the number of the last offer is of the room      *)
(* there is only while that offer is answered, for a teardown gives no new *)
(* number.                                                                 *)
(*                                                                         *)
(* Last the receive legs, for any streams, sections and offers: a pad is   *)
(* routed once, a name is one pad's in its pipeline, and what an earlier   *)
(* pipeline told has run by the time this one is heard.                    *)
(***************************************************************************)
EXTENDS VoiceRuntime, ReceiveLegs, VoiceSession, VoiceArbiter, TLAPS

\* The invariant of the machine.  Its parts need one another: the frames are
\* well typed because a session has a room; the queue is drained into the right
\* room because a failed session has none; the receive set is current after an
\* offer because it was empty before it.
SessionInv ==
    /\ StateTypeOK
    /\ RoomStateDiesWithRoom
    /\ QueuedOfferIsForThisRoom
    /\ SubscriptionsCurrent

-----------------------------------------------------------------------------
(* The effects.                                                             *)

\* Two sequences one after the other.
LEMMA ConcatType ==
    ASSUME NEW S, NEW s \in Seq(S), NEW t \in Seq(S)
    PROVE  s \o t \in Seq(S)
  OBVIOUS

\* The short sequences of effects the machine emits.
LEMMA ShortTypes ==
    /\ <<>> \in Seq(Effects)
    /\ \A x \in Effects : <<x>> \in Seq(Effects)
    /\ \A x, y \in Effects : <<x, y>> \in Seq(Effects)
  OBVIOUS

\* The effects that carry neither an offer nor video.
LEMMA EffectTypes ==
    /\ \A t \in Timers : Cancel(t) \in Effects /\ Arm(t) \in Effects
    /\ TearDown \in Effects /\ CreateAnswer \in Effects /\ AddIce \in Effects
    /\ \A c \in Rooms : /\ SendFrame("JOIN", c) \in Effects
                        /\ SendFrame("LEAVE", c) \in Effects
                        /\ SendFrame("ICE", c) \in Effects
  BY DEF Effects, Frames, Cancel, Arm, TearDown, CreateAnswer, AddIce, SendFrame

\* What an offer is about.
LEMMA SdpFacts == \A o \in Offers : o.cid \in Rooms /\ o.sdp.mids \subseteq Mids /\ o.sdp.inactive \subseteq Mids
  BY SdpsAssumption DEF Offers

\* The effects of an offer.
LEMMA OfferEffectTypes ==
    \A o \in Offers : /\ StopReceive(o.sdp.inactive) \in Effects
                      /\ SetRemote(o) \in Effects
                      /\ SetLocal(o) \in Effects
                      /\ \A c \in Rooms : SendAnswer(c, o) \in Effects
  BY SdpFacts DEF Effects, Frames, StopReceive, SetRemote, SetLocal, SendAnswer

\* The effects of video.
LEMMA VideoEffectTypes ==
    /\ \A ks \in SUBSET Kinds, b \in BOOLEAN : Publish(ks, b) \in Effects
    /\ \A k \in Kinds, b \in BOOLEAN : PauseVideo(k, b) \in Effects
    /\ \A c \in Rooms, k \in Kinds, g \in Gens : /\ SendKind("START", c, k, g) \in Effects
                                                 /\ SendKind("STOP", c, k, g) \in Effects
    /\ \A c \in Rooms, k \in Kinds, p \in BOOLEAN, g \in Gens : SendPaused(c, k, p, g) \in Effects
    /\ \A c \in Rooms, ss \in SUBSET Streams : SendStreams(c, ss) \in Effects
    /\ \A c \in Rooms, b \in BOOLEAN : SendMuted(c, b) \in Effects
    /\ \A b \in BOOLEAN : SetMute(b) \in Effects
    /\ \A ms \in SUBSET Mids : StopReceive(ms) \in Effects
    /\ \A m \in Mids : StartReceive(m) \in Effects
  BY DEF Effects, Frames, Publish, PauseVideo, SendKind, SendPaused, SendStreams, SendMuted,
         SetMute, StopReceive, StartReceive

\* The next generation is one.
LEMMA WrapType == \A g \in Gens : Wrap(g) \in Gens
  BY GenModAssumption DEF Gens, Wrap

\* The first generation is one.
LEMMA ZeroGen == 0 \in Gens
  BY GenModAssumption DEF Gens

-----------------------------------------------------------------------------
(* The invariant is inductive: one lemma per group of actions.              *)

\* At the start there is no session.
LEMMA InitInv == SessionInit => SessionInv /\ out \in Seq(Effects)
  <1> SUFFICES ASSUME SessionInit PROVE SessionInv /\ out \in Seq(Effects)
    OBVIOUS
  <1>1. StateTypeOK
    BY ZeroGen DEF SessionInit, StateTypeOK, States
  <1>2. RoomStateDiesWithRoom /\ QueuedOfferIsForThisRoom /\ SubscriptionsCurrent
    BY DEF SessionInit, RoomStateDiesWithRoom, QueuedOfferIsForThisRoom, SubscriptionsCurrent, InRoom, InVoice
  <1>3. out \in Seq(Effects)
    BY DEF SessionInit
  <1> QED BY <1>1, <1>2, <1>3 DEF SessionInv

\* An input that is not for now changes nothing.
LEMMA IgnoredInv == SessionInv /\ Ignored => SessionInv' /\ out' \in Seq(Effects)
  BY DEF SessionInv, Ignored, machineVars, videoVars, genVars, StateTypeOK, RoomStateDiesWithRoom,
     QueuedOfferIsForThisRoom, SubscriptionsCurrent, InRoom, InVoice

\* A join, and a switch of rooms.
LEMMA JoinInv ==
    ASSUME SessionInv, NEW c \in Rooms, JoinRequested(c)
    PROVE  SessionInv' /\ out' \in Seq(Effects)
  <1> USE RoomsAssumption
  <1>1. CASE JoinFromIdle(c)
    <2>1. SessionInv'
      BY <1>1 DEF JoinFromIdle, EnterRoom, ResetVideo, SessionInv, StateTypeOK, genVars,
         RoomStateDiesWithRoom, QueuedOfferIsForThisRoom, SubscriptionsCurrent, InRoom, InVoice, States
    <2>2. out' \in Seq(Effects)
      BY <1>1, EffectTypes DEF JoinFromIdle, Timers
    <2> QED BY <2>1, <2>2
  <1>2. CASE JoinSwitch(c)
    <2>1. SessionInv'
      BY <1>2 DEF JoinSwitch, EnterRoom, ResetVideo, SessionInv, StateTypeOK, genVars,
         RoomStateDiesWithRoom, QueuedOfferIsForThisRoom, SubscriptionsCurrent, InRoom, InVoice, States
    <2>2. CancelAll \in Seq(Effects)
      BY EffectTypes DEF CancelAll, Timers
    <2>3. <<TearDown, SendFrame("JOIN", c), Arm("JoinReply")>> \in Seq(Effects)
      BY EffectTypes DEF Timers
    <2>4. out' \in Seq(Effects)
      BY <1>2, <2>2, <2>3, ConcatType DEF JoinSwitch
    <2> QED BY <2>1, <2>4
  <1>3. CASE InRoom /\ activeCid = c /\ Ignored
    BY <1>3, IgnoredInv
  <1> QED BY <1>1, <1>2, <1>3 DEF JoinRequested

\* Leaving drops all of the room.
LEMMA LeaveInv ==
    ASSUME SessionInv, NEW c \in Rooms, LeaveRequested(c)
    PROVE  SessionInv' /\ out' \in Seq(Effects)
  <1>1. CASE Leave(c)
    <2>1. SessionInv'
      BY <1>1 DEF Leave, ResetVideo, SessionInv, StateTypeOK, genVars,
         RoomStateDiesWithRoom, QueuedOfferIsForThisRoom, SubscriptionsCurrent, InRoom, InVoice, States
    <2>2. CancelAll \in Seq(Effects) /\ <<SendFrame("LEAVE", c), TearDown>> \in Seq(Effects)
      BY EffectTypes DEF CancelAll, Timers
    <2>3. out' \in Seq(Effects)
      BY <1>1, <2>2, ConcatType DEF Leave
    <2> QED BY <2>1, <2>3
  <1>2. CASE ~(InRoom /\ activeCid = c) /\ Ignored
    BY <1>2, IgnoredInv
  <1> QED BY <1>1, <1>2 DEF LeaveRequested

\* Failing drops all of the room.
LEMMA FailInv ==
    ASSUME SessionInv, Fail
    PROVE  SessionInv' /\ out' \in Seq(Effects)
  <1>1. SessionInv'
    BY DEF Fail, ResetVideo, SessionInv, StateTypeOK, genVars,
       RoomStateDiesWithRoom, QueuedOfferIsForThisRoom, SubscriptionsCurrent, InRoom, InVoice, States
  <1>2. FailCancels \in Seq(Effects)
    BY EffectTypes DEF FailCancels, CancelAll, Timers
  <1>3. FailLeave \in Seq(Effects)
    BY EffectTypes DEF FailLeave, SessionInv, StateTypeOK
  <1>4. <<TearDown>> \in Seq(Effects)
    BY EffectTypes
  <1>5. FailCancels \o FailLeave \in Seq(Effects)
    BY <1>2, <1>3, ConcatType
  <1>6. out' \in Seq(Effects)
    BY <1>4, <1>5, ConcatType DEF Fail
  <1> QED BY <1>1, <1>6

\* What an offer starts.
LEMMA NegotiateType == \A o \in Offers : Negotiate(o) \in Seq(Effects)
  BY EffectTypes, OfferEffectTypes DEF Negotiate

\* An offer: the first, a later one, or one that has to wait.
LEMMA OfferInv ==
    ASSUME SessionInv, NEW o \in Offers, SdpOfferReceived(o)
    PROVE  SessionInv' /\ out' \in Seq(Effects)
  <1> USE RoomsAssumption DEF SessionInv, StateTypeOK
  <1>1. CASE OfferOnJoin(o)
    <2>1. SessionInv'
      BY <1>1, SdpFacts DEF OfferOnJoin, FlushOnJoin, genVars,
         RoomStateDiesWithRoom, QueuedOfferIsForThisRoom, SubscriptionsCurrent, InRoom, InVoice, States
    <2>2. <<Cancel("JoinReply")>> \in Seq(Effects)
      BY EffectTypes DEF Timers
    <2>3. (IF FlushDue(wanted) THEN <<SendStreams(activeCid, wanted)>> ELSE <<>>) \in Seq(Effects)
      <3>1. activeCid \in Rooms
        BY <1>1, SdpFacts DEF OfferOnJoin
      <3> QED BY <3>1, VideoEffectTypes
    <2>4. <<Cancel("JoinReply")>> \o Negotiate(o) \in Seq(Effects)
      BY <2>2, NegotiateType, ConcatType
    <2>5. out' \in Seq(Effects)
      BY <1>1, <2>3, <2>4, ConcatType DEF OfferOnJoin
    <2> QED BY <2>1, <2>5
  <1>2. CASE OfferRenegotiate(o)
    <2>1. SessionInv'
      BY <1>2, SdpFacts DEF OfferRenegotiate, videoVars, genVars,
         RoomStateDiesWithRoom, QueuedOfferIsForThisRoom, SubscriptionsCurrent, InRoom, InVoice, States
    <2> QED BY <1>2, <2>1, NegotiateType DEF OfferRenegotiate
  <1>3. CASE OfferQueue(o)
    BY <1>3, SdpFacts DEF OfferQueue, videoVars, genVars,
       RoomStateDiesWithRoom, QueuedOfferIsForThisRoom, SubscriptionsCurrent, InRoom, InVoice
  <1>4. CASE ~AcceptsOffer(o.cid) /\ Ignored
    BY <1>4, IgnoredInv
  <1> QED BY <1>1, <1>2, <1>3, <1>4 DEF SdpOfferReceived

\* An answer is made, and the offer that waited is taken up.
LEMMA AnswerInv ==
    ASSUME SessionInv, NEW a \in Offers, WebrtcAnswerCreated(a)
    PROVE  SessionInv' /\ out' \in Seq(Effects)
  <1> USE RoomsAssumption DEF SessionInv, StateTypeOK
  <1>0. state = "OfferPending" => activeCid \in Rooms
    BY DEF RoomStateDiesWithRoom, InRoom
  <1>1. CASE AnswerThenNext(a)
    <2>0. queuedOffer \in Offers
      BY <1>1 DEF AnswerThenNext
    <2>1. SessionInv'
      BY <1>1, <2>0, SdpFacts DEF AnswerThenNext, videoVars, genVars,
         RoomStateDiesWithRoom, QueuedOfferIsForThisRoom, SubscriptionsCurrent, InRoom, InVoice
    <2>2. <<SetLocal(a), SendAnswer(activeCid, a)>> \in Seq(Effects)
      BY <1>0, <1>1, OfferEffectTypes DEF AnswerThenNext
    <2>3. out' \in Seq(Effects)
      BY <1>1, <2>0, <2>2, NegotiateType, ConcatType DEF AnswerThenNext
    <2> QED BY <2>1, <2>3
  <1>2. CASE AnswerThenConnect(a)
    <2>1. SessionInv'
      BY <1>2 DEF AnswerThenConnect, videoVars, genVars,
         RoomStateDiesWithRoom, QueuedOfferIsForThisRoom, SubscriptionsCurrent, InRoom, InVoice, States
    <2>2. out' \in Seq(Effects)
      BY <1>0, <1>2, OfferEffectTypes, EffectTypes DEF AnswerThenConnect, Timers
    <2> QED BY <2>1, <2>2
  <1>3. CASE state # "OfferPending" /\ Ignored
    BY <1>3, IgnoredInv
  <1> QED BY <1>1, <1>2, <1>3 DEF WebrtcAnswerCreated

\* Steps that only report something to the pipeline or the server.
LEMMA UnchangedInv == SessionInv /\ UNCHANGED machineVars => SessionInv'
  BY DEF SessionInv, machineVars, videoVars, genVars, StateTypeOK, RoomStateDiesWithRoom,
     QueuedOfferIsForThisRoom, SubscriptionsCurrent, InRoom, InVoice

\* A session in a room has the room.
LEMMA RoomOfSession == SessionInv /\ InRoom => activeCid \in Rooms
  BY DEF SessionInv, StateTypeOK, RoomStateDiesWithRoom

\* A session in voice is in a room.
LEMMA VoiceInRoom == InVoice => InRoom
  BY DEF InVoice, InRoom

\* Candidates.
LEMMA IceInv ==
    ASSUME SessionInv, WebrtcLocalIceGathered \/ \E c \in Rooms : IceCandidateReceived(c)
    PROVE  SessionInv' /\ out' \in Seq(Effects)
  <1>1. UNCHANGED machineVars
    BY DEF IceCandidateReceived, WebrtcLocalIceGathered, Ignored
  <1>2. SessionInv'
    BY <1>1, UnchangedInv
  <1>3. \/ out' = <<>>
        \/ out' = <<AddIce>>
        \/ InVoice /\ out' = <<SendFrame("ICE", activeCid)>>
    BY DEF IceCandidateReceived, WebrtcLocalIceGathered, Ignored
  <1>a. InVoice => SendFrame("ICE", activeCid) \in Effects
    BY RoomOfSession, VoiceInRoom, EffectTypes
  <1>b. AddIce \in Effects
    BY EffectTypes
  <1>4. out' \in Seq(Effects)
    BY <1>3, <1>a, <1>b, ShortTypes
  <1> QED BY <1>2, <1>4

\* A receiver's stream appears or goes.
LEMMA PadInv ==
    ASSUME SessionInv, NEW m \in Mids, WebrtcPadAdded(m) \/ WebrtcPadRemoved(m)
    PROVE  SessionInv' /\ out' \in Seq(Effects)
  <1>1. UNCHANGED machineVars
    BY DEF WebrtcPadAdded, WebrtcPadRemoved, Ignored
  <1>2. SessionInv'
    BY <1>1, UnchangedInv
  <1>3. {m} \in SUBSET Mids
    OBVIOUS
  <1>4. StartReceive(m) \in Effects /\ StopReceive({m}) \in Effects
    BY <1>3, VideoEffectTypes
  <1>5. out' = <<>> \/ out' = <<StartReceive(m)>> \/ out' = <<StopReceive({m})>>
    BY DEF WebrtcPadAdded, WebrtcPadRemoved, Ignored
  <1>6. out' \in Seq(Effects)
    BY <1>4, <1>5, ShortTypes
  <1> QED BY <1>2, <1>6

\* The list of participants.
LEMMA ParticipantsInv ==
    ASSUME SessionInv, NEW c \in Rooms, NEW ps \in SUBSET Users, ParticipantsUpdated(c, ps)
    PROVE  SessionInv' /\ out' \in Seq(Effects)
  <1>1. CASE Ignored
    BY <1>1, IgnoredInv
  <1>2. CASE ~Ignored
    BY <1>2, ShortTypes DEF ParticipantsUpdated, SessionInv, StateTypeOK, videoVars, genVars,
       RoomStateDiesWithRoom, QueuedOfferIsForThisRoom, SubscriptionsCurrent, InRoom, InVoice
  <1> QED BY <1>1, <1>2

\* Muting.
LEMMA MuteInv ==
    ASSUME SessionInv, NEW b \in BOOLEAN, MuteToggleRequested(b)
    PROVE  SessionInv' /\ out' \in Seq(Effects)
  <1>1. CASE Ignored
    BY <1>1, IgnoredInv
  <1>2. CASE ~Ignored
    <2>1. SessionInv'
      BY <1>2 DEF MuteToggleRequested, SessionInv, StateTypeOK, videoVars, genVars,
         RoomStateDiesWithRoom, QueuedOfferIsForThisRoom, SubscriptionsCurrent, InRoom, InVoice
    <2>2. InRoom /\ out' = <<SetMute(b), SendMuted(activeCid, b)>>
      BY <1>2 DEF MuteToggleRequested
    <2>3. out' \in Seq(Effects)
      BY <2>2, RoomOfSession, VideoEffectTypes
    <2> QED BY <2>1, <2>3
  <1> QED BY <1>1, <1>2

\* Who sends video.
LEMMA VideoStatusInv ==
    ASSUME SessionInv, NEW c \in Rooms, NEW pubs \in SUBSET Streams, NEW b \in BOOLEAN,
           VideoStatusReceived(c, pubs, b)
    PROVE  SessionInv' /\ out' \in Seq(Effects)
  <1>1. CASE Ignored
    BY <1>1, IgnoredInv
  <1>2. CASE ~Ignored
    <2> DEFINE ended == IF b THEN Ended(pubs) ELSE {}
    <2>1. ended \in SUBSET Kinds
      BY DEF Ended
    <2>2. SessionInv'
      BY <1>2 DEF VideoStatusReceived, SessionInv, StateTypeOK, genVars,
         RoomStateDiesWithRoom, QueuedOfferIsForThisRoom, SubscriptionsCurrent, InRoom, InVoice
    <2>3. out' = <<Publish(ended, FALSE)>>
      BY <1>2 DEF VideoStatusReceived
    <2>4. Publish(ended, FALSE) \in Effects
      BY <2>1, VideoEffectTypes
    <2> QED BY <2>2, <2>3, <2>4, ShortTypes
  <1> QED BY <1>1, <1>2

\* Which videos are to be shown.
LEMMA WantedInv ==
    ASSUME SessionInv, NEW ss \in SUBSET Streams, VideoSubscriptionsWanted(ss)
    PROVE  SessionInv' /\ out' \in Seq(Effects)
  <1>1. SessionInv'
    BY DEF VideoSubscriptionsWanted, FlushDue, SessionInv, StateTypeOK, genVars,
       RoomStateDiesWithRoom, QueuedOfferIsForThisRoom, SubscriptionsCurrent, InRoom, InVoice
  <1>2. out' = <<>> \/ (InVoice /\ out' = <<SendStreams(activeCid, ss)>>)
    BY DEF VideoSubscriptionsWanted
  <1>3. out' \in Seq(Effects)
    BY <1>2, RoomOfSession, VoiceInRoom, VideoEffectTypes, ShortTypes
  <1> QED BY <1>1, <1>3

\* The own video ends.
LEMMA EndLocalInv ==
    ASSUME SessionInv, NEW k \in Kinds, EndLocal(k)
    PROVE  SessionInv'
  BY DEF EndLocal, SessionInv, StateTypeOK, genVars,
     RoomStateDiesWithRoom, QueuedOfferIsForThisRoom, SubscriptionsCurrent, InRoom, InVoice

\* The own video is paused or goes on.
LEMMA SetPausedInv ==
    ASSUME SessionInv, NEW k \in Kinds, NEW p \in BOOLEAN, SetLocalPaused(k, p),
           localVideo[k] # "off", pauseGen' \in [Kinds -> Gens]
    PROVE  SessionInv'
  BY DEF SetLocalPaused, PauseValue, SessionInv, StateTypeOK,
     RoomStateDiesWithRoom, QueuedOfferIsForThisRoom, SubscriptionsCurrent, InRoom, InVoice

\* The own video is asked for.
LEMMA VideoStartInv ==
    ASSUME SessionInv, NEW k \in Kinds, VideoStartRequested(k)
    PROVE  SessionInv' /\ out' \in Seq(Effects)
  <1>1. CASE Ignored
    BY <1>1, IgnoredInv
  <1>2. CASE ~Ignored
    <2>1. Wrap(startGen[k]) \in Gens /\ Wrap(pauseGen[k]) \in Gens
      BY WrapType DEF SessionInv, StateTypeOK
    <2>a. StateTypeOK'
      BY <1>2, <2>1, ZenonT(40) DEF VideoStartRequested, SessionInv, StateTypeOK
    <2>2. SessionInv'
      BY <1>2, <2>a DEF VideoStartRequested, SessionInv,
         RoomStateDiesWithRoom, QueuedOfferIsForThisRoom, SubscriptionsCurrent, InRoom, InVoice
    <2>3. InVoice /\ out' = <<Publish({k}, TRUE), SendKind("START", activeCid, k, Wrap(startGen[k]))>>
      BY <1>2 DEF VideoStartRequested
    <2>4. Publish({k}, TRUE) \in Effects /\ SendKind("START", activeCid, k, Wrap(startGen[k])) \in Effects
      BY <2>1, <2>3, RoomOfSession, VoiceInRoom, VideoEffectTypes
    <2> QED BY <2>2, <2>3, <2>4, ShortTypes
  <1> QED BY <1>1, <1>2

\* The own video is stopped.
LEMMA VideoStopInv ==
    ASSUME SessionInv, NEW k \in Kinds, VideoStopRequested(k) \/ VideoCaptureFailed(k)
    PROVE  SessionInv' /\ out' \in Seq(Effects)
  <1>1. CASE Ignored
    BY <1>1, IgnoredInv
  <1>2. CASE ~Ignored
    <2>1. SessionInv'
      BY <1>2, EndLocalInv DEF VideoStopRequested, VideoCaptureFailed
    <2>2. Publish({k}, FALSE) \in Effects
      BY VideoEffectTypes
    <2>3. InVoice => SendKind("STOP", activeCid, k, 0) \in Effects
      BY RoomOfSession, VoiceInRoom, ZeroGen, VideoEffectTypes
    <2>4. CASE VideoStopRequested(k)
      <3>1. InVoice /\ out' = <<Publish({k}, FALSE), SendKind("STOP", activeCid, k, 0)>>
        BY <1>2, <2>4 DEF VideoStopRequested
      <3> QED BY <2>1, <2>2, <2>3, <3>1, ShortTypes
    <2>5. CASE VideoCaptureFailed(k)
      <3> DEFINE stop == IF InVoice /\ activeCid # None
                         THEN <<SendKind("STOP", activeCid, k, 0)>> ELSE <<>>
      <3>1. out' = <<Publish({k}, FALSE)>> \o stop
        BY <1>2, <2>5 DEF VideoCaptureFailed
      <3>2. stop \in Seq(Effects)
        BY <2>3, ShortTypes
      <3>3. <<Publish({k}, FALSE)>> \in Seq(Effects)
        BY <2>2, ShortTypes
      <3> QED BY <2>1, <3>1, <3>2, <3>3, ConcatType
    <2> QED BY <2>4, <2>5
  <1> QED BY <1>1, <1>2

\* A pause is asked for.
LEMMA VideoPauseInv ==
    ASSUME SessionInv, NEW k \in Kinds, NEW p \in BOOLEAN, VideoPauseRequested(k, p)
    PROVE  SessionInv' /\ out' \in Seq(Effects)
  <1>1. CASE Ignored
    BY <1>1, IgnoredInv
  <1>2. CASE ~Ignored
    <2>1. Wrap(pauseGen[k]) \in Gens
      BY WrapType DEF SessionInv, StateTypeOK
    <2>2. pauseGen' \in [Kinds -> Gens] /\ SetLocalPaused(k, p) /\ localVideo[k] # "off"
      BY <1>2, <2>1 DEF VideoPauseRequested, PauseValue, SessionInv, StateTypeOK
    <2>3. InVoice /\ out' = <<PauseVideo(k, p), SendPaused(activeCid, k, p, Wrap(pauseGen[k]))>>
      BY <1>2 DEF VideoPauseRequested
    <2>4. PauseVideo(k, p) \in Effects /\ SendPaused(activeCid, k, p, Wrap(pauseGen[k])) \in Effects
      BY <2>1, <2>3, RoomOfSession, VoiceInRoom, VideoEffectTypes
    <2> QED BY <2>2, <2>3, <2>4, SetPausedInv, ShortTypes
  <1> QED BY <1>1, <1>2

\* The server refuses the own video, or its pause.
LEMMA RefusalInv ==
    ASSUME SessionInv, NEW c \in Rooms, NEW k \in Kinds, NEW g \in Gens,
           VideoStartFailed(c, k, g) \/ VideoPauseFailed(c, k, g)
    PROVE  SessionInv' /\ out' \in Seq(Effects)
  <1>1. CASE Ignored
    BY <1>1, IgnoredInv
  <1>2. CASE ~Ignored /\ VideoStartFailed(c, k, g)
    <2>1. SessionInv' /\ out' = <<Publish({k}, FALSE)>>
      BY <1>2, EndLocalInv DEF VideoStartFailed
    <2>2. Publish({k}, FALSE) \in Effects
      BY VideoEffectTypes
    <2> QED BY <2>1, <2>2, ShortTypes
  <1>3. CASE ~Ignored /\ VideoPauseFailed(c, k, g)
    <2> DEFINE p == localVideo[k] = "live"
    <2>1. SetLocalPaused(k, p) /\ localVideo[k] # "off" /\ pauseGen' = pauseGen
          /\ out' = <<PauseVideo(k, p)>>
      BY <1>3 DEF VideoPauseFailed
    <2>2. p \in BOOLEAN
      OBVIOUS
    <2>3. pauseGen' \in [Kinds -> Gens]
      BY <2>1 DEF SessionInv, StateTypeOK
    <2>4. PauseVideo(k, p) \in Effects
      BY <2>2, VideoEffectTypes
    <2> HIDE DEF p
    <2> QED BY <2>1, <2>2, <2>3, <2>4, SetPausedInv, ShortTypes
  <1> QED BY <1>1, <1>2, <1>3

\* The state of the media connection changes.
LEMMA PeerInv ==
    ASSUME SessionInv, NEW st \in PeerStates, WebrtcConnectionStateChanged(st)
    PROVE  SessionInv' /\ out' \in Seq(Effects)
  <1>1. CASE Ignored
    BY <1>1, IgnoredInv
  <1>2. CASE PeerConnected
    <2>1. SessionInv'
      BY <1>2 DEF PeerConnected, SessionInv, StateTypeOK, videoVars, genVars, States,
         RoomStateDiesWithRoom, QueuedOfferIsForThisRoom, SubscriptionsCurrent, InRoom, InVoice
    <2>2. out' \in Seq(Effects)
      BY <1>2, EffectTypes DEF PeerConnected, Timers
    <2> QED BY <2>1, <2>2
  <1>3. CASE Fail
    BY <1>3, FailInv
  <1> QED BY <1>1, <1>2, <1>3 DEF WebrtcConnectionStateChanged

\* The server refuses a request.
LEMMA TaskErrorInv ==
    ASSUME SessionInv, NEW op, ServerTaskError(op)
    PROVE  SessionInv' /\ out' \in Seq(Effects)
  <1>1. CASE Ignored
    BY <1>1, IgnoredInv
  <1>2. CASE Fail
    BY <1>2, FailInv
  <1>3. CASE ~Ignored /\ ~Fail
    BY <1>3, ShortTypes DEF ServerTaskError, SessionInv, StateTypeOK, genVars,
       RoomStateDiesWithRoom, QueuedOfferIsForThisRoom, SubscriptionsCurrent, InRoom, InVoice
  <1> QED BY <1>1, <1>2, <1>3

\* A timer runs out.
LEMMA TimeoutInv ==
    ASSUME SessionInv, NEW t, Timeout(t)
    PROVE  SessionInv' /\ out' \in Seq(Effects)
  BY IgnoredInv, FailInv DEF Timeout

\* Every step of the machine preserves the invariant and returns well-typed effects.
LEMMA StepInv == SessionInv /\ SessionNext => SessionInv' /\ out' \in Seq(Effects)
  <1> SUFFICES ASSUME SessionInv, SessionNext PROVE SessionInv' /\ out' \in Seq(Effects)
    OBVIOUS
  <1>1. CASE UserNext
    BY <1>1, JoinInv, LeaveInv, MuteInv, WantedInv, VideoStartInv, VideoStopInv, VideoPauseInv DEF UserNext
  <1>2. CASE ServerNext
    BY <1>2, OfferInv, IceInv, ParticipantsInv, VideoStatusInv, RefusalInv, TaskErrorInv DEF ServerNext
  <1>3. CASE MediaNext
    BY <1>3, AnswerInv, IceInv, PadInv, VideoStopInv, PeerInv, TimeoutInv DEF MediaNext
  <1> QED BY <1>1, <1>2, <1>3 DEF SessionNext

\* Nothing changes.
LEMMA StutterInv == SessionInv /\ out \in Seq(Effects) /\ UNCHANGED sessionVars
                    => SessionInv' /\ out' \in Seq(Effects)
  BY UnchangedInv DEF sessionVars

\* The machine keeps its invariant in every reachable state: what belongs to a
\* room dies with it, the waiting offer is for the room joined, and the server
\* has the receive set the UI wants.
THEOREM SessionInvariant == SessionSpec => [](SessionInv /\ SessionTypeOK)
  <1>1. SessionInit => SessionInv /\ SessionTypeOK
    BY InitInv DEF SessionInv, SessionTypeOK
  <1>2. SessionInv /\ SessionTypeOK /\ [SessionNext]_sessionVars => SessionInv' /\ SessionTypeOK'
    BY StepInv, StutterInv DEF SessionInv, SessionTypeOK
  <1> QED BY <1>1, <1>2, PTL DEF SessionSpec

\* Every effect step returns is well typed: a frame always names a real room.
THEOREM SessionTypeCorrect == SessionSpec => []SessionTypeOK
  BY SessionInvariant, PTL

\* A room's state dies with the room.
THEOREM RoomStateDies == SessionSpec => []RoomStateDiesWithRoom
  <1>1. SessionInv => RoomStateDiesWithRoom
    BY DEF SessionInv
  <1> QED BY <1>1, SessionInvariant, PTL

\* A waiting offer is for the room joined.
THEOREM QueuedOfferRoom == SessionSpec => []QueuedOfferIsForThisRoom
  <1>1. SessionInv => QueuedOfferIsForThisRoom
    BY DEF SessionInv
  <1> QED BY <1>1, SessionInvariant, PTL

\* In voice the server has been told the receive set the UI wants.
THEOREM SubscriptionsAgree == SessionSpec => []SubscriptionsCurrent
  <1>1. SessionInv => SubscriptionsCurrent
    BY DEF SessionInv
  <1> QED BY <1>1, SessionInvariant, PTL

\* Nothing of a room reaches another.
THEOREM RoomsIsolated == SessionSpec => []RoomsAreIsolated
  <1>1. SessionInv => RoomsAreIsolated
    BY DEF SessionInv, RoomsAreIsolated
  <1> QED BY <1>1, SessionInvariant, PTL

-----------------------------------------------------------------------------
(* No room is abandoned silently.                                           *)

\* What is in two sequences one after the other.
LEMMA ConcatElements ==
    ASSUME NEW S, NEW s \in Seq(S), NEW t \in Seq(S)
    PROVE  /\ \A i \in DOMAIN s : i \in DOMAIN (s \o t) /\ (s \o t)[i] = s[i]
           /\ \A i \in DOMAIN t : Len(s) + i \in DOMAIN (s \o t) /\ (s \o t)[Len(s) + i] = t[i]
  OBVIOUS

\* What either half returns, the whole returns.
LEMMA EmitsConcat ==
    ASSUME NEW s \in Seq(Effects), NEW t \in Seq(Effects), NEW e, NEW op, NEW c
    PROVE  /\ EmitsIn(s, e) \/ EmitsIn(t, e) => EmitsIn(s \o t, e)
           /\ SendsIn(s, op, c) \/ SendsIn(t, op, c) => SendsIn(s \o t, op, c)
  <1>1. /\ \A i \in DOMAIN s : i \in DOMAIN (s \o t) /\ (s \o t)[i] = s[i]
        /\ \A i \in DOMAIN t : Len(s) + i \in DOMAIN (s \o t) /\ (s \o t)[Len(s) + i] = t[i]
    BY ConcatElements
  <1> QED BY <1>1, Zenon DEF EmitsIn, SendsIn

\* A switch of rooms tears the old one down and joins the new.
LEMMA SwitchLeaves ==
    ASSUME NEW c \in Rooms, JoinSwitch(c)
    PROVE  EmitsIn(out', TearDown) /\ SendsIn(out', "JOIN", c)
  <1> DEFINE t == <<TearDown, SendFrame("JOIN", c), Arm("JoinReply")>>
  <1>1. CancelAll \in Seq(Effects) /\ t \in Seq(Effects)
    BY EffectTypes DEF CancelAll, Timers
  <1>2. EmitsIn(t, TearDown)
    BY DEF EmitsIn
  <1>3. SendsIn(t, "JOIN", c)
    BY DEF SendsIn, SendFrame
  <1>4. out' = CancelAll \o t
    BY DEF JoinSwitch
  <1> QED BY <1>1, <1>2, <1>3, <1>4, EmitsConcat

\* Leaving tells the room and tears it down.
LEMMA LeaveLeaves ==
    ASSUME NEW c \in Rooms, Leave(c)
    PROVE  EmitsIn(out', TearDown) /\ SendsIn(out', "LEAVE", c)
  <1> DEFINE t == <<SendFrame("LEAVE", c), TearDown>>
  <1>1. CancelAll \in Seq(Effects) /\ t \in Seq(Effects)
    BY EffectTypes DEF CancelAll, Timers
  <1>2. EmitsIn(t, TearDown)
    BY DEF EmitsIn
  <1>3. SendsIn(t, "LEAVE", c)
    BY DEF SendsIn, SendFrame
  <1>4. out' = CancelAll \o t
    BY DEF Leave
  <1> QED BY <1>1, <1>2, <1>3, <1>4, EmitsConcat

\* Failing tells the room and tears it down.
LEMMA FailLeaves ==
    ASSUME SessionInv, Fail, activeCid # None
    PROVE  EmitsIn(out', TearDown) /\ SendsIn(out', "LEAVE", activeCid)
  <1>1. activeCid \in Rooms
    BY DEF SessionInv, StateTypeOK
  <1>2. FailCancels \in Seq(Effects)
    BY EffectTypes DEF FailCancels, CancelAll, Timers
  <1>3. FailLeave = <<SendFrame("LEAVE", activeCid)>> /\ FailLeave \in Seq(Effects)
    BY <1>1, EffectTypes DEF FailLeave
  <1>4. <<TearDown>> \in Seq(Effects) /\ EmitsIn(<<TearDown>>, TearDown)
    BY EffectTypes DEF EmitsIn
  <1>5. SendsIn(FailLeave, "LEAVE", activeCid)
    BY <1>3 DEF SendsIn, SendFrame
  <1>6. FailCancels \o FailLeave \in Seq(Effects) /\ SendsIn(FailCancels \o FailLeave, "LEAVE", activeCid)
    BY <1>2, <1>3, <1>5, ConcatType, EmitsConcat
  <1>7. out' = (FailCancels \o FailLeave) \o <<TearDown>>
    BY DEF Fail
  <1> QED BY <1>4, <1>6, <1>7, EmitsConcat

\* Only a join, a leave and a failure change the room.
LEMMA RoomChanges ==
    ASSUME SessionInv, SessionNext, activeCid # None, activeCid' # activeCid
    PROVE  \/ Fail
           \/ \E c \in Rooms : Leave(c) \/ JoinSwitch(c)
  <1> USE DEF Ignored, machineVars
  <1>1. ~Ignored /\ activeCid' # activeCid
    BY DEF Ignored
  <1>2. InRoom
    BY DEF SessionInv, RoomStateDiesWithRoom
  <1>3. CASE UserNext
    BY <1>1, <1>2, <1>3 DEF UserNext, JoinRequested, JoinFromIdle, LeaveRequested, MuteToggleRequested,
       VideoSubscriptionsWanted, VideoStartRequested, VideoStopRequested, EndLocal,
       VideoPauseRequested, SetLocalPaused, InRoom
  <1>4. CASE ServerNext
    BY <1>1, <1>4, ZenonT(40) DEF ServerNext, SdpOfferReceived, OfferOnJoin, OfferRenegotiate, OfferQueue,
       IceCandidateReceived, ParticipantsUpdated, VideoStatusReceived, VideoStartFailed, VideoPauseFailed,
       EndLocal, SetLocalPaused, ServerTaskError
  <1>5. CASE MediaNext
    BY <1>1, <1>5 DEF MediaNext, WebrtcAnswerCreated, AnswerThenNext, AnswerThenConnect,
       WebrtcLocalIceGathered, WebrtcPadAdded, WebrtcPadRemoved, VideoCaptureFailed, EndLocal,
       WebrtcConnectionStateChanged, PeerConnected, Timeout
  <1> QED BY <1>3, <1>4, <1>5 DEF SessionNext

\* A step that gives up a room tears the pipeline down and tells the server.
THEOREM RoomsLeftAloud == SessionSpec => EveryRoomIsLeft
  <1>1. SessionInv /\ [SessionNext]_sessionVars => [LeavesRoomAloud]_sessionVars
    <2> SUFFICES ASSUME SessionInv, SessionNext, activeCid # None, activeCid' # activeCid
                 PROVE  LeavesRoomAloud
      BY DEF LeavesRoomAloud
    <2> USE RoomsAssumption
    <2>1. CASE Fail
      BY <2>1, FailLeaves DEF LeavesRoomAloud, Fail
    <2>2. ASSUME NEW c \in Rooms, Leave(c) PROVE LeavesRoomAloud
      BY <2>2, LeaveLeaves DEF LeavesRoomAloud, Leave
    <2>3. ASSUME NEW c \in Rooms, JoinSwitch(c) PROVE LeavesRoomAloud
      BY <2>3, SwitchLeaves DEF LeavesRoomAloud, JoinSwitch, EnterRoom
    <2> QED BY <2>1, <2>2, <2>3, RoomChanges
  <1> QED BY <1>1, SessionInvariant, PTL DEF SessionSpec, EveryRoomIsLeft

-----------------------------------------------------------------------------
(* The microphone.  The inductive invariant adds to TokenIsTruth what it rests *)
(* on: a session in a room has its connection up and its runtime built, so     *)
(* that a switch of rooms, which gives up the token before it joins, cannot    *)
(* fail.                                                                       *)

InVoiceHasRuntime == \A c \in Conns : room[c] # Nobody => c \in up \cap rt

IInv == TypeOK /\ TokenIsTruth /\ InVoiceHasRuntime

\* The token is released by the connection that has it, and by no other.
LEMMA ReleasedIs ==
    ASSUME TypeOK, TokenIsTruth, NEW c \in Conns
    PROVE  /\ Released(c) \in Holders \cup {Nobody}
           /\ \A d \in Conns, r \in ChatIds :
                  Released(c) = Token(d, r) <=> (d # c /\ room[d] = r)
<1>0. \A d \in Conns, r \in ChatIds : Token(d, r) # Nobody
  BY NobodyAssumption DEF Token, Holders
<1>1. CASE holder = Nobody
  BY <1>1, NobodyAssumption DEF Released, TypeOK, TokenIsTruth, Token, Holders
<1>2. CASE holder # Nobody
  <2>1. holder \in Holders
    BY <1>2 DEF TypeOK
  <2>2. PICK e \in Conns, s \in ChatIds : holder = [conn |-> e, cid |-> s]
    BY <2>1 DEF Holders
  <2>3. CASE e = c
    <3>1. Released(c) = Nobody
      BY <2>2, <2>3, <1>2 DEF Released
    <3>2. \A d \in Conns, r \in ChatIds : d # c => holder # Token(d, r)
      BY <2>2, <2>3 DEF Token
    <3>3. \A d \in Conns, r \in ChatIds : d # c => room[d] # r
      BY <3>2 DEF TokenIsTruth
    <3> QED BY <1>0, <3>1, <3>3
  <2>4. CASE e # c
    BY <2>2, <2>4, <1>2, NobodyAssumption DEF Released, TokenIsTruth, Token, Holders
  <2> QED BY <2>3, <2>4
<1> QED BY <1>1, <1>2

\* A session that leaves, by itself or with its connection, takes the token
\* along if it has it.
LEMMA LeavingKeeps ==
    ASSUME IInv, NEW c \in Conns,
           room' = [room EXCEPT ![c] = Nobody], holder' = Released(c)
    PROVE  TokenIsTruth' /\ holder' \in Holders \cup {Nobody}
              /\ room' \in [Conns -> ChatIds \cup {Nobody}]
<1>1. /\ holder' \in Holders \cup {Nobody}
      /\ \A d \in Conns, r \in ChatIds : holder' = Token(d, r) <=> (d # c /\ room[d] = r)
  BY ReleasedIs DEF IInv
<1>2. room \in [Conns -> ChatIds \cup {Nobody}]
  BY DEF IInv, TypeOK
<1>3. \A d \in Conns, r \in ChatIds : room'[d] = r <=> (d # c /\ room[d] = r)
  BY <1>2, NobodyAssumption
<1> QED BY <1>1, <1>2, <1>3 DEF TokenIsTruth

\* Once the rooms that stand in the way are empty, join_now hands the token
\* to the session it brings into voice, or leaves things as they are.
LEMMA JoinKeeps ==
    ASSUME IInv, NEW c \in Conns, NEW r \in ChatIds, NEW rooms, NEW h,
           rooms \in [Conns -> ChatIds \cup {Nobody}],
           \A d \in Conns \ {c} : rooms[d] = Nobody,
           \/ rooms = room /\ h = holder
           \/ h = Nobody /\ (c \notin up \cap rt => rooms[c] = Nobody),
           rooms[c] = room[c],
           up' = up,
           JoinNow(c, r, rooms, h)
    PROVE  /\ rt' \subseteq up' /\ room' \in [Conns -> ChatIds \cup {Nobody}]
           /\ mutes' \in [Conns -> BOOLEAN] /\ holder' \in Holders \cup {Nobody}
           /\ TokenIsTruth' /\ InVoiceHasRuntime'
<1> USE NobodyAssumption DEF IInv, TypeOK, Token, Holders
<1>0. MutesAfter(rooms) \in [Conns -> BOOLEAN]
  BY Zenon DEF MutesAfter
<1>1. CASE /\ c \in up
           /\ rt' = rt \cup {c}
           /\ room' = [rooms EXCEPT ![c] = r]
           /\ mutes' = [MutesAfter(rooms) EXCEPT ![c] = TRUE]
           /\ holder' = Token(c, r)
  <2>1. \A d \in Conns : room'[d] = IF d = c THEN r ELSE Nobody
    BY <1>1
  <2>2. TokenIsTruth'
    BY <1>1, <2>1 DEF TokenIsTruth
  <2>3. InVoiceHasRuntime'
    BY <1>1, <2>1 DEF InVoiceHasRuntime
  <2> QED BY <1>0, <1>1, <2>2, <2>3
<1>2. CASE /\ c \notin up \cap rt
           /\ room' = rooms
           /\ mutes' = MutesAfter(rooms)
           /\ holder' = h
           /\ UNCHANGED rt
  <2>1. CASE rooms = room /\ h = holder
    BY <1>0, <1>2, <2>1 DEF TokenIsTruth, InVoiceHasRuntime
  <2>2. CASE h = Nobody /\ (c \notin up \cap rt => rooms[c] = Nobody)
    <3>1. \A d \in Conns : room'[d] = Nobody
      BY <1>2, <2>2
    <3> QED BY <1>0, <1>2, <2>2, <3>1 DEF TokenIsTruth, InVoiceHasRuntime
  <2> QED BY <2>1, <2>2
<1> QED BY <1>1, <1>2 DEF JoinNow

\* The token free for a room means no other connection is in voice.
LEMMA FreeMeansAlone ==
    ASSUME IInv, NEW c \in Conns, NEW r \in ChatIds, Free(c, r)
    PROVE  \A d \in Conns \ {c} : room[d] = Nobody
BY NobodyAssumption DEF IInv, TypeOK, TokenIsTruth, Free, Token, Holders

\* After leave_holder no other connection is in voice, and this one's own
\* room is untouched.
LEMMA LeaveMeansAlone ==
    ASSUME IInv, NEW c \in Conns
    PROVE  /\ RoomsAfterLeave(c) \in [Conns -> ChatIds \cup {Nobody}]
           /\ RoomsAfterLeave(c)[c] = room[c]
           /\ \A d \in Conns \ {c} : RoomsAfterLeave(c)[d] = Nobody
<1> USE NobodyAssumption DEF IInv, TypeOK, RoomsAfterLeave
<1>1. CASE holder = Nobody
  BY <1>1 DEF TokenIsTruth, Token, Holders
<1>2. CASE holder # Nobody
  <2>1. PICK e \in Conns, s \in ChatIds : holder = [conn |-> e, cid |-> s]
    BY <1>2 DEF Holders
  <2>2. room[e] = s /\ \A d \in Conns : d # e => room[d] = Nobody
    BY <2>1 DEF TokenIsTruth, Token
  <2> QED BY <1>2, <2>1, <2>2
<1> QED BY <1>1, <1>2

\* At the start nobody has the token.
LEMMA InitHolds == Init => IInv
<1> SUFFICES ASSUME Init PROVE IInv
  OBVIOUS
<1>1. TypeOK
  BY DEF Init, TypeOK
<1>2. \A c \in Conns, r \in ChatIds : Token(c, r) # Nobody
  BY NobodyAssumption DEF Token, Holders
<1>3. TokenIsTruth
  BY <1>2, NobodyAssumption DEF Init, TokenIsTruth
<1>4. InVoiceHasRuntime
  BY DEF Init, InVoiceHasRuntime
<1> QED BY <1>1, <1>3, <1>4 DEF IInv

\* Every step keeps the token true.
LEMMA StepHolds == IInv /\ [Next]_vars => IInv'
<1> SUFFICES ASSUME IInv, [Next]_vars PROVE IInv'
  OBVIOUS
<1>1. ASSUME NEW c \in Conns, NEW r \in ChatIds, JoinFree(c, r) PROVE IInv'
  <2>1. \A d \in Conns \ {c} : room[d] = Nobody
    BY <1>1, FreeMeansAlone DEF JoinFree
  <2>2. JoinNow(c, r, room, holder) /\ UNCHANGED <<up, asking, pressed>>
    BY <1>1 DEF JoinFree
  <2>3. room \in [Conns -> ChatIds \cup {Nobody}]
    BY DEF IInv, TypeOK
  <2>4. /\ rt' \subseteq up' /\ room' \in [Conns -> ChatIds \cup {Nobody}]
        /\ mutes' \in [Conns -> BOOLEAN] /\ holder' \in Holders \cup {Nobody}
        /\ TokenIsTruth' /\ InVoiceHasRuntime'
    BY <2>1, <2>2, <2>3, JoinKeeps
  <2> QED BY <2>2, <2>4 DEF IInv, TypeOK
<1>2. ASSUME NEW c \in Conns, NEW r \in ChatIds, JoinAsks(c, r) PROVE IInv'
  <2>1. UNCHANGED <<up, rt, room, mutes, holder, pressed>> /\ asking' \subseteq Panels
    BY <1>2 DEF JoinAsks, IInv, TypeOK, Panels
  <2> QED BY <2>1 DEF IInv, TypeOK, TokenIsTruth, InVoiceHasRuntime
<1>3. ASSUME NEW c \in Conns, NEW r \in ChatIds, AnswerSwitch(c, r) PROVE IInv'
  <2>1. UNCHANGED <<up, pressed>> /\ asking' \subseteq Panels
    BY <1>3 DEF AnswerSwitch, IInv, TypeOK
  <2>2. room \in [Conns -> ChatIds \cup {Nobody}]
    BY DEF IInv, TypeOK
  <2>3. /\ rt' \subseteq up' /\ room' \in [Conns -> ChatIds \cup {Nobody}]
        /\ mutes' \in [Conns -> BOOLEAN] /\ holder' \in Holders \cup {Nobody}
        /\ TokenIsTruth' /\ InVoiceHasRuntime'
    <3>1. CASE Free(c, r) /\ JoinNow(c, r, room, holder)
      BY <2>1, <2>2, <3>1, FreeMeansAlone, JoinKeeps
    <3>2. CASE ~Free(c, r) /\ JoinNow(c, r, RoomsAfterLeave(c), Nobody)
      <4> DEFINE rooms == RoomsAfterLeave(c)
      <4>1. /\ rooms \in [Conns -> ChatIds \cup {Nobody}]
            /\ rooms[c] = room[c]
            /\ \A d \in Conns \ {c} : rooms[d] = Nobody
        BY LeaveMeansAlone
      <4>2. c \notin up \cap rt => rooms[c] = Nobody
        BY <4>1 DEF IInv, InVoiceHasRuntime
      <4>3. JoinNow(c, r, rooms, Nobody)
        BY <3>2
      <4> HIDE DEF rooms
      <4> QED BY <2>1, <4>1, <4>2, <4>3, JoinKeeps
    <3> QED BY <1>3, <3>1, <3>2 DEF AnswerSwitch
  <2> QED BY <2>1, <2>3 DEF IInv, TypeOK
<1>4. ASSUME NEW c \in Conns, NEW r \in ChatIds, AnswerCancel(c, r) PROVE IInv'
  <2>1. UNCHANGED <<up, rt, room, mutes, holder, pressed>> /\ asking' \subseteq Panels
    BY <1>4 DEF AnswerCancel, IInv, TypeOK
  <2> QED BY <2>1 DEF IInv, TypeOK, TokenIsTruth, InVoiceHasRuntime
<1>5. ASSUME NEW c \in Conns,
             LeaveNow(c) \/ SessionFails(c) \/ Disconnect(c)
      PROVE  IInv'
  <2>1. /\ room' = [room EXCEPT ![c] = Nobody] /\ holder' = Released(c)
        /\ UNCHANGED <<asking, pressed>>
        /\ mutes' \in [Conns -> BOOLEAN]
    BY <1>5 DEF LeaveNow, SessionFails, Disconnect, IInv, TypeOK
  <2>2. \/ UNCHANGED <<up, rt>>
        \/ up' = up \ {c} /\ rt' = rt \ {c}
    BY <1>5 DEF LeaveNow, SessionFails, Disconnect
  <2>3. TokenIsTruth' /\ holder' \in Holders \cup {Nobody}
          /\ room' \in [Conns -> ChatIds \cup {Nobody}]
    BY <2>1, LeavingKeeps
  <2>4. InVoiceHasRuntime'
    BY <2>1, <2>2 DEF InVoiceHasRuntime, IInv, TypeOK
  <2> QED BY <2>1, <2>2, <2>3, <2>4 DEF IInv, TypeOK
<1>6. ASSUME NEW c \in Conns, Connect(c) PROVE IInv'
  BY <1>6 DEF Connect, IInv, TypeOK, TokenIsTruth, InVoiceHasRuntime
<1>7. CASE (\E c \in Conns : MuteClick(c)) \/ PushToTalk \/ Release
  <2>1. UNCHANGED <<up, rt, room, holder, asking>>
    BY <1>7 DEF MuteClick, PushToTalk, Release
  <2>2. mutes' \in [Conns -> BOOLEAN]
    <3>1. ASSUME NEW c \in Conns, MuteClick(c) PROVE mutes' \in [Conns -> BOOLEAN]
      <4>1. mutes' = [mutes EXCEPT ![c] = ~mutes[c]]
        BY <3>1 DEF MuteClick
      <4> QED BY <4>1, Zenon DEF IInv, TypeOK
    <3>2. CASE PushToTalk
      BY <3>2 DEF PushToTalk, IInv, TypeOK
    <3>3. CASE Release
      BY <3>3 DEF Release, IInv, TypeOK
    <3> QED BY <1>7, <3>1, <3>2, <3>3
  <2>3. pressed' \in BOOLEAN
    BY <1>7 DEF MuteClick, PushToTalk, Release, IInv, TypeOK
  <2> QED BY <2>1, <2>2, <2>3 DEF IInv, TypeOK, TokenIsTruth, InVoiceHasRuntime
<1>8. CASE UNCHANGED vars
  BY <1>8 DEF vars, IInv, TypeOK, TokenIsTruth, InVoiceHasRuntime
<1> QED BY <1>1, <1>2, <1>3, <1>4, <1>5, <1>6, <1>7, <1>8 DEF Next

\* Every reachable state satisfies the inductive invariant: types, the token
\* as the truth, and a runtime behind every session in voice.
THEOREM ArbiterInvariant == Spec => []IInv
BY InitHolds, StepHolds, PTL DEF Spec

\* The token names exactly the session that is in voice.
THEOREM TokenTruth == Spec => []TokenIsTruth
<1>1. IInv => TokenIsTruth
  BY DEF IInv
<1> QED BY <1>1, ArbiterInvariant, PTL

\* There is one microphone: no two connections are in voice at once.
THEOREM SingleMicrophone == Spec => []OneMicrophone
<1>1. IInv => OneMicrophone
  BY NobodyAssumption DEF IInv, TypeOK, TokenIsTruth, OneMicrophone, Token
<1> QED BY <1>1, ArbiterInvariant, PTL

\* Letting go of push-to-talk mutes whichever session is in voice by then.
THEOREM PushToTalkCloses == Spec => ReleaseMutes
<1>1. ASSUME IInv, [Next]_vars
      PROVE  [pressed /\ ~pressed' => \A c \in Conns : room'[c] # Nobody => mutes'[c]]_vars
  <2> SUFFICES ASSUME pressed, ~pressed', NEW c \in Conns, room'[c] # Nobody
               PROVE  mutes'[c]
    OBVIOUS
  <2>1. Release
    BY <1>1 DEF Next, vars, JoinFree, JoinAsks, AnswerSwitch, AnswerCancel, LeaveNow,
                SessionFails, Disconnect, Connect, MuteClick, PushToTalk
  <2>2. room[c] \in ChatIds /\ room' = room
    BY <1>1, <2>1 DEF Release, IInv, TypeOK
  <2>3. holder = Token(c, room[c])
    BY <1>1, <2>2 DEF IInv, TokenIsTruth
  <2>4. holder.conn = c /\ Speaking
    BY <1>1, <2>2, <2>3, NobodyAssumption DEF Token, Holders, Speaking, IInv, TypeOK
  <2>5. mutes' = [mutes EXCEPT ![c] = TRUE]
    BY <2>1, <2>4 DEF Release
  <2> QED BY <1>1, <2>5 DEF IInv, TypeOK
<1> QED BY <1>1, ArbiterInvariant, PTL DEF Spec, ReleaseMutes


-----------------------------------------------------------------------------
(* The runtime.                                                            *)

\* What webrtcbin, its promises and the closures posted to the main context hold.
Bins == [up : BOOLEAN, remote : Offers \cup {None}, local : BOOLEAN, peer : PeerStates]
Promised == [phase : {"remote", "answer"}, gen : Nat, offer : Offers \cup {None}]
Closures == [what : {"remote", "caps", "answer", "peer"}, gen : Nat,
             value : Offers \cup PeerStates \cup {None}]

\* What a promise and a closure carry, g being the last negotiation.
PromisesOK(P, g) ==
    \A p \in P : p \in Promised /\ p.gen \in 1 .. g /\ (p.phase = "remote" => p.offer \in Offers)
PostedOK(q, g) ==
    \A i \in 1 .. Len(q) :
        /\ q[i].what # "peer" => q[i].gen \in 1 .. g
        /\ q[i].what = "answer" => q[i].value \in Offers
        /\ q[i].what = "peer" => q[i].value \in PeerStates

\* Where negotiation g is in the main context.
Work(q, g) == {i \in 1 .. Len(q) : q[i].what # "peer" /\ q[i].gen = g}

\* Negotiation g is in one place.
OneStage(g, P, C, q) ==
    /\ \A i, j \in Work(q, g) : i = j
    /\ \A p, r \in P : p.gen = g /\ r.gen = g => p = r
    /\ Work(q, g) # {} => g \notin C /\ \A p \in P : p.gen # g
    /\ g \in C => \A p \in P : p.gen # g

\* Once its offer is applied it is the one in force, and the answer is to it.
InForce(g, P, C, q, remote, room_) ==
    /\ \/ Work(q, g) # {}
       \/ g \in C
       \/ \E p \in P : p.gen = g /\ p.phase = "answer"
       => remote \in Offers /\ remote.cid = room_
    /\ \A i \in Work(q, g) : q[i].what = "answer" => q[i].value = remote

NegotiationOK ==
    state = "OfferPending" =>
        /\ OneStage(answerGen, promises, capsWaits, posted)
        /\ InForce(answerGen, promises, capsWaits, posted, bin.remote, activeCid)

\* An offer on its way into webrtcbin is the one being answered.
RemotesOK(s, P, g, room_) ==
    \A p \in P : p.phase = "remote" => s = "OfferPending" /\ p.gen = g /\ p.offer.cid = room_

\* An offer that waits can still be begun.
QueueFits == queuedOffer # None => answerGen < MaxNegotiations

ClockTypes ==
    /\ timers \subseteq Timers
    /\ wedge \in BOOLEAN /\ rtp \in BOOLEAN /\ beenConnected \in BOOLEAN
    /\ lastPeer \in PeerStates \cup {None}
    /\ pending \in {<<>>, <<"Connected">>}
BinTypes ==
    /\ answerGen \in 0 .. MaxNegotiations
    /\ bin \in Bins
    /\ PromisesOK(promises, answerGen)
    /\ capsWaits \subseteq 1 .. answerGen
    /\ posted \in Seq(Closures) /\ PostedOK(posted, answerGen)

\* The report the runtime queues itself is of a session that is connecting.
WatchOK == UnconnectedIsWatched /\ (pending # <<>> => state = "Connecting")

RuntimeInv ==
    /\ SessionInv /\ out \in Seq(Effects)
    /\ ClockTypes /\ BinTypes
    /\ RemotesOK(state, promises, answerGen, activeCid) /\ NegotiationOK /\ QueueFits
    /\ TimersMatchSession /\ WatchOK

-----------------------------------------------------------------------------
(* Lists.                                                                      *)

\* What is left once the oldest is taken.
LEMMA TailIs ==
    ASSUME NEW S, NEW q \in Seq(S), q # <<>>
    PROVE  /\ Tail(q) \in Seq(S) /\ Len(Tail(q)) = Len(q) - 1 /\ Len(q) \in Nat \ {0}
           /\ \A i \in 1 .. Len(Tail(q)) : i + 1 \in 1 .. Len(q) /\ Tail(q)[i] = q[i + 1]
           /\ Head(q) = q[1] /\ Head(q) \in S
  OBVIOUS

\* What is there once one more is posted.
LEMMA AppendIs ==
    ASSUME NEW S, NEW q \in Seq(S), NEW m \in S
    PROVE  /\ Append(q, m) \in Seq(S) /\ Len(Append(q, m)) = Len(q) + 1 /\ Len(q) \in Nat
           /\ \A i \in 1 .. Len(q) : Append(q, m)[i] = q[i]
           /\ Append(q, m)[Len(q) + 1] = m
  OBVIOUS

\* The main context after the oldest closure ran.
LEMMA WorkOfTail ==
    ASSUME NEW q \in Seq(Closures), q # <<>>, NEW g
    PROVE  /\ \A i \in Work(Tail(q), g) : i \in Nat /\ i + 1 \in Work(q, g) /\ Tail(q)[i] = q[i + 1]
           /\ Head(q).what # "peer" /\ Head(q).gen = g => 1 \in Work(q, g) /\ Head(q) = q[1]
<1> DEFINE t == Tail(q)
<1>1. /\ t \in Seq(Closures) /\ Len(t) = Len(q) - 1 /\ Len(q) \in Nat \ {0}
      /\ \A i \in 1 .. Len(t) : i + 1 \in 1 .. Len(q) /\ t[i] = q[i + 1]
      /\ Head(q) = q[1]
  BY TailIs
<1> HIDE DEF t
<1>2. \A i \in Work(t, g) : i \in Nat /\ i + 1 \in Work(q, g) /\ t[i] = q[i + 1]
  BY <1>1 DEF Work
<1>3. Head(q).what # "peer" /\ Head(q).gen = g => 1 \in Work(q, g) /\ Head(q) = q[1]
  BY <1>1 DEF Work
<1> QED BY <1>2, <1>3 DEF t

\* The main context a, in which m was posted after q.
Longer(a, q, m, g) ==
    /\ Len(q) \in Nat
    /\ \A i \in Work(a, g) :
          \/ i \in Work(q, g) /\ a[i] = q[i]
          \/ i = Len(q) + 1 /\ a[i] = m /\ m.what # "peer" /\ m.gen = g

\* Posting a closure adds at most its own work.
LEMMA WorkOfAppend ==
    ASSUME NEW q \in Seq(Closures), NEW m \in Closures, NEW g
    PROVE  Longer(Append(q, m), q, m, g)
<1> DEFINE a == Append(q, m)
<1>1. /\ Len(a) = Len(q) + 1 /\ Len(q) \in Nat
      /\ \A i \in 1 .. Len(q) : a[i] = q[i]
      /\ a[Len(q) + 1] = m
  BY AppendIs
<1> HIDE DEF a
<1>2. \A i \in 1 .. Len(a) : i \in 1 .. Len(q) \/ i = Len(q) + 1
  BY <1>1
<1>3. Longer(a, q, m, g)
  BY <1>1, <1>2 DEF Work, Longer
<1> QED BY <1>3 DEF a

\* The closures are of negotiations begun, also of more of them.
LEMMA PostedLess ==
    ASSUME NEW g \in Nat, NEW h \in Nat, g <= h, NEW q \in Seq(Closures), PostedOK(q, g)
    PROVE  /\ PostedOK(q, h)
           /\ q # <<>> => Tail(q) \in Seq(Closures) /\ PostedOK(Tail(q), h)
<1>1. PostedOK(q, h)
  BY DEF PostedOK
<1>2. ASSUME q # <<>> PROVE Tail(q) \in Seq(Closures) /\ PostedOK(Tail(q), h)
  <2> DEFINE t == Tail(q)
  <2>1. /\ t \in Seq(Closures)
        /\ \A i \in 1 .. Len(t) : i + 1 \in 1 .. Len(q) /\ t[i] = q[i + 1]
    BY <1>2, TailIs
  <2> HIDE DEF t
  <2>2. PostedOK(t, h)
    BY <1>1, <2>1 DEF PostedOK
  <2> QED BY <2>1, <2>2 DEF t
<1> QED BY <1>1, <1>2

\* So are they with one more.
LEMMA PostedMore ==
    ASSUME NEW g \in Nat, NEW q \in Seq(Closures), PostedOK(q, g), NEW m \in Closures,
           m.what # "peer" => m.gen \in 1 .. g,
           m.what = "answer" => m.value \in Offers, m.what = "peer" => m.value \in PeerStates
    PROVE  Append(q, m) \in Seq(Closures) /\ PostedOK(Append(q, m), g)
<1> DEFINE a == Append(q, m)
<1>1. /\ a \in Seq(Closures) /\ Len(a) = Len(q) + 1 /\ Len(q) \in Nat
      /\ \A i \in 1 .. Len(q) : a[i] = q[i]
      /\ a[Len(q) + 1] = m
  BY AppendIs
<1> HIDE DEF a
<1>2. \A i \in 1 .. Len(a) : i \in 1 .. Len(q) \/ i = Len(q) + 1
  BY <1>1
<1>3. PostedOK(a, g)
  BY <1>1, <1>2 DEF PostedOK
<1> QED BY <1>1, <1>3 DEF a

-----------------------------------------------------------------------------
(* What the effects of a step come to.                                        *)

\* Two sequences one after the other emit what either does.
LEMMA EmitsEither ==
    ASSUME NEW s \in Seq(Effects), NEW t \in Seq(Effects), NEW e
    PROVE  EmitsIn(s \o t, e) <=> EmitsIn(s, e) \/ EmitsIn(t, e)
<1> DEFINE u == s \o t
<1>1. /\ Len(s) \in Nat /\ Len(t) \in Nat /\ DOMAIN s = 1 .. Len(s) /\ DOMAIN t = 1 .. Len(t)
      /\ DOMAIN u = 1 .. Len(s) + Len(t)
      /\ \A i \in 1 .. Len(s) : u[i] = s[i]
      /\ \A i \in 1 .. Len(s) + Len(t) : i > Len(s) => u[i] = t[i - Len(s)]
  OBVIOUS
<1> HIDE DEF u
<1>2. ASSUME EmitsIn(u, e) PROVE EmitsIn(s, e) \/ EmitsIn(t, e)
  <2>1. PICK i \in 1 .. Len(s) + Len(t) : u[i] = e
    BY <1>1, <1>2 DEF EmitsIn
  <2>2. CASE i <= Len(s)
    BY <1>1, <2>1, <2>2 DEF EmitsIn
  <2>3. CASE i > Len(s)
    <3>1. i - Len(s) \in 1 .. Len(t) /\ t[i - Len(s)] = e
      BY <1>1, <2>1, <2>3
    <3> QED BY <1>1, <3>1 DEF EmitsIn
  <2> QED BY <1>1, <2>2, <2>3
<1>3. EmitsIn(s, e) \/ EmitsIn(t, e) => EmitsIn(u, e)
  BY EmitsConcat DEF u
<1> QED BY <1>2, <1>3 DEF u

\* What is last in two sequences one after the other.
LEMMA LastOfTwo ==
    ASSUME NEW s \in Seq(Effects), NEW t \in Seq(Effects), t # <<>>
    PROVE  /\ s \o t \in Seq(Effects) /\ Len(s \o t) \in Nat \ {0}
           /\ (s \o t)[Len(s \o t)] = t[Len(t)]
  OBVIOUS

\* Effects that are none of those the runtime's own state depends on.
Aside(e) ==
    /\ e # TearDown
    /\ \A o \in Offers : e # SetRemote(o) /\ e # SetLocal(o)
    /\ \A k \in Timers : e # Arm(k)

\* The effects, told apart.
LEMMA EffectsDiffer ==
    /\ \A k \in Timers : Aside(Cancel(k)) /\ Arm(k) # TearDown /\ Cancel(k) # TearDown
    /\ \A k, l \in Timers : Arm(k) # Cancel(l) /\ (Arm(k) = Arm(l) => k = l)
    /\ \A k \in Timers, o \in Offers : Arm(k) # SetRemote(o) /\ Arm(k) # SetLocal(o)
    /\ \A o \in Offers : TearDown # SetRemote(o) /\ TearDown # SetLocal(o)
    /\ \A o, a \in Offers : /\ SetRemote(o) # SetLocal(a)
                            /\ SetRemote(o) = SetRemote(a) => o = a
                            /\ SetLocal(o) = SetLocal(a) => o = a
    /\ Aside(CreateAnswer)
    /\ \A op, c : Aside(SendFrame(op, c))
    /\ \A c, a : Aside(SendAnswer(c, a)) /\ Aside(SendStreams(c, a))
    /\ \A ms : Aside(StopReceive(ms))
<1>1. /\ \A k : Arm(k).do = "ArmTimer" /\ Arm(k).timer = k /\ Cancel(k).do = "CancelTimer"
      /\ \A o : SetRemote(o).do = "SetRemoteDescription" /\ SetRemote(o).offer = o
      /\ \A o : SetLocal(o).do = "SetLocalDescription" /\ SetLocal(o).answer = o
      /\ TearDown.do = "TearDown" /\ CreateAnswer.do = "CreateAnswer"
      /\ \A op, c : SendFrame(op, c).do = "Send"
      /\ \A c, a : SendAnswer(c, a).do = "Send" /\ SendStreams(c, a).do = "Send"
      /\ \A ms : StopReceive(ms).do = "StopReceivePipeline"
  BY DEF Arm, Cancel, SetRemote, SetLocal, TearDown, CreateAnswer, SendFrame, SendAnswer,
         SendStreams, StopReceive
<1> QED BY <1>1 DEF Aside

\* The timers: what is armed last is armed, what is torn down is not, and nothing is
\* armed by itself.
LEMMA TimersAre ==
    ASSUME NEW e \in Seq(Effects), NEW armed \in SUBSET Timers
    PROVE  /\ TimersAfter(armed, e) \subseteq Timers
           /\ e = <<>> => TimersAfter(armed, e) = armed
           /\ \A k \in Timers : k \in TimersAfter(armed, e) => k \in armed \/ EmitsIn(e, Arm(k))
           /\ e # <<>> /\ e[Len(e)] = TearDown => TimersAfter(armed, e) = {}
           /\ \A k \in Timers : e # <<>> /\ e[Len(e)] = Arm(k) => k \in TimersAfter(armed, e)
           /\ \A k \in Timers : /\ e # <<>> /\ e[1] = Cancel(k) /\ ~EmitsIn(e, Arm(k))
                                => k \notin TimersAfter(armed, e)
<1>0. Len(e) \in Nat /\ DOMAIN e = 1 .. Len(e) /\ (e # <<>> => Len(e) > 0)
  OBVIOUS
<1>1. TimersAfter(armed, e) \subseteq Timers
  BY DEF TimersAfter
<1>2. e = <<>> => TimersAfter(armed, e) = armed
  <2> SUFFICES ASSUME e = <<>> PROVE TimersAfter(armed, e) = armed
    OBVIOUS
  <2>1. Len(e) = 0
    OBVIOUS
  <2> QED BY <2>1 DEF TimersAfter
<1>3. \A k \in Timers : k \in TimersAfter(armed, e) => k \in armed \/ EmitsIn(e, Arm(k))
  BY <1>0 DEF TimersAfter, EmitsIn
<1>4. e # <<>> /\ e[Len(e)] = TearDown => TimersAfter(armed, e) = {}
  <2> SUFFICES ASSUME e # <<>>, e[Len(e)] = TearDown,
                      NEW k \in Timers, k \in TimersAfter(armed, e)
               PROVE  FALSE
    BY <1>1
  <2>1. PICK i \in 0 .. Len(e) :
           /\ (i = 0 /\ k \in armed) \/ (i > 0 /\ e[i] = Arm(k))
           /\ \A j \in i + 1 .. Len(e) : e[j] \notin {TearDown, Cancel(k)}
    BY SMTT(40) DEF TimersAfter
  <2>2. i # Len(e)
    <3>1. Arm(k) # TearDown
      BY EffectsDiffer
    <3>2. Len(e) # 0
      BY <1>0
    <3> QED BY <2>1, <3>1, <3>2, Zenon
  <2>3. \A n \in Nat : \A m \in 0 .. n : m # n => n \in m + 1 .. n
    OBVIOUS
  <2>4. Len(e) \in i + 1 .. Len(e)
    BY <1>0, <2>2, <2>3, Zenon
  <2> QED BY <2>1, <2>4
<1>5. \A k \in Timers : e # <<>> /\ e[Len(e)] = Arm(k) => k \in TimersAfter(armed, e)
  <2> SUFFICES ASSUME NEW k \in Timers, e # <<>>, e[Len(e)] = Arm(k)
               PROVE  k \in TimersAfter(armed, e)
    OBVIOUS
  <2>1. Len(e) \in 0 .. Len(e) /\ Len(e) > 0 /\ \A j \in Len(e) + 1 .. Len(e) : FALSE
    BY <1>0
  <2> QED BY <2>1 DEF TimersAfter
<1>6. \A k \in Timers : e # <<>> /\ e[1] = Cancel(k) /\ ~EmitsIn(e, Arm(k))
                          => k \notin TimersAfter(armed, e)
  <2> SUFFICES ASSUME NEW k \in Timers, e # <<>>, e[1] = Cancel(k), ~EmitsIn(e, Arm(k)),
                      k \in TimersAfter(armed, e)
               PROVE  FALSE
    OBVIOUS
  <2>1. PICK i \in 0 .. Len(e) :
           /\ (i = 0 /\ k \in armed) \/ (i > 0 /\ e[i] = Arm(k))
           /\ \A j \in i + 1 .. Len(e) : e[j] \notin {TearDown, Cancel(k)}
    BY DEF TimersAfter
  <2>2. i = 0
    BY <1>0, <2>1 DEF EmitsIn
  <2>3. 1 \in i + 1 .. Len(e)
    BY <1>0, <2>2
  <2> QED BY <2>1, <2>3
<1> QED BY <1>1, <1>2, <1>3, <1>4, <1>5, <1>6

-----------------------------------------------------------------------------
(* The effects of each step, as far as the runtime's state depends on them.   *)

\* Nothing of a sequence matters here.
AllAside(s) == \A i \in DOMAIN s : Aside(s[i])

\* A sequence of no matter emits nothing that matters.
LEMMA AsideEmits ==
    ASSUME NEW s, AllAside(s)
    PROVE  /\ ~EmitsIn(s, TearDown)
           /\ \A o \in Offers : ~EmitsIn(s, SetRemote(o)) /\ ~EmitsIn(s, SetLocal(o))
           /\ \A k \in Timers : ~EmitsIn(s, Arm(k))
  BY DEF AllAside, Aside, EmitsIn

\* The cancellations.
LEMMA CancelsAside ==
    /\ CancelAll \in Seq(Effects) /\ AllAside(CancelAll)
    /\ FailCancels \in Seq(Effects) /\ AllAside(FailCancels)
<1>1. CancelAll \in Seq(Effects) /\ FailCancels \in Seq(Effects)
  BY EffectTypes DEF CancelAll, FailCancels, Timers
<1>2. \A k \in Timers : Aside(Cancel(k))
  BY EffectsDiffer
<1>3. AllAside(CancelAll)
  BY <1>2 DEF AllAside, CancelAll, Timers
<1>4. /\ AllAside(<<Cancel("JoinReply"), Cancel("Dtls"), Cancel("IceConnectivity")>>)
      /\ AllAside(<<Cancel("JoinReply")>>)
  BY <1>2 DEF AllAside, Timers
<1>5. AllAside(FailCancels)
  BY <1>3, <1>4 DEF FailCancels
<1> QED BY <1>1, <1>3, <1>5

\* A step that tears down: no offer is begun and no answer sent.
Torn(e) ==
    /\ EmitsIn(e, TearDown)
    /\ \A o \in Offers : ~EmitsIn(e, SetRemote(o)) /\ ~EmitsIn(e, SetLocal(o))

\* A switch of rooms ends with the timer of its join.
LEMMA SwitchEffects ==
    ASSUME NEW c \in Rooms, JoinSwitch(c)
    PROVE  Torn(out') /\ out' # <<>> /\ out'[Len(out')] = Arm("JoinReply")
<1> DEFINE t == <<TearDown, SendFrame("JOIN", c), Arm("JoinReply")>>
<1>1. /\ t \in Seq(Effects) /\ t # <<>> /\ t[Len(t)] = Arm("JoinReply")
      /\ \A x : EmitsIn(t, x) => x \in {TearDown, SendFrame("JOIN", c), Arm("JoinReply")}
  BY EffectTypes DEF Timers, EmitsIn
<1>2. EmitsIn(t, TearDown)
  BY DEF EmitsIn
<1>3. \A o \in Offers : ~EmitsIn(t, SetRemote(o)) /\ ~EmitsIn(t, SetLocal(o))
  BY <1>1, EffectsDiffer DEF Timers, Aside
<1>4. out' = CancelAll \o t
  BY DEF JoinSwitch
<1> HIDE DEF t
<1>5. out' \in Seq(Effects) /\ Len(out') \in Nat \ {0} /\ out'[Len(out')] = Arm("JoinReply")
  BY <1>1, <1>4, CancelsAside, LastOfTwo
<1>6. Torn(out')
  BY <1>1, <1>2, <1>3, <1>4, CancelsAside, AsideEmits, EmitsEither DEF Torn
<1>7. out' # <<>>
  BY <1>5
<1> QED BY <1>5, <1>6, <1>7

\* A leave ends with the teardown.
LEMMA LeaveEffects ==
    ASSUME NEW c \in Rooms, Leave(c)
    PROVE  Torn(out') /\ out' # <<>> /\ out'[Len(out')] = TearDown
<1> DEFINE t == <<SendFrame("LEAVE", c), TearDown>>
<1>1. /\ t \in Seq(Effects) /\ t # <<>> /\ t[Len(t)] = TearDown
      /\ \A x : EmitsIn(t, x) => x \in {TearDown, SendFrame("LEAVE", c)}
  BY EffectTypes DEF EmitsIn
<1>2. EmitsIn(t, TearDown)
  BY DEF EmitsIn
<1>3. \A o \in Offers : ~EmitsIn(t, SetRemote(o)) /\ ~EmitsIn(t, SetLocal(o))
  BY <1>1, EffectsDiffer DEF Aside
<1>4. out' = CancelAll \o t
  BY DEF Leave
<1> HIDE DEF t
<1>5. out' \in Seq(Effects) /\ Len(out') \in Nat \ {0} /\ out'[Len(out')] = TearDown
  BY <1>1, <1>4, CancelsAside, LastOfTwo
<1>6. Torn(out')
  BY <1>1, <1>2, <1>3, <1>4, CancelsAside, AsideEmits, EmitsEither DEF Torn
<1>7. out' # <<>>
  BY <1>5
<1> QED BY <1>5, <1>6, <1>7

\* So does a failure, whatever it was that failed.
LEMMA FailEffects ==
    ASSUME SessionInv, Fail
    PROVE  Torn(out') /\ out' # <<>> /\ out'[Len(out')] = TearDown
<1> DEFINE s == FailCancels \o FailLeave
           t == <<TearDown>>
<1>1. t \in Seq(Effects) /\ t # <<>> /\ t[Len(t)] = TearDown /\ (\A x : EmitsIn(t, x) <=> x = TearDown)
  BY EffectTypes DEF EmitsIn
<1>2. FailLeave \in Seq(Effects) /\ AllAside(FailLeave)
  <2>1. CASE activeCid = None
    BY <2>1 DEF FailLeave, AllAside
  <2>2. CASE activeCid # None
    <3>1. activeCid \in Rooms
      BY <2>2 DEF SessionInv, StateTypeOK
    <3>2. Aside(SendFrame("LEAVE", activeCid)) /\ SendFrame("LEAVE", activeCid) \in Effects
      BY <3>1, EffectsDiffer, EffectTypes
    <3> QED BY <2>2, <3>2 DEF FailLeave, AllAside
  <2> QED BY <2>1, <2>2
<1>3. s \in Seq(Effects)
  BY <1>2, CancelsAside, ConcatType
<1>4. \A x : EmitsIn(s, x) => EmitsIn(FailCancels, x) \/ EmitsIn(FailLeave, x)
  BY <1>2, CancelsAside, EmitsEither
<1>5. \A o \in Offers : ~EmitsIn(s, SetRemote(o)) /\ ~EmitsIn(s, SetLocal(o))
  BY <1>2, <1>4, CancelsAside, AsideEmits
<1>6. out' = s \o t
  BY DEF Fail
<1> HIDE DEF s, t
<1>7. out' \in Seq(Effects) /\ Len(out') \in Nat \ {0} /\ out'[Len(out')] = TearDown
  BY <1>1, <1>3, <1>6, LastOfTwo
<1>8. Torn(out')
  BY <1>1, <1>3, <1>5, <1>6, EmitsEither, EffectsDiffer DEF Torn
<1>9. out' # <<>>
  BY <1>7
<1> QED BY <1>7, <1>8, <1>9

\* A step that begins the negotiation of o.
Begins(e, o) ==
    /\ ~EmitsIn(e, TearDown)
    /\ \A x \in Offers : EmitsIn(e, SetRemote(x)) <=> x = o
    /\ \A k \in Timers : ~EmitsIn(e, Arm(k))

\* What is handed to webrtcbin.
LEMMA NegotiateEffects ==
    ASSUME NEW o \in Offers
    PROVE  /\ Negotiate(o) \in Seq(Effects) /\ Begins(Negotiate(o), o)
           /\ \A x \in Offers : ~EmitsIn(Negotiate(o), SetLocal(x))
<1>1. \A x : EmitsIn(Negotiate(o), x) <=> x \in {StopReceive(o.sdp.inactive), SetRemote(o), CreateAnswer}
  BY DEF EmitsIn, Negotiate
<1>2. Aside(StopReceive(o.sdp.inactive)) /\ Aside(CreateAnswer)
  BY EffectsDiffer
<1>3. ~EmitsIn(Negotiate(o), TearDown)
  BY <1>1, <1>2, EffectsDiffer DEF Aside
<1>4. \A x \in Offers : /\ EmitsIn(Negotiate(o), SetRemote(x)) <=> x = o
                        /\ ~EmitsIn(Negotiate(o), SetLocal(x))
  BY <1>1, <1>2, EffectsDiffer DEF Aside
<1>5. \A k \in Timers : ~EmitsIn(Negotiate(o), Arm(k))
  BY <1>1, <1>2, EffectsDiffer DEF Aside
<1> QED BY <1>3, <1>4, <1>5, NegotiateType DEF Begins

\* An offer is begun by the first of a room, by a later one, or by an answer to the one before.
LEMMA OfferEffects ==
    ASSUME SessionInv, NEW o \in Offers, OfferOnJoin(o)
    PROVE  /\ Begins(out', o) /\ out' # <<>> /\ out'[1] = Cancel("JoinReply")
           /\ \A x \in Offers : ~EmitsIn(out', SetLocal(x))
<1> DEFINE s == <<Cancel("JoinReply")>>
           t == IF FlushDue(wanted) THEN <<SendStreams(activeCid, wanted)>> ELSE <<>>
           n == Negotiate(o)
           m == s \o n
<1>1. s \in Seq(Effects) /\ AllAside(s) /\ s[1] = Cancel("JoinReply") /\ 1 \in DOMAIN s
  BY EffectTypes, EffectsDiffer DEF AllAside, Timers
<1>2. t \in Seq(Effects) /\ AllAside(t)
  <2>1. activeCid \in Rooms
    BY SdpFacts DEF OfferOnJoin
  <2>2. wanted \in SUBSET Streams
    BY DEF SessionInv, StateTypeOK
  <2>3. SendStreams(activeCid, wanted) \in Effects /\ Aside(SendStreams(activeCid, wanted))
    BY <2>1, <2>2, VideoEffectTypes, EffectsDiffer
  <2> QED BY <2>3 DEF AllAside
<1>3. n \in Seq(Effects) /\ Begins(n, o) /\ \A x \in Offers : ~EmitsIn(n, SetLocal(x))
  BY NegotiateEffects
<1>4. out' = (s \o n) \o t
  BY DEF OfferOnJoin
<1> HIDE DEF s, t, n
<1>5. m \in Seq(Effects) /\ Begins(m, o) /\ \A x \in Offers : ~EmitsIn(m, SetLocal(x))
  BY <1>1, <1>3, ConcatType, EmitsEither, AsideEmits DEF Begins
<1>6. m[1] = Cancel("JoinReply") /\ 1 \in DOMAIN m
  BY <1>1, <1>3, ConcatElements
<1>7. out' = m \o t
  BY <1>4
<1> HIDE DEF m
<1>8. Begins(out', o) /\ \A x \in Offers : ~EmitsIn(out', SetLocal(x))
  BY <1>2, <1>5, <1>7, EmitsEither, AsideEmits DEF Begins
<1>9. out'[1] = Cancel("JoinReply") /\ 1 \in DOMAIN out'
  BY <1>2, <1>5, <1>6, <1>7, ConcatElements
<1>10. out' # <<>>
  BY <1>9
<1> QED BY <1>8, <1>9, <1>10

\* The answer is given, and the offer that waited begun.
LEMMA NextEffects ==
    ASSUME SessionInv, NEW a \in Offers, AnswerThenNext(a)
    PROVE  /\ queuedOffer \in Offers /\ Begins(out', queuedOffer)
           /\ \A x \in Offers : EmitsIn(out', SetLocal(x)) <=> x = a
<1> DEFINE s == <<SetLocal(a), SendAnswer(activeCid, a)>>
           n == Negotiate(queuedOffer)
<1>0. queuedOffer \in Offers /\ activeCid \in Rooms
  BY DEF SessionInv, StateTypeOK, AnswerThenNext, RoomStateDiesWithRoom, InRoom
<1>1. /\ s \in Seq(Effects)
      /\ \A x : EmitsIn(s, x) <=> x \in {SetLocal(a), SendAnswer(activeCid, a)}
  BY <1>0, OfferEffectTypes DEF EmitsIn
<1>2. Aside(SendAnswer(activeCid, a))
  BY EffectsDiffer
<1>3. /\ ~EmitsIn(s, TearDown) /\ \A k \in Timers : ~EmitsIn(s, Arm(k))
      /\ \A x \in Offers : ~EmitsIn(s, SetRemote(x)) /\ (EmitsIn(s, SetLocal(x)) <=> x = a)
  BY <1>1, <1>2, EffectsDiffer DEF Aside
<1>4. n \in Seq(Effects) /\ Begins(n, queuedOffer) /\ \A x \in Offers : ~EmitsIn(n, SetLocal(x))
  BY <1>0, NegotiateEffects
<1>5. out' = s \o n
  BY DEF AnswerThenNext
<1> HIDE DEF s, n
<1> QED BY <1>0, <1>1, <1>3, <1>4, <1>5, EmitsEither DEF Begins

\* A step that leaves webrtcbin to itself, the answer being all it may give it.
Leaves(e) ==
    /\ ~EmitsIn(e, TearDown)
    /\ \A x \in Offers : ~EmitsIn(e, SetRemote(x))

\* The other steps.
LEMMA OtherEffects ==
    /\ Ignored => out' = <<>> /\ Leaves(out') /\ \A x \in Offers : ~EmitsIn(out', SetLocal(x))
    /\ \A c \in Rooms : JoinFromIdle(c) =>
         /\ Leaves(out') /\ out' # <<>> /\ out'[Len(out')] = Arm("JoinReply")
         /\ \A x \in Offers : ~EmitsIn(out', SetLocal(x))
    /\ \A o \in Offers : OfferQueue(o) =>
         out' = <<>> /\ Leaves(out') /\ \A x \in Offers : ~EmitsIn(out', SetLocal(x))
    /\ \A a \in Offers : AnswerThenConnect(a) =>
         /\ Leaves(out') /\ ~EmitsIn(out', Arm("JoinReply"))
         /\ \A x \in Offers : EmitsIn(out', SetLocal(x)) <=> x = a
    /\ PeerConnected =>
         /\ Leaves(out') /\ ~EmitsIn(out', Arm("JoinReply"))
         /\ \A x \in Offers : ~EmitsIn(out', SetLocal(x))
<1>1. \A e : e = <<>> => Leaves(e) /\ \A x \in Offers : ~EmitsIn(e, SetLocal(x))
  BY DEF Leaves, EmitsIn
<1>2. ASSUME NEW c \in Rooms, JoinFromIdle(c)
      PROVE  /\ Leaves(out') /\ out' # <<>> /\ out'[Len(out')] = Arm("JoinReply")
             /\ \A x \in Offers : ~EmitsIn(out', SetLocal(x))
  <2>1. out' = <<SendFrame("JOIN", c), Arm("JoinReply")>>
    BY <1>2 DEF JoinFromIdle
  <2>2. \A x : EmitsIn(out', x) => x \in {SendFrame("JOIN", c), Arm("JoinReply")}
    BY <2>1 DEF EmitsIn
  <2>3. Leaves(out') /\ \A x \in Offers : ~EmitsIn(out', SetLocal(x))
    BY <2>2, EffectsDiffer DEF Leaves, Aside, Timers
  <2>4. out' # <<>> /\ out'[Len(out')] = Arm("JoinReply")
    BY <2>1
  <2> QED BY <2>3, <2>4
<1>3. ASSUME NEW a \in Offers, AnswerThenConnect(a)
      PROVE  /\ Leaves(out') /\ ~EmitsIn(out', Arm("JoinReply"))
             /\ \A x \in Offers : EmitsIn(out', SetLocal(x)) <=> x = a
  <2>1. out' = <<SetLocal(a), SendAnswer(activeCid, a), Arm("Dtls"), Arm("IceConnectivity")>>
    BY <1>3 DEF AnswerThenConnect
  <2>2. \A x : EmitsIn(out', x) <=>
                 x \in {SetLocal(a), SendAnswer(activeCid, a), Arm("Dtls"), Arm("IceConnectivity")}
    BY <2>1 DEF EmitsIn
  <2>3. Leaves(out') /\ \A x \in Offers : EmitsIn(out', SetLocal(x)) <=> x = a
    BY <2>2, EffectsDiffer DEF Leaves, Aside, Timers
  <2>4. ~EmitsIn(out', Arm("JoinReply"))
    BY <2>2, EffectsDiffer DEF Aside, Timers
  <2> QED BY <2>3, <2>4
<1>4. ASSUME PeerConnected
      PROVE  /\ Leaves(out') /\ ~EmitsIn(out', Arm("JoinReply"))
             /\ \A x \in Offers : ~EmitsIn(out', SetLocal(x))
  <2>1. out' = <<Cancel("Dtls"), Cancel("IceConnectivity"), Arm("Media")>>
    BY <1>4 DEF PeerConnected
  <2>2. \A x : EmitsIn(out', x) => x \in {Cancel("Dtls"), Cancel("IceConnectivity"), Arm("Media")}
    BY <2>1 DEF EmitsIn
  <2>3. Leaves(out') /\ ~EmitsIn(out', Arm("JoinReply")) /\ \A x \in Offers : ~EmitsIn(out', SetLocal(x))
    BY <2>2, EffectsDiffer DEF Leaves, Aside, Timers
  <2> QED BY <2>3
<1> QED BY <1>1, <1>2, <1>3, <1>4 DEF Ignored, OfferQueue

-----------------------------------------------------------------------------
(* One turn of the loop after the machine's step.                             *)

\* The types of the clocks.
LEMMA DispatchTypes ==
    ASSUME ClockTypes, NEW armed, NEW peer \in PeerStates \cup {None}, Dispatch(armed, peer, <<>>)
    PROVE  ClockTypes'
<1>1. timers' \subseteq Timers
  BY DEF Dispatch, TimersAfter
<1>2. lastPeer' \in PeerStates \cup {None}
  BY DEF Dispatch
<1>3. beenConnected' \in BOOLEAN
  BY DEF Dispatch
<1>4. rtp' \in BOOLEAN
  BY DEF Dispatch
<1>5. wedge' \in BOOLEAN
  BY DEF Dispatch, WedgeAfter, ClockTypes
<1>6. pending' \in {<<>>, <<"Connected">>}
  BY DEF Dispatch, Synthesized
<1> QED BY <1>1, <1>2, <1>3, <1>4, <1>5, <1>6 DEF ClockTypes

\* A session is watched from the step that makes it connect.
LEMMA DispatchWatch ==
    ASSUME ClockTypes, WatchOK, NEW armed, NEW peer, Dispatch(armed, peer, <<>>),
           pending = <<>> \/ state' # "Connecting",
           state' = "Connecting" => ~EmitsIn(out', TearDown)
    PROVE  WatchOK'
<1>1. pending' = Synthesized(peer)
  BY DEF Dispatch, Synthesized
<1>2. CASE state' # "Connecting"
  <2>1. pending' = <<>>
    BY <1>1, <1>2 DEF Synthesized, Enters
  <2>2. ~wedge'
    BY <1>2 DEF Dispatch, WedgeAfter, Enters
  <2> QED BY <1>2, <2>1, <2>2 DEF WatchOK, UnconnectedIsWatched
<1>3. CASE state' = "Connecting"
  <2>1. beenConnected' = beenConnected
    <3>1. beenConnected' = (beenConnected \/ FALSE)
      BY <1>3 DEF Dispatch, TornDown, Enters
    <3> QED BY <3>1 DEF ClockTypes
  <2>2. CASE state # "Connecting"
    <3>1. wedge' = (wedge \/ WedgeArms(peer))
      BY <1>3, <2>2 DEF Dispatch, WedgeAfter, Enters
    <3>2. peer = "Connected" => pending' = <<"Connected">>
      BY <1>1, <1>3, <2>2 DEF Synthesized, Enters
    <3>3. peer = "Connected" => pending' # <<>>
      BY <3>2
    <3> QED BY <1>3, <2>1, <3>1, <3>3 DEF WatchOK, UnconnectedIsWatched, WedgeArms, LoopFree
  <2>3. CASE state = "Connecting"
    <3>1. wedge' = (wedge /\ TRUE)
      BY <1>3, <2>3 DEF Dispatch, WedgeAfter, Enters, TornDown
    <3>2. beenConnected \/ wedge
      BY <1>3, <2>3 DEF WatchOK, UnconnectedIsWatched, LoopFree
    <3> QED BY <1>3, <2>1, <3>1, <3>2 DEF WatchOK, UnconnectedIsWatched
  <2> QED BY <2>2, <2>3
<1> QED BY <1>2, <1>3

\* The main context keeps what it has, or has run its oldest closure.
Waits(q, r) == r = q \/ (q # <<>> /\ r = Tail(q))

\* What waits in the main context stays well formed as it runs and as numbers grow.
LEMMA WaitsOK ==
    ASSUME NEW q \in Seq(Closures), NEW r, Waits(q, r), NEW g \in Nat, NEW h \in Nat, g <= h,
           PostedOK(q, g)
    PROVE  r \in Seq(Closures) /\ PostedOK(r, h)
  BY PostedLess DEF Waits

\* Less is in one place still.
LEMMA StageLess ==
    ASSUME NEW q \in Seq(Closures), NEW r, Waits(q, r), NEW g, NEW P, NEW Q \in SUBSET P,
           NEW C, NEW D \in SUBSET C
    PROVE  /\ OneStage(g, P, C, q) => OneStage(g, Q, D, r)
           /\ \A x, y : InForce(g, P, C, q, x, y) => InForce(g, Q, D, r, x, y)
<1>1. CASE r = q
  BY <1>1 DEF OneStage, InForce
<1>2. CASE q # <<>> /\ r = Tail(q)
  <2>1. \A i \in Work(r, g) : i \in Nat /\ i + 1 \in Work(q, g) /\ r[i] = q[i + 1]
    BY <1>2, WorkOfTail
  <2>2. OneStage(g, P, C, q) => OneStage(g, Q, D, r)
    <3> SUFFICES ASSUME OneStage(g, P, C, q) PROVE OneStage(g, Q, D, r)
      OBVIOUS
    <3>1. \A i, j \in Work(r, g) : i = j
      <4> TAKE i, j \in Work(r, g)
      <4>1. i + 1 = j + 1
        BY <2>1 DEF OneStage
      <4> QED BY <2>1, <4>1
    <3>2. Work(r, g) # {} => Work(q, g) # {}
      BY <2>1
    <3> QED BY <3>1, <3>2 DEF OneStage
  <2>3. \A x, y : InForce(g, P, C, q, x, y) => InForce(g, Q, D, r, x, y)
    BY <2>1 DEF InForce
  <2> QED BY <2>2, <2>3
<1> QED BY <1>1, <1>2 DEF Waits

-----------------------------------------------------------------------------
(* The steps of the machine, by what they do to the pipeline.                 *)

\* What they have in common.
Turn(armed, peer) ==
    /\ RuntimeInv /\ SessionInv' /\ out' \in Seq(Effects)
    /\ armed \subseteq timers /\ peer \in PeerStates \cup {None}
    /\ Dispatch(armed, peer, <<>>)
    /\ capsWaits' = capsWaits /\ Waits(posted, posted')
    /\ pending = <<>> \/ state' # "Connecting"

\* A new pipeline, or none.
LEMMA NewBins == FreshBin \in Bins /\ NoBin \in Bins
<1>1. FreshBin \in Bins
  BY DEF FreshBin, Bins, PeerStates
<1>2. \A b \in Bins, x \in BOOLEAN : [b EXCEPT !.up = x] \in Bins
  BY DEF Bins
<1>3. NoBin \in Bins
  BY <1>1, <1>2 DEF NoBin
<1> QED BY <1>1, <1>3

\* A teardown forgets webrtcbin, its promises and the clocks.
LEMMA TornStep ==
    ASSUME NEW armed, NEW peer, Turn(armed, peer), Torn(out'), out' # <<>>, queuedOffer' = None,
           \/ state' = "JoinSent" /\ out'[Len(out')] = Arm("JoinReply")
           \/ state' \in {"Idle", "Leaving"} /\ out'[Len(out')] = TearDown
    PROVE  RuntimeInv'
<1> USE DEF Turn
<1>1. armed \in SUBSET Timers
  BY DEF RuntimeInv, ClockTypes
<1>2. ClockTypes' /\ WatchOK'
  BY DispatchTypes, DispatchWatch DEF RuntimeInv
<1>3. /\ answerGen' = answerGen /\ promises' = {} /\ bin' \in {FreshBin, NoBin}
      /\ timers' = TimersAfter(armed, out')
  BY DEF Dispatch, BinAfter, GenAfter, TornDown, Torn
<1>4. BinTypes'
  <2>1. bin' \in Bins
    BY <1>3, NewBins
  <2>2. PromisesOK(promises', answerGen')
    BY <1>3 DEF PromisesOK
  <2>3. posted' \in Seq(Closures) /\ PostedOK(posted', answerGen')
    BY <1>3, WaitsOK, BoundsAssumption DEF RuntimeInv, BinTypes
  <2> QED BY <1>3, <2>1, <2>2, <2>3 DEF RuntimeInv, BinTypes
<1>5. NegotiationOK' /\ QueueFits' /\ RemotesOK(state, promises, answerGen, activeCid)'
  BY <1>3 DEF NegotiationOK, QueueFits, RemotesOK
<1>6. TimersMatchSession'
  <2>1. CASE state' = "JoinSent" /\ out'[Len(out')] = Arm("JoinReply")
    <3>1. "JoinReply" \in timers'
      BY <1>1, <1>3, <2>1, TimersAre DEF Timers
    <3> QED BY <2>1, <3>1 DEF TimersMatchSession, InRoom
  <2>2. CASE state' \in {"Idle", "Leaving"} /\ out'[Len(out')] = TearDown
    <3>1. timers' = {}
      BY <1>1, <1>3, <2>2, TimersAre
    <3> QED BY <1>2, <2>2, <3>1 DEF TimersMatchSession, InRoom, WatchOK, UnconnectedIsWatched
  <2> QED BY <2>1, <2>2
<1> QED BY <1>2, <1>4, <1>5, <1>6 DEF RuntimeInv

\* The pipeline of a step that does not tear it down.
LEMMA KeptBin ==
    ASSUME bin \in Bins, BinAfter, ~EmitsIn(out', TearDown)
    PROVE  bin' \in Bins /\ bin'.remote = bin.remote
<1> DEFINE b == bin.local \/ \E a \in Offers : EmitsIn(out', SetLocal(a))
<1>1. bin' = [bin EXCEPT !.local = b]
  BY DEF BinAfter, TornDown
<1>2. b \in BOOLEAN
  OBVIOUS
<1> HIDE DEF b
<1> QED BY <1>1, <1>2 DEF Bins

\* A negotiation begins where none is under way.
LEMMA BeginStep ==
    ASSUME NEW armed, NEW peer, Turn(armed, peer), NEW o \in Offers, Begins(out', o),
           state' = "OfferPending", o.cid = activeCid', queuedOffer' = None,
           answerGen < MaxNegotiations, \A p \in promises : p.phase # "remote",
           "JoinReply" \notin timers'
    PROVE  RuntimeInv'
<1> USE DEF Turn
<1>1. answerGen \in Nat /\ answerGen + 1 \in 0 .. MaxNegotiations /\ bin \in Bins
  BY BoundsAssumption DEF RuntimeInv, BinTypes
<1>2. ClockTypes' /\ WatchOK'
  BY DispatchTypes, DispatchWatch DEF RuntimeInv
<1>3. answerGen' = answerGen + 1
  BY DEF Dispatch, GenAfter, Begins
<1>4. promises' \in {promises, promises \cup {Promise("remote", answerGen + 1, o)}}
  <2>1. promises' = promises \cup {Promise("remote", answerGen', x) :
                        x \in {x \in Offers : bin.up /\ EmitsIn(out', SetRemote(x))}}
    BY DEF Dispatch, BinAfter, TornDown, Begins
  <2>2. {x \in Offers : bin.up /\ EmitsIn(out', SetRemote(x))} \in {{}, {o}}
    BY DEF Begins
  <2> QED BY <1>3, <2>1, <2>2
<1>5. bin' \in Bins
  BY <1>1, KeptBin DEF Dispatch, Begins
<1>6. PromisesOK(promises', answerGen')
  <2>1. PromisesOK(promises, answerGen')
    BY <1>1, <1>3 DEF RuntimeInv, BinTypes, PromisesOK
  <2>2. Promise("remote", answerGen + 1, o) \in Promised
    BY <1>1 DEF Promise, Promised
  <2> QED BY <1>1, <1>3, <1>4, <2>1, <2>2 DEF PromisesOK, Promise
<1>7. posted' \in Seq(Closures) /\ PostedOK(posted', answerGen) /\ PostedOK(posted', answerGen')
  BY <1>1, <1>3, WaitsOK DEF RuntimeInv, BinTypes
<1>8. BinTypes'
  BY <1>1, <1>3, <1>5, <1>6, <1>7 DEF RuntimeInv, BinTypes
<1>9. NegotiationOK'
  <2>1. PromisesOK(promises, answerGen) /\ capsWaits \in SUBSET (1 .. answerGen)
    BY DEF RuntimeInv, BinTypes
  <2>2. Work(posted', answerGen + 1) = {}
    BY <1>1, <1>7 DEF Work, PostedOK
  <2>3. answerGen + 1 \notin capsWaits /\ \A p \in promises : p.gen # answerGen + 1
    BY <1>1, <2>1 DEF PromisesOK
  <2>4. \A p \in promises' :
           p.gen = answerGen + 1 => p = Promise("remote", answerGen + 1, o) /\ p.phase = "remote"
    BY <1>4, <2>3 DEF Promise
  <2> QED BY <1>3, <2>2, <2>3, <2>4 DEF NegotiationOK, OneStage, InForce
<1>10. RemotesOK(state, promises, answerGen, activeCid)'
  BY <1>3, <1>4 DEF RemotesOK, Promise
<1>11. TimersMatchSession' /\ QueueFits'
  BY DEF TimersMatchSession, QueueFits, InRoom
<1> QED BY <1>2, <1>8, <1>9, <1>10, <1>11 DEF RuntimeInv

\* A step that leaves webrtcbin to itself.
LEMMA LeavesStep ==
    ASSUME NEW armed, NEW peer, Turn(armed, peer), Leaves(out'),
           state' = "OfferPending" => state = "OfferPending" /\ activeCid' = activeCid,
           state' = "OfferPending" \/ \A p \in promises : p.phase # "remote",
           queuedOffer' # None => answerGen < MaxNegotiations,
           "JoinReply" \in timers' <=> state' = "JoinSent",
           state' \in {"JoinSent", "OfferPending", "Connecting", "Connected"} \/ timers' = {}
    PROVE  RuntimeInv'
<1> USE DEF Turn
<1>1. answerGen \in Nat /\ bin \in Bins
  BY BoundsAssumption DEF RuntimeInv, BinTypes
<1>2. ClockTypes' /\ WatchOK'
  BY DispatchTypes, DispatchWatch DEF RuntimeInv, Leaves
<1>3. answerGen' = answerGen
  BY DEF Dispatch, GenAfter, Leaves
<1>4. promises' = promises
  <2>1. promises' = promises \cup {Promise("remote", answerGen', x) :
                        x \in {x \in Offers : bin.up /\ EmitsIn(out', SetRemote(x))}}
    BY DEF Dispatch, BinAfter, TornDown, Leaves
  <2>2. {x \in Offers : bin.up /\ EmitsIn(out', SetRemote(x))} = {}
    BY DEF Leaves
  <2> QED BY <2>1, <2>2
<1>5. bin' \in Bins /\ bin'.remote = bin.remote
  BY <1>1, KeptBin DEF Dispatch, Leaves
<1>6. posted' \in Seq(Closures) /\ PostedOK(posted', answerGen')
  BY <1>1, <1>3, WaitsOK DEF RuntimeInv, BinTypes
<1>7. BinTypes'
  BY <1>3, <1>4, <1>5, <1>6 DEF RuntimeInv, BinTypes
<1>8. NegotiationOK'
  <2> SUFFICES ASSUME state' = "OfferPending"
               PROVE  /\ OneStage(answerGen', promises', capsWaits', posted')
                      /\ InForce(answerGen', promises', capsWaits', posted', bin'.remote, activeCid')
    BY DEF NegotiationOK
  <2>1. /\ OneStage(answerGen, promises, capsWaits, posted)
        /\ InForce(answerGen, promises, capsWaits, posted, bin.remote, activeCid)
    BY DEF RuntimeInv, NegotiationOK
  <2>2. posted \in Seq(Closures) /\ promises \in SUBSET promises /\ capsWaits \in SUBSET capsWaits
    BY DEF RuntimeInv, BinTypes
  <2>3. /\ OneStage(answerGen, promises, capsWaits, posted')
        /\ InForce(answerGen, promises, capsWaits, posted', bin.remote, activeCid)
    BY <2>1, <2>2, StageLess
  <2> QED BY <1>3, <1>4, <1>5, <2>3
<1>9. RemotesOK(state, promises, answerGen, activeCid)'
  BY <1>3, <1>4 DEF RemotesOK, RuntimeInv
<1>10. TimersMatchSession' /\ QueueFits'
  BY <1>2, <1>3 DEF TimersMatchSession, QueueFits, InRoom, WatchOK, UnconnectedIsWatched
<1> QED BY <1>2, <1>7, <1>8, <1>9, <1>10 DEF RuntimeInv

\* An event nothing comes of.
LEMMA IgnoredTurn ==
    ASSUME NEW armed, NEW peer, Turn(armed, peer), Ignored,
           "JoinReply" \in armed <=> "JoinReply" \in timers
    PROVE  RuntimeInv'
<1>1. state' = state /\ activeCid' = activeCid /\ queuedOffer' = queuedOffer /\ out' = <<>>
  BY DEF Ignored, machineVars
<1>2. Leaves(out')
  BY OtherEffects
<1>3. armed \in SUBSET Timers /\ timers' = TimersAfter(armed, out')
  BY DEF Turn, RuntimeInv, ClockTypes, Dispatch
<1>4. timers' = armed
  BY <1>1, <1>3, TimersAre DEF Turn
<1>5. /\ "JoinReply" \in timers' <=> state' = "JoinSent"
      /\ state' \in {"JoinSent", "OfferPending", "Connecting", "Connected"} \/ timers' = {}
  BY <1>1, <1>4 DEF Turn, RuntimeInv, TimersMatchSession, InRoom
<1>6. /\ state' = "OfferPending" \/ \A p \in promises : p.phase # "remote"
      /\ queuedOffer' # None => answerGen < MaxNegotiations
  BY <1>1 DEF Turn, RuntimeInv, RemotesOK, QueueFits
<1> QED BY <1>1, <1>2, <1>5, <1>6, LeavesStep

\* A failure.
LEMMA FailTurn ==
    ASSUME NEW armed, NEW peer, Turn(armed, peer), Fail
    PROVE  RuntimeInv'
<1>1. Torn(out') /\ out' # <<>> /\ out'[Len(out')] = TearDown
  BY FailEffects DEF Turn, RuntimeInv
<1> QED BY <1>1, TornStep DEF Fail

\* A step of the loop that runs no closure.
LEMMA StepIsTurn ==
    ASSUME RuntimeInv, SessionInv', out' \in Seq(Effects), LoopFree, NEW armed \in SUBSET timers,
           Dispatch(armed, lastPeer, <<>>), UNCHANGED <<capsWaits, posted>>
    PROVE  Turn(armed, lastPeer)
  BY DEF Turn, RuntimeInv, ClockTypes, Waits, LoopFree

\* A join.
LEMMA JoinTurn ==
    ASSUME RuntimeInv, NEW c \in Rooms, Join(c)
    PROVE  RuntimeInv'
<1>1. SessionInv' /\ out' \in Seq(Effects) /\ JoinRequested(c)
  BY JoinInv DEF Join, Step, RuntimeInv
<1>2. Turn(timers, lastPeer)
  BY <1>1, StepIsTurn DEF Join, Step
<1>3. CASE JoinFromIdle(c)
  <2>1. Leaves(out') /\ out' # <<>> /\ out'[Len(out')] = Arm("JoinReply")
    BY <1>3, OtherEffects
  <2>2. state = "Idle" /\ state' = "JoinSent" /\ queuedOffer' = None
    BY <1>3 DEF JoinFromIdle, EnterRoom
  <2>3. timers \in SUBSET Timers /\ timers' = TimersAfter(timers, out')
    BY <1>2 DEF Turn, RuntimeInv, ClockTypes, Dispatch
  <2>4. "JoinReply" \in timers'
    BY <1>1, <2>1, <2>3, TimersAre DEF Timers
  <2>5. \A p \in promises : p.phase # "remote"
    BY <2>2 DEF RuntimeInv, RemotesOK
  <2> QED BY <1>2, <2>1, <2>2, <2>4, <2>5, LeavesStep
<1>4. CASE JoinSwitch(c)
  <2>1. Torn(out') /\ out' # <<>> /\ out'[Len(out')] = Arm("JoinReply")
    BY <1>4, SwitchEffects
  <2>2. state' = "JoinSent" /\ queuedOffer' = None
    BY <1>4 DEF JoinSwitch, EnterRoom
  <2> QED BY <1>2, <2>1, <2>2, TornStep
<1>5. CASE Ignored
  BY <1>2, <1>5, IgnoredTurn
<1> QED BY <1>1, <1>3, <1>4, <1>5 DEF JoinRequested

\* A leave.
LEMMA LeaveTurn ==
    ASSUME RuntimeInv, NEW c \in Rooms, LeaveRoom(c)
    PROVE  RuntimeInv'
<1>1. SessionInv' /\ out' \in Seq(Effects) /\ LeaveRequested(c)
  BY LeaveInv DEF LeaveRoom, Step, RuntimeInv
<1>2. Turn(timers, lastPeer)
  BY <1>1, StepIsTurn DEF LeaveRoom, Step
<1>3. CASE Leave(c)
  <2>1. Torn(out') /\ out' # <<>> /\ out'[Len(out')] = TearDown
    BY <1>3, LeaveEffects
  <2>2. state' = "Idle" /\ queuedOffer' = None
    BY <1>3 DEF Leave
  <2> QED BY <1>2, <2>1, <2>2, TornStep
<1>4. CASE Ignored
  BY <1>2, <1>4, IgnoredTurn
<1> QED BY <1>1, <1>3, <1>4 DEF LeaveRequested

\* An offer: begun, or put behind the one being answered.
LEMMA OfferTurn ==
    ASSUME RuntimeInv, NEW o \in Offers, Offer(o)
    PROVE  RuntimeInv'
<1>1. SessionInv' /\ out' \in Seq(Effects) /\ SdpOfferReceived(o) /\ answerGen < MaxNegotiations
  BY OfferInv DEF Offer, Step, RuntimeInv
<1>2. Turn(timers, lastPeer)
  BY <1>1, StepIsTurn DEF Offer, Step
<1>3. timers \in SUBSET Timers /\ timers' = TimersAfter(timers, out')
  BY <1>2 DEF Turn, RuntimeInv, ClockTypes, Dispatch
<1>4. state # "OfferPending" => /\ queuedOffer = None
                                /\ \A p \in promises : p.phase # "remote"
  BY DEF RuntimeInv, SessionInv, QueuedOfferIsForThisRoom, RemotesOK
<1>5. CASE OfferOnJoin(o)
  <2>1. Begins(out', o) /\ out' # <<>> /\ out'[1] = Cancel("JoinReply")
    BY <1>5, OfferEffects DEF RuntimeInv
  <2>2. /\ state = "JoinSent" /\ state' = "OfferPending" /\ o.cid = activeCid'
        /\ queuedOffer' = queuedOffer
    BY <1>5 DEF OfferOnJoin
  <2>3. "JoinReply" \notin timers'
    BY <1>1, <1>3, <2>1, TimersAre DEF Begins, Timers
  <2> QED BY <1>1, <1>2, <1>4, <2>1, <2>2, <2>3, BeginStep
<1>6. CASE OfferRenegotiate(o)
  <2>1. Begins(out', o)
    BY <1>6, NegotiateEffects DEF OfferRenegotiate
  <2>2. /\ state \in {"Connecting", "Connected"} /\ state' = "OfferPending" /\ o.cid = activeCid'
        /\ queuedOffer' = queuedOffer
    BY <1>6 DEF OfferRenegotiate
  <2>3. "JoinReply" \notin timers
    BY <2>2 DEF RuntimeInv, TimersMatchSession
  <2>4. "JoinReply" \notin timers'
    BY <1>1, <1>3, <2>1, <2>3, TimersAre DEF Begins, Timers
  <2> QED BY <1>1, <1>2, <1>4, <2>1, <2>2, <2>4, BeginStep
<1>7. CASE OfferQueue(o)
  <2>1. out' = <<>> /\ Leaves(out')
    BY <1>7, OtherEffects
  <2>2. state = "OfferPending" /\ state' = state /\ activeCid' = activeCid
    BY <1>7 DEF OfferQueue
  <2>3. timers' = timers
    BY <1>1, <1>3, <2>1, TimersAre
  <2>4. "JoinReply" \in timers' <=> state' = "JoinSent"
    BY <2>2, <2>3 DEF RuntimeInv, TimersMatchSession
  <2> QED BY <1>1, <1>2, <2>1, <2>2, <2>4, LeavesStep
<1>8. CASE Ignored
  BY <1>2, <1>8, IgnoredTurn
<1> QED BY <1>1, <1>5, <1>6, <1>7, <1>8 DEF SdpOfferReceived

\* A refusal, a timer and the watchdog fail the session, or nothing comes of them.
LEMMA RefusalTurn ==
    ASSUME RuntimeInv, NEW op \in {"JOIN", "ANSWER"}, Refusal(op)
    PROVE  RuntimeInv'
<1>1. SessionInv' /\ out' \in Seq(Effects) /\ Fail
  BY TaskErrorInv DEF Refusal, Step, RuntimeInv, ServerTaskError
<1>2. Turn(timers, lastPeer)
  BY <1>1, StepIsTurn DEF Refusal, Step
<1> QED BY <1>1, <1>2, FailTurn

\* A timer of the session's own.
LEMMA TimerTurn ==
    ASSUME RuntimeInv, NEW k \in Timers, TimerFires(k)
    PROVE  RuntimeInv'
<1>1. SessionInv' /\ out' \in Seq(Effects) /\ Timeout(k)
  BY TimeoutInv DEF TimerFires, RuntimeInv
<1>2. Turn(timers \ {k}, lastPeer)
  BY <1>1, StepIsTurn DEF TimerFires
<1>3. CASE Fail
  BY <1>2, <1>3, FailTurn
<1>4. CASE ~(k = "JoinReply" /\ state = "JoinSent") /\ Ignored
  <2>1. k # "JoinReply"
    BY <1>4 DEF TimerFires, RuntimeInv, TimersMatchSession
  <2> QED BY <1>2, <1>4, <2>1, IgnoredTurn
<1> QED BY <1>1, <1>3, <1>4 DEF Timeout

\* The state of the media connection.
LEMMA PeerTurn ==
    ASSUME RuntimeInv, NEW st \in PeerStates, WebrtcConnectionStateChanged(st),
           Dispatch(timers, st, <<>>), capsWaits' = capsWaits, Waits(posted, posted'),
           pending = <<>> \/ (st = "Connected" /\ state = "Connecting")
    PROVE  RuntimeInv'
<1>1. SessionInv' /\ out' \in Seq(Effects)
  BY PeerInv DEF RuntimeInv
<1>2. pending = <<>> \/ state' # "Connecting"
  BY DEF WebrtcConnectionStateChanged, PeerConnected
<1>3. Turn(timers, st)
  BY <1>1, <1>2 DEF Turn
<1>4. CASE PeerConnected
  <2>1. Leaves(out') /\ ~EmitsIn(out', Arm("JoinReply"))
    BY <1>4, OtherEffects
  <2>2. /\ state = "Connecting" /\ state' = "Connected" /\ queuedOffer' = queuedOffer
        /\ "JoinReply" \notin timers
    BY <1>4 DEF PeerConnected, RuntimeInv, TimersMatchSession
  <2>3. timers \in SUBSET Timers /\ timers' = TimersAfter(timers, out')
    BY <1>3 DEF Turn, RuntimeInv, ClockTypes, Dispatch
  <2>4. "JoinReply" \notin timers'
    BY <1>1, <2>1, <2>2, <2>3, TimersAre DEF Timers
  <2>5. /\ \A p \in promises : p.phase # "remote"
        /\ queuedOffer' # None => answerGen < MaxNegotiations
    BY <2>2 DEF RuntimeInv, RemotesOK, QueueFits
  <2> QED BY <1>3, <2>1, <2>2, <2>4, <2>5, LeavesStep
<1>5. CASE Fail
  BY <1>3, <1>5, FailTurn
<1>6. CASE Ignored
  BY <1>3, <1>6, IgnoredTurn
<1> QED BY <1>4, <1>5, <1>6 DEF WebrtcConnectionStateChanged

-----------------------------------------------------------------------------
(* Closures, webrtcbin and the whole.                                         *)

\* A step that leaves the machine and the clocks alone.
LEMMA QuietStep ==
    ASSUME RuntimeInv, Quiet, BinTypes', RemotesOK(state, promises, answerGen, activeCid)',
           NegotiationOK'
    PROVE  RuntimeInv'
<1>1. /\ UNCHANGED machineVars /\ out' = <<>>
      /\ UNCHANGED <<timers, wedge, rtp, lastPeer, beenConnected, answerGen, pending>>
      /\ state' = state /\ queuedOffer' = queuedOffer
  BY DEF Quiet, machineVars, clockVars
<1>2. SessionInv' /\ out' \in Seq(Effects)
  BY <1>1, UnchangedInv DEF RuntimeInv
<1>3. ClockTypes' /\ QueueFits' /\ TimersMatchSession' /\ WatchOK'
  BY <1>1 DEF RuntimeInv, ClockTypes, QueueFits, TimersMatchSession, WatchOK,
              UnconnectedIsWatched, InRoom, LoopFree
<1> QED BY <1>2, <1>3 DEF RuntimeInv

\* RTP, and a watchdog that has seen it.
LEMMA RtpStep ==
    ASSUME RuntimeInv, rtp' \in BOOLEAN, out' = <<>>,
           UNCHANGED <<machineVars, timers, wedge, lastPeer, beenConnected, answerGen, pending, binVars>>
    PROVE  RuntimeInv'
<1>1. state' = state /\ queuedOffer' = queuedOffer /\ activeCid' = activeCid
  BY DEF machineVars
<1>2. SessionInv' /\ out' \in Seq(Effects)
  BY UnchangedInv DEF RuntimeInv
<1>3. ClockTypes' /\ QueueFits' /\ TimersMatchSession' /\ WatchOK'
  BY <1>1 DEF RuntimeInv, ClockTypes, QueueFits, TimersMatchSession, WatchOK,
              UnconnectedIsWatched, InRoom, LoopFree
<1>4. BinTypes' /\ NegotiationOK' /\ RemotesOK(state, promises, answerGen, activeCid)'
  BY <1>1 DEF RuntimeInv, BinTypes, NegotiationOK, RemotesOK, binVars
<1> QED BY <1>2, <1>3, <1>4 DEF RuntimeInv

\* The watchdog.
LEMMA WedgeTurn == ASSUME RuntimeInv, WedgeTick PROVE RuntimeInv'
<1>1. CASE rtp
  BY <1>1, RtpStep DEF WedgeTick
<1>2. CASE ~rtp
  <2>1. SessionInv' /\ out' \in Seq(Effects) /\ Timeout("WedgeDeadline")
    BY <1>2, TimeoutInv DEF WedgeTick, RuntimeInv
  <2>2. Turn(timers, lastPeer)
    BY <1>2, <2>1, StepIsTurn DEF WedgeTick
  <2>3. CASE Fail
    BY <2>2, <2>3, FailTurn
  <2>4. CASE Ignored
    BY <2>2, <2>4, IgnoredTurn
  <2> QED BY <2>1, <2>3, <2>4 DEF Timeout
<1> QED BY <1>1, <1>2

\* The oldest closure, when it is of the negotiation under way: it is nowhere else.
LEMMA HeadMoves ==
    ASSUME RuntimeInv, posted # <<>>, state = "OfferPending",
           Head(posted).what # "peer", Head(posted).gen = answerGen
    PROVE  /\ Work(Tail(posted), answerGen) = {} /\ answerGen \notin capsWaits
           /\ \A p \in promises : p.gen # answerGen
           /\ bin.remote \in Offers /\ bin.remote.cid = activeCid
           /\ Head(posted).what = "answer" => Head(posted).value = bin.remote
<1>1. /\ OneStage(answerGen, promises, capsWaits, posted)
      /\ InForce(answerGen, promises, capsWaits, posted, bin.remote, activeCid)
      /\ posted \in Seq(Closures)
  BY DEF RuntimeInv, NegotiationOK, BinTypes
<1>2. /\ \A i \in Work(Tail(posted), answerGen) : i \in Nat /\ i + 1 \in Work(posted, answerGen)
      /\ 1 \in Work(posted, answerGen) /\ Head(posted) = posted[1]
  BY <1>1, WorkOfTail
<1>3. Work(Tail(posted), answerGen) \subseteq {0}
  BY <1>1, <1>2 DEF OneStage
<1>4. 0 \notin Work(Tail(posted), answerGen)
  BY DEF Work
<1> QED BY <1>1, <1>2, <1>3, <1>4 DEF OneStage, InForce

\* A closure handed on within its negotiation, to webrtcbin or to wait for caps, or
\* dropped because it is of another.
LEMMA ClosureStep ==
    ASSUME RuntimeInv, Quiet, posted # <<>>, posted' = Tail(posted), bin' = bin,
           Head(posted).what # "peer",
           \/ promises' = promises /\ capsWaits' = capsWaits
           \/ /\ Head(posted).gen = answerGen
              /\ promises' = promises \cup {Promise("answer", answerGen, None)}
              /\ capsWaits' = capsWaits
           \/ /\ Head(posted).gen = answerGen
              /\ promises' = promises /\ capsWaits' = capsWaits \cup {answerGen}
    PROVE  RuntimeInv'
<1>1. /\ answerGen' = answerGen /\ answerGen \in Nat /\ state' = state /\ activeCid' = activeCid
      /\ posted \in Seq(Closures) /\ PostedOK(posted, answerGen) /\ PromisesOK(promises, answerGen)
      /\ capsWaits \subseteq 1 .. answerGen
  BY BoundsAssumption DEF Quiet, machineVars, RuntimeInv, BinTypes
<1>2. Head(posted) = posted[1] /\ Head(posted) \in Closures /\ 1 \in 1 .. Len(posted)
  BY <1>1, TailIs
<1>3. Head(posted).gen \in 1 .. answerGen
  BY <1>1, <1>2 DEF PostedOK
<1>4. BinTypes'
  <2>1. posted' \in Seq(Closures) /\ PostedOK(posted', answerGen)
    BY <1>1, PostedLess
  <2>2. Head(posted).gen = answerGen => Promise("answer", answerGen, None) \in Promised
    BY <1>1 DEF Promise, Promised
  <2>3. PromisesOK(promises', answerGen)
    BY <1>1, <1>3, <2>2 DEF PromisesOK, Promise
  <2>4. capsWaits' \subseteq 1 .. answerGen
    BY <1>1, <1>3
  <2> QED BY <1>1, <2>1, <2>3, <2>4 DEF RuntimeInv, BinTypes
<1>5. RemotesOK(state, promises, answerGen, activeCid)'
  BY <1>1 DEF RuntimeInv, RemotesOK, Promise
<1>6. NegotiationOK'
  <2> SUFFICES ASSUME state = "OfferPending"
               PROVE  /\ OneStage(answerGen, promises', capsWaits', posted')
                      /\ InForce(answerGen, promises', capsWaits', posted', bin.remote, activeCid)
    BY <1>1 DEF NegotiationOK
  <2>1. CASE promises' = promises /\ capsWaits' = capsWaits
    <3>1. /\ OneStage(answerGen, promises, capsWaits, posted)
          /\ InForce(answerGen, promises, capsWaits, posted, bin.remote, activeCid)
          /\ Waits(posted, posted')
      BY DEF RuntimeInv, NegotiationOK, Waits
    <3>2. promises' \in SUBSET promises /\ capsWaits' \in SUBSET capsWaits
      BY <2>1
    <3> QED BY <1>1, <3>1, <3>2, StageLess
  <2>2. CASE ~(promises' = promises /\ capsWaits' = capsWaits)
    <3>1. /\ Work(posted', answerGen) = {} /\ answerGen \notin capsWaits
          /\ \A p \in promises : p.gen # answerGen
          /\ bin.remote \in Offers /\ bin.remote.cid = activeCid
      BY <2>2, HeadMoves
    <3> QED BY <2>2, <3>1 DEF OneStage, InForce, Promise
  <2> QED BY <2>1, <2>2
<1> QED BY <1>4, <1>5, <1>6, QuietStep

\* An answer that is current is given; what waited is begun.
LEMMA AnswerTurn ==
    ASSUME RuntimeInv, LoopFree, posted # <<>>, posted' = Tail(posted),
           Head(posted).what = "answer", Head(posted).gen = answerGen,
           WebrtcAnswerCreated(Head(posted).value), Dispatch(timers, lastPeer, <<>>),
           capsWaits' = capsWaits
    PROVE  /\ RuntimeInv'
           /\ \A x \in Offers : EmitsIn(out', SetLocal(x)) => x = bin.remote /\ x.cid = activeCid
<1> DEFINE a == Head(posted).value
<1>1. a \in Offers
  <2>1. posted \in Seq(Closures) /\ PostedOK(posted, answerGen)
    BY DEF RuntimeInv, BinTypes
  <2>2. Head(posted) = posted[1] /\ 1 \in 1 .. Len(posted)
    BY <2>1, TailIs
  <2> QED BY <2>1, <2>2 DEF PostedOK
<1>2. SessionInv' /\ out' \in Seq(Effects)
  BY <1>1, AnswerInv DEF RuntimeInv
<1>3. Turn(timers, lastPeer)
  BY <1>2 DEF Turn, RuntimeInv, ClockTypes, Waits, LoopFree
<1>4. timers \in SUBSET Timers /\ timers' = TimersAfter(timers, out')
  BY <1>3 DEF Turn, RuntimeInv, ClockTypes, Dispatch
<1>5. state = "OfferPending" =>
        /\ \A p \in promises : p.phase # "remote"
        /\ "JoinReply" \notin timers
        /\ a = bin.remote /\ a.cid = activeCid
  BY HeadMoves DEF RuntimeInv, RemotesOK, TimersMatchSession
<1> HIDE DEF a
<1>6. WebrtcAnswerCreated(a)
  BY DEF a
<1>7. CASE AnswerThenNext(a)
  <2>1. /\ queuedOffer \in Offers /\ Begins(out', queuedOffer)
        /\ \A x \in Offers : EmitsIn(out', SetLocal(x)) <=> x = a
    BY <1>1, <1>7, NextEffects DEF RuntimeInv
  <2>2. /\ state = "OfferPending" /\ state' = "OfferPending" /\ queuedOffer # None
        /\ queuedOffer.cid = activeCid' /\ queuedOffer' = None
    BY <1>7 DEF AnswerThenNext
  <2>3. answerGen < MaxNegotiations
    BY <2>2 DEF RuntimeInv, QueueFits
  <2>4. "JoinReply" \notin timers'
    BY <1>2, <1>4, <1>5, <2>1, <2>2, TimersAre DEF Begins, Timers
  <2>5. RuntimeInv'
    BY <1>3, <1>5, <2>1, <2>2, <2>3, <2>4, BeginStep
  <2> QED BY <1>5, <2>1, <2>2, <2>5
<1>8. CASE AnswerThenConnect(a)
  <2>1. /\ Leaves(out') /\ ~EmitsIn(out', Arm("JoinReply"))
        /\ \A x \in Offers : EmitsIn(out', SetLocal(x)) <=> x = a
    BY <1>1, <1>8, OtherEffects
  <2>2. state = "OfferPending" /\ state' = "Connecting" /\ queuedOffer' = None
    BY <1>8 DEF AnswerThenConnect
  <2>3. "JoinReply" \notin timers'
    BY <1>2, <1>4, <1>5, <2>1, <2>2, TimersAre DEF Timers
  <2>4. RuntimeInv'
    BY <1>3, <1>5, <2>1, <2>2, <2>3, LeavesStep
  <2> QED BY <1>5, <2>1, <2>2, <2>4
<1>9. CASE Ignored
  BY <1>3, <1>9, IgnoredTurn, OtherEffects
<1> QED BY <1>6, <1>7, <1>8, <1>9 DEF WebrtcAnswerCreated

\* A closure runs.
LEMMA PostedTurn ==
    ASSUME RuntimeInv, RunPosted
    PROVE  RuntimeInv' /\ AnswersTheOffer
<1> DEFINE m == Head(posted)
<1>1. posted # <<>> /\ posted' = Tail(posted) /\ LoopFree
  BY DEF RunPosted
<1>2. RunRemoteApplied(m) \/ RunCapsReady(m) \/ RunAnswer(m) \/ RunPeerState(m)
  BY DEF RunPosted
<1>3. \A x \in Offers : ~EmitsIn(<<>>, SetLocal(x))
  BY DEF EmitsIn
<1>4. CASE RunRemoteApplied(m)
  <2>1. RuntimeInv'
    BY <1>1, <1>4, ClosureStep DEF RunRemoteApplied, CreateAnswerNow
  <2> QED BY <1>3, <1>4, <2>1 DEF RunRemoteApplied, Quiet, AnswersTheOffer
<1>5. CASE RunCapsReady(m)
  <2>1. RuntimeInv'
    BY <1>1, <1>5, ClosureStep DEF RunCapsReady, CreateAnswerNow
  <2> QED BY <1>3, <1>5, <2>1 DEF RunCapsReady, Quiet, AnswersTheOffer
<1>6. CASE RunAnswer(m) /\ m.gen = answerGen
  BY <1>1, <1>6, AnswerTurn DEF RunAnswer, AnswersTheOffer
<1>7. CASE RunAnswer(m) /\ m.gen # answerGen
  <2>1. RuntimeInv'
    BY <1>1, <1>7, ClosureStep DEF RunAnswer
  <2> QED BY <1>3, <1>7, <2>1 DEF RunAnswer, Quiet, AnswersTheOffer
<1>8. CASE RunPeerState(m)
  <2>1. m.value \in PeerStates
    <3>1. posted \in Seq(Closures) /\ PostedOK(posted, answerGen)
      BY DEF RuntimeInv, BinTypes
    <3>2. Head(posted) = posted[1] /\ 1 \in 1 .. Len(posted)
      BY <1>1, <3>1, TailIs
    <3> QED BY <1>8, <3>1, <3>2 DEF PostedOK, RunPeerState
  <2>2. RuntimeInv'
    BY <1>1, <1>8, <2>1, PeerTurn DEF RunPeerState, HandlePeer, Waits, LoopFree
  <2>3. AnswersTheOffer
    BY <1>8, FailEffects, OtherEffects
       DEF RunPeerState, HandlePeer, WebrtcConnectionStateChanged, Torn, AnswersTheOffer, RuntimeInv
  <2> QED BY <2>2, <2>3
<1> QED BY <1>2, <1>4, <1>5, <1>6, <1>7, <1>8

\* One more closure in the main context, of another negotiation or in the only place of this.
LEMMA StageAppend ==
    ASSUME NEW q \in Seq(Closures), NEW m \in Closures, NEW g, NEW P, NEW Q \in SUBSET P,
           NEW C, NEW D \in SUBSET C, OneStage(g, P, C, q),
           \/ m.what = "peer" \/ m.gen # g
           \/ Work(q, g) = {} /\ g \notin D /\ \A p \in Q : p.gen # g
    PROVE  OneStage(g, Q, D, Append(q, m))
<1> DEFINE a == Append(q, m)
<1>1. Longer(a, q, m, g)
  BY WorkOfAppend
<1> HIDE DEF a
<1>2. OneStage(g, Q, D, a)
  BY <1>1 DEF OneStage, Longer
<1> QED BY <1>2 DEF a

\* webrtcbin's own steps, what they leave alone.
LEMMA BinStep ==
    ASSUME RuntimeInv, Quiet, bin' \in Bins, promises' \subseteq promises,
           capsWaits' \subseteq capsWaits,
           NEW m \in Closures, posted' = posted \/ posted' = Append(posted, m),
           m.what # "peer" => m.gen \in 1 .. answerGen,
           m.what = "answer" => m.value \in Offers,
           m.what = "peer" => m.value \in PeerStates,
           NegotiationOK'
    PROVE  RuntimeInv'
<1>1. /\ answerGen' = answerGen /\ answerGen \in Nat /\ state' = state /\ activeCid' = activeCid
      /\ posted \in Seq(Closures) /\ PostedOK(posted, answerGen)
  BY BoundsAssumption DEF Quiet, machineVars, RuntimeInv, BinTypes
<1>2. posted' \in Seq(Closures) /\ PostedOK(posted', answerGen)
  BY <1>1, PostedMore
<1>3. BinTypes'
  BY <1>1, <1>2 DEF RuntimeInv, BinTypes, PromisesOK
<1>4. RemotesOK(state, promises, answerGen, activeCid)'
  BY <1>1 DEF RuntimeInv, RemotesOK
<1> QED BY <1>3, <1>4, QuietStep

\* What a quiet step keeps, and what the negotiation then is.
LEMMA QuietKeeps ==
    ASSUME RuntimeInv, Quiet
    PROVE  /\ answerGen' = answerGen /\ state' = state /\ activeCid' = activeCid
           /\ posted \in Seq(Closures) /\ bin \in Bins /\ answerGen \in Nat
           /\ PromisesOK(promises, answerGen) /\ capsWaits \subseteq 1 .. answerGen
           /\ state = "OfferPending" =>
                /\ OneStage(answerGen, promises, capsWaits, posted)
                /\ InForce(answerGen, promises, capsWaits, posted, bin.remote, activeCid)
  BY BoundsAssumption DEF Quiet, machineVars, RuntimeInv, BinTypes, NegotiationOK

\* The closures webrtcbin posts.
LEMMA PostTypes ==
    /\ \A g \in Nat : /\ Post("remote", g, None) \in Closures
                      /\ Post("caps", g, None) \in Closures
                      /\ \A o \in Offers : Post("answer", g, o) \in Closures
    /\ \A st \in PeerStates : Post("peer", 0, st) \in Closures
    /\ \A w, g, v : Post(w, g, v).what = w /\ Post(w, g, v).gen = g /\ Post(w, g, v).value = v
  BY DEF Post, Closures

\* The offer is applied: it is the one in force.
LEMMA AppliesStep ==
    ASSUME RuntimeInv, NEW p \in promises, BinAppliesRemote(p), Quiet
    PROVE  RuntimeInv'
<1> DEFINE m == Post("remote", p.gen, None)
<1>1. /\ p \in Promised /\ p.gen \in 1 .. answerGen /\ p.offer \in Offers
      /\ state = "OfferPending" /\ p.gen = answerGen /\ p.offer.cid = activeCid
  BY QuietKeeps DEF BinAppliesRemote, PromisesOK, RuntimeInv, RemotesOK
<1>2. /\ m \in Closures /\ m.what = "remote" /\ m.gen = answerGen
  BY <1>1, PostTypes, QuietKeeps
<1>3. /\ bin' = [bin EXCEPT !.remote = p.offer] /\ promises' = promises \ {p}
      /\ capsWaits' = capsWaits /\ posted' = Append(posted, m)
  BY DEF BinAppliesRemote, Posts
<1>4. bin' \in Bins /\ bin'.remote = p.offer
  BY <1>1, <1>3, QuietKeeps DEF Bins
<1> HIDE DEF m
<1>5. /\ Work(posted, answerGen) = {} /\ answerGen \notin capsWaits
      /\ \A r \in promises' : r.gen # answerGen
  BY <1>1, <1>3, QuietKeeps DEF OneStage
<1>6. OneStage(answerGen, promises', capsWaits', posted')
  <2>1. promises' \in SUBSET promises /\ capsWaits' \in SUBSET capsWaits
    BY <1>3
  <2> QED BY <1>1, <1>2, <1>3, <1>5, <2>1, QuietKeeps, StageAppend
<1>7. InForce(answerGen, promises', capsWaits', posted', bin'.remote, activeCid)
  <2>0. Longer(posted', posted, m, answerGen)
    BY <1>2, <1>3, QuietKeeps, WorkOfAppend
  <2>1. \A i \in Work(posted', answerGen) : posted'[i] = m
    BY <1>5, <2>0 DEF Longer
  <2>2. \A i \in Work(posted', answerGen) : posted'[i].what # "answer"
    BY <1>2, <2>1
  <2> QED BY <1>1, <1>4, <2>2 DEF InForce
<1>8. NegotiationOK'
  BY <1>6, <1>7, QuietKeeps DEF NegotiationOK
<1> QED BY <1>1, <1>2, <1>3, <1>4, <1>8, BinStep

\* The answer is written for the offer in force.
LEMMA AnswersStep ==
    ASSUME RuntimeInv, NEW p \in promises, BinAnswers(p), Quiet
    PROVE  RuntimeInv'
<1> DEFINE m == Post("answer", p.gen, bin.remote)
<1>1. p \in Promised /\ p.gen \in 1 .. answerGen /\ p.gen \in Nat /\ p.phase = "answer"
  BY QuietKeeps DEF BinAnswers, PromisesOK
<1>2. bin.remote \in Offers
  BY QuietKeeps DEF BinAnswers, Bins
<1>3. m \in Closures /\ m.what = "answer" /\ m.gen = p.gen /\ m.value = bin.remote
  BY <1>1, <1>2, PostTypes
<1>4. /\ bin' = bin /\ promises' = promises \ {p}
      /\ capsWaits' = capsWaits /\ posted' = Append(posted, m)
  BY DEF BinAnswers, Posts
<1> HIDE DEF m
<1>5. NegotiationOK'
  <2> SUFFICES ASSUME state = "OfferPending"
               PROVE  /\ OneStage(answerGen, promises', capsWaits', posted')
                      /\ InForce(answerGen, promises', capsWaits', posted', bin.remote, activeCid)
    BY <1>4, QuietKeeps DEF NegotiationOK
  <2>1. promises' \in SUBSET promises /\ capsWaits' \in SUBSET capsWaits
    BY <1>4
  <2>2. p.gen = answerGen => /\ Work(posted, answerGen) = {} /\ answerGen \notin capsWaits'
                             /\ \A r \in promises' : r.gen # answerGen
    BY <1>1, <1>4, QuietKeeps DEF OneStage
  <2>3. OneStage(answerGen, promises', capsWaits', posted')
    BY <1>3, <1>4, <2>1, <2>2, QuietKeeps, StageAppend
  <2>4. Longer(posted', posted, m, answerGen)
    BY <1>3, <1>4, QuietKeeps, WorkOfAppend
  <2>5. InForce(answerGen, promises', capsWaits', posted', bin.remote, activeCid)
    <3>1. InForce(answerGen, promises, capsWaits, posted, bin.remote, activeCid)
      BY QuietKeeps
    <3> QED BY <1>1, <1>3, <1>4, <2>1, <2>4, <3>1 DEF InForce, Longer
  <2> QED BY <2>3, <2>5
<1> QED BY <1>1, <1>2, <1>3, <1>4, <1>5, QuietKeeps, BinStep

\* The senders' caps are there.
LEMMA CapsStep ==
    ASSUME RuntimeInv, NEW g \in capsWaits, CapsReady(g), Quiet
    PROVE  RuntimeInv'
<1> DEFINE m == Post("caps", g, None)
<1>1. g \in 1 .. answerGen /\ g \in Nat
  BY QuietKeeps
<1>2. m \in Closures /\ m.what = "caps" /\ m.gen = g
  BY <1>1, PostTypes
<1>3. /\ bin' = bin /\ promises' = promises
      /\ capsWaits' = capsWaits \ {g} /\ posted' = Append(posted, m)
  BY DEF CapsReady, Posts
<1> HIDE DEF m
<1>4. NegotiationOK'
  <2> SUFFICES ASSUME state = "OfferPending"
               PROVE  /\ OneStage(answerGen, promises', capsWaits', posted')
                      /\ InForce(answerGen, promises', capsWaits', posted', bin.remote, activeCid)
    BY <1>3, QuietKeeps DEF NegotiationOK
  <2>1. promises' \in SUBSET promises /\ capsWaits' \in SUBSET capsWaits
    BY <1>3
  <2>2. g = answerGen => /\ Work(posted, answerGen) = {} /\ answerGen \notin capsWaits'
                         /\ \A r \in promises' : r.gen # answerGen
    BY <1>1, <1>3, QuietKeeps DEF OneStage
  <2>3. OneStage(answerGen, promises', capsWaits', posted')
    BY <1>2, <1>3, <2>1, <2>2, QuietKeeps, StageAppend
  <2>4. Longer(posted', posted, m, answerGen)
    BY <1>2, <1>3, QuietKeeps, WorkOfAppend
  <2>5. InForce(answerGen, promises', capsWaits', posted', bin.remote, activeCid)
    <3>1. InForce(answerGen, promises, capsWaits, posted, bin.remote, activeCid)
      BY QuietKeeps
    <3>2. \A i \in Work(posted', answerGen) :
             posted'[i].what = "answer" => i \in Work(posted, answerGen) /\ posted'[i] = posted[i]
      BY <1>2, <2>4 DEF Longer
    <3>3. Work(posted', answerGen) # {} => Work(posted, answerGen) # {} \/ answerGen \in capsWaits
      BY <1>2, <2>4 DEF Longer
    <3> QED BY <1>3, <3>1, <3>2, <3>3 DEF InForce
  <2> QED BY <2>3, <2>5
<1> QED BY <1>1, <1>2, <1>3, <1>4, QuietKeeps, BinStep

\* webrtcbin reports its state.
LEMMA ReportStep ==
    ASSUME RuntimeInv, NEW st \in PeerStates, BinPeer(st), Quiet
    PROVE  RuntimeInv'
<1> DEFINE m == Post("peer", 0, st)
<1>1. m \in Closures /\ m.what = "peer" /\ m.value = st
  BY PostTypes
<1>2. /\ bin' = [bin EXCEPT !.peer = st] /\ promises' = promises
      /\ capsWaits' = capsWaits /\ posted' = Append(posted, m)
  BY DEF BinPeer, Posts
<1>3. bin' \in Bins /\ bin'.remote = bin.remote
  BY <1>2, QuietKeeps DEF Bins
<1> HIDE DEF m
<1>4. NegotiationOK'
  <2> SUFFICES ASSUME state = "OfferPending"
               PROVE  /\ OneStage(answerGen, promises', capsWaits', posted')
                      /\ InForce(answerGen, promises', capsWaits', posted', bin.remote, activeCid)
    BY <1>3, QuietKeeps DEF NegotiationOK
  <2>1. promises' \in SUBSET promises /\ capsWaits' \in SUBSET capsWaits
    BY <1>2
  <2>2. OneStage(answerGen, promises', capsWaits', posted')
    BY <1>1, <1>2, <2>1, QuietKeeps, StageAppend
  <2>0. Longer(posted', posted, m, answerGen)
    BY <1>1, <1>2, QuietKeeps, WorkOfAppend
  <2>3. \A i \in Work(posted', answerGen) : i \in Work(posted, answerGen) /\ posted'[i] = posted[i]
    BY <1>1, <2>0 DEF Longer
  <2>4. InForce(answerGen, promises', capsWaits', posted', bin.remote, activeCid)
    BY <1>2, <2>3, QuietKeeps DEF InForce
  <2> QED BY <2>2, <2>4
<1> QED BY <1>1, <1>2, <1>3, <1>4, BinStep

\* webrtcbin refuses, and says nothing.
LEMMA RefusesStep ==
    ASSUME RuntimeInv, NEW p \in promises, BinRefuses(p), Quiet
    PROVE  RuntimeInv'
<1>1. bin' = bin /\ promises' = promises \ {p} /\ capsWaits' = capsWaits /\ posted' = posted
  BY DEF BinRefuses
<1>2. NegotiationOK'
  BY <1>1, QuietKeeps DEF NegotiationOK, OneStage, InForce
<1>3. Post("peer", 0, "Closed") \in Closures /\ Post("peer", 0, "Closed").what = "peer"
      /\ Post("peer", 0, "Closed").value \in PeerStates
  BY PostTypes DEF PeerStates
<1> QED BY <1>1, <1>2, <1>3, QuietKeeps, BinStep

\* The start.
LEMMA RuntimeInitInv == RuntimeInit => RuntimeInv
<1> SUFFICES ASSUME RuntimeInit PROVE RuntimeInv
  OBVIOUS
<1>1. SessionInv /\ out \in Seq(Effects)
  BY InitInv DEF RuntimeInit
<1>2. ClockTypes
  BY DEF RuntimeInit, ClockTypes
<1>3. BinTypes
  BY BoundsAssumption, NewBins DEF RuntimeInit, BinTypes, PromisesOK, PostedOK
<1>4. state = "Idle" /\ queuedOffer = None /\ promises = {}
  BY DEF RuntimeInit, SessionInit
<1>5. RemotesOK(state, promises, answerGen, activeCid) /\ NegotiationOK /\ QueueFits
  BY <1>4 DEF RemotesOK, NegotiationOK, QueueFits
<1>6. TimersMatchSession /\ WatchOK
  BY <1>4 DEF RuntimeInit, TimersMatchSession, WatchOK, UnconnectedIsWatched
<1> QED BY <1>1, <1>2, <1>3, <1>5, <1>6 DEF RuntimeInv

\* Every step keeps all of it, and gives no answer but the current one.
LEMMA RuntimeStep ==
    ASSUME RuntimeInv, RuntimeNext
    PROVE  RuntimeInv' /\ AnswersTheOffer
<1>1. out' = <<>> => AnswersTheOffer
  BY DEF AnswersTheOffer, EmitsIn
<1>2. ASSUME NEW c \in Rooms, Join(c) PROVE RuntimeInv' /\ AnswersTheOffer
  <2>1. AnswersTheOffer
    BY <1>2, SwitchEffects, OtherEffects DEF Join, Step, JoinRequested, Torn, AnswersTheOffer
  <2> QED BY <1>2, <2>1, JoinTurn
<1>3. ASSUME NEW c \in Rooms, LeaveRoom(c) PROVE RuntimeInv' /\ AnswersTheOffer
  <2>1. AnswersTheOffer
    BY <1>3, LeaveEffects, OtherEffects DEF LeaveRoom, Step, LeaveRequested, Torn, AnswersTheOffer
  <2> QED BY <1>3, <2>1, LeaveTurn
<1>4. ASSUME NEW o \in Offers, Offer(o) PROVE RuntimeInv' /\ AnswersTheOffer
  <2>1. SdpOfferReceived(o)
    BY <1>4 DEF Offer, Step
  <2>2. ASSUME OfferOnJoin(o) PROVE AnswersTheOffer
    BY <2>2, OfferEffects DEF AnswersTheOffer, RuntimeInv
  <2>3. ASSUME OfferRenegotiate(o) PROVE AnswersTheOffer
    BY <2>3, NegotiateEffects DEF AnswersTheOffer, OfferRenegotiate
  <2>4. ASSUME OfferQueue(o) \/ Ignored PROVE AnswersTheOffer
    BY <2>4, OtherEffects DEF AnswersTheOffer
  <2>5. AnswersTheOffer
    BY <2>1, <2>2, <2>3, <2>4 DEF SdpOfferReceived
  <2> QED BY <1>4, <2>5, OfferTurn
<1>5. ASSUME NEW op \in {"JOIN", "ANSWER"}, Refusal(op) PROVE RuntimeInv' /\ AnswersTheOffer
  <2>1. Fail
    BY <1>5 DEF Refusal, Step, ServerTaskError
  <2>2. AnswersTheOffer
    BY <2>1, FailEffects DEF Torn, AnswersTheOffer, RuntimeInv
  <2> QED BY <1>5, <2>2, RefusalTurn
<1>6. ASSUME NEW t, Timeout(t) PROVE AnswersTheOffer
  BY <1>6, FailEffects, OtherEffects DEF Timeout, Torn, AnswersTheOffer, RuntimeInv
<1>7. ASSUME NEW k \in Timers, TimerFires(k) PROVE RuntimeInv' /\ AnswersTheOffer
  BY <1>6, <1>7, TimerTurn DEF TimerFires
<1>8. CASE WedgeTick
  BY <1>1, <1>6, <1>8, WedgeTurn DEF WedgeTick
<1>9. CASE RunPosted
  BY <1>9, PostedTurn
<1>10. CASE DispatchPending
  <2>1. pending = <<"Connected">> /\ state = "Connecting"
    BY <1>10 DEF DispatchPending, RuntimeInv, ClockTypes, WatchOK
  <2>2. Head(pending) = "Connected" /\ Tail(pending) = <<>>
    BY <2>1
  <2>3. /\ WebrtcConnectionStateChanged("Connected") /\ Dispatch(timers, "Connected", <<>>)
        /\ capsWaits' = capsWaits /\ posted' = posted
    BY <1>10, <2>2 DEF DispatchPending, HandlePeer
  <2>4. RuntimeInv'
    BY <2>1, <2>3, PeerTurn DEF Waits, PeerStates
  <2>5. AnswersTheOffer
    BY <2>3, FailEffects, OtherEffects
       DEF WebrtcConnectionStateChanged, Torn, AnswersTheOffer, RuntimeInv
  <2> QED BY <2>4, <2>5
<1>11. CASE BinNext
  <2>1. out' = <<>>
    BY <1>11 DEF BinNext, BinRtp, Quiet
  <2>2. ASSUME BinRtp PROVE RuntimeInv'
    BY <2>2, RtpStep DEF BinRtp
  <2>3. ASSUME Quiet, \E p \in promises : BinAppliesRemote(p) \/ BinAnswers(p) \/ BinRefuses(p)
        PROVE  RuntimeInv'
    BY <2>3, AppliesStep, AnswersStep, RefusesStep
  <2>4. ASSUME Quiet, \E g \in capsWaits : CapsReady(g) PROVE RuntimeInv'
    BY <2>4, CapsStep
  <2>5. ASSUME Quiet, \E st \in PeerStates : BinPeer(st) PROVE RuntimeInv'
    BY <2>5, ReportStep
  <2>6. RuntimeInv'
    BY <1>11, <2>2, <2>3, <2>4, <2>5 DEF BinNext
  <2> QED BY <1>1, <2>1, <2>6
<1> QED BY <1>2, <1>3, <1>4, <1>5, <1>7, <1>8, <1>9, <1>10, <1>11 DEF RuntimeNext, LoopNext

\* A step that changes nothing.
LEMMA RuntimeStutter == ASSUME RuntimeInv, UNCHANGED runtimeVars PROVE RuntimeInv'
<1>1. /\ UNCHANGED <<machineVars, out, timers, wedge, rtp, lastPeer, beenConnected>>
      /\ UNCHANGED <<answerGen, pending, bin, promises, capsWaits, posted>>
      /\ state' = state /\ queuedOffer' = queuedOffer /\ activeCid' = activeCid
  BY DEF runtimeVars, sessionVars, clockVars, binVars, machineVars
<1>2. SessionInv' /\ out' \in Seq(Effects)
  BY <1>1, UnchangedInv DEF RuntimeInv
<1>3. ClockTypes' /\ QueueFits' /\ TimersMatchSession' /\ WatchOK'
  BY <1>1 DEF RuntimeInv, ClockTypes, QueueFits, TimersMatchSession, WatchOK,
              UnconnectedIsWatched, InRoom, LoopFree
<1>4. BinTypes' /\ NegotiationOK' /\ RemotesOK(state, promises, answerGen, activeCid)'
  BY <1>1 DEF RuntimeInv, BinTypes, NegotiationOK, RemotesOK
<1> QED BY <1>2, <1>3, <1>4 DEF RuntimeInv

\* All of it holds in every reachable state.
LEMMA RuntimeInvariant == RuntimeSpec => []RuntimeInv
<1>1. RuntimeInv /\ [RuntimeNext]_runtimeVars => RuntimeInv'
  BY RuntimeStep, RuntimeStutter
<1> QED BY <1>1, RuntimeInitInv, PTL DEF RuntimeSpec

\* The runtime keeps step with the machine, whatever webrtcbin is late with: one
\* negotiation at a time, the timers and the watchdog of the session there is and no
\* others, and everything of its type.
THEOREM RuntimeIsInStep == RuntimeSpec => []RuntimeInStep
<1>1. ASSUME RuntimeInv PROVE RuntimeInStep
  <2>1. RuntimeTypeOK
    <3>1. /\ SessionTypeOK /\ timers \subseteq Timers
          /\ {wedge, rtp, beenConnected} \subseteq BOOLEAN
          /\ lastPeer \in PeerStates \cup {None}
      BY <1>1 DEF RuntimeInv, SessionInv, SessionTypeOK, ClockTypes
    <3>2. pending \in Seq(PeerStates)
      <4>1. <<>> \in Seq(PeerStates) /\ <<"Connected">> \in Seq(PeerStates)
        BY DEF PeerStates
      <4> QED BY <1>1, <4>1 DEF RuntimeInv, ClockTypes
    <3>3. /\ answerGen \in 0 .. MaxNegotiations
          /\ bin \in [up : BOOLEAN, remote : Offers \cup {None}, local : BOOLEAN, peer : PeerStates]
          /\ \A p \in promises : p.phase \in {"remote", "answer"} /\ p.gen \in 1 .. answerGen
          /\ capsWaits \subseteq 1 .. answerGen
      BY <1>1 DEF RuntimeInv, BinTypes, Bins, PromisesOK, Promised
    <3> QED BY <3>1, <3>2, <3>3 DEF RuntimeTypeOK
  <2>2. NegotiationsSerialised
    BY <1>1 DEF RuntimeInv, RemotesOK, NegotiationOK, OneStage, NegotiationsSerialised
  <2> QED BY <1>1, <2>1, <2>2 DEF RuntimeInStep, RuntimeInv, WatchOK
<1> QED BY <1>1, RuntimeInvariant, PTL

\* Every answer sent answers the offer webrtcbin holds, an offer of the room joined.
THEOREM AnswersAreAlwaysCurrent == RuntimeSpec => AnswersAreCurrent
<1>1. RuntimeInv /\ [RuntimeNext]_runtimeVars => [AnswersTheOffer]_runtimeVars
  BY RuntimeStep
<1> QED BY <1>1, RuntimeInvariant, PTL DEF RuntimeSpec, AnswersAreCurrent

-----------------------------------------------------------------------------
(* Receive legs.                                                            *)

Pads == [pipe : Nat, name : Nat, ssrc : Ssrcs]
Legs == [pad : Pads, mid : Sections, late : BOOLEAN]
Adding == [op : {"added"}, pad : Pads, mid : Sections, built : BOOLEAN]
Removing == [op : {"removed"}, name : Nat]
Calls == Adding \cup Removing \cup [op : {"frames"}] \cup [op : {"answer"}, pipe : Nat]
         \cup [op : {"offer"}, room : LegRooms \cup {NoRoom}, body : LegOffers]
Held == [pad : Pads, gen : Nat]
Releases == [pad : Pads, mid : Sections, gen : Nat]

LegTypes ==
    /\ voice \in {"Idle", "JoinSent", "OfferPending", "Connected"}
    /\ inRoom \in LegRooms \cup {NoRoom}
    /\ heldOffer \in LegOffers \cup {NoOffer}
    /\ pipe \in [at : Nat, open : BOOLEAN, going : BOOLEAN]
    /\ exposed \subseteq Pads /\ padCount \in Nat
    /\ bins \subseteq Legs
    /\ DOMAIN receiveBins \subseteq Nat /\ receiveBins \in [DOMAIN receiveBins -> Legs]
    /\ ssrcMids \in [mids : SUBSET Ssrcs, held : SUBSET Held, gen : Nat, inactive : SUBSET Sections]
    /\ calls \in Seq(Calls)
    /\ releases \subseteq Releases
    /\ store \in [Pictures -> {"none", "fresh", "taken"}] /\ pictures \subseteq Pictures

\* The pads in the calls that tell of a new one.
AddsIn(q) == {i \in 1 .. Len(q) : q[i].op = "added"}
PadsIn(q) == {q[i].pad : i \in AddsIn(q)}

\* The pads something still speaks of.
InPlay ==
    exposed \cup {b.pad : b \in bins} \cup PadsIn(calls)
        \cup {h.pad : h \in ssrcMids.held} \cup {r.pad : r \in releases}

\* A pipeline has pads while the session hears it, and on its way down.
PhaseOK ==
    /\ ~pipe.going => (HearsLegs <=> pipe.open)
    /\ pipe.going => /\ ~HearsLegs /\ DOMAIN receiveBins = {} /\ pictures = {}
                     /\ ssrcMids.mids = {} /\ ssrcMids.held = {}
    /\ ~pipe.open => /\ bins = {} /\ DOMAIN receiveBins = {} /\ pictures = {}
                     /\ \A m \in Pictures : store[m] = "none"
                     /\ \A p \in InPlay : p.pipe # pipe.at

\* A name is one pad's in its pipeline.
NamesOK ==
    /\ \A p \in InPlay : p.pipe <= pipe.at /\ (p.pipe = pipe.at => p.name <= padCount)
    /\ \A p, q \in InPlay : p.pipe = pipe.at /\ q.pipe = pipe.at /\ p.name = q.name => p = q

\* What is held or let go is of this session, but for releases that come late.
GenOK ==
    /\ \A h \in ssrcMids.held : h.gen = ssrcMids.gen /\ h.pad.pipe = pipe.at
    /\ \A r \in releases :
          /\ r.gen <= ssrcMids.gen /\ r.mid = Section[r.pad.ssrc]
          /\ r.gen = ssrcMids.gen =>
                /\ r.pad.pipe = pipe.at /\ ~pipe.going
                /\ \A h \in ssrcMids.held : h.pad # r.pad

\* The pads whose route waits: held, or let go.
Waiting ==
    {h.pad : h \in ssrcMids.held} \cup {r.pad : r \in {x \in releases : x.gen = ssrcMids.gen}}

\* A pad is routed once.
RouteOK ==
    /\ \A p \in Waiting :
          /\ p.name \notin DOMAIN receiveBins /\ p \notin PadsIn(calls)
          /\ \A b \in bins : b.pad # p
    /\ \A i \in AddsIn(calls) :
          calls[i].pad.pipe = pipe.at =>
             /\ calls[i].pad.name \notin DOMAIN receiveBins
             /\ \A j \in AddsIn(calls) : calls[j].pad = calls[i].pad => i = j
             /\ calls[i].built \/ \A b \in bins : b.pad # calls[i].pad

\* A leg is listed under its pad's name, or will be.
BinsOK ==
    /\ \A b \in bins : b.pad.pipe = pipe.at
    /\ \A n \in DOMAIN receiveBins : receiveBins[n] \in bins /\ receiveBins[n].pad.name = n
    /\ ~pipe.going =>
          \A b \in bins :
             \/ \E n \in DOMAIN receiveBins : receiveBins[n] = b
             \/ ~b.late /\ \E i \in AddsIn(calls) : calls[i].pad = b.pad /\ calls[i].mid = b.mid

\* What webrtcbin took back is told after it was told of.
OrderOK ==
    \A i \in AddsIn(calls) :
        calls[i].pad.pipe = pipe.at /\ calls[i].pad \notin exposed =>
            \E j \in i + 1 .. Len(calls) : calls[j] = Removed(calls[i].pad)

\* What is of an earlier pipeline runs before the offer that opens this one.
StaleOK ==
    /\ HearsLegs => \A i \in AddsIn(calls) : calls[i].pad.pipe = pipe.at
    /\ voice = "JoinSent" =>
          \A i \in 1 .. Len(calls) :
             calls[i].op = "offer" /\ calls[i].room = inRoom =>
                ~pipe.going /\ \A j \in AddsIn(calls) : j < i

LegsInv ==
    /\ LegTypes /\ PhaseOK /\ NamesOK /\ GenOK /\ RouteOK /\ BinsOK /\ OrderOK /\ StaleOK
    /\ EndedLegsGo /\ PicturesAreLive /\ StoppedIsNotRevived

-----------------------------------------------------------------------------

\* What a call put at the end leaves as it was.
LEMMA CallPut ==
    ASSUME NEW q \in Seq(Calls), NEW c \in Calls
    PROVE  /\ Append(q, c) \in Seq(Calls) /\ Len(q) \in Nat /\ Len(Append(q, c)) = Len(q) + 1
           /\ \A i \in 1 .. Len(q) : Append(q, c)[i] = q[i]
           /\ Append(q, c)[Len(q) + 1] = c
  OBVIOUS

\* What taking the first call leaves as it was.
LEMMA CallTaken ==
    ASSUME NEW q \in Seq(Calls), q # <<>>
    PROVE  /\ Tail(q) \in Seq(Calls) /\ Len(q) \in Nat /\ Len(q) >= 1 /\ Len(Tail(q)) = Len(q) - 1
           /\ Head(q) = q[1] /\ Head(q) \in Calls
           /\ \A i \in 1 .. Len(Tail(q)) : i + 1 \in 1 .. Len(q) /\ Tail(q)[i] = q[i + 1]
           /\ \A i \in 1 .. Len(q) : i # 1 => i - 1 \in 1 .. Len(Tail(q)) /\ Tail(q)[i - 1] = q[i]
  OBVIOUS

\* A pad that is taken back keeps the receive legs in order.
LEMMA PadRemovedLegs ==
    ASSUME LegsInv, NEW pad \in exposed, PadRemoved(pad)
    PROVE  LegsInv'
<1>0. pad \in Pads /\ Removed(pad) \in Calls /\ Removed(pad).op = "removed"
  BY DEF LegsInv, LegTypes, Pads, Removed, Calls, Removing
<1>q. /\ calls' \in Seq(Calls) /\ Len(calls) \in Nat /\ Len(calls') = Len(calls) + 1
      /\ \A i \in 1 .. Len(calls) : calls'[i] = calls[i]
      /\ calls'[Len(calls) + 1] = Removed(pad)
  BY <1>0, CallPut DEF PadRemoved, LegsInv, LegTypes
<1>a. AddsIn(calls') = AddsIn(calls)
  BY <1>0, <1>q DEF AddsIn
<1>p. PadsIn(calls') = PadsIn(calls)
  BY <1>a, <1>q DEF PadsIn, AddsIn
<1>i. InPlay' \subseteq InPlay
  BY <1>p DEF InPlay, PadRemoved
<1>w. Waiting' = Waiting
  BY DEF Waiting, PadRemoved
<1>1. LegTypes'
  BY <1>q DEF LegsInv, LegTypes, PadRemoved, legMachine, mediaVars
<1>2. PhaseOK'
  BY <1>i DEF LegsInv, PhaseOK, HearsLegs, PadRemoved, legMachine, mediaVars
<1>3. NamesOK'
  BY <1>i DEF LegsInv, NamesOK, PadRemoved
<1>4. GenOK'
  BY DEF LegsInv, GenOK, PadRemoved
<1>5. RouteOK'
  BY <1>a, <1>q, <1>p, <1>w DEF LegsInv, RouteOK, PadRemoved, AddsIn
<1>6. BinsOK'
  BY <1>a, <1>q DEF LegsInv, BinsOK, PadRemoved, AddsIn
<1>7. OrderOK'
  BY <1>a, <1>q, <1>0 DEF LegsInv, OrderOK, PadRemoved, AddsIn
<1>8. StaleOK'
  BY <1>a, <1>q, <1>0 DEF LegsInv, StaleOK, HearsLegs, PadRemoved, AddsIn, legMachine
<1>9. EndedLegsGo' /\ PicturesAreLive' /\ StoppedIsNotRevived'
  BY <1>q DEF LegsInv, EndedLegsGo, PicturesAreLive, StoppedIsNotRevived, PadRemoved, legMachine, mediaVars
<1> QED BY <1>1, <1>2, <1>3, <1>4, <1>5, <1>6, <1>7, <1>8, <1>9 DEF LegsInv

\* An answer that is made keeps them in order.
LEMMA AnswerMadeLegs ==
    ASSUME LegsInv, AnswerMade
    PROVE  LegsInv'
<1>0. [op |-> "answer", pipe |-> pipe.at] \in Calls /\ TRUE
  BY DEF LegsInv, LegTypes, Calls, AnswerMade
<1>q. /\ calls' \in Seq(Calls) /\ Len(calls) \in Nat /\ Len(calls') = Len(calls) + 1
      /\ \A i \in 1 .. Len(calls) : calls'[i] = calls[i]
      /\ calls'[Len(calls) + 1] = [op |-> "answer", pipe |-> pipe.at]
  BY <1>0, CallPut DEF AnswerMade, LegsInv, LegTypes
<1>a. AddsIn(calls') = AddsIn(calls)
  BY <1>0, <1>q DEF AddsIn
<1>p. PadsIn(calls') = PadsIn(calls)
  BY <1>a, <1>q DEF PadsIn, AddsIn
<1>i. InPlay' \subseteq InPlay
  BY <1>p DEF InPlay, AnswerMade
<1>w. Waiting' = Waiting
  BY DEF Waiting, AnswerMade
<1>1. LegTypes'
  BY <1>q DEF LegsInv, LegTypes, AnswerMade, legMachine, mediaVars
<1>2. PhaseOK'
  BY <1>i DEF LegsInv, PhaseOK, HearsLegs, AnswerMade, legMachine, mediaVars
<1>3. NamesOK'
  BY <1>i DEF LegsInv, NamesOK, AnswerMade
<1>4. GenOK'
  BY DEF LegsInv, GenOK, AnswerMade
<1>5. RouteOK'
  BY <1>a, <1>q, <1>p, <1>w DEF LegsInv, RouteOK, AnswerMade, AddsIn
<1>6. BinsOK'
  BY <1>a, <1>q DEF LegsInv, BinsOK, AnswerMade, AddsIn
<1>7. OrderOK'
  BY <1>a, <1>q, <1>0 DEF LegsInv, OrderOK, AnswerMade, AddsIn
<1>8. StaleOK'
  BY <1>a, <1>q, <1>0 DEF LegsInv, PhaseOK, StaleOK, HearsLegs, AnswerMade, AddsIn, legMachine
<1>9. EndedLegsGo' /\ PicturesAreLive' /\ StoppedIsNotRevived'
  BY <1>q DEF LegsInv, EndedLegsGo, PicturesAreLive, StoppedIsNotRevived, AnswerMade, legMachine, mediaVars
<1> QED BY <1>1, <1>2, <1>3, <1>4, <1>5, <1>6, <1>7, <1>8, <1>9 DEF LegsInv


\* An offer that is sent does: it comes after what an earlier pipeline told.
LEMMA SendOfferLegs ==
    ASSUME LegsInv, NEW o \in LegOffers, SendOffer(o)
    PROVE  LegsInv'
<1>0. [op |-> "offer", room |-> inRoom, body |-> o] \in Calls /\ TRUE
  BY DEF LegsInv, LegTypes, Calls, SendOffer
<1>q. /\ calls' \in Seq(Calls) /\ Len(calls) \in Nat /\ Len(calls') = Len(calls) + 1
      /\ \A i \in 1 .. Len(calls) : calls'[i] = calls[i]
      /\ calls'[Len(calls) + 1] = [op |-> "offer", room |-> inRoom, body |-> o]
  BY <1>0, CallPut DEF SendOffer, LegsInv, LegTypes
<1>a. AddsIn(calls') = AddsIn(calls)
  BY <1>0, <1>q DEF AddsIn
<1>p. PadsIn(calls') = PadsIn(calls)
  BY <1>a, <1>q DEF PadsIn, AddsIn
<1>i. InPlay' \subseteq InPlay
  BY <1>p DEF InPlay, SendOffer
<1>w. Waiting' = Waiting
  BY DEF Waiting, SendOffer
<1>1. LegTypes'
  BY <1>q DEF LegsInv, LegTypes, SendOffer, legMachine, mediaVars
<1>2. PhaseOK'
  BY <1>i DEF LegsInv, PhaseOK, HearsLegs, SendOffer, legMachine, mediaVars
<1>3. NamesOK'
  BY <1>i DEF LegsInv, NamesOK, SendOffer
<1>4. GenOK'
  BY DEF LegsInv, GenOK, SendOffer
<1>5. RouteOK'
  BY <1>a, <1>q, <1>p, <1>w DEF LegsInv, RouteOK, SendOffer, AddsIn
<1>6. BinsOK'
  BY <1>a, <1>q DEF LegsInv, BinsOK, SendOffer, AddsIn
<1>7. OrderOK'
  BY <1>a, <1>q, <1>0 DEF LegsInv, OrderOK, SendOffer, AddsIn
<1>8. StaleOK'
  BY <1>a, <1>q, <1>0 DEF LegsInv, PhaseOK, StaleOK, HearsLegs, SendOffer, AddsIn, legMachine
<1>9. EndedLegsGo' /\ PicturesAreLive' /\ StoppedIsNotRevived'
  BY <1>q DEF LegsInv, EndedLegsGo, PicturesAreLive, StoppedIsNotRevived, SendOffer, legMachine, mediaVars
<1> QED BY <1>1, <1>2, <1>3, <1>4, <1>5, <1>6, <1>7, <1>8, <1>9 DEF LegsInv


\* A frame does: its leg plays.
LEMMA FrameLegs ==
    ASSUME LegsInv, NEW b \in bins, Frame(b)
    PROVE  LegsInv'
<1>q. /\ calls' \in Seq(Calls) /\ Len(calls) \in Nat /\ Len(calls') \in Nat /\ Len(calls) <= Len(calls')
      /\ \A i \in 1 .. Len(calls) : calls'[i] = calls[i]
      /\ \A i \in 1 .. Len(calls') : i \notin 1 .. Len(calls) => calls'[i] = [op |-> "frames"]
  <2>1. [op |-> "frames"] \in Calls
    BY DEF Calls
  <2>2. CASE noticed
    BY <2>2 DEF Frame, LegsInv, LegTypes
  <2>3. CASE ~noticed
    BY <2>1, <2>3, CallPut DEF Frame, LegsInv, LegTypes
  <2> QED BY <2>2, <2>3
<1>a. AddsIn(calls') = AddsIn(calls)
  BY <1>q DEF AddsIn
<1>p. PadsIn(calls') = PadsIn(calls)
  BY <1>a, <1>q DEF PadsIn, AddsIn
<1>i. InPlay' \subseteq InPlay
  BY <1>p DEF InPlay, Frame
<1>w. Waiting' = Waiting
  BY DEF Waiting, Frame
<1>1. LegTypes'
  BY <1>q DEF LegsInv, LegTypes, Frame, legMachine
<1>2. PhaseOK'
  BY <1>i DEF LegsInv, PhaseOK, HearsLegs, Frame, legMachine
<1>3. NamesOK'
  BY <1>i DEF LegsInv, NamesOK, Frame
<1>4. GenOK'
  BY DEF LegsInv, GenOK, Frame
<1>5. RouteOK'
  BY <1>a, <1>q, <1>p, <1>w DEF LegsInv, RouteOK, Frame, AddsIn
<1>6. BinsOK'
  BY <1>a, <1>q DEF LegsInv, BinsOK, Frame, AddsIn
<1>7. OrderOK'
  BY <1>a, <1>q DEF LegsInv, OrderOK, Frame, AddsIn
<1>8. StaleOK'
  BY <1>a, <1>q DEF LegsInv, StaleOK, HearsLegs, Frame, AddsIn, legMachine
<1>9. EndedLegsGo' /\ PicturesAreLive' /\ StoppedIsNotRevived'
  <2>1. \A m \in Pictures : m # b.mid => store'[m] = store[m]
    BY DEF Frame, LegsInv, LegTypes
  <2>2. PicturesAreLive'
    BY <2>1 DEF LegsInv, PicturesAreLive, Frame
  <2> QED BY <1>q, <2>2 DEF LegsInv, EndedLegsGo, StoppedIsNotRevived, Frame, legMachine
<1> QED BY <1>1, <1>2, <1>3, <1>4, <1>5, <1>6, <1>7, <1>8, <1>9 DEF LegsInv

\* A click on Join does: no offer of the room waits.
LEMMA JoinLegsLegs ==
    ASSUME LegsInv, NEW r \in LegRooms, JoinLegs(r)
    PROVE  LegsInv'
<1>i. InPlay' = InPlay /\ Waiting' = Waiting
  BY DEF InPlay, Waiting, JoinLegs
<1>1. LegTypes'
  BY DEF LegsInv, LegTypes, JoinLegs, mediaVars
<1>2. PhaseOK'
  BY <1>i DEF LegsInv, PhaseOK, HearsLegs, JoinLegs, mediaVars
<1>3. NamesOK' /\ GenOK'
  BY <1>i DEF LegsInv, NamesOK, GenOK, JoinLegs
<1>4. RouteOK' /\ BinsOK' /\ OrderOK'
  BY <1>i DEF LegsInv, RouteOK, BinsOK, OrderOK, JoinLegs
<1>5. StaleOK'
  BY DEF LegsInv, StaleOK, HearsLegs, JoinLegs, NoOfferOf
<1>6. EndedLegsGo' /\ PicturesAreLive' /\ StoppedIsNotRevived'
  BY DEF LegsInv, EndedLegsGo, PicturesAreLive, StoppedIsNotRevived, JoinLegs, mediaVars
<1> QED BY <1>1, <1>2, <1>3, <1>4, <1>5, <1>6 DEF LegsInv

\* A leave or a switch of room does: the maps are emptied, and what waits is an
\* earlier session's.
LEMMA TearDownLegsLegs ==
    ASSUME LegsInv, TearDownLegs
    PROVE  LegsInv'
<1>0. /\ pipe'.going /\ pipe'.at = pipe.at /\ pipe'.open = pipe.open /\ ~pipe.going
      /\ pipe' \in [at : Nat, open : BOOLEAN, going : BOOLEAN]
  BY DEF LegsInv, LegTypes, TearDownLegs
<1>r. DOMAIN receiveBins' = {} /\ receiveBins' \in [DOMAIN receiveBins' -> Legs]
  BY DEF TearDownLegs
<1>c. ssrcMids'.held = {} /\ ssrcMids'.mids = {} /\ ssrcMids'.gen = ssrcMids.gen + 1 /\ ssrcMids.gen \in Nat
      /\ ssrcMids' \in [mids : SUBSET Ssrcs, held : SUBSET Held, gen : Nat, inactive : SUBSET Sections]
  BY DEF LegsInv, LegTypes, TearDownLegs, Cleared
<1>g. \A x \in releases : x.gen \in Nat /\ x.gen < ssrcMids'.gen
  BY <1>c DEF LegsInv, LegTypes, GenOK, Releases
<1>i. InPlay' \subseteq InPlay
  BY <1>c DEF InPlay, TearDownLegs
<1>w. Waiting' = {}
  BY <1>c, <1>g DEF Waiting, TearDownLegs
<1>1. LegTypes'
  BY <1>0, <1>r, <1>c DEF LegsInv, LegTypes, TearDownLegs
<1>2. PhaseOK'
  BY <1>0, <1>r, <1>c, <1>i DEF LegsInv, PhaseOK, HearsLegs, TearDownLegs
<1>3. NamesOK' /\ GenOK'
  BY <1>0, <1>c, <1>g, <1>i DEF LegsInv, NamesOK, GenOK, TearDownLegs
<1>4. RouteOK' /\ BinsOK' /\ OrderOK'
  BY <1>0, <1>r, <1>w DEF LegsInv, RouteOK, BinsOK, OrderOK, TearDownLegs
<1>5. StaleOK'
  BY DEF LegsInv, StaleOK, HearsLegs, TearDownLegs, NoOfferOf
<1>6. EndedLegsGo' /\ PicturesAreLive' /\ StoppedIsNotRevived'
  BY <1>0 DEF LegsInv, EndedLegsGo, PicturesAreLive, StoppedIsNotRevived, TearDownLegs
<1> QED BY <1>1, <1>2, <1>3, <1>4, <1>5, <1>6 DEF LegsInv

\* The next pipeline does: nothing speaks of a pad of its own yet.
LEMMA RebuildPipeLegs ==
    ASSUME LegsInv, RebuildPipe
    PROVE  LegsInv'
<1>0. /\ ~pipe'.going /\ pipe'.at = pipe.at + 1 /\ ~pipe'.open /\ pipe.going /\ pipe.at \in Nat
      /\ pipe' \in [at : Nat, open : BOOLEAN, going : BOOLEAN]
  BY DEF LegsInv, LegTypes, RebuildPipe
<1>i. InPlay' \subseteq InPlay
  BY DEF InPlay, RebuildPipe
<1>n. \A p \in InPlay' : p.pipe <= pipe'.at /\ p.pipe # pipe'.at
  <2>1. \A p \in InPlay : p \in Pads /\ p.pipe \in Nat
    BY DEF LegsInv, LegTypes, InPlay, PadsIn, AddsIn, Legs, Calls, Adding, Removing, Held, Releases, Pads
  <2> QED BY <1>0, <1>i, <2>1 DEF LegsInv, NamesOK
<1>p. \A x \in AddsIn(calls') : calls'[x].pad \in InPlay'
  BY DEF InPlay, PadsIn
<1>w. Waiting' = {} /\ releases' = releases /\ ssrcMids' = ssrcMids /\ ssrcMids.held = {}
      /\ \A x \in releases : x.gen # ssrcMids.gen
  BY <1>0 DEF LegsInv, PhaseOK, GenOK, Waiting, RebuildPipe
<1>r. receiveBins' = receiveBins /\ DOMAIN receiveBins = {} /\ pictures' = pictures /\ pictures = {} /\ bins' = {}
  BY <1>0 DEF LegsInv, PhaseOK, RebuildPipe
<1>1. LegTypes'
  BY <1>0 DEF LegsInv, LegTypes, RebuildPipe, FramesCleared, legMachine
<1>2. PhaseOK'
  BY <1>0, <1>r, <1>n DEF LegsInv, PhaseOK, HearsLegs, RebuildPipe, FramesCleared, legMachine
<1>3. NamesOK'
  BY <1>0, <1>n DEF NamesOK
<1>4. GenOK'
  BY <1>w DEF LegsInv, GenOK
<1>5. RouteOK' /\ BinsOK' /\ OrderOK'
  BY <1>0, <1>w, <1>r, <1>n, <1>p DEF RouteOK, BinsOK, OrderOK
<1>6. StaleOK'
  BY <1>0 DEF LegsInv, PhaseOK, StaleOK, HearsLegs, RebuildPipe, legMachine
<1>7. EndedLegsGo' /\ PicturesAreLive' /\ StoppedIsNotRevived'
  BY <1>r DEF LegsInv, EndedLegsGo, PicturesAreLive, StoppedIsNotRevived, RebuildPipe, FramesCleared
<1> QED BY <1>1, <1>2, <1>3, <1>4, <1>5, <1>6, <1>7 DEF LegsInv

\* What PadAdded does, whichever way the pad goes.
NewPad(pad) ==
    /\ pipe.open /\ pad \in Pads /\ pad.pipe = pipe.at /\ pad.name = padCount + 1
    /\ padCount' = padCount + 1
    /\ exposed' = exposed \cup {pad}
    /\ UNCHANGED <<legMachine, pipe, receiveBins, releases, mediaVars, offersSent>>

\* What is in play is a pad of this pipeline or of an earlier one.
LEMMA InPlayPads ==
    ASSUME LegsInv
    PROVE  \A p \in InPlay : p \in Pads /\ p.pipe \in Nat /\ p.name \in Nat
  BY DEF LegsInv, LegTypes, InPlay, PadsIn, AddsIn, Legs, Calls, Adding, Removing, Held, Releases, Pads

\* A new pad's name is no other's.
LEMMA NewPadIsNew ==
    ASSUME LegsInv, NEW pad, NewPad(pad)
    PROVE  /\ \A p \in InPlay : p # pad /\ (p.pipe = pipe.at => p.name # pad.name)
           /\ pad.name \notin DOMAIN receiveBins
           /\ \A b \in bins : b.pad # pad
           /\ pad \notin PadsIn(calls) /\ pad \notin Waiting
<1>1. padCount \in Nat
  BY DEF LegsInv, LegTypes
<1>2. \A p \in InPlay : p # pad /\ (p.pipe = pipe.at => p.name # pad.name)
  BY <1>1, InPlayPads DEF LegsInv, NamesOK, NewPad
<1>3. \A b \in bins : b.pad \in InPlay
  BY DEF InPlay
<1>4. pad.name \notin DOMAIN receiveBins
  BY <1>2, <1>3 DEF LegsInv, BinsOK
<1>5. PadsIn(calls) \subseteq InPlay
  BY DEF InPlay
<1>6. Waiting \subseteq InPlay
  BY DEF InPlay, Waiting
<1> QED BY <1>2, <1>3, <1>4, <1>5, <1>6

\* A new pad that is not routed keeps the legs in order.
LEMMA PadLeftLegs ==
    ASSUME LegsInv, NEW pad, NewPad(pad), UNCHANGED <<bins, calls, ssrcMids>>
    PROVE  LegsInv'
<1>n. /\ \A p \in InPlay : p # pad /\ (p.pipe = pipe.at => p.name # pad.name)
      /\ padCount \in Nat
  BY NewPadIsNew DEF LegsInv, LegTypes
<1>i. InPlay' = InPlay \cup {pad}
  BY DEF InPlay, NewPad
<1>w. Waiting' = Waiting
  BY DEF Waiting, NewPad
<1>1. LegTypes'
  BY <1>n DEF LegsInv, LegTypes, NewPad, legMachine, mediaVars
<1>2. PhaseOK'
  BY <1>i DEF LegsInv, PhaseOK, HearsLegs, NewPad, legMachine, mediaVars
<1>3. NamesOK'
  BY <1>i, <1>n, InPlayPads DEF LegsInv, NamesOK, NewPad, Pads
<1>4. GenOK'
  BY DEF LegsInv, GenOK, NewPad
<1>5. RouteOK' /\ BinsOK' /\ OrderOK'
  BY <1>w DEF LegsInv, RouteOK, BinsOK, OrderOK, NewPad
<1>6. StaleOK'
  BY DEF LegsInv, StaleOK, HearsLegs, NewPad, legMachine
<1>7. EndedLegsGo' /\ PicturesAreLive' /\ StoppedIsNotRevived'
  BY DEF LegsInv, EndedLegsGo, PicturesAreLive, StoppedIsNotRevived, NewPad, legMachine, mediaVars
<1> QED BY <1>1, <1>2, <1>3, <1>4, <1>5, <1>6, <1>7 DEF LegsInv

\* PadAdded's step for a pad whose offer is yet to come.
HoldsPad(pad) ==
    /\ ssrcMids.mids # {}
    /\ ssrcMids' = [ssrcMids EXCEPT !.held = @ \cup {[pad |-> pad, gen |-> ssrcMids.gen]}]
    /\ UNCHANGED <<bins, calls>>

\* One that is held does.
LEMMA PadHeldLegs ==
    ASSUME LegsInv, NEW pad, NewPad(pad), HoldsPad(pad)
    PROVE  LegsInv'
<1>n. /\ \A p \in InPlay : p # pad /\ (p.pipe = pipe.at => p.name # pad.name)
      /\ padCount \in Nat /\ pad.name \notin DOMAIN receiveBins
      /\ \A b \in bins : b.pad # pad
      /\ pad \notin PadsIn(calls) /\ pad \notin Waiting
  BY NewPadIsNew DEF LegsInv, LegTypes
<1> DEFINE h == [pad |-> pad, gen |-> ssrcMids.gen]
<1>h. h \in Held /\ h.pad = pad /\ h.gen = ssrcMids.gen
  BY DEF LegsInv, LegTypes, Held, NewPad
<1>s. /\ ssrcMids'.held = ssrcMids.held \cup {h} /\ ssrcMids'.gen = ssrcMids.gen
      /\ ssrcMids'.mids = ssrcMids.mids /\ ssrcMids'.inactive = ssrcMids.inactive
      /\ ssrcMids' \in [mids : SUBSET Ssrcs, held : SUBSET Held, gen : Nat, inactive : SUBSET Sections]
  BY <1>h DEF LegsInv, LegTypes, HoldsPad
<1>u. bins' = bins /\ calls' = calls /\ ssrcMids.mids # {}
  BY DEF HoldsPad
<1> HIDE DEF h
<1>i. InPlay' = InPlay \cup {pad}
  BY <1>u, <1>s, <1>h DEF InPlay, NewPad
<1>w. Waiting' = Waiting \cup {pad}
  BY <1>u, <1>s, <1>h DEF Waiting, NewPad
<1>g. ~pipe.going /\ \A x \in releases : x.pad # pad
  BY <1>u, <1>n DEF LegsInv, PhaseOK, InPlay
<1>1. LegTypes'
  BY <1>u, <1>n, <1>s DEF LegsInv, LegTypes, NewPad, legMachine, mediaVars
<1>2. PhaseOK'
  BY <1>u, <1>i, <1>s, <1>g DEF LegsInv, PhaseOK, HearsLegs, NewPad, legMachine, mediaVars
<1>3. NamesOK'
  BY <1>u, <1>i, <1>n, InPlayPads DEF LegsInv, NamesOK, NewPad, Pads
<1>4. GenOK'
  BY <1>u, <1>s, <1>h, <1>g DEF LegsInv, GenOK, NewPad
<1>5. RouteOK' /\ BinsOK' /\ OrderOK'
  BY <1>u, <1>w, <1>n DEF LegsInv, RouteOK, BinsOK, OrderOK, NewPad
<1>6. StaleOK'
  BY <1>u DEF LegsInv, StaleOK, HearsLegs, NewPad, legMachine
<1>7. EndedLegsGo' /\ PicturesAreLive' /\ StoppedIsNotRevived'
  BY <1>u, <1>s DEF LegsInv, EndedLegsGo, PicturesAreLive, StoppedIsNotRevived, NewPad, legMachine, mediaVars
<1> QED BY <1>1, <1>2, <1>3, <1>4, <1>5, <1>6, <1>7 DEF LegsInv

\* RouteHere's step for a pad of a section.
RoutesPad(pad, m, built) ==
    /\ bins' = IF built THEN bins \cup {BinOf(pad, m, FALSE)} ELSE bins
    /\ calls' = Append(calls, Added(pad, m, built))
    /\ UNCHANGED ssrcMids

\* One that is routed does, whether its leg was built or not.
LEMMA PadRoutedLegs ==
    ASSUME LegsInv, NEW pad, NewPad(pad), NEW m \in Sections, NEW built \in BOOLEAN,
           RoutesPad(pad, m, built)
    PROVE  LegsInv'
<1>n. /\ \A p \in InPlay : p # pad /\ (p.pipe = pipe.at => p.name # pad.name)
      /\ padCount \in Nat /\ pad.name \notin DOMAIN receiveBins
      /\ \A b \in bins : b.pad # pad
      /\ pad \notin PadsIn(calls) /\ pad \notin Waiting
  BY NewPadIsNew DEF LegsInv, LegTypes
<1> DEFINE b == BinOf(pad, m, FALSE)
           c == Added(pad, m, built)
<1>b. b \in Legs /\ b.pad = pad /\ b.mid = m /\ ~b.late
  BY DEF BinOf, Legs, NewPad
<1>c. c \in Calls /\ c.op = "added" /\ c.pad = pad /\ c.mid = m /\ c.built = built
  BY DEF Added, Calls, Adding, NewPad
<1>u. /\ ssrcMids' = ssrcMids /\ bins \subseteq bins' /\ \A x \in bins' : x \in bins \/ x = b
      /\ ~built => bins' = bins
  BY DEF RoutesPad
<1>v. built => b \in bins'
  BY DEF RoutesPad
<1>q. /\ calls' \in Seq(Calls) /\ Len(calls) \in Nat /\ Len(calls') = Len(calls) + 1
      /\ \A i \in 1 .. Len(calls) : calls'[i] = calls[i]
      /\ calls'[Len(calls) + 1] = c
  BY <1>c, CallPut DEF LegsInv, LegTypes, RoutesPad
<1> HIDE DEF b, c
<1>a. AddsIn(calls') = AddsIn(calls) \cup {Len(calls) + 1}
  BY <1>c, <1>q DEF AddsIn
<1>p. PadsIn(calls') = PadsIn(calls) \cup {pad}
  BY <1>a, <1>q, <1>c DEF PadsIn, AddsIn
<1>y. \A x \in bins' : x.pad = pad \/ x \in bins
  BY <1>u, <1>b
<1>i. InPlay' = InPlay \cup {pad}
  BY <1>p, <1>u, <1>y DEF InPlay, NewPad
<1>w. Waiting' = Waiting
  BY <1>u DEF Waiting, NewPad
<1>e. \A i \in AddsIn(calls) : i \in 1 .. Len(calls) /\ calls[i].pad # pad /\ calls[i].pad \in InPlay
  BY <1>n DEF AddsIn, PadsIn, InPlay
<1>1. LegTypes'
  BY <1>n, <1>u, <1>b, <1>q DEF LegsInv, LegTypes, NewPad, legMachine, mediaVars
<1>2. PhaseOK'
  BY <1>i, <1>u DEF LegsInv, PhaseOK, HearsLegs, NewPad, legMachine, mediaVars
<1>3. NamesOK'
  BY <1>i, <1>n, InPlayPads DEF LegsInv, NamesOK, NewPad, Pads
<1>4. GenOK'
  BY <1>u DEF LegsInv, GenOK, NewPad
<1>5. RouteOK'
  BY <1>w, <1>n, <1>p, <1>a, <1>q, <1>e, <1>u, <1>y, <1>c DEF LegsInv, RouteOK, NewPad
<1>6. BinsOK'
  BY <1>a, <1>q, <1>e, <1>u, <1>b, <1>c DEF LegsInv, BinsOK, NewPad
<1>7. OrderOK'
  BY <1>a, <1>q, <1>e, <1>c DEF LegsInv, OrderOK, NewPad
<1>8. StaleOK'
  <2>1. voice # "JoinSent" \/ pipe.going
    BY DEF LegsInv, PhaseOK, HearsLegs, NewPad
  <2>2. c.op # "offer"
    BY <1>c
  <2> QED BY <1>a, <1>q, <1>e, <1>c, <2>1, <2>2 DEF LegsInv, StaleOK, HearsLegs, NewPad, legMachine
<1>9. EndedLegsGo' /\ PicturesAreLive' /\ StoppedIsNotRevived'
  BY <1>q, <1>u, <1>b DEF LegsInv, EndedLegsGo, PicturesAreLive, StoppedIsNotRevived, NewPad, legMachine, mediaVars
<1> QED BY <1>1, <1>2, <1>3, <1>4, <1>5, <1>6, <1>7, <1>8, <1>9 DEF LegsInv

\* A pad that webrtcbin exposes does.
LEMMA PadAddedLegs ==
    ASSUME LegsInv, NEW s \in Ssrcs, PadAdded(s)
    PROVE  LegsInv'
<1> DEFINE pad == [pipe |-> pipe.at, name |-> padCount', ssrc |-> s]
<1>1. NewPad(pad)
  BY DEF PadAdded, NewPad, LegsInv, LegTypes, Pads
<1>2. ASSUME NEW t \in Transceiver, RouteHere(pad, t), UNCHANGED ssrcMids
      PROVE  LegsInv'
  <2> HIDE DEF pad
  <2>1. CASE t = NoSection
    BY <1>1, <1>2, <2>1, PadLeftLegs DEF RouteHere
  <2>2. CASE t # NoSection
    <3>1. PICK built \in BOOLEAN : RoutesPad(pad, t, built)
      BY <1>2, <2>2 DEF RouteHere, RoutesPad
    <3>2. t \in Sections
      BY <2>2 DEF Transceiver
    <3> QED BY <1>1, <1>2, <3>1, <3>2, PadRoutedLegs
  <2> QED BY <2>1, <2>2
<1>3. Section[s] \in Transceiver
  BY LegsAssumption DEF Transceiver
<1>4. CASE s \in ssrcMids.mids
  BY <1>4, <1>2, <1>3 DEF PadAdded
<1>5. CASE s \notin ssrcMids.mids /\ (ssrcMids.mids = {} \/ Section[s] \notin Pictures)
  BY <1>5, <1>2 DEF PadAdded
<1>6. CASE s \notin ssrcMids.mids /\ ssrcMids.mids # {} /\ Section[s] \in Pictures
  BY <1>1, <1>6, PadHeldLegs DEF PadAdded, HoldsPad
<1> QED BY <1>4, <1>5, <1>6

\* What a held pad's release does, whichever way it goes.
LetsGo ==
    /\ ~pipe.going
    /\ ssrcMids'.held \subseteq ssrcMids.held /\ releases' \subseteq releases
    /\ ssrcMids'.gen = ssrcMids.gen /\ ssrcMids'.inactive = ssrcMids.inactive
    /\ ssrcMids' \in [mids : SUBSET Ssrcs, held : SUBSET Held, gen : Nat, inactive : SUBSET Sections]
    /\ UNCHANGED <<legMachine, pipe, exposed, padCount, calls, mediaVars, offersSent>>

\* What waits less, and what is of this session, after a release.
LEMMA LetsGoWaiting ==
    ASSUME LegsInv, LetsGo
    PROVE  /\ Waiting' \subseteq Waiting /\ GenOK' /\ StaleOK'
           /\ Waiting \subseteq InPlay
<1>1. Waiting' \subseteq Waiting /\ Waiting \subseteq InPlay
  BY DEF LetsGo, Waiting, InPlay
<1>2. GenOK'
  BY DEF LetsGo, LegsInv, GenOK
<1>3. StaleOK'
  BY DEF LetsGo, LegsInv, StaleOK, HearsLegs, legMachine
<1> QED BY <1>1, <1>2, <1>3

\* A release that comes to nothing keeps the legs in order.
LEMMA PadDroppedLegs ==
    ASSUME LegsInv, LetsGo, UNCHANGED <<bins, receiveBins>>
    PROVE  LegsInv'
<1>w. Waiting' \subseteq Waiting /\ GenOK' /\ StaleOK'
  BY LetsGoWaiting
<1>i. InPlay' \subseteq InPlay
  BY DEF InPlay, LetsGo
<1>1. LegTypes'
  BY DEF LegsInv, LegTypes, LetsGo, legMachine, mediaVars
<1>2. PhaseOK'
  BY <1>i DEF LegsInv, PhaseOK, HearsLegs, LetsGo, legMachine, mediaVars
<1>3. NamesOK'
  BY <1>i DEF LegsInv, NamesOK, LetsGo
<1>4. RouteOK' /\ BinsOK' /\ OrderOK'
  BY <1>w DEF LegsInv, RouteOK, BinsOK, OrderOK, LetsGo
<1>5. EndedLegsGo' /\ PicturesAreLive' /\ StoppedIsNotRevived'
  BY DEF LegsInv, EndedLegsGo, PicturesAreLive, StoppedIsNotRevived, LetsGo, legMachine, mediaVars
<1> QED BY <1>1, <1>2, <1>3, <1>4, <1>5, <1>w DEF LegsInv

\* Listing a bin of a pad that has none: nothing else goes, and only a session
\* that hears its legs does it.
LEMMA BinListed ==
    ASSUME LegsInv, ~pipe.going, NEW pad \in InPlay, pad.pipe = pipe.at, NEW m \in Sections,
           NEW built \in BOOLEAN, NEW late \in BOOLEAN, ListBin(pad, m, built, late),
           built \/ \A b \in bins : b.pad # pad
    PROVE  \/ /\ ~built /\ UNCHANGED <<bins, receiveBins>>
           \/ /\ HearsLegs
              /\ bins' = bins \cup {BinOf(pad, m, late)}
              /\ receiveBins' = WithBin(receiveBins, BinOf(pad, m, late))
<1>1. HearsLegs
  BY DEF LegsInv, PhaseOK
<1>2. CASE built
  BY <1>1, <1>2 DEF ListBin
<1>3. CASE ~built
  <2>1. \A b \in bins : b.pad \in InPlay /\ b.pad.pipe = pipe.at
    BY DEF LegsInv, BinsOK, InPlay
  <2>2. {b \in bins : b.pad.name = pad.name} = {}
    BY <1>3, <2>1 DEF LegsInv, NamesOK
  <2>3. bins \ {b \in bins : b.pad.name = pad.name} = bins
    BY <2>2
  <2> QED BY <1>1, <1>3, <2>3, Zenon DEF ListBin
<1> QED BY <1>2, <1>3

\* A held pad that is given its leg keeps them in order.
LEMMA PadReleasedLegs ==
    ASSUME LegsInv, LetsGo, NEW pad \in exposed, pad \in Waiting, pad \notin Waiting',
           NEW m \in Sections, m \notin ssrcMids.inactive,
           NEW built \in BOOLEAN, ListBin(pad, m, built, TRUE)
    PROVE  LegsInv'
<1>w. Waiting' \subseteq Waiting /\ GenOK' /\ StaleOK' /\ pad \in InPlay
  BY LetsGoWaiting
<1>g. ~pipe.going /\ pad.pipe = pipe.at /\ pad \in Pads
  BY <1>w, InPlayPads DEF LetsGo, LegsInv, GenOK, Waiting
<1>n. pad.name \notin DOMAIN receiveBins /\ pad \notin PadsIn(calls) /\ \A x \in bins : x.pad # pad
  BY DEF LegsInv, RouteOK
<1>l. \/ UNCHANGED <<bins, receiveBins>>
      \/ /\ HearsLegs
         /\ bins' = bins \cup {BinOf(pad, m, TRUE)}
         /\ receiveBins' = WithBin(receiveBins, BinOf(pad, m, TRUE))
  BY <1>w, <1>g, <1>n, BinListed
<1>d. CASE UNCHANGED <<bins, receiveBins>>
  BY <1>d, PadDroppedLegs
<1>e. CASE /\ HearsLegs
           /\ bins' = bins \cup {BinOf(pad, m, TRUE)}
           /\ receiveBins' = WithBin(receiveBins, BinOf(pad, m, TRUE))
  <2> DEFINE b == BinOf(pad, m, TRUE)
  <2>b. b \in Legs /\ b.pad = pad /\ b.mid = m /\ b.late
    BY <1>g DEF BinOf, Legs
  <2>u. bins' = bins \cup {b} /\ HearsLegs
    BY <1>e
  <2>r. /\ DOMAIN receiveBins' = DOMAIN receiveBins \cup {pad.name}
        /\ receiveBins'[pad.name] = b
        /\ \A n \in DOMAIN receiveBins : n # pad.name /\ receiveBins'[n] = receiveBins[n]
        /\ receiveBins' = [n \in DOMAIN receiveBins' |-> receiveBins'[n]]
    <3>1. receiveBins' = WithBin(receiveBins, b) /\ b.pad.name = pad.name
      BY <1>e, <2>b
    <3> HIDE DEF b
    <3>2. /\ DOMAIN receiveBins' = DOMAIN receiveBins \cup {pad.name}
          /\ receiveBins'[pad.name] = b
          /\ \A n \in DOMAIN receiveBins : n # pad.name => receiveBins'[n] = receiveBins[n]
      BY <3>1, SMT DEF WithBin
    <3>3. receiveBins' = [n \in DOMAIN receiveBins' |-> receiveBins'[n]]
      BY <3>1 DEF WithBin
    <3> QED BY <3>2, <3>3, <1>n
  <2> HIDE DEF b
  <2>i. InPlay' \subseteq InPlay
    BY <1>w, <2>u, <2>b DEF InPlay, LetsGo
  <2>o. \A p \in Waiting : p \in InPlay /\ p.pipe = pipe.at
    BY DEF LegsInv, GenOK, Waiting, InPlay
  <2>p. \A i \in AddsIn(calls) : calls[i].pad \in InPlay /\ calls[i].pad \in PadsIn(calls)
    BY DEF InPlay, PadsIn
  <2>1. LegTypes'
    <3>1. receiveBins' \in [DOMAIN receiveBins' -> Legs] /\ DOMAIN receiveBins' \subseteq Nat
      BY <1>g, <2>r, <2>b DEF LegsInv, LegTypes, Pads
    <3>2. bins' \subseteq Legs
      BY <2>u, <2>b DEF LegsInv, LegTypes
    <3> QED BY <3>1, <3>2 DEF LegsInv, LegTypes, LetsGo, legMachine, mediaVars
  <2>2. PhaseOK'
    BY <2>i, <2>u, <1>g DEF LegsInv, PhaseOK, HearsLegs, LetsGo, legMachine, mediaVars
  <2>3. NamesOK'
    BY <2>i DEF LegsInv, NamesOK, LetsGo
  <2>4. RouteOK'
    <3>1. \A p \in Waiting' : p # pad /\ p.name # pad.name
      BY <1>w, <1>g, <2>o DEF LegsInv, NamesOK
    <3>2. \A i \in AddsIn(calls) : calls[i].pad.pipe = pipe.at => calls[i].pad # pad /\ calls[i].pad.name # pad.name
      BY <1>w, <1>g, <1>n, <2>p DEF LegsInv, NamesOK
    <3> QED BY <3>1, <3>2, <1>w, <2>r, <2>u, <2>b DEF LegsInv, RouteOK, LetsGo
  <2>5. BinsOK'
    BY <1>g, <2>r, <2>u, <2>b DEF LegsInv, BinsOK, LetsGo
  <2>6. OrderOK'
    BY DEF LegsInv, OrderOK, LetsGo
  <2>7. EndedLegsGo' /\ StoppedIsNotRevived'
    BY <2>u, <2>b DEF LegsInv, EndedLegsGo, StoppedIsNotRevived, LetsGo, legMachine
  <2>8. PicturesAreLive'
    BY <2>u DEF LegsInv, PicturesAreLive, LetsGo, mediaVars
  <2> QED BY <2>1, <2>2, <2>3, <2>4, <2>5, <2>6, <2>7, <2>8, <1>w DEF LegsInv
<1> QED BY <1>l, <1>d, <1>e

\* An idle source keeps them in order.
LEMMA RunReleaseLegs ==
    ASSUME LegsInv, RunRelease
    PROVE  LegsInv'
<1>1. PICK r \in releases : releases' = releases \ {r} /\ ReleasePad(r.pad, r.mid, r.gen)
  BY DEF RunRelease
<1>2. LetsGo
  BY <1>1 DEF RunRelease, LetsGo, LegsInv, LegTypes
<1>3. r.mid \in Sections /\ r \in Releases
  BY DEF LegsInv, LegTypes, Releases
<1>4. CASE /\ r.gen = ssrcMids.gen /\ r.mid \notin ssrcMids.inactive /\ r.mid # NoSection
           /\ r.pad \in exposed
  <2>1. PICK built \in BOOLEAN : ListBin(r.pad, r.mid, built, TRUE)
    BY <1>1, <1>4 DEF ReleasePad
  <2>2. r.pad \in Waiting
    BY <1>4 DEF Waiting
  <2>3. \A x \in releases : x \in Releases /\ (x.gen = ssrcMids.gen => x.mid = Section[x.pad.ssrc])
    BY DEF LegsInv, LegTypes, GenOK
  <2>4. \A x \in releases : x.gen = ssrcMids.gen /\ x.pad = r.pad => x = r
    BY <1>3, <1>4, <2>3 DEF Releases
  <2>5. r.pad \notin Waiting'
    BY <1>1, <1>4, <2>4 DEF Waiting, RunRelease, LegsInv, GenOK
  <2> QED BY <1>2, <1>3, <1>4, <2>1, <2>2, <2>5, PadReleasedLegs
<1>5. CASE ~(/\ r.gen = ssrcMids.gen /\ r.mid \notin ssrcMids.inactive /\ r.mid # NoSection
             /\ r.pad \in exposed)
  BY <1>1, <1>2, <1>5, PadDroppedLegs DEF ReleasePad
<1> QED BY <1>4, <1>5

\* A hold that has run out does.
LEMMA HoldEndsLegs ==
    ASSUME LegsInv, HoldEnds
    PROVE  LegsInv'
<1>1. PICK h \in ssrcMids.held :
         /\ ssrcMids' = [ssrcMids EXCEPT !.held = @ \ {h}]
         /\ \E t \in Transceiver : ReleasePad(h.pad, t, h.gen)
  BY DEF HoldEnds
<1>2. PICK t \in Transceiver : ReleasePad(h.pad, t, h.gen)
  BY <1>1
<1>s. ssrcMids'.held = ssrcMids.held \ {h} /\ ssrcMids'.gen = ssrcMids.gen
  BY <1>1 DEF LegsInv, LegTypes
<1>3. LetsGo
  BY <1>1 DEF HoldEnds, LetsGo, LegsInv, LegTypes
<1>4. CASE h.gen = ssrcMids.gen /\ t \notin ssrcMids.inactive /\ t # NoSection /\ h.pad \in exposed
  <2>1. PICK built \in BOOLEAN : ListBin(h.pad, t, built, TRUE)
    BY <1>2, <1>4 DEF ReleasePad
  <2>2. h.pad \in Waiting /\ t \in Sections
    BY <1>4 DEF Waiting, Transceiver
  <2>3. \A x \in ssrcMids.held : x \in Held /\ x.gen = ssrcMids.gen
    BY DEF LegsInv, LegTypes, GenOK
  <2>4. \A x \in ssrcMids.held : x.pad = h.pad => x = h
    BY <2>3 DEF Held
  <2>5. h.pad \notin Waiting'
    BY <1>s, <2>4 DEF Waiting, HoldEnds, LegsInv, GenOK
  <2> QED BY <1>3, <1>4, <2>1, <2>2, <2>5, PadReleasedLegs
<1>5. CASE ~(h.gen = ssrcMids.gen /\ t \notin ssrcMids.inactive /\ t # NoSection /\ h.pad \in exposed)
  BY <1>2, <1>3, <1>5, PadDroppedLegs DEF ReleasePad
<1> QED BY <1>4, <1>5

\* What RunCall does, whichever call it takes.
Pops ==
    /\ ~pipe.going /\ calls # <<>>
    /\ calls' = Tail(calls)
    /\ UNCHANGED <<padCount, offersSent, inRoom, exposed>>

\* The calls that are left are the calls behind the first.
LEMMA CallsLeft ==
    ASSUME LegsInv, Pops
    PROVE  /\ calls' \in Seq(Calls) /\ Len(calls) \in Nat /\ Len(calls) >= 1 /\ Len(calls') = Len(calls) - 1
           /\ Head(calls) = calls[1] /\ calls[1] \in Calls
           /\ \A i \in 1 .. Len(calls') : i + 1 \in 1 .. Len(calls) /\ calls'[i] = calls[i + 1]
           /\ \A i \in 1 .. Len(calls) : i # 1 => i - 1 \in 1 .. Len(calls') /\ calls'[i - 1] = calls[i]
           /\ \A i \in AddsIn(calls') : i + 1 \in AddsIn(calls) /\ calls'[i] = calls[i + 1]
           /\ \A i \in AddsIn(calls) : i # 1 => i - 1 \in AddsIn(calls') /\ calls'[i - 1] = calls[i]
           /\ PadsIn(calls') \subseteq PadsIn(calls)
<1>1. /\ calls' \in Seq(Calls) /\ Len(calls) \in Nat /\ Len(calls) >= 1 /\ Len(calls') = Len(calls) - 1
      /\ Head(calls) = calls[1] /\ calls[1] \in Calls
      /\ \A i \in 1 .. Len(calls') : i + 1 \in 1 .. Len(calls) /\ calls'[i] = calls[i + 1]
      /\ \A i \in 1 .. Len(calls) : i # 1 => i - 1 \in 1 .. Len(calls') /\ calls'[i - 1] = calls[i]
  BY CallTaken DEF LegsInv, LegTypes, Pops
<1>2. /\ \A i \in AddsIn(calls') : i + 1 \in AddsIn(calls) /\ calls'[i] = calls[i + 1]
      /\ \A i \in AddsIn(calls) : i # 1 => i - 1 \in AddsIn(calls') /\ calls'[i - 1] = calls[i]
  BY <1>1 DEF AddsIn
<1>3. PadsIn(calls') \subseteq PadsIn(calls)
  BY <1>2 DEF PadsIn
<1> QED BY <1>1, <1>2, <1>3

\* Taking a call keeps what is told in its order.
LEMMA OrderLeft ==
    ASSUME LegsInv, Pops, pipe'.at = pipe.at
    PROVE  OrderOK'
<1>1. SUFFICES ASSUME NEW i \in AddsIn(calls'), calls'[i].pad.pipe = pipe'.at, calls'[i].pad \notin exposed'
               PROVE  \E j \in i + 1 .. Len(calls') : calls'[j] = Removed(calls'[i].pad)
  BY DEF OrderOK
<1>2. i + 1 \in AddsIn(calls) /\ calls'[i] = calls[i + 1] /\ i \in Nat
  BY CallsLeft DEF AddsIn
<1>3. PICK j \in i + 1 + 1 .. Len(calls) : calls[j] = Removed(calls[i + 1].pad)
  BY <1>1, <1>2 DEF LegsInv, OrderOK, Pops
<1>4. j \in 1 .. Len(calls) /\ j # 1 /\ j - 1 \in i + 1 .. Len(calls') /\ j \in Nat
  BY <1>2, CallsLeft
<1>5. calls'[j - 1] = calls[j]
  BY <1>4, CallsLeft
<1> QED BY <1>2, <1>3, <1>4, <1>5

\* Taking a call keeps an earlier pipeline's calls where they may be.
LEMMA StaleLeft ==
    ASSUME LegsInv, Pops, pipe' = pipe, voice' = voice \/ (HearsLegs /\ HearsLegs')
    PROVE  StaleOK'
<1>1. HearsLegs' => \A i \in AddsIn(calls') : calls'[i].pad.pipe = pipe'.at
  BY CallsLeft DEF LegsInv, StaleOK, HearsLegs
<1>2. ASSUME voice' = "JoinSent", NEW i \in 1 .. Len(calls'), calls'[i].op = "offer" /\ calls'[i].room = inRoom'
      PROVE  ~pipe'.going /\ \A j \in AddsIn(calls') : j < i
  <2>1. voice = "JoinSent" /\ i + 1 \in 1 .. Len(calls) /\ calls'[i] = calls[i + 1]
    BY <1>2, CallsLeft DEF HearsLegs
  <2>2. \A j \in AddsIn(calls) : j < i + 1
    BY <1>2, <2>1 DEF LegsInv, StaleOK, Pops
  <2>3. \A j \in AddsIn(calls') : j + 1 \in AddsIn(calls) /\ j \in Nat
    BY CallsLeft DEF AddsIn
  <2> QED BY <2>2, <2>3 DEF Pops
<1> QED BY <1>1, <1>2 DEF StaleOK

\* A removal that waits still does when another call was taken.
LEMMA RemovalsLeft ==
    ASSUME LegsInv, Pops, NEW p, NEW i \in 1 .. Len(calls), calls[i] = Removed(p), i # 1
    PROVE  \E j \in 1 .. Len(calls') : calls'[j] = Removed(p)
  BY CallsLeft

\* A pad is still routed once when a call that gives no pad a leg was taken.
LEMMA RouteLeft ==
    ASSUME LegsInv, Pops, Waiting' \subseteq Waiting, pipe'.at = pipe.at,
           bins' \subseteq bins, DOMAIN receiveBins' \subseteq DOMAIN receiveBins
    PROVE  RouteOK'
<1>1. \A p \in Waiting' : /\ p.name \notin DOMAIN receiveBins' /\ p \notin PadsIn(calls')
                          /\ \A b \in bins' : b.pad # p
  BY CallsLeft DEF LegsInv, RouteOK
<1>2. ASSUME NEW i \in AddsIn(calls'), calls'[i].pad.pipe = pipe'.at
      PROVE  /\ calls'[i].pad.name \notin DOMAIN receiveBins'
             /\ \A j \in AddsIn(calls') : calls'[j].pad = calls'[i].pad => i = j
             /\ calls'[i].built \/ \A b \in bins' : b.pad # calls'[i].pad
  <2>1. i + 1 \in AddsIn(calls) /\ calls'[i] = calls[i + 1] /\ i \in Nat
    BY CallsLeft DEF AddsIn
  <2>2. \A j \in AddsIn(calls') : j + 1 \in AddsIn(calls) /\ calls'[j] = calls[j + 1] /\ j \in Nat
    BY CallsLeft DEF AddsIn
  <2>3. calls[i + 1].pad.pipe = pipe.at
    BY <1>2, <2>1
  <2>4. /\ calls[i + 1].pad.name \notin DOMAIN receiveBins
        /\ \A j \in AddsIn(calls) : calls[j].pad = calls[i + 1].pad => i + 1 = j
        /\ calls[i + 1].built \/ \A b \in bins : b.pad # calls[i + 1].pad
    BY <2>1, <2>3 DEF LegsInv, RouteOK
  <2> QED BY <2>1, <2>2, <2>4
<1> QED BY <1>1, <1>2 DEF RouteOK

\* A call that gives no pad a leg keeps the legs in order, if the legs it leaves
\* are listed, on their way out and behind their pictures.
LEMMA CallRunLegs ==
    ASSUME LegsInv, Pops, UNCHANGED <<legMachine, pipe, ssrcMids, releases>>,
           bins' \subseteq bins, DOMAIN receiveBins' \subseteq DOMAIN receiveBins,
           receiveBins' \in [DOMAIN receiveBins' -> Legs],
           store' \in [Pictures -> {"none", "fresh", "taken"}], pictures' \subseteq Pictures,
           ~pipe.open => store' = store /\ pictures' = pictures,
           BinsOK', EndedLegsGo', PicturesAreLive'
    PROVE  LegsInv'
<1>q. calls' \in Seq(Calls) /\ PadsIn(calls') \subseteq PadsIn(calls)
  BY CallsLeft
<1>i. InPlay' \subseteq InPlay
  BY <1>q DEF InPlay, Pops
<1>w. Waiting' = Waiting
  BY DEF Waiting
<1>1. LegTypes'
  BY <1>q DEF LegsInv, LegTypes, Pops, legMachine
<1>2. PhaseOK'
  BY <1>i DEF LegsInv, PhaseOK, HearsLegs, legMachine, Pops
<1>3. NamesOK'
  BY <1>i DEF LegsInv, NamesOK, Pops
<1>4. GenOK'
  BY DEF LegsInv, GenOK
<1>5. RouteOK'
  BY <1>w, RouteLeft
<1>6. OrderOK' /\ StaleOK'
  BY OrderLeft, StaleLeft DEF legMachine
<1>7. StoppedIsNotRevived'
  BY DEF LegsInv, StoppedIsNotRevived, legMachine
<1> QED BY <1>1, <1>2, <1>3, <1>4, <1>5, <1>6, <1>7 DEF LegsInv

\* Legs that a call leaves alone stay listed, unless it was the one that told of them.
LEMMA BinsLeft ==
    ASSUME LegsInv, Pops, UNCHANGED <<pipe, bins, receiveBins>>,
           \A b \in bins : calls[1].op = "added" => calls[1].pad # b.pad
    PROVE  BinsOK'
<1>1. ASSUME NEW b \in bins, NEW i \in AddsIn(calls), calls[i].pad = b.pad /\ calls[i].mid = b.mid
      PROVE  \E j \in AddsIn(calls') : calls'[j].pad = b.pad /\ calls'[j].mid = b.mid
  <2>1. i # 1
    BY <1>1 DEF AddsIn
  <2>2. i - 1 \in AddsIn(calls') /\ calls'[i - 1] = calls[i]
    BY <2>1, CallsLeft
  <2> QED BY <1>1, <2>2
<1> QED BY <1>1 DEF LegsInv, BinsOK, Pops

\* Legs that a call leaves alone stay listed and on their way out, unless the call
\* was the one that told of them.
LEMMA LegsLeft ==
    ASSUME LegsInv, Pops, UNCHANGED <<pipe, bins, receiveBins>>,
           \A b \in bins : /\ (calls[1].op = "added" => calls[1].pad # b.pad)
                           /\ (b.pad \notin exposed => calls[1] # Removed(b.pad))
    PROVE  BinsOK' /\ EndedLegsGo'
<1>1. BinsOK'
  BY BinsLeft
<1>2. EndedLegsGo'
  BY RemovalsLeft DEF LegsInv, EndedLegsGo, Pops
<1> QED BY <1>1, <1>2

\* The frames notice keeps the legs in order: what it shows has a leg.
LEMMA ShowsLegs ==
    ASSUME LegsInv, Pops, Shows(Head(calls))
    PROVE  LegsInv'
<1>0. calls[1].op = "frames"
  BY CallsLeft DEF Shows
<1>1. BinsOK' /\ EndedLegsGo'
  <2>1. \A b \in bins : calls[1] # Removed(b.pad) /\ calls[1].op # "added"
    BY <1>0 DEF Removed
  <2> QED BY <2>1, LegsLeft DEF Shows
<1> DEFINE new == {k \in Pictures : store[k] = "fresh"}
<1>2. CASE HearsLegs
  <2>1. pictures' = pictures \cup new /\ store' = [k \in Pictures |-> IF k \in new THEN "taken" ELSE store[k]]
    BY <1>2 DEF Shows
  <2>2. store' \in [Pictures -> {"none", "fresh", "taken"}] /\ pictures' \subseteq Pictures
    BY <2>1 DEF LegsInv, LegTypes
  <2>3. PicturesAreLive'
    BY <2>1 DEF LegsInv, PicturesAreLive, Shows
  <2>4. pipe.open
    BY <1>2 DEF LegsInv, PhaseOK, Pops
  <2> QED BY <1>1, <2>2, <2>3, <2>4, CallRunLegs DEF Shows, LegsInv, LegTypes
<1>3. CASE ~HearsLegs
  <2>1. store' = store /\ pictures' = pictures
    BY <1>3 DEF Shows
  <2>2. PicturesAreLive'
    BY <2>1 DEF LegsInv, PicturesAreLive, Shows
  <2> QED BY <1>1, <2>1, <2>2, CallRunLegs DEF Shows, LegsInv, LegTypes
<1> QED BY <1>2, <1>3

\* The leg of a removal that runs is listed, if it is told of by no call that waits.
LEMMA RemovedIsListed ==
    ASSUME LegsInv, Pops, calls[1].op = "removed", NEW b \in bins, b.pad \notin exposed
    PROVE  \/ \E j \in 1 .. Len(calls') : calls'[j] = Removed(b.pad)
           \/ b.pad.name \in DOMAIN receiveBins /\ receiveBins[b.pad.name] = b
<1>1. CASE \E n \in DOMAIN receiveBins : receiveBins[n] = b
  BY <1>1 DEF LegsInv, BinsOK
<1>2. CASE \E i \in AddsIn(calls) : calls[i].pad = b.pad
  <2>1. PICK i \in AddsIn(calls) : calls[i].pad = b.pad
    BY <1>2
  <2>2. i \in Nat /\ i >= 1 /\ b.pad.pipe = pipe.at
    BY DEF AddsIn, LegsInv, BinsOK
  <2>3. PICK j \in i + 1 .. Len(calls) : calls[j] = Removed(b.pad)
    BY <2>1, <2>2 DEF LegsInv, OrderOK
  <2>4. j \in 1 .. Len(calls) /\ j # 1
    BY <2>2, CallsLeft
  <2> QED BY <2>3, <2>4, RemovalsLeft
<1> QED BY <1>1, <1>2 DEF LegsInv, BinsOK, Pops

\* A removal keeps them in order: the picture goes with the section's last leg.
LEMMA RemovesLegs ==
    ASSUME LegsInv, Pops, Removes(Head(calls))
    PROVE  LegsInv'
<1>0. calls[1].op = "removed" /\ Head(calls) = calls[1] /\ calls[1] \in Calls
  BY CallsLeft DEF Removes
<1> DEFINE name == calls[1].name
<1>m. \A p : calls[1] = Removed(p) => p.name = name
  BY DEF Removed
<1>1. CASE name \in DOMAIN receiveBins
  <2> DEFINE b == receiveBins[name]
             rest == Restrict(receiveBins, DOMAIN receiveBins \ {name})
             gone == {b.mid} \ {rest[n].mid : n \in DOMAIN rest}
  <2>1. receiveBins' = rest /\ bins' = bins \ {b} /\ EndStreams(gone)
    BY <1>0, <1>1 DEF Removes
  <2>2. /\ DOMAIN rest = DOMAIN receiveBins \ {name}
        /\ \A n \in DOMAIN rest : rest[n] = receiveBins[n]
        /\ rest = [n \in DOMAIN rest |-> rest[n]]
    BY DEF Restrict
  <2>3. b \in bins /\ b.pad.name = name
    BY <1>1 DEF LegsInv, BinsOK
  <2>g. \A m : m \in gone <=> m = b.mid /\ \A n \in DOMAIN rest : rest[n].mid # m
    OBVIOUS
  <2> HIDE DEF rest, gone
  <2>4. \A n \in DOMAIN rest : rest[n] \in bins /\ rest[n] # b
    BY <2>2, <2>3 DEF LegsInv, BinsOK
  <2>5. rest \in [DOMAIN rest -> Legs]
    BY <2>2, <2>4 DEF LegsInv, LegTypes
  <2>6. /\ \A m \in Pictures : store'[m] = IF m \in gone THEN "none" ELSE store[m]
        /\ store' \in [Pictures -> {"none", "fresh", "taken"}] /\ pictures' = pictures \ gone
    BY <2>1 DEF EndStreams, LegsInv, LegTypes
  <2>7. BinsOK'
    <3>1. \A x \in bins' : x.pad.pipe = pipe'.at
      BY <2>1 DEF LegsInv, BinsOK, Removes
    <3>2. \A n \in DOMAIN rest : rest[n] \in bins' /\ rest[n].pad.name = n
      BY <2>1, <2>2, <2>4 DEF LegsInv, BinsOK
    <3>3. \A x \in bins' : \/ \E n \in DOMAIN rest : rest[n] = x
                           \/ ~x.late /\ \E i \in AddsIn(calls') : calls'[i].pad = x.pad /\ calls'[i].mid = x.mid
      <4>1. SUFFICES ASSUME NEW x \in bins', ~\E n \in DOMAIN rest : rest[n] = x
                     PROVE  ~x.late /\ \E i \in AddsIn(calls') : calls'[i].pad = x.pad /\ calls'[i].mid = x.mid
        OBVIOUS
      <4>2. x \in bins /\ x # b
        BY <2>1
      <4>3. ~\E n \in DOMAIN receiveBins : receiveBins[n] = x
        BY <4>1, <4>2, <2>2
      <4>4. ~x.late /\ \E i \in AddsIn(calls) : calls[i].pad = x.pad /\ calls[i].mid = x.mid
        BY <4>2, <4>3 DEF LegsInv, BinsOK, Pops
      <4> QED BY <4>4, <1>0, CallsLeft DEF AddsIn
    <3> QED BY <2>1, <3>1, <3>2, <3>3 DEF BinsOK
  <2>8. EndedLegsGo'
    <3>1. SUFFICES ASSUME NEW x \in bins', x.pad \notin exposed'
                   PROVE  \E i \in 1 .. Len(calls') : calls'[i] = Removed(x.pad)
      BY DEF EndedLegsGo
    <3>2. x \in bins /\ x # b /\ x.pad \notin exposed
      BY <2>1, <3>1 DEF Pops
    <3>3. CASE x.pad.name = name
      BY <1>0, <3>2, <3>3, RemovedIsListed
    <3>4. CASE x.pad.name # name
      <4>1. PICK i \in 1 .. Len(calls) : calls[i] = Removed(x.pad)
        BY <3>2 DEF LegsInv, EndedLegsGo
      <4>2. i # 1
        BY <4>1, <3>4, <1>m
      <4> QED BY <4>1, <4>2, RemovalsLeft
    <3> QED BY <3>3, <3>4
  <2>9. PicturesAreLive'
    <3>1. SUFFICES ASSUME NEW m \in Pictures, store'[m] # "none" \/ m \in pictures'
                   PROVE  \E x \in bins' : x.mid = m
      BY DEF PicturesAreLive
    <3>2. m \notin gone /\ (store[m] # "none" \/ m \in pictures)
      BY <2>6, <3>1
    <3>3. PICK x \in bins : x.mid = m
      BY <3>2 DEF LegsInv, PicturesAreLive, Pops
    <3>4. CASE x = b
      <4>1. PICK n \in DOMAIN rest : rest[n].mid = m
        BY <2>g, <3>2, <3>3, <3>4
      <4> QED BY <4>1, <2>1, <2>4
    <3>5. CASE x # b
      BY <3>3, <3>5, <2>1
    <3> QED BY <3>4, <3>5
  <2>10. pipe.open
    BY <1>1 DEF LegsInv, PhaseOK
  <2> QED
    <3>1. UNCHANGED <<legMachine, pipe, ssrcMids, releases>>
      BY DEF Removes
    <3>2. /\ bins' \subseteq bins /\ DOMAIN receiveBins' \subseteq DOMAIN receiveBins
          /\ receiveBins' \in [DOMAIN receiveBins' -> Legs] /\ pictures' \subseteq Pictures
      BY <2>1, <2>2, <2>5, <2>6 DEF LegsInv, LegTypes
    <3> QED BY <3>1, <3>2, <2>6, <2>7, <2>8, <2>9, <2>10, CallRunLegs
<1>2. CASE name \notin DOMAIN receiveBins
  <2>1. UNCHANGED <<bins, receiveBins, mediaVars, legMachine, pipe, ssrcMids, releases>>
    BY <1>0, <1>2 DEF Removes
  <2>2. BinsOK'
    BY <1>0, <2>1, BinsLeft
  <2>3. EndedLegsGo'
    <3>1. SUFFICES ASSUME NEW x \in bins, x.pad \notin exposed
                   PROVE  \E i \in 1 .. Len(calls') : calls'[i] = Removed(x.pad)
      BY <2>1 DEF EndedLegsGo, Pops
    <3>3. CASE x.pad.name = name
      BY <1>0, <1>2, <3>1, <3>3, RemovedIsListed
    <3>4. CASE x.pad.name # name
      <4>1. PICK i \in 1 .. Len(calls) : calls[i] = Removed(x.pad)
        BY <3>1 DEF LegsInv, EndedLegsGo
      <4>2. i # 1
        BY <4>1, <3>4, <1>m
      <4> QED BY <4>1, <4>2, RemovalsLeft
    <3> QED BY <3>3, <3>4
  <2>4. PicturesAreLive'
    BY <2>1 DEF LegsInv, PicturesAreLive, mediaVars
  <2> QED BY <2>1, <2>2, <2>3, <2>4, CallRunLegs DEF LegsInv, LegTypes, mediaVars
<1> QED BY <1>1, <1>2

\* A new leg's call keeps them in order: the leg is listed, or there is none.
LEMMA AddsLegs ==
    ASSUME LegsInv, Pops, Adds(Head(calls))
    PROVE  LegsInv'
<1> DEFINE pad == calls[1].pad
           m == calls[1].mid
           built == calls[1].built
<1>0. /\ calls[1].op = "added" /\ calls[1] \in Adding /\ 1 \in AddsIn(calls)
      /\ ListBin(pad, m, built, FALSE)
      /\ UNCHANGED <<legMachine, pipe, exposed, ssrcMids, releases, mediaVars>>
  <2>1. calls[1].op = "added" /\ calls[1] \in Calls /\ 1 \in 1 .. Len(calls)
    BY CallsLeft DEF Adds
  <2>2. calls[1] \in Adding
    BY <2>1 DEF Calls, Removing
  <2> QED BY <2>1, <2>2, CallsLeft DEF Adds, AddsIn
<1>t. pad \in Pads /\ m \in Sections /\ built \in BOOLEAN
  BY <1>0 DEF Adding
<1>p. pad \in PadsIn(calls) /\ pad \in InPlay
  BY <1>0 DEF PadsIn, InPlay
<1> HIDE DEF pad, m, built
<1>d. ASSUME UNCHANGED <<bins, receiveBins>>, \A b \in bins : b.pad # pad
      PROVE  LegsInv'
  <2>1. \A b \in bins : calls[1] # Removed(b.pad) /\ calls[1].pad # b.pad
    BY <1>0, <1>d DEF Removed, pad
  <2>2. BinsOK' /\ EndedLegsGo'
    BY <1>0, <1>d, <2>1, LegsLeft
  <2>3. PicturesAreLive'
    BY <1>0, <1>d DEF LegsInv, PicturesAreLive, mediaVars
  <2> QED BY <1>0, <1>d, <2>2, <2>3, CallRunLegs DEF LegsInv, LegTypes, mediaVars
<1>1. CASE pad.pipe # pipe.at
  <2>1. ~HearsLegs
    BY <1>0, <1>1 DEF LegsInv, StaleOK, pad
  <2>2. bins = {}
    BY <2>1 DEF LegsInv, PhaseOK, Pops
  <2>3. UNCHANGED <<bins, receiveBins>>
    BY <1>0, <2>1, <2>2 DEF ListBin
  <2> QED BY <1>d, <2>2, <2>3
<1>2. CASE pad.pipe = pipe.at
  <2>n. /\ pad.name \notin DOMAIN receiveBins
        /\ \A j \in AddsIn(calls) : calls[j].pad = pad => j = 1
        /\ built \/ \A b \in bins : b.pad # pad
    BY <1>0, <1>2 DEF LegsInv, RouteOK, pad, built
  <2>l. \/ ~built /\ UNCHANGED <<bins, receiveBins>>
        \/ /\ HearsLegs
           /\ bins' = bins \cup {BinOf(pad, m, FALSE)}
           /\ receiveBins' = WithBin(receiveBins, BinOf(pad, m, FALSE))
    BY <1>0, <1>t, <1>p, <1>2, <2>n, BinListed DEF Pops
  <2>1. CASE ~built /\ UNCHANGED <<bins, receiveBins>>
    BY <1>d, <2>1, <2>n
  <2>2. CASE /\ HearsLegs
             /\ bins' = bins \cup {BinOf(pad, m, FALSE)}
             /\ receiveBins' = WithBin(receiveBins, BinOf(pad, m, FALSE))
    <3> DEFINE b == BinOf(pad, m, FALSE)
    <3>b. b \in Legs /\ b.pad = pad /\ b.mid = m /\ ~b.late
      BY <1>t DEF BinOf, Legs
    <3>x. \A x \in Legs : x.pad = pad /\ x.mid = m /\ ~x.late => x = b
      BY DEF Legs, BinOf
    <3>u. bins' = bins \cup {b} /\ HearsLegs
      BY <2>2
    <3>r. /\ DOMAIN receiveBins' = DOMAIN receiveBins \cup {pad.name}
          /\ receiveBins'[pad.name] = b
          /\ \A n \in DOMAIN receiveBins : n # pad.name /\ receiveBins'[n] = receiveBins[n]
          /\ receiveBins' = [n \in DOMAIN receiveBins' |-> receiveBins'[n]]
      <4>1. receiveBins' = WithBin(receiveBins, b) /\ b.pad.name = pad.name
        BY <2>2, <3>b
      <4> HIDE DEF b
      <4>2. /\ DOMAIN receiveBins' = DOMAIN receiveBins \cup {pad.name}
            /\ receiveBins'[pad.name] = b
            /\ \A n \in DOMAIN receiveBins : n # pad.name => receiveBins'[n] = receiveBins[n]
        BY <4>1, SMT DEF WithBin
      <4>3. receiveBins' = [n \in DOMAIN receiveBins' |-> receiveBins'[n]]
        BY <4>1 DEF WithBin
      <4> QED BY <4>2, <4>3, <2>n
    <3> HIDE DEF b
    <3>i. InPlay' \subseteq InPlay
      BY <1>0, <1>p, <3>u, <3>b, CallsLeft DEF InPlay
    <3>w. Waiting' = Waiting
      BY <1>0 DEF Waiting
    <3>o. \A p \in Waiting : p \in InPlay /\ p.pipe = pipe.at /\ p # pad
      BY <1>p DEF LegsInv, GenOK, RouteOK, Waiting, InPlay
    <3>1. LegTypes'
      <4>1. receiveBins' \in [DOMAIN receiveBins' -> Legs] /\ DOMAIN receiveBins' \subseteq Nat
        BY <1>t, <3>r, <3>b DEF LegsInv, LegTypes, Pads
      <4>2. bins' \subseteq Legs /\ calls' \in Seq(Calls)
        BY <3>u, <3>b, CallsLeft DEF LegsInv, LegTypes
      <4> QED BY <1>0, <4>1, <4>2 DEF LegsInv, LegTypes, Pops, legMachine, mediaVars
    <3>2. PhaseOK'
      BY <1>0, <3>i, <3>u DEF LegsInv, PhaseOK, HearsLegs, Pops, legMachine, mediaVars
    <3>3. NamesOK'
      BY <1>0, <3>i DEF LegsInv, NamesOK, Pops
    <3>4. GenOK'
      BY <1>0 DEF LegsInv, GenOK
    <3>5. RouteOK'
      <4>1. \A p \in Waiting' : p # pad /\ p.name # pad.name
        BY <1>p, <1>2, <3>w, <3>o DEF LegsInv, NamesOK
      <4>2. ASSUME NEW i \in AddsIn(calls'), calls'[i].pad.pipe = pipe'.at
            PROVE  /\ calls'[i].pad.name \notin DOMAIN receiveBins'
                   /\ \A j \in AddsIn(calls') : calls'[j].pad = calls'[i].pad => i = j
                   /\ calls'[i].built \/ \A x \in bins' : x.pad # calls'[i].pad
        <5>1. \A j \in AddsIn(calls') : j + 1 \in AddsIn(calls) /\ calls'[j] = calls[j + 1] /\ j \in Nat /\ j >= 1
          BY CallsLeft DEF AddsIn
        <5>2. calls[i + 1].pad.pipe = pipe.at /\ calls[i + 1].pad # pad
          BY <1>0, <4>2, <5>1, <2>n
        <5>3. calls[i + 1].pad \in InPlay
          BY <5>1 DEF InPlay, PadsIn
        <5>4. calls[i + 1].pad.name # pad.name
          BY <1>p, <1>2, <5>2, <5>3 DEF LegsInv, NamesOK
        <5>5. /\ calls[i + 1].pad.name \notin DOMAIN receiveBins
              /\ \A j \in AddsIn(calls) : calls[j].pad = calls[i + 1].pad => i + 1 = j
              /\ calls[i + 1].built \/ \A x \in bins : x.pad # calls[i + 1].pad
          BY <5>1, <5>2 DEF LegsInv, RouteOK
        <5> QED BY <5>1, <5>2, <5>4, <5>5, <3>r, <3>u, <3>b
      <4>3. \A p \in Waiting' : /\ p.name \notin DOMAIN receiveBins' /\ p \notin PadsIn(calls')
                                /\ \A x \in bins' : x.pad # p
        BY <4>1, <3>w, <3>r, <3>u, <3>b, CallsLeft DEF LegsInv, RouteOK
      <4> QED BY <4>2, <4>3 DEF RouteOK
    <3>6. BinsOK'
      <4>1. \A x \in bins' : x.pad.pipe = pipe'.at
        BY <1>0, <1>2, <3>u, <3>b DEF LegsInv, BinsOK
      <4>2. \A n \in DOMAIN receiveBins' : receiveBins'[n] \in bins' /\ receiveBins'[n].pad.name = n
        BY <3>u, <3>b, <3>r DEF LegsInv, BinsOK
      <4>3. ASSUME NEW x \in bins', ~\E n \in DOMAIN receiveBins' : receiveBins'[n] = x
            PROVE  ~x.late /\ \E i \in AddsIn(calls') : calls'[i].pad = x.pad /\ calls'[i].mid = x.mid
        <5>1. x \in bins /\ x # b /\ x \in Legs
          BY <4>3, <3>u, <3>r DEF LegsInv, LegTypes
        <5>2. ~\E n \in DOMAIN receiveBins : receiveBins[n] = x
          BY <4>3, <3>r
        <5>3. ~x.late /\ \E i \in AddsIn(calls) : calls[i].pad = x.pad /\ calls[i].mid = x.mid
          BY <5>1, <5>2 DEF LegsInv, BinsOK, Pops
        <5>4. PICK i \in AddsIn(calls) : calls[i].pad = x.pad /\ calls[i].mid = x.mid
          BY <5>3
        <5>5. i # 1
          BY <5>1, <5>3, <5>4, <3>x DEF pad, m
        <5> QED BY <5>3, <5>4, <5>5, CallsLeft
      <4> QED BY <4>1, <4>2, <4>3 DEF BinsOK
    <3>7. OrderOK' /\ StaleOK'
      BY <1>0, OrderLeft, StaleLeft DEF legMachine
    <3>8. EndedLegsGo'
      <4>1. ASSUME NEW x \in bins, x.pad \notin exposed
            PROVE  \E j \in 1 .. Len(calls') : calls'[j] = Removed(x.pad)
        <5>1. PICK i \in 1 .. Len(calls) : calls[i] = Removed(x.pad)
          BY <4>1 DEF LegsInv, EndedLegsGo
        <5>2. i # 1
          BY <1>0, <5>1 DEF Removed
        <5> QED BY <5>1, <5>2, RemovalsLeft
      <4>2. ASSUME pad \notin exposed
            PROVE  \E j \in 1 .. Len(calls') : calls'[j] = Removed(pad)
        <5>1. PICK j \in 1 + 1 .. Len(calls) : calls[j] = Removed(pad)
          BY <1>0, <1>2, <4>2 DEF LegsInv, OrderOK, pad
        <5>2. j \in 1 .. Len(calls) /\ j # 1
          BY CallsLeft
        <5> QED BY <5>1, <5>2, RemovalsLeft
      <4> QED BY <1>0, <3>u, <3>b, <4>1, <4>2 DEF EndedLegsGo
    <3>9. PicturesAreLive' /\ StoppedIsNotRevived'
      BY <1>0, <3>u, <3>b DEF LegsInv, PicturesAreLive, StoppedIsNotRevived, legMachine, mediaVars
    <3> QED BY <3>1, <3>2, <3>3, <3>4, <3>5, <3>6, <3>7, <3>8, <3>9 DEF LegsInv
  <2> QED BY <2>l, <2>1, <2>2
<1> QED BY <1>1, <1>2

\* What index_offer does with an offer.
IndexesOffer(o) == ssrcMids' = Indexed(o) /\ releases' = releases \cup LetGo(o)

\* What an offer says is indexed: the held pads it names are let go, and no pad
\* waits that did not.
LEMMA OfferIndexed ==
    ASSUME LegsInv, NEW o \in LegOffers, IndexesOffer(o), ~pipe.going, ~pipe'.going, pipe'.at = pipe.at
    PROVE  /\ ssrcMids' \in [mids : SUBSET Ssrcs, held : SUBSET Held, gen : Nat, inactive : SUBSET Sections]
           /\ releases' \subseteq Releases /\ ssrcMids'.inactive = o.inactive
           /\ GenOK' /\ Waiting' \subseteq Waiting
           /\ \A h \in ssrcMids'.held : h \in ssrcMids.held
           /\ \A r \in releases' : r \in releases \/ \E h \in ssrcMids.held : h.pad = r.pad
<1>o. o.ssrcs \subseteq Ssrcs /\ o.inactive \subseteq Sections
  BY LegsAssumption
<1>t. ssrcMids \in [mids : SUBSET Ssrcs, held : SUBSET Held, gen : Nat, inactive : SUBSET Sections]
  BY DEF LegsInv, LegTypes
<1> DEFINE left == {h \in ssrcMids.held : h.pad.ssrc \notin o.ssrcs}
<1>s. /\ ssrcMids' \in [mids : SUBSET Ssrcs, held : SUBSET Held, gen : Nat, inactive : SUBSET Sections]
      /\ ssrcMids'.held = left /\ ssrcMids'.gen = ssrcMids.gen /\ ssrcMids'.inactive = o.inactive
  BY <1>o, <1>t DEF IndexesOffer, Indexed
<1>g. \A r \in LetGo(o) : /\ r \in Releases /\ r.mid = Section[r.pad.ssrc] /\ r.gen = ssrcMids.gen
                          /\ r.pad.ssrc \in o.ssrcs
                          /\ \E h \in ssrcMids.held : h.pad = r.pad /\ h.gen = r.gen
  <2>1. SUFFICES ASSUME NEW h \in ssrcMids.held, h.pad.ssrc \in o.ssrcs,
                        NEW r, r = [pad |-> h.pad, mid |-> Section[h.pad.ssrc], gen |-> h.gen]
                 PROVE  /\ r \in Releases /\ r.mid = Section[r.pad.ssrc] /\ r.gen = ssrcMids.gen
                        /\ r.pad = h.pad /\ h.gen = r.gen
    BY DEF LetGo
  <2>2. h \in Held /\ h.gen = ssrcMids.gen
    BY <1>t DEF LegsInv, GenOK
  <2>3. Section[h.pad.ssrc] \in Sections
    BY <2>2, LegsAssumption DEF Held, Pads
  <2> QED BY <2>1, <2>2, <2>3 DEF Held, Releases
<1>r. \A r \in releases' : r \in releases \/ r \in LetGo(o)
  BY DEF IndexesOffer
<1> HIDE DEF left
<1>l. \A h \in left : h \in ssrcMids.held /\ h.pad.ssrc \notin o.ssrcs
  BY DEF left
<1>1. releases' \subseteq Releases
  BY <1>r, <1>g DEF LegsInv, LegTypes
<1>2. GenOK'
  <2>1. \A h \in ssrcMids'.held : h.gen = ssrcMids'.gen /\ h.pad.pipe = pipe'.at
    BY <1>s, <1>l DEF LegsInv, GenOK
  <2>2. ASSUME NEW r \in releases
        PROVE  /\ r.gen <= ssrcMids'.gen /\ r.mid = Section[r.pad.ssrc]
               /\ r.gen = ssrcMids'.gen => /\ r.pad.pipe = pipe'.at /\ ~pipe'.going
                                           /\ \A h \in ssrcMids'.held : h.pad # r.pad
    BY <1>s, <1>l DEF LegsInv, GenOK
  <2>3. ASSUME NEW r \in LetGo(o)
        PROVE  /\ r.gen <= ssrcMids'.gen /\ r.mid = Section[r.pad.ssrc]
               /\ r.gen = ssrcMids'.gen => /\ r.pad.pipe = pipe'.at /\ ~pipe'.going
                                           /\ \A h \in ssrcMids'.held : h.pad # r.pad
    BY <1>s, <1>l, <1>g, <1>t DEF LegsInv, GenOK
  <2> QED BY <1>r, <2>1, <2>2, <2>3 DEF GenOK
<1>3. Waiting' \subseteq Waiting
  BY <1>s, <1>l, <1>g, <1>r DEF Waiting
<1> QED BY <1>s, <1>l, <1>g, <1>r, <1>1, <1>2, <1>3

\* An offer that waits its turn keeps the legs in order.
LEMMA OfferQueuedLegs ==
    ASSUME LegsInv, Pops, NEW o \in LegOffers, IndexesOffer(o), voice = "OfferPending", heldOffer' = o,
           calls[1].op = "offer",
           UNCHANGED <<voice, answering, pipe, bins, receiveBins, mediaVars>>
    PROVE  LegsInv'
<1>x. /\ ssrcMids' \in [mids : SUBSET Ssrcs, held : SUBSET Held, gen : Nat, inactive : SUBSET Sections]
      /\ releases' \subseteq Releases
      /\ GenOK' /\ Waiting' \subseteq Waiting
      /\ \A h \in ssrcMids'.held : h \in ssrcMids.held
      /\ \A r \in releases' : r \in releases \/ \E h \in ssrcMids.held : h.pad = r.pad
  BY OfferIndexed DEF Pops
<1>q. calls' \in Seq(Calls) /\ PadsIn(calls') \subseteq PadsIn(calls)
  BY CallsLeft
<1>i. InPlay' \subseteq InPlay
  BY <1>q, <1>x DEF InPlay, Pops
<1>1. LegTypes'
  BY <1>q, <1>x DEF LegsInv, LegTypes, Pops, mediaVars
<1>2. PhaseOK'
  BY <1>i DEF LegsInv, PhaseOK, HearsLegs, mediaVars, Pops
<1>3. NamesOK'
  BY <1>i DEF LegsInv, NamesOK, Pops
<1>4. RouteOK' /\ OrderOK' /\ StaleOK'
  BY <1>x, RouteLeft, OrderLeft, StaleLeft
<1>5. BinsOK' /\ EndedLegsGo'
  <2>1. \A b \in bins : calls[1] # Removed(b.pad)
    BY DEF Removed
  <2> QED BY <2>1, LegsLeft
<1>6. PicturesAreLive'
  BY DEF LegsInv, PicturesAreLive, mediaVars
<1>7. StoppedIsNotRevived'
  BY LegsAssumption DEF StoppedIsNotRevived
<1> QED BY <1>1, <1>2, <1>3, <1>4, <1>5, <1>6, <1>7, <1>x DEF LegsInv

\* An offer that is taken does: the sections it makes inactive lose their legs
\* and pictures, and an earlier pipeline's calls have run.
LEMMA NegotiatedLegs ==
    ASSUME LegsInv, Pops, NEW o \in LegOffers, IndexesOffer(o), NegotiateLegs(o),
           voice' = "OfferPending", heldOffer' \in LegOffers \cup {NoOffer},
           calls[1].op \in {"offer", "answer"},
           \/ HearsLegs
           \/ voice = "JoinSent" /\ calls[1].op = "offer" /\ calls[1].room = inRoom
    PROVE  LegsInv'
<1>p. /\ pipe'.at = pipe.at /\ pipe'.open /\ ~pipe'.going /\ ~pipe.going
      /\ pipe' \in [at : Nat, open : BOOLEAN, going : BOOLEAN]
  BY DEF NegotiateLegs, LegsInv, LegTypes, Pops
<1>x. /\ ssrcMids' \in [mids : SUBSET Ssrcs, held : SUBSET Held, gen : Nat, inactive : SUBSET Sections]
      /\ releases' \subseteq Releases /\ ssrcMids'.inactive = o.inactive
      /\ GenOK' /\ Waiting' \subseteq Waiting
      /\ \A h \in ssrcMids'.held : h \in ssrcMids.held
      /\ \A r \in releases' : r \in releases \/ \E h \in ssrcMids.held : h.pad = r.pad
  BY <1>p, OfferIndexed
<1> DEFINE stopped == {n \in DOMAIN receiveBins : receiveBins[n].mid \in o.inactive}
           rest == Restrict(receiveBins, DOMAIN receiveBins \ stopped)
<1>n. /\ receiveBins' = rest /\ EndStreams(o.inactive)
      /\ \A x : x \in bins' <=> x \in bins /\ \A n \in stopped : x # receiveBins[n]
  BY DEF NegotiateLegs
<1>r. /\ DOMAIN rest = DOMAIN receiveBins \ stopped
      /\ \A n \in DOMAIN rest : rest[n] = receiveBins[n]
      /\ rest = [n \in DOMAIN rest |-> rest[n]]
  BY DEF Restrict
<1>s. \A n \in DOMAIN receiveBins : n \in stopped <=> receiveBins[n].mid \in o.inactive
  OBVIOUS
<1>v. stopped \subseteq DOMAIN receiveBins
  OBVIOUS
<1> HIDE DEF stopped, rest
<1>b. bins' \subseteq bins /\ DOMAIN receiveBins' \subseteq DOMAIN receiveBins
  BY <1>n, <1>r
<1>m. /\ \A m \in Pictures : store'[m] = IF m \in o.inactive THEN "none" ELSE store[m]
      /\ store' \in [Pictures -> {"none", "fresh", "taken"}] /\ pictures' = pictures \ o.inactive
  BY <1>n DEF EndStreams, LegsInv, LegTypes
<1>q. calls' \in Seq(Calls) /\ PadsIn(calls') \subseteq PadsIn(calls)
  BY CallsLeft
<1>i. InPlay' \subseteq InPlay
  BY <1>q, <1>x, <1>b DEF InPlay, Pops
<1>1. LegTypes'
  <2>1. receiveBins' \in [DOMAIN receiveBins' -> Legs] /\ DOMAIN receiveBins' \subseteq Nat
    BY <1>n, <1>r DEF LegsInv, LegTypes
  <2>2. bins' \subseteq Legs /\ pictures' \subseteq Pictures
    BY <1>b, <1>m DEF LegsInv, LegTypes
  <2> QED BY <1>p, <1>q, <1>x, <1>m, <2>1, <2>2 DEF LegsInv, LegTypes, Pops
<1>2. PhaseOK'
  BY <1>p DEF PhaseOK, HearsLegs
<1>3. NamesOK'
  BY <1>i, <1>p DEF LegsInv, NamesOK, Pops
<1>4. RouteOK' /\ OrderOK'
  BY <1>x, <1>b, <1>p, RouteLeft, OrderLeft
<1>5. BinsOK'
  <2>1. \A x \in bins' : x.pad.pipe = pipe'.at
    BY <1>b, <1>p DEF LegsInv, BinsOK
  <2>2. \A n \in DOMAIN rest : rest[n] \in bins' /\ rest[n].pad.name = n
    <3>1. SUFFICES ASSUME NEW n \in DOMAIN rest
                   PROVE  rest[n] \in bins' /\ rest[n].pad.name = n
      OBVIOUS
    <3>2. n \in DOMAIN receiveBins /\ n \notin stopped /\ rest[n] = receiveBins[n]
      BY <1>r
    <3>3. receiveBins[n] \in bins /\ receiveBins[n].pad.name = n /\ receiveBins[n].mid \notin o.inactive
      BY <3>2, <1>s DEF LegsInv, BinsOK
    <3>4. \A k \in stopped : receiveBins[n] # receiveBins[k]
      BY <3>3, <1>s, <1>v
    <3> QED BY <3>2, <3>3, <3>4, <1>n
  <2>3. ASSUME NEW x \in bins', ~\E n \in DOMAIN rest : rest[n] = x
        PROVE  ~x.late /\ \E i \in AddsIn(calls') : calls'[i].pad = x.pad /\ calls'[i].mid = x.mid
    <3>1. x \in bins /\ ~\E n \in DOMAIN receiveBins : receiveBins[n] = x
      BY <2>3, <1>n, <1>r
    <3>2. ~x.late /\ \E i \in AddsIn(calls) : calls[i].pad = x.pad /\ calls[i].mid = x.mid
      BY <3>1, <1>p DEF LegsInv, BinsOK
    <3>3. \A i \in AddsIn(calls) : i # 1
      BY DEF AddsIn
    <3> QED BY <3>2, <3>3, CallsLeft
  <2> QED BY <1>n, <2>1, <2>2, <2>3 DEF BinsOK
<1>6. StaleOK'
  <2>1. CASE HearsLegs
    BY <2>1, CallsLeft, <1>p DEF LegsInv, StaleOK, HearsLegs
  <2>2. CASE voice = "JoinSent" /\ calls[1].op = "offer" /\ calls[1].room = inRoom
    <3>1. \A j \in AddsIn(calls) : j < 1
      BY <2>2, CallsLeft DEF LegsInv, StaleOK
    <3>2. AddsIn(calls') = {}
      BY <3>1, CallsLeft DEF AddsIn
    <3> QED BY <3>2 DEF StaleOK
  <2> QED BY <2>1, <2>2
<1>7. EndedLegsGo'
  <2>1. ASSUME NEW x \in bins, x.pad \notin exposed
        PROVE  \E j \in 1 .. Len(calls') : calls'[j] = Removed(x.pad)
    <3>1. PICK i \in 1 .. Len(calls) : calls[i] = Removed(x.pad)
      BY <2>1 DEF LegsInv, EndedLegsGo
    <3>2. i # 1
      BY <3>1 DEF Removed
    <3> QED BY <3>1, <3>2, RemovalsLeft
  <2> QED BY <1>b, <2>1 DEF EndedLegsGo, Pops
<1>8. PicturesAreLive'
  <2>1. SUFFICES ASSUME NEW m \in Pictures, store'[m] # "none" \/ m \in pictures'
                 PROVE  \E x \in bins' : x.mid = m
    BY DEF PicturesAreLive
  <2>2. m \notin o.inactive /\ (store[m] # "none" \/ m \in pictures)
    BY <1>m, <2>1
  <2>3. PICK x \in bins : x.mid = m
    BY <2>2, <1>p DEF LegsInv, PicturesAreLive
  <2>4. \A n \in stopped : x # receiveBins[n]
    BY <2>2, <2>3, <1>s, <1>v
  <2> QED BY <2>3, <2>4, <1>n
<1>9. StoppedIsNotRevived'
  <2>1. SUFFICES ASSUME NEW x \in bins', x.late, x.mid \in o.inactive
                 PROVE  FALSE
    BY <1>x DEF StoppedIsNotRevived
  <2>2. PICK n \in DOMAIN receiveBins : receiveBins[n] = x
    BY <2>1, <1>b, <1>p DEF LegsInv, BinsOK
  <2> QED BY <2>1, <2>2, <1>s, <1>n
<1> QED BY <1>1, <1>2, <1>3, <1>4, <1>5, <1>6, <1>7, <1>8, <1>9, <1>x DEF LegsInv

\* An offer or an answer that is passed over keeps them in order.
LEMMA PassedOverLegs ==
    ASSUME LegsInv, Pops, calls[1].op \in {"offer", "answer"},
           UNCHANGED <<heldOffer, answering, pipe, bins, receiveBins, ssrcMids, releases, mediaVars>>,
           voice' = voice \/ (voice = "OfferPending" /\ voice' = "Connected")
    PROVE  LegsInv'
<1>q. calls' \in Seq(Calls) /\ PadsIn(calls') \subseteq PadsIn(calls)
  BY CallsLeft
<1>i. InPlay' \subseteq InPlay /\ Waiting' = Waiting
  BY <1>q DEF InPlay, Waiting, Pops
<1>1. LegTypes'
  BY <1>q DEF LegsInv, LegTypes, Pops, mediaVars
<1>2. PhaseOK'
  BY <1>i DEF LegsInv, PhaseOK, HearsLegs, mediaVars, Pops
<1>3. NamesOK' /\ GenOK'
  BY <1>i DEF LegsInv, NamesOK, GenOK, Pops
<1>4. RouteOK' /\ OrderOK' /\ StaleOK'
  BY <1>i, RouteLeft, OrderLeft, StaleLeft DEF HearsLegs
<1>5. BinsOK' /\ EndedLegsGo'
  <2>1. \A b \in bins : calls[1] # Removed(b.pad)
    BY DEF Removed
  <2> QED BY <2>1, LegsLeft
<1>6. PicturesAreLive' /\ StoppedIsNotRevived'
  BY DEF LegsInv, PicturesAreLive, StoppedIsNotRevived, mediaVars
<1> QED BY <1>1, <1>2, <1>3, <1>4, <1>5, <1>6 DEF LegsInv

\* An offer that the main loop takes does.
LEMMA OfferedLegs ==
    ASSUME LegsInv, Pops, Offered(Head(calls))
    PROVE  LegsInv'
<1>0. calls[1].op = "offer" /\ calls[1] \in Calls /\ Head(calls) = calls[1]
  BY CallsLeft DEF Offered
<1>1. calls[1].body \in LegOffers
  BY <1>0 DEF Calls, Adding, Removing
<1>2. CASE voice # "Idle" /\ calls[1].room = inRoom
  <2>1. IndexesOffer(calls[1].body)
    BY <1>0, <1>2 DEF Offered, IndexesOffer
  <2>2. CASE voice = "OfferPending"
    BY <1>0, <1>1, <1>2, <2>1, <2>2, OfferQueuedLegs DEF Offered
  <2>3. CASE voice # "OfferPending"
    <3>1. /\ voice' = "OfferPending" /\ NegotiateLegs(calls[1].body) /\ heldOffer' = heldOffer
      BY <1>0, <1>2, <2>3 DEF Offered
    <3>2. HearsLegs \/ voice = "JoinSent"
      BY <1>2 DEF LegsInv, LegTypes, HearsLegs
    <3>3. heldOffer' \in LegOffers \cup {NoOffer}
      BY <3>1 DEF LegsInv, LegTypes
    <3> QED BY <1>0, <1>1, <1>2, <2>1, <3>1, <3>2, <3>3, NegotiatedLegs
  <2> QED BY <2>2, <2>3
<1>3. CASE ~(voice # "Idle" /\ calls[1].room = inRoom)
  BY <1>0, <1>3, PassedOverLegs DEF Offered
<1> QED BY <1>2, <1>3

\* An answer that is told of does.
LEMMA AnsweredLegs ==
    ASSUME LegsInv, Pops, Answered(Head(calls))
    PROVE  LegsInv'
<1>0. calls[1].op = "answer" /\ Head(calls) = calls[1]
  BY CallsLeft DEF Answered
<1>1. CASE calls[1].pipe = pipe.at /\ voice = "OfferPending" /\ heldOffer # NoOffer
  <2>1. /\ NegotiateLegs(heldOffer) /\ IndexesOffer(heldOffer) /\ heldOffer' = NoOffer /\ voice' = voice
    BY <1>0, <1>1 DEF Answered, IndexesOffer
  <2>2. heldOffer \in LegOffers
    BY <1>1 DEF LegsInv, LegTypes
  <2>3. HearsLegs /\ voice' = "OfferPending" /\ heldOffer' \in LegOffers \cup {NoOffer}
    BY <1>1, <2>1 DEF HearsLegs
  <2> QED BY <1>0, <2>1, <2>2, <2>3, NegotiatedLegs
<1>2. CASE calls[1].pipe = pipe.at /\ voice = "OfferPending" /\ heldOffer = NoOffer
  BY <1>0, <1>2, PassedOverLegs DEF Answered
<1>3. CASE ~(calls[1].pipe = pipe.at /\ voice = "OfferPending")
  BY <1>0, <1>3, PassedOverLegs DEF Answered
<1> QED BY <1>1, <1>2, <1>3

\* Whatever the main loop runs does.
LEMMA RunCallLegs ==
    ASSUME LegsInv, RunCall
    PROVE  LegsInv'
<1>1. /\ \/ Offered(Head(calls)) \/ Answered(Head(calls)) \/ Adds(Head(calls))
         \/ Removes(Head(calls)) \/ Shows(Head(calls))
  BY DEF RunCall
<1>2. Pops
  BY <1>1 DEF RunCall, Pops, Offered, Answered, Adds, Removes, Shows, legMachine
<1> QED BY <1>1, <1>2, OfferedLegs, AnsweredLegs, AddsLegs, RemovesLegs, ShowsLegs

\* The legs' invariant holds in every state of every session.
THEOREM LegsInvAlways == LegsSpec => []LegsInv
<1>1. LegsInit => LegsInv
  <2> SUFFICES ASSUME LegsInit PROVE LegsInv
    OBVIOUS
  <2>1. LegTypes
    BY DEF LegsInit, LegTypes, Calls
  <2>2. InPlay = {} /\ AddsIn(calls) = {} /\ Waiting = {}
    BY DEF LegsInit, InPlay, PadsIn, AddsIn, Waiting
  <2>3. PhaseOK /\ NamesOK
    BY <2>2 DEF LegsInit, PhaseOK, NamesOK, HearsLegs
  <2>4. GenOK /\ RouteOK /\ BinsOK /\ OrderOK
    BY <2>2 DEF LegsInit, GenOK, RouteOK, BinsOK, OrderOK
  <2>5. StaleOK /\ EndedLegsGo /\ PicturesAreLive /\ StoppedIsNotRevived
    BY <2>2 DEF LegsInit, StaleOK, HearsLegs, EndedLegsGo, PicturesAreLive, StoppedIsNotRevived
  <2> QED BY <2>1, <2>3, <2>4, <2>5 DEF LegsInv
<1>2. LegsInv /\ [LegsNext]_legsVars => LegsInv'
  <2> SUFFICES ASSUME LegsInv, [LegsNext]_legsVars PROVE LegsInv'
    OBVIOUS
  <2>1. CASE LegsNext
    BY <2>1, PadAddedLegs, PadRemovedLegs, FrameLegs, SendOfferLegs, JoinLegsLegs, AnswerMadeLegs,
       RunCallLegs, RunReleaseLegs, HoldEndsLegs, TearDownLegsLegs, RebuildPipeLegs DEF LegsNext
  <2>2. CASE UNCHANGED legsVars
    BY <2>2 DEF legsVars, LegsInv, LegTypes, PhaseOK, NamesOK, GenOK, RouteOK, BinsOK, OrderOK, StaleOK,
                EndedLegsGo, PicturesAreLive, StoppedIsNotRevived, InPlay, Waiting, HearsLegs
  <2> QED BY <2>1, <2>2
<1> QED BY <1>1, <1>2, PTL DEF LegsSpec

\* connect_pad_added, connect_pad_removed and index_offer: through removals,
\* stops, rejoins and switches of room, with closures of an earlier pipeline
\* still to run, what plays is listed or will be, what has ended is on its way
\* out, a picture has a leg behind it, and a stopped section is not revived.
THEOREM LegsAreAlwaysTheSessions == LegsSpec => []LegsAreTheSessions
<1>1. LegsInv => LegsAreTheSessions
  <2> SUFFICES ASSUME LegsInv PROVE LegsAreListed
    BY DEF LegsInv, LegsAreTheSessions
  <2>1. ASSUME NEW n \in DOMAIN receiveBins
        PROVE  receiveBins[n] \in Range(receiveBins)
    BY DEF Range
  <2> QED BY <2>1 DEF LegsInv, BinsOK, LegsAreListed, Told, AddsIn
<1> QED BY <1>1, LegsInvAlways, PTL

=============================================================================
