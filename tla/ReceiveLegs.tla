---------------------------- MODULE ReceiveLegs ----------------------------
(***************************************************************************)
(* The receive legs of a voice session (hxvoice-runtime/src/runtime.rs:    *)
(* connect_pad_added, on_receive_pad, index_offer, connect_pad_removed,    *)
(* reset_and_rebuild_pipeline; video.rs: FrameStore).                      *)
(*                                                                         *)
(* webrtcbin's streaming threads expose a pad when RTP of an SSRC arrives  *)
(* and take it back when it stops; a pad is given a bin (a leg) named for  *)
(* the section it belongs to.  Which section that is, an offer says, and   *)
(* RTP may be ahead of its offer: such a video pad is held.  What the      *)
(* threads do is told to the main thread by closures, run in order, after  *)
(* which the session may be another, with another pipeline.                *)
(*                                                                         *)
(* The session machine is cut down to what legs depend on: Connecting and  *)
(* Connected are one state, and Idle stands for Leaving and Failed too.    *)
(***************************************************************************)
EXTENDS Naturals, Sequences, FiniteSets, Functions

CONSTANTS
    LegRooms,      \* the chats whose voice can be joined
    Ssrcs,      \* the streams' SSRCs
    Section,    \* the section (mid) each belongs to
    Pictures,   \* the sections that carry video
    LegOffers,     \* offers: [ssrcs : SUBSET Ssrcs, inactive : SUBSET Sections]
    NoRoom,     \* no room is joined
    NoOffer,    \* no offer is queued
    NoSection,  \* a pad's transceiver names no section
    MaxPads,    \* bound: pads of one pipeline
    MaxOffers,  \* bound: offers offersSent
    MaxCalls,   \* bound: calls waiting for the main loop
    MaxPipes    \* bound: pipelines built

Sections == Range(Section)

\* What lookup_pad_mid may say of a pad: it need not be right.
Transceiver == Sections \cup {NoSection}

ASSUME LegsAssumption ==
    /\ Section \in [Ssrcs -> Sections] /\ Pictures \subseteq Sections
    /\ NoSection \notin Sections /\ NoOffer \notin LegOffers /\ NoRoom \notin LegRooms
    /\ LegOffers \subseteq [ssrcs : SUBSET Ssrcs, inactive : SUBSET Sections]

VARIABLES
    voice,        \* SessionMachine::state
    inRoom,       \* active_cid
    heldOffer,  \* queued_offer
    answering,    \* webrtcbin is making an answer
    pipe,         \* which pipeline is the current one, and whether it is going
    exposed,      \* pads webrtcbin has exposed and not removed
    padCount,     \* the last pad's number
    bins,         \* receive bins playing in the current pipeline
    receiveBins,  \* receive_bins, by the pad's name
    ssrcMids,     \* SsrcRouting
    calls,        \* closures and frames waiting for the main loop, oldest first
    releases,     \* idle sources that release a held pad
    store,        \* FrameStore::slots
    noticed,      \* FrameStore::pending
    pictures,     \* the panel's tiles that show a picture
    offersSent          \* offers offersSent (bound)

legsVars == <<voice, inRoom, heldOffer, answering, pipe, exposed, padCount, bins, receiveBins,
              ssrcMids, calls, releases, store, noticed, pictures, offersSent>>
legMachine == <<voice, inRoom, heldOffer, answering>>
mediaVars == <<store, noticed, pictures>>

HearsLegs == voice \in {"OfferPending", "Connected"}

LegsInit ==
    /\ voice = "Idle" /\ inRoom = NoRoom /\ heldOffer = NoOffer /\ answering = FALSE
    /\ pipe = [at |-> 1, open |-> FALSE, going |-> FALSE]
    /\ exposed = {} /\ padCount = 0
    /\ bins = {} /\ receiveBins = <<>>
    /\ ssrcMids = [mids |-> {}, held |-> {}, gen |-> 0, inactive |-> {}]
    /\ calls = <<>> /\ releases = {}
    /\ store = [m \in Pictures |-> "none"] /\ noticed = FALSE /\ pictures = {}
    /\ offersSent = 0

-----------------------------------------------------------------------------
(* The streaming threads.                                                   *)

BinOf(pad, m, late) == [pad |-> pad, mid |-> m, late |-> late]
Added(pad, m, built) == [op |-> "added", pad |-> pad, mid |-> m, built |-> built]
CallFits == Len(calls) < MaxCalls
Removed(pad) == [op |-> "removed", name |-> pad.name]

\* connect_pad_added's route, from a streaming thread: the bin is built and
\* linked there and then, or cannot be, and the main thread is told.
RouteHere(pad, m) ==
    IF m = NoSection THEN UNCHANGED <<bins, calls>>
    ELSE \E built \in BOOLEAN :
            /\ bins' = IF built THEN bins \cup {BinOf(pad, m, FALSE)} ELSE bins
            /\ calls' = Append(calls, Added(pad, m, built))

\* pad_route and on_receive_pad: by the section an offer declared; held, if it
\* is video and offers declare SSRCs but not this one yet; else by the
\* transceiver, which need not be right.
PadAdded(s) ==
    /\ CallFits /\ pipe.open /\ padCount < MaxPads
    /\ \A p \in exposed : p.pipe = pipe.at => p.ssrc # s
    /\ padCount' = padCount + 1
    /\ LET pad == [pipe |-> pipe.at, name |-> padCount', ssrc |-> s]
       IN  /\ exposed' = exposed \cup {pad}
           /\ \/ /\ s \in ssrcMids.mids
                 /\ RouteHere(pad, Section[s])
                 /\ UNCHANGED ssrcMids
              \/ /\ s \notin ssrcMids.mids
                 /\ ssrcMids.mids = {} \/ Section[s] \notin Pictures
                 /\ \E t \in Transceiver : RouteHere(pad, t)
                 /\ UNCHANGED ssrcMids
              \/ /\ s \notin ssrcMids.mids
                 /\ ssrcMids.mids # {} /\ Section[s] \in Pictures
                 /\ ssrcMids' = [ssrcMids EXCEPT !.held = @ \cup {[pad |-> pad, gen |-> ssrcMids.gen]}]
                 /\ UNCHANGED <<bins, calls>>
    /\ UNCHANGED <<legMachine, pipe, receiveBins, releases, mediaVars, offersSent>>

\* connect_pad_removed: the stream has ended or timed out.
PadRemoved(pad) ==
    /\ CallFits /\ pipe.open /\ pad \in exposed /\ pad.pipe = pipe.at
    /\ exposed' = exposed \ {pad}
    /\ calls' = Append(calls, Removed(pad))
    /\ UNCHANGED <<legMachine, pipe, padCount, bins, receiveBins, ssrcMids, releases, mediaVars, offersSent>>

\* FrameStore::put and schedule_frames_notice, from a leg's appsink.
Frame(b) ==
    /\ CallFits /\ pipe.open /\ b \in bins /\ b.pad \in exposed /\ b.mid \in Pictures
    /\ store' = [store EXCEPT ![b.mid] = "fresh"]
    /\ noticed' = TRUE
    /\ calls' = IF noticed THEN calls ELSE Append(calls, [op |-> "frames"])
    /\ UNCHANGED <<legMachine, pipe, exposed, padCount, bins, receiveBins, ssrcMids, releases,
                   pictures, offersSent>>

\* webrtcbin resolves the promise of an answer.
AnswerMade ==
    /\ CallFits /\ answering
    /\ answering' = FALSE
    /\ calls' = Append(calls, [op |-> "answer", pipe |-> pipe.at])
    /\ UNCHANGED <<voice, inRoom, heldOffer, pipe, exposed, padCount, bins, receiveBins,
                   ssrcMids, releases, mediaVars, offersSent>>

\* The server offers, in answer to our join or because the room changed.
SendOffer(o) ==
    /\ CallFits /\ ~pipe.going /\ voice # "Idle" /\ offersSent < MaxOffers
    /\ calls' = Append(calls, [op |-> "offer", room |-> inRoom, body |-> o])
    /\ offersSent' = offersSent + 1
    /\ UNCHANGED <<legMachine, pipe, exposed, padCount, bins, receiveBins, ssrcMids, releases,
                   mediaVars>>

-----------------------------------------------------------------------------
(* The main thread.                                                         *)

\* stop_receive_bin and what follows it for the legs of a section: the frame
\* goes and the panel's tile is blanked (StreamEnded).
EndStreams(ms) ==
    /\ store' = [m \in Pictures |-> IF m \in ms THEN "none" ELSE store[m]]
    /\ pictures' = pictures \ ms
    /\ UNCHANGED noticed

\* index_offer_ssrcs: what an offer says of sections and SSRCs, and the held
\* pads it names, which go to idle sources.
Indexed(o) ==
    [ssrcMids EXCEPT !.mids = @ \cup o.ssrcs,
                     !.held = {h \in @ : h.pad.ssrc \notin o.ssrcs},
                     !.inactive = o.inactive]
LetGo(o) ==
    {[pad |-> h.pad, mid |-> Section[h.pad.ssrc], gen |-> h.gen] :
        h \in {x \in ssrcMids.held : x.pad.ssrc \in o.ssrcs}}

\* The machine's StopReceivePipeline for each inactive section, then
\* SetRemoteDescription.
NegotiateLegs(o) ==
    LET stopped == {n \in DOMAIN receiveBins : receiveBins[n].mid \in o.inactive}
    IN  /\ receiveBins' = Restrict(receiveBins, DOMAIN receiveBins \ stopped)
        /\ bins' = bins \ {receiveBins[n] : n \in stopped}
        /\ EndStreams(o.inactive)
        /\ answering' = TRUE
        /\ pipe' = [pipe EXCEPT !.open = TRUE]

\* handle_event of an offer: indexed on arrival, then taken, or queued behind
\* the answer being made.  An offer of another room is neither.
Offered(m) ==
    /\ m.op = "offer"
    /\ IF voice # "Idle" /\ m.room = inRoom
       THEN /\ ssrcMids' = Indexed(m.body) /\ releases' = releases \cup LetGo(m.body)
            /\ \/ /\ voice = "OfferPending"
                  /\ heldOffer' = m.body
                  /\ UNCHANGED <<voice, answering, pipe, bins, receiveBins, mediaVars>>
               \/ /\ voice # "OfferPending"
                  /\ voice' = "OfferPending"
                  /\ NegotiateLegs(m.body)
                  /\ UNCHANGED heldOffer
       ELSE UNCHANGED <<voice, heldOffer, answering, pipe, bins, receiveBins, ssrcMids, releases,
                        mediaVars>>
    /\ UNCHANGED <<inRoom, exposed>>

\* WebrtcAnswerCreated: the queued offer, if there is one, is taken in its turn
\* and indexed once more.
Answered(m) ==
    /\ m.op = "answer"
    /\ IF m.pipe = pipe.at /\ voice = "OfferPending"
       THEN IF heldOffer # NoOffer
            THEN /\ NegotiateLegs(heldOffer)
                 /\ ssrcMids' = Indexed(heldOffer) /\ releases' = releases \cup LetGo(heldOffer)
                 /\ heldOffer' = NoOffer
                 /\ UNCHANGED voice
            ELSE /\ voice' = "Connected"
                 /\ UNCHANGED <<heldOffer, answering, pipe, bins, receiveBins, ssrcMids, releases,
                                mediaVars>>
       ELSE UNCHANGED <<voice, heldOffer, answering, pipe, bins, receiveBins, ssrcMids, releases,
                        mediaVars>>
    /\ UNCHANGED <<inRoom, exposed>>

\* The list with a bin put in, under its pad's name.
WithBin(list, b) ==
    [n \in DOMAIN list \cup {b.pad.name} |-> IF n = b.pad.name THEN b ELSE list[n]]

\* The main-thread half of a route: the bin is listed while a session will look
\* after it, and stopped otherwise; a pad without a bin is tried once more.
ListBin(pad, m, built, late) ==
    \/ /\ built /\ HearsLegs
       /\ receiveBins' = WithBin(receiveBins, BinOf(pad, m, late))
       /\ bins' = bins \cup {BinOf(pad, m, late)}
    \/ /\ built /\ ~HearsLegs
       /\ bins' = bins \ {BinOf(pad, m, late)}
       /\ UNCHANGED receiveBins
    \/ /\ ~built /\ HearsLegs
       /\ receiveBins' = WithBin(receiveBins, BinOf(pad, m, late))
       /\ bins' = (bins \ {b \in bins : b.pad.name = pad.name}) \cup {BinOf(pad, m, late)}
    \/ /\ ~built
       /\ UNCHANGED <<bins, receiveBins>>

Adds(m) ==
    /\ m.op = "added"
    /\ ListBin(m.pad, m.mid, m.built, FALSE)
    /\ UNCHANGED <<legMachine, pipe, exposed, ssrcMids, releases, mediaVars>>

\* on_receive_pad_removed: the pad's own leg goes; its section's picture stays
\* if another leg has it.
Removes(m) ==
    /\ m.op = "removed"
    /\ IF m.name \in DOMAIN receiveBins
       THEN LET b == receiveBins[m.name]
                rest == Restrict(receiveBins, DOMAIN receiveBins \ {m.name})
            IN  /\ receiveBins' = rest
                /\ bins' = bins \ {b}
                /\ EndStreams({b.mid} \ {rest[n].mid : n \in DOMAIN rest})
       ELSE UNCHANGED <<bins, receiveBins, mediaVars>>
    /\ UNCHANGED <<legMachine, pipe, exposed, ssrcMids, releases>>

\* The frames notice: the panel, if it has tiles, takes what is fresh.
Shows(m) ==
    /\ m.op = "frames"
    /\ noticed' = FALSE
    /\ IF HearsLegs
       THEN LET new == {k \in Pictures : store[k] = "fresh"}
            IN  /\ pictures' = pictures \cup new
                /\ store' = [k \in Pictures |-> IF k \in new THEN "taken" ELSE store[k]]
       ELSE UNCHANGED <<store, pictures>>
    /\ UNCHANGED <<legMachine, pipe, exposed, bins, receiveBins, ssrcMids, releases>>

RunCall ==
    /\ ~pipe.going /\ calls # <<>>
    /\ calls' = Tail(calls)
    /\ LET m == Head(calls) IN Offered(m) \/ Answered(m) \/ Adds(m) \/ Removes(m) \/ Shows(m)
    /\ UNCHANGED <<padCount, offersSent>>

\* Mutated form: a held pad is released into a section that has gone inactive.
ReleaseStopped(pad, m, g) ==
    IF g = ssrcMids.gen /\ m # NoSection /\ pad \in exposed
    THEN \E built \in BOOLEAN : ListBin(pad, m, built, TRUE)
    ELSE UNCHANGED <<bins, receiveBins>>

\* A held pad's release: not one of an earlier session, of a section that has
\* gone inactive, or that webrtcbin has taken back.  On the main thread the
\* route's two halves are one.
ReleasePad(pad, m, g) ==
    IF /\ g = ssrcMids.gen /\ m \notin ssrcMids.inactive /\ m # NoSection
       /\ pad \in exposed
    THEN \E built \in BOOLEAN : ListBin(pad, m, built, TRUE)
    ELSE UNCHANGED <<bins, receiveBins>>

\* An idle source: it runs when nothing else waits.
RunRelease ==
    /\ ~pipe.going /\ calls = <<>>
    /\ \E r \in releases :
         /\ releases' = releases \ {r}
         /\ ReleasePad(r.pad, r.mid, r.gen)
    /\ UNCHANGED <<legMachine, pipe, exposed, padCount, ssrcMids, calls, mediaVars, offersSent>>

\* HOLD_DEADLINE: no offer has named the pad; its transceiver has to do.
HoldEnds ==
    /\ ~pipe.going
    /\ \E h \in ssrcMids.held :
         /\ ssrcMids' = [ssrcMids EXCEPT !.held = @ \ {h}]
         /\ \E t \in Transceiver : ReleasePad(h.pad, t, h.gen)
    /\ UNCHANGED <<legMachine, pipe, exposed, padCount, calls, releases, mediaVars, offersSent>>

-----------------------------------------------------------------------------
(* Joining, leaving and switching.                                          *)

\* A click that joins a room comes once the loop has run the offers of the room
\* before it: an offer of a room left and joined again is VoiceSession's business.
NoOfferOf(r) == \A i \in 1 .. Len(calls) : calls[i].op = "offer" => calls[i].room # r

\* A click on Join.
JoinLegs(r) ==
    /\ ~pipe.going /\ voice = "Idle" /\ NoOfferOf(r)
    /\ voice' = "JoinSent" /\ inRoom' = r
    /\ UNCHANGED <<heldOffer, answering, pipe, exposed, padCount, bins, receiveBins, ssrcMids,
                   calls, releases, mediaVars, offersSent>>

\* VideoRt::reset_legs and SsrcRouting::clear.
Cleared == [mids |-> {}, held |-> {}, gen |-> ssrcMids.gen + 1, inactive |-> {}]

\* Action::TearDown up to set_state(Null): the maps are emptied, and the panel, told of
\* the new state, has no tiles left.  The old pipeline's threads still run.
TearDownLegs ==
    /\ ~pipe.going /\ pipe.at < MaxPipes /\ voice # "Idle"
    /\ \/ voice' = "Idle" /\ inRoom' = NoRoom
       \/ voice' = "JoinSent" /\ inRoom' \in {r \in LegRooms \ {inRoom} : NoOfferOf(r)}
    /\ heldOffer' = NoOffer /\ answering' = FALSE
    /\ pipe' = [pipe EXCEPT !.going = TRUE]
    /\ receiveBins' = <<>>
    /\ ssrcMids' = Cleared
    /\ pictures' = {}
    /\ UNCHANGED <<exposed, padCount, bins, calls, releases, store, noticed, offersSent>>

\* What reset_and_rebuild_pipeline empties once the pipeline is down.
FramesCleared == [m \in Pictures |-> "none"]

\* The pipeline is at Null: its threads are done and the next one is built.
\* Whether the old webrtcbin still is its pads' parent is left open.
RebuildPipe ==
    /\ pipe.going
    /\ pipe' = [at |-> pipe.at + 1, open |-> FALSE, going |-> FALSE]
    /\ exposed' \in {{}, exposed}
    /\ padCount' = 0
    /\ bins' = {}
    /\ store' = FramesCleared
    /\ UNCHANGED <<legMachine, receiveBins, ssrcMids, calls, releases, noticed, pictures, offersSent>>

LegsNext ==
    \/ \E s \in Ssrcs : PadAdded(s)
    \/ \E pad \in exposed : PadRemoved(pad)
    \/ \E b \in bins : Frame(b)
    \/ \E o \in LegOffers : SendOffer(o)
    \/ \E r \in LegRooms : JoinLegs(r)
    \/ AnswerMade \/ RunCall \/ RunRelease \/ HoldEnds \/ TearDownLegs \/ RebuildPipe

LegsSpec == LegsInit /\ [][LegsNext]_legsVars

-----------------------------------------------------------------------------
(* Properties.                                                              *)

Told(b) == \E i \in 1 .. Len(calls) : calls[i].op = "added" /\ calls[i].pad = b.pad /\ calls[i].mid = b.mid

\* The variables hold values of their types.
LegsTypeOK ==
    /\ voice \in {"Idle", "JoinSent", "OfferPending", "Connected"} /\ inRoom \in LegRooms \cup {NoRoom}
    /\ heldOffer \in LegOffers \cup {NoOffer} /\ answering \in BOOLEAN
    /\ pipe \in [at : 1 .. MaxPipes, open : BOOLEAN, going : BOOLEAN]
    /\ padCount \in 0 .. MaxPads /\ offersSent \in 0 .. MaxOffers
    /\ DOMAIN receiveBins \subseteq 1 .. MaxPads
    /\ ssrcMids.mids \subseteq Ssrcs /\ ssrcMids.inactive \subseteq Sections
    /\ store \in [Pictures -> {"none", "fresh", "taken"}] /\ noticed \in BOOLEAN
    /\ pictures \subseteq Pictures

\* Every leg has an owner and every owner a leg: what receive_bins lists plays in
\* this pipeline under its pad's name, and what plays is listed or will be, so
\* that a leave or a removed pad finds it.
LegsAreListed ==
    ~pipe.going =>
        /\ \A n \in DOMAIN receiveBins : receiveBins[n] \in bins /\ receiveBins[n].pad.name = n
        /\ \A b \in bins : b.pad.pipe = pipe.at /\ (b \in Range(receiveBins) \/ Told(b))

\* A leg whose stream has ended is on its way out: webrtcbin's removal waits for
\* the main loop.
EndedLegsGo ==
    \A b \in bins :
        b.pad \notin exposed =>
            \E i \in 1 .. Len(calls) : calls[i] = Removed(b.pad)

\* No frozen picture: a frame kept or shown has a leg behind it in this session,
\* through removals, rejoins, stops and switches of room.
PicturesAreLive ==
    ~pipe.going =>
        \A m \in Pictures : store[m] # "none" \/ m \in pictures => \E b \in bins : b.mid = m

\* A held pad is not given a leg in a section the latest offer made inactive,
\* unless that offer waits for its turn and will stop it.
StoppedIsNotRevived ==
    \A b \in bins : b.late /\ ~pipe.going /\ b.mid \in ssrcMids.inactive => heldOffer # NoOffer

\* The receive legs are this session's and no one else's.
LegsAreTheSessions == LegsAreListed /\ EndedLegsGo /\ PicturesAreLive /\ StoppedIsNotRevived
=============================================================================
