----------------------------- MODULE MCVoiceRuntime -----------------------------
(* The client's media, one part of which moves in a behaviour: the voice runtime *)
(* (VoiceRuntime: two rooms, two offers a room, no video) and the decoding of    *)
(* the pictures in chat lines (ImageDecode: more decodes than slots, enough for  *)
(* a queue).  They share no variable, so the parts' states add up.               *)
EXTENDS VoiceRuntime, ImageDecode

CONSTANTS r1, r2, me, leg, none, d1, d2, d3, d4

VARIABLE part    \* the part that moves

MCRooms == {r1, r2}
MCUsers == {me}
MCKinds == {}
MCMids == {leg}
MCSdps == {[mids |-> {leg}, inactive |-> {}], [mids |-> {leg}, inactive |-> {leg}]}
MCOneSdp == {[mids |-> {leg}, inactive |-> {}]}
MCGenMod == 1
MCDecodes == {d1, d2, d3, d4}

PartsInit == part \in {"voice", "pictures"} /\ RuntimeInit /\ Init

PartsNext ==
    /\ UNCHANGED part
    /\ \/ part = "voice" /\ UNCHANGED vars /\ RuntimeNext
       \/ part = "pictures" /\ UNCHANGED runtimeVars /\ Next
       \* Every decode has ended.
       \/ part = "pictures" /\ UNCHANGED <<runtimeVars, vars>>

PartsSpec ==
    /\ PartsInit /\ [][PartsNext]_<<part, runtimeVars, vars>>
    /\ RuntimeFairness /\ Fairness
=============================================================================
