-------------------------------- MODULE Fifo --------------------------------
(***************************************************************************)
(* What a set of one-way channels promises, as the two histories the ends  *)
(* of each see: what was put in, and what came out.  Some at a time come   *)
(* out, in order, with nothing lost in between and nothing of another      *)
(* channel's.  One may close at any point; nothing goes in or comes out    *)
(* while it is closed.                                                     *)
(***************************************************************************)
EXTENDS Naturals, Sequences

CONSTANT Channels
VARIABLES sent, got, open

Empty(c) == sent[c] = <<>> /\ got[c] = <<>>

Init == \A c \in Channels : Empty(c) /\ ~open[c]

Put(c) ==
    /\ open[c] /\ open'[c]
    /\ Len(sent'[c]) > Len(sent[c])
    /\ SubSeq(sent'[c], 1, Len(sent[c])) = sent[c]
    /\ got'[c] = got[c]

Get(c) ==
    /\ open[c] /\ open'[c]
    /\ \E n \in (Len(got[c]) + 1)..Len(sent[c]) : got'[c] = SubSeq(sent[c], 1, n)
    /\ sent'[c] = sent[c]

Open(c) == ~open[c] /\ open'[c] /\ Empty(c)'

Close(c) == open[c] /\ ~open'[c] /\ Empty(c)'

Idle(c) == open'[c] = open[c] /\ sent'[c] = sent[c] /\ got'[c] = got[c]

Next == \A c \in Channels : Put(c) \/ Get(c) \/ Open(c) \/ Close(c) \/ Idle(c)

Spec == Init /\ [][Next]_<<sent, got, open>>
====
