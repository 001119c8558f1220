---------------------------- MODULE MCTransferQueue ----------------------------
(* TransferQueue for TLC, over two connections.  A behaviour is about one      *)
(* group of transfers, the others having come and gone before it, so that the  *)
(* groups' states add up: three of a file's and a folder's kinds, a folder's   *)
(* upload or a big file's with a preview, and the pair whose turns must come.  *)
EXTENDS TransferQueue

CONSTANTS c1, c2, Groups

MCXfers == 1..8
MCConns == {c1, c2}
MCConnOf == [x \in Xfers |-> IF x \in {2, 5, 7} THEN c2 ELSE c1]
MCKind == <<"get", "put", "getfolder", "putfolder", "preview", "get", "put", "bigput">>
Pair == {6, 7}
MCReplies == [x \in Xfers |-> {"ready", "refused", "larger"}
                                \cup IF x \in Pair THEN {} ELSE {"nothing"}]
MCGroups == {{1, 2, 3}, {4, 5}, {5, 8}, Pair}
MCMixed == {{4, 5}}

MCInit ==
    /\ q = EmptyQueue /\ up = Conns /\ open = TRUE
    /\ made \in {Xfers \ g : g \in Groups}
MCSpec == MCInit /\ [][Next]_vars /\ \A x \in Pair : FairTo(x)

\* In a queue of two, which the user cannot reorder for ever to keep one of
\* them from its turn, every transfer that waits goes (start_next, queue_retry).
EveryTransferGoes == \A x \in Pair : TransferGoes(x)
=============================================================================
