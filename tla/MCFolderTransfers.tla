------------------------- MODULE MCFolderTransfers -------------------------
(* Both directions of a folder's transfer in one run: which of the two moves *)
(* is chosen at the start, so that their states add up rather than multiply. *)
EXTENDS FolderDownload, FolderUpload, TLC

VARIABLE side

MCTree == <<"f", Folder, "g">>
MCSize == ("f" :> <<2, 2, 0>>) @@ ("g" :> <<1>>)

MCUpTrees == {<<"d", "e", "x", "y">>, <<"d", "e">>}
MCAbove == ("d" :> {}) @@ ("e" :> {"d"}) @@ ("x" :> {"d"}) @@ ("y" :> {})
MCLocalSize == ("x" :> <<2, 2>>) @@ ("y" :> <<1>>)

OneOf(S) == CHOOSE x \in S : TRUE

MCInit ==
    /\ DownInit /\ UpInit
    /\ \/ side = "down" /\ upTree = OneOf(UpTrees) /\ host.kind = OneOf(Servers)
       \/ /\ side = "up" /\ disk = [f \in Files |-> NoFile]
          /\ server = [style |-> OneOf(Styles), announces |-> OneOf(Announces)]

MCNext ==
    /\ UNCHANGED side
    /\ \/ side = "down" /\ UNCHANGED upVars /\ DownNext
       \/ side = "up" /\ UNCHANGED downVars /\ UpNext

MCSpec ==
    /\ MCInit /\ [][MCNext]_<<side, downVars, upVars>>
    /\ DownFairness /\ UpFairness

\* Every worker comes back, and a download that failed says truly whether the
\* server had stalled.
WorkersEnd == WorkerEnds /\ UploadEnds /\ StallIsToldOfAStall
=============================================================================
