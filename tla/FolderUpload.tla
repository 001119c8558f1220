---------------------------- MODULE FolderUpload ----------------------------
(***************************************************************************)
(* A folder uploaded over one transfer connection at a time                *)
(* (hxnet/src/xfer.rs `folder_send`, `ended`, `UploadLedger`; its worker,  *)
(* pauses and resumes in hxhandlers/src/xfer.rs).  The server asks for one *)
(* item after another; it answers a file with how much of it to send.      *)
(* Resumed, the upload offers no folder the server has made, since mhxd    *)
(* ends an upload at a folder that exists, and a ledger of what was sent   *)
(* keeps a file that changed since from being joined to its old start.     *)
(*                                                                         *)
(* The server is the environment, in the ways docs/hotline-protocol.md     *)
(* records (mhxd, Janus, the 1.9 server).  A block is a pair of the local  *)
(* version it was read from and its place.                                 *)
(***************************************************************************)
EXTENDS Integers, Sequences, FiniteSets

CONSTANTS
    UpTrees,      \* local trees: sequences of folders and files, folders first
    UpFolders,    \* the folders among them
    UpFiles,      \* the files
    Above,        \* the folders an item lies in
    LocalSize,    \* the blocks of each version a file goes through here
    Servers,      \* "mhxd", "janus" or "hlservd"
    AgainTries,   \* AGAIN_TRIES
    MaxTroubles   \* bound: pauses, refusals, lost connections, removals

ASSUME UpAssumption ==
    /\ UpFolders \cap UpFiles = {} /\ "none" \notin UpFolders \cup UpFiles
    /\ Above \in [UpFolders \cup UpFiles -> SUBSET UpFolders]
    /\ \A t \in UpTrees :
          /\ t \in Seq(UpFolders \cup UpFiles) /\ t # << >>
          /\ \A i, j \in 1..Len(t) : t[i] = t[j] => i = j
          /\ \A i \in 1..Len(t) : \A d \in Above[t[i]] : \E j \in 1..i - 1 : t[j] = d
    /\ LocalSize \in [UpFiles -> Seq(Nat)] /\ \A f \in UpFiles : LocalSize[f] # << >>
    /\ Servers \subseteq {"mhxd", "janus", "hlservd"}
    /\ AgainTries \in Nat /\ MaxTroubles \in Nat

VARIABLES
    upTree,    \* the local tree
    local,     \* the version each local file has now
    host,      \* the server: its kind, and what it holds
    up,        \* the upload's row, ledger, flags and count (FolderRun)
    sender,    \* the worker's locals
    link,      \* the transfer connection and what is on it
    troubles,  \* troubles met (bound)
    strayed,   \* history: the server lost folders, or closed for its own reasons
    forgotten  \* history: files it held when the ledger was dropped

upVars == <<upTree, local, host, up, sender, link, troubles, strayed, forgotten>>

None == "none"
NoLink == [sock |-> "none", wire |-> "idle", flight |-> 0]
AtRest == [at |-> "idle", i |-> 1, item |-> None, asked |-> FALSE, offered |-> None,
           lost |-> FALSE, skipped |-> {}, left |-> 0, rv |-> "ok"]
NoLedger == [files |-> [f \in UpFiles |-> 0], folders |-> {}, unsure |-> {}]
NewRun == [ledger |-> NoLedger, resumed |-> FALSE, again |-> 0]
NotHeld == [blocks |-> << >>, whole |-> FALSE]

UpInit ==
    /\ upTree \in UpTrees
    /\ local = [f \in UpFiles |-> 1]
    /\ \E k \in Servers : host = [kind |-> k, root |-> FALSE, made |-> {},
                                  held |-> [f \in UpFiles |-> NotHeld]]
    /\ up = [row |-> "ready", aborted |-> FALSE, sure |-> FALSE, run |-> NewRun]
    /\ sender = AtRest /\ link = NoLink
    /\ troubles = 0 /\ strayed = FALSE /\ forgotten = {}

Trouble == troubles < MaxTroubles /\ troubles' = troubles + 1

--------------------------------------------------------------------------
(* Asking: `hx_put_folder`, `resume_folder`, and the server's replies. *)

\* `UploadLedger::changed`.
Changed(ledger) ==
    \E f \in UpFiles : ledger.files[f] # 0 /\ ledger.files[f] # local[f]

\* The place of the first item at or after i that the ledger does not pass
\* over, or one past the last.
Pending(i, folders) ==
    LET left == {j \in i..Len(upTree) : upTree[j] \notin folders}
    IN  IF left = {} THEN Len(upTree) + 1 ELSE CHOOSE j \in left : \A k \in left : j <= k

\* `resume_folder`: a file changed since keeps it paused; with every folder
\* made and no file there is nothing to ask.
Resumed(u) ==
    IF Changed(u.run.ledger) THEN [u EXCEPT !.row = "changed"]
    ELSE IF Pending(1, u.run.ledger.folders) > Len(upTree)
         THEN [u EXCEPT !.row = "done"]
    ELSE [u EXCEPT !.row = "asked", !.run.resumed = TRUE]

PutFolder ==
    /\ up.row = "ready"
    /\ up' = [up EXCEPT !.row = "new"]
    /\ UNCHANGED <<upTree, local, host, sender, link, troubles, strayed, forgotten>>

Resume ==
    /\ up.row \in {"paused", "failed"}
    /\ up' = Resumed(up)
    /\ UNCHANGED <<upTree, local, host, sender, link, troubles, strayed, forgotten>>

\* The server takes the upload (`answered`); one asked for from the start
\* begins with no ledger.  Only Janus takes one, unflagged, into a folder that
\* is there.
Accept ==
    /\ up.row \in {"new", "asked", "restarted"}
    /\ up.row # "asked" => ~host.root \/ host.kind = "janus"
    /\ host' = [host EXCEPT !.root = TRUE]
    /\ up' = [up EXCEPT !.row = "running",
                        !.run = IF up.row = "restarted" THEN NewRun ELSE @]
    /\ forgotten' = IF up.row = "restarted"
                    THEN {f \in UpFiles : host.held[f] # NotHeld} ELSE forgotten
    /\ sender' = [AtRest EXCEPT !.at = "connect"]
    /\ UNCHANGED <<upTree, local, link, troubles, strayed>>

\* `upload_resume_refused`: a resume is asked for again from the start, and
\* refused again, stays paused.
Refuses ==
    /\ up.row \in {"asked", "restarted"}
    /\ up.row = "asked" => Trouble
    /\ up.row = "restarted" => UNCHANGED troubles
    /\ up' = [up EXCEPT !.row = IF @ = "asked" THEN "restarted" ELSE "paused"]
    /\ UNCHANGED <<upTree, local, host, sender, link, strayed, forgotten>>

--------------------------------------------------------------------------
(* The worker: `folder_put_thread`, `folder_send`. *)

Returns(s, rv) == [s EXCEPT !.at = "ret", !.rv = rv]

\* `htxf_connect`; the server asks for the first item at once.
SenderConnects ==
    /\ sender.at = "connect"
    /\ \/ /\ link' = [NoLink EXCEPT !.wire = "next",
                                    !.sock = IF up.aborted THEN "shut" ELSE "open"]
          /\ sender' = [sender EXCEPT !.at = "next", !.skipped = up.run.ledger.folders,
                                      !.i = Pending(1, up.run.ledger.folders)]
          /\ UNCHANGED troubles
       \/ /\ Trouble
          /\ sender' = Returns(sender, "unreachable")
          /\ UNCHANGED link
    /\ UNCHANGED <<upTree, local, host, up, strayed, forgotten>>

\* Mutated form: a lost answer is not remembered.
UnsureForgotten(ledger, d) == ledger

\* A folder whose answer was lost.
Unsure(ledger, d) ==
    IF d = None THEN ledger ELSE [ledger EXCEPT !.unsure = @ \cup {d}]

\* A folder the server has made.
Made(ledger, d) ==
    IF d = None THEN ledger
    ELSE [ledger EXCEPT !.unsure = @ \ {d}, !.folders = @ \cup {d}]

InSkipped(s) ==
    /\ s.item \in UpFiles
    /\ Above[s.item] \cap s.skipped # {}

\* `ended`, and the failure when it learns nothing.
Ended(ledger, s) ==
    IF s.offered # None /\ s.lost
    THEN [ledger |-> Made(ledger, s.offered), rv |-> "again"]
    ELSE IF InSkipped(s)
    THEN [ledger |-> [ledger EXCEPT !.unsure = @ \cup ledger.folders, !.folders = {}],
          rv |-> "reoffer"]
    ELSE [ledger |-> Unsure(ledger, s.offered), rv |-> "eio"]

\* The server's FILE_NEXT, read or come with its last answer: the folder
\* before is made, and the next item is offered.
Offer ==
    /\ sender.at = "next" /\ link.sock = "open"
    /\ sender.asked \/ link.wire = "next"
    /\ LET e == upTree[sender.i]
           ledger == Made(up.run.ledger, sender.offered)
           j == Pending(sender.i + 1, ledger.folders)
           s == [sender EXCEPT !.item = e, !.asked = FALSE, !.offered = None,
                               !.lost = FALSE]
       IN  /\ up' = [up EXCEPT !.run.ledger = ledger]
           /\ sender' =
                IF e \in UpFiles THEN [s EXCEPT !.at = "answer"]
                ELSE [s EXCEPT !.offered = e, !.lost = e \in ledger.unsure, !.i = j,
                               !.at = IF j > Len(upTree) THEN "finish" ELSE "next"]
    /\ link' = [link EXCEPT !.wire = "item"]
    /\ UNCHANGED <<upTree, local, host, troubles, strayed, forgotten>>

\* Past an item: the next one, or the end of the tree.
Past(s, asked) ==
    LET j == Pending(s.i + 1, s.skipped)
    IN  [s EXCEPT !.i = j, !.asked = asked,
                  !.at = IF j > Len(upTree) THEN "finish" ELSE "next"]

\* Mutated form: the server's offset is taken as it comes.
JoinsOther(f, at) == at > LocalSize[f][local[f]]

\* Sent from where the server's copy ends, the file would come out neither.
Joins(f, at) ==
    \/ at > LocalSize[f][local[f]]
    \/ at # 0 /\ up.run.ledger.files[f] \notin {0, local[f]}

\* The server's answer to a file: passed over, refused as changed, or sent.
Answered ==
    /\ sender.at = "answer" /\ link.sock = "open"
    /\ link.wire \in {"pass", "send", "resume"}
    /\ LET f == sender.item
           at == IF link.wire = "resume" THEN Len(host.held[f].blocks) ELSE 0
       IN  \/ /\ link.wire = "pass"
              /\ sender' = Past(sender, TRUE)
              /\ UNCHANGED <<up, link, troubles>>
           \/ /\ link.wire # "pass" /\ Joins(f, at)
              /\ sender' = Returns(sender, "changed")
              /\ UNCHANGED <<up, link, troubles>>
           \/ /\ link.wire # "pass" /\ ~Joins(f, at)
              /\ up' = [up EXCEPT !.run.ledger.files[f] = local[f]]
              /\ link' = [link EXCEPT !.wire = "data"]
              /\ sender' = [sender EXCEPT !.at = "data",
                                          !.left = LocalSize[f][local[f]] - at]
              /\ UNCHANGED troubles
           \/ /\ link.wire # "pass" /\ Trouble    \* the local file cannot be read
              /\ sender' = Returns(sender, "local")
              /\ UNCHANGED <<up, link>>
    /\ UNCHANGED <<upTree, local, host, strayed, forgotten>>

\* A block written, as far as the connection has room; then past the file.
WriteFork ==
    /\ sender.at = "data" /\ link.sock = "open"
    /\ IF sender.left = 0
       THEN sender' = Past(sender, FALSE) /\ UNCHANGED link
       ELSE /\ link.flight = 0
            /\ link' = [link EXCEPT !.flight = 1]
            /\ sender' = [sender EXCEPT !.left = @ - 1]
    /\ UNCHANGED <<upTree, local, host, up, troubles, strayed, forgotten>>

\* Whether the connection's end says something of the server: a read that
\* found it closed, or a file's write that failed, of an upload not aborted.
Telling ==
    /\ ~up.aborted
    /\ \/ sender.at = "data"
       \/ link.sock = "fin" /\ ~sender.asked

\* The connection ended.
SenderEnds ==
    /\ sender.at \in {"next", "answer", "data"} /\ link.sock # "open"
    /\ LET end == IF Telling
                  THEN Ended(up.run.ledger, sender)
                  ELSE [ledger |-> Unsure(up.run.ledger, sender.offered), rv |-> "eio"]
       IN  /\ up' = [up EXCEPT !.run.ledger = end.ledger]
           /\ sender' = Returns(sender, end.rv)
    /\ UNCHANGED <<upTree, local, host, link, troubles, strayed, forgotten>>

\* `finish_send`: the server has read everything, and closed.
FinishSent == link.sock = "fin"

\* `finish_upload`: waits for the server to close, within a limit.
Finish ==
    /\ sender.at = "finish"
    /\ up' = [up EXCEPT !.sure = FinishSent /\ ~up.aborted]
    /\ sender' = Returns(sender, "ok")
    /\ UNCHANGED <<upTree, local, host, link, troubles, strayed, forgotten>>

--------------------------------------------------------------------------
(* The main thread. *)

PauseUp ==
    /\ up.row = "running" /\ Trouble
    /\ up' = [up EXCEPT !.row = "winding", !.aborted = TRUE]
    /\ link' = [link EXCEPT !.sock = IF @ = "none" THEN @ ELSE "shut"]
    /\ UNCHANGED <<upTree, local, host, sender, strayed, forgotten>>

\* `settle_pause` and the cleanup: what the worker's return makes of the row.
SettleUp ==
    /\ sender.at = "ret"
    /\ LET rv == sender.rv
           u == [up EXCEPT !.aborted = FALSE]
           again == u.run.again + 1
       IN  up' =
            IF rv = "ok" THEN [u EXCEPT !.row = "done"]
            ELSE IF u.row = "winding" THEN [u EXCEPT !.row = "paused"]
            ELSE IF rv = "changed"
                 THEN [u EXCEPT !.row = IF u.run.resumed THEN "changed" ELSE "gone"]
            ELSE IF rv = "again" /\ again <= AgainTries
                 THEN Resumed([u EXCEPT !.run.again = again])
            ELSE IF rv \in {"again", "reoffer"}
                 THEN [u EXCEPT !.row = "paused", !.run.again = 0]
            ELSE [u EXCEPT !.row = "failed"]
    /\ sender' = AtRest /\ link' = NoLink
    /\ UNCHANGED <<upTree, local, host, troubles, strayed, forgotten>>

--------------------------------------------------------------------------
(* The environment. *)

\* The server takes the item it was offered.
ServerTakes ==
    /\ link.sock = "open" /\ link.wire = "item"
    /\ LET e == sender.item
           there == Above[e] \subseteq host.made
           held == IF e \in UpFiles THEN host.held[e] ELSE NotHeld
           says(x) == link' = [link EXCEPT !.wire = x]
       IN  IF ~there \/ (e \in host.made /\ host.kind = "mhxd")
           THEN link' = [link EXCEPT !.sock = "fin"] /\ UNCHANGED <<host, forgotten>>
           ELSE IF e \in UpFolders
           THEN /\ host' = [host EXCEPT !.made = @ \cup {e}]
                /\ says("next") /\ UNCHANGED forgotten
           ELSE IF held.whole /\ host.kind # "mhxd"
           THEN says("pass") /\ UNCHANGED <<host, forgotten>>
           ELSE IF held # NotHeld /\ host.kind # "hlservd"
           THEN says("resume") /\ UNCHANGED <<host, forgotten>>
           ELSE /\ host' = [host EXCEPT !.held[e] = NotHeld]
                /\ forgotten' = forgotten \ {e}
                /\ says("send")
    /\ UNCHANGED <<upTree, local, up, sender, troubles, strayed>>

\* It reads the fork as it comes, and after its last block asks for the next
\* item.
ServerReads ==
    /\ link.sock = "open" /\ link.wire = "data"
    /\ LET f == sender.item
           v == up.run.ledger.files[f]
           blocks == host.held[f].blocks
           got == IF link.flight = 0 THEN blocks
                  ELSE Append(blocks, <<v, Len(blocks) + 1>>)
           whole == Len(got) = LocalSize[f][v]
       IN  /\ got # blocks \/ whole
           /\ host' = [host EXCEPT !.held[f] = [blocks |-> got, whole |-> whole]]
           /\ link' = [link EXCEPT !.flight = 0, !.wire = IF whole THEN "next" ELSE @]
    /\ UNCHANGED <<upTree, local, up, sender, troubles, strayed, forgotten>>

\* All items taken or passed over, and the sending side ended: it closes.
ServerCloses ==
    /\ sender.at = "finish" /\ link.sock = "open" /\ link.wire \in {"next", "pass"}
    /\ link' = [link EXCEPT !.sock = "fin"]
    /\ UNCHANGED <<upTree, local, host, up, sender, troubles, strayed, forgotten>>

\* The connection is lost, or the server closes it for a reason of its own.
LinkLost ==
    /\ link.sock = "open" /\ Trouble
    /\ \E how \in {"lost", "fin"} :
        /\ link' = [link EXCEPT !.sock = how]
        /\ strayed' = (strayed \/ how = "fin")
    /\ UNCHANGED <<upTree, local, host, up, sender, forgotten>>

\* What the server holds is deleted, between two connections.
ServerRemoves ==
    /\ host.root /\ sender.at = "idle" /\ Trouble
    /\ host' = [host EXCEPT !.root = FALSE, !.made = {},
                            !.held = [f \in UpFiles |-> NotHeld]]
    /\ strayed' = TRUE /\ forgotten' = {}
    /\ UNCHANGED <<upTree, local, up, sender, link>>

\* A local file is changed, while it is not the one being sent.
LocalEdit(f) ==
    /\ local[f] < Len(LocalSize[f])
    /\ sender.item # f \/ sender.at \notin {"answer", "data"}
    /\ sender.item # f \/ link.wire # "data"
    /\ local' = [local EXCEPT ![f] = @ + 1]
    /\ UNCHANGED <<upTree, host, up, sender, link, troubles, strayed, forgotten>>

SenderStep ==
    \/ SenderConnects \/ Offer \/ Answered \/ WriteFork \/ SenderEnds \/ Finish
    \/ SettleUp
ServerStep == ServerTakes \/ ServerReads \/ ServerCloses \/ Accept

UpNext ==
    \/ PutFolder \/ Resume \/ Refuses \/ SenderStep \/ ServerStep \/ PauseUp
    \/ LinkLost \/ ServerRemoves
    \/ \E f \in UpFiles : LocalEdit(f)

UpSpec == UpInit /\ [][UpNext]_upVars

\* Threads run, the server answers and reads what it is sent, and the user
\* starts a paused upload again.
UpFairness ==
    /\ WF_upVars(Resume)
    /\ WF_upVars(Accept \/ (up.row = "restarted" /\ Refuses))
    /\ WF_upVars(SenderStep)
    /\ WF_upVars(ServerTakes \/ ServerReads \/ ServerCloses)

UpFairSpec == UpSpec /\ UpFairness

--------------------------------------------------------------------------
(* Properties. *)

(* Types: the upload's row, its ledger, and what is on the connection. *)
UpTypeOK ==
    /\ upTree \in UpTrees
    /\ \A f \in UpFiles : local[f] \in DOMAIN LocalSize[f]
    /\ host.kind \in Servers /\ host.made \subseteq UpFolders
    /\ up.row \in {"ready", "new", "asked", "restarted", "running", "winding",
                   "paused", "changed", "failed", "done", "gone"}
    /\ up.aborted => up.row = "winding"
    /\ LET l == up.run.ledger IN
        /\ l.folders \cup l.unsure \subseteq UpFolders
        /\ l.folders \cap l.unsure = {}
        /\ \A f \in UpFiles : l.files[f] \in 0..local[f]
    /\ up.run.again \in 0..AgainTries
    /\ sender.at \in {"idle", "connect", "next", "answer", "data", "finish", "ret"}
    /\ (sender.at = "idle") = (up.row \notin {"running", "winding"})
    /\ sender.at = "next" => sender.i \in DOMAIN upTree
    /\ link.sock \in {"none", "open", "fin", "lost", "shut"}
    /\ link.flight \in 0..1 /\ sender.left \in Nat

(* What the server holds of a file all comes from one version of it, whatever
   was paused, lost, resumed or changed in between (`UploadLedger`,
   HXNET_XFER_CHANGED).  Left out is a file the server held when a refused
   resume made the upload start over without its ledger. *)
NeverJoined ==
    \A f \in UpFiles \ forgotten :
        \A i, j \in DOMAIN host.held[f].blocks :
            host.held[f].blocks[i][1] = host.held[f].blocks[j][1]

(* A folder is taken as made only when the server made it, answers lost or
   not, unless the server removed it or closed for a reason of its own
   (`offered`, `unsure`, `ended`). *)
TakenIsMade == strayed \/ up.run.ledger.folders \subseteq host.made

(* An upload that is done, its end seen by the server, left every file whole
   there (`finish_send`). *)
DoneIsWhole ==
    up.row = "done" /\ up.sure /\ ~strayed =>
        \A i \in DOMAIN upTree :
            IF upTree[i] \in UpFiles THEN host.held[upTree[i]].whole
                                     ELSE upTree[i] \in host.made

(* Once asked for, and its troubles over, an upload started again whenever it pauses ends: done, or
   stopped at a file that changed.  Folders offered twice, a server that ends
   the upload at one it has, and a folder deleted meanwhile are got past
   (`ended`, HXNET_XFER_AGAIN, HXNET_XFER_REOFFER, `settle_pause`). *)
UploadEnds == up.row = "new" ~> up.row \in {"done", "changed", "gone"}

\* What the server has of an upload is the upload: no file of two versions, no
\* folder taken as made that is not, and every file whole once it is done.
UploadIsWhole == UpTypeOK /\ NeverJoined /\ TakenIsMade /\ DoneIsWhole
=============================================================================
