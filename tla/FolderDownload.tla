--------------------------- MODULE FolderDownload ---------------------------
(***************************************************************************)
(* A folder downloaded over one transfer connection at a time              *)
(* (hxnet/src/xfer.rs `folder_recv`, `file_recv`; htxf.rs; its worker and  *)
(* pauses in hxhandlers/src/xfer.rs).  The worker asks for one entry after *)
(* another; each file offered is asked for whole, from where this download *)
(* left it, or passed over, as a ledger of what earlier workers wrote says *)
(* (`answer`).  The protocol has no end marker: the tree ends when the     *)
(* server closes, or stays silent past a grace once the announced count or *)
(* size has arrived.                                                       *)
(*                                                                         *)
(* The server, the user and other programs are the environment: the server *)
(* changes files, closes, breaks or stops sending; the user pauses and     *)
(* resumes; a program changes local files.  A block of a file is a pair of *)
(* the version it came from and its place, so the local file shows what it *)
(* was put together from.  A version stands for a modify date.             *)
(***************************************************************************)
EXTENDS Integers, Sequences, FiniteSets

CONSTANTS
    Files,      \* the files of the tree
    Tree,       \* the entries in the order the server offers them
    Size,       \* the blocks of each version a file goes through on the server
    Touched,    \* the files other programs write here
    Styles,     \* how servers answer a resume: "resumes" or "whole"
    Announces   \* what they announce: "count", "top", "size" or "none"

Folder == "folder"

ASSUME TreeAssumption ==
    /\ Tree \in Seq(Files \cup {Folder}) /\ Tree # << >>
    /\ Folder \notin Files /\ \A f \in Files : \E i \in 1..Len(Tree) : Tree[i] = f
    /\ Size \in [Files -> Seq(Nat)] /\ \A f \in Files : Size[f] # << >>
    /\ Touched \subseteq Files
    /\ Styles \subseteq {"resumes", "whole"}
    /\ Announces \subseteq {"count", "top", "size", "none"}

VARIABLES
    ver,      \* server: the version each file has now
    served,   \* server: how many entries it has offered on this connection
    server,   \* server: its style and what it announces
    disk,     \* the local files
    asLeft,   \* the files with the length and date the ledger noted
    ledger,   \* FolderLedger: what the download has written
    row,      \* the transfer's row
    aborted,  \* the row's abort token
    sock,     \* the transfer connection
    wait,     \* what bounds a read: "stall" or "short"
    worker,   \* the worker's locals
    seen,     \* received, forks, and what was announced, on this connection
    cut,      \* history: the server ended the tree before its last entry
    refused,  \* history: files refused because they changed on the server
    unopened  \* history: files of another program that would not open

serverVars == <<ver, served, server>>
diskVars == <<disk, asLeft, ledger>>
downVars == <<serverVars, diskVars, row, aborted, sock, wait, worker, seen,
              cut, refused, unopened>>

NoFilp == [len |-> 0, modified |-> 0]
\* No record, which is answered as one of a file not yet described.
NotKept == [len |-> 0, whole |-> FALSE, filp |-> NoFilp]
Local(blocks) == [there |-> TRUE, blocks |-> blocks]
NoFile == [there |-> FALSE, blocks |-> << >>]
Foreign == Local(<< <<0, 1>> >>)    \* a file some other program wrote

Content(f, v) == [i \in 1..Size[f][v] |-> <<v, i>>]

Idle == [at |-> "idle", file |-> Folder, from |-> 0, was |-> NoFilp, rv |-> "ok",
         broke |-> FALSE, stalled |-> FALSE]

Unseen == [received |-> 0, forks |-> 0, items |-> 0, size |-> 0]

\* The forks' bytes of the tree's first entries, its files being of versions v.
ForkBytes(v, i) == IF Tree[i] = Folder THEN 0 ELSE Size[Tree[i]][v[Tree[i]]]
Bytes(v) ==
    LET sum[i \in 0..Len(Tree)] == IF i = 0 THEN 0 ELSE sum[i - 1] + ForkBytes(v, i)
    IN  sum

\* What the server says of the tree when it is asked for it: every entry,
\* only the top level's (one entry fewer here), the forks' bytes, or nothing.
Announced ==
    LET items == CASE server.announces = "count" -> Len(Tree)
                   [] server.announces = "top" -> Len(Tree) - 1
                   [] OTHER -> 0
    IN  [Unseen EXCEPT !.items = items,
         !.size = IF server.announces = "none" THEN 0 ELSE Bytes(ver)[Len(Tree)]]

DownInit ==
    /\ ver = [f \in Files |-> 1]
    /\ served = 0
    /\ \E s \in Styles, a \in Announces : server = [style |-> s, announces |-> a]
    /\ disk \in {d \in [Files -> {NoFile, Foreign}] :
                    \A f \in Files \ Touched : d[f] = NoFile}
    /\ asLeft = {}
    /\ ledger = [f \in Files |-> NotKept]
    /\ row = "ready" /\ aborted = FALSE /\ sock = "none" /\ wait = "stall"
    /\ worker = Idle
    /\ seen = Unseen
    /\ cut = FALSE /\ refused = {} /\ unopened = {}

--------------------------------------------------------------------------
(* The ledger. *)

Answer(f) ==
    IF f \notin asLeft THEN "send"
    ELSE IF ledger[f].whole THEN "skip"
    ELSE IF ledger[f].filp # NoFilp THEN "resume" ELSE "send"

\* `ledger.note(Kept::of(..))`: the file as it is now, if there is one.
Note(f, d, whole, filp) ==
    /\ disk' = d
    /\ ledger' = [ledger EXCEPT ![f] =
            IF d[f].there
            THEN [len |-> Len(d[f].blocks), whole |-> whole, filp |-> filp]
            ELSE NotKept]
    /\ asLeft' = IF d[f].there THEN asLeft \cup {f} ELSE asLeft \ {f}

--------------------------------------------------------------------------
(* The worker: `folder_get_thread`, `folder_recv`, `file_recv`. *)

Return(rv) ==
    worker' = [Idle EXCEPT !.at = "ret", !.rv = rv, !.broke = worker.broke,
                           !.stalled = worker.stalled]
\* After a read or a write that failed, by a timeout or otherwise.
ReturnBroken(stalled) ==
    worker' = [Idle EXCEPT !.at = "ret", !.rv = "eio", !.broke = TRUE,
                           !.stalled = worker.stalled \/ stalled]

\* The resume or the first request, its reply, and the worker it starts.
Ask ==
    /\ row \in {"ready", "paused", "failed"}
    /\ row' = "running"
    /\ worker' = [Idle EXCEPT !.at = "connect"]
    /\ seen' = Announced
    /\ UNCHANGED <<serverVars, diskVars, aborted, sock, wait, cut, refused, unopened>>

\* `htxf_connect`, then `hxnet_htxf_abort_arm`: a pause that came first shuts
\* the connection down as it is armed.
Connected ==
    /\ worker.at = "connect"
    /\ sock' = IF aborted THEN "shut" ELSE "open"
    /\ wait' = "stall"
    /\ worker' = [worker EXCEPT !.at = "next"]
    /\ UNCHANGED <<serverVars, diskVars, row, aborted, seen, cut, refused, unopened>>

ConnectFails ==
    /\ worker.at = "connect"
    /\ Return("unreachable")
    /\ UNCHANGED <<serverVars, diskVars, row, aborted, sock, wait, seen, cut,
                   refused, unopened>>

\* Whether the next entry is only given a grace.
Graced(s) ==
    \/ s.items # 0 /\ s.received >= s.items
    \/ s.items = 0 /\ s.size # 0 /\ s.forks >= s.size

\* FILE_NEXT.  A server that closed may not be seen to have until the read.
FileNext ==
    /\ worker.at = "next" /\ ~aborted /\ sock \in {"open", "fin"}
    /\ worker' = [worker EXCEPT !.at = "entry", !.file = Folder, !.from = 0,
                                !.was = NoFilp]
    /\ wait' = IF Graced(seen) THEN "short" ELSE "stall"
    /\ UNCHANGED <<serverVars, diskVars, row, aborted, sock, seen, cut, refused,
                   unopened>>

FileNextFails ==
    /\ worker.at = "next" /\ (aborted \/ sock # "open")
    /\ ReturnBroken(FALSE)
    /\ UNCHANGED <<serverVars, diskVars, row, aborted, sock, wait, seen, cut,
                   refused, unopened>>

Rearm == "stall"    \* `dur.or(self.stall)`

\* An entry: a folder is made, a file answered as the ledger says.  What is
\* held counts towards the announced size.
Entry ==
    /\ worker.at = "entry" /\ sock = "open" /\ served < Len(Tree)
    /\ served' = served + 1
    /\ wait' = Rearm
    /\ LET f == Tree[served + 1]
           held == IF f # Folder /\ Answer(f) # "send" THEN ledger[f].len ELSE 0
       IN  /\ seen' = [seen EXCEPT !.received = @ + 1, !.forks = @ + held]
           /\ worker' =
                IF f = Folder \/ Answer(f) = "skip"
                THEN [worker EXCEPT !.at = "next"]
                ELSE [worker EXCEPT !.at = "filp", !.file = f, !.from = held,
                        !.was = IF Answer(f) = "resume" THEN ledger[f].filp ELSE NoFilp]
    /\ UNCHANGED <<ver, server, diskVars, row, aborted, sock, cut, refused, unopened>>

\* The folder of an entry, or that of a file below, cannot be made: the worker
\* returns, and its counts with it.
MkdirFails ==
    /\ worker.at = "entry" /\ sock = "open" /\ served < Len(Tree)
    /\ Return("local")
    /\ UNCHANGED <<serverVars, diskVars, row, aborted, sock, wait, seen, cut,
                   refused, unopened>>

\* Mutated form: a read that ends because the connection was shut down by an
\* abort is the end of the tree.
CleanEndAnyClose == sock \in {"fin", "shut"}

\* A read of nothing is the end of the tree unless the token is aborted.
CleanEnd == sock = "fin" /\ ~aborted

EntryEnds ==
    /\ worker.at = "entry" /\ sock # "open"
    /\ IF CleanEnd THEN Return("ok") ELSE ReturnBroken(FALSE)
    /\ cut' = (sock = "fin" /\ served < Len(Tree))
    /\ UNCHANGED <<serverVars, diskVars, row, aborted, sock, wait, seen, refused,
                   unopened>>

\* Nothing came within the grace.
Silent ==
    /\ worker.at = "entry" /\ sock = "open" /\ wait = "short"
    /\ Return("ok")
    /\ cut' = (served < Len(Tree))
    /\ UNCHANGED <<serverVars, diskVars, row, aborted, sock, wait, seen, refused,
                   unopened>>

\* How many blocks of the version the server sends, asked from `from`.
ForkLen(f, from) ==
    LET size == Size[f][ver[f]] IN
    IF server.style = "whole" THEN size ELSE IF from > size THEN 0 ELSE size - from

\* Mutated form: the modify date is not looked at.
DataFromUndated(was, from, len, modified) ==
    IF was = NoFilp \/ from + len = was.len THEN from
    ELSE IF len = was.len THEN 0 ELSE -1

\* `data_from`: where the fork goes, or -1 for a file that changed.
DataFrom(was, from, len, modified) ==
    IF was = NoFilp THEN from
    ELSE IF was.modified # modified THEN -1
    ELSE IF from + len = was.len THEN from
    ELSE IF len = was.len THEN 0 ELSE -1

Described(at, len, f) == [len |-> at + len, modified |-> ver[f]]

Refuse(f) == Note(f, disk, FALSE, NoFilp)

\* A FILP that cannot be placed: the file changed on the server.
FilpRefused ==
    /\ worker.at = "filp" /\ sock = "open"
    /\ LET f == worker.file IN
        /\ DataFrom(worker.was, worker.from, ForkLen(f, worker.from), ver[f]) = -1
        /\ Refuse(f)
        /\ refused' = refused \cup {f}
    /\ Return("eio")
    /\ UNCHANGED <<serverVars, row, aborted, sock, wait, seen, cut, unopened>>

\* A FILP taken.  An empty fork opens nothing; the marker that may trail it
\* is given a short wait.
Filp ==
    /\ worker.at = "filp" /\ sock = "open"
    /\ LET f == worker.file
           len == ForkLen(f, worker.from)
           at == DataFrom(worker.was, worker.from, len, ver[f])
       IN  /\ at # -1
           /\ worker' = [worker EXCEPT !.was = Described(at, len, f),
                                       !.at = IF len = 0 THEN "drain" ELSE "fork"]
           /\ wait' = IF len = 0 THEN "short" ELSE wait
           /\ disk' = IF len # 0 /\ at = 0 THEN [disk EXCEPT ![f] = Local(<< >>)]
                    ELSE disk
           /\ asLeft' = asLeft \ {f}
           /\ unopened' = IF len # 0 /\ at = 0 THEN unopened \ {f} ELSE unopened
           /\ refused' = refused \ {f}
    /\ UNCHANGED <<serverVars, ledger, row, aborted, sock, seen, cut>>

\* The local file cannot be opened.
OpenFails ==
    /\ worker.at = "filp" /\ sock = "open"
    /\ LET f == worker.file
           len == ForkLen(f, worker.from)
           at == DataFrom(worker.was, worker.from, len, ver[f])
       IN  /\ at # -1 /\ len # 0
           /\ Note(f, disk, FALSE, Described(at, len, f))
           /\ unopened' = IF worker.was = NoFilp THEN unopened \cup {f} ELSE unopened
           /\ refused' = refused \ {f}
    /\ Return("local")
    /\ UNCHANGED <<serverVars, row, aborted, sock, wait, seen, cut>>

\* What of the fork was not counted as held.
NewBlocks(w) == w.was.len - w.from

\* A block of the fork.  A file's blocks are all of the version it began with.
Block ==
    /\ worker.at = "fork" /\ sock = "open"
    /\ LET f == worker.file
           d == Append(disk[f].blocks,
                       <<worker.was.modified, Len(disk[f].blocks) + 1>>)
           last == Len(d) = worker.was.len
       IN  /\ disk' = [disk EXCEPT ![f] = Local(d)]
           /\ seen' = [seen EXCEPT !.forks = @ + IF last THEN NewBlocks(worker) ELSE 0]
           /\ worker' = [worker EXCEPT !.at = IF last THEN "drain" ELSE "fork"]
           /\ wait' = IF last THEN "short" ELSE wait
    /\ UNCHANGED <<serverVars, asLeft, ledger, row, aborted, sock, cut, refused,
                   unopened>>

\* The local file cannot be written further.
WriteFails ==
    /\ worker.at = "fork" /\ sock = "open"
    /\ Note(worker.file, disk, FALSE, worker.was)
    /\ Return("local")
    /\ UNCHANGED <<serverVars, row, aborted, sock, wait, seen, cut, refused, unopened>>

\* The connection ended within a file.
FileEnds ==
    /\ worker.at \in {"filp", "fork"} /\ sock # "open"
    /\ Note(worker.file, disk, FALSE, worker.was)
    /\ ReturnBroken(FALSE)
    /\ UNCHANGED <<serverVars, row, aborted, sock, wait, seen, cut, refused, unopened>>

NoteTimeout(w) == w = "stall"    \* `note(&e, !self.short)`

\* The trailing marker came, or did not within its wait, or the connection
\* ended: the file is whole either way.
Drained ==
    /\ worker.at = "drain"
    /\ Note(worker.file, disk, TRUE, worker.was)
    /\ wait' = Rearm
    /\ \E quiet \in BOOLEAN :
        /\ sock # "open" => quiet
        /\ worker' = [worker EXCEPT !.at = "next", !.broke = @ \/ quiet,
                !.stalled = @ \/ (quiet /\ sock = "open" /\ NoteTimeout(wait))]
    /\ UNCHANGED <<serverVars, row, aborted, sock, seen, cut, refused, unopened>>

\* The server sent nothing for as long as a transfer waits.
Stall ==
    /\ worker.at \in {"entry", "filp", "fork"} /\ sock = "open" /\ wait = "stall"
    /\ IF worker.at = "entry" THEN UNCHANGED diskVars
                              ELSE Note(worker.file, disk, FALSE, worker.was)
    /\ ReturnBroken(NoteTimeout(wait))
    /\ UNCHANGED <<serverVars, row, aborted, sock, wait, seen, cut, refused, unopened>>

\* Why a worker failed, for the row (`failure`).
Why(w) == CASE w.rv = "unreachable" -> "unreachable"
            [] w.rv # "unreachable" /\ w.stalled -> "stalled"
            [] w.rv # "unreachable" /\ ~w.stalled /\ w.broke -> "lost"
            [] OTHER -> "local"

--------------------------------------------------------------------------
(* The main thread. *)

\* `xfer_pause`: the token is aborted, and its socket shut down.
PauseDown ==
    /\ row = "running"
    /\ row' = "winding" /\ aborted' = TRUE
    /\ sock' = IF sock = "none" THEN "none" ELSE "shut"
    /\ UNCHANGED <<serverVars, diskVars, wait, worker, seen, cut, refused, unopened>>

\* The worker's return: a finished download is done, paused meanwhile or not;
\* any other is kept, with a live token.
SettleDown ==
    /\ worker.at = "ret"
    /\ row' = IF worker.rv = "ok" THEN "done"
              ELSE IF row = "winding" THEN "paused" ELSE "failed"
    /\ aborted' = FALSE /\ sock' = "none" /\ wait' = "stall"
    /\ worker' = Idle /\ seen' = Unseen /\ served' = 0
    /\ UNCHANGED <<ver, server, diskVars, cut, refused, unopened>>

--------------------------------------------------------------------------
(* The environment. *)

\* The server closes, or its connection breaks.
ServerEnds ==
    /\ sock = "open"
    /\ sock' \in {"fin", "lost"}
    /\ UNCHANGED <<serverVars, diskVars, row, aborted, wait, worker, seen, cut,
                   refused, unopened>>

\* A file on the server is replaced.  One being sent stays open.
ServerChanges(f) ==
    /\ ver[f] < Len(Size[f])
    /\ ver' = [ver EXCEPT ![f] = @ + 1]
    /\ UNCHANGED <<served, server, diskVars, row, aborted, sock, wait, worker, seen,
                   cut, refused, unopened>>

\* Another program writes or removes a local file the worker has not in hand.
LocalChanges(f) ==
    /\ worker.file # f \/ worker.at \notin {"filp", "fork", "drain"}
    /\ \E to \in {NoFile, Foreign} \ {disk[f]} : disk' = [disk EXCEPT ![f] = to]
    /\ asLeft' = asLeft \ {f}
    /\ unopened' = unopened \ {f}
    /\ UNCHANGED <<serverVars, ledger, row, aborted, sock, wait, worker, seen, cut,
                   refused>>

Sends == Entry \/ Filp \/ FilpRefused \/ Block

WorkerStep ==
    \/ Connected \/ ConnectFails \/ FileNext \/ FileNextFails \/ EntryEnds
    \/ FileEnds \/ Drained \/ Silent \/ Stall

DownNext ==
    \/ Ask \/ PauseDown \/ SettleDown
    \/ Sends \/ WorkerStep \/ MkdirFails \/ OpenFails \/ WriteFails
    \/ ServerEnds
    \/ \E f \in Files : ServerChanges(f)
    \/ \E f \in Touched : LocalChanges(f)

DownSpec == DownInit /\ [][DownNext]_downVars

\* Threads run and timeouts fire; nothing is asked of the server or the user.
DownFairness == WF_downVars(WorkerStep) /\ WF_downVars(SettleDown)
DownFairSpec == DownSpec /\ DownFairness

--------------------------------------------------------------------------
(* Properties. *)

(* Types: what the worker, the ledger and the counters hold. *)
DownTypeOK ==
    /\ \A f \in Files : ver[f] \in 1..Len(Size[f])
    /\ served \in 0..Len(Tree)
    /\ server \in [style : Styles, announces : Announces]
    /\ \A f \in Files : disk[f].there \in BOOLEAN /\ disk[f].blocks \in Seq(Nat \X Nat)
    /\ asLeft \subseteq {f \in Files : disk[f].there}
    /\ \A f \in Files : /\ ledger[f].len \in Nat /\ ledger[f].whole \in BOOLEAN
                        /\ ledger[f].filp.len \in Nat /\ ledger[f].filp.modified \in Nat
    /\ row \in {"ready", "running", "winding", "paused", "failed", "done"}
    /\ aborted \in BOOLEAN /\ aborted => row = "winding"
    /\ sock \in {"none", "open", "fin", "lost", "shut"}
    /\ wait \in {"stall", "short"}
    /\ worker.at \in {"idle", "connect", "next", "entry", "filp", "fork", "drain", "ret"}
    /\ (worker.at = "idle") = (row \notin {"running", "winding"})
    /\ seen.forks \in Nat /\ seen.received = served
    /\ cut \in BOOLEAN /\ refused \subseteq Files /\ unopened \subseteq Files

\* What the ledger says of a file nobody has changed since is so: the file is
\* the start of the one version its FILP described, and all of it if whole.
Truthful(f) ==
    f \in asLeft /\ ledger[f].filp # NoFilp =>
        LET now == disk[f].blocks
            of == Content(f, ledger[f].filp.modified)
        IN  /\ Len(now) = ledger[f].len /\ Len(now) <= Len(of)
            /\ now = SubSeq(of, 1, Len(now))
            /\ ledger[f].whole => now = of

(* A file the ledger trusts was never put together from two versions, over
   breaks, pauses, resumes, a server that resends it whole, and changes on
   either side (`answer`, `data_from`, `file_recv`).  Left out are the two
   cases of TrustsOnlyItsOwn. *)
LedgerIsTruth ==
    \A f \in Files :
        f \notin unopened /\ ~(ledger[f].whole /\ ledger[f].filp.len = 0) => Truthful(f)

(* "only a file this download wrote, and nothing has changed since, is
   trusted: anything else on disk is asked for whole" (FolderLedger). *)
TrustsOnlyItsOwn == \A f \in Files : Truthful(f)

(* A download that is done has every file whole, unless the server closed or
   fell silent before its last entry: a pause, a break or an abort is never
   taken for the end of the tree (`hxnet_htxf_read`, `read_entry_within`). *)
FinishedIsWhole ==
    row = "done" /\ ~cut =>
        \A f \in Files : \/ ledger[f].whole
                         \/ ledger[f] = NotKept /\ \E v \in DOMAIN Size[f] : Size[f][v] = 0

(* With an honest count or size, and a tree nobody changed on the server, the
   grace that lets silence end the download is given only when no file with
   any bytes is left: files passed over, resumed, or sent whole again count
   once (`folder_size_arrived`, `forks_read`).  Left out is an empty file of
   the name of another program's, which counts with that one's bytes. *)
GraceIsEarned ==
    /\ worker.at = "entry" /\ wait = "short"
    /\ server.announces \in {"count", "size"}
    /\ \A f \in Files : ver[f] = 1 /\ (f \in Touched => Size[f][1] # 0)
    => \A i \in served + 1..Len(Tree) :
            Tree[i] # Folder => Size[Tree[i]][1] = 0

(* A file refused because it changed on the server is asked for whole the
   next time, so that no resume is refused over and over (`file_recv`
   clearing `was`). *)
RefusedIsAskedWhole ==
    worker.at = "filp" /\ worker.file \in refused => worker.was = NoFilp

(* A failure is told as the server having stalled only when the worker's last
   read ran out of the stall bound: the short waits for a trailing marker and
   for a last entry are not stalls (`note`, `failure`). *)
StallIsToldOfAStall ==
    [][worker'.at = "ret" /\ Why(worker') = "stalled" /\ worker.at # "ret"
        => Stall]_downVars

(* A worker returns, whatever the server does: every wait is bounded, and a
   bound that was shortened is put back (`set_read_timeout`, `set_timeout`). *)
WorkerEnds == worker.at # "idle" ~> worker.at = "idle"

\* What the ledger vouches for is what is on disk, and what the server refused
\* to continue is asked for whole.
LedgerHolds == DownTypeOK /\ LedgerIsTruth /\ RefusedIsAskedWhole

\* A download that ends has come to the end of its tree: by the server's close
\* with every file whole, or by a silence that was allowed only then.
EndIsTheEnd == FinishedIsWhole /\ GraceIsEarned
=============================================================================
