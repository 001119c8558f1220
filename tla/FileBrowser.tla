---------------------------- MODULE FileBrowser ----------------------------
(* The files window of one connection: two panes, each showing a provider of  *)
(* its own (files_remote_provider.c), the requests in flight (ASKED of        *)
(* recv/files.rs) and the dialogs that change what the server holds           *)
(* (gtkhx-ui/files).  Main thread throughout: what interleaves is the server's*)
(* answers, the watchdog of each listing, the connection and the user.        *)
(*                                                                            *)
(* A folder's rows are abstracted to the request whose answer they are: its   *)
(* folder, and whether it is the newest of its provider, asked for after the  *)
(* provider's last change (the server works a connection's requests off in    *)
(* order, so such rows show the change).  Request numbers are used again once *)
(* the server has answered.  The sticky error flag only words the status line *)
(* and is left out; so are transfers, Get Info and renaming in place.         *)
EXTENDS Integers, FiniteSets

CONSTANTS
    Provs,      \* the remote providers, a fresh one with every swap
    Dirs,       \* the server's folders
    RootDir,    \* "/"
    Up,         \* the folder each one but the root is in
    LocalSide,  \* what a pane shows of this computer
    MaxAsks,    \* bound on the listings in flight
    MaxLogons   \* bound on the connections made

ASSUME FilesAssumption ==
    /\ RootDir \in Dirs /\ Up \in [Dirs \ {RootDir} -> Dirs]
    /\ LocalSide \notin Provs
    /\ MaxAsks \in Nat /\ MaxLogons \in Nat

VARIABLES
    conn,       \* [up, ready, made]: connected, post_login_fetched
    shows,      \* what each pane shows
    prov,       \* the providers: path, rows, and whether one waits for a
                \* listing (in pending_listings, under its watchdog)
    listings,   \* ASKED: the listings in flight, for the answers
    wire,       \* the listings the server has not answered
    dialog      \* the dialog that is open: over which provider, its folder
                \* as it opened, and whether it names entries of that folder

filesVars == <<conn, shows, prov, listings, wire, dialog>>

Panes == {"left", "right"}
NoRows == [of |-> RootDir, newest |-> FALSE, some |-> FALSE]    \* an empty store
RowsOf(d) == [of |-> d, newest |-> TRUE, some |-> TRUE]
NoDialog == [prov |-> LocalSide, in |-> RootDir, named |-> FALSE]

\* RemoteListing::new and hx_remote_files_provider_init.
NewProv ==
    [path |-> RootDir, rows |-> NoRows, waiting |-> FALSE]

\* remote_get_unavailable_reason: connected, and the login is through.
Available == conn.up /\ conn.ready

\* The panes' providers, the local one left out.
ShownProvs == {shows[s] : s \in Panes} \ {LocalSide}

\* A provider nothing holds: no pane, no listing pending or in flight.
Unused(p) ==
    /\ p \notin ShownProvs
    /\ ~prov[p].waiting
    /\ \A a \in listings : a.prov # p

FilesInit ==
    /\ conn = [up |-> FALSE, ready |-> FALSE, made |-> 0]
    /\ \E p \in Provs : shows = [left |-> LocalSide, right |-> p]
    /\ prov = [p \in Provs |-> NewProv]
    /\ listings = {} /\ wire = {}
    /\ dialog = NoDialog

-----------------------------------------------------------------------------
(* The listings.                                                              *)

\* What was asked or shown for the providers P is not their newest any more.
Outdated(S, P) ==
    {IF a.prov \in P THEN [a EXCEPT !.newest = FALSE] ELSE a : a \in S}

\* Mutated form: a new listing leaves the earlier one's answer its place.
AskedKept(before, P) == before

\* asked: a provider's new listing replaces the one it asked for before.
AskedWithout(before, P) == {a \in before : a.prov \notin P}

\* remote_send_file_list of to[p] for every provider p of DOMAIN to, the left
\* pane's first, with the panes' state `now`: a number, a place in ASKED for
\* the answer and in pending_listings, and the watchdog.
SendLists(to, now) ==
    LET P == DOMAIN to
        n == Cardinality(P)
        rank == [p \in P |-> IF p = shows.left THEN 1 ELSE n]
        free == (1..MaxAsks) \ wire
        nth(i) == CHOOSE t \in free : Cardinality({u \in free : u <= t}) = i
    IN  /\ Cardinality(free) >= n
        /\ listings' = AskedWithout(Outdated(listings, P), P) \cup
                       {[prov |-> p, path |-> to[p], trans |-> nth(rank[p]), newest |-> TRUE]
                           : p \in P}
        /\ wire' = wire \cup {nth(i) : i \in 1..n}
        /\ prov' = [p \in Provs |-> IF p \in P
                                    THEN [now[p] EXCEPT !.waiting = TRUE]
                                    ELSE now[p]]

\* ... which sends nothing before the login is through.
SendFileList(p, path) ==
    IF Available
    THEN SendLists([q \in {p} |-> path], prov)
    ELSE UNCHANGED <<prov, listings, wire>>

\* remote_navigate, remote_navigate_up and remote_reload, from the path entry,
\* a folder's row, Up or Reload.
Navigate(s, d) ==
    /\ dialog = NoDialog
    /\ shows[s] # LocalSide /\ Available
    /\ d \in Dirs
    /\ SendFileList(shows[s], d)
    /\ UNCHANGED <<conn, shows, dialog>>

NavigateUp(s) ==
    /\ dialog = NoDialog
    /\ shows[s] # LocalSide /\ Available
    /\ prov[shows[s]].path # RootDir
    /\ SendFileList(shows[s], Up[prov[shows[s]].path])
    /\ UNCHANGED <<conn, shows, dialog>>

\* on_file_update: a transfer that finished re-lists both panes.
FileUpdate ==
    /\ Available /\ ShownProvs # {}
    /\ SendLists([p \in ShownProvs |-> prov[p].path], prov)
    /\ UNCHANGED <<conn, shows, dialog>>

-----------------------------------------------------------------------------
(* The answers.                                                               *)

\* listed with handle_file_list, in which a provider that stopped waiting
\* drops the rows.
ShowListing(p, a) ==
    prov' = [prov EXCEPT ![p] =
                IF ~@.waiting THEN @
                ELSE [path |-> a.path, rows |-> [RowsOf(a.path) EXCEPT !.newest = a.newest],
                      waiting |-> FALSE]]

\* failed with handle_file_list_error: the path is adopted all the same.
ShowRefusal(p, a) ==
    prov' = [prov EXCEPT ![p] =
                IF ~@.waiting THEN @
                ELSE [path |-> a.path, rows |-> NoRows, waiting |-> FALSE]]

\* The server answers a listing, in any order, granting or refusing it;
\* an answer nobody asked for (any more) goes nowhere.
AnswerListing(t, granted) ==
    /\ conn.up /\ t \in wire
    /\ wire' = wire \ {t}
    /\ listings' = {a \in listings : a.trans # t}
    /\ IF \E a \in listings : a.trans = t
       THEN LET a == CHOOSE b \in listings : b.trans = t
            IN  IF granted THEN ShowListing(a.prov, a) ELSE ShowRefusal(a.prov, a)
       ELSE UNCHANGED prov
    /\ UNCHANGED <<conn, shows, dialog>>

\* remote_list_timeout: the listing is given up, the path stays.
ListTimeout(p) ==
    /\ prov[p].waiting
    /\ prov' = [prov EXCEPT ![p].waiting = FALSE, ![p].rows = NoRows]
    /\ UNCHANGED <<conn, shows, listings, wire, dialog>>

-----------------------------------------------------------------------------
(* The dialogs.  One at a time, over the window, whose panes the user cannot  *)
(* reach meanwhile.                                                           *)

\* The Rename, Delete and Move dialogs, which act on rows (Move only between
\* two remote panes), and New Folder's, which needs none.
OpenDialog(s, kind) ==
    /\ dialog = NoDialog
    /\ shows[s] # LocalSide
    /\ kind # "mkdir" => prov[shows[s]].rows.some
    /\ kind = "move" => \A r \in Panes : shows[r] # LocalSide
    /\ dialog' = [prov |-> shows[s], in |-> prov[shows[s]].path, named |-> kind # "mkdir"]
    /\ UNCHANGED <<conn, shows, prov, listings, wire>>

CancelDialog ==
    /\ dialog # NoDialog
    /\ dialog' = NoDialog
    /\ UNCHANGED <<conn, shows, prov, listings, wire>>

\* The providers P change what the server holds: their rows are out of date.
AfterChange(P) ==
    [p \in Provs |-> IF p \in P THEN [prov[p] EXCEPT !.rows.newest = FALSE] ELSE prov[p]]

\* remote_rename, remote_delete_entry, remote_mkdir and the Move dialog: the
\* change, then the folder the provider shows by now.  Before the login is
\* through the change is held back (ControlChannel) and nothing is listed:
\* LoginReady lists every pane.
ChangeThenList(P) ==
    IF Available
    THEN SendLists([q \in P |-> prov[q].path], AfterChange(P))
    ELSE /\ prov' = AfterChange(P) /\ listings' = Outdated(listings, P)
         /\ UNCHANGED wire

\* The dialog's answer: the names it holds, in the folder its pane's provider
\* shows by now.
Confirm ==
    /\ dialog # NoDialog /\ conn.up
    /\ dialog' = NoDialog
    /\ ChangeThenList({dialog.prov})
    /\ UNCHANGED <<conn, shows>>

\* move_entries: a drag between two remote panes moves at once and lists both.
Drag(s) ==
    /\ dialog = NoDialog
    /\ \A r \in Panes : shows[r] # LocalSide
    /\ conn.up /\ prov[shows[s]].rows.some
    /\ ChangeThenList(ShownProvs)
    /\ UNCHANGED <<conn, shows, dialog>>

-----------------------------------------------------------------------------
(* The panes and the connection.                                              *)

\* swap and set_provider: a fresh provider, listed as it is attached.
Swap(s) ==
    /\ dialog = NoDialog
    /\ \/ /\ shows[s] # LocalSide
          /\ shows' = [shows EXCEPT ![s] = LocalSide]
          /\ UNCHANGED <<prov, listings, wire>>
       \/ /\ shows[s] = LocalSide
          /\ \E p \in Provs :
                LET fresh == [prov EXCEPT ![p] = NewProv]
                IN  /\ Unused(p) /\ \A q \in Provs : q < p => ~Unused(q)
                    /\ shows' = [shows EXCEPT ![s] = p]
                    /\ IF Available
                       THEN SendLists([q \in {p} |-> RootDir], fresh)
                       ELSE prov' = fresh /\ UNCHANGED <<listings, wire>>
    /\ UNCHANGED <<conn, dialog>>

ConnectFiles ==
    /\ ~conn.up /\ conn.made < MaxLogons
    /\ conn' = [conn EXCEPT !.up = TRUE, !.made = @ + 1]
    /\ UNCHANGED <<shows, prov, listings, wire, dialog>>

\* hx_post_login_fetches and on_connection_state(LOGIN_READY): every pane's
\* unavailable-changed handler reloads it.
LoginReady ==
    /\ conn.up /\ ~conn.ready
    /\ conn' = [conn EXCEPT !.ready = TRUE]
    /\ IF ShownProvs = {} THEN UNCHANGED <<prov, listings, wire>>
       ELSE SendLists([p \in ShownProvs |-> prov[p].path], prov)
    /\ UNCHANGED <<shows, dialog>>

\* hx_remote_files_provider_reset_to_root: not the pending entry or its watchdog.
ResetToRoot(p) == [p EXCEPT !.path = RootDir, !.rows = NoRows]

\* hx_htlc_close, forget and on_connection_state(DISCONNECTED).
DisconnectFiles ==
    /\ conn.up
    /\ conn' = [conn EXCEPT !.up = FALSE, !.ready = FALSE]
    /\ listings' = {} /\ wire' = {}
    /\ prov' = [p \in Provs |-> IF p \in ShownProvs THEN ResetToRoot(prov[p]) ELSE prov[p]]
    /\ UNCHANGED <<shows, dialog>>

FilesNext ==
    \/ \E s \in Panes : \/ \E d \in Dirs : Navigate(s, d)
                        \/ NavigateUp(s)
                        \/ \E k \in {"change", "move", "mkdir"} : OpenDialog(s, k)
                        \/ Drag(s)
                        \/ Swap(s)
    \/ \E t \in wire, granted \in BOOLEAN : AnswerListing(t, granted)
    \/ \E p \in Provs : ListTimeout(p)
    \/ FileUpdate \/ CancelDialog \/ Confirm
    \/ ConnectFiles \/ LoginReady \/ DisconnectFiles

FilesSpec == FilesInit /\ [][FilesNext]_filesVars
-----------------------------------------------------------------------------
\* The kinds of the variables.
FilesTypeOK ==
    /\ conn \in [up : BOOLEAN, ready : BOOLEAN, made : 0..MaxLogons]
    /\ shows \in [Panes -> Provs \cup {LocalSide}]
    /\ prov \in [Provs -> [path : Dirs, rows : {NoRows} \cup [of : Dirs, newest : BOOLEAN,
                                                              some : {TRUE}],
                           waiting : BOOLEAN]]
    /\ listings \subseteq [prov : Provs, path : Dirs, trans : wire, newest : BOOLEAN]

\* What a pane lists is the folder its path bar names: every change of one is
\* a change of the other (handle_file_list, the refusal, the watchdog, the
\* reset), whichever order the answers, the watchdog and a disconnect come in.
RowsMatchPath ==
    \A p \in Provs : prov[p].rows.some => prov[p].rows.of = prov[p].path

\* What a pane shows once it waits for nothing is the newest listing it asked
\* for, and no older than the last change made through it: however many are in
\* flight and in whatever order the server answers them, the pane never ends up
\* in a folder the user has left (asked's retain, recv/files.rs), nor showing
\* an entry it deleted or renamed as it was (remote_delete_entry and the others
\* list again after the change).
ShownIsNewest ==
    \A p \in ShownProvs : ~prov[p].waiting /\ prov[p].rows.some => prov[p].rows.newest

\* A pane that waits on a live, logged-in connection has a place kept for its
\* answer: a server that answers ends the wait, not the watchdog, as it would
\* if the other pane's listing or a reconnect took the place away.
WaitIsAnswerable ==
    Available => \A p \in ShownProvs : prov[p].waiting => \E a \in listings : a.prov = p

\* Each pane lists the folder it names, as the server last had it when nothing
\* is awaited, and awaits only what can come.
PanesAgree == RowsMatchPath /\ ShownIsNewest /\ WaitIsAnswerable

\* A dialog acts on the entries it was opened on: dialogs.rs says that each
\* "captures the names it acts on when it opens, not the rows", as "the listing
\* can change underneath it".  It does not capture the folder: while it is open
\* and can be confirmed, its names are still those of the folder it acts in.
ActsOnWhatWasChosen ==
    conn.up /\ dialog.named => prov[dialog.prov].path = dialog.in
=============================================================================
