---------------------------- MODULE TrackerFetch ----------------------------
(* The tracker window and the walk that fills it.  A walk runs on the tokio   *)
(* runtime: it visits the configured trackers one by one, over TLS first, and *)
(* sends what each one lists through a bounded channel.  It wakes the main    *)
(* loop only once all of a tracker's events are in the channel, and the wake- *)
(* ups coalesce.  The main thread drains the channel while the walk goes on,  *)
(* and queues what it drains for one splice into the lists.                   *)
(*                                                                            *)
(* A tracker is its URL and a server its address and port.  The versions of   *)
(* the protocol, the row selected and the columns are left out.  The wake-up  *)
(* of a closed fetch finds no target and its events no channel, but its walk  *)
(* may have been in the midst of a poll, blocked in the trust prompt for one: *)
(* it goes on to where it next waits, and may store its verdicts long after.  *)
EXTENDS Integers, Sequences, SequencesExt, FiniteSetsExt

CONSTANTS
    Trackers,       \* the URLs of trackers
    TrackerLists,   \* the lists of them the settings may hold; one may be there twice
    HxServers,      \* the servers trackers list
    Listings,       \* the lists of them a tracker may give
    MaxListing,     \* their greatest length: u16::MAX in the code
    Searches,       \* sets of servers a search may match, HxServers among them
    NoTracker,      \* not a tracker
    MaxGets,        \* bound: how often the list is fetched
    MaxLate         \* bound: how many walks go on after their fetch was closed

ASSUME TrackerAssumption ==
    /\ NoTracker \notin Trackers
    /\ \A urls \in TrackerLists : urls \in Seq(Trackers)
    /\ MaxListing \in Nat
    /\ \A l \in Listings : l \in Seq(HxServers) /\ Len(l) <= MaxListing
    /\ HxServers \in Searches /\ \A m \in Searches : m \subseteq HxServers

VARIABLES
    trackerWin, \* WIN: the window with its sections and counts
    search,     \* SEARCH: the servers the search matches
    fetching,   \* current_tracker_fetch is a handle
    walk,       \* its walk, channel and wake-up
    draining,   \* the main thread is in tracker_fetch_drain
    flushes,    \* flush_pending idles on the main loop
    plainOnly,  \* the process's VerdictCache: the trackers it says No of
    asker,      \* the session an open window was opened for is open
    late,       \* the closed fetches whose walks abort has not stopped yet
    lastFailed, \* the trackers whose last TLS handshake failed
    onceFailed, \* the trackers of which one ever did
    putBack,    \* the trackers a walk of a closed fetch has stored a No of
    gets        \* fetches so far

trackerVars == <<trackerWin, search, fetching, walk, draining, flushes, plainOnly, asker,
                 late, lastFailed, onceFailed, putBack, gets>>

\* What only the walks change, and what is known of their handshakes.
verdictVars == <<plainOnly, late, lastFailed, onceFailed, putBack>>

\* TRACKER_EVENT_ROOM: one listing's records, its begin and the walk's end.
EventRoom == MaxListing + 2

-----------------------------------------------------------------------------
(* The walk.                                                                  *)

\* Mutated form: any failure over TLS, a rejected certificate too, falls back.
LadderFallsBack(u, no) ==
    IF u \in no
    THEN {[no |-> no, failed |-> lastFailed, over |-> s] : s \in {"plain", "nothing"}}
    ELSE {[no |-> no, failed |-> lastFailed \ {u}, over |-> "tls"],
          [no |-> no, failed |-> lastFailed, over |-> "nothing"]}
         \union {[no |-> no \union {u}, failed |-> f, over |-> s] :
                   f \in {lastFailed \union {u}, lastFailed \ {u}}, s \in {"plain", "nothing"}}

\* connect_with_fallback, where TLS is not tried on the trackers in no: what an attempt
\* leads to.  TLS succeeds, its certificate is rejected, the tracker cannot be reached,
\* or the handshake fails, and only then is it tried in the clear.
Ladder(u, no) ==
    IF u \in no
    THEN {[no |-> no, failed |-> lastFailed, over |-> s] : s \in {"plain", "nothing"}}
    ELSE {[no |-> no, failed |-> lastFailed \ {u}, over |-> "tls"],
          [no |-> no, failed |-> lastFailed \ {u}, over |-> "nothing"],
          [no |-> no, failed |-> lastFailed, over |-> "nothing"]}
         \union {[no |-> no \union {u}, failed |-> lastFailed \union {u}, over |-> s] :
                   s \in {"plain", "nothing"}}

\* emit_listing and emit_error: what fetch_one has to send for a tracker.
ListingEvents(u, listing) ==
    <<<<"begin", u>>>> \o [i \in DOMAIN listing |-> <<"server", listing[i]>>]
ErrorEvents(u) == <<<<"error", u>>>>

\* TrackerWake::wake: one idle at a time.
Wake(w) == IF w.queued THEN w ELSE [w EXCEPT !.queued = TRUE, !.idles = @ + 1]

\* fetch_one up to the events it has to send: the first attempt, which may be
\* inconclusive, and the second, which settles it.
VisitTracker ==
    LET u == walk.urls[walk.at] IN
    /\ fetching /\ walk.step \in {"open", "reopen"}
    /\ \E l \in Ladder(u, walk.no) :
         /\ lastFailed' = l.failed /\ onceFailed' = onceFailed \union l.failed
         /\ \/ \E listing \in Listings :
                 /\ l.over # "nothing"
                 /\ walk' = [walk EXCEPT !.step = "send", !.out = ListingEvents(u, listing),
                                         !.no = l.no, !.over = l.over]
            \/ walk' = [walk EXCEPT !.step = "send", !.out = ErrorEvents(u),
                                    !.no = l.no, !.over = l.over]
            \/ /\ l.over # "nothing" /\ walk.step = "open"
               /\ walk' = [walk EXCEPT !.step = "reopen", !.no = l.no,
                                       !.over = l.over]
    /\ UNCHANGED <<trackerWin, search, fetching, draining, flushes, plainOnly, asker, late,
                   putBack, gets>>

\* A send, which waits while the channel is full.
SendEvent ==
    /\ fetching /\ walk.step = "send" /\ walk.out # <<>>
    /\ Len(walk.chan) < EventRoom
    /\ walk' = [walk EXCEPT !.out = Tail(@), !.chan = Append(@, Head(walk.out))]
    /\ UNCHANGED <<trackerWin, search, fetching, draining, flushes, asker, verdictVars,
                   gets>>

\* run_fetch_notifying between two trackers: `sent` wakes, and the walk goes on to
\* the next tracker, to Done, or to its end.
TrackerSent ==
    /\ fetching /\ walk.step = "send" /\ walk.out = <<>>
    /\ LET w == [Wake(walk) EXCEPT !.at = @ + 1, !.over = "nothing"] IN
       walk' = IF walk.at < Len(walk.urls) THEN [w EXCEPT !.step = "open"]
               ELSE IF walk.at = Len(walk.urls)
               THEN [w EXCEPT !.out = <<<<"done", NoTracker>>>>]
               ELSE [w EXCEPT !.step = "end"]
    /\ UNCHANGED <<trackerWin, search, fetching, draining, flushes, asker, verdictVars,
                   gets>>

\* The walk's task stores its verdicts and drops the sender; a panic before that
\* drops the sender alone.  Either way the guard is yet to wake.
WalkEnds ==
    /\ fetching /\ walk.step = "end"
    /\ plainOnly' = walk.no
    /\ walk' = [walk EXCEPT !.step = "guard", !.open = FALSE]
    /\ UNCHANGED <<trackerWin, search, fetching, draining, flushes, asker, late, lastFailed,
                   onceFailed, putBack, gets>>

WalkPanics ==
    /\ fetching /\ walk.step \in {"open", "reopen", "send"}
    /\ walk' = [walk EXCEPT !.step = "guard", !.open = FALSE, !.over = "nothing"]
    /\ UNCHANGED <<trackerWin, search, fetching, draining, flushes, asker, verdictVars,
                   gets>>

\* A walk that went on after its fetch was closed finds the channel closed and stores its
\* verdicts, over what later walks have stored; or abort stops it where it waits next.
LateStore ==
    \E w \in late :
      /\ late' = late \ {w}
      /\ \/ plainOnly' = w.no /\ putBack' = putBack \union w.no
         \/ UNCHANGED <<plainOnly, putBack>>
      /\ UNCHANGED <<trackerWin, search, fetching, walk, draining, flushes, asker, lastFailed,
                     onceFailed, gets>>

\* WakeOnDrop.
GuardDrops ==
    /\ fetching /\ walk.step = "guard"
    /\ walk' = [Wake(walk) EXCEPT !.step = "over"]
    /\ UNCHANGED <<trackerWin, search, fetching, draining, flushes, asker, verdictVars,
                   gets>>

-----------------------------------------------------------------------------
(* The window.                                                                *)

EmptySection == [seen |-> {}, pending |-> <<>>, rows |-> <<>>]
NoSections == [u \in {} |-> NoTracker]

ClosedWindow == [open |-> FALSE, busy |-> FALSE, sections |-> NoSections,
                 current |-> NoTracker, total |-> 0, found |-> 0, flush |-> FALSE]

\* section_num_found: the rows the filter lets through.
FoundIn(rows) == Cardinality({i \in DOMAIN rows : rows[i] \in search})

\* The rows of all the lists, each its tracker and its place, and those m matches.
Stores(lists) == [u \in DOMAIN lists |-> lists[u].rows]
Places(stores) == UNION {{u} \X DOMAIN stores[u] : u \in DOMAIN stores}
Matching(stores, m) == {p \in Places(stores) : stores[p[1]][p[2]] \in m}

\* tracker_clear.
Emptied(w) == [w EXCEPT !.sections = NoSections, !.current = NoTracker,
                        !.total = 0, !.found = 0]

\* tracker_batch_begin: a new section, or the tracker's own made empty.
BatchBegin(w, u) ==
    LET lists == w.sections
        old == IF u \in DOMAIN lists THEN lists[u] ELSE EmptySection IN
    [w EXCEPT !.sections = [v \in DOMAIN lists \union {u} |->
                              IF v = u THEN EmptySection ELSE lists[v]],
              !.current = u,
              !.total = @ - Len(old.rows), !.found = @ - FoundIn(old.rows)]

\* The section with s seen, and waiting for the flush.
WithServer(sec, s) == [sec EXCEPT !.seen = @ \union {s}, !.pending = Append(@, s)]

\* Mutated form: no flush is scheduled.
ServerWaits(w, s) ==
    IF w.current = NoTracker \/ s \in w.sections[w.current].seen THEN w
    ELSE [w EXCEPT !.sections[w.current] = WithServer(@, s)]

\* tracker_server_create: a server not listed yet waits for the flush.
ServerCreate(w, s) ==
    IF w.current = NoTracker \/ s \in w.sections[w.current].seen THEN w
    ELSE [w EXCEPT !.sections[w.current] = WithServer(@, s), !.flush = TRUE]

\* tracker_fetch_dispatch_event.
Dispatch(w, e) ==
    CASE e[1] = "begin" -> BatchBegin(w, e[2])
      [] e[1] = "server" -> ServerCreate(w, e[2])
      [] OTHER -> w

\* hxnet_tracker_fetch_open and _watch, whose wake-up is the first.
NewWalk(urls) ==
    [urls |-> urls, at |-> 1, step |-> "open", out |-> <<>>, chan |-> <<>>, open |-> TRUE,
     queued |-> TRUE, idles |-> 1, no |-> plainOnly, over |-> "nothing"]

NoWalk == [NewWalk(<<>>) EXCEPT !.step = "over", !.open = FALSE, !.queued = FALSE,
                                !.idles = 0, !.no = {}]

\* abort stops a walk that waits.  One in a poll goes on: in the trust prompt, where its
\* handshake has succeeded and the thread waits for an answer, or between two waits.
GoesOn ==
    /\ Cardinality(late) < MaxLate
    /\ late' = late \union {[fetch |-> gets, no |-> walk.no]}

\* hxnet_tracker_fetch_close, of a fetch that runs or of none.
Abort ==
    /\ \/ UNCHANGED <<late, lastFailed>>
       \/ fetching /\ walk.step \in {"send", "end"} /\ GoesOn /\ UNCHANGED lastFailed
       \/ /\ fetching /\ walk.step \in {"open", "reopen"}
          /\ walk.urls[walk.at] \notin walk.no
          /\ GoesOn /\ lastFailed' = lastFailed \ {walk.urls[walk.at]}
    /\ UNCHANGED <<plainOnly, onceFailed, putBack>>

\* tracker_fetch_cleanup: the fetch is closed and the spinner stops.
Cleanup ==
    /\ fetching' = FALSE
    /\ walk' = NoWalk
    /\ Abort

\* The wake-up's idle clears the flag before it drains, and tracker_fetch_drain gives up
\* if the asking session is gone.
RunWake ==
    /\ ~draining /\ walk.idles > 0
    /\ IF asker
       THEN /\ draining' = TRUE
            /\ walk' = [walk EXCEPT !.idles = @ - 1, !.queued = FALSE]
            /\ UNCHANGED <<trackerWin, fetching, verdictVars>>
       ELSE Cleanup /\ trackerWin' = [trackerWin EXCEPT !.busy = FALSE] /\ UNCHANGED draining
    /\ UNCHANGED <<search, flushes, asker, gets>>

\* One poll of the drain's loop takes an event.
PollEvent ==
    /\ draining /\ walk.chan # <<>>
    /\ trackerWin' = Dispatch(trackerWin, Head(walk.chan))
    /\ flushes' = IF trackerWin'.flush /\ ~trackerWin.flush THEN flushes + 1 ELSE flushes
    /\ walk' = [walk EXCEPT !.chan = Tail(@)]
    /\ UNCHANGED <<search, fetching, draining, asker, verdictVars, gets>>

\* The channel is empty: the drain ends, or the fetch does if it is closed too.
PollEmpty ==
    /\ draining /\ walk.chan = <<>>
    /\ draining' = FALSE
    /\ IF walk.open THEN UNCHANGED <<trackerWin, fetching, walk, verdictVars>>
       ELSE Cleanup /\ trackerWin' = [trackerWin EXCEPT !.busy = FALSE]
    /\ UNCHANGED <<search, flushes, asker, gets>>

\* What the matches grow by when the old rows become the new.
FoundDelta(old, new) == Cardinality(Matching(new, search)) - Cardinality(Matching(old, search))

\* flush_pending: what waits is added to the lists and to the counts.
FlushPending ==
    LET lists == trackerWin.sections
        waiting == [u \in DOMAIN lists |-> lists[u].pending]
        rows == [u \in DOMAIN lists |-> lists[u].rows \o lists[u].pending] IN
    /\ ~draining /\ flushes > 0
    /\ flushes' = flushes - 1
    /\ trackerWin' = [trackerWin EXCEPT
                        !.flush = FALSE,
                        !.sections = [u \in DOMAIN lists |->
                                        [lists[u] EXCEPT !.pending = <<>>, !.rows = rows[u]]],
                        !.total = @ + Cardinality(Places(waiting)),
                        !.found = @ + FoundDelta(Stores(lists), rows)]
    /\ UNCHANGED <<search, fetching, walk, draining, asker, verdictVars, gets>>

\* rerun_search, for a search that matches m.
RerunSearch(m) ==
    /\ ~draining /\ trackerWin.open
    /\ search' = m
    /\ trackerWin' = [trackerWin EXCEPT !.found =
                        Cardinality(Matching(Stores(trackerWin.sections), m))]
    /\ UNCHANGED <<fetching, walk, draining, flushes, asker, verdictVars, gets>>

\* tracker_getlist with the window w: what runs is cancelled, the list made empty and
\* a walk started and watched.  An empty list of trackers, like one hxnet refuses,
\* starts nothing.
GetList(w) ==
    \E urls \in TrackerLists :
      /\ gets < MaxGets /\ gets' = gets + 1
      /\ fetching' = (urls # <<>>)
      /\ walk' = IF urls # <<>> THEN NewWalk(urls) ELSE NoWalk
      /\ trackerWin' = [Emptied(w) EXCEPT !.busy = (urls # <<>>)]
      /\ Abort

\* create_tracker_window.
OpenTracker ==
    /\ ~draining /\ ~trackerWin.open
    /\ GetList([ClosedWindow EXCEPT !.open = TRUE])
    /\ UNCHANGED <<search, draining, flushes, asker>>

\* The Refresh button.  A window whose session is closed holds a dangling pointer:
\* what a refresh then does is undefined, and the model does not go on.
RefreshTracker ==
    /\ ~draining /\ trackerWin.open /\ asker
    /\ GetList(trackerWin)
    /\ UNCHANGED <<search, draining, flushes, asker>>

\* on_close cancels the fetch.
CloseStopsFetch == Cleanup

CloseTracker ==
    /\ ~draining /\ trackerWin.open
    /\ CloseStopsFetch
    /\ trackerWin' = ClosedWindow
    /\ search' = HxServers /\ asker' = TRUE
    /\ UNCHANGED <<draining, flushes, gets>>

\* kill_threads, from Disconnect on a connection that is down; during a drain too, whose
\* loop then finds no handle and ends.
KillThreads ==
    /\ fetching
    /\ Cleanup
    /\ draining' = FALSE
    /\ trackerWin' = [trackerWin EXCEPT !.busy = FALSE]
    /\ UNCHANGED <<search, flushes, asker, gets>>

\* The tab of the session the window was opened for is closed during a fetch.
CloseAsker ==
    /\ ~draining /\ fetching /\ asker
    /\ asker' = FALSE
    /\ UNCHANGED <<trackerWin, search, fetching, walk, draining, flushes, verdictVars, gets>>

-----------------------------------------------------------------------------
TrackerInit ==
    /\ trackerWin = ClosedWindow
    /\ search = HxServers
    /\ fetching = FALSE
    /\ plainOnly = {}
    /\ walk = NoWalk
    /\ draining = FALSE
    /\ flushes = 0
    /\ asker = TRUE
    /\ late = {}
    /\ lastFailed = {} /\ onceFailed = {} /\ putBack = {}
    /\ gets = 0

TrackerNext ==
    \/ VisitTracker \/ SendEvent \/ TrackerSent \/ WalkEnds \/ WalkPanics \/ LateStore
    \/ GuardDrops
    \/ RunWake \/ PollEvent \/ PollEmpty \/ FlushPending
    \/ \E m \in Searches : RerunSearch(m)
    \/ OpenTracker \/ RefreshTracker \/ CloseTracker \/ KillThreads \/ CloseAsker

TrackerSpec == TrackerInit /\ [][TrackerNext]_trackerVars

-----------------------------------------------------------------------------
(* What holds.                                                                *)

\* The tracker window's state, the walk, the channel within its room and the idles.
TrackerTypeOK ==
    /\ trackerWin.open \in BOOLEAN /\ trackerWin.busy \in BOOLEAN /\ trackerWin.flush \in BOOLEAN
    /\ DOMAIN trackerWin.sections \subseteq Trackers
    /\ trackerWin.current \in DOMAIN trackerWin.sections \union {NoTracker}
    /\ trackerWin.total \in Nat /\ trackerWin.found \in Nat
    /\ search \in Searches
    /\ walk.step \in {"open", "reopen", "send", "end", "guard", "over"}
    /\ Len(walk.chan) <= EventRoom
    /\ walk.idles \in {0, 1}
    /\ fetching \in BOOLEAN /\ draining \in BOOLEAN /\ asker \in BOOLEAN
    /\ flushes \in Nat
    /\ plainOnly \subseteq Trackers /\ lastFailed \subseteq onceFailed
    /\ onceFailed \subseteq Trackers /\ putBack \subseteq Trackers
    /\ \A w \in late : w.no \subseteq Trackers

\* Nobody waits for nobody (TrackerWake, TRACKER_EVENT_ROOM): where the walk can go no
\* further by itself, because the channel is full or it has ended, the main thread is
\* draining or has a wake-up coming.
WalkIsDrained ==
    fetching /\ (walk.step = "over" \/ (walk.out # <<>> /\ Len(walk.chan) >= EventRoom))
        => draining \/ walk.idles > 0

\* No server is listed twice under a tracker, whatever the tracker repeats and however
\* often the settings name it (Section's dedup, pending and store).
ListedOnce ==
    \A u \in DOMAIN trackerWin.sections :
      LET sec == trackerWin.sections[u]
          all == sec.rows \o sec.pending IN
      IsInjective(all) /\ Range(all) = sec.seen

\* The numbers in the header are the servers in the lists and those of them that match,
\* though they are kept by adding and subtracting (num_total_total, num_found_total).
CountsAreRows ==
    /\ trackerWin.total = Cardinality(Places(Stores(trackerWin.sections)))
    /\ trackerWin.found = Cardinality(Matching(Stores(trackerWin.sections), search))

\* Servers that wait to be listed have a flush coming, also after the list was emptied or
\* the window closed and opened with an earlier flush still on the main loop.
PendingIsFlushed ==
    (\E u \in DOMAIN trackerWin.sections : trackerWin.sections[u].pending # <<>>)
        => trackerWin.flush /\ flushes > 0

\* The spinner turns exactly while a fetch is open, and none is open without the window,
\* which is its only progress and its only way to stop it.
SpinnerIsFetch == trackerWin.busy = fetching

\* What the walk fetches is shown: it never waits for a drain that is not coming, and
\* the window lists each server once, with counts that are the rows', nothing left
\* unlisted, and a spinner while more may come.
FetchIsShown ==
    WalkIsDrained /\ ListedOnce /\ CountsAreRows /\ PendingIsFlushed /\ SpinnerIsFetch

\* A list is asked for in the clear only of a tracker whose TLS handshake has failed, and
\* failed the last time it was tried, so never after a certificate was rejected; unless a
\* walk of a closed fetch has since stored what it knew (connect_with_fallback, the
\* snapshot and the store of the verdicts).
PlainOnlyAfterFailure ==
    walk.over = "plain" =>
        LET u == walk.urls[walk.at] IN u \in onceFailed /\ u \in lastFailed \union putBack

=============================================================================
