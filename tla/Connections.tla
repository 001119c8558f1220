----------------------------- MODULE Connections -----------------------------
(* The connections and their tabs: the registry of sessions with its focus    *)
(* (session_registry.c), the tab strip and its close question (conn_tabs.rs), *)
(* what connects and reconnects them (connect.rs, tracker_bridge.c), and the  *)
(* "lost connection" banner that follows the focus (gtkutil.c, toolbar.c).    *)
(* All of it runs on the main thread; what interleaves is the user, on the    *)
(* main window and on others, and what becomes of each connection.            *)
(*                                                                            *)
(* A session is its connection's serial, which is not given out twice         *)
(* (conn.rs, next_serial).  The strip's order is left out, as tabs can be     *)
(* dragged: a neighbour is any other tab.  Handing a closed session to a      *)
(* connect is undefined, and the model does not go there.                     *)
EXTENDS Integers, FiniteSets, SequencesExt

CONSTANTS
    MaxSessions,  \* bound on the sessions opened
    Hosts,        \* servers to connect to
    NoHost        \* none

ASSUME ConnectionsAssumption == MaxSessions \in Nat \ {0}

VARIABLES
    sessions,     \* the registry: the serials, oldest first
    opened,       \* the serials given out
    focused,      \* the index of the focused session
    strip,        \* the tabs
    selected,     \* the tab that is selected
    panels,       \* the session whose pages the panels show
    status,       \* "down", "dialing", or "connected" from TCP_CONNECTED on
    host,         \* serverhost: where a session's latest connect went
    lastConn,     \* LAST_CONN: where Reconnect would take it
    announced,    \* sessions whose last_status is 1 or 2
    lost,         \* the session the banner says was lost, or NoSession
    question,     \* the tab whose close is being asked about, or NoSession
    closing,      \* the pages AdwTabView holds as closing
    byHand        \* history: sessions sent elsewhere by /server, until they connect

connectionsVars == <<sessions, opened, focused, strip, selected, panels, status, host,
                     lastConn, announced, lost, question, closing, byHand>>
registryVars == <<sessions, opened, strip, selected, panels>>

Serials == 1..MaxSessions
NoSession == 0

\* hx_active_session
Active == sessions[focused]

\* hx_session_index
SessionIndex(s) == CHOOSE i \in DOMAIN sessions : sessions[i] = s

\* fe_init: the first session and its tab.
ConnectionsInit ==
    /\ sessions = <<1>> /\ opened = 1 /\ focused = 1
    /\ strip = {1} /\ selected = 1 /\ panels = 1
    /\ status = [s \in Serials |-> "down"]
    /\ host = [s \in Serials |-> NoHost]
    /\ lastConn = [s \in Serials |-> NoHost]
    /\ announced = {} /\ lost = NoSession
    /\ question = NoSession /\ closing = {} /\ byHand = {}

-----------------------------------------------------------------------------
\* status_bar_set with `announce`: nothing, unless s is the focused session.
Announce(s, new) ==
    /\ lost' = IF s # Active THEN lost
               ELSE IF new # "down" THEN NoSession
               ELSE IF s \in announced THEN s
               ELSE lost
    /\ announced' = IF s # Active THEN announced
                    ELSE IF new = "connected" THEN announced \cup {s}
                    ELSE announced \ {s}

\* hx_chrome_refresh, on a tab that is now in front: it hides the banner of one
\* that is not down, and leaves it as it is over one that is.
Refreshed(s) == IF status[s] = "down" THEN lost ELSE NoSession

\* on_selected_page_changed: the focus, the panels, the chrome.
SelectTab(s) ==
    /\ question = NoSession /\ s \in strip \ {selected}
    /\ selected' = s /\ panels' = s
    /\ focused' = SessionIndex(s)
    /\ lost' = Refreshed(s)
    /\ UNCHANGED <<sessions, opened, strip, status, host, lastConn, announced, question, closing,
                   byHand>>

-----------------------------------------------------------------------------
\* Mutated form: a connect goes to the session it was given, busy or not.
TargetAsGiven(s) == s

\* Target::NewTabIfBusy: a session with a socket is left alone, and the connect
\* gets a session of its own.
Target(s) == IF status[s] = "down" THEN s ELSE opened + 1

\* Mutated form: the server is noted for the session the connect was given.
NoteGiven(s, t, h) == lastConn' = [lastConn EXCEPT ![s] = h]

\* note: connect_with_args notes the server for the session that goes there, and
\* note_tracker_connect for the focused one, which by then is the same.
Note(s, t, h) == lastConn' = [lastConn EXCEPT ![t] = h]

\* connect_with_args and gtkhx_tracker_connect_apply, with hx_session_open: the
\* new session is registered last, its tab selected and its panels shown.
ConnectOn(s, h) ==
    LET t == Target(s)
        new == t > opened
        seen == new \/ s = Active     \* CONNECTING reaches the chrome
    IN  /\ t <= MaxSessions
        /\ IF new
           THEN /\ sessions' = Append(sessions, t) /\ opened' = t
                /\ focused' = Len(sessions) + 1
                /\ strip' = strip \cup {t} /\ selected' = t /\ panels' = t
           ELSE UNCHANGED <<registryVars, focused>>
        /\ Note(s, t, h)
        /\ host' = [host EXCEPT ![t] = h]
        /\ status' = [status EXCEPT ![t] = "dialing"]
        /\ lost' = IF seen THEN NoSession ELSE lost
        /\ announced' = IF seen THEN announced \ {t} ELSE announced
        /\ UNCHANGED <<question, closing, byHand>>

\* A bookmark, a link, a row of the tracker's or another launch's --server: the
\* focused session.  Not all of them need the main window.
ConnectFocused(h) == ConnectOn(Active, h)

\* server_connect: the Connect dialog has kept the session it was opened for,
\* the toolbar's first or the one focused then, of which any may be left.
ConnectDialog(s, h) ==
    /\ s \in strip
    /\ ConnectOn(s, h)

\* The banner's Reconnect (connect_reconnect_last): the focused session goes to
\* its last server, over whatever it has; or the Connect dialog, with none.
Reconnect ==
    /\ question = NoSession /\ lost # NoSession
    /\ lost' = NoSession
    /\ IF lastConn[Active] = NoHost
       THEN UNCHANGED <<status, host, announced>>
       ELSE /\ status' = [status EXCEPT ![Active] = "dialing"]
            /\ host' = [host EXCEPT ![Active] = lastConn[Active]]
            /\ announced' = announced \ {Active}
    /\ UNCHANGED <<registryVars, focused, lastConn, question, closing, byHand>>

\* cmd_server and hx_connect: /server in a chat, on its panel or in a window of
\* the panel's own, takes the chat's connection elsewhere, over whatever it has.
SlashServer(h) ==
    LET s == panels
    IN  /\ lastConn' = [lastConn EXCEPT ![s] = h]
        /\ host' = [host EXCEPT ![s] = h]
        /\ status' = [status EXCEPT ![s] = "dialing"]
        /\ lost' = IF s = Active THEN NoSession ELSE lost
        /\ announced' = IF s = Active THEN announced \ {s} ELSE announced
        /\ byHand' = byHand \cup {s}
        /\ UNCHANGED <<registryVars, focused, question, closing>>

\* TCP_CONNECTED, and then the login.
Connected(s) ==
    /\ status[s] = "dialing"
    /\ status' = [status EXCEPT ![s] = "connected"]
    /\ Announce(s, "connected")
    /\ byHand' = byHand \ {s}
    /\ UNCHANGED <<registryVars, focused, host, lastConn, question, closing>>

\* hx_htlc_close, of a connection that fails or is dropped.
Dropped(s) ==
    /\ status[s] # "down"
    /\ status' = [status EXCEPT ![s] = "down"]
    /\ Announce(s, "down")
    /\ UNCHANGED <<registryVars, focused, host, lastConn, question, closing, byHand>>

\* disconnect_clicked.  The button is live over a session that is down only
\* when it shows the state of another.
DisconnectClicked ==
    /\ question = NoSession
    /\ status[Active] # "down" \/ Active # selected
    /\ status' = [status EXCEPT ![Active] = "down"]
    /\ Announce(Active, "down")
    /\ UNCHANGED <<registryVars, focused, host, lastConn, question, closing, byHand>>

-----------------------------------------------------------------------------

\* hx_session_remove: the focus is brought back in range, and no more.
FocusAfter(f, n) == IF f > n THEN n ELSE f

\* finish_close: a selected tab gives way to a neighbour first.
GivesWay(s, n) == IF selected = s THEN n \in strip \ {s} ELSE n = selected

\* finish_close and hx_session_close, once the tab n is in front.
FinishClose(s, n) ==
    LET f == IF n = selected THEN focused ELSE SessionIndex(n)
        shown == IF n = selected THEN lost ELSE Refreshed(n)
        heard == sessions[f] = s /\ status[s] # "down"  \* DISCONNECTED reaches the chrome
    IN  /\ GivesWay(s, n)
        /\ selected' = n /\ panels' = n
        /\ status' = [status EXCEPT ![s] = "down"]
        /\ lost' = IF heard /\ s \in announced THEN s ELSE shown
        /\ announced' = announced \ {s}
        /\ sessions' = RemoveAt(sessions, SessionIndex(s))
        /\ focused' = FocusAfter(f, Len(sessions) - 1)
        /\ strip' = strip \ {s}
        /\ host' = [host EXCEPT ![s] = NoHost]
        /\ lastConn' = [lastConn EXCEPT ![s] = NoHost]
        /\ closing' = closing \ {s}
        /\ UNCHANGED <<opened, byHand>>

\* on_close_page: the bar shows close buttons with two tabs or more; a session
\* with a socket is asked about.
ClosePage(s, n) ==
    /\ question = NoSession /\ s \in strip \ closing /\ Cardinality(strip) > 1
    /\ IF status[s] # "down"
       THEN /\ question' = s /\ closing' = closing \cup {s}
            /\ n = selected
            /\ UNCHANGED <<registryVars, focused, status, host, lastConn, announced, lost,
                           byHand>>
       ELSE /\ FinishClose(s, n)
            /\ UNCHANGED question

\* on_confirm_response, declined: AdwTabView is told.
Decline == closing' = closing \ {question}

Declined ==
    /\ question # NoSession
    /\ Decline
    /\ question' = NoSession
    /\ UNCHANGED <<registryVars, focused, status, host, lastConn, announced, lost, byHand>>

Confirmed(n) ==
    /\ question # NoSession
    /\ FinishClose(question, n)
    /\ question' = NoSession

ConnectionsNext ==
    \/ \E s \in Serials : SelectTab(s) \/ Connected(s) \/ Dropped(s)
    \/ \E h \in Hosts : ConnectFocused(h) \/ SlashServer(h)
    \/ \E s \in Serials, h \in Hosts : ConnectDialog(s, h)
    \/ Reconnect \/ DisconnectClicked \/ Declined
    \/ \E s, n \in Serials : ClosePage(s, n)
    \/ \E n \in Serials : Confirmed(n)

ConnectionsSpec == ConnectionsInit /\ [][ConnectionsNext]_connectionsVars

-----------------------------------------------------------------------------
\* Types; the focus is in range, so that hx_active_session never reads past the
\* registry's end (session_registry.c: hx_session_remove clamps it).
ConnectionsTypeOK ==
    /\ sessions \in Seq(Serials) /\ opened \in Serials
    /\ focused \in DOMAIN sessions
    /\ strip \subseteq Serials
    /\ status \in [Serials -> {"down", "dialing", "connected"}]
    /\ host \in [Serials -> Hosts \cup {NoHost}]
    /\ lastConn \in [Serials -> Hosts \cup {NoHost}]
    /\ announced \subseteq Serials
    /\ lost \in Serials \cup {NoSession}
    /\ byHand \subseteq Serials

\* The tabs are the open sessions, and the panels show the selected one's pages:
\* closing a tab leaves neither a tab without a session nor a session without a
\* tab, and never the panels of a session that is gone (finish_close,
\* gtkhx_conn_tabs_add).
TabsAreSessions ==
    /\ strip = ToSet(sessions) /\ Cardinality(strip) = Len(sessions)
    /\ selected \in strip /\ panels = selected

\* A page that AdwTabView holds as closing has its question up: whatever the
\* answer, and whatever became of the connection meanwhile, the close is
\* finished or withdrawn, and the tab can be closed again (on_confirm_response).
ClosingIsAsked == closing = {question} \ {NoSession}

\* Where Reconnect would take an open session is where its latest connect went,
\* however that came about, and a closed one is forgotten (note, forget_session:
\* "Reconnect puts back the server that tab lost").
ReconnectGoesBack ==
    \A s \in Serials : lastConn[s] = IF s \in strip THEN host[s] ELSE NoHost

\* What is kept of the connections agrees: tabs, sessions and panels, the
\* closes begun and the question asked, and where Reconnect leads.
ConnectionsAgree == TabsAreSessions /\ ClosingIsAsked /\ ReconnectGoesBack

\* Connecting never costs a live connection unless its own chat asked for it: one
\* that is connected is dialing only after it dropped or was disconnected, if it is
\* focused and Reconnect is on offer, or on the /server of its own user
\* (connect_with_args, gtkhx_tracker_connect_apply, cmd_server).
LiveIsKept ==
    [][\A s \in Serials : status[s] = "connected" /\ status'[s] = "dialing"
                            => (lost # NoSession /\ s = Active) \/ s \in byHand']_connectionsVars

\* What the session registry is documented to answer: hx_active_session is the
\* selected tab's session.  It does not hold: closing a tab that was opened
\* before the selected one shifts the registry under the index.
ActiveIsSelected == Active = selected
=============================================================================
