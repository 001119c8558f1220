---------------------------- MODULE NewsBrowser ----------------------------
(* The threaded news window of one connection (gtkhx-ui/news_browser.rs): a   *)
(* tree with one folder and one category of articles, the listings and        *)
(* article texts in flight (ASKED of recv/news.rs), the window's own claim on *)
(* the listings (PENDING_DIRLISTS, PENDING_CATLISTS) and the article shown.   *)
(* Main thread throughout: what interleaves is the server's answers, in any   *)
(* order, the connection, the window and the user.                            *)
(*                                                                            *)
(* A node that left the tree while something was fetched into it is "gone":   *)
(* the answer fills a node nobody sees, and a pane left with the text of such *)
(* an article counts as blank.  Pictures in an article, the permissions and   *)
(* paths are left out.                                                        *)
EXTENDS Integers, FiniteSets

CONSTANTS
    Posts,       \* the articles of the category
    NoPost,
    MaxFetches,  \* bound on the requests in flight
    MaxVisits    \* bound on the connections made

ASSUME NewsAssumption ==
    /\ Posts \cap {NoPost, "root", "folder", "category", "gone"} = {}
    /\ MaxFetches \in Nat /\ MaxVisits \in Nat

VARIABLES
    server,        \* [at, made]: "down", "login" (version known), "ready"
    window,      \* whether the news window is open
    root,        \* how many listings root_store holds
    refused,     \* an empty answer or a refusal was the last thing root heard
    node,        \* the folder and the category: listings held, `loaded`
    post,        \* the articles: text, body_fetching
    fetches,     \* ASKED
    pending,     \* the carriers the window waits for, by number
    view         \* selected_post, and what the article pane shows

newsVars == <<server, window, root, refused, node, post, fetches, pending, view>>

Containers == {"folder", "category"}
NewNode == [kids |-> 0, loaded |-> FALSE]
NewPost == [text |-> FALSE, fetching |-> FALSE]
Blank == [of |-> NoPost, shows |-> "nothing"]

\* threaded_news_available: hx_htlc_close sets the version back to 0.
Threaded == server.at # "down"

NewsInit ==
    /\ server = [at |-> "down", made |-> 0]
    /\ window = FALSE /\ root = 0 /\ refused = FALSE
    /\ node = [n \in Containers |-> NewNode]
    /\ post = [p \in Posts |-> NewPost]
    /\ fetches = {} /\ pending = {}
    /\ view = Blank

-----------------------------------------------------------------------------
(* The requests.                                                              *)

FreeTrans == {t \in 1..MaxFetches : \A f \in fetches : f.trans # t}
NextTrans == CHOOSE t \in FreeTrans : \A u \in FreeTrans : t <= u

\* What was fetched into the nodes N goes to nodes out of the tree.
Orphaned(S, N) == {IF f.into \in N THEN [f EXCEPT !.into = "gone"] ELSE f : f \in S}

\* dirlist_in_flight: a listing of this node is on the wire and waited for.
DirlistInFlight(S, P, into) ==
    \E f \in S : f.into = into /\ f.trans \in P

\* asked, the requests S being in flight.
Ask(S, into) ==
    /\ FreeTrans # {}
    /\ fetches' = S \cup {[trans |-> NextTrans, into |-> into]}

\* fetch_dirlist of "root" or "folder".
FetchDirlist(S, into) ==
    IF Threaded /\ ~DirlistInFlight(S, pending, into)
    THEN Ask(S, into) /\ pending' = pending \cup {NextTrans}
    ELSE fetches' = S /\ UNCHANGED pending

\* fetch_catlist: not looked up first.
FetchCatlist(S) == Ask(S, "category") /\ pending' = pending \cup {NextTrans}

\* fetch_dirlist and fetch_catlist set `loaded` as they send.
Sent(n, before) ==
    [before EXCEPT ![n].loaded =
        \/ @ \/ n = "category"
        \/ Threaded /\ ~DirlistInFlight(fetches, pending, n)]

FetchInto(n, before) ==
    /\ node' = Sent(n, before)
    /\ IF n = "folder" THEN FetchDirlist(fetches, n) ELSE FetchCatlist(fetches)

\* fetch_thread.
FetchThread(p) ==
    IF post[p].fetching THEN UNCHANGED <<fetches, post>>
    ELSE Ask(fetches, p) /\ post' = [post EXCEPT ![p].fetching = TRUE]

-----------------------------------------------------------------------------
(* The tree.                                                                  *)

\* root_store.remove_all: every node leaves the tree.
Uproot(S) == Orphaned(S, Containers \cup Posts)

ClearTree ==
    /\ root' = 0 /\ refused' = FALSE
    /\ node' = [n \in Containers |-> NewNode]
    /\ post' = [p \in Posts |-> NewPost]

\* refresh_node(NULL): Refresh with nothing selected, and after a deletion or
\* an article for a category that is not in the tree.
RefreshRoot ==
    /\ window
    /\ ClearTree /\ FetchDirlist(Uproot(fetches), "root")
    /\ view' = Blank
    /\ UNCHANGED <<server, window>>

\* refresh_node of a folder or category: Refresh, a new folder or category in
\* it, an article posted to it.
RefreshNode(n) ==
    /\ window /\ root > 0
    /\ LET emptied == [node EXCEPT ![n] = NewNode]
       IN  IF n = "folder"
           THEN /\ node' = Sent(n, emptied)
                /\ FetchDirlist(fetches, n)
                /\ UNCHANGED <<post, view>>
           ELSE /\ node' = Sent(n, emptied)
                /\ FetchCatlist(Orphaned(fetches, Posts))
                /\ post' = [p \in Posts |-> NewPost]
                /\ view' = Blank
    /\ UNCHANGED <<server, window, root, refused>>

\* fetch_for_expanded: a row's first expansion.
Expand(n) ==
    /\ window /\ root > 0 /\ ~node[n].loaded
    /\ FetchInto(n, node)
    /\ UNCHANGED <<server, window, root, refused, post, view>>

\* on_selection_changed and the article renderer: the text, or a fetch of it.
Select(p) ==
    /\ window /\ root > 0 /\ node["category"].kids > 0
    /\ view' = [of |-> p, shows |-> IF post[p].text THEN "text" ELSE "loading"]
    /\ IF post[p].text THEN UNCHANGED <<fetches, post>> ELSE FetchThread(p)
    /\ UNCHANGED <<server, window, root, refused, node, pending>>

\* Another row, or none.
Unselect ==
    /\ window /\ view # Blank
    /\ view' = Blank
    /\ UNCHANGED <<server, window, root, refused, node, post, fetches, pending>>

\* on_refresh_clicked with an article selected: forgets its text and that it is
\* being fetched.
RefreshPost(p) ==
    /\ window /\ view.of = p /\ root > 0 /\ node["category"].kids > 0
    /\ view' = [of |-> p, shows |-> "loading"]
    /\ Ask(fetches, p)
    /\ post' = [post EXCEPT ![p] = [text |-> FALSE, fetching |-> TRUE]]
    /\ UNCHANGED <<server, window, root, refused, node, pending>>

-----------------------------------------------------------------------------
(* The answers.                                                               *)

Least(a, b) == IF a < b THEN a ELSE b

\* gnews_browser_handle_dirlist and _catlist for an answer `got`: appended
\* where the window waits for it; counted up to two.
HandleListing(f, got) ==
    LET mine == f.trans \in pending /\ window
        more(k) == IF mine /\ got THEN Least(k + 1, 2) ELSE k
    IN  /\ pending' = pending \ {f.trans}
        /\ root' = IF f.into = "root" THEN more(root) ELSE root
        /\ refused' = (IF f.into = "root" /\ mine THEN ~got ELSE refused)
        /\ node' = IF f.into \in Containers
                   THEN [node EXCEPT ![f.into].kids = more(@)] ELSE node
        /\ UNCHANGED <<post, view>>

\* gnews_browser_handle_thread, with rerender_if_selected.
HandleThread(f) ==
    /\ post' = [post EXCEPT ![f.into] = [text |-> TRUE, fetching |-> FALSE]]
    /\ view' = IF window /\ view.of = f.into THEN [view EXCEPT !.shows = "text"] ELSE view
    /\ UNCHANGED <<pending, root, refused, node>>

\* Mutated form: a refused listing is dropped without a word to the window.
UnansweredQuietly(f) ==
    /\ post' = IF f.into \in Posts THEN [post EXCEPT ![f.into].fetching = FALSE] ELSE post
    /\ UNCHANGED <<pending, root, refused, node, view>>

\* unanswered: the carrier goes back empty; an article's node may be asked
\* for again, and the pane stays as it is.
Unanswered(f) ==
    IF f.into \in Posts
    THEN /\ post' = [post EXCEPT ![f.into].fetching = FALSE]
         /\ UNCHANGED <<pending, root, refused, node, view>>
    ELSE HandleListing(f, FALSE)

\* listing, category, article, and failed.
NewsAnswer(f, granted) ==
    /\ server.at # "down"
    /\ fetches' = fetches \ {f}
    /\ IF ~granted THEN Unanswered(f)
       ELSE IF f.into \in Posts THEN HandleThread(f)
       ELSE HandleListing(f, TRUE)
    /\ UNCHANGED <<server, window>>

-----------------------------------------------------------------------------
(* The window and the connection.                                             *)

\* open_news_browser: raised or built, and a fresh tree while logged in.
OpenNews ==
    /\ window' = TRUE
    /\ IF server.at = "ready"
       THEN /\ IF window
               THEN ClearTree /\ FetchDirlist(Uproot(fetches), "root")
               ELSE UNCHANGED <<root, refused, node, post>> /\ FetchDirlist(fetches, "root")
       ELSE UNCHANGED <<root, refused, node, post, fetches, pending>>
    /\ view' = IF window /\ server.at # "ready" THEN view ELSE Blank
    /\ UNCHANGED server

\* The window's destroy handler.  Its tree goes with it.
CloseNews ==
    /\ window /\ window' = FALSE
    /\ ClearTree /\ view' = Blank
    /\ fetches' = Uproot(fetches) /\ pending' = {}
    /\ UNCHANGED server

ConnectNews ==
    /\ server.at = "down" /\ server.made < MaxVisits
    /\ server' = [at |-> "login", made |-> server.made + 1]
    /\ UNCHANGED <<window, root, refused, node, post, fetches, pending, view>>

\* on_connection_state(LOGIN_READY).
NewsReady ==
    /\ server.at = "login"
    /\ server' = [server EXCEPT !.at = "ready"]
    /\ IF window /\ root = 0 THEN FetchDirlist(fetches, "root")
       ELSE UNCHANGED <<fetches, pending>>
    /\ UNCHANGED <<window, root, refused, node, post, view>>

\* hx_htlc_close: on_connection_state(DISCONNECTED) with reset_browser_state,
\* then forget, whose empty carriers find nobody waiting.
DisconnectNews ==
    /\ server.at # "down"
    /\ server' = [server EXCEPT !.at = "down"]
    /\ ClearTree /\ view' = Blank
    /\ fetches' = {} /\ pending' = {}
    /\ UNCHANGED window

NewsNext ==
    \/ \E n \in Containers : RefreshNode(n) \/ Expand(n)
    \/ \E p \in Posts : Select(p) \/ RefreshPost(p)
    \/ \E f \in fetches, granted \in BOOLEAN : NewsAnswer(f, granted)
    \/ RefreshRoot \/ Unselect \/ OpenNews \/ CloseNews
    \/ ConnectNews \/ NewsReady \/ DisconnectNews

NewsSpec == NewsInit /\ [][NewsNext]_newsVars
-----------------------------------------------------------------------------
\* The kinds of the variables.
NewsTypeOK ==
    /\ server \in [at : {"down", "login", "ready"}, made : 0..MaxVisits]
    /\ window \in BOOLEAN /\ root \in 0..2 /\ refused \in BOOLEAN
    /\ node \in [Containers -> [kids : 0..2, loaded : BOOLEAN]]
    /\ post \in [Posts -> [text : BOOLEAN, fetching : BOOLEAN]]
    /\ fetches \subseteq [trans : 1..MaxFetches, into : Containers \cup Posts \cup {"root", "gone"}]
    /\ pending \subseteq 1..MaxFetches
    /\ view \in [of : Posts \cup {NoPost}, shows : {"nothing", "loading", "text"}]

\* The tree shows the server's folders once: opening the window, opening it
\* again, Refresh and the login all ask for the root listing, every answer is
\* appended, and no order of them and of the answers appends it twice
\* (dirlist_in_flight, news_browser.rs, and the destroy handler).
TreeListedOnce == root <= 1

\* A window that is open after the login and shows an empty tree has been told
\* the tree is empty, or waits for a listing the server still has to answer: a
\* claim on an answer that is not coming would suppress every later fetch and
\* leave the tree empty for good (on_connection_state's comment).
EmptyTreeIsAsked ==
    window /\ server.at = "ready" /\ root = 0 /\ ~refused
        => DirlistInFlight(fetches, pending, "root")

\* An article marked as being fetched, which keeps it from being fetched, has
\* its request with the server: nothing but an answer is between the reader and
\* its text (fetch_thread, unanswered and Refresh).
FetchingIsAsked ==
    \A p \in Posts : post[p].fetching => \E f \in fetches : f.into = p

\* The pane of the selected article shows its text once that has come, whether
\* the answer or the selection came first and however often it was refreshed.
ArticleShown ==
    \A p \in Posts : view.of = p /\ post[p].text => view.shows = "text"

\* The news window lists the root once and waits for nothing that is not
\* coming: an empty tree has been asked for, an article marked as being fetched
\* has its request with the server, and a text that came is shown.
NewsIsCurrent == TreeListedOnce /\ EmptyTreeIsAsked /\ FetchingIsAsked /\ ArticleShown
=============================================================================
