----------------------------- MODULE ChatHistory -----------------------------
(***************************************************************************)
(* The public chat's history: the fetch that follows the login and the      *)
(* pages before it that the user asks for                                   *)
(* (rust/crates/hxhandlers/src/send/chat_history.rs), their replies and     *)
(* refusals (recv/chat.rs), and how src/chat.c renders a batch.             *)
(*                                                                          *)
(* The server's lines are numbered; a row of the view is the number of its  *)
(* line.  The rows are kept in two parts, above and below the divider that  *)
(* the first batch puts in, which is where later pages are inserted.  Live  *)
(* lines are rows without a number and are left out.  The public chat's     *)
(* view, with its render state, outlives its connections.                   *)
(***************************************************************************)
EXTENDS Naturals, Sequences, FiniteSets, SequencesExt

CONSTANTS
    Page,       \* chat.history_initial: the lines of a page
    MaxLines,   \* bound: the lines the server's chat ever has
    MaxLogins,  \* bound: the connections made
    MaxAsked    \* bound: the requests of one connection

ASSUME PageAssumption == Page \in Nat \ {0} /\ MaxLines \in Nat

VARIABLES
    lines,     \* the lines the server keeps: 1 .. lines
    link,      \* "off", "connecting" or "ready", past LOGIN_READY
    cap,       \* the server agreed to chat history
    logins,    \* connections made so far
    newest,    \* chat_history_last_msgid
    asked,     \* HISTORY_PENDING: trans |-> whether an older page was asked for
    flight,    \* requests not yet answered, in order: [trans, before, after, limit]
    trans,     \* the next trans
    render,    \* struct hx_chat_history_render
    above,     \* the rows above the opening divider
    below,     \* the rows below it
    carried    \* the render state was not fresh when the view was last cleared

histVars == <<lines, link, cap, logins, newest, asked, flight, trans, render, above, below, carried>>

\* A mark is of a row shown, of one that a clear has taken away, or none.
FreshRender ==
    [oldest |-> 0, more |-> FALSE, loading |-> FALSE, anchor |-> "none", row |-> "none"]

HistoryInit ==
    /\ lines \in 0 .. MaxLines
    /\ link = "off" /\ cap = FALSE
    /\ logins = 0 /\ newest = 0 /\ trans = 1
    /\ asked = << >> /\ flight = <<>>
    /\ render = FreshRender
    /\ above = <<>> /\ below = <<>>
    /\ carried = FALSE

-----------------------------------------------------------------------------
(* Asking.                                                                  *)

Stale(mark) == IF mark = "none" THEN "none" ELSE "stale"

\* hx_connect_via_orchestrator: hx_clear_chat takes the rows and leaves the
\* render state, and the catch-up cursor goes to zero.
StartConnect(agreed) ==
    /\ link = "off" /\ logins < MaxLogins
    /\ link' = "connecting" /\ cap' = agreed /\ logins' = logins + 1
    /\ above' = <<>> /\ below' = <<>>
    /\ render' = [render EXCEPT !.anchor = Stale(@), !.row = Stale(@)]
    /\ carried' = (render # FreshRender)
    /\ newest' = 0 /\ trans' = 1 /\ flight' = <<>>
    /\ UNCHANGED <<lines, asked>>

\* fetch: a request on the next trans, its kind kept in mind.
Fetch(was, before, after, limit) ==
    /\ flight' = Append(flight, [trans |-> trans, before |-> before, after |-> after, limit |-> limit])
    /\ asked' = [t \in DOMAIN was \cup {trans} |-> IF t = trans THEN before # 0 ELSE was[t]]
    /\ trans' = trans + 1

\* hx_chat_history_fetch_initial, from hx_post_login_fetches: nothing asked
\* for before counts any more.
FetchInitial ==
    /\ link = "connecting"
    /\ link' = "ready"
    /\ \/ ~cap /\ asked' = << >> /\ UNCHANGED <<flight, trans>>
       \/ cap /\ Fetch(<< >>, 0, newest, IF newest = 0 THEN Page ELSE 0)
    /\ UNCHANGED <<lines, cap, logins, newest, render, above, below, carried>>

\* Mutated form: the row stays to be clicked while its page is on the way.
LoadMoreAgain ==
    /\ link = "ready" /\ cap
    /\ render.row = "click"
    /\ trans <= MaxAsked
    /\ Fetch(asked, render.oldest, 0, Page)
    /\ UNCHANGED <<lines, link, cap, logins, newest, render, above, below, carried>>

\* chat_history_load_more, a click on the row: one page at a time, before the
\* oldest line rendered.
LoadMore ==
    /\ link = "ready" /\ cap
    /\ render.row = "click" /\ ~render.loading
    /\ trans <= MaxAsked
    /\ Fetch(asked, render.oldest, 0, Page)
    /\ render' = [render EXCEPT !.loading = TRUE, !.row = "loading"]
    /\ UNCHANGED <<lines, link, cap, logins, newest, above, below, carried>>

-----------------------------------------------------------------------------
(* Rendering.                                                               *)

\* The BEFORE cursor after a batch.
Oldest(batch) ==
    IF batch = <<>> THEN render.oldest
    ELSE IF render.oldest = 0 \/ Head(batch) < render.oldest THEN Head(batch) ELSE render.oldest

\* HX_RENDER before the anchor, row by row; a mark whose row is gone inserts
\* at the head.
Inserted(batch) ==
    IF render.anchor = "shown" THEN above \o batch ELSE Reverse(batch) \o above

\* Any batch ends the wait and takes the row away.
HistorySettled(batch, more) ==
    [render EXCEPT !.loading = FALSE, !.oldest = Oldest(batch), !.more = more, !.row = "none"]

\* output_chat_history_batch: loading tells a page asked for from the first
\* batch, which is appended under a divider of its own.  The row is put in
\* again where there is more to ask for.
Render(batch, more) ==
    LET older == render.loading
        nothing == batch = <<>> /\ ~(older /\ more)
        fresh == HistorySettled(batch, more)
    IN  \/ /\ nothing
           /\ render' = fresh
           /\ UNCHANGED <<above, below>>
        \/ /\ ~nothing /\ ~older
           /\ render' = [fresh EXCEPT !.anchor = "shown", !.row = IF more THEN "click" ELSE @]
           /\ above' = above \o below /\ below' = batch
        \/ /\ ~nothing /\ older
           /\ render' = [fresh EXCEPT !.row = IF more THEN "click" ELSE @]
           /\ above' = Inserted(batch) /\ UNCHANGED below

\* history: a page, or the empty one that ends a refused request's wait.
History(t, batch, more) ==
    /\ asked' = [u \in DOMAIN asked \ {t} |-> asked[u]]
    /\ newest' = IF batch # <<>> /\ Last(batch) > newest THEN Last(batch) ELSE newest
    /\ Render(batch, more)

\* The lines the server answers a request with, and whether it has older ones.
FirstOf(req) ==
    LET end == IF req.before = 0 THEN lines ELSE req.before - 1
    IN  IF req.limit = 0 \/ end < req.limit THEN req.after + 1 ELSE end - req.limit + 1
Reply(req) ==
    LET end == IF req.before = 0 THEN lines ELSE req.before - 1
    IN  [i \in 1 .. (end + 1) - FirstOf(req) |-> FirstOf(req) + i - 1]

Answer ==
    /\ link = "ready" /\ flight # <<>>
    /\ flight' = Tail(flight)
    /\ History(Head(flight).trans, Reply(Head(flight)), Reply(Head(flight)) # <<>> /\ FirstOf(Head(flight)) > 1)
    /\ UNCHANGED <<lines, link, cap, logins, trans, carried>>

\* failed: a refused older page is still to be had.
FailedHistory(t) == History(t, <<>>, asked[t])

Refused ==
    /\ link = "ready" /\ flight # <<>>
    /\ flight' = Tail(flight)
    /\ FailedHistory(Head(flight).trans)
    /\ UNCHANGED <<lines, link, cap, logins, trans, carried>>

LineSaid ==
    /\ lines < MaxLines
    /\ lines' = lines + 1
    /\ UNCHANGED <<link, cap, logins, newest, asked, flight, trans, render, above, below, carried>>

\* hx_htlc_close: neither the render state nor what was asked is touched.
Closed ==
    /\ link # "off"
    /\ link' = "off" /\ cap' = FALSE /\ flight' = <<>>
    /\ UNCHANGED <<lines, logins, newest, asked, trans, render, above, below, carried>>

HistoryNext ==
    \/ \E agreed \in BOOLEAN : StartConnect(agreed)
    \/ FetchInitial \/ LoadMore \/ Answer \/ Refused \/ LineSaid \/ Closed

HistorySpec == HistoryInit /\ [][HistoryNext]_histVars

-----------------------------------------------------------------------------
Rows == above \o below

\* Every variable has its type; a view that shows a loading row is waiting.
HistoryTypeOK ==
    /\ lines \in 0 .. MaxLines
    /\ link \in {"off", "connecting", "ready"}
    /\ cap \in BOOLEAN /\ carried \in BOOLEAN
    /\ newest \in 0 .. MaxLines
    /\ render \in [oldest : 0 .. MaxLines, more : BOOLEAN, loading : BOOLEAN,
                   anchor : {"none", "shown", "stale"}, row : {"none", "click", "loading", "stale"}]
    /\ render.row = "loading" => render.loading
    /\ \A t \in DOMAIN asked : asked[t] \in BOOLEAN
    /\ \A i \in 1 .. Len(Rows) : Rows[i] \in 1 .. lines

\* Pages overlap nowhere and leave no line out, whatever was refused, said
\* meanwhile or clicked twice: the lines shown are those from the cursor on.
\* A view cleared by a new connection keeps the old cursor and is left out.
NoGapNoRepeat ==
    ~carried =>
        /\ Len(Rows) = Cardinality(ToSet(Rows))
        /\ Rows # <<>> =>
              ToSet(Rows) = render.oldest .. render.oldest + Len(Rows) - 1

\* While the server has lines before the ones shown the user can get at them:
\* the row is there to click, or its page is on the way, asked for on this
\* connection.  A refused page can be asked for again.
OlderWithinReach ==
    link = "ready" /\ cap /\ ~carried /\ Rows # <<>> /\ render.oldest > 1 =>
        \/ render.row = "click" /\ ~render.loading
        \/ /\ render.loading
           /\ \E i \in 1 .. Len(flight) :
                 /\ flight[i].before = render.oldest
                 /\ flight[i].trans \in DOMAIN asked /\ asked[flight[i].trans]

\* The history shown has no gap and no line twice, and what is before it can
\* be got at.
HistoryIsContinuous == NoGapNoRepeat /\ OlderWithinReach
=============================================================================
