------------------------------- MODULE Banner -------------------------------
(* The server's banner (gtkhx-ui/banner.rs): each connection fetches its own, *)
(* by URL or over the transfer port, and the one row shows the focused        *)
(* connection's.  The main thread acts; what interleaves is the server's      *)
(* messages and replies, the URL fetch, the transfer workers, the decodes, the*)
(* connections and the user's tab.                                            *)
(*                                                                            *)
(* An image is the message it was sent for.  Captions are left out: the row   *)
(* shows none without an image.  So is the limit of four URL fetches, beyond  *)
(* which one fails as any may.                                                *)
EXTENDS Integers, FiniteSets

CONSTANTS
    Tabs,        \* the connections
    MaxBanners   \* bound on the messages sent

VARIABLES
    tab,         \* the connections: up, the newest message, and whether one
                 \* came while the request for another was unanswered
    sent,        \* messages sent so far: their names
    attempt,     \* FETCHES: each connection's running attempt
    image,       \* CONTENT: the image each connection has
    requests,    \* Asked::Banner: download requests in flight
    workers,     \* htxf_worker runs, each with its generation
    decodes,     \* image decodes that will report
    gen,         \* HTXF_GENERATION
    focus,       \* the connection the user looks at
    row          \* the image the row shows

bannerVars == <<tab, sent, attempt, image, requests, workers, decodes, gen, focus, row>>

NoImage == 0
NoAttempt == [runs |-> FALSE, url |-> NoImage, gen |-> 0, decode |-> NoImage]
NewAttempt == [NoAttempt EXCEPT !.runs = TRUE]

BannerInit ==
    /\ tab = [t \in Tabs |-> [up |-> FALSE, newest |-> NoImage, crossed |-> FALSE]]
    /\ sent = 0
    /\ attempt = [t \in Tabs |-> NoAttempt]
    /\ image = [t \in Tabs |-> NoImage]
    /\ requests = {} /\ workers = {} /\ decodes = {}
    /\ gen = 0
    /\ focus \in Tabs
    /\ row = NoImage

-----------------------------------------------------------------------------

\* with_content's tail and paint_active: the row, if t is the one in front.
Paint(images, t) == row' = IF t = focus THEN images[t] ELSE row

\* Fetch::cancel: the URL fetch is closed and the decode's report suppressed.
Cancelled(t) == {d \in decodes : ~(d.tab = t /\ d.of = attempt[t].decode)}

\* finish_content: the attempt's result, if it runs, and its end; what is left
\* of it is let go, not cancelled.
Finish(t, result) ==
    LET images == [image EXCEPT ![t] = IF attempt[t].runs /\ result # NoImage
                                       THEN result ELSE @]
    IN  /\ image' = images
        /\ attempt' = [attempt EXCEPT ![t] = NoAttempt]
        /\ IF attempt[t].runs THEN Paint(images, t) ELSE UNCHANGED row

\* start_image_decode: the one before it is cancelled.
StartDecode(t, m, kept) ==
    /\ attempt' = [attempt EXCEPT ![t].decode = m, ![t].url = kept]
    /\ decodes' = Cancelled(t) \cup {[tab |-> t, of |-> m]}
    /\ UNCHANGED <<image, row>>

\* banner_handle_message: a URL, none where there should be one, or a file.
Message(t, kind) ==
    LET m == sent + 1
        images == [image EXCEPT ![t] = NoImage]
    IN  /\ tab[t].up /\ sent < MaxBanners
        /\ sent' = m
        /\ tab' = [tab EXCEPT ![t].newest = m,
                              ![t].crossed = @ \/ \E r \in requests : r.tab = t]
        /\ decodes' = Cancelled(t)
        /\ attempt' = [attempt EXCEPT ![t] =
              CASE kind = "url" -> [NewAttempt EXCEPT !.url = m]
                [] kind = "bare" -> NoAttempt
                [] kind = "file" -> NewAttempt]
        /\ image' = images /\ Paint(images, t)
        /\ requests' = IF kind = "file" THEN requests \cup {[tab |-> t, of |-> m]}
                       ELSE requests
        /\ UNCHANGED <<workers, gen, focus>>

\* banner_url_drain: the body, or a failure.
UrlDrained(t, ok) ==
    /\ attempt[t].url # NoImage
    /\ IF ok THEN StartDecode(t, attempt[t].url, NoImage)
       ELSE Finish(t, NoImage) /\ UNCHANGED decodes
    /\ UNCHANGED <<tab, sent, requests, workers, gen, focus>>

\* banner_handle_htxf_reply: a transfer for whatever attempt runs, unless it is
\* empty or too large.
BannerReply(r, how) ==
    /\ requests' = requests \ {r}
    /\ IF how = "refused" \/ ~attempt[r.tab].runs
       THEN UNCHANGED <<attempt, image, row, workers, gen>>
       ELSE IF how = "invalid"
       THEN Finish(r.tab, NoImage) /\ UNCHANGED <<workers, gen>>
       ELSE /\ gen' = gen + 1
            /\ attempt' = [attempt EXCEPT ![r.tab].gen = gen + 1]
            /\ workers' = workers \cup {[tab |-> r.tab, of |-> r.of, gen |-> gen + 1]}
            /\ UNCHANGED <<image, row>>
    /\ UNCHANGED <<tab, sent, decodes, focus>>

\* Mutated form: a late transfer is taken while any attempt runs.
CurrentWorker(w) == attempt[w.tab].runs

\* htxf_completion's check: the attempt still carries the worker's generation.
IsCurrent(w) == attempt[w.tab].runs /\ attempt[w.tab].gen = w.gen

\* htxf_worker ends, then htxf_completion.
TransferDone(w, ok) ==
    /\ workers' = workers \ {w}
    /\ IF ~IsCurrent(w) THEN UNCHANGED <<attempt, image, row, decodes>>
       ELSE IF ok THEN StartDecode(w.tab, w.of, attempt[w.tab].url)
       ELSE Finish(w.tab, NoImage) /\ UNCHANGED decodes
    /\ UNCHANGED <<tab, sent, requests, gen, focus>>

\* The decode's closure (start_image_decode).
Decoded(d, ok) ==
    /\ decodes' = decodes \ {d}
    /\ Finish(d.tab, IF ok THEN d.of ELSE NoImage)
    /\ UNCHANGED <<tab, sent, requests, workers, gen, focus>>

-----------------------------------------------------------------------------
BannerConnect(t) ==
    /\ ~tab[t].up
    /\ tab' = [tab EXCEPT ![t].up = TRUE]
    /\ UNCHANGED <<sent, attempt, image, requests, workers, decodes, gen, focus, row>>

\* banner_clear.
Clear(t) ==
    /\ image' = [image EXCEPT ![t] = NoImage]
    /\ attempt' = [attempt EXCEPT ![t] = NoAttempt]
    /\ decodes' = Cancelled(t)
    /\ row' = [image EXCEPT ![t] = NoImage][focus]

\* hx_htlc_close: banner_clear, and forget of what was asked for.
BannerDisconnect(t) ==
    /\ tab[t].up
    /\ tab' = [tab EXCEPT ![t].up = FALSE, ![t].newest = NoImage]
    /\ Clear(t)
    /\ requests' = {r \in requests : r.tab # t}
    /\ UNCHANGED <<sent, workers, gen, focus>>

\* banner_show_active, from a tab switch (hx_chrome_refresh).
SwitchTab(t) ==
    /\ t # focus
    /\ focus' = t /\ row' = image[t]
    /\ UNCHANGED <<tab, sent, attempt, image, requests, workers, decodes, gen>>

BannerNext ==
    \/ \E t \in Tabs :
          \/ \E kind \in {"url", "bare", "file"} : Message(t, kind)
          \/ \E ok \in BOOLEAN : UrlDrained(t, ok)
          \/ BannerConnect(t) \/ BannerDisconnect(t) \/ SwitchTab(t)
    \/ \E r \in requests, how \in {"granted", "invalid", "refused"} : BannerReply(r, how)
    \/ \E w \in workers, ok \in BOOLEAN : TransferDone(w, ok)
    \/ \E d \in decodes, ok \in BOOLEAN : Decoded(d, ok)

BannerSpec == BannerInit /\ [][BannerNext]_bannerVars
-----------------------------------------------------------------------------
\* The row shows the banner of the connection in front, never a background
\* one's, and nothing once that connection is closed: every result of a fetch
\* amends its own connection's content and the row follows the focus.
RowIsFocused == row = image[focus]

\* A connection shows no banner but the newest one its server sent since it
\* connected: neither an earlier one whose URL, transfer or decode comes in
\* late, nor one of the server it was connected to before.  Where a message
\* comes while the request of an earlier one is unanswered this is not so:
\* banner_handle_htxf_reply takes that reply for the newer attempt.  The
\* exemption outlasts the connection, as the harm does: the attempt that ends
\* first drops the other's decode uncancelled, and its late result is taken by
\* whichever attempt then runs, the next connection's included.
ShownIsNewestBanner ==
    \A t \in Tabs : ~tab[t].crossed => image[t] \in {NoImage, tab[t].newest}

\* The row shows the focused connection's banner, and each connection has the
\* newest its server sent or none.
BannerInFront == RowIsFocused /\ ShownIsNewestBanner
=============================================================================
