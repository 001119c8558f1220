------------------------- MODULE ChatsAndFilesProofs -------------------------
(***************************************************************************)
(* What the answers of one server may not upset: the chat history, whose    *)
(* pages come late or not at all; the files window's panes; and the chats,  *)
(* their members and the joins on their way.  Each has an inductive         *)
(* invariant, for every value of its constants.                             *)
(*                                                                          *)
(* History: the rows alone do not tell where the next page goes, so the     *)
(* invariant ties them to the render state and to the one page that may be  *)
(* on its way (Steady).  Files: the places kept for answers are one for a   *)
(* provider and under numbers of their own (PlacesOK), and a pane without a *)
(* login through shows nothing.  Chats: a number is one request's on its way*)
(* up or down (Numbered), and every join on its way is remembered (Owed);   *)
(* and were the messages on their way taken, each chat whose tab was not    *)
(* closed would show what the server has in it (Follows).                   *)
(***************************************************************************)
EXTENDS ChatHistory, FileBrowser, Roster, FiniteSetTheorems, SequenceTheorems,
        WellFoundedInduction, TLAPS

-----------------------------------------------------------------------------
(* The chat history.                                                          *)

\* The render states, and the requests of a server with n lines.
Renders ==
    [oldest : 0..MaxLines, more : BOOLEAN, loading : BOOLEAN,
     anchor : {"none", "shown", "stale"}, row : {"none", "click", "loading", "stale"}]
Requests(n) == [trans : Nat, before : 0..n, after : 0..n, limit : Nat]

\* The kinds of the variables: every row and every cursor is a line the server has.
HistoryTypes ==
    /\ lines \in 0..MaxLines /\ newest \in 0..lines /\ trans \in Nat
    /\ link \in {"off", "connecting", "ready"} /\ cap \in BOOLEAN /\ carried \in BOOLEAN
    /\ render \in Renders /\ render.oldest <= lines
    /\ render.row = "loading" => render.loading
    /\ above \in Seq(1..lines) /\ below \in Seq(1..lines)
    /\ flight \in Seq(Requests(lines))
    /\ \A t \in DOMAIN asked : asked[t] \in BOOLEAN

\* A request in flight is remembered, under a number of its own.
Remembered(f, q, n) ==
    /\ \A i \in 1..Len(f) : f[i].trans \in DOMAIN q /\ f[i].trans < n
    /\ \A i, j \in 1..Len(f) : f[i].trans = f[j].trans => i = j

\* The rows of the two parts are the lines from o on, each once.
Covers(a, b, o) ==
    /\ ToSet(a) \cup ToSet(b) = o .. o + (Len(a) + Len(b)) - 1
    /\ o >= 1

\* The view is the one of this connection: its rows and its render state go together, and
\* at most one page is on its way, the first one or the one before the oldest row.
Steady(r, a, b, f, q, l) ==
    /\ a = <<>> /\ b = <<>> => r = FreshRender
    /\ a # <<>> \/ b # <<>> =>
          /\ Covers(a, b, r.oldest) /\ r.anchor = "shown" /\ l # "connecting"
          /\ r.oldest > 1 => r.row = "click" \/ r.loading
    /\ Len(f) <= 1
    /\ f # <<>> =>
          \/ a = <<>> /\ b = <<>> /\ f[1].before = 0 /\ ~q[f[1].trans]
          \/ /\ a # <<>> \/ b # <<>>
             /\ r.loading /\ r.oldest > 1 /\ f[1].before = r.oldest /\ f[1].after = 0
             /\ q[f[1].trans]
    /\ l = "ready" /\ r.loading => f # <<>>
    /\ r.row = "click" => r.oldest > 1 /\ ~r.loading

\* The inductive invariant.
HistoryInv ==
    /\ HistoryTypes
    /\ Remembered(flight, asked, trans)
    /\ link # "ready" => flight = <<>>
    /\ ~carried => Steady(render, above, below, flight, asked, link)

\* Nothing in no rows.
LEMMA EmptyRange == ToSet(<<>>) = {}
  BY DEF ToSet

\* The rows of two parts.
LEMMA RangeOfConcat ==
    ASSUME NEW S, NEW a \in Seq(S), NEW b \in Seq(S)
    PROVE  /\ a \o b \in Seq(S) /\ Len(a \o b) = Len(a) + Len(b)
           /\ ToSet(a \o b) = ToSet(a) \cup ToSet(b)
<1>1. /\ a \o b \in Seq(S) /\ Len(a \o b) = Len(a) + Len(b)
      /\ Len(a) \in Nat /\ Len(b) \in Nat
      /\ \A i \in 1..Len(a) + Len(b) : (a \o b)[i] = IF i <= Len(a) THEN a[i] ELSE b[i - Len(a)]
  OBVIOUS
<1> DEFINE c == a \o b
<1>2. DOMAIN a = 1..Len(a) /\ DOMAIN b = 1..Len(b) /\ DOMAIN c = 1..(Len(a) + Len(b))
  BY <1>1
<1>3. \A i \in 1..(Len(a) + Len(b)) : c[i] = IF i <= Len(a) THEN a[i] ELSE b[i - Len(a)]
  BY <1>1
<1> HIDE DEF c
<1>4. ToSet(c) \subseteq ToSet(a) \cup ToSet(b)
  <2> SUFFICES ASSUME NEW i \in 1..(Len(a) + Len(b)) PROVE c[i] \in ToSet(a) \cup ToSet(b)
    BY <1>2 DEF ToSet
  <2>1. CASE i <= Len(a)
    BY <1>1, <1>2, <1>3, <2>1 DEF ToSet
  <2>2. CASE ~(i <= Len(a))
    <3>1. i - Len(a) \in 1..Len(b)
      BY <1>1, <2>2
    <3> QED BY <1>2, <1>3, <2>2, <3>1 DEF ToSet
  <2> QED BY <2>1, <2>2
<1>5. ToSet(a) \subseteq ToSet(c)
  <2> SUFFICES ASSUME NEW i \in 1..Len(a) PROVE a[i] \in ToSet(c)
    BY <1>2 DEF ToSet
  <2>1. i \in 1..(Len(a) + Len(b)) /\ c[i] = a[i]
    BY <1>1, <1>3
  <2> QED BY <1>2, <2>1 DEF ToSet
<1>6. ToSet(b) \subseteq ToSet(c)
  <2> SUFFICES ASSUME NEW i \in 1..Len(b) PROVE b[i] \in ToSet(c)
    BY <1>2 DEF ToSet
  <2>1. i + Len(a) \in 1..(Len(a) + Len(b)) /\ ~(i + Len(a) <= Len(a)) /\ (i + Len(a)) - Len(a) = i
    BY <1>1
  <2>2. c[i + Len(a)] = b[i]
    BY <1>3, <2>1
  <2> QED BY <1>2, <2>1, <2>2 DEF ToSet
<1> QED BY <1>1, <1>4, <1>5, <1>6 DEF c

\* What the server answers with: the lines from the first to the one before the cursor.
End(req) == IF req.before = 0 THEN lines ELSE req.before - 1

\* The lines a request is answered with follow each other, up to its cursor.
LEMMA ReplyIs ==
    ASSUME HistoryTypes, NEW req \in Requests(lines)
    PROVE  /\ End(req) \in 0..lines /\ FirstOf(req) \in 1..(lines + 1)
           /\ Reply(req) \in Seq(1..lines)
           /\ Reply(req) # <<>> <=> FirstOf(req) <= End(req)
           /\ Reply(req) # <<>> =>
                /\ Head(Reply(req)) = FirstOf(req) /\ Last(Reply(req)) = End(req)
                /\ Len(Reply(req)) = (End(req) + 1) - FirstOf(req)
                /\ ToSet(Reply(req)) = FirstOf(req)..End(req)
<1> DEFINE e == End(req)
           f == FirstOf(req)
           k == (e + 1) - f
           s == Reply(req)
<1>1. lines \in Nat /\ req.before \in 0..lines /\ req.after \in 0..lines /\ req.limit \in Nat
  BY PageAssumption DEF HistoryTypes, Requests
<1>2. e \in 0..lines
  BY <1>1 DEF End
<1>3. f = IF req.limit = 0 \/ e < req.limit THEN req.after + 1 ELSE e - req.limit + 1
  BY DEF FirstOf, End
<1>4. f \in 1..(lines + 1)
  <2> HIDE DEF e, f
  <2> QED BY <1>1, <1>2, <1>3
<1>5. s = [i \in 1..k |-> f + i - 1]
  BY DEF Reply, End
<1> HIDE DEF e, f, s
<1>6. k \in Int /\ \A i \in 1..k : f + i - 1 \in 1..lines
  BY <1>1, <1>2, <1>4
<1>7. CASE k <= 0
  <2>1. 1..k = 1..0
    BY <1>6, <1>7
  <2>2. s \in [1..0 -> 1..lines]
    BY <1>5, <1>6, <2>1
  <2>3. s \in Seq(1..lines) /\ Len(s) = 0
    <3>1. s \in Seq(1..lines)
      BY <2>2, SeqDef
    <3> QED BY <2>2, <3>1
  <2>4. s = <<>>
    BY <2>3, EmptySeq
  <2>5. ~(f <= e)
    BY <1>2, <1>4, <1>7
  <2> QED BY <1>2, <1>4, <2>3, <2>4, <2>5 DEF e, f, s
<1>8. CASE k > 0
  <2>1. k \in Nat /\ s \in [1..k -> 1..lines]
    BY <1>5, <1>6, <1>8
  <2>2. s \in Seq(1..lines) /\ Len(s) = k
    <3>1. s \in Seq(1..lines)
      BY <2>1, SeqDef
    <3> QED BY <2>1, <3>1
  <2>3. s[1] = f /\ s[k] = e /\ DOMAIN s = 1..k
    BY <1>2, <1>4, <1>5, <1>6, <1>8
  <2>4. s # <<>> /\ Head(s) = f
    BY <1>8, <2>1, <2>2, <2>3
  <2>5. ToSet(s) = f..e
    <3>1. ASSUME NEW x \in f..e PROVE x \in ToSet(s)
      <4>1. (x - f) + 1 \in 1..k /\ f + ((x - f) + 1) - 1 = x
        BY <1>2, <1>4
      <4>2. s[(x - f) + 1] = x
        BY <1>5, <4>1
      <4> QED BY <2>3, <4>1, <4>2 DEF ToSet
    <3>2. ASSUME NEW i \in 1..k PROVE s[i] \in f..e
      BY <1>2, <1>4, <1>5
    <3> QED BY <2>3, <3>1, <3>2 DEF ToSet
  <2>6. f <= e
    BY <1>2, <1>4, <1>8
  <2>7. Last(s) = e
    BY <2>2, <2>3 DEF Last
  <2> QED BY <1>2, <1>4, <2>2, <2>4, <2>5, <2>6, <2>7 DEF e, f, s
<1> QED BY <1>6, <1>7, <1>8

\* At the start nothing is shown and nothing asked.
LEMMA HistoryInit_Inv == HistoryInit => HistoryInv
<1> SUFFICES ASSUME HistoryInit PROVE HistoryInv
  OBVIOUS
<1>1. FreshRender \in Renders /\ FreshRender.oldest = 0 /\ FreshRender.row = "none" /\ ~FreshRender.loading
  BY PageAssumption DEF FreshRender, Renders
<1>2. HistoryTypes
  <2>1. /\ <<>> \in Seq(1..lines) /\ <<>> \in Seq(Requests(lines))
        /\ DOMAIN <<>> = {}
    OBVIOUS
  <2>2. lines \in 0..MaxLines /\ 0 \in 0..lines /\ 0 <= lines
    BY PageAssumption DEF HistoryInit
  <2> QED BY <1>1, <2>1, <2>2 DEF HistoryInit, HistoryTypes
<1>3. Remembered(flight, asked, trans) /\ Len(<<>>) = 0
  BY DEF HistoryInit, Remembered
<1> QED BY <1>1, <1>2, <1>3 DEF HistoryInit, HistoryInv, Steady

\* The render state of a view that has shown nothing.
LEMMA FreshFields ==
    /\ FreshRender \in Renders /\ FreshRender.oldest = 0 /\ FreshRender.row = "none"
    /\ FreshRender.anchor = "none" /\ ~FreshRender.loading
  BY PageAssumption DEF FreshRender, Renders

\* A new connection: a view whose render state is not fresh is carried over from now on.
LEMMA StartConnectStep == ASSUME HistoryInv, NEW agreed \in BOOLEAN, StartConnect(agreed) PROVE HistoryInv'
<1> DEFINE r == [render EXCEPT !.anchor = Stale(@), !.row = Stale(@)]
<1>1. /\ lines' = lines /\ newest' = 0 /\ trans' = 1 /\ link' = "connecting" /\ cap' = agreed
      /\ above' = <<>> /\ below' = <<>> /\ flight' = <<>> /\ asked' = asked
      /\ render' = r /\ carried' = (render # FreshRender)
  BY DEF StartConnect
<1>2. /\ lines \in 0..MaxLines /\ render \in Renders /\ render.oldest <= lines
      /\ \A t \in DOMAIN asked : asked[t] \in BOOLEAN
  BY DEF HistoryInv, HistoryTypes
<1>3. Stale(render.anchor) \in {"none", "stale"} /\ Stale(render.row) \in {"none", "stale"}
  BY DEF Stale
<1>4. r \in Renders /\ r.oldest = render.oldest /\ r.row # "loading" /\ r.row # "click"
  BY <1>2, <1>3 DEF Renders
<1>5. render = FreshRender => r = FreshRender
  <2>1. Stale("none") = "none"
    BY DEF Stale
  <2>2. [FreshRender EXCEPT !.anchor = "none", !.row = "none"] = FreshRender
    BY FreshFields DEF Renders
  <2>3. FreshRender.anchor = "none" /\ FreshRender.row = "none"
    BY DEF FreshRender
  <2> QED BY <2>1, <2>2, <2>3, Zenon
<1> HIDE DEF r
<1>6. HistoryTypes'
  <2>1. <<>> \in Seq(1..lines) /\ <<>> \in Seq(Requests(lines))
    OBVIOUS
  <2>2. 0 \in 0..lines
    BY <1>2, PageAssumption
  <2>3. carried' \in BOOLEAN
    BY <1>1
  <2> QED BY <1>1, <1>2, <1>4, <2>1, <2>2, <2>3 DEF HistoryTypes
<1>7. Remembered(<<>>, asked, 1) /\ Len(<<>>) = 0
  BY DEF Remembered
<1>8. render = FreshRender => Steady(r, <<>>, <<>>, <<>>, asked, "connecting")
  BY <1>5, <1>7, FreshFields DEF Steady
<1> QED BY <1>1, <1>6, <1>7, <1>8 DEF HistoryInv

\* A request gets the next number and is remembered with its kind.
LEMMA FetchOK ==
    ASSUME HistoryInv, NEW was, \A t \in DOMAIN was : was[t] \in BOOLEAN, Remembered(flight, was, trans),
           NEW before \in 0..lines, NEW after \in 0..lines, NEW limit \in Nat,
           Fetch(was, before, after, limit)
    PROVE  /\ flight' \in Seq(Requests(lines)) /\ Remembered(flight', asked', trans')
           /\ trans' \in Nat /\ \A t \in DOMAIN asked' : asked'[t] \in BOOLEAN
           /\ flight = <<>> => /\ flight' # <<>> /\ Len(flight') = 1 /\ flight'[1].before = before
                               /\ flight'[1].after = after /\ (asked'[flight'[1].trans] <=> before # 0)
<1> DEFINE e == [trans |-> trans, before |-> before, after |-> after, limit |-> limit]
           n == Len(flight)
<1>1. trans \in Nat /\ flight \in Seq(Requests(lines)) /\ n \in Nat
  BY DEF HistoryInv, HistoryTypes
<1>2. e \in Requests(lines) /\ e.trans = trans /\ e.before = before /\ e.after = after
  BY <1>1 DEF Requests
<1>3. /\ flight' = Append(flight, e) /\ trans' = trans + 1
      /\ asked' = [t \in DOMAIN was \cup {trans} |-> IF t = trans THEN before # 0 ELSE was[t]]
  BY DEF Fetch
<1> HIDE DEF e
<1>4. /\ flight' \in Seq(Requests(lines)) /\ Len(flight') = n + 1 /\ flight'[n + 1] = e
      /\ \A i \in 1..n : flight'[i] = flight[i]
  BY <1>1, <1>2, <1>3
<1>5. /\ DOMAIN asked' = DOMAIN was \cup {trans} /\ (asked'[trans] <=> before # 0)
      /\ \A t \in DOMAIN asked' : asked'[t] \in BOOLEAN
  BY <1>3
<1>6. Remembered(flight', asked', trans')
  <2>1. \A i \in 1..n : flight[i].trans \in DOMAIN was /\ flight[i].trans < trans /\ flight[i].trans \in Nat
    <3> SUFFICES ASSUME NEW i \in 1..n
                 PROVE  flight[i].trans \in DOMAIN was /\ flight[i].trans < trans /\ flight[i].trans \in Nat
      OBVIOUS
    <3>1. flight[i] \in Requests(lines)
      BY <1>1
    <3>2. flight[i].trans \in Nat
      BY <3>1 DEF Requests
    <3> QED BY <3>2 DEF Remembered
  <2>2. ASSUME NEW i \in 1..(n + 1)
        PROVE  /\ flight'[i].trans \in DOMAIN asked' /\ flight'[i].trans < trans'
               /\ i # n + 1 => flight'[i] = flight[i] /\ i \in 1..n /\ flight'[i].trans # trans
    <3>1. CASE i = n + 1
      BY <1>1, <1>2, <1>3, <1>4, <1>5, <3>1
    <3>2. CASE i # n + 1
      <4>1. i \in 1..n
        BY <1>1, <3>2
      <4>2. flight[i].trans < trans + 1 /\ flight[i].trans # trans
        BY <1>1, <2>1, <4>1
      <4> QED BY <1>3, <1>4, <1>5, <2>1, <4>1, <4>2
    <3> QED BY <3>1, <3>2
  <2>3. ASSUME NEW i \in 1..(n + 1), NEW j \in 1..(n + 1), flight'[i].trans = flight'[j].trans
        PROVE  i = j
    <3>1. CASE i = n + 1 \/ j = n + 1
      BY <1>2, <1>4, <2>2, <2>3, <3>1
    <3>2. CASE i # n + 1 /\ j # n + 1
      <4>1. flight[i].trans = flight[j].trans /\ i \in 1..n /\ j \in 1..n
        BY <2>2, <2>3, <3>2
      <4> QED BY <4>1 DEF Remembered
    <3> QED BY <3>1, <3>2
  <2> QED BY <1>4, <2>2, <2>3 DEF Remembered
<1>7. flight = <<>> => n = 0
  OBVIOUS
<1>8. flight' # <<>>
  BY <1>1, <1>4
<1>9. ASSUME flight = <<>>
      PROVE  /\ Len(flight') = 1 /\ flight'[1].before = before /\ flight'[1].after = after
             /\ (asked'[flight'[1].trans] <=> before # 0)
  <2>1. n = 0
    BY <1>7, <1>9
  <2>2. Len(flight') = 1 /\ flight'[1] = e
    BY <1>4, <2>1
  <2> QED BY <1>2, <1>5, <2>2, Zenon
<1>10. trans' \in Nat
  BY <1>1, <1>3
<1> QED BY <1>4, <1>5, <1>6, <1>8, <1>9, <1>10, Zenon

\* The fetch after the login finds nothing in flight.
LEMMA FetchInitialStep == ASSUME HistoryInv, FetchInitial PROVE HistoryInv'
<1>1. /\ link = "connecting" /\ link' = "ready" /\ lines' = lines /\ cap' = cap /\ newest' = newest
      /\ render' = render /\ above' = above /\ below' = below /\ carried' = carried
  BY DEF FetchInitial
<1>2. flight = <<>> /\ HistoryTypes
  BY <1>1 DEF HistoryInv
<1>3. ~carried => /\ above = <<>> /\ below = <<>> /\ render = FreshRender
                  /\ Steady(render, above, below, flight, asked, link)
  BY <1>1 DEF HistoryInv, Steady
<1>4. CASE ~cap /\ asked' = <<>> /\ UNCHANGED <<flight, trans>>
  <2>1. DOMAIN <<>> = {} /\ Len(<<>>) = 0
    OBVIOUS
  <2>2. HistoryTypes'
    BY <1>1, <1>2, <1>4, <2>1 DEF HistoryTypes
  <2>3. Remembered(flight', asked', trans')
    BY <1>2, <1>4, <2>1 DEF Remembered
  <2>4. ~carried => Steady(FreshRender, <<>>, <<>>, <<>>, <<>>, "ready")
    BY <2>1, FreshFields DEF Steady
  <2> QED BY <1>1, <1>2, <1>3, <1>4, <2>2, <2>3, <2>4 DEF HistoryInv
<1>5. CASE cap /\ Fetch(<< >>, 0, newest, IF newest = 0 THEN Page ELSE 0)
  <2>1. /\ 0 \in 0..lines /\ newest \in 0..lines /\ (IF newest = 0 THEN Page ELSE 0) \in Nat
    BY <1>2, PageAssumption DEF HistoryTypes
  <2>2. Remembered(flight, <<>>, trans) /\ \A t \in DOMAIN <<>> : <<>>[t] \in BOOLEAN
    BY <1>2 DEF Remembered
  <2> DEFINE lim == IF newest = 0 THEN Page ELSE 0
  <2>3. lim \in Nat /\ Fetch(<<>>, 0, newest, lim)
    BY <1>5, <2>1
  <2> HIDE DEF lim
  <2>4. /\ flight' \in Seq(Requests(lines)) /\ Remembered(flight', asked', trans')
        /\ trans' \in Nat /\ \A t \in DOMAIN asked' : asked'[t] \in BOOLEAN
        /\ flight' # <<>> /\ Len(flight') = 1 /\ flight'[1].before = 0
        /\ (asked'[flight'[1].trans] <=> 0 # 0)
    BY <1>2, <2>1, <2>2, <2>3, FetchOK
  <2>5. HistoryTypes'
    BY <1>1, <1>2, <2>4 DEF HistoryTypes
  <2>6. ~carried => Steady(FreshRender, <<>>, <<>>, flight', asked', "ready")
    BY <2>4, FreshFields DEF Steady
  <2> QED BY <1>1, <1>3, <2>4, <2>5, <2>6 DEF HistoryInv
<1> QED BY <1>4, <1>5 DEF FetchInitial

\* A click asks for the page before the oldest row, when none is on its way.
LEMMA LoadMoreStep == ASSUME HistoryInv, LoadMore PROVE HistoryInv'
<1> DEFINE r == [render EXCEPT !.loading = TRUE, !.row = "loading"]
<1>1. /\ link = "ready" /\ link' = link /\ lines' = lines /\ cap' = cap /\ newest' = newest
      /\ render' = r /\ above' = above /\ below' = below /\ carried' = carried
      /\ render.row = "click" /\ ~render.loading /\ Fetch(asked, render.oldest, 0, Page)
  BY DEF LoadMore
<1>2. HistoryTypes /\ Remembered(flight, asked, trans)
  BY DEF HistoryInv
<1>3. render \in Renders /\ render.oldest \in 0..lines /\ 0 \in 0..lines /\ Page \in Nat
  BY <1>2, PageAssumption DEF HistoryTypes, Renders
<1>4. r \in Renders /\ r.oldest = render.oldest /\ r.row = "loading" /\ r.loading /\ r.anchor = render.anchor
  BY <1>3 DEF Renders
<1> HIDE DEF r
<1> DEFINE o == render.oldest
<1>5. o \in 0..lines /\ Fetch(asked, o, 0, Page) /\ \A t \in DOMAIN asked : asked[t] \in BOOLEAN
  BY <1>1, <1>2, <1>3 DEF HistoryTypes
<1>6. /\ flight' \in Seq(Requests(lines)) /\ Remembered(flight', asked', trans')
      /\ trans' \in Nat /\ \A t \in DOMAIN asked' : asked'[t] \in BOOLEAN
      /\ flight = <<>> => /\ flight' # <<>> /\ Len(flight') = 1 /\ flight'[1].before = o
                          /\ flight'[1].after = 0 /\ (asked'[flight'[1].trans] <=> o # 0)
  <2> HIDE DEF o
  <2> QED BY <1>2, <1>3, <1>5, FetchOK
<1>7. HistoryTypes'
  BY <1>1, <1>2, <1>4, <1>6 DEF HistoryTypes
<1>8. ASSUME ~carried PROVE Steady(r, above, below, flight', asked', link)
  <2>1. Steady(render, above, below, flight, asked, link)
    BY <1>8 DEF HistoryInv
  <2>2. o > 1 /\ o # 0
    BY <1>1, <1>3, <2>1 DEF Steady
  <2>3. above # <<>> \/ below # <<>>
    BY <1>1, <2>1, FreshFields DEF Steady
  <2>4. flight = <<>>
    BY <1>1, <2>1, <2>3 DEF Steady
  <2>5. Covers(above, below, r.oldest) /\ r.anchor = "shown" /\ link # "connecting"
    BY <1>1, <1>4, <2>1, <2>3 DEF Steady
  <2>6. /\ flight' # <<>> /\ Len(flight') = 1 /\ flight'[1].before = r.oldest
        /\ flight'[1].after = 0 /\ asked'[flight'[1].trans] /\ r.oldest > 1
    BY <1>4, <1>6, <2>2, <2>4, Zenon
  <2>7. Len(flight') <= 1
    BY <2>6
  <2>8. r.row # "click"
    BY <1>4
  <2> QED BY <1>4, <2>3, <2>5, <2>6, <2>7, <2>8, Zenon DEF Steady
<1> QED BY <1>1, <1>6, <1>7, <1>8 DEF HistoryInv

\* What a batch makes of the render state.
LEMMA SettledIs ==
    ASSUME HistoryInv, NEW batch \in Seq(1..lines), NEW more \in BOOLEAN
    PROVE  LET r == HistorySettled(batch, more) IN
           /\ r \in Renders /\ ~r.loading /\ r.row = "none" /\ r.anchor = render.anchor
           /\ r.oldest = Oldest(batch) /\ r.oldest <= lines /\ r.more = more
           /\ Oldest(batch) \in 0..lines
<1>1. lines \in 0..MaxLines /\ render \in Renders /\ render.oldest <= lines
  BY DEF HistoryInv, HistoryTypes
<1>2. render.oldest \in 0..lines /\ lines \in Nat
  BY <1>1, PageAssumption DEF Renders
<1>3. batch # <<>> => Head(batch) \in 1..lines
  BY HeadTailProperties, Zenon
<1>4. Oldest(batch) \in 0..lines
  BY <1>2, <1>3 DEF Oldest
<1> DEFINE o == Oldest(batch)
<1>5. o \in 0..MaxLines /\ o <= lines
  BY <1>1, <1>4, PageAssumption
<1>6. HistorySettled(batch, more) = [render EXCEPT !.loading = FALSE, !.oldest = o, !.more = more, !.row = "none"]
  BY DEF HistorySettled
<1> HIDE DEF o
<1>7. LET r == HistorySettled(batch, more) IN
      /\ r \in Renders /\ ~r.loading /\ r.row = "none" /\ r.anchor = render.anchor
      /\ r.oldest = o /\ r.more = more
  BY <1>1, <1>5, <1>6 DEF Renders
<1> QED BY <1>4, <1>5, <1>7 DEF o

\* The row a batch puts in again, and the divider of the first one.
LEMMA RowPut ==
    ASSUME NEW r \in Renders, ~r.loading, r.row = "none", NEW more \in BOOLEAN
    PROVE  /\ LET u == [r EXCEPT !.row = IF more THEN "click" ELSE @] IN
              /\ u \in Renders /\ u.oldest = r.oldest /\ ~u.loading /\ u.anchor = r.anchor
              /\ u.row = IF more THEN "click" ELSE "none"
           /\ LET u == [r EXCEPT !.anchor = "shown", !.row = IF more THEN "click" ELSE @] IN
              /\ u \in Renders /\ u.oldest = r.oldest /\ ~u.loading /\ u.anchor = "shown"
              /\ u.row = IF more THEN "click" ELSE "none"
<1> DEFINE w == IF more THEN "click" ELSE "none"
<1>1. /\ [r EXCEPT !.row = IF more THEN "click" ELSE @] = [r EXCEPT !.row = w]
      /\ [r EXCEPT !.anchor = "shown", !.row = IF more THEN "click" ELSE @] = [r EXCEPT !.anchor = "shown", !.row = w]
  BY Zenon
<1>2. w \in {"none", "click"}
  OBVIOUS
<1> HIDE DEF w
<1>3. LET u == [r EXCEPT !.row = w] IN
      u \in Renders /\ u.oldest = r.oldest /\ ~u.loading /\ u.anchor = r.anchor /\ u.row = w
  BY <1>2 DEF Renders
<1>4. LET u == [r EXCEPT !.anchor = "shown", !.row = w] IN
      u \in Renders /\ u.oldest = r.oldest /\ ~u.loading /\ u.anchor = "shown" /\ u.row = w
  BY <1>2 DEF Renders
<1> QED BY <1>1, <1>3, <1>4, Zenon DEF w

\* A batch turned round is a batch.
LEMMA ReverseTypes ==
    ASSUME NEW S, NEW a \in Seq(S)
    PROVE  Reverse(a) \in Seq(S)
<1> DEFINE n == Len(a)
<1>1. n \in Nat /\ \A i \in 1..n : a[i] \in S
  OBVIOUS
<1>2. Reverse(a) = [i \in 1..n |-> a[(n - i) + 1]]
  BY DEF Reverse
<1> HIDE DEF n
<1>3. \A i \in 1..n : (n - i) + 1 \in 1..n
  BY <1>1
<1>4. Reverse(a) \in [1..n -> S]
  BY <1>1, <1>2, <1>3
<1> QED BY <1>1, <1>4, SeqDef

\* A batch rendered keeps the types.
LEMMA RenderTypes ==
    ASSUME HistoryInv, NEW batch \in Seq(1..lines), NEW more \in BOOLEAN, Render(batch, more)
    PROVE  /\ render' \in Renders /\ render'.oldest = Oldest(batch) /\ Oldest(batch) \in 0..lines
           /\ ~render'.loading /\ render'.row \in {"none", "click"}
           /\ above' \in Seq(1..lines) /\ below' \in Seq(1..lines)
<1> DEFINE r == HistorySettled(batch, more)
           older == render.loading
           nothing == batch = <<>> /\ ~(older /\ more)
<1>1. /\ r \in Renders /\ ~r.loading /\ r.row = "none" /\ r.anchor = render.anchor
      /\ r.oldest = Oldest(batch) /\ Oldest(batch) \in 0..lines
  BY SettledIs
<1>2. above \in Seq(1..lines) /\ below \in Seq(1..lines)
  BY DEF HistoryInv, HistoryTypes
<1>3. CASE nothing /\ render' = r /\ UNCHANGED <<above, below>>
  BY <1>1, <1>2, <1>3
<1>4. CASE /\ ~nothing /\ ~older
           /\ render' = [r EXCEPT !.anchor = "shown", !.row = IF more THEN "click" ELSE @]
           /\ above' = above \o below /\ below' = batch
  <2>1. above \o below \in Seq(1..lines)
    BY <1>2, ConcatProperties
  <2> HIDE DEF r
  <2>2. /\ render' \in Renders /\ render'.oldest = r.oldest /\ ~render'.loading
        /\ render'.row = IF more THEN "click" ELSE "none"
    BY <1>1, <1>4, RowPut
  <2> QED BY <1>1, <1>4, <2>1, <2>2
<1>5. CASE /\ ~nothing /\ older
           /\ render' = [r EXCEPT !.row = IF more THEN "click" ELSE @]
           /\ above' = Inserted(batch) /\ UNCHANGED below
  <2>1. Inserted(batch) \in Seq(1..lines)
    <3>1. above \o batch \in Seq(1..lines)
      BY <1>2, ConcatProperties
    <3>2. Reverse(batch) \o above \in Seq(1..lines)
      BY <1>2, ReverseTypes, ConcatProperties
    <3> QED BY <3>1, <3>2 DEF Inserted
  <2> HIDE DEF r
  <2>2. /\ render' \in Renders /\ render'.oldest = r.oldest /\ ~render'.loading
        /\ render'.row = IF more THEN "click" ELSE "none"
    BY <1>1, <1>5, RowPut
  <2> QED BY <1>1, <1>2, <1>5, <2>1, <2>2
<1> QED BY <1>3, <1>4, <1>5 DEF Render

\* What is answered with: nothing, and more is to be had where an older page was asked
\* for, or the lines up to the cursor.
Answers(q, batch, more) ==
    \/ batch = <<>> /\ (more <=> asked[q.trans])
    \/ /\ batch # <<>> /\ Head(batch) >= 1 /\ Head(batch) <= End(q)
       /\ Len(batch) = (End(q) + 1) - Head(batch) /\ ToSet(batch) = Head(batch)..End(q)
       /\ (more <=> Head(batch) > 1)

\* The batch goes on where the rows end.
LEMMA CoversMore ==
    ASSUME NEW a \in Seq(Nat), NEW b \in Seq(Nat), NEW c \in Seq(Nat), NEW o \in Nat, NEW f \in Nat,
           Covers(a, b, o), f >= 1, f < o, Len(c) = o - f, ToSet(c) = f..(o - 1)
    PROVE  Covers(a \o c, b, f)
<1>1. Len(a \o c) = Len(a) + Len(c) /\ ToSet(a \o c) = ToSet(a) \cup ToSet(c)
  BY RangeOfConcat, ZenonT(40)
<1>2. Len(a) \in Nat /\ Len(b) \in Nat
  OBVIOUS
<1> DEFINE la == Len(a)
           lb == Len(b)
           d == a \o c
           A == ToSet(a) \cup ToSet(b)
<1>3. A = o..o + (la + lb) - 1
  BY DEF Covers
<1>4. ToSet(d) \cup ToSet(b) = A \cup (f..(o - 1)) /\ Len(d) = la + (o - f)
  BY <1>1
<1>5. la \in Nat /\ lb \in Nat
  BY <1>2
<1> HIDE DEF la, lb, d, A
<1>6. (o..o + (la + lb) - 1) \cup (f..(o - 1)) = f..f + ((la + (o - f)) + lb) - 1
  BY <1>5
<1>7. ToSet(d) \cup ToSet(b) = f..f + (Len(d) + lb) - 1
  BY <1>3, <1>4, <1>6, Zenon
<1> QED BY <1>7 DEF Covers, d, lb

\* A batch rendered on the connection of the view.
LEMMA RenderSteady ==
    ASSUME HistoryInv, ~carried, link = "ready", flight # <<>>, NEW batch \in Seq(1..lines),
           NEW more \in BOOLEAN, Render(batch, more), Answers(flight[1], batch, more), NEW q
    PROVE  Steady(render', above', below', <<>>, q, "ready")
<1> DEFINE r == HistorySettled(batch, more)
           older == render.loading
           nothing == batch = <<>> /\ ~(older /\ more)
           u == flight[1]
           f == Head(batch)
<1>1. /\ r \in Renders /\ ~r.loading /\ r.row = "none" /\ r.anchor = render.anchor
      /\ r.oldest = Oldest(batch) /\ Oldest(batch) \in 0..lines
  BY SettledIs
<1>2. /\ above \in Seq(1..lines) /\ below \in Seq(1..lines) /\ lines \in Nat
      /\ render \in Renders /\ render.oldest \in Nat /\ flight \in Seq(Requests(lines))
  BY PageAssumption DEF HistoryInv, HistoryTypes, Renders
<1>3. Steady(render, above, below, flight, asked, link)
  BY DEF HistoryInv
<1>4. Len(<<>>) = 0 /\ Len(<<>>) <= 1
  OBVIOUS
<1>5. CASE above = <<>> /\ below = <<>>
  <2>1. render = FreshRender /\ u.before = 0 /\ ~asked[u.trans]
    BY <1>3, <1>5 DEF Steady
  <2>2. ~render.loading /\ render.oldest = 0
    BY <2>1, FreshFields
  <2>3. CASE batch = <<>>
    <3>1. ~more
      BY <2>1, <2>3 DEF Answers
    <3>2. Oldest(batch) = 0
      BY <2>2, <2>3 DEF Oldest
    <3>3. r = [render EXCEPT !.loading = FALSE, !.oldest = 0, !.more = more, !.row = "none"]
      BY <3>2, Zenon DEF HistorySettled
    <3>4. [FreshRender EXCEPT !.loading = FALSE, !.oldest = 0, !.more = FALSE, !.row = "none"] = FreshRender
      <4>1. FreshRender.more = FALSE /\ FreshRender.loading = FALSE
        BY DEF FreshRender
      <4> QED BY <4>1, FreshFields DEF Renders
    <3>5. r = FreshRender
      BY <2>1, <3>1, <3>3, <3>4
    <3>6. render' = r /\ above' = above /\ below' = below
      BY <2>2, <2>3 DEF Render
    <3> QED BY <1>4, <1>5, <3>5, <3>6, FreshFields DEF Steady
  <2>4. CASE batch # <<>>
    <3>1. /\ f >= 1 /\ f <= lines /\ Len(batch) = (lines + 1) - f /\ ToSet(batch) = f..lines
          /\ (more <=> f > 1) /\ f \in Nat
      <4>1. End(u) = lines
        BY <2>1 DEF End
      <4>2. f \in 1..lines
        BY <2>4, HeadTailProperties, Zenon
      <4> QED BY <1>2, <2>4, <4>1, <4>2 DEF Answers
    <3>2. Oldest(batch) = f
      BY <2>2, <2>4 DEF Oldest
    <3> HIDE DEF r
    <3>3. /\ render' = [r EXCEPT !.anchor = "shown", !.row = IF more THEN "click" ELSE @]
          /\ above' = above \o below /\ below' = batch
      BY <2>2, <2>4 DEF Render, r
    <3>4. /\ render' \in Renders /\ render'.oldest = f /\ ~render'.loading /\ render'.anchor = "shown"
          /\ render'.row = IF more THEN "click" ELSE "none"
      BY <1>1, <3>2, <3>3, RowPut
    <3>5. above' = <<>>
      BY <1>5, <3>3
    <3>6. Covers(<<>>, batch, f)
      <4>1. f + (0 + ((lines + 1) - f)) - 1 = lines
        <5>1. f \in Nat /\ lines \in Nat
          BY <1>2, <3>1
        <5> HIDE DEF f
        <5> QED BY <5>1
      <4>2. ToSet(<<>>) \cup ToSet(batch) = f..f + (Len(<<>>) + Len(batch)) - 1
        BY <1>4, <3>1, <4>1, EmptyRange, Zenon
      <4> QED BY <3>1, <4>2 DEF Covers
    <3> HIDE DEF f
    <3> QED BY <1>4, <2>4, <3>1, <3>3, <3>4, <3>5, <3>6 DEF Steady
  <2> QED BY <2>3, <2>4
<1>6. CASE above # <<>> \/ below # <<>>
  <2>1. /\ render.loading /\ render.oldest > 1 /\ u.before = render.oldest /\ asked[u.trans]
        /\ Covers(above, below, render.oldest) /\ render.anchor = "shown"
    BY <1>3, <1>6 DEF Steady
  <2> DEFINE o == render.oldest
  <2>2. CASE batch = <<>>
    <3>1. more = TRUE
      BY <2>1, <2>2 DEF Answers
    <3>2. Oldest(batch) = o
      BY <2>2 DEF Oldest
    <3> HIDE DEF r
    <3>3. /\ render' = [r EXCEPT !.row = IF more THEN "click" ELSE @]
          /\ above' = above \o batch /\ below' = below
      BY <2>1, <2>2, <3>1 DEF Render, r, Inserted
    <3>4. /\ render'.oldest = o /\ ~render'.loading /\ render'.anchor = "shown"
          /\ render'.row = "click"
      BY <1>1, <2>1, <3>1, <3>2, <3>3, RowPut, ZenonT(40)
    <3>5. above' = above
      BY <1>2, <2>2, <3>3
    <3> QED BY <1>4, <1>6, <2>1, <3>3, <3>4, <3>5 DEF Steady
  <2>3. CASE batch # <<>>
    <3>1. /\ f >= 1 /\ f < o /\ Len(batch) = o - f /\ ToSet(batch) = f..(o - 1)
          /\ (more <=> f > 1) /\ f \in Nat
      <4>1. End(u) = o - 1
        BY <1>2, <2>1 DEF End
      <4>2. f \in 1..lines
        BY <2>3, HeadTailProperties, Zenon
      <4>3. /\ f >= 1 /\ f <= End(u) /\ Len(batch) = (End(u) + 1) - f /\ ToSet(batch) = f..End(u)
            /\ (more <=> f > 1)
        BY <2>3 DEF Answers
      <4>4. f <= o - 1 /\ Len(batch) = ((o - 1) + 1) - f /\ ToSet(batch) = f..(o - 1)
        BY <4>1, <4>3, Zenon
      <4>5. ((o - 1) + 1) - f = o - f /\ (f <= o - 1 => f < o)
        <5> HIDE DEF f, o
        <5>1. o \in Nat /\ f \in Nat
          BY <1>2, <4>2 DEF o
        <5> QED BY <5>1
      <4> QED BY <4>2, <4>3, <4>4, <4>5
    <3>2. Oldest(batch) = f
      BY <2>3, <3>1 DEF Oldest
    <3> HIDE DEF r
    <3>3. /\ render' = [r EXCEPT !.row = IF more THEN "click" ELSE @]
          /\ above' = above \o batch /\ below' = below
      BY <2>1, <2>3 DEF Render, r, Inserted
    <3>4. /\ render'.oldest = f /\ ~render'.loading /\ render'.anchor = "shown"
          /\ render'.row = IF more THEN "click" ELSE "none"
      BY <1>1, <2>1, <3>2, <3>3, RowPut, ZenonT(40)
    <3>5. Covers(above \o batch, below, f)
      <4>1. above \in Seq(Nat) /\ below \in Seq(Nat) /\ batch \in Seq(Nat) /\ o \in Nat
        <5>1. 1..lines \subseteq Nat
          OBVIOUS
        <5> QED BY <1>2, <5>1, SeqMonotonic
      <4> HIDE DEF f, o
      <4> QED BY <2>1, <3>1, <4>1, CoversMore DEF o
    <3>6. above' # <<>> \/ below' # <<>>
      <4>1. Len(above \o batch) = Len(above) + Len(batch) /\ Len(above) \in Nat /\ Len(batch) > 0
        BY <1>2, <2>3
      <4>2. Len(above') > 0
        BY <3>3, <4>1
      <4> QED BY <1>4, <4>2
    <3> HIDE DEF f, o
    <3> QED BY <1>4, <3>1, <3>3, <3>4, <3>5, <3>6 DEF Steady
  <2> QED BY <2>2, <2>3
<1> QED BY <1>5, <1>6

\* An answer, or a refusal.
LEMMA HistoryTaken ==
    ASSUME HistoryInv, link = "ready", flight # <<>>, flight' = Tail(flight),
           NEW batch \in Seq(1..lines), NEW more \in BOOLEAN,
           History(Head(flight).trans, batch, more), ~carried => Answers(flight[1], batch, more),
           UNCHANGED <<lines, link, cap, logins, trans, carried>>
    PROVE  HistoryInv'
<1>1. /\ HistoryTypes /\ Remembered(flight, asked, trans) /\ Render(batch, more)
      /\ flight \in Seq(Requests(lines)) /\ lines \in Nat
  BY PageAssumption DEF HistoryInv, History, HistoryTypes
<1>2. /\ Head(flight) = flight[1] /\ Tail(flight) \in Seq(Requests(lines))
      /\ Len(Tail(flight)) = Len(flight) - 1 /\ Len(flight) \in Nat /\ Len(flight) >= 1
      /\ \A i \in 1..(Len(flight) - 1) : Tail(flight)[i] = flight[i + 1]
  BY <1>1
<1> DEFINE t0 == flight[1].trans
<1>3. asked' = [v \in DOMAIN asked \ {t0} |-> asked[v]]
  BY <1>2 DEF History
<1>4. newest' \in 0..lines
  <2>1. newest \in 0..lines /\ (batch # <<>> => Last(batch) \in 1..lines)
    BY <1>1 DEF HistoryTypes, Last
  <2> QED BY <2>1 DEF History
<1>5. /\ render' \in Renders /\ render'.oldest \in 0..lines
      /\ ~render'.loading /\ render'.row \in {"none", "click"}
      /\ above' \in Seq(1..lines) /\ below' \in Seq(1..lines)
  BY <1>1, RenderTypes
<1>6. HistoryTypes'
  <2>1. \A v \in DOMAIN asked' : asked'[v] \in BOOLEAN
    BY <1>1, <1>3 DEF HistoryTypes
  <2>2. render'.oldest <= lines
    BY <1>1, <1>5
  <2> QED BY <1>1, <1>2, <1>4, <1>5, <2>1, <2>2 DEF HistoryTypes
<1>7. Remembered(flight', asked', trans')
  <2> DEFINE n == Len(flight)
             g == Tail(flight)
  <2>1. \A i \in 1..(n - 1) : g[i] = flight[i + 1] /\ i + 1 \in 1..n /\ i + 1 # 1
    BY <1>2
  <2>2. Len(g) = n - 1 /\ 1 \in 1..n
    BY <1>2
  <2>3. DOMAIN asked' = DOMAIN asked \ {t0}
    BY <1>3
  <2> HIDE DEF g
  <2>4. ASSUME NEW i \in 1..(n - 1) PROVE g[i].trans \in DOMAIN asked' /\ g[i].trans < trans
    BY <1>1, <2>1, <2>2, <2>3 DEF Remembered
  <2>5. ASSUME NEW i \in 1..(n - 1), NEW j \in 1..(n - 1), g[i].trans = g[j].trans PROVE i = j
    <3>1. flight[i + 1].trans = flight[j + 1].trans /\ i + 1 \in 1..n /\ j + 1 \in 1..n
      BY <2>1, <2>5
    <3>2. i + 1 = j + 1
      BY <1>1, <3>1, Zenon DEF Remembered
    <3> QED BY <3>2
  <2> QED BY <2>2, <2>4, <2>5 DEF Remembered, g
<1>8. ASSUME ~carried PROVE Steady(render', above', below', flight', asked', "ready")
  <2>1. Len(flight) <= 1
    BY <1>8 DEF HistoryInv, Steady
  <2>2. flight' = <<>>
    <3>1. Len(Tail(flight)) = 0
      BY <1>2, <2>1
    <3> QED BY <1>2, <3>1, EmptySeq
  <2> QED BY <1>1, <1>8, <2>2, RenderSteady
<1> QED BY <1>6, <1>7, <1>8 DEF HistoryInv

\* A page: an older one is never empty, for there are lines before the cursor.
LEMMA AnswerStep == ASSUME HistoryInv, Answer PROVE HistoryInv'
<1> DEFINE u == Head(flight)
           batch == Reply(u)
           more == batch # <<>> /\ FirstOf(u) > 1
<1>1. /\ link = "ready" /\ flight # <<>> /\ flight' = Tail(flight)
      /\ History(u.trans, batch, more) /\ UNCHANGED <<lines, link, cap, logins, trans, carried>>
  BY DEF Answer
<1>2. HistoryTypes /\ flight \in Seq(Requests(lines)) /\ lines \in Nat
  BY PageAssumption DEF HistoryInv, HistoryTypes
<1>3. u \in Requests(lines) /\ u = flight[1]
  BY <1>1, <1>2
<1>4. /\ End(u) \in 0..lines /\ FirstOf(u) \in 1..(lines + 1) /\ batch \in Seq(1..lines)
      /\ batch # <<>> <=> FirstOf(u) <= End(u)
      /\ batch # <<>> =>
           /\ Head(batch) = FirstOf(u) /\ Len(batch) = (End(u) + 1) - FirstOf(u)
           /\ ToSet(batch) = FirstOf(u)..End(u)
  BY <1>2, <1>3, ReplyIs
<1>5. more \in BOOLEAN
  OBVIOUS
<1>6. ASSUME ~carried PROVE Answers(u, batch, more)
  <2>1. Steady(render, above, below, flight, asked, link)
    BY <1>6 DEF HistoryInv
  <2>2. CASE batch # <<>>
    <3>1. FirstOf(u) >= 1
      BY <1>4
    <3> HIDE DEF u, batch
    <3> QED BY <1>4, <2>2, <3>1, Zenon DEF Answers
  <2>3. CASE batch = <<>>
    <3>1. ~(FirstOf(u) <= End(u)) /\ more = FALSE
      BY <1>4, <2>3
    <3>2. u.before = 0 => ~asked[u.trans]
      <4>1. u.before = 0 => u.before # render.oldest \/ ~(render.oldest > 1)
        BY <1>2 DEF HistoryTypes, Renders
      <4> QED BY <1>1, <1>3, <2>1, <4>1 DEF Steady
    <3>3. u.before = 0
      <4> SUFFICES ASSUME u.before # 0 PROVE FALSE
        OBVIOUS
      <4>1. render.oldest > 1 /\ u.before = render.oldest /\ u.after = 0
        BY <1>1, <1>3, <2>1 DEF Steady
      <4>2. render.oldest \in Nat
        BY <1>2, PageAssumption DEF HistoryTypes, Renders
      <4>3. End(u) = u.before - 1 /\ u.before \in Nat /\ u.before > 1 /\ u.limit \in Nat
        BY <1>2, <1>3, <4>1, <4>2 DEF End, Requests
      <4>4. FirstOf(u) = IF u.limit = 0 \/ End(u) < u.limit THEN u.after + 1 ELSE End(u) - u.limit + 1
        BY DEF FirstOf, End
      <4> QED BY <3>1, <4>1, <4>3, <4>4
    <3> QED BY <2>3, <3>1, <3>2, <3>3 DEF Answers
  <2> QED BY <2>2, <2>3
<1> HIDE DEF batch, more
<1> QED BY <1>1, <1>3, <1>4, <1>5, <1>6, HistoryTaken

\* A refusal puts the row back for an older page, and for that alone.
LEMMA RefusedStep == ASSUME HistoryInv, Refused PROVE HistoryInv'
<1> DEFINE u == Head(flight)
           more == asked[u.trans]
<1>1. /\ link = "ready" /\ flight # <<>> /\ flight' = Tail(flight)
      /\ History(u.trans, <<>>, more) /\ UNCHANGED <<lines, link, cap, logins, trans, carried>>
  BY DEF Refused, FailedHistory
<1>2. HistoryTypes /\ flight \in Seq(Requests(lines)) /\ Remembered(flight, asked, trans)
  BY DEF HistoryInv, HistoryTypes
<1>3. u = flight[1] /\ 1 \in 1..Len(flight)
  BY <1>1, <1>2
<1>4. more \in BOOLEAN
  BY <1>2, <1>3 DEF Remembered, HistoryTypes
<1>5. Answers(u, <<>>, more) /\ <<>> \in Seq(1..lines)
  BY DEF Answers
<1> HIDE DEF more
<1> QED BY <1>1, <1>3, <1>4, <1>5, HistoryTaken

\* A line said leaves every number a line's.
LEMMA LineSaidStep == ASSUME HistoryInv, LineSaid PROVE HistoryInv'
<1>1. /\ lines < MaxLines /\ lines' = lines + 1 /\ lines \in 0..MaxLines /\ MaxLines \in Nat
      /\ UNCHANGED <<link, cap, logins, newest, asked, flight, trans, render, above, below, carried>>
  BY PageAssumption DEF LineSaid, HistoryInv, HistoryTypes
<1>2. lines' \in 0..MaxLines /\ 1..lines \subseteq 1..lines' /\ 0..lines \subseteq 0..lines'
  BY <1>1
<1>3. Requests(lines) \subseteq Requests(lines')
  BY <1>2 DEF Requests
<1>4. above \in Seq(1..lines') /\ below \in Seq(1..lines') /\ flight \in Seq(Requests(lines'))
  BY <1>2, <1>3, SeqMonotonic DEF HistoryInv, HistoryTypes
<1>5. render \in Renders /\ render.oldest <= lines /\ newest \in 0..lines
  BY DEF HistoryInv, HistoryTypes
<1>6. render.oldest <= lines'
  BY <1>1, <1>5 DEF Renders
<1>7. HistoryTypes'
  BY <1>1, <1>2, <1>4, <1>5, <1>6 DEF HistoryInv, HistoryTypes
<1> QED BY <1>1, <1>7 DEF HistoryInv

\* The connection goes: the view keeps its rows and its render state.
LEMMA ClosedStep == ASSUME HistoryInv, Closed PROVE HistoryInv'
<1>1. /\ link' = "off" /\ cap' = FALSE /\ flight' = <<>>
      /\ UNCHANGED <<lines, logins, newest, asked, trans, render, above, below, carried>>
  BY DEF Closed
<1>2. <<>> \in Seq(Requests(lines)) /\ Len(<<>>) = 0 /\ Len(<<>>) <= 1
  OBVIOUS
<1>3. HistoryTypes'
  BY <1>1, <1>2 DEF HistoryInv, HistoryTypes
<1>4. Remembered(<<>>, asked, trans)
  BY <1>2 DEF Remembered
<1>5. ~carried => Steady(render, above, below, <<>>, asked, "off")
  BY <1>2 DEF HistoryInv, Steady
<1> QED BY <1>1, <1>3, <1>4, <1>5 DEF HistoryInv

\* Every step keeps the invariant.
LEMMA HistoryStep == HistoryInv /\ [HistoryNext]_histVars => HistoryInv'
<1> SUFFICES ASSUME HistoryInv, [HistoryNext]_histVars PROVE HistoryInv'
  OBVIOUS
<1>1. CASE UNCHANGED histVars
  BY <1>1 DEF histVars, HistoryInv, HistoryTypes
<1> QED BY <1>1, StartConnectStep, FetchInitialStep, LoadMoreStep, AnswerStep, RefusedStep,
           LineSaidStep, ClosedStep DEF HistoryNext

\* The invariant says what is checked.
LEMMA HistoryInv_OK == HistoryInv => HistoryTypeOK /\ HistoryIsContinuous
<1> SUFFICES ASSUME HistoryInv PROVE HistoryTypeOK /\ HistoryIsContinuous
  OBVIOUS
<1> DEFINE rows == Rows
           o == render.oldest
<1>1. HistoryTypes
  BY DEF HistoryInv
<1>2. /\ above \in Seq(1..lines) /\ below \in Seq(1..lines) /\ Len(above) \in Nat /\ Len(below) \in Nat
      /\ lines \in Nat /\ o \in Nat /\ render \in Renders
  BY <1>1, PageAssumption DEF HistoryTypes, Renders
<1>3. /\ rows \in Seq(1..lines) /\ Len(rows) = Len(above) + Len(below)
      /\ ToSet(rows) = ToSet(above) \cup ToSet(below)
  BY <1>2, RangeOfConcat DEF Rows
<1>4. rows # <<>> <=> above # <<>> \/ below # <<>>
  <2>1. /\ rows # <<>> <=> Len(rows) # 0
        /\ above # <<>> <=> Len(above) # 0
        /\ below # <<>> <=> Len(below) # 0
    <3> HIDE DEF rows
    <3> QED BY <1>2, <1>3
  <2>2. Len(rows) # 0 <=> Len(above) # 0 \/ Len(below) # 0
    <3> HIDE DEF rows
    <3> QED BY <1>2, <1>3
  <2> QED BY <2>1, <2>2
<1> HIDE DEF rows
<1>5. HistoryTypeOK
  <2>1. newest \in 0..MaxLines
    BY <1>1, PageAssumption DEF HistoryTypes
  <2>2. \A i \in 1..Len(rows) : rows[i] \in 1..lines
    <3> SUFFICES ASSUME NEW i \in 1..Len(rows) PROVE rows[i] \in 1..lines
      OBVIOUS
    <3>1. rows \in Seq(1..lines)
      BY <1>3
    <3> QED BY <3>1, ElementOfSeq, Zenon
  <2> QED BY <1>1, <2>1, <2>2 DEF HistoryTypes, HistoryTypeOK, Renders, rows
<1>6. ASSUME ~carried PROVE Steady(render, above, below, flight, asked, link)
  BY <1>6 DEF HistoryInv
<1>7. ASSUME ~carried, rows # <<>> PROVE ToSet(rows) = o..o + Len(rows) - 1
  <2>1. Covers(above, below, o)
    BY <1>4, <1>6, <1>7 DEF Steady
  <2> QED BY <1>3, <2>1 DEF Covers
<1>8. ASSUME ~carried PROVE Len(rows) = Cardinality(ToSet(rows))
  <2>1. CASE rows = <<>>
    BY <2>1, EmptyRange, FS_EmptySet
  <2>2. CASE rows # <<>>
    <3> DEFINE n == Len(rows)
    <3>1. n \in Nat /\ n > 0
      BY <1>3, <2>2
    <3>2. ToSet(rows) = o..o + n - 1
      BY <1>7, <1>8, <2>2
    <3> HIDE DEF n, o
    <3>3. o \in Int /\ o + n - 1 \in Int /\ o <= o + n - 1 /\ (o + n - 1) - o + 1 = n
      BY <1>2, <3>1 DEF o
    <3>4. Cardinality(o..o + n - 1) = (o + n - 1) - o + 1
      BY <3>3, FS_Interval
    <3> QED BY <3>2, <3>3, <3>4 DEF n
  <2> QED BY <2>1, <2>2
<1>9. NoGapNoRepeat
  BY <1>7, <1>8 DEF NoGapNoRepeat, rows
<1>10. ASSUME link = "ready", ~carried, rows # <<>>, o > 1
       PROVE  \/ render.row = "click" /\ ~render.loading
              \/ /\ render.loading
                 /\ \E i \in 1..Len(flight) :
                       /\ flight[i].before = o
                       /\ flight[i].trans \in DOMAIN asked /\ asked[flight[i].trans]
  <2>1. Steady(render, above, below, flight, asked, link) /\ (above # <<>> \/ below # <<>>)
    BY <1>4, <1>6, <1>10
  <2>2. CASE ~render.loading
    BY <1>10, <2>1, <2>2 DEF Steady
  <2>3. CASE render.loading
    <3>1. flight # <<>> /\ flight[1].before = o /\ asked[flight[1].trans]
      BY <1>10, <2>1, <2>3 DEF Steady
    <3>2. 1 \in 1..Len(flight)
      BY <1>1, <3>1 DEF HistoryTypes
    <3>3. flight[1].trans \in DOMAIN asked
      BY <3>2 DEF HistoryInv, Remembered
    <3> QED BY <2>3, <3>1, <3>2, <3>3
  <2> QED BY <2>2, <2>3
<1>11. OlderWithinReach
  BY <1>10 DEF OlderWithinReach, rows
<1> QED BY <1>5, <1>9, <1>11 DEF HistoryIsContinuous

\* For every page size, number of lines, of connections and of requests: the history shown
\* has no gap and no line twice, and the lines before it stay within reach, whatever is
\* refused, said meanwhile or clicked (output_chat_history_batch of chat.c, history and
\* failed of recv/chat.rs, chat_history_load_more).
THEOREM HistoryIsAlwaysContinuous == HistorySpec => [](HistoryTypeOK /\ HistoryIsContinuous)
<1>1. HistoryInit => HistoryInv
  BY HistoryInit_Inv
<1>2. HistoryInv /\ [HistoryNext]_histVars => HistoryInv'
  BY HistoryStep
<1>3. HistoryInv => HistoryTypeOK /\ HistoryIsContinuous
  BY HistoryInv_OK
<1> QED BY <1>1, <1>2, <1>3, PTL DEF HistorySpec

-----------------------------------------------------------------------------
(* The files window's panes.                                                  *)

\* The providers' states, and the listings kept under the numbers W.
RowStates == {NoRows} \cup [of : Dirs, newest : BOOLEAN, some : {TRUE}]
ProvStates == [path : Dirs, rows : RowStates, waiting : BOOLEAN]
Listings(W) == [prov : Provs, path : Dirs, trans : W, newest : BOOLEAN]

\* The kinds of the variables.
FilesTypes ==
    /\ conn \in [up : BOOLEAN, ready : BOOLEAN, made : 0..MaxLogons]
    /\ shows \in [Panes -> Provs \cup {LocalSide}]
    /\ prov \in [Provs -> ProvStates]
    /\ wire \subseteq 1..MaxAsks

\* The places kept for answers: one for a provider, each under a number of its own, and all
\* of them asked for after the provider's last change.
PlacesOK(L, W) ==
    /\ L \subseteq Listings(W)
    /\ \A a, b \in L : a.prov = b.prov \/ a.trans = b.trans => a = b
    /\ \A a \in L : a.newest = TRUE

\* A provider that waits has a place, unless no listing goes out.
HasPlace(L, p) == \E a \in L : a.prov = p

\* The rows of a provider: those of its folder, and those of the last change.
Matches(s) == s.rows.some => s.rows.of = s.path
UpToDate(s) == ~s.waiting /\ s.rows.some => s.rows.newest

\* The inductive invariant: without a login through there is no place and shown panes are
\* empty, so nothing a dialog then changes can be out of date.
FilesInv ==
    /\ FilesTypes
    /\ conn.ready => conn.up
    /\ PlacesOK(listings, wire)
    /\ ~conn.ready => listings = {} /\ \A p \in ShownProvs : ~prov[p].rows.some
    /\ dialog # NoDialog => dialog.prov \in ShownProvs
    /\ \A p \in Provs : Matches(prov[p])
    /\ \A p \in ShownProvs : UpToDate(prov[p])
    /\ conn.ready => \A p \in ShownProvs : prov[p].waiting => HasPlace(listings, p)

\* The free numbers and the one that i of them reach up to.
Free == (1..MaxAsks) \ wire
Nth(i) == CHOOSE t \in Free : Cardinality({u \in Free : u <= t}) = i

\* A set of numbers has a least one.
LEMMA LeastOf ==
    ASSUME NEW S, S \subseteq Nat, S # {}
    PROVE  \E m \in S : \A k \in S : m <= k
<1> DEFINE less == OpToRel(<, Nat)
<1>1. IsWellFoundedOn(less, Nat)
  BY NatLessThanWellFounded
<1>2. \A x, y \in Nat : <<x, y>> \in less <=> x < y
  BY Zenon DEF OpToRel
<1> HIDE DEF less
<1>3. PICK m \in S : \A k \in S : ~(<<k, m>> \in less)
  BY <1>1, WFMin
<1>4. \A k \in S : ~(k < m) /\ k \in Nat /\ m \in Nat
  BY <1>2, <1>3
<1> QED BY <1>3, <1>4

\* Two are two.
LEMMA TwoElements == ASSUME NEW x, NEW y, x # y PROVE Cardinality({x} \cup {y}) = 2
<1> DEFINE S == {x}
<1>1. IsFiniteSet(S) /\ Cardinality(S) = 1
  BY FS_Singleton
<1>2. ~(y \in S)
  OBVIOUS
<1> HIDE DEF S
<1>3. Cardinality(S \cup {y}) = IF y \in S THEN Cardinality(S) ELSE Cardinality(S) + 1
  BY <1>1, FS_AddElement, Zenon
<1> QED BY <1>1, <1>2, <1>3 DEF S

\* The first and the second free number are there, and are two.
LEMMA NthIs ==
    ASSUME FilesTypes
    PROVE  /\ Cardinality(Free) >= 1 => Nth(1) \in Free /\ Cardinality({u \in Free : u <= Nth(1)}) = 1
           /\ Cardinality(Free) >= 2 => Nth(2) \in Free /\ Cardinality({u \in Free : u <= Nth(2)}) = 2
<1>1. Free \subseteq Nat /\ IsFiniteSet(Free) /\ Cardinality(Free) \in Nat
  <2>1. Free \in SUBSET (1..MaxAsks) /\ MaxAsks \in Int
    BY FilesAssumption DEF Free
  <2>2. IsFiniteSet(1..MaxAsks)
    BY <2>1, FS_Interval
  <2>3. IsFiniteSet(Free)
    BY <2>1, <2>2, FS_Subset
  <2> QED BY <2>1, <2>3, FS_CardinalityType
<1>2. ASSUME Cardinality(Free) >= 1 PROVE \E m \in Free : \A k \in Free : m <= k
  <2>1. Free # {}
    BY <1>1, <1>2, FS_EmptySet
  <2> QED BY <1>1, <2>1, LeastOf
<1>3. ASSUME NEW m \in Free, \A k \in Free : m <= k PROVE {u \in Free : u <= m} = {m}
  <2>1. \A k \in Free : k <= m => k = m
    BY <1>1, <1>3
  <2>2. m <= m
    BY <1>1
  <2> QED BY <2>1, <2>2, Zenon
<1>4. ASSUME Cardinality(Free) >= 1
      PROVE  \E t \in Free : Cardinality({u \in Free : u <= t}) = 1
  BY <1>2, <1>3, <1>4, FS_Singleton
<1>5. ASSUME Cardinality(Free) >= 2
      PROVE  \E t \in Free : Cardinality({u \in Free : u <= t}) = 2
  <2>1. PICK m \in Free : \A k \in Free : m <= k
    BY <1>1, <1>2, <1>5
  <2>2. Cardinality(Free \ {m}) = Cardinality(Free) - 1 /\ IsFiniteSet(Free \ {m})
    BY <1>1, FS_RemoveElement
  <2>3. Free \ {m} # {}
    BY <1>1, <1>5, <2>2, FS_EmptySet
  <2>4. Free \ {m} \subseteq Nat
    BY <1>1
  <2>5. PICK t \in Free \ {m} : \A k \in Free \ {m} : t <= k
    BY <2>3, <2>4, LeastOf
  <2>6. {u \in Free : u <= t} = {m} \cup {t}
    <3>1. t \in Free /\ m <= t /\ t <= t
      BY <1>1, <2>1, <2>5
    <3>2. \A k \in Free : k <= t => k \in {m} \cup {t}
      <4> SUFFICES ASSUME NEW k \in Free, k <= t, k # m PROVE k = t
        OBVIOUS
      <4>1. t <= k
        BY <2>5
      <4> QED BY <1>1, <3>1, <4>1
    <3> QED BY <3>1, <3>2, Zenon
  <2>7. Cardinality({m} \cup {t}) = 2
    BY <2>5, TwoElements
  <2> QED BY <2>5, <2>6, <2>7
<1> QED BY <1>4, <1>5 DEF Nth

\* The places the providers P get, for the folders `to`, under the numbers num.
Places(P, to, num) == {[prov |-> p, path |-> to[p], trans |-> num[p], newest |-> TRUE] : p \in P}

\* The listings sent: each under a free number of its own.
LEMMA SendListsIs ==
    ASSUME FilesTypes, NEW P, NEW to, NEW now, DOMAIN to = P, SendLists(to, now),
           \/ \E p : P = {p}
           \/ \E p, q : p # q /\ P = {p, q} /\ shows.left = p
    PROVE  \E num \in [P -> Free] :
              /\ \A p, q \in P : num[p] = num[q] => p = q
              /\ listings' = AskedWithout(Outdated(listings, P), P) \cup Places(P, to, num)
              /\ \A p \in P : num[p] \in wire'
              /\ wire \subseteq wire' /\ wire' \subseteq 1..MaxAsks
<1> DEFINE n == Cardinality(P)
           rank == [p \in P |-> IF p = shows.left THEN 1 ELSE n]
           num == [p \in P |-> Nth(rank[p])]
<1>1. /\ Cardinality(Free) >= n
      /\ listings' = AskedWithout(Outdated(listings, P), P) \cup
            {[prov |-> p, path |-> to[p], trans |-> Nth(rank[p]), newest |-> TRUE] : p \in P}
      /\ wire' = wire \cup {Nth(i) : i \in 1..n}
  BY DEF SendLists, Free, Nth
<1>2. \/ n = 1 /\ \E p : P = {p}
      \/ n = 2 /\ \E p, q : p # q /\ P = {p, q} /\ shows.left = p
  <2>1. CASE \E p : P = {p}
    BY <2>1, FS_Singleton
  <2>2. CASE \E p, q : p # q /\ P = {p, q} /\ shows.left = p
    <3>1. PICK p, q : p # q /\ P = {p, q} /\ shows.left = p
      BY <2>2
    <3>2. P = {p} \cup {q}
      BY <3>1
    <3>3. Cardinality({p} \cup {q}) = 2
      BY <3>1, TwoElements
    <3> QED BY <2>2, <3>2, <3>3
  <2> QED BY <2>1, <2>2
<1>3. \A p \in P : rank[p] \in 1..n
  BY <1>2
<1>4. \A p, q \in P : p # q => rank[p] # rank[q]
  BY <1>2
<1>5. Cardinality(Free) \in Nat
  <2>1. Free \in SUBSET (1..MaxAsks) /\ MaxAsks \in Int
    BY FilesAssumption DEF Free
  <2>2. IsFiniteSet(1..MaxAsks)
    BY <2>1, FS_Interval
  <2>3. IsFiniteSet(Free)
    BY <2>1, <2>2, FS_Subset
  <2> QED BY <2>3, FS_CardinalityType
<1>6. \A i \in 1..n : Nth(i) \in Free /\ Cardinality({u \in Free : u <= Nth(i)}) = i
  <2>1. CASE n = 1
    BY <1>1, <1>5, <2>1, NthIs
  <2>2. CASE n = 2
    <3>1. \A i \in 1..2 : i = 1 \/ i = 2
      OBVIOUS
    <3>2. Cardinality(Free) >= 2 /\ Cardinality(Free) >= 1
      BY <1>1, <1>5, <2>2
    <3>3. /\ Nth(1) \in Free /\ Cardinality({u \in Free : u <= Nth(1)}) = 1
          /\ Nth(2) \in Free /\ Cardinality({u \in Free : u <= Nth(2)}) = 2
      BY <3>2, NthIs, Zenon
    <3> QED BY <2>2, <3>1, <3>3, Zenon
  <2> QED BY <1>2, <2>1, <2>2
<1> HIDE DEF n, rank
<1>7. num \in [P -> Free]
  BY <1>3, <1>6
<1>8. \A p, q \in P : num[p] = num[q] => p = q
  <2> SUFFICES ASSUME NEW p \in P, NEW q \in P, num[p] = num[q], p # q PROVE FALSE
    OBVIOUS
  <2>1. Nth(rank[p]) = Nth(rank[q])
    OBVIOUS
  <2>2. rank[p] = rank[q]
    BY <1>3, <1>6, <2>1
  <2> QED BY <1>4, <2>2
<1>9. listings' = AskedWithout(Outdated(listings, P), P) \cup Places(P, to, num)
  <2>1. {[prov |-> p, path |-> to[p], trans |-> num[p], newest |-> TRUE] : p \in P}
        = {[prov |-> p, path |-> to[p], trans |-> Nth(rank[p]), newest |-> TRUE] : p \in P}
    OBVIOUS
  <2> QED BY <1>1, <2>1, Zenon DEF Places
<1>10. \A p \in P : num[p] \in wire'
  BY <1>1, <1>3
<1>11. wire \subseteq wire' /\ wire' \subseteq 1..MaxAsks
  BY <1>1, <1>6 DEF FilesTypes, Free
<1> HIDE DEF num
<1> QED BY <1>7, <1>8, <1>9, <1>10, <1>11, Zenon

\* One provider or both panes' two.
Shape(P) == \/ \E p : P = {p}
            \/ \E p, q : p # q /\ P = {p, q} /\ shows.left = p

\* A place taken away is one of P's.
LEMMA KeptIs ==
    ASSUME NEW W, NEW L, L \subseteq Listings(W), NEW P
    PROVE  AskedWithout(Outdated(L, P), P) = {a \in L : a.prov \notin P}
<1> DEFINE out(a) == IF a.prov \in P THEN [a EXCEPT !.newest = FALSE] ELSE a
<1>1. \A a \in L : out(a).prov = a.prov /\ (a.prov \notin P => out(a) = a)
  <2> SUFFICES ASSUME NEW a \in L PROVE out(a).prov = a.prov /\ (a.prov \notin P => out(a) = a)
    OBVIOUS
  <2>1. [a EXCEPT !.newest = FALSE].prov = a.prov
    BY DEF Listings
  <2> QED BY <2>1
<1>2. Outdated(L, P) = {out(a) : a \in L}
  BY DEF Outdated
<1> HIDE DEF out
<1>3. \A b \in {out(a) : a \in L} : b.prov \notin P => b \in L
  BY <1>1
<1>4. \A b \in L : b.prov \notin P => b \in {out(a) : a \in L}
  BY <1>1
<1> QED BY <1>2, <1>3, <1>4 DEF AskedWithout

\* What is sent: the places stay in order, each of the providers has one and none loses
\* its own.
LEMMA SendListsOK ==
    ASSUME FilesTypes, PlacesOK(listings, wire), NEW P, P \subseteq Provs, Shape(P),
           NEW to \in [P -> Dirs], NEW now, SendLists(to, now)
    PROVE  /\ PlacesOK(listings', wire') /\ wire' \subseteq 1..MaxAsks
           /\ \A p \in P : HasPlace(listings', p)
           /\ \A p : HasPlace(listings, p) => HasPlace(listings', p)
           /\ prov' = [p \in Provs |-> IF p \in P THEN [now[p] EXCEPT !.waiting = TRUE] ELSE now[p]]
<1>1. DOMAIN to = P
  OBVIOUS
<1>2. PICK num \in [P -> Free] :
         /\ \A p, q \in P : num[p] = num[q] => p = q
         /\ listings' = AskedWithout(Outdated(listings, P), P) \cup Places(P, to, num)
         /\ \A p \in P : num[p] \in wire'
         /\ wire \subseteq wire' /\ wire' \subseteq 1..MaxAsks
  BY <1>1, SendListsIs DEF Shape
<1> DEFINE place(p) == [prov |-> p, path |-> to[p], trans |-> num[p], newest |-> TRUE]
           old == {a \in listings : a.prov \notin P}
<1>3. listings \subseteq Listings(wire)
  BY DEF PlacesOK
<1>4. listings' = old \cup {place(p) : p \in P}
  <2>1. AskedWithout(Outdated(listings, P), P) = old
    BY <1>3, KeptIs
  <2> QED BY <1>2, <2>1, Zenon DEF Places
<1>5. ASSUME NEW p \in P
      PROVE  /\ place(p) \in Listings(wire') /\ place(p).prov = p /\ place(p).trans = num[p]
             /\ place(p).newest = TRUE /\ num[p] \notin wire
  <2>1. num[p] \in wire' /\ to[p] \in Dirs /\ num[p] \notin wire /\ p \in Provs
    BY <1>2 DEF Free
  <2> QED BY <2>1 DEF Listings
<1> HIDE DEF place
<1>6. ASSUME NEW a \in old
      PROVE  a \in Listings(wire') /\ a.newest = TRUE /\ a.trans \in wire /\ a.prov \notin P /\ a \in listings
  <2>1. a \in Listings(wire) /\ a.newest = TRUE /\ a.prov \notin P
    BY DEF PlacesOK
  <2> QED BY <1>2, <2>1 DEF Listings
<1>7. ASSUME NEW a \in listings', NEW b \in listings', a.prov = b.prov \/ a.trans = b.trans
      PROVE  a = b
  <2>1. CASE a \in old /\ b \in old
    <3>1. a \in listings /\ b \in listings
      BY <2>1
    <3> QED BY <1>7, <3>1, Zenon DEF PlacesOK
  <2>2. CASE a \notin old
    <3>1. PICK p \in P : a = place(p)
      BY <1>4, <2>2
    <3>2. CASE b \in old
      <4>1. a.prov = p /\ a.trans = num[p] /\ num[p] \notin wire
        BY <1>5, <3>1, Zenon
      <4>2. b.prov \notin P /\ b.trans \in wire
        BY <1>6, <3>2, Zenon
      <4> QED BY <1>7, <4>1, <4>2, Zenon
    <3>3. CASE b \notin old
      <4>1. PICK q \in P : b = place(q)
        BY <1>4, <3>3
      <4>2. a.prov = p /\ a.trans = num[p] /\ b.prov = q /\ b.trans = num[q]
        BY <1>5, <3>1, <4>1, Zenon
      <4>3. p = q
        BY <1>2, <1>7, <4>2, Zenon
      <4> QED BY <3>1, <4>1, <4>3
    <3> QED BY <3>2, <3>3
  <2>3. CASE b \notin old /\ a \in old
    <3>1. PICK p \in P : b = place(p)
      BY <1>4, <2>3
    <3>2. b.prov = p /\ b.trans = num[p] /\ num[p] \notin wire
      BY <1>5, <3>1, Zenon
    <3>3. a.prov \notin P /\ a.trans \in wire
      BY <1>6, <2>3, Zenon
    <3> QED BY <1>7, <3>2, <3>3, Zenon
  <2> QED BY <2>1, <2>2, <2>3
<1>8. PlacesOK(listings', wire')
  <2>1. \A a \in listings' : a \in Listings(wire') /\ a.newest = TRUE
    <3> SUFFICES ASSUME NEW a \in listings' PROVE a \in Listings(wire') /\ a.newest = TRUE
      OBVIOUS
    <3>1. CASE a \in old
      BY <1>6, <3>1, Zenon
    <3>2. CASE a \notin old
      <4>1. PICK p \in P : a = place(p)
        BY <1>4, <3>2, Zenon
      <4> QED BY <1>5, <4>1, Zenon
    <3> QED BY <3>1, <3>2
  <2> QED BY <1>7, <2>1, Zenon DEF PlacesOK
<1>9. \A p \in P : HasPlace(listings', p)
  BY <1>4, <1>5 DEF HasPlace
<1>10. ASSUME NEW p, HasPlace(listings, p) PROVE HasPlace(listings', p)
  <2>1. CASE p \in P
    BY <1>9, <2>1
  <2>2. CASE p \notin P
    BY <1>4, <1>10, <2>2 DEF HasPlace
  <2> QED BY <2>1, <2>2
<1>11. prov' = [p \in Provs |-> IF p \in P THEN [now[p] EXCEPT !.waiting = TRUE] ELSE now[p]]
  BY <1>1 DEF SendLists
<1> QED BY <1>2, <1>8, <1>9, <1>10, <1>11, Zenon

\* A step that sends: every shown provider is either listed by it or as it should be.
LEMMA SentStep ==
    ASSUME FilesTypes, PlacesOK(listings, wire), NEW P, P \subseteq Provs, Shape(P),
           NEW to \in [P -> Dirs], NEW now \in [Provs -> ProvStates], SendLists(to, now),
           conn' \in [up : BOOLEAN, ready : BOOLEAN, made : 0..MaxLogons], conn'.up, conn'.ready,
           shows' \in [Panes -> Provs \cup {LocalSide}],
           dialog' # NoDialog => dialog'.prov \in ShownProvs',
           \A p \in Provs : Matches(now[p]),
           \A p \in ShownProvs' : p \in P \/ (UpToDate(now[p]) /\ (now[p].waiting => HasPlace(listings, p)))
    PROVE  FilesInv'
<1>1. /\ PlacesOK(listings', wire') /\ wire' \subseteq 1..MaxAsks
      /\ \A p \in P : HasPlace(listings', p)
      /\ \A p : HasPlace(listings, p) => HasPlace(listings', p)
      /\ prov' = [p \in Provs |-> IF p \in P THEN [now[p] EXCEPT !.waiting = TRUE] ELSE now[p]]
  BY SendListsOK
<1>2. ASSUME NEW p \in Provs
      PROVE  /\ prov'[p] \in ProvStates /\ Matches(prov'[p])
             /\ p \in P => prov'[p].waiting = TRUE
             /\ p \notin P => prov'[p] = now[p]
  <2>1. now[p] \in ProvStates /\ Matches(now[p])
    OBVIOUS
  <2> DEFINE x == now[p]
  <2> HIDE DEF x
  <2>2. LET y == [x EXCEPT !.waiting = TRUE] IN
        y \in ProvStates /\ y.rows = x.rows /\ y.path = x.path /\ y.waiting = TRUE
    BY <2>1 DEF ProvStates, x
  <2>3. CASE p \in P
    <3>1. prov'[p] = [x EXCEPT !.waiting = TRUE]
      BY <1>1, <2>3 DEF x
    <3> QED BY <2>1, <2>2, <2>3, <3>1 DEF Matches, x
  <2>4. CASE p \notin P
    BY <1>1, <2>1, <2>4
  <2> QED BY <2>3, <2>4
<1>3. prov' \in [Provs -> ProvStates]
  BY <1>1, <1>2
<1>4. ShownProvs' \subseteq Provs
  BY DEF ShownProvs, Panes
<1>5. \A p \in ShownProvs' : UpToDate(prov'[p]) /\ (prov'[p].waiting => HasPlace(listings', p))
  BY <1>1, <1>2, <1>4 DEF UpToDate
<1> QED BY <1>1, <1>2, <1>3, <1>5 DEF FilesInv, FilesTypes

\* The providers shown are at most two, and the left pane's is the first.
LEMMA ShownShape ==
    ASSUME FilesTypes
    PROVE  ShownProvs \subseteq Provs /\ (ShownProvs # {} => Shape(ShownProvs))
<1>1. shows["left"] \in Provs \cup {LocalSide} /\ shows["right"] \in Provs \cup {LocalSide}
  BY DEF FilesTypes, Panes
<1>2. ShownProvs = {shows["left"], shows["right"]} \ {LocalSide}
  BY DEF ShownProvs, Panes
<1> DEFINE l == shows["left"]
           r == shows["right"]
<1>3. l = shows.left
  OBVIOUS
<1>4. CASE l = LocalSide /\ r = LocalSide
  BY <1>2, <1>4
<1>5. CASE l = LocalSide /\ r # LocalSide
  BY <1>1, <1>2, <1>5 DEF Shape
<1>6. CASE l # LocalSide /\ (r = LocalSide \/ r = l)
  BY <1>1, <1>2, <1>6 DEF Shape
<1>7. CASE l # LocalSide /\ r # LocalSide /\ r # l
  BY <1>1, <1>2, <1>3, <1>7 DEF Shape
<1> QED BY <1>4, <1>5, <1>6, <1>7

\* One provider.
LEMMA ShapeOfOne == ASSUME NEW p PROVE Shape({p})
  BY DEF Shape

\* A folder asked for by a pane.
LEMMA NavigateStep ==
    ASSUME FilesInv, NEW s \in Panes, dialog = NoDialog, shows[s] # LocalSide, Available,
           NEW d \in Dirs, SendFileList(shows[s], d), UNCHANGED <<conn, shows, dialog>>
    PROVE  FilesInv'
<1> DEFINE p == shows[s]
           to == [q \in {p} |-> d]
<1>1. p \in Provs /\ p \in ShownProvs
  BY DEF FilesInv, FilesTypes, ShownProvs
<1>2. SendLists(to, prov)
  BY DEF SendFileList
<1>3. to \in [{p} -> Dirs] /\ {p} \subseteq Provs /\ Shape({p})
  BY <1>1, ShapeOfOne
<1>4. conn'.up /\ conn'.ready /\ conn.ready /\ ShownProvs' = ShownProvs
  BY DEF Available, ShownProvs
<1> HIDE DEF to, p
<1>5. /\ FilesTypes /\ PlacesOK(listings, wire) /\ prov \in [Provs -> ProvStates]
      /\ \A q \in Provs : Matches(prov[q])
      /\ \A q \in ShownProvs : UpToDate(prov[q]) /\ (prov[q].waiting => HasPlace(listings, q))
      /\ conn' \in [up : BOOLEAN, ready : BOOLEAN, made : 0..MaxLogons]
      /\ shows' \in [Panes -> Provs \cup {LocalSide}]
      /\ dialog' # NoDialog => dialog'.prov \in ShownProvs'
  BY <1>4 DEF FilesInv, FilesTypes
<1> QED BY <1>2, <1>3, <1>4, <1>5, SentStep

\* ... or the one it is in.
LEMMA NavigateUpStep == ASSUME FilesInv, NEW s \in Panes, NavigateUp(s) PROVE FilesInv'
<1> DEFINE d == Up[prov[shows[s]].path]
<1>1. shows[s] \in Provs
  BY DEF FilesInv, FilesTypes, NavigateUp
<1>2. prov[shows[s]] \in ProvStates /\ prov[shows[s]].path # RootDir
  BY <1>1 DEF FilesInv, FilesTypes, NavigateUp
<1>3. prov[shows[s]].path \in Dirs \ {RootDir}
  BY <1>2 DEF ProvStates
<1>4. d \in Dirs
  BY <1>3, FilesAssumption
<1>5. /\ dialog = NoDialog /\ shows[s] # LocalSide /\ Available
      /\ SendFileList(shows[s], d) /\ UNCHANGED <<conn, shows, dialog>>
  BY DEF NavigateUp
<1> HIDE DEF d
<1> QED BY <1>4, <1>5, NavigateStep

\* A transfer that finished: both panes.
LEMMA FileUpdateStep == ASSUME FilesInv, FileUpdate PROVE FilesInv'
<1> DEFINE P == ShownProvs
           to == [p \in P |-> prov[p].path]
<1>1. SendLists(to, prov) /\ UNCHANGED <<conn, shows, dialog>> /\ P # {}
  BY DEF FileUpdate
<1>2. P \subseteq Provs /\ Shape(P)
  BY <1>1, ShownShape DEF FilesInv
<1>3. to \in [P -> Dirs]
  BY <1>2 DEF FilesInv, FilesTypes, ProvStates
<1>4. conn'.up /\ conn'.ready /\ conn.ready /\ ShownProvs' = P
  BY <1>1 DEF FileUpdate, Available, ShownProvs
<1>5. /\ FilesTypes /\ PlacesOK(listings, wire) /\ prov \in [Provs -> ProvStates]
      /\ \A q \in Provs : Matches(prov[q])
      /\ conn' \in [up : BOOLEAN, ready : BOOLEAN, made : 0..MaxLogons]
      /\ shows' \in [Panes -> Provs \cup {LocalSide}]
      /\ dialog' # NoDialog => dialog'.prov \in ShownProvs'
  BY <1>1, <1>4 DEF FilesInv, FilesTypes
<1> HIDE DEF to, P
<1> QED BY <1>1, <1>2, <1>3, <1>4, <1>5, SentStep

\* The states a provider is put in.
LEMMA ProvForms ==
    /\ NoRows \in RowStates /\ NoRows.some = FALSE
    /\ NewProv \in ProvStates /\ NewProv.rows = NoRows /\ NewProv.waiting = FALSE
    /\ \A d \in Dirs, n \in BOOLEAN :
          LET r == [RowsOf(d) EXCEPT !.newest = n] IN
          r \in RowStates /\ r.some = TRUE /\ r.of = d /\ r.newest = n
<1>1. NoRows \in RowStates /\ NoRows.some = FALSE
  BY DEF NoRows, RowStates
<1>2. NewProv \in ProvStates /\ NewProv.rows = NoRows /\ NewProv.waiting = FALSE
  BY <1>1, FilesAssumption DEF NewProv, ProvStates
<1>3. ASSUME NEW d \in Dirs, NEW n \in BOOLEAN
      PROVE  LET r == [RowsOf(d) EXCEPT !.newest = n] IN
             r \in RowStates /\ r.some = TRUE /\ r.of = d /\ r.newest = n
  BY DEF RowsOf, RowStates
<1> QED BY <1>1, <1>2, <1>3

\* At the start nothing is connected.
LEMMA FilesInit_Inv == FilesInit => FilesInv
<1> SUFFICES ASSUME FilesInit PROVE FilesInv
  OBVIOUS
<1>1. PICK p \in Provs : shows = [left |-> LocalSide, right |-> p]
  BY DEF FilesInit
<1>2. shows \in [Panes -> Provs \cup {LocalSide}]
  BY <1>1 DEF Panes
<1>3. conn \in [up : BOOLEAN, ready : BOOLEAN, made : 0..MaxLogons] /\ ~conn.ready
  BY FilesAssumption DEF FilesInit
<1>4. prov \in [Provs -> ProvStates] /\ \A q \in Provs : prov[q] = NewProv
  BY ProvForms DEF FilesInit
<1>5. FilesTypes
  BY <1>2, <1>3, <1>4 DEF FilesInit, FilesTypes
<1>6. ShownProvs \subseteq Provs
  BY <1>5, ShownShape
<1>7. listings = {} /\ PlacesOK({}, wire) /\ dialog = NoDialog
  BY DEF FilesInit, PlacesOK
<1>8. ~NewProv.rows.some
  BY ProvForms
<1> QED BY <1>3, <1>4, <1>5, <1>6, <1>7, <1>8 DEF FilesInv, Matches, UpToDate

\* An answer: the place is the provider's only one, and the newest.
LEMMA AnswerListingStep ==
    ASSUME FilesInv, NEW t \in wire, NEW granted \in BOOLEAN, AnswerListing(t, granted)
    PROVE  FilesInv'
<1>1. /\ wire' = wire \ {t} /\ listings' = {a \in listings : a.trans # t}
      /\ UNCHANGED <<conn, shows, dialog>> /\ ShownProvs' = ShownProvs
  BY DEF AnswerListing, ShownProvs
<1>2. FilesTypes /\ PlacesOK(listings, wire) /\ ShownProvs \subseteq Provs
  BY ShownShape DEF FilesInv
<1>3. PlacesOK(listings', wire')
  <2>1. ASSUME NEW a \in listings' PROVE a \in Listings(wire') /\ a \in listings
    <3>1. a \in Listings(wire) /\ a.trans # t
      BY <1>1, <1>2 DEF PlacesOK
    <3> QED BY <1>1, <3>1 DEF Listings
  <2> QED BY <1>2, <2>1 DEF PlacesOK
<1>4. CASE ~\E a \in listings : a.trans = t
  <2>1. listings' = listings /\ prov' = prov
    BY <1>1, <1>4 DEF AnswerListing
  <2>2. FilesTypes'
    BY <1>1, <1>2, <2>1 DEF FilesTypes
  <2> QED BY <1>1, <1>3, <2>1, <2>2 DEF FilesInv
<1>5. CASE \E a \in listings : a.trans = t
  <2> DEFINE a == CHOOSE b \in listings : b.trans = t
  <2>1. a \in listings /\ a.trans = t
    BY <1>5
  <2>2. IF granted THEN ShowListing(a.prov, a) ELSE ShowRefusal(a.prov, a)
    BY <1>5 DEF AnswerListing
  <2> HIDE DEF a
  <2>3. a \in Listings(wire) /\ a.newest = TRUE /\ \A b \in listings : b.trans = t => b = a
    BY <1>2, <2>1 DEF PlacesOK
  <2>4. a.prov \in Provs /\ a.path \in Dirs
    BY <2>3 DEF Listings
  <2>5. conn.ready
    BY <2>1 DEF FilesInv
  <2> DEFINE p == a.prov
             x == [path |-> a.path, rows |-> [RowsOf(a.path) EXCEPT !.newest = a.newest], waiting |-> FALSE]
             y == [path |-> a.path, rows |-> NoRows, waiting |-> FALSE]
  <2>6. /\ x \in ProvStates /\ Matches(x) /\ UpToDate(x) /\ x.waiting = FALSE
        /\ y \in ProvStates /\ Matches(y) /\ UpToDate(y) /\ y.waiting = FALSE
    <3> DEFINE r == [RowsOf(a.path) EXCEPT !.newest = a.newest]
    <3>1. r \in RowStates /\ r.some = TRUE /\ r.of = a.path /\ r.newest = TRUE
      BY <2>3, <2>4, ProvForms
    <3>2. x = [path |-> a.path, rows |-> r, waiting |-> FALSE]
      OBVIOUS
    <3> HIDE DEF r, x
    <3>3. x \in ProvStates /\ x.rows = r /\ x.path = a.path /\ x.waiting = FALSE
      BY <2>4, <3>1, <3>2 DEF ProvStates
    <3>4. y \in ProvStates /\ y.rows = NoRows /\ y.waiting = FALSE
      BY <2>4, ProvForms DEF ProvStates
    <3> HIDE DEF y
    <3>5. Matches(x) /\ UpToDate(x)
      BY <3>1, <3>3 DEF Matches, UpToDate
    <3>6. Matches(y) /\ UpToDate(y)
      BY <3>4, ProvForms DEF Matches, UpToDate
    <3> QED BY <3>3, <3>4, <3>5, <3>6
  <2>7. /\ prov' = [prov EXCEPT ![p] = prov'[p]]
        /\ prov'[p] \in {prov[p], x, y} /\ (prov'[p] = prov[p] => prov[p].waiting = FALSE \/ prov'[p] \in {x, y})
    <3>1. CASE granted
      <4>1. prov' = [prov EXCEPT ![p] = IF ~prov[p].waiting THEN prov[p] ELSE x]
        BY <2>2, <3>1 DEF ShowListing
      <4> HIDE DEF x, y
      <4> QED BY <1>2, <2>4, <4>1 DEF FilesTypes, ProvStates
    <3>2. CASE ~granted
      <4>1. prov' = [prov EXCEPT ![p] = IF ~prov[p].waiting THEN prov[p] ELSE y]
        BY <2>2, <3>2 DEF ShowRefusal
      <4> HIDE DEF x, y
      <4> QED BY <1>2, <2>4, <4>1 DEF FilesTypes, ProvStates
    <3> QED BY <3>1, <3>2
  <2> HIDE DEF x, y
  <2>8. prov[p] \in ProvStates /\ Matches(prov[p]) /\ (p \in ShownProvs => UpToDate(prov[p]))
    BY <2>4 DEF FilesInv, FilesTypes
  <2>9. /\ prov'[p] \in ProvStates /\ Matches(prov'[p]) /\ (p \in ShownProvs => UpToDate(prov'[p]))
        /\ prov'[p].waiting = FALSE
    BY <2>6, <2>7, <2>8
  <2>10. \A q \in Provs : q # p => prov'[q] = prov[q]
    BY <1>2, <2>7 DEF FilesTypes
  <2>11. prov' \in [Provs -> ProvStates]
    BY <1>2, <2>4, <2>7, <2>9 DEF FilesTypes
  <2>12. FilesTypes'
    BY <1>1, <1>2, <2>11 DEF FilesTypes
  <2>13. ASSUME NEW q \in Provs
         PROVE  Matches(prov'[q]) /\ (q \in ShownProvs => UpToDate(prov'[q]))
    BY <2>9, <2>10 DEF FilesInv
  <2>14. ASSUME NEW q \in ShownProvs, prov'[q].waiting PROVE HasPlace(listings', q)
    <3>1. q # p /\ prov'[q] = prov[q]
      BY <1>2, <2>9, <2>10, <2>14
    <3>2. PICK b \in listings : b.prov = q
      BY <2>5, <2>14, <3>1 DEF FilesInv, HasPlace
    <3>3. b.trans # t
      BY <2>3, <3>1, <3>2
    <3> QED BY <1>1, <3>2, <3>3 DEF HasPlace
  <2> HIDE DEF p
  <2> QED BY <1>1, <1>2, <1>3, <2>5, <2>12, <2>13, <2>14 DEF FilesInv
<1> QED BY <1>4, <1>5

\* The watchdog: the provider waits for nothing and shows nothing.
LEMMA ListTimeoutStep == ASSUME FilesInv, NEW p \in Provs, ListTimeout(p) PROVE FilesInv'
<1> DEFINE x == [[prov[p] EXCEPT !.waiting = FALSE] EXCEPT !.rows = NoRows]
<1>1. UNCHANGED <<conn, shows, listings, wire, dialog>> /\ ShownProvs' = ShownProvs
  BY DEF ListTimeout, ShownProvs
<1>2. FilesTypes /\ prov[p] \in ProvStates /\ ShownProvs \subseteq Provs
  BY ShownShape DEF FilesInv, FilesTypes
<1>3. x \in ProvStates /\ x.rows = NoRows /\ x.waiting = FALSE
  BY <1>2, ProvForms DEF ProvStates
<1>4. prov' = [prov EXCEPT ![p] = x]
  <2>1. prov' = [prov EXCEPT ![p].waiting = FALSE, ![p].rows = NoRows]
    BY DEF ListTimeout
  <2> QED BY <1>2, <2>1 DEF FilesTypes
<1> HIDE DEF x
<1>5. prov' \in [Provs -> ProvStates] /\ prov'[p] = x /\ \A q \in Provs : q # p => prov'[q] = prov[q]
  BY <1>2, <1>3, <1>4 DEF FilesTypes
<1>6. ~x.rows.some /\ ~x.waiting /\ Matches(x) /\ UpToDate(x)
  BY <1>3, ProvForms DEF Matches, UpToDate
<1>7. FilesTypes'
  BY <1>1, <1>2, <1>5 DEF FilesTypes
<1>8. ASSUME NEW q \in Provs
      PROVE  /\ Matches(prov'[q]) /\ (q \in ShownProvs => UpToDate(prov'[q]))
             /\ prov'[q].waiting => prov[q].waiting
             /\ ~prov[q].rows.some => ~prov'[q].rows.some
  BY <1>5, <1>6 DEF FilesInv
<1> QED BY <1>1, <1>2, <1>7, <1>8 DEF FilesInv

\* A dialog is over a pane's provider.
LEMMA OpenDialogStep == ASSUME FilesInv, NEW s \in Panes, NEW kind, OpenDialog(s, kind) PROVE FilesInv'
<1>1. /\ UNCHANGED <<conn, shows, prov, listings, wire>> /\ ShownProvs' = ShownProvs
      /\ dialog'.prov = shows[s] /\ shows[s] # LocalSide
  BY DEF OpenDialog, ShownProvs
<1>2. dialog'.prov \in ShownProvs
  BY <1>1 DEF ShownProvs
<1>3. FilesTypes'
  BY <1>1 DEF FilesInv, FilesTypes
<1> QED BY <1>1, <1>2, <1>3 DEF FilesInv

\* ... and goes.
LEMMA CancelDialogStep == ASSUME FilesInv, CancelDialog PROVE FilesInv'
<1>1. /\ UNCHANGED <<conn, shows, prov, listings, wire>> /\ ShownProvs' = ShownProvs
      /\ dialog' = NoDialog /\ NoDialog' = NoDialog
  BY DEF CancelDialog, ShownProvs, NoDialog
<1>2. FilesTypes'
  BY <1>1 DEF FilesInv, FilesTypes
<1> QED BY <1>1, <1>2 DEF FilesInv

\* A change leaves the rows, out of date.
LEMMA AfterChangeIs ==
    ASSUME FilesInv, NEW P
    PROVE  /\ AfterChange(P) \in [Provs -> ProvStates]
           /\ \A p \in Provs : /\ Matches(AfterChange(P)[p])
                               /\ AfterChange(P)[p].rows.some = prov[p].rows.some
                               /\ p \notin P => AfterChange(P)[p] = prov[p]
<1>1. ASSUME NEW s \in ProvStates, Matches(s)
      PROVE  LET x == [s EXCEPT !.rows.newest = FALSE] IN
             x \in ProvStates /\ Matches(x) /\ x.rows.some = s.rows.some
  <2> DEFINE r == [s.rows EXCEPT !.newest = FALSE]
             x == [s EXCEPT !.rows.newest = FALSE]
  <2>1. s.rows \in RowStates
    BY DEF ProvStates
  <2>2. r \in RowStates /\ r.some = s.rows.some /\ r.of = s.rows.of
    <3>1. CASE s.rows = NoRows
      <4>1. NoRows \in [of : Dirs, newest : BOOLEAN, some : BOOLEAN] /\ NoRows.newest = FALSE
        BY FilesAssumption DEF NoRows
      <4>2. [NoRows EXCEPT !.newest = FALSE] = NoRows
        BY <4>1
      <4> QED BY <3>1, <4>2, ProvForms, Zenon
    <3>2. CASE s.rows \in [of : Dirs, newest : BOOLEAN, some : {TRUE}]
      BY <3>2 DEF RowStates
    <3> QED BY <2>1, <3>1, <3>2 DEF RowStates
  <2>3. x = [s EXCEPT !.rows = r]
    OBVIOUS
  <2> HIDE DEF r
  <2>4. x \in ProvStates /\ x.rows = r /\ x.path = s.path
    BY <2>2, <2>3 DEF ProvStates
  <2> HIDE DEF x
  <2>5. Matches(x)
    BY <1>1, <2>2, <2>4 DEF Matches
  <2> QED BY <2>2, <2>4, <2>5 DEF x
<1> DEFINE ch(s) == [s EXCEPT !.rows.newest = FALSE]
<1>2. \A p \in Provs : prov[p] \in ProvStates /\ Matches(prov[p])
  BY DEF FilesInv, FilesTypes
<1>3. \A s \in ProvStates : Matches(s) => ch(s) \in ProvStates /\ Matches(ch(s)) /\ ch(s).rows.some = s.rows.some
  BY <1>1
<1>4. AfterChange(P) = [p \in Provs |-> IF p \in P THEN ch(prov[p]) ELSE prov[p]]
  BY DEF AfterChange
<1> HIDE DEF ch
<1> QED BY <1>2, <1>3, <1>4

\* A change through shown providers and what it lists.
LEMMA ChangeStep ==
    ASSUME FilesInv, NEW P, P \subseteq ShownProvs, Shape(P), conn.up, ChangeThenList(P),
           UNCHANGED <<conn, shows>>, dialog' = NoDialog
    PROVE  FilesInv'
<1>1. FilesTypes /\ ShownProvs \subseteq Provs /\ ShownProvs' = ShownProvs /\ NoDialog' = NoDialog
  BY ShownShape DEF FilesInv, ShownProvs, NoDialog
<1> DEFINE now == AfterChange(P)
           to == [q \in P |-> prov[q].path]
<1>2. /\ now \in [Provs -> ProvStates]
      /\ \A p \in Provs : /\ Matches(now[p]) /\ now[p].rows.some = prov[p].rows.some
                          /\ p \notin P => now[p] = prov[p]
  BY AfterChangeIs
<1>3. CASE conn.ready
  <2>1. SendLists(to, now)
    BY <1>3 DEF ChangeThenList, Available
  <2>2. to \in [P -> Dirs] /\ P \subseteq Provs
    BY <1>1 DEF FilesTypes, ProvStates
  <2> HIDE DEF now, to
  <2>3. \A p \in ShownProvs : p \in P \/ (UpToDate(now[p]) /\ (now[p].waiting => HasPlace(listings, p)))
    <3> SUFFICES ASSUME NEW p \in ShownProvs, p \notin P
                 PROVE  UpToDate(now[p]) /\ (now[p].waiting => HasPlace(listings, p))
      OBVIOUS
    <3>1. now[p] = prov[p]
      BY <1>1, <1>2, Zenon
    <3>2. UpToDate(prov[p]) /\ (prov[p].waiting => HasPlace(listings, p))
      BY <1>3 DEF FilesInv
    <3> QED BY <3>1, <3>2, Zenon
  <2>4. /\ PlacesOK(listings, wire) /\ conn' \in [up : BOOLEAN, ready : BOOLEAN, made : 0..MaxLogons]
        /\ conn'.up /\ conn'.ready /\ shows' \in [Panes -> Provs \cup {LocalSide}]
    BY <1>1, <1>3 DEF FilesInv, FilesTypes
  <2>5. now \in [Provs -> ProvStates] /\ \A p \in Provs : Matches(now[p])
    BY <1>2, Zenon
  <2>6. \A p \in ShownProvs' : p \in P \/ (UpToDate(now[p]) /\ (now[p].waiting => HasPlace(listings, p)))
    BY <1>1, <2>3, Zenon
  <2>7. dialog' # NoDialog => dialog'.prov \in ShownProvs'
    OBVIOUS
  <2> QED BY <1>1, <2>1, <2>2, <2>4, <2>5, <2>6, <2>7, SentStep
<1>4. CASE ~conn.ready
  <2>1. prov' = now /\ listings' = Outdated(listings, P) /\ wire' = wire /\ listings = {}
    BY <1>4 DEF ChangeThenList, Available, FilesInv
  <2>2. listings' = {}
    BY <2>1 DEF Outdated
  <2> HIDE DEF now
  <2>3. FilesTypes'
    BY <1>1, <1>2, <2>1 DEF FilesTypes
  <2>4. PlacesOK({}, wire)
    BY DEF PlacesOK
  <2>5. \A p \in ShownProvs : ~now[p].rows.some
    <3> SUFFICES ASSUME NEW p \in ShownProvs PROVE ~now[p].rows.some
      OBVIOUS
    <3>1. now[p].rows.some = prov[p].rows.some
      BY <1>1, <1>2, Zenon
    <3> QED BY <1>4, <3>1 DEF FilesInv
  <2>6. \A p \in Provs : Matches(now[p])
    BY <1>2, Zenon
  <2> QED BY <1>1, <1>4, <2>1, <2>2, <2>3, <2>4, <2>5, <2>6 DEF FilesInv, UpToDate
<1> QED BY <1>3, <1>4

\* A dialog's change, through a provider that is shown.
LEMMA ConfirmStep == ASSUME FilesInv, Confirm PROVE FilesInv'
<1>1. /\ dialog # NoDialog /\ conn.up /\ dialog' = NoDialog /\ ChangeThenList({dialog.prov})
      /\ UNCHANGED <<conn, shows>>
  BY DEF Confirm
<1>2. {dialog.prov} \subseteq ShownProvs
  BY <1>1 DEF FilesInv
<1> QED BY <1>1, <1>2, ShapeOfOne, ChangeStep

\* A move between two panes.
LEMMA DragStep == ASSUME FilesInv, NEW s \in Panes, Drag(s) PROVE FilesInv'
<1>1. /\ dialog' = NoDialog /\ conn.up /\ ChangeThenList(ShownProvs) /\ UNCHANGED <<conn, shows>>
  BY DEF Drag
<1>2. ShownProvs # {}
  BY DEF Drag, ShownProvs
<1> QED BY <1>1, <1>2, ShownShape, ChangeStep DEF FilesInv

\* A pane swapped: a provider nothing holds, made anew.
LEMMA SwapStep == ASSUME FilesInv, NEW s \in Panes, Swap(s) PROVE FilesInv'
<1>1. FilesTypes /\ UNCHANGED <<conn, dialog>> /\ dialog = NoDialog /\ NoDialog' = NoDialog
  BY DEF FilesInv, Swap, NoDialog
<1>2. CASE /\ shows' = [shows EXCEPT ![s] = LocalSide]
           /\ UNCHANGED <<prov, listings, wire>>
  <2>1. shows' \in [Panes -> Provs \cup {LocalSide}] /\ ShownProvs' \subseteq ShownProvs
    BY <1>1, <1>2 DEF FilesTypes, ShownProvs
  <2>2. FilesTypes'
    BY <1>1, <1>2, <2>1 DEF FilesTypes
  <2> QED BY <1>1, <1>2, <2>1, <2>2 DEF FilesInv
<1>3. ASSUME NEW p \in Provs,
             LET fresh == [prov EXCEPT ![p] = NewProv]
             IN  /\ Unused(p)
                 /\ shows' = [shows EXCEPT ![s] = p]
                 /\ IF Available
                    THEN SendLists([q \in {p} |-> RootDir], fresh)
                    ELSE prov' = fresh /\ UNCHANGED <<listings, wire>>
      PROVE  FilesInv'
  <2> DEFINE fresh == [prov EXCEPT ![p] = NewProv]
             to == [q \in {p} |-> RootDir]
  <2>1. shows' \in [Panes -> Provs \cup {LocalSide}] /\ ShownProvs' \subseteq ShownProvs \cup {p}
    BY <1>1, <1>3 DEF FilesTypes, ShownProvs
  <2>2. /\ fresh \in [Provs -> ProvStates] /\ fresh[p] = NewProv
        /\ \A q \in Provs : q # p => fresh[q] = prov[q]
    BY <1>1, ProvForms DEF FilesTypes
  <2>3. ~NewProv.rows.some /\ ~NewProv.waiting
    BY ProvForms
  <2>4. \A q \in Provs : Matches(fresh[q])
    <3> HIDE DEF fresh
    <3> QED BY <2>2, <2>3 DEF FilesInv, Matches
  <2>5. ShownProvs \subseteq Provs
    BY <1>1, ShownShape
  <2>6. CASE Available
    <3>1. SendLists(to, fresh) /\ conn.ready /\ conn.up
      BY <1>3, <2>6 DEF Available
    <3>2. to \in [{p} -> Dirs] /\ {p} \subseteq Provs /\ Shape({p})
      BY FilesAssumption, ShapeOfOne
    <3> HIDE DEF fresh, to
    <3>3. \A q \in ShownProvs' : q \in {p} \/ (UpToDate(fresh[q]) /\ (fresh[q].waiting => HasPlace(listings, q)))
      BY <2>1, <2>2, <2>5, <3>1 DEF FilesInv
    <3>4. /\ PlacesOK(listings, wire) /\ conn' \in [up : BOOLEAN, ready : BOOLEAN, made : 0..MaxLogons]
          /\ conn'.up /\ conn'.ready
      BY <1>1, <3>1 DEF FilesInv, FilesTypes
    <3> QED BY <1>1, <2>1, <2>2, <2>4, <3>1, <3>2, <3>3, <3>4, SentStep
  <2>7. CASE ~Available
    <3>1. prov' = fresh /\ UNCHANGED <<listings, wire>>
      BY <1>3, <2>7
    <3>2. ~conn.ready
      BY <2>7 DEF Available, FilesInv
    <3> HIDE DEF fresh
    <3>3. FilesTypes'
      BY <1>1, <2>1, <2>2, <3>1 DEF FilesTypes
    <3>4. \A q \in ShownProvs' : ~fresh[q].rows.some
      BY <2>1, <2>2, <2>3, <2>5, <3>2 DEF FilesInv
    <3> QED BY <1>1, <2>4, <3>1, <3>2, <3>3, <3>4 DEF FilesInv, UpToDate
  <2> QED BY <2>6, <2>7
<1> QED BY <1>2, <1>3 DEF Swap

\* A connection, before its login.
LEMMA ConnectFilesStep == ASSUME FilesInv, ConnectFiles PROVE FilesInv'
<1>1. /\ conn' = [conn EXCEPT !.up = TRUE, !.made = @ + 1] /\ ~conn.up /\ conn.made < MaxLogons
      /\ UNCHANGED <<shows, prov, listings, wire, dialog>> /\ ShownProvs' = ShownProvs
      /\ NoDialog' = NoDialog
  BY DEF ConnectFiles, ShownProvs, NoDialog
<1>2. conn' \in [up : BOOLEAN, ready : BOOLEAN, made : 0..MaxLogons] /\ conn'.ready = conn.ready /\ conn'.up
  <2>1. conn \in [up : BOOLEAN, ready : BOOLEAN, made : 0..MaxLogons] /\ conn.made \in 0..MaxLogons
    BY DEF FilesInv, FilesTypes
  <2> DEFINE m == conn.made + 1
  <2>2. m \in 0..MaxLogons
    BY <1>1, <2>1, FilesAssumption
  <2>3. conn' = [conn EXCEPT !.up = TRUE, !.made = m]
    BY <1>1
  <2> HIDE DEF m
  <2> QED BY <2>1, <2>2, <2>3
<1>3. FilesTypes'
  BY <1>1, <1>2 DEF FilesInv, FilesTypes
<1> QED BY <1>1, <1>2, <1>3 DEF FilesInv

\* The login is through: every pane is listed.
LEMMA LoginReadyStep == ASSUME FilesInv, LoginReady PROVE FilesInv'
<1> DEFINE P == ShownProvs
           to == [p \in P |-> prov[p].path]
<1>1. /\ conn.up /\ ~conn.ready /\ conn' = [conn EXCEPT !.ready = TRUE]
      /\ UNCHANGED <<shows, dialog>> /\ ShownProvs' = P /\ NoDialog' = NoDialog
      /\ IF P = {} THEN UNCHANGED <<prov, listings, wire>> ELSE SendLists(to, prov)
  BY DEF LoginReady, ShownProvs, NoDialog
<1>2. conn' \in [up : BOOLEAN, ready : BOOLEAN, made : 0..MaxLogons] /\ conn'.ready /\ conn'.up
  BY <1>1 DEF FilesInv, FilesTypes
<1>3. FilesTypes /\ PlacesOK(listings, wire) /\ P \subseteq Provs
  BY ShownShape DEF FilesInv
<1>4. CASE P = {}
  <2>1. FilesTypes'
    BY <1>1, <1>2, <1>3, <1>4 DEF FilesTypes
  <2> QED BY <1>1, <1>2, <1>4, <2>1 DEF FilesInv
<1>5. CASE P # {}
  <2>1. SendLists(to, prov) /\ Shape(P)
    BY <1>1, <1>3, <1>5, ShownShape
  <2>2. to \in [P -> Dirs]
    BY <1>3 DEF FilesTypes, ProvStates
  <2>3. /\ prov \in [Provs -> ProvStates] /\ \A q \in Provs : Matches(prov[q])
        /\ shows' \in [Panes -> Provs \cup {LocalSide}]
        /\ dialog' # NoDialog => dialog'.prov \in ShownProvs'
    BY <1>1 DEF FilesInv, FilesTypes
  <2> HIDE DEF to, P
  <2> QED BY <1>1, <1>2, <1>3, <2>1, <2>2, <2>3, SentStep
<1> QED BY <1>4, <1>5

\* The connection goes, with every place and every shown row.
LEMMA DisconnectFilesStep == ASSUME FilesInv, DisconnectFiles PROVE FilesInv'
<1>1. /\ conn' = [conn EXCEPT !.up = FALSE, !.ready = FALSE] /\ listings' = {} /\ wire' = {}
      /\ prov' = [p \in Provs |-> IF p \in ShownProvs THEN ResetToRoot(prov[p]) ELSE prov[p]]
      /\ UNCHANGED <<shows, dialog>> /\ ShownProvs' = ShownProvs /\ NoDialog' = NoDialog
  BY DEF DisconnectFiles, ShownProvs, NoDialog
<1>2. FilesTypes /\ ShownProvs \subseteq Provs
  BY ShownShape DEF FilesInv
<1>3. conn' \in [up : BOOLEAN, ready : BOOLEAN, made : 0..MaxLogons] /\ ~conn'.ready
  BY <1>1, <1>2 DEF FilesTypes
<1>4. \A s \in ProvStates : ResetToRoot(s) \in ProvStates /\ ResetToRoot(s).rows = NoRows
  BY FilesAssumption, ProvForms DEF ResetToRoot, ProvStates
<1>5. \A p \in Provs : prov[p] \in ProvStates /\ Matches(prov[p])
  BY DEF FilesInv, FilesTypes
<1>6. prov' \in [Provs -> ProvStates]
  BY <1>1, <1>4, <1>5
<1>7. FilesTypes'
  BY <1>1, <1>2, <1>3, <1>6 DEF FilesTypes
<1>8. \A p \in Provs : /\ Matches(prov'[p])
                       /\ p \in ShownProvs => ~prov'[p].rows.some
  BY <1>1, <1>4, <1>5, ProvForms DEF Matches
<1>9. PlacesOK({}, {})
  BY DEF PlacesOK
<1>10. /\ \A p \in Provs : Matches(prov'[p])
       /\ \A p \in ShownProvs' : ~prov'[p].rows.some /\ UpToDate(prov'[p])
  BY <1>1, <1>2, <1>8 DEF UpToDate
<1>11. dialog' # NoDialog => dialog'.prov \in ShownProvs'
  BY <1>1 DEF FilesInv
<1>12. listings' = {} /\ PlacesOK(listings', wire')
  BY <1>1, <1>9, Zenon
<1> QED BY <1>3, <1>7, <1>10, <1>11, <1>12 DEF FilesInv

\* Every step keeps the invariant.
LEMMA FilesStep == FilesInv /\ [FilesNext]_filesVars => FilesInv'
<1> SUFFICES ASSUME FilesInv, [FilesNext]_filesVars PROVE FilesInv'
  OBVIOUS
<1>1. CASE UNCHANGED filesVars
  <2>1. UNCHANGED <<conn, shows, prov, listings, wire, dialog>> /\ ShownProvs' = ShownProvs
    BY <1>1 DEF filesVars, ShownProvs
  <2>2. FilesTypes'
    BY <2>1 DEF FilesInv, FilesTypes
  <2> QED BY <2>1, <2>2 DEF FilesInv
<1>2. ASSUME NEW s \in Panes, NEW d \in Dirs, Navigate(s, d) PROVE FilesInv'
  BY <1>2, NavigateStep DEF Navigate
<1> QED BY <1>1, <1>2, NavigateUpStep, OpenDialogStep, DragStep, SwapStep, AnswerListingStep,
           ListTimeoutStep, FileUpdateStep, CancelDialogStep, ConfirmStep, ConnectFilesStep,
           LoginReadyStep, DisconnectFilesStep DEF FilesNext

\* The invariant says what is checked.
LEMMA FilesInv_OK == FilesInv => FilesTypeOK /\ PanesAgree
<1> SUFFICES ASSUME FilesInv PROVE FilesTypeOK /\ PanesAgree
  OBVIOUS
<1>1. FilesTypeOK
  BY DEF FilesInv, FilesTypes, FilesTypeOK, PlacesOK, Listings, ProvStates, RowStates
<1>2. RowsMatchPath /\ ShownIsNewest
  BY DEF FilesInv, RowsMatchPath, ShownIsNewest, Matches, UpToDate
<1>3. WaitIsAnswerable
  BY DEF FilesInv, WaitIsAnswerable, HasPlace, Available
<1> QED BY <1>1, <1>2, <1>3 DEF PanesAgree

\* For any folders, providers, numbers in flight and connections: each pane lists the folder
\* it names, what it shows once it waits for nothing is its newest listing and no older
\* than its last change, and a pane that waits on a live connection has a place kept for
\* its answer (asked of recv/files.rs, files_remote_provider.c, files/dialogs.rs).
THEOREM PanesAlwaysAgree == FilesSpec => [](FilesTypeOK /\ PanesAgree)
<1>1. FilesInit => FilesInv
  BY FilesInit_Inv
<1>2. FilesInv /\ [FilesNext]_filesVars => FilesInv'
  BY FilesStep
<1>3. FilesInv => FilesTypeOK /\ PanesAgree
  BY FilesInv_OK
<1> QED BY <1>1, <1>2, <1>3, PTL DEF FilesSpec

-----------------------------------------------------------------------------
(* The chats.                                                                 *)

\* The messages that answer a join, or refuse it or the making of a chat.
Answering == {"joined", "failed"}
RepliesOf(d) == {i \in 1..Len(d) : d[i].op \in Answering}
JoinsOf(u) == {i \in 1..Len(u) : u[i].op = "join"}
Sequence(s) == \E S : s \in Seq(S)

\* A number is one request's, on its way up or on its way down.
Numbered(u, d, n) ==
    /\ \A i \in 1..Len(u) : u[i].trans \in Nat /\ u[i].trans < n
    /\ \A i \in RepliesOf(d) : d[i].trans \in Nat /\ d[i].trans < n
    /\ \A i, k \in 1..Len(u) : u[i].trans = u[k].trans => i = k
    /\ \A i, k \in RepliesOf(d) : d[i].trans = d[k].trans => i = k
    /\ \A i \in 1..Len(u), k \in RepliesOf(d) : u[i].trans # d[k].trans

\* A join on its way is remembered, for its chat, and what is remembered is on its way.
Owed(u, d, J) ==
    /\ \A i \in JoinsOf(u) : \E j \in J : j.trans = u[i].trans /\ j.cid = u[i].cid
    /\ \A i \in 1..Len(d) : d[i].op = "joined" => \E j \in J : j.trans = d[i].trans /\ j.cid = d[i].cid
    /\ \A j \in J : \/ \E i \in JoinsOf(u) : u[i].trans = j.trans
                    \/ \E i \in RepliesOf(d) : d[i].trans = j.trans

\* A join asked for before the chat was closed knows of it.
JoinsOK(J, n, shut) ==
    /\ J \subseteq [trans : Nat, cid : Cids, parted : BOOLEAN]
    /\ \A j \in J : j.trans < n /\ (j.trans < shut[j.cid] => j.parted)

\* The inductive invariant.
RosterInv ==
    /\ tnext \in Nat /\ shutAt \in [Cids -> Nat] /\ \A c \in Cids : shutAt[c] <= tnext
    /\ online \in BOOLEAN /\ Sequence(upward) /\ Sequence(down)
    /\ DOMAIN within = Cids \cup {0}
    /\ Numbered(upward, down, tnext)
    /\ Owed(upward, down, joins)
    /\ JoinsOK(joins, tnext, shutAt)
    /\ ~online => /\ upward = <<>> /\ down = <<>> /\ joins = {}
                  /\ \A c \in Cids \cup {0} : Me \notin within[c]

\* The first of a channel and the rest.
LEMMA SequenceFacts ==
    ASSUME NEW s, Sequence(s)
    PROVE  /\ Len(s) \in Nat
           /\ s # <<>> => /\ Sequence(Tail(s)) /\ Head(s) = s[1] /\ Len(s) >= 1
                          /\ Len(Tail(s)) = Len(s) - 1
                          /\ \A i \in 1..(Len(s) - 1) : Tail(s)[i] = s[i + 1]
<1>1. PICK S : s \in Seq(S)
  BY DEF Sequence
<1>2. s # <<>> => Tail(s) \in Seq(S)
  BY <1>1
<1> QED BY <1>1, <1>2 DEF Sequence

\* One more on a channel.
LEMMA AppendFacts ==
    ASSUME NEW s, Sequence(s), NEW e
    PROVE  /\ Sequence(Append(s, e)) /\ Len(Append(s, e)) = Len(s) + 1
           /\ Append(s, e)[Len(s) + 1] = e
           /\ \A i \in 1..Len(s) : Append(s, e)[i] = s[i]
<1>1. PICK S : s \in Seq(S)
  BY DEF Sequence
<1>2. s \in Seq(S \cup {e})
  BY <1>1, SeqMonotonic
<1>3. Append(s, e) \in Seq(S \cup {e})
  BY <1>2
<1> QED BY <1>2, <1>3 DEF Sequence

\* The second sequence goes on where the first ends.
GoesOn(d, e) ==
    /\ Sequence(e) /\ Len(e) >= Len(d)
    /\ \A i \in 1..Len(d) : e[i] = d[i]

\* ... said as the server says it.
LEMMA ConcatFacts ==
    ASSUME NEW s, Sequence(s), NEW x
    PROVE  /\ GoesOn(s, s \o <<x>>) /\ Len(s \o <<x>>) = Len(s) + 1
           /\ (s \o <<x>>)[Len(s) + 1] = x
<1>1. PICK S : s \in Seq(S)
  BY DEF Sequence
<1>2. s \in Seq(S \cup {x}) /\ <<x>> \in Seq(S \cup {x})
  BY <1>1, SeqMonotonic
<1>3. s \o <<x>> \in Seq(S \cup {x})
  BY <1>2
<1>4. Len(s) \in Nat /\ Len(<<x>>) = 1 /\ <<x>>[1] = x
  BY <1>2
<1>5. /\ Len(s \o <<x>>) = Len(s) + 1 /\ (s \o <<x>>)[Len(s) + 1] = x
      /\ \A i \in 1..Len(s) : (s \o <<x>>)[i] = s[i]
  BY <1>2, <1>4
<1> QED BY <1>3, <1>4, <1>5 DEF Sequence, GoesOn

\* A message taken: no more is remembered for it, and all else is.
LEMMA DownTail ==
    ASSUME NEW u, NEW d, NEW n, NEW J, NEW K, Sequence(d), d # <<>>, Numbered(u, d, n), Owed(u, d, J),
           K = {j \in J : ~(d[1].op \in Answering /\ j.trans = d[1].trans)}
    PROVE  Numbered(u, Tail(d), n) /\ Owed(u, Tail(d), K)
<1> DEFINE e == Tail(d)
           l == Len(d)
<1>1. /\ l \in Nat /\ l >= 1 /\ Len(e) = l - 1 /\ \A i \in 1..(l - 1) : e[i] = d[i + 1]
  BY SequenceFacts
<1> HIDE DEF e
<1>2. \A i \in 1..(l - 1) : i + 1 \in 1..l /\ i + 1 # 1 /\ e[i] = d[i + 1]
  BY <1>1
<1>3. ASSUME NEW i \in RepliesOf(e) PROVE i + 1 \in RepliesOf(d) /\ i + 1 # 1 /\ e[i] = d[i + 1] /\ i \in Nat
  BY <1>1, <1>2 DEF RepliesOf
<1>4. 1 \in 1..l
  BY <1>1
<1>5. ASSUME NEW k \in RepliesOf(d), k # 1 PROVE k - 1 \in RepliesOf(e) /\ e[k - 1] = d[k]
  <2>1. k \in 1..l /\ d[k].op \in Answering
    BY DEF RepliesOf
  <2>2. k - 1 \in 1..(l - 1) /\ (k - 1) + 1 = k
    BY <1>1, <1>5, <2>1
  <2>3. e[k - 1] = d[k]
    BY <1>1, <2>2
  <2> QED BY <1>1, <2>1, <2>2, <2>3 DEF RepliesOf
<1>6. Numbered(u, e, n)
  <2>1. \A i \in RepliesOf(e) : e[i].trans \in Nat /\ e[i].trans < n
    BY <1>3 DEF Numbered
  <2>2. ASSUME NEW i \in RepliesOf(e), NEW k \in RepliesOf(e), e[i].trans = e[k].trans PROVE i = k
    <3>1. i + 1 = k + 1
      BY <1>3, <2>2 DEF Numbered
    <3> QED BY <1>3, <3>1
  <2>3. \A i \in 1..Len(u), k \in RepliesOf(e) : u[i].trans # e[k].trans
    BY <1>3 DEF Numbered
  <2> QED BY <2>1, <2>2, <2>3 DEF Numbered
<1>7. Owed(u, e, K)
  <2>1. ASSUME NEW i \in JoinsOf(u) PROVE \E j \in K : j.trans = u[i].trans /\ j.cid = u[i].cid
    <3>1. PICK j \in J : j.trans = u[i].trans /\ j.cid = u[i].cid
      BY DEF Owed
    <3>2. ~(d[1].op \in Answering /\ j.trans = d[1].trans)
      BY <1>4, <3>1 DEF Numbered, JoinsOf, RepliesOf
    <3> QED BY <3>1, <3>2
  <2>2. ASSUME NEW i \in 1..Len(e), e[i].op = "joined"
        PROVE  \E j \in K : j.trans = e[i].trans /\ j.cid = e[i].cid
    <3>1. i + 1 \in 1..l /\ i + 1 # 1 /\ e[i] = d[i + 1]
      BY <1>1, <1>2
    <3>2. PICK j \in J : j.trans = d[i + 1].trans /\ j.cid = d[i + 1].cid
      BY <2>2, <3>1 DEF Owed
    <3>3. i + 1 \in RepliesOf(d)
      BY <2>2, <3>1 DEF RepliesOf, Answering
    <3>4. d[1].op \in Answering => 1 \in RepliesOf(d)
      BY <1>4 DEF RepliesOf
    <3>5. ~(d[1].op \in Answering /\ j.trans = d[1].trans)
      BY <3>1, <3>2, <3>3, <3>4 DEF Numbered
    <3> QED BY <3>1, <3>2, <3>5
  <2>3. ASSUME NEW j \in K
        PROVE  \/ \E i \in JoinsOf(u) : u[i].trans = j.trans
               \/ \E i \in RepliesOf(e) : e[i].trans = j.trans
    <3>1. CASE \E i \in JoinsOf(u) : u[i].trans = j.trans
      BY <3>1
    <3>2. CASE \E i \in RepliesOf(d) : d[i].trans = j.trans
      <4>1. PICK i \in RepliesOf(d) : d[i].trans = j.trans
        BY <3>2
      <4>2. i # 1
        BY <4>1 DEF RepliesOf
      <4> QED BY <1>5, <4>1, <4>2
    <3> QED BY <3>1, <3>2 DEF Owed
  <2> QED BY <2>1, <2>2, <2>3 DEF Owed
<1> QED BY <1>6, <1>7 DEF e

\* What is remembered once the request r with the number n is sent.
Remembers(J, K, r, n) ==
    /\ \A j \in J : \E k \in K : k.trans = j.trans /\ k.cid = j.cid
    /\ \A k \in K : (\E j \in J : k.trans = j.trans) \/ (r.op = "join" /\ k.trans = n)
    /\ r.op = "join" => \E k \in K : k.trans = n /\ k.cid = r.cid

\* A request sent: under the next number, and remembered when it is a join.
LEMMA UpAppend ==
    ASSUME NEW u, NEW d, NEW n \in Nat, NEW J, NEW K, NEW r, Sequence(u), Numbered(u, d, n), Owed(u, d, J),
           r.trans = n, Remembers(J, K, r, n)
    PROVE  Numbered(Append(u, r), d, n + 1) /\ Owed(Append(u, r), d, K)
<1> DEFINE v == Append(u, r)
           l == Len(u)
<1>1. l \in Nat /\ Len(v) = l + 1 /\ v[l + 1] = r /\ \A i \in 1..l : v[i] = u[i]
  BY SequenceFacts, AppendFacts
<1> HIDE DEF v
<1>2. \A i \in 1..(l + 1) : i = l + 1 \/ (i \in 1..l /\ v[i] = u[i])
  BY <1>1
<1>3. /\ \A i \in 1..l : u[i].trans \in Nat /\ u[i].trans < n /\ u[i].trans < n + 1 /\ u[i].trans # n
      /\ \A i \in RepliesOf(d) : d[i].trans \in Nat /\ d[i].trans < n + 1 /\ d[i].trans # n
  BY DEF Numbered
<1>4. Numbered(v, d, n + 1)
  <2>1. \A i \in 1..(l + 1) : v[i].trans \in Nat /\ v[i].trans < n + 1
    BY <1>1, <1>2, <1>3
  <2>2. \A i, k \in 1..(l + 1) : v[i].trans = v[k].trans => i = k
    BY <1>1, <1>2, <1>3 DEF Numbered
  <2>3. \A i \in 1..(l + 1), k \in RepliesOf(d) : v[i].trans # d[k].trans
    BY <1>1, <1>2, <1>3 DEF Numbered
  <2> QED BY <1>1, <1>3, <2>1, <2>2, <2>3 DEF Numbered
<1>5. Owed(v, d, K)
  <2>1. ASSUME NEW i \in JoinsOf(v) PROVE \E k \in K : k.trans = v[i].trans /\ k.cid = v[i].cid
    <3>1. i \in 1..(l + 1) /\ v[i].op = "join"
      BY <1>1 DEF JoinsOf
    <3>2. CASE i = l + 1
      BY <1>1, <3>1, <3>2 DEF Remembers
    <3>3. CASE i \in 1..l /\ v[i] = u[i]
      <4>1. PICK j \in J : j.trans = u[i].trans /\ j.cid = u[i].cid
        BY <3>1, <3>3 DEF Owed, JoinsOf
      <4> QED BY <3>3, <4>1 DEF Remembers
    <3> QED BY <1>2, <3>1, <3>2, <3>3
  <2>2. ASSUME NEW i \in 1..Len(d), d[i].op = "joined"
        PROVE  \E k \in K : k.trans = d[i].trans /\ k.cid = d[i].cid
    <3>1. PICK j \in J : j.trans = d[i].trans /\ j.cid = d[i].cid
      BY <2>2 DEF Owed
    <3> QED BY <3>1 DEF Remembers
  <2>3. ASSUME NEW k \in K
        PROVE  \/ \E i \in JoinsOf(v) : v[i].trans = k.trans
               \/ \E i \in RepliesOf(d) : d[i].trans = k.trans
    <3>1. CASE r.op = "join" /\ k.trans = n
      <4>1. l + 1 \in JoinsOf(v)
        BY <1>1, <3>1 DEF JoinsOf
      <4> QED BY <1>1, <3>1, <4>1
    <3>2. CASE \E j \in J : k.trans = j.trans
      <4>1. PICK j \in J : k.trans = j.trans
        BY <3>2
      <4>2. \A i \in JoinsOf(u) : i \in JoinsOf(v) /\ v[i] = u[i]
        BY <1>1 DEF JoinsOf
      <4> QED BY <4>1, <4>2 DEF Owed
    <3> QED BY <3>1, <3>2 DEF Remembers
  <2> QED BY <2>1, <2>2, <2>3 DEF Owed
<1> QED BY <1>4, <1>5 DEF v

\* A message that answers nothing.
LEMMA QuietMore ==
    ASSUME NEW u, NEW d, NEW e, NEW n, NEW J, Sequence(d), GoesOn(d, e), Numbered(u, d, n), Owed(u, d, J),
           \A i \in 1..Len(e) : i > Len(d) => e[i].op \notin Answering
    PROVE  Numbered(u, e, n) /\ Owed(u, e, J)
<1>1. Len(d) \in Nat /\ Len(e) \in Nat /\ Len(e) >= Len(d) /\ \A i \in 1..Len(d) : e[i] = d[i]
  BY SequenceFacts DEF GoesOn
<1>2. RepliesOf(e) = RepliesOf(d) /\ \A i \in RepliesOf(d) : e[i] = d[i]
  BY <1>1 DEF RepliesOf
<1>3. \A i \in 1..Len(e) : e[i].op = "joined" => i \in 1..Len(d) /\ e[i] = d[i]
  BY <1>1 DEF Answering
<1>4. Numbered(u, e, n)
  BY <1>2 DEF Numbered
<1>5. Owed(u, e, J)
  BY <1>2, <1>3 DEF Owed
<1> QED BY <1>4, <1>5

\* A request taken and what is said to it.
LEMMA Served ==
    ASSUME NEW u, NEW d, NEW e, NEW n, NEW J, Sequence(u), u # <<>>, Sequence(d), GoesOn(d, e),
           Numbered(u, d, n), Owed(u, d, J),
           \A i \in 1..Len(e) : i > Len(d) /\ e[i].op \in Answering =>
               /\ i = Len(d) + 1 /\ e[i].trans = u[1].trans
               /\ e[i].op = "joined" => u[1].op = "join" /\ e[i].cid = u[1].cid,
           u[1].op = "join" => Len(d) + 1 \in RepliesOf(e)
    PROVE  Numbered(Tail(u), e, n) /\ Owed(Tail(u), e, J)
<1> DEFINE v == Tail(u)
           l == Len(u)
           m == Len(d)
<1>1. /\ l \in Nat /\ l >= 1 /\ Len(v) = l - 1 /\ \A i \in 1..(l - 1) : v[i] = u[i + 1]
  BY SequenceFacts
<1>2. m \in Nat /\ Len(e) \in Nat /\ Len(e) >= m /\ \A i \in 1..m : e[i] = d[i]
  BY SequenceFacts DEF GoesOn
<1> HIDE DEF v
<1>3. 1 \in 1..l /\ \A i \in 1..(l - 1) : i + 1 \in 1..l /\ i + 1 # 1 /\ v[i] = u[i + 1]
  BY <1>1
<1>4. ASSUME NEW i \in RepliesOf(e)
      PROVE  \/ i \in RepliesOf(d) /\ e[i] = d[i]
             \/ /\ i = m + 1 /\ e[i].trans = u[1].trans
                /\ e[i].op = "joined" => u[1].op = "join" /\ e[i].cid = u[1].cid
  <2>1. i \in 1..Len(e) /\ e[i].op \in Answering
    BY DEF RepliesOf
  <2>2. CASE i > m
    BY <2>1, <2>2
  <2>3. CASE ~(i > m)
    <3>1. i \in 1..m
      BY <1>2, <2>1, <2>3
    <3> QED BY <1>2, <2>1, <3>1 DEF RepliesOf
  <2> QED BY <2>2, <2>3
<1>5. \A i \in RepliesOf(d) : i \in RepliesOf(e) /\ e[i] = d[i]
  BY <1>2 DEF RepliesOf
<1>6. Numbered(v, e, n)
  <2>1. \A i \in 1..(l - 1) : v[i].trans \in Nat /\ v[i].trans < n
    BY <1>3 DEF Numbered
  <2>2. \A i \in RepliesOf(e) : e[i].trans \in Nat /\ e[i].trans < n
    BY <1>3, <1>4 DEF Numbered
  <2>3. ASSUME NEW i \in 1..(l - 1), NEW k \in 1..(l - 1), v[i].trans = v[k].trans PROVE i = k
    <3>1. i + 1 = k + 1
      BY <1>3, <2>3 DEF Numbered
    <3> QED BY <3>1
  <2>4. \A i, k \in RepliesOf(e) : e[i].trans = e[k].trans => i = k
    BY <1>3, <1>4 DEF Numbered
  <2>5. \A i \in 1..(l - 1), k \in RepliesOf(e) : v[i].trans # e[k].trans
    <3> SUFFICES ASSUME NEW i \in 1..(l - 1), NEW k \in RepliesOf(e) PROVE v[i].trans # e[k].trans
      OBVIOUS
    <3>1. u[i + 1].trans # u[1].trans
      BY <1>3 DEF Numbered
    <3> QED BY <1>3, <1>4, <3>1 DEF Numbered
  <2> QED BY <1>1, <2>1, <2>2, <2>3, <2>4, <2>5 DEF Numbered
<1>7. Owed(v, e, J)
  <2>1. ASSUME NEW i \in JoinsOf(v) PROVE \E j \in J : j.trans = v[i].trans /\ j.cid = v[i].cid
    <3>1. i \in 1..(l - 1) /\ v[i].op = "join"
      BY <1>1 DEF JoinsOf
    <3>2. i + 1 \in JoinsOf(u) /\ v[i] = u[i + 1]
      BY <1>3, <3>1 DEF JoinsOf
    <3> QED BY <3>2 DEF Owed
  <2>2. ASSUME NEW i \in 1..Len(e), e[i].op = "joined"
        PROVE  \E j \in J : j.trans = e[i].trans /\ j.cid = e[i].cid
    <3>1. i \in RepliesOf(e)
      BY <2>2 DEF RepliesOf, Answering
    <3>2. CASE i \in RepliesOf(d) /\ e[i] = d[i]
      BY <2>2, <3>2 DEF Owed, RepliesOf
    <3>3. CASE e[i].trans = u[1].trans /\ u[1].op = "join" /\ e[i].cid = u[1].cid
      BY <1>3, <3>3 DEF Owed, JoinsOf
    <3> QED BY <1>4, <2>2, <3>1, <3>2, <3>3
  <2>3. ASSUME NEW j \in J
        PROVE  \/ \E i \in JoinsOf(v) : v[i].trans = j.trans
               \/ \E i \in RepliesOf(e) : e[i].trans = j.trans
    <3>1. CASE \E i \in JoinsOf(u) : u[i].trans = j.trans
      <4>1. PICK i \in JoinsOf(u) : u[i].trans = j.trans
        BY <3>1
      <4>2. CASE i = 1
        <5>1. m + 1 \in RepliesOf(e)
          BY <4>1, <4>2 DEF JoinsOf
        <5>2. e[m + 1].trans = u[1].trans
          <6>1. m + 1 \notin RepliesOf(d)
            BY <1>2 DEF RepliesOf
          <6> QED BY <1>4, <5>1, <6>1
        <5> QED BY <4>1, <4>2, <5>1, <5>2
      <4>3. CASE i # 1
        <5>1. i \in 1..l /\ u[i].op = "join"
          BY DEF JoinsOf
        <5>2. i - 1 \in 1..(l - 1) /\ (i - 1) + 1 = i
          BY <1>1, <4>3, <5>1
        <5>3. v[i - 1] = u[i]
          BY <1>3, <5>2
        <5>4. i - 1 \in JoinsOf(v)
          BY <1>1, <5>1, <5>2, <5>3 DEF JoinsOf
        <5> QED BY <4>1, <5>3, <5>4
      <4> QED BY <4>2, <4>3
    <3>2. CASE \E i \in RepliesOf(d) : d[i].trans = j.trans
      BY <1>5, <3>2
    <3> QED BY <3>1, <3>2 DEF Owed
  <2> QED BY <2>1, <2>2, <2>3 DEF Owed
<1> QED BY <1>6, <1>7 DEF v

\* At the start nothing is on its way.
LEMMA RosterInit_Inv == RosterInit => RosterInv
<1> SUFFICES ASSUME RosterInit PROVE RosterInv
  OBVIOUS
<1>1. Sequence(<<>>) /\ Len(<<>>) = 0
  <2>1. <<>> \in Seq({})
    OBVIOUS
  <2> QED BY <2>1 DEF Sequence
<1>2. upward = <<>> /\ down = <<>> /\ joins = {} /\ tnext = 1 /\ online = FALSE /\ shutAt = [c \in Cids |-> 0]
  BY DEF RosterInit
<1>3. Numbered(<<>>, <<>>, 1) /\ Owed(<<>>, <<>>, {})
  BY <1>1 DEF Numbered, Owed, RepliesOf, JoinsOf
<1>4. JoinsOK({}, 1, shutAt)
  BY DEF JoinsOK
<1>5. DOMAIN within = Cids \cup {0} /\ \A c \in Cids \cup {0} : Me \notin within[c]
  BY RosterAssumption DEF RosterInit
<1>6. tnext \in Nat /\ shutAt \in [Cids -> Nat] /\ \A c \in Cids : shutAt[c] <= tnext
  BY <1>2
<1> QED BY <1>1, <1>2, <1>3, <1>4, <1>5, <1>6 DEF RosterInv

\* A message taken by the client.
LEMMA ReceiveStep == ASSUME RosterInv, Receive PROVE RosterInv'
<1>1. /\ down # <<>> /\ down' = Tail(down)
      /\ UNCHANGED <<online, tnext, shutAt, upward, within>>
  BY DEF Receive, hostVars
<1>2. online
  BY <1>1 DEF RosterInv
<1>3. Sequence(down) /\ Head(down) = down[1] /\ Sequence(Tail(down))
  BY <1>1, SequenceFacts DEF RosterInv
<1>4. joins' = {j \in joins : ~(down[1].op \in Answering /\ j.trans = down[1].trans)}
  <2> DEFINE m == Head(down)
  <2>1. \/ Changed(m) \/ Left(m) \/ ListCame(m) \/ Joined(m) \/ Created(m) \/ Failed(m) \/ Invited(m)
    BY DEF Receive
  <2>2. m = down[1]
    BY <1>3
  <2> HIDE DEF m
  <2>3. CASE Joined(m) \/ Failed(m)
    <3>1. m.op \in Answering /\ joins' = {j \in joins : j.trans # m.trans}
      BY <2>3 DEF Joined, Failed, Answering
    <3> QED BY <2>2, <3>1
  <2>4. CASE Changed(m) \/ Left(m) \/ ListCame(m) \/ Created(m) \/ Invited(m)
    <3>1. m.op \notin Answering /\ joins' = joins
      BY <2>4 DEF Changed, Left, ListCame, Created, Invited, Answering
    <3> QED BY <2>2, <3>1
  <2> QED BY <2>1, <2>3, <2>4
<1>5. Numbered(upward, Tail(down), tnext) /\ Owed(upward, Tail(down), joins')
  BY <1>1, <1>3, <1>4, DownTail DEF RosterInv
<1>6. JoinsOK(joins', tnext, shutAt)
  BY <1>4 DEF RosterInv, JoinsOK
<1> QED BY <1>1, <1>2, <1>3, <1>5, <1>6 DEF RosterInv

\* A request that is no join.
LEMMA AskStep ==
    ASSUME RosterInv, online, NEW r, r.trans = tnext, r.op # "join",
           upward' = Append(upward, r), tnext' = tnext + 1, joins' = joins, shutAt' = shutAt,
           UNCHANGED <<online, down, within>>
    PROVE  RosterInv'
<1>1. Sequence(upward) /\ tnext \in Nat /\ Sequence(upward')
  BY AppendFacts DEF RosterInv
<1>2. Numbered(upward', down, tnext + 1) /\ Owed(upward', down, joins)
  <2>1. Remembers(joins, joins, r, tnext)
    BY DEF Remembers
  <2> QED BY <1>1, <2>1, UpAppend DEF RosterInv
<1>3. /\ JoinsOK(joins, tnext + 1, shutAt) /\ shutAt \in [Cids -> Nat]
      /\ \A c \in Cids : shutAt[c] <= tnext + 1
  BY <1>1 DEF RosterInv, JoinsOK
<1>4. tnext + 1 \in Nat
  BY <1>1
<1> QED BY <1>1, <1>2, <1>3, <1>4 DEF RosterInv

\* A chat asked for.
LEMMA ChatUserStep == ASSUME RosterInv, NEW op \in {"create", "createself"}, ChatUser(op) PROVE RosterInv'
<1> DEFINE r == Request(op, 0)
<1>1. r.trans = tnext /\ r.op # "join"
  BY DEF Request
<1>2. /\ online /\ upward' = Append(upward, r) /\ tnext' = tnext + 1 /\ joins' = joins /\ shutAt' = shutAt
      /\ UNCHANGED <<online, down, within>>
  BY DEF ChatUser, hostVars
<1> HIDE DEF r
<1> QED BY <1>1, <1>2, AskStep

\* An invitation declined.
LEMMA RejectChatStep == ASSUME RosterInv, NEW c \in Cids, RejectChat(c) PROVE RosterInv'
<1> DEFINE r == Request("decline", c)
<1>1. r.trans = tnext /\ r.op # "join"
  BY DEF Request
<1>2. /\ online /\ upward' = Append(upward, r) /\ tnext' = tnext + 1 /\ joins' = joins /\ shutAt' = shutAt
      /\ UNCHANGED <<online, down, within>>
  BY DEF RejectChat, hostVars
<1> HIDE DEF r
<1> QED BY <1>1, <1>2, AskStep

\* A join is remembered under its number, and is newer than any closing.
LEMMA ChatJoinStep == ASSUME RosterInv, NEW c \in Cids, ChatJoin(c) PROVE RosterInv'
<1> DEFINE r == Request("join", c)
           new == [trans |-> tnext, cid |-> c, parted |-> FALSE]
<1>1. r.trans = tnext /\ r.op = "join" /\ r.cid = c
  BY DEF Request
<1>2. /\ online /\ upward' = Append(upward, r) /\ tnext' = tnext + 1 /\ joins' = joins \cup {new}
      /\ shutAt' = shutAt /\ UNCHANGED <<online, down, within>>
  BY DEF ChatJoin, hostVars
<1>3. Sequence(upward) /\ tnext \in Nat /\ shutAt[c] <= tnext /\ shutAt[c] \in Nat
  BY DEF RosterInv
<1>4. new \in [trans : Nat, cid : Cids, parted : BOOLEAN] /\ new.trans = tnext /\ new.cid = c
  BY <1>3
<1> HIDE DEF r, new
<1>5. Sequence(upward')
  BY <1>2, <1>3, AppendFacts
<1>6. /\ \A j \in joins : \E k \in joins' : k.trans = j.trans /\ k.cid = j.cid
      /\ \A k \in joins' : (\E j \in joins : k.trans = j.trans) \/ (r.op = "join" /\ k.trans = tnext)
      /\ \E k \in joins' : k.trans = tnext /\ k.cid = r.cid
  BY <1>1, <1>2, <1>4
<1>7. Numbered(upward', down, tnext + 1) /\ Owed(upward', down, joins')
  <2>1. Numbered(upward, down, tnext) /\ Owed(upward, down, joins)
    BY DEF RosterInv
  <2> DEFINE J == joins'
  <2>2. Remembers(joins, J, r, tnext)
    BY <1>1, <1>6 DEF Remembers
  <2> HIDE DEF J
  <2>3. Numbered(Append(upward, r), down, tnext + 1) /\ Owed(Append(upward, r), down, J)
    BY <1>1, <1>3, <2>1, <2>2, UpAppend, Zenon
  <2>4. upward' = Append(upward, r)
    BY <1>2
  <2> QED BY <2>3, <2>4 DEF J
<1>8. JoinsOK(joins', tnext + 1, shutAt)
  <2>1. joins \subseteq [trans : Nat, cid : Cids, parted : BOOLEAN]
    BY DEF RosterInv, JoinsOK
  <2>2. \A j \in joins : j.trans < tnext + 1 /\ (j.trans < shutAt[j.cid] => j.parted)
    BY <1>3, <2>1 DEF RosterInv, JoinsOK
  <2>3. new.trans < tnext + 1 /\ ~(new.trans < shutAt[new.cid])
    BY <1>3, <1>4
  <2> QED BY <1>2, <1>4, <2>1, <2>2, <2>3 DEF JoinsOK
<1>9. tnext + 1 \in Nat /\ shutAt \in [Cids -> Nat] /\ \A d \in Cids : shutAt[d] <= tnext + 1
  BY <1>3 DEF RosterInv
<1> QED BY <1>2, <1>5, <1>7, <1>8, <1>9 DEF RosterInv

\* Closing a chat's tab marks every join of it that is on its way.
LEMMA CloseTabStep == ASSUME RosterInv, NEW c \in Cids, CloseTab(c) PROVE RosterInv'
<1> DEFINE r == Request("part", c)
           mark(j) == [j EXCEPT !.parted = @ \/ j.cid = c]
<1>1. r.trans = tnext /\ r.op # "join"
  BY DEF Request
<1>2. /\ online /\ upward' = Append(upward, r) /\ tnext' = tnext + 1 /\ joins' = {mark(j) : j \in joins}
      /\ shutAt' = [shutAt EXCEPT ![c] = tnext] /\ UNCHANGED <<online, down, within>>
  BY DEF CloseTab, JoinParted, hostVars
<1>3. Sequence(upward) /\ tnext \in Nat /\ shutAt \in [Cids -> Nat] /\ \A d \in Cids : shutAt[d] <= tnext
  BY DEF RosterInv
<1>4. ASSUME NEW j \in joins
      PROVE  /\ mark(j) \in [trans : Nat, cid : Cids, parted : BOOLEAN]
             /\ mark(j).trans = j.trans /\ mark(j).cid = j.cid
             /\ mark(j).parted <=> j.parted \/ j.cid = c
             /\ j.trans \in Nat /\ j.trans < tnext /\ j.cid \in Cids
             /\ j.trans < shutAt[j.cid] => j.parted
  <2>1. j \in [trans : Nat, cid : Cids, parted : BOOLEAN] /\ j.trans < tnext /\ (j.trans < shutAt[j.cid] => j.parted)
    BY DEF RosterInv, JoinsOK
  <2> DEFINE b == j.parted \/ j.cid = c
  <2>2. mark(j) = [j EXCEPT !.parted = b] /\ b \in BOOLEAN
    BY <2>1
  <2> HIDE DEF b, mark
  <2>3. mark(j) \in [trans : Nat, cid : Cids, parted : BOOLEAN] /\ mark(j).trans = j.trans /\ mark(j).cid = j.cid
        /\ mark(j).parted = b
    BY <2>1, <2>2
  <2> QED BY <2>1, <2>3 DEF b
<1> HIDE DEF r, mark
<1>5. Sequence(upward')
  BY <1>2, <1>3, AppendFacts
<1>6. /\ \A j \in joins : \E k \in joins' : k.trans = j.trans /\ k.cid = j.cid
      /\ \A k \in joins' : (\E j \in joins : k.trans = j.trans) \/ (r.op = "join" /\ k.trans = tnext)
  BY <1>2, <1>4
<1>7. Numbered(upward', down, tnext + 1) /\ Owed(upward', down, joins')
  <2>1. Numbered(upward, down, tnext) /\ Owed(upward, down, joins)
    BY DEF RosterInv
  <2> DEFINE J == joins'
  <2>2. Remembers(joins, J, r, tnext)
    BY <1>1, <1>6 DEF Remembers
  <2> HIDE DEF J
  <2>3. Numbered(Append(upward, r), down, tnext + 1) /\ Owed(Append(upward, r), down, J)
    BY <1>1, <1>3, <2>1, <2>2, UpAppend, Zenon
  <2>4. upward' = Append(upward, r)
    BY <1>2
  <2> QED BY <2>3, <2>4 DEF J
<1>8. /\ shutAt' \in [Cids -> Nat] /\ shutAt'[c] = tnext
      /\ \A d \in Cids : d # c => shutAt'[d] = shutAt[d]
  BY <1>2, <1>3
<1>9. \A d \in Cids : shutAt'[d] <= tnext + 1
  <2> SUFFICES ASSUME NEW d \in Cids PROVE shutAt'[d] <= tnext + 1
    OBVIOUS
  <2>1. shutAt[d] <= tnext /\ shutAt[d] \in Nat /\ (shutAt'[d] = tnext \/ shutAt'[d] = shutAt[d])
    BY <1>3, <1>8
  <2> QED BY <1>3, <2>1
<1>10. JoinsOK(joins', tnext + 1, shutAt')
  <2>1. ASSUME NEW k \in joins'
        PROVE  /\ k \in [trans : Nat, cid : Cids, parted : BOOLEAN] /\ k.trans < tnext + 1
               /\ k.trans < shutAt'[k.cid] => k.parted
    <3>1. PICK j \in joins : k = mark(j)
      BY <1>2
    <3>2. k.trans < tnext + 1
      BY <1>3, <1>4, <3>1
    <3>3. k.trans < shutAt'[k.cid] => k.parted
      BY <1>4, <1>8, <3>1
    <3> QED BY <1>4, <3>1, <3>2, <3>3
  <2> QED BY <2>1 DEF JoinsOK
<1>11. tnext + 1 \in Nat
  BY <1>3
<1> QED BY <1>2, <1>5, <1>7, <1>8, <1>9, <1>10, <1>11 DEF RosterInv

\* The connection goes with all that was on its way.
LEMMA CloseLinkStep == ASSUME RosterInv, CloseLink PROVE RosterInv'
<1>1. Sequence(<<>>) /\ Len(<<>>) = 0
  <2>1. <<>> \in Seq({})
    OBVIOUS
  <2> QED BY <2>1 DEF Sequence
<1>2. /\ upward' = <<>> /\ down' = <<>> /\ joins' = {} /\ tnext' = 1 /\ online' = FALSE
      /\ shutAt' = [c \in Cids |-> 0] /\ within' = [c \in DOMAIN within |-> within[c] \ {Me}]
  BY DEF CloseLink, Forget
<1>3. Numbered(<<>>, <<>>, 1) /\ Owed(<<>>, <<>>, {})
  BY <1>1 DEF Numbered, Owed, RepliesOf, JoinsOf
<1>4. JoinsOK({}, 1, shutAt')
  BY DEF JoinsOK
<1>5. DOMAIN within' = Cids \cup {0} /\ \A c \in Cids \cup {0} : Me \notin within'[c]
  BY <1>2 DEF RosterInv
<1>6. tnext' \in Nat /\ shutAt' \in [Cids -> Nat] /\ \A c \in Cids : shutAt'[c] <= tnext'
  BY <1>2
<1> QED BY <1>1, <1>2, <1>3, <1>4, <1>5, <1>6 DEF RosterInv

\* A new connection has remembered nothing of the old one.
LEMMA OpenLinkStep == ASSUME RosterInv, OpenLink PROVE RosterInv'
<1> DEFINE r == Request("list", 0)
           m == [op |-> "change", cid |-> 0, uid |-> Me, name |-> called[Me]]
<1>1. /\ ~online /\ online' = TRUE /\ upward' = <<r>> /\ tnext' = tnext + 1
      /\ (down' = <<>> \/ down' = <<m>>) /\ joins' = joins /\ shutAt' = shutAt
      /\ DOMAIN within' = DOMAIN within
  BY DEF OpenLink
<1>2. joins = {} /\ tnext \in Nat /\ r.trans = tnext /\ r.op = "list" /\ m.op = "change"
  BY <1>1 DEF RosterInv, Request
<1> HIDE DEF r, m
<1>3. /\ Sequence(<<r>>) /\ Len(<<r>>) = 1 /\ <<r>>[1] = r
      /\ Sequence(<<>>) /\ Len(<<>>) = 0 /\ Sequence(<<m>>) /\ Len(<<m>>) = 1 /\ <<m>>[1] = m
  <2>1. <<r>> \in Seq({r}) /\ <<>> \in Seq({}) /\ <<m>> \in Seq({m})
    OBVIOUS
  <2> QED BY <2>1 DEF Sequence
<1>4. RepliesOf(<<>>) = {} /\ RepliesOf(<<m>>) = {} /\ JoinsOf(<<r>>) = {}
  BY <1>2, <1>3 DEF RepliesOf, JoinsOf, Answering
<1>5. RepliesOf(down') = {} /\ Sequence(down')
  BY <1>1, <1>3, <1>4
<1>6. \A i \in 1..Len(down') : down'[i].op # "joined"
  BY <1>5 DEF RepliesOf, Answering
<1>7. \A i \in 1..1 : i = 1
  OBVIOUS
<1>8. Numbered(<<r>>, down', tnext + 1)
  BY <1>2, <1>3, <1>5, <1>7 DEF Numbered
<1>9. Owed(<<r>>, down', {})
  BY <1>4, <1>6 DEF Owed
<1>10. /\ JoinsOK({}, tnext + 1, shutAt) /\ tnext + 1 \in Nat /\ shutAt \in [Cids -> Nat]
       /\ \A c \in Cids : shutAt[c] <= tnext + 1
  BY <1>2 DEF RosterInv, JoinsOK
<1> QED BY <1>1, <1>2, <1>3, <1>5, <1>8, <1>9, <1>10 DEF RosterInv

\* What other users do.
LEMMA HostStep ==
    ASSUME RosterInv, GoesOn(down, down'),
           \A i \in 1..Len(down') : i > Len(down) => down'[i].op \notin Answering,
           online \/ down' = down, DOMAIN within' = DOMAIN within,
           \A c \in Cids \cup {0} : Me \notin within[c] => Me \notin within'[c],
           UNCHANGED <<online, tnext, shutAt, upward, joins>>
    PROVE  RosterInv'
<1>1. Sequence(down) /\ Sequence(down')
  BY DEF RosterInv, GoesOn
<1> DEFINE e == down'
<1>2. GoesOn(down, e) /\ \A i \in 1..Len(e) : i > Len(down) => e[i].op \notin Answering
  OBVIOUS
<1> HIDE DEF e
<1>3. Numbered(upward, e, tnext) /\ Owed(upward, e, joins)
  BY <1>1, <1>2, QuietMore DEF RosterInv
<1> QED BY <1>1, <1>3 DEF RosterInv, e

\* A channel nothing was said on.
LEMMA GoesOnSame == ASSUME NEW s, Sequence(s) PROVE GoesOn(s, s) /\ \A i \in 1..Len(s) : ~(i > Len(s))
<1>1. Len(s) \in Nat
  BY SequenceFacts
<1> QED BY <1>1 DEF GoesOn

\* One message, where we are in the chat.
LEMMA ToldStep ==
    ASSUME RosterInv, NEW c \in Cids \cup {0}, NEW m, m.op \notin Answering, Tell(c, <<m>>),
           DOMAIN within' = DOMAIN within,
           \A d \in Cids \cup {0} : Me \notin within[d] => Me \notin within'[d],
           UNCHANGED <<online, tnext, shutAt, upward, joins>>
    PROVE  RosterInv'
<1>1. Sequence(down) /\ Len(down) \in Nat
  BY SequenceFacts DEF RosterInv
<1>2. CASE Me \in within[c]
  <2> DEFINE e == down \o <<m>>
  <2>1. online /\ down' = e
    BY <1>2 DEF RosterInv, Tell
  <2>2. GoesOn(down, e) /\ Len(e) = Len(down) + 1 /\ e[Len(down) + 1] = m
    BY <1>1, ConcatFacts
  <2> HIDE DEF e
  <2>3. \A i \in 1..Len(e) : i > Len(down) => i = Len(down) + 1
    BY <1>1, <2>2
  <2>4. \A i \in 1..Len(e) : i > Len(down) => e[i].op \notin Answering
    BY <2>2, <2>3
  <2> QED BY <2>1, <2>2, <2>4, HostStep
<1>3. CASE Me \notin within[c]
  <2>1. down' = down
    BY <1>3 DEF Tell
  <2> QED BY <1>1, <2>1, GoesOnSame, HostStep
<1> QED BY <1>2, <1>3

\* Someone arrives.
LEMMA ArriveStep == ASSUME RosterInv, NEW c \in Cids \cup {0}, NEW u \in Others, Arrive(c, u) PROVE RosterInv'
<1> DEFINE m == ChangeOf(c, u, called[u])
<1>1. m.op \notin Answering
  BY DEF ChangeOf, Answering
<1>2. /\ Tell(c, <<m>>) /\ within' = [within EXCEPT ![c] = @ \cup {u}]
      /\ UNCHANGED <<online, tnext, shutAt, upward, joins>>
  BY DEF Arrive, clientVars
<1>3. DOMAIN within' = DOMAIN within /\ \A d \in Cids \cup {0} : Me \notin within[d] => Me \notin within'[d]
  BY <1>2, RosterAssumption DEF RosterInv
<1> HIDE DEF m
<1> QED BY <1>1, <1>2, <1>3, ToldStep

\* Someone leaves.
LEMMA DepartStep == ASSUME RosterInv, NEW c \in Cids \cup {0}, NEW u \in Others, Depart(c, u) PROVE RosterInv'
<1> DEFINE m == [op |-> "left", cid |-> c, uid |-> u]
<1>1. m.op \notin Answering
  BY DEF Answering
<1>2. /\ Tell(c, <<m>>) /\ within' = [within EXCEPT ![c] = @ \ {u}]
      /\ UNCHANGED <<online, tnext, shutAt, upward, joins>>
  BY DEF Depart, clientVars
<1>3. DOMAIN within' = DOMAIN within /\ \A d \in Cids \cup {0} : Me \notin within[d] => Me \notin within'[d]
  BY <1>2 DEF RosterInv
<1> HIDE DEF m
<1> QED BY <1>1, <1>2, <1>3, ToldStep

\* Someone changes name.
LEMMA RenameStep == ASSUME RosterInv, NEW u \in People, NEW n \in Names, Rename(u, n) PROVE RosterInv'
<1> DEFINE m == ChangeOf(0, u, n)
<1>1. m.op \notin Answering
  BY DEF ChangeOf, Answering
<1>2. Tell(0, <<m>>) /\ within' = within /\ UNCHANGED <<online, tnext, shutAt, upward, joins>>
  BY DEF Rename, clientVars
<1> HIDE DEF m
<1> QED BY <1>1, <1>2, ToldStep

\* Someone invites us.
LEMMA InviteStep == ASSUME RosterInv, NEW c \in Cids, NEW u \in Others, Invite(c, u) PROVE RosterInv'
<1> DEFINE m == [op |-> "invite", cid |-> c]
           e == Append(down, m)
<1>1. m.op \notin Answering
  BY DEF Answering
<1>2. /\ down' = e /\ Me \in within[0] /\ within' = [within EXCEPT ![c] = @ \cup {u}]
      /\ UNCHANGED <<online, tnext, shutAt, upward, joins>>
  BY DEF Invite, clientVars
<1>3. DOMAIN within' = DOMAIN within /\ \A d \in Cids \cup {0} : Me \notin within[d] => Me \notin within'[d]
  BY <1>2, RosterAssumption DEF RosterInv
<1>4. online /\ Sequence(down) /\ Len(down) \in Nat
  BY <1>2, SequenceFacts DEF RosterInv
<1> HIDE DEF m
<1>5. GoesOn(down, e) /\ Len(e) = Len(down) + 1 /\ e[Len(down) + 1] = m
  BY <1>4, AppendFacts DEF GoesOn
<1> HIDE DEF e
<1>6. \A i \in 1..Len(e) : i > Len(down) => i = Len(down) + 1
  BY <1>4, <1>5
<1>7. \A i \in 1..Len(e) : i > Len(down) => e[i].op \notin Answering
  BY <1>1, <1>5, <1>6
<1> QED BY <1>2, <1>3, <1>4, <1>5, <1>7, HostStep

\* What a request is answered with: the first message alone may answer a join.
LEMMA ServeStep == ASSUME RosterInv, Serve PROVE RosterInv'
<1> DEFINE r == Head(upward)
           n == Len(down)
<1>1. /\ upward # <<>> /\ upward' = Tail(upward) /\ UNCHANGED <<online, tnext, shutAt, joins>>
  BY DEF Serve, clientVars
<1>2. /\ Sequence(upward) /\ Sequence(down) /\ n \in Nat /\ online /\ r = upward[1] /\ Sequence(Tail(upward))
  BY <1>1, SequenceFacts, SMTT(40) DEF RosterInv
<1> DEFINE e == down'
<1>3. /\ DOMAIN within' = DOMAIN within /\ GoesOn(down, e)
      /\ \A i \in 1..Len(e) : i > n /\ e[i].op \in Answering =>
            /\ i = n + 1 /\ e[i].trans = r.trans
            /\ e[i].op = "joined" => r.op = "join" /\ e[i].cid = r.cid
      /\ r.op = "join" => n + 1 \in RepliesOf(e)
  <2>1. ASSUME NEW m, e = Append(down, m),
               m.op \in Answering => m.trans = r.trans /\ (m.op = "joined" => r.op = "join" /\ m.cid = r.cid),
               r.op = "join" => m.op \in Answering
        PROVE  /\ GoesOn(down, e)
               /\ \A i \in 1..Len(e) : i > n /\ e[i].op \in Answering =>
                     /\ i = n + 1 /\ e[i].trans = r.trans
                     /\ e[i].op = "joined" => r.op = "join" /\ e[i].cid = r.cid
               /\ r.op = "join" => n + 1 \in RepliesOf(e)
    <3>1. GoesOn(down, e) /\ Len(e) = n + 1 /\ e[n + 1] = m
      <4>1. Len(e) = n + 1 /\ e[n + 1] = m /\ Sequence(e) /\ \A i \in 1..n : e[i] = down[i]
        BY <1>2, <2>1, AppendFacts
      <4> QED BY <1>2, <4>1 DEF GoesOn
    <3> HIDE DEF e, n, r
    <3>2. \A i \in 1..Len(e) : i > n => i = n + 1
      BY <1>2, <3>1
    <3>3. n + 1 \in 1..Len(e)
      BY <1>2, <3>1
    <3> QED BY <2>1, <3>1, <3>2, <3>3 DEF RepliesOf
  <2>2. CASE /\ r.op = "list"
             /\ e = Append(down, [op |-> "list", list |-> Roll(within[0])])
             /\ UNCHANGED <<within, made>>
    <3> DEFINE m == [op |-> "list", list |-> Roll(within[0])]
    <3>1. m.op = "list" /\ e = Append(down, m)
      BY <2>2
    <3> HIDE DEF m
    <3>2. m.op \notin Answering
      BY <3>1 DEF Answering
    <3> HIDE DEF e, n, r
    <3> QED BY <2>1, <2>2, <3>1, <3>2
  <2>3. CASE /\ r.op \in {"create", "createself"}
             /\ \E c \in Cids \ made :
                   /\ made' = made \cup {c}
                   /\ within' = [within EXCEPT ![c] = {Me}]
                   /\ e = (down \o <<[op |-> "created", cid |-> c, list |-> Roll({Me})]>>)
                          \o IF r.op = "create" THEN <<>> ELSE <<[op |-> "invite", cid |-> c]>>
    <3>1. PICK c \in Cids \ made :
             /\ within' = [within EXCEPT ![c] = {Me}]
             /\ e = (down \o <<[op |-> "created", cid |-> c, list |-> Roll({Me})]>>)
                    \o IF r.op = "create" THEN <<>> ELSE <<[op |-> "invite", cid |-> c]>>
      BY <2>3
    <3> DEFINE a == [op |-> "created", cid |-> c, list |-> Roll({Me})]
               b == [op |-> "invite", cid |-> c]
               f == down \o <<a>>
    <3>2. a.op = "created" /\ b.op = "invite" /\ DOMAIN within' = DOMAIN within
      BY <3>1
    <3>3. e = f \o <<>> \/ e = f \o <<b>>
      BY <3>1
    <3> HIDE DEF a, b
    <3>4. GoesOn(down, f) /\ Len(f) = n + 1 /\ f[n + 1] = a /\ Sequence(f)
      BY <1>2, ConcatFacts DEF GoesOn
    <3>5. f \o <<>> = f
      <4>1. PICK S : f \in Seq(S)
        BY <3>4 DEF Sequence
      <4> HIDE DEF f
      <4> QED BY <4>1, ConcatEmptySeq
    <3> HIDE DEF f
    <3>6. /\ GoesOn(f, f \o <<b>>) /\ Len(f \o <<b>>) = Len(f) + 1 /\ (f \o <<b>>)[Len(f) + 1] = b
      BY <3>4, ConcatFacts
    <3> HIDE DEF e, n, r
    <3>7. /\ Sequence(e) /\ Len(e) \in {n + 1, n + 2} /\ \A i \in 1..(n + 1) : e[i] = f[i]
          /\ Len(e) = n + 2 => e[n + 2] = b
      <4>1. CASE e = f
        BY <1>2, <3>4, <4>1
      <4>2. CASE e = f \o <<b>>
        <5>1. Len(f) + 1 = n + 2
          BY <1>2, <3>4
        <5>2. Len(e) = n + 2 /\ e[n + 2] = b
          BY <3>6, <4>2, <5>1
        <5> QED BY <3>4, <3>6, <4>2, <5>2 DEF GoesOn
      <4> QED BY <3>3, <3>5, <4>1, <4>2
    <3>8. GoesOn(down, e)
      <4>1. Len(down) = n
        BY DEF n
      <4>2. \A i \in 1..n : i \in 1..(n + 1) /\ f[i] = down[i]
        BY <1>2, <3>4, <4>1 DEF GoesOn
      <4>3. Len(e) >= n
        BY <1>2, <3>7
      <4> QED BY <3>7, <4>1, <4>2, <4>3 DEF GoesOn
    <3>9. \A i \in 1..Len(e) : i > n => (i = n + 1 \/ (i = n + 2 /\ Len(e) = n + 2))
      BY <1>2, <3>7
    <3>10. e[n + 1] = a
      BY <1>2, <3>4, <3>7
    <3>11. \A i \in 1..Len(e) : i > n => e[i].op \notin Answering
      BY <3>2, <3>7, <3>9, <3>10 DEF Answering
    <3> QED BY <2>3, <3>2, <3>8, <3>11
  <2>4. CASE /\ r.op = "join" /\ within[r.cid] # {}
             /\ within' = [within EXCEPT ![r.cid] = @ \cup {Me}]
             /\ e = Append(down, [op |-> "joined", trans |-> r.trans, cid |-> r.cid,
                                  list |-> Roll(within[r.cid] \cup {Me})])
    <3> DEFINE m == [op |-> "joined", trans |-> r.trans, cid |-> r.cid,
                     list |-> Roll(within[r.cid] \cup {Me})]
    <3>1. m.op = "joined" /\ m.trans = r.trans /\ m.cid = r.cid /\ e = Append(down, m)
      BY <2>4
    <3>2. DOMAIN within' = DOMAIN within
      BY <2>4
    <3> HIDE DEF m
    <3>3. m.op \in Answering
      BY <3>1 DEF Answering
    <3> HIDE DEF e, n, r
    <3> QED BY <2>1, <2>4, <3>1, <3>2, <3>3
  <2>5. CASE /\ e = Append(down, [op |-> "failed", trans |-> r.trans])
             /\ UNCHANGED <<within, made>>
    <3> DEFINE m == [op |-> "failed", trans |-> r.trans]
    <3>1. m.op = "failed" /\ m.trans = r.trans /\ e = Append(down, m)
      BY <2>5
    <3> HIDE DEF m
    <3>3. m.op \in Answering
      BY <3>1 DEF Answering
    <3> HIDE DEF e, n, r
    <3> QED BY <2>1, <2>5, <3>1, <3>3
  <2>6. CASE r.op # "join" /\ e = down /\ DOMAIN within' = DOMAIN within
    BY <1>2, <2>6, GoesOnSame
  <2>7. /\ r.op = "part" /\ within' = [within EXCEPT ![r.cid] = @ \ {Me}] /\ UNCHANGED <<down, made>>
        => DOMAIN within' = DOMAIN within
    OBVIOUS
  <2> HIDE DEF r, n
  <2> QED BY <2>2, <2>3, <2>4, <2>5, <2>6, <2>7 DEF Serve, r
<1> HIDE DEF e
<1>4. Numbered(Tail(upward), e, tnext) /\ Owed(Tail(upward), e, joins)
  BY <1>1, <1>2, <1>3, Served DEF RosterInv
<1>5. Sequence(e)
  BY <1>3 DEF GoesOn
<1> QED BY <1>1, <1>2, <1>3, <1>4, <1>5 DEF RosterInv, e

\* Every step keeps the invariant.
LEMMA RosterStep == RosterInv /\ [RosterNext]_rosterVars => RosterInv'
<1> SUFFICES ASSUME RosterInv, [RosterNext]_rosterVars PROVE RosterInv'
  OBVIOUS
<1>1. CASE UNCHANGED rosterVars
  <2>1. UNCHANGED <<online, tnext, shutAt, upward, down, joins, within>>
    BY <1>1 DEF rosterVars, clientVars, hostVars
  <2> QED BY <2>1 DEF RosterInv
<1>2. CASE UserActs
  BY <1>2, ChatUserStep, ChatJoinStep, RejectChatStep, CloseTabStep DEF UserActs
<1>3. CASE HostActs
  BY <1>3, ServeStep, ArriveStep, DepartStep, InviteStep, RenameStep DEF HostActs
<1> QED BY <1>1, <1>2, <1>3, ReceiveStep, OpenLinkStep, CloseLinkStep DEF RosterNext

\* The joins remembered are the ones the server owes an answer.
LEMMA RosterInv_Joins == RosterInv => JoinsAreInFlight
<1> SUFFICES ASSUME RosterInv PROVE JoinsAreInFlight
  OBVIOUS
<1> DEFINE T == {j.trans : j \in joins}
           A == {upward[i].trans : i \in {k \in 1..Len(upward) : upward[k].op = "join"}}
           B == {down[i].trans : i \in {k \in 1..Len(down) : down[k].op = "joined"}}
           C == {down[i].trans : i \in {k \in 1..Len(down) :
                    down[k].op = "failed" /\ \E j \in joins : j.trans = down[k].trans}}
<1>1. Owed(upward, down, joins)
  BY DEF RosterInv
<1>2. ASSUME NEW j \in joins PROVE j.trans \in A \cup B \cup C
  <2>1. CASE \E i \in JoinsOf(upward) : upward[i].trans = j.trans
    BY <2>1 DEF JoinsOf
  <2>2. CASE \E i \in RepliesOf(down) : down[i].trans = j.trans
    <3>1. PICK i \in RepliesOf(down) : down[i].trans = j.trans
      BY <2>2
    <3>2. i \in 1..Len(down) /\ (down[i].op = "joined" \/ down[i].op = "failed")
      BY DEF RepliesOf, Answering
    <3> QED BY <3>1, <3>2
  <2> QED BY <1>1, <2>1, <2>2 DEF Owed
<1>3. A \subseteq T
  BY <1>1 DEF Owed, JoinsOf
<1>4. B \subseteq T
  BY <1>1 DEF Owed
<1>5. C \subseteq T
  OBVIOUS
<1>6. T = A \cup B \cup C
  <2> HIDE DEF A, B, C
  <2> QED BY <1>2, <1>3, <1>4, <1>5
<1> QED BY <1>6 DEF JoinsAreInFlight

\* The answer to a join asked for before the chat was closed.
LateAnswerIsDropped(c) ==
    /\ online' /\ down # <<>> /\ down' = Tail(down)
    /\ Head(down).op = "joined" /\ Head(down).cid = c /\ Head(down).trans < shutAt[c]
    => chats'[c] = chats[c]

\* The answer to a join finds it marked when the chat was closed after it.
LEMMA LateAnswers ==
    RosterInv /\ [RosterNext]_rosterVars => [\A c \in Cids : LateAnswerIsDropped(c)]_rosterVars
<1> SUFFICES ASSUME RosterInv, RosterNext, NEW c \in Cids,
                    online', down # <<>>, down' = Tail(down),
                    Head(down).op = "joined", Head(down).cid = c, Head(down).trans < shutAt[c]
             PROVE  chats'[c] = chats[c]
  BY DEF LateAnswerIsDropped
<1>1. /\ Sequence(down) /\ Head(down) = down[1] /\ Len(down) \in Nat /\ Len(down) >= 1
      /\ Len(down') = Len(down) - 1 /\ online
  BY SequenceFacts DEF RosterInv
<1>2. 1 \in 1..Len(down) /\ Len(down') < Len(down)
  BY <1>1
<1>3. CASE Receive
  <2> DEFINE m == Head(down)
  <2>1. PICK j \in joins : j.trans = m.trans /\ j.cid = c
    BY <1>1, <1>2 DEF RosterInv, Owed
  <2>2. j.parted
    BY <2>1 DEF RosterInv, JoinsOK
  <2>3. Joined(m)
    <3>1. \/ Changed(m) \/ Left(m) \/ ListCame(m) \/ Joined(m) \/ Created(m) \/ Failed(m) \/ Invited(m)
      BY <1>3 DEF Receive
    <3>2. m.op = "joined"
      OBVIOUS
    <3> HIDE DEF m
    <3> QED BY <3>1, <3>2 DEF Changed, Left, ListCame, Created, Failed, Invited
  <2>4. chats' = chats
    BY <2>1, <2>2, <2>3 DEF Joined
  <2> QED BY <2>4
<1>5. CASE CloseLink
  BY <1>5 DEF CloseLink
<1>6. CASE OpenLink
  BY <1>1, <1>6 DEF OpenLink
<1>7. CASE UserActs
  <2>1. down' = down
    BY <1>7 DEF UserActs, ChatUser, ChatJoin, RejectChat, CloseTab
  <2> QED BY <1>2, <2>1, <1>1
<1>8. CASE HostActs
  <2>1. chats' = chats
    BY <1>8 DEF HostActs, Serve, Arrive, Depart, Invite, Rename, clientVars
  <2> QED BY <2>1
<1> QED BY <1>3, <1>5, <1>6, <1>7, <1>8 DEF RosterNext

\* For any users, chats, names and connections: JOINS names the joins of this connection
\* that are not answered, and no others (joined, failed and joins_forget of recv/user.rs).
THEOREM JoinsAreAlwaysInFlight == RosterSpec => []JoinsAreInFlight
<1>1. RosterInit => RosterInv
  BY RosterInit_Inv
<1>2. RosterInv /\ [RosterNext]_rosterVars => RosterInv'
  BY RosterStep
<1>3. RosterInv => JoinsAreInFlight
  BY RosterInv_Joins
<1> QED BY <1>1, <1>2, <1>3, PTL DEF RosterSpec

\* ... and the answer to a join asked for before the user closed the chat's tab changes
\* nothing of the chat, however much of both is on its way (join_parted of send/chat.rs,
\* joined of recv/user.rs).
THEOREM ClosedChatsStayClosed == RosterSpec => ClosedStaysClosed
<1>1. RosterInit => RosterInv
  BY RosterInit_Inv
<1>2. RosterInv /\ [RosterNext]_rosterVars => RosterInv'
  BY RosterStep
<1>3. RosterInv /\ [RosterNext]_rosterVars => [\A c \in Cids : LateAnswerIsDropped(c)]_rosterVars
  BY LateAnswers
<1>4. RosterSpec => [][\A c \in Cids : LateAnswerIsDropped(c)]_rosterVars
  BY <1>1, <1>2, <1>3, PTL DEF RosterSpec
<1> QED BY <1>4 DEF ClosedStaysClosed, LateAnswerIsDropped

-----------------------------------------------------------------------------
(* The chats follow the server.                                               *)

AllCids == Cids \cup {0}

\* What a chat shows: the conversation's own record aside.
Views == [open : BOOLEAN, members : Listed, rows : Listed]
View(x) == [open |-> x.open, members |-> x.members, rows |-> x.rows]
PutView(v, u, n) ==
    [open |-> TRUE, members |-> [v.members EXCEPT ![u] = n], rows |-> [v.rows EXCEPT ![u] = n]]
DropView(v, u) ==
    [open |-> v.open, members |-> [v.members EXCEPT ![u] = NotListed],
     rows |-> [v.rows EXCEPT ![u] = NotListed]]
LoadView(v, list) ==
    [open |-> v.open \/ \E u \in People : list[u] # NotListed /\ v.members[u] = NotListed,
     members |-> [u \in People |-> IF list[u] # NotListed THEN list[u] ELSE v.members[u]],
     rows |-> [u \in People |-> IF list[u] # NotListed /\ v.members[u] = NotListed
                                THEN list[u] ELSE v.rows[u]]]

\* What the message m makes of the chat c where the chats show s.
Reaches(s, m, c) ==
    /\ m.op = "change"
    /\ \/ m.cid = c /\ (s[c].members[m.uid] # NotListed \/ m.uid # Me)
       \/ /\ m.cid = 0 /\ c # 0 /\ s[0].members[m.uid] # NotListed
          /\ s[c].open /\ s[c].members[m.uid] # NotListed
Drops(m, c) == m.op = "left" /\ m.cid = c
Fills(m, c) == (m.op = "list" /\ c = 0) \/ (m.op \in {"joined", "created"} /\ m.cid = c)
After(s, m, c) ==
    IF Reaches(s, m, c) THEN PutView(s[c], m.uid, m.name)
    ELSE IF Drops(m, c) THEN DropView(s[c], m.uid)
    ELSE IF Fills(m, c) THEN LoadView(s[c], m.list)
    ELSE s[c]

\* S[i] is what the chats D show once i of the messages d are taken, from V on.
Replays(S, d, V, D) ==
    /\ \A c \in D : S[0][c] = V[c]
    /\ \A i \in 1..Len(d) : \A c \in D : S[i][c] = After(S[i - 1], d[i], c)

\* The chat c shows who the server has in it, W, by the names C; the public one
\* before its list, only some of them.
Agrees(v, W, C, c, asking) ==
    /\ v \in Views
    /\ v.open <=> c = 0 \/ Me \in W[c]
    /\ \A u \in People :
          /\ v.rows[u] = v.members[u]
          /\ v.members[u] # NotListed => v.open /\ u \in W[c] /\ v.members[u] = C[u]
          /\ u \in W[c] /\ v.open /\ ~(c = 0 /\ asking) => v.members[u] # NotListed

\* Once what is on its way is taken, the chats agree with the server.
Follows(d, V, D, W, C, asking) ==
    \E S : Replays(S, d, V, D) /\ \A c \in D : Agrees(S[Len(d)][c], W, C, c, asking)

\* Whatever agrees with the server agrees with what it becomes, as it is or once m is taken.
Keeps(D, W, C, a, X, B, b) ==
    \A F : (\A c \in D : Agrees(F[c], W, C, c, a)) => \A c \in D : Agrees(F[c], X, B, c, b)
Carries(D, W, C, a, m, X, B, b) ==
    \A F : (\A c \in D : Agrees(F[c], W, C, c, a)) => \A c \in D : Agrees(After(F, m, c), X, B, c, b)

\* Chats whose tab was not closed on this connection.
Followed(shut) == {c \in AllCids : c = 0 \/ shut[c] = 0}

ChatOK(x) ==
    /\ x \in [known : BOOLEAN, open : BOOLEAN, members : Listed, rows : Listed]
    /\ ~x.known => ~x.open /\ x.members = NoOne
    /\ ~x.open => x.rows = NoOne
ChatsOK(K) ==
    K \in [AllCids -> [known : BOOLEAN, open : BOOLEAN, members : Listed, rows : Listed]]
    /\ (\A c \in AllCids : ChatOK(K[c])) /\ K[0].known /\ K[0].open

\* The server: nobody is in a chat that is not on the server, or in one not made.
ServerOK(W, C, M) ==
    /\ W \in [AllCids -> SUBSET People] /\ C \in [People -> Names] /\ M \subseteq Cids
    /\ \A c \in Cids : W[c] \subseteq W[0] /\ (c \notin M => W[c] = {})

\* A request for the list is the first of its connection; a chat is left once closed.
UpOK(u, shut) ==
    \A i \in 1..Len(u) :
        /\ u[i].op \in {"join", "part"} => u[i].cid \in Cids
        /\ u[i].op = "part" => shut[u[i].cid] # 0
        /\ u[i].op = "list" => i = 1
Asking(u) == u # <<>> /\ u[1].op = "list"

JoinsMarked(J, shut) ==
    /\ \A j \in J : j.parted => shut[j.cid] # 0
    /\ \A j, k \in J : j.trans = k.trans => j.cid = k.cid

MessageOK(m) ==
    /\ m.op = "change" => m.cid \in AllCids /\ m.uid \in People /\ m.name \in Names
    /\ m.op = "left" => m.cid \in AllCids /\ m.uid \in People
    /\ m.op \in {"list", "joined", "created"} => m.list \in Listed
    /\ m.op \in {"joined", "created", "invite"} => m.cid \in Cids
DownOK(d) == \A i \in 1..Len(d) : MessageOK(d[i])

NoneShown(K) ==
    \A c \in AllCids : View(K[c]) = [open |-> c = 0, members |-> NoOne, rows |-> NoOne]
Shown(K) == [c \in AllCids |-> View(K[c])]

\* What the channels and the server are.
Sound ==
    /\ tnext >= 1 /\ invites \subseteq Cids
    /\ ChatsOK(chats) /\ ServerOK(within, called, made)
    /\ UpOK(upward, shutAt) /\ JoinsMarked(joins, shutAt) /\ DownOK(down)
    /\ Asking(upward) => \A c \in Cids : Me \notin within[c]

\* Without a connection nothing is shown, with one the chats follow.
Tracks(on, d, K, shut, W, C, u) ==
    /\ ~on => NoneShown(K)
    /\ on => Me \in W[0] /\ Follows(d, Shown(K), Followed(shut), W, C, Asking(u))

\* The invariant.
FollowInv ==
    /\ RosterInv /\ Sound
    /\ Tracks(online, down, chats, shutAt, within, called, upward)

\* A view, field by field.
LEMMA ViewFields ==
    ASSUME NEW v \in Views
    PROVE  v.open \in BOOLEAN /\ v.members \in Listed /\ v.rows \in Listed
  BY DEF Views

\* Somebody put into a list.
LEMMA PutViewIs ==
    ASSUME NEW v \in Views, NEW u \in People, NEW n \in Names \cup {NotListed}
    PROVE  LET t == PutView(v, u, n)
           IN  /\ t \in Views /\ t.open
               /\ \A w \in People : /\ t.members[w] = IF w = u THEN n ELSE v.members[w]
                                    /\ t.rows[w] = IF w = u THEN n ELSE v.rows[w]
<1> DEFINE a == [v.members EXCEPT ![u] = n]
           b == [v.rows EXCEPT ![u] = n]
           t == PutView(v, u, n)
<1>1. v.members \in Listed /\ v.rows \in Listed
  BY ViewFields
<1>2. a \in Listed /\ b \in Listed
  BY <1>1 DEF Listed
<1>3. \A w \in People : /\ a[w] = IF w = u THEN n ELSE v.members[w]
                        /\ b[w] = IF w = u THEN n ELSE v.rows[w]
  BY <1>1 DEF Listed
<1>4. t = [open |-> TRUE, members |-> a, rows |-> b]
  BY DEF PutView
<1> HIDE DEF a, b, t
<1>5. t \in Views /\ t.open = TRUE /\ t.members = a /\ t.rows = b
  BY <1>2, <1>4 DEF Views
<1> QED BY <1>3, <1>5 DEF t

\* Somebody taken out of one.
LEMMA DropViewIs ==
    ASSUME NEW v \in Views, NEW u \in People
    PROVE  LET t == DropView(v, u)
           IN  /\ t \in Views /\ t.open = v.open
               /\ \A w \in People : /\ t.members[w] = IF w = u THEN NotListed ELSE v.members[w]
                                    /\ t.rows[w] = IF w = u THEN NotListed ELSE v.rows[w]
<1> DEFINE a == [v.members EXCEPT ![u] = NotListed]
           b == [v.rows EXCEPT ![u] = NotListed]
           t == DropView(v, u)
<1>1. v.members \in Listed /\ v.rows \in Listed /\ v.open \in BOOLEAN
  BY ViewFields
<1>2. a \in Listed /\ b \in Listed
  BY <1>1 DEF Listed
<1>3. \A w \in People : /\ a[w] = IF w = u THEN NotListed ELSE v.members[w]
                        /\ b[w] = IF w = u THEN NotListed ELSE v.rows[w]
  BY <1>1 DEF Listed
<1>4. t = [open |-> v.open, members |-> a, rows |-> b]
  BY DEF DropView
<1> HIDE DEF a, b, t
<1>5. t \in Views /\ t.open = v.open /\ t.members = a /\ t.rows = b
  BY <1>1, <1>2, <1>4 DEF Views
<1> QED BY <1>3, <1>5 DEF t

\* A list loaded.
LEMMA LoadViewIs ==
    ASSUME NEW v \in Views, NEW l \in Listed
    PROVE  LET t == LoadView(v, l)
           IN  /\ t \in Views
               /\ t.open <=> v.open \/ \E u \in People : l[u] # NotListed /\ v.members[u] = NotListed
               /\ \A w \in People :
                     /\ t.members[w] = IF l[w] # NotListed THEN l[w] ELSE v.members[w]
                     /\ t.rows[w] = IF l[w] # NotListed /\ v.members[w] = NotListed
                                    THEN l[w] ELSE v.rows[w]
<1> DEFINE a == [u \in People |-> IF l[u] # NotListed THEN l[u] ELSE v.members[u]]
           b == [u \in People |-> IF l[u] # NotListed /\ v.members[u] = NotListed
                                  THEN l[u] ELSE v.rows[u]]
           o == v.open \/ \E u \in People : l[u] # NotListed /\ v.members[u] = NotListed
           t == LoadView(v, l)
<1>1. v.members \in Listed /\ v.rows \in Listed /\ v.open \in BOOLEAN
  BY ViewFields
<1>2. a \in Listed /\ b \in Listed
  BY <1>1 DEF Listed
<1>3. \A w \in People :
         /\ a[w] = IF l[w] # NotListed THEN l[w] ELSE v.members[w]
         /\ b[w] = IF l[w] # NotListed /\ v.members[w] = NotListed THEN l[w] ELSE v.rows[w]
  OBVIOUS
<1>4. t = [open |-> o, members |-> a, rows |-> b] /\ o \in BOOLEAN
  BY <1>1 DEF LoadView
<1>6. o <=> v.open \/ \E u \in People : l[u] # NotListed /\ v.members[u] = NotListed
  OBVIOUS
<1> HIDE DEF a, b, o, t
<1>5. t \in Views /\ t.open = o /\ t.members = a /\ t.rows = b
  BY <1>2, <1>4 DEF Views
<1> QED BY <1>3, <1>5, <1>6, Zenon DEF t

\* What the server's list names.
RollOf(set, C) == [u \in People |-> IF u \in set THEN C[u] ELSE NotListed]
\* ... of those in the set, by their names.
LEMMA RollIs ==
    ASSUME NEW set, NEW C \in [People -> Names]
    PROVE  /\ RollOf(set, C) \in Listed
           /\ \A u \in People : /\ u \in set => RollOf(set, C)[u] = C[u]
                                /\ u \notin set => RollOf(set, C)[u] = NotListed
  BY DEF RollOf, Listed

\* A name is not the lack of one.
LEMMA NamesAreListed ==
    ASSUME NEW C \in [People -> Names], NEW u \in People
    PROVE  C[u] \in Names /\ C[u] # NotListed
  BY RosterAssumption

\* Who is on the server arrives in the chat k.
LEMMA ArriveAgrees ==
    ASSUME NEW W, NEW C, NEW M, ServerOK(W, C, M), NEW D \in SUBSET AllCids, 0 \in D, NEW a,
           NEW F, \A c \in D : Agrees(F[c], W, C, c, a),
           NEW k \in AllCids, NEW u \in Others, u \notin W[k], k = 0 \/ Me \in W[k],
           NEW m, m.op = "change", m.cid = k, m.uid = u, m.name = C[u]
    PROVE  \A c \in D : Agrees(After(F, m, c), [W EXCEPT ![k] = @ \cup {u}], C, c, a)
<1> DEFINE X == [W EXCEPT ![k] = @ \cup {u}]
<1>1. /\ W \in [AllCids -> SUBSET People] /\ C \in [People -> Names] /\ u \in People /\ u # Me
      /\ X[k] = W[k] \cup {u} /\ \A c \in AllCids : c # k => X[c] = W[c]
  BY RosterAssumption DEF ServerOK, People
<1> HIDE DEF X
<1>2. C[u] \in Names /\ C[u] # NotListed
  BY <1>1, NamesAreListed
<1> SUFFICES ASSUME NEW c \in D PROVE Agrees(After(F, m, c), X, C, c, a)
  BY DEF X
<1>3. Agrees(F[c], W, C, c, a) /\ c \in AllCids /\ F[c] \in Views
  BY DEF Agrees
<1>4. ~Drops(m, c) /\ ~Fills(m, c)
  BY DEF Drops, Fills
<1>5. CASE c = k
  <2>1. Reaches(F, m, c)
    BY <1>1, <1>5 DEF Reaches
  <2> DEFINE t == PutView(F[c], u, C[u])
  <2>2. After(F, m, c) = t
    BY <2>1 DEF After
  <2>3. /\ t \in Views /\ t.open
        /\ \A w \in People : /\ t.members[w] = IF w = u THEN C[u] ELSE F[c].members[w]
                             /\ t.rows[w] = IF w = u THEN C[u] ELSE F[c].rows[w]
    BY <1>1, <1>2, <1>3, PutViewIs
  <2> HIDE DEF t
  <2>4. F[c].open
    BY <1>3, <1>5 DEF Agrees
  <2> QED BY <1>1, <1>2, <1>3, <1>5, <2>2, <2>3, <2>4 DEF Agrees
<1>6. CASE c # k
  <2>1. k = 0 => F[0].members[u] = NotListed
    BY <1>1 DEF Agrees
  <2>2. ~Reaches(F, m, c)
    BY <1>6, <2>1 DEF Reaches
  <2>3. After(F, m, c) = F[c] /\ X[c] = W[c]
    BY <1>1, <1>3, <1>4, <1>6, <2>2 DEF After
  <2> QED BY <1>3, <2>3 DEF Agrees
<1> QED BY <1>5, <1>6

\* Who is in it departs.
LEMMA DepartAgrees ==
    ASSUME NEW W, NEW C, NEW M, ServerOK(W, C, M), NEW D \in SUBSET AllCids, NEW a,
           NEW F, \A c \in D : Agrees(F[c], W, C, c, a),
           NEW k \in AllCids, NEW u \in Others, k = 0 \/ Me \in W[k],
           NEW m, m.op = "left", m.cid = k, m.uid = u
    PROVE  \A c \in D : Agrees(After(F, m, c), [W EXCEPT ![k] = @ \ {u}], C, c, a)
<1> DEFINE X == [W EXCEPT ![k] = @ \ {u}]
<1>1. /\ W \in [AllCids -> SUBSET People] /\ u \in People /\ u # Me
      /\ X[k] = W[k] \ {u} /\ \A c \in AllCids : c # k => X[c] = W[c]
  BY RosterAssumption DEF ServerOK, People
<1> HIDE DEF X
<1> SUFFICES ASSUME NEW c \in D PROVE Agrees(After(F, m, c), X, C, c, a)
  BY DEF X
<1>3. Agrees(F[c], W, C, c, a) /\ c \in AllCids /\ F[c] \in Views
  BY DEF Agrees
<1>4. ~Reaches(F, m, c) /\ ~Fills(m, c)
  BY DEF Reaches, Fills
<1>5. CASE c = k
  <2> DEFINE t == DropView(F[c], u)
  <2>2. After(F, m, c) = t
    BY <1>4, <1>5 DEF After, Drops
  <2>3. /\ t \in Views /\ t.open = F[c].open
        /\ \A w \in People : /\ t.members[w] = IF w = u THEN NotListed ELSE F[c].members[w]
                             /\ t.rows[w] = IF w = u THEN NotListed ELSE F[c].rows[w]
    BY <1>1, <1>3, DropViewIs
  <2> HIDE DEF t
  <2> QED BY <1>1, <1>3, <1>5, <2>2, <2>3 DEF Agrees
<1>6. CASE c # k
  <2>3. After(F, m, c) = F[c] /\ X[c] = W[c]
    BY <1>1, <1>3, <1>4, <1>6 DEF After, Drops
  <2> QED BY <1>3, <2>3 DEF Agrees
<1> QED BY <1>5, <1>6

\* Somebody on the server is called otherwise: the public chat's message is
\* told in every tab that lists them.
LEMMA RenameAgrees ==
    ASSUME NEW W, NEW C, NEW M, ServerOK(W, C, M), NEW D \in SUBSET AllCids, 0 \in D, NEW a,
           a => \A c \in Cids : Me \notin W[c],
           NEW F, \A c \in D : Agrees(F[c], W, C, c, a),
           NEW u \in People, NEW n \in Names, u \in W[0],
           NEW m, m.op = "change", m.cid = 0, m.uid = u, m.name = n
    PROVE  \A c \in D : Agrees(After(F, m, c), W, [C EXCEPT ![u] = n], c, a)
<1> DEFINE X == [C EXCEPT ![u] = n]
<1>1. /\ W \in [AllCids -> SUBSET People] /\ C \in [People -> Names] /\ n # NotListed
      /\ X[u] = n /\ \A w \in People : w # u => X[w] = C[w]
  BY RosterAssumption DEF ServerOK
<1> HIDE DEF X
<1> SUFFICES ASSUME NEW c \in D PROVE Agrees(After(F, m, c), W, X, c, a)
  BY DEF X
<1>3. Agrees(F[c], W, C, c, a) /\ c \in AllCids /\ F[c] \in Views /\ Agrees(F[0], W, C, 0, a)
  BY DEF Agrees
<1>4. ~Drops(m, c) /\ ~Fills(m, c)
  BY DEF Drops, Fills
<1>5. CASE Reaches(F, m, c)
  <2> DEFINE t == PutView(F[c], u, n)
  <2>2. After(F, m, c) = t
    BY <1>5 DEF After
  <2>3. /\ t \in Views /\ t.open
        /\ \A w \in People : /\ t.members[w] = IF w = u THEN n ELSE F[c].members[w]
                             /\ t.rows[w] = IF w = u THEN n ELSE F[c].rows[w]
    <3>1. n \in Names \cup {NotListed}
      OBVIOUS
    <3> QED BY <1>3, <3>1, PutViewIs
  <2> HIDE DEF t
  <2>4. F[c].open /\ u \in W[c]
    BY <1>3, <1>5 DEF Agrees, Reaches
  <2> QED BY <1>1, <1>3, <2>2, <2>3, <2>4 DEF Agrees
<1>6. CASE ~Reaches(F, m, c)
  <2>1. After(F, m, c) = F[c]
    BY <1>4, <1>6 DEF After
  <2>2. F[c].members[u] = NotListed
    <3>1. CASE c = 0
      BY <1>6, <3>1 DEF Reaches
    <3>2. CASE c # 0 /\ F[0].members[u] # NotListed
      BY <1>3, <1>6, <3>2 DEF Reaches, Agrees
    <3>3. CASE c # 0 /\ F[0].members[u] = NotListed
      <4>1. a
        BY <1>3, <3>3 DEF Agrees
      <4>2. c \in Cids
        BY <1>3, <3>3 DEF AllCids
      <4> QED BY <1>3, <3>3, <4>1, <4>2 DEF Agrees
    <3> QED BY <3>1, <3>2, <3>3
  <2> QED BY <1>1, <1>3, <2>1, <2>2 DEF Agrees
<1> QED BY <1>5, <1>6

\* The list of who is on the server.
LEMMA ListAgrees ==
    ASSUME NEW W, NEW C, NEW M, ServerOK(W, C, M), NEW D \in SUBSET AllCids, NEW a,
           NEW F, \A c \in D : Agrees(F[c], W, C, c, a),
           NEW m, m.op = "list", m.list = RollOf(W[0], C)
    PROVE  \A c \in D : Agrees(After(F, m, c), W, C, c, FALSE)
<1>1. C \in [People -> Names]
  BY DEF ServerOK
<1> SUFFICES ASSUME NEW c \in D PROVE Agrees(After(F, m, c), W, C, c, FALSE)
  OBVIOUS
<1>3. Agrees(F[c], W, C, c, a) /\ c \in AllCids /\ F[c] \in Views
  BY DEF Agrees
<1>4. ~Reaches(F, m, c) /\ ~Drops(m, c)
  BY DEF Reaches, Drops
<1>5. CASE c = 0
  <2> DEFINE l == RollOf(W[0], C)
             t == LoadView(F[c], l)
  <2>1. l \in Listed /\ \A u \in People : /\ u \in W[0] => l[u] = C[u] /\ l[u] # NotListed
                                          /\ u \notin W[0] => l[u] = NotListed
    BY <1>1, RollIs, NamesAreListed
  <2>2. After(F, m, c) = t
    BY <1>4, <1>5 DEF After, Fills
  <2> HIDE DEF l
  <2>3. /\ t \in Views
        /\ t.open <=> F[c].open \/ \E u \in People : l[u] # NotListed /\ F[c].members[u] = NotListed
        /\ \A w \in People :
              /\ t.members[w] = IF l[w] # NotListed THEN l[w] ELSE F[c].members[w]
              /\ t.rows[w] = IF l[w] # NotListed /\ F[c].members[w] = NotListed
                             THEN l[w] ELSE F[c].rows[w]
    BY <1>3, <2>1, LoadViewIs
  <2> HIDE DEF t
  <2>4. t.open = TRUE
    BY <1>3, <1>5, <2>3 DEF Agrees, Views
  <2> QED BY <1>3, <1>5, <2>1, <2>2, <2>3, <2>4 DEF Agrees
<1>6. CASE c # 0
  <2>3. After(F, m, c) = F[c]
    BY <1>4, <1>6 DEF After, Fills
  <2> QED BY <1>3, <1>6, <2>3 DEF Agrees
<1> QED BY <1>5, <1>6

\* The chat k, which we make or join.
LetsIn(m, k, W, C) ==
    m.op \in {"joined", "created"} /\ m.cid = k /\ m.list = RollOf(W[k] \cup {Me}, C)
\* ... is shown with those in it.
LEMMA JoinAgrees ==
    ASSUME NEW W, NEW C, NEW M, ServerOK(W, C, M), NEW D \in SUBSET AllCids, NEW a, ~a,
           NEW k \in Cids, NEW m, LetsIn(m, k, W, C),
           NEW X, X[k] = W[k] \cup {Me}, \A c \in AllCids : c # k => X[c] = W[c]
    PROVE  Carries(D, W, C, a, m, X, C, a)
<1>1. /\ W \in [AllCids -> SUBSET People] /\ C \in [People -> Names] /\ Me \in People /\ k # 0
      /\ X[k] = W[k] \cup {Me} /\ \A c \in AllCids : c # k => X[c] = W[c]
      /\ m.op \in {"joined", "created"} /\ m.cid = k /\ m.list = RollOf(W[k] \cup {Me}, C)
  BY RosterAssumption DEF ServerOK, People, AllCids, LetsIn
<1> SUFFICES ASSUME NEW F, \A c \in D : Agrees(F[c], W, C, c, a), NEW c \in D
             PROVE  Agrees(After(F, m, c), X, C, c, a)
  BY DEF Carries
<1>3. Agrees(F[c], W, C, c, a) /\ c \in AllCids /\ F[c] \in Views
  BY DEF Agrees
<1>4. ~Reaches(F, m, c) /\ ~Drops(m, c)
  BY <1>1 DEF Reaches, Drops
<1>5. CASE c = k
  <2> DEFINE l == RollOf(W[k] \cup {Me}, C)
             t == LoadView(F[c], l)
  <2>1. l \in Listed /\ \A u \in People : /\ u \in X[k] => l[u] = C[u] /\ l[u] # NotListed
                                          /\ u \notin X[k] => l[u] = NotListed
    BY <1>1, RollIs, NamesAreListed
  <2>2. After(F, m, c) = t
    BY <1>1, <1>4, <1>5 DEF After, Fills
  <2> HIDE DEF l
  <2>3. /\ t \in Views
        /\ t.open <=> F[c].open \/ \E u \in People : l[u] # NotListed /\ F[c].members[u] = NotListed
        /\ \A w \in People :
              /\ t.members[w] = IF l[w] # NotListed THEN l[w] ELSE F[c].members[w]
              /\ t.rows[w] = IF l[w] # NotListed /\ F[c].members[w] = NotListed
                             THEN l[w] ELSE F[c].rows[w]
    BY <1>3, <2>1, LoadViewIs
  <2> HIDE DEF t
  <2>4. t.open
    <3>1. CASE Me \in W[k]
      BY <1>3, <1>5, <2>3, <3>1 DEF Agrees
    <3>2. CASE Me \notin W[k]
      BY <1>1, <1>3, <1>5, <2>1, <2>3, <3>2 DEF Agrees
    <3> QED BY <3>1, <3>2
  <2>5. ASSUME NEW u \in People
        PROVE  /\ t.rows[u] = t.members[u]
               /\ t.members[u] # NotListed => u \in X[k] /\ t.members[u] = C[u]
               /\ u \in X[k] => t.members[u] # NotListed
    BY <1>1, <1>3, <1>5, <2>1, <2>3 DEF Agrees
  <2> QED BY <1>1, <1>5, <2>2, <2>3, <2>4, <2>5 DEF Agrees
<1>6. CASE c # k
  <2>3. After(F, m, c) = F[c] /\ X[c] = W[c]
    BY <1>1, <1>3, <1>4, <1>6 DEF After, Fills
  <2> QED BY <1>3, <2>3 DEF Agrees
<1> QED BY <1>5, <1>6

\* A change in a chat we are not in, of which we are not told.
LEMMA ElsewhereAgrees ==
    ASSUME NEW W, NEW X, NEW C, NEW D \in SUBSET AllCids, NEW a, NEW k \in Cids,
           \A c \in AllCids : c # k => X[c] = W[c],
           k \in D => Me \notin W[k] /\ Me \notin X[k]
    PROVE  Keeps(D, W, C, a, X, C, a)
<1> SUFFICES ASSUME NEW F, \A c \in D : Agrees(F[c], W, C, c, a), NEW c \in D
             PROVE  Agrees(F[c], X, C, c, a)
  BY DEF Keeps
<1>1. c \in AllCids /\ Agrees(F[c], W, C, c, a) /\ k # 0
  BY RosterAssumption
<1>2. CASE c # k
  BY <1>1, <1>2 DEF Agrees
<1>3. CASE c = k
  BY <1>1, <1>3 DEF Agrees
<1> QED BY <1>2, <1>3

\* A message that changes no chat.
LEMMA SilentAgrees ==
    ASSUME NEW F, NEW c, NEW m, m.op \in {"failed", "invite"}
    PROVE  After(F, m, c) = F[c]
  BY DEF After, Reaches, Drops, Fills

\* ... carries what would be kept without it.
LEMMA SilentCarries ==
    ASSUME NEW D, NEW W, NEW C, NEW a, NEW X, NEW B, NEW b, Keeps(D, W, C, a, X, B, b),
           NEW m, m.op \in {"failed", "invite"}
    PROVE  Carries(D, W, C, a, m, X, B, b)
  BY SilentAgrees DEF Keeps, Carries

\* What the next message makes of the chats depends on what is followed only.
LEMMA AfterSame ==
    ASSUME NEW s, NEW t, NEW m, NEW D, 0 \in D, \A c \in D : s[c] = t[c], NEW c \in D
    PROVE  After(s, m, c) = After(t, m, c)
<1>1. s[c] = t[c] /\ s[0] = t[0]
  OBVIOUS
<1>2. Reaches(s, m, c) <=> Reaches(t, m, c)
  BY <1>1 DEF Reaches
<1> QED BY <1>1, <1>2 DEF After

\* The first message is taken.
LEMMA FollowsTail ==
    ASSUME NEW d, Sequence(d), d # <<>>, NEW V, NEW X, NEW D, 0 \in D, NEW W, NEW C, NEW a,
           Follows(d, V, D, W, C, a), \A c \in D : X[c] = After(V, d[1], c)
    PROVE  Follows(Tail(d), X, D, W, C, a)
<1> DEFINE e == Tail(d)
           n == Len(d)
<1>1. /\ n \in Nat /\ n >= 1 /\ Len(e) = n - 1 /\ \A i \in 1..(n - 1) : e[i] = d[i + 1]
  BY SequenceFacts
<1> HIDE DEF e
<1>2. PICK S : Replays(S, d, V, D) /\ \A c \in D : Agrees(S[n][c], W, C, c, a)
  BY DEF Follows
<1> HIDE DEF n
<1> DEFINE T == [i \in 0..(n - 1) |-> S[i + 1]]
<1>3. \A i \in 0..(n - 1) : T[i] = S[i + 1]
  OBVIOUS
<1>4. T[0] = S[1] /\ T[n - 1] = S[n]
  <2>1. 0 \in 0..(n - 1) /\ n - 1 \in 0..(n - 1) /\ (n - 1) + 1 = n /\ 0 + 1 = 1
    BY <1>1
  <2> QED BY <1>3, <2>1
<1> HIDE DEF T
<1>5. \A c \in D : S[0][c] = V[c]
  BY <1>2 DEF Replays
<1>6. ASSUME NEW i \in 1..n, NEW c \in D PROVE S[i][c] = After(S[i - 1], d[i], c)
  BY <1>2 DEF Replays, n
<1>7. ASSUME NEW c \in D PROVE T[0][c] = X[c]
  <2>1. 1 \in 1..n /\ 1 - 1 = 0
    BY <1>1
  <2>2. S[1][c] = After(S[0], d[1], c)
    BY <1>6, <2>1
  <2>3. After(S[0], d[1], c) = After(V, d[1], c)
    BY <1>5, AfterSame
  <2> QED BY <1>4, <2>2, <2>3
<1>8. ASSUME NEW i \in 1..(n - 1), NEW c \in D PROVE T[i][c] = After(T[i - 1], e[i], c)
  <2>1. i + 1 \in 1..n /\ (i + 1) - 1 = i /\ i - 1 \in 0..(n - 1) /\ (i - 1) + 1 = i /\ i \in 0..(n - 1)
    BY <1>1
  <2>2. S[i + 1][c] = After(S[i], d[i + 1], c)
    BY <1>6, <2>1
  <2>3. T[i] = S[i + 1] /\ T[i - 1] = S[i] /\ e[i] = d[i + 1]
    BY <1>1, <1>3, <2>1
  <2> QED BY <2>2, <2>3
<1>9. Replays(T, e, X, D)
  BY <1>1, <1>7, <1>8 DEF Replays
<1>10. \A c \in D : Agrees(T[Len(e)][c], W, C, c, a)
  BY <1>1, <1>2, <1>4 DEF n
<1> QED BY <1>9, <1>10 DEF Follows, e

\* A message is sent.
LEMMA FollowsMore ==
    ASSUME NEW d, Sequence(d), NEW e, GoesOn(d, e), Len(e) = Len(d) + 1,
           NEW V, NEW D, NEW W, NEW C, NEW a, Follows(d, V, D, W, C, a),
           NEW X, NEW B, NEW b,
           Carries(D, W, C, a, e[Len(e)], X, B, b)
    PROVE  Follows(e, V, D, X, B, b)
<1> DEFINE n == Len(d)
           m == e[Len(e)]
<1>1. n \in Nat /\ Len(e) = n + 1 /\ \A i \in 1..n : e[i] = d[i]
  BY SequenceFacts DEF GoesOn
<1>2. PICK S : Replays(S, d, V, D) /\ \A c \in D : Agrees(S[n][c], W, C, c, a)
  BY DEF Follows
<1>3. \A c \in D : Agrees(After(S[n], m, c), X, B, c, b)
  BY <1>2 DEF Carries
<1>4. \A c \in D : S[0][c] = V[c]
  BY <1>2 DEF Replays
<1>5. ASSUME NEW i \in 1..n, NEW c \in D PROVE S[i][c] = After(S[i - 1], d[i], c)
  BY <1>2 DEF Replays
<1>6. m = e[n + 1]
  BY <1>1
<1> HIDE DEF n, m
<1> DEFINE L == [c \in D |-> After(S[n], m, c)]
           T == [i \in 0..(n + 1) |-> IF i <= n THEN S[i] ELSE L]
<1>7. /\ \A i \in 0..n : T[i] = S[i]
      /\ T[n + 1] = L
  BY <1>1
<1>8. \A c \in D : L[c] = After(S[n], m, c)
  OBVIOUS
<1> HIDE DEF L, T
<1>9. \A c \in D : T[0][c] = V[c]
  BY <1>1, <1>4, <1>7
<1>10. ASSUME NEW i \in 1..(n + 1), NEW c \in D PROVE T[i][c] = After(T[i - 1], e[i], c)
  <2>1. CASE i <= n
    <3>1. i \in 1..n /\ i \in 0..n /\ i - 1 \in 0..n
      BY <1>1, <2>1
    <3>2. T[i] = S[i] /\ T[i - 1] = S[i - 1] /\ e[i] = d[i]
      BY <1>1, <1>7, <3>1
    <3> QED BY <1>5, <3>1, <3>2
  <2>2. CASE i = n + 1
    <3>1. i - 1 = n /\ n \in 0..n
      BY <1>1, <2>2
    <3>2. T[i] = L /\ T[i - 1] = S[n] /\ e[i] = m
      BY <1>6, <1>7, <2>2, <3>1
    <3> QED BY <1>8, <3>2
  <2> QED BY <1>1, <2>1, <2>2
<1>11. Replays(T, e, V, D)
  BY <1>1, <1>9, <1>10 DEF Replays
<1>12. \A c \in D : Agrees(T[Len(e)][c], X, B, c, b)
  BY <1>1, <1>3, <1>7, <1>8
<1> QED BY <1>11, <1>12 DEF Follows

\* Nothing is sent.
LEMMA FollowsSame ==
    ASSUME NEW d, NEW V, NEW D, NEW W, NEW C, NEW a, Follows(d, V, D, W, C, a),
           NEW X, NEW B, NEW b, Keeps(D, W, C, a, X, B, b)
    PROVE  Follows(d, V, D, X, B, b)
<1>1. PICK S : Replays(S, d, V, D) /\ \A c \in D : Agrees(S[Len(d)][c], W, C, c, a)
  BY DEF Follows
<1>2. \A c \in D : Agrees(S[Len(d)][c], X, B, c, b)
  BY <1>1 DEF Keeps
<1> QED BY <1>1, <1>2 DEF Follows

\* One chat fewer is followed.
LEMMA FollowsFewer ==
    ASSUME NEW d, NEW V, NEW D, NEW W, NEW C, NEW a, Follows(d, V, D, W, C, a),
           NEW X, NEW E \in SUBSET D, \A c \in E : X[c] = V[c]
    PROVE  Follows(d, X, E, W, C, a)
<1>1. PICK S : Replays(S, d, V, D) /\ \A c \in D : Agrees(S[Len(d)][c], W, C, c, a)
  BY DEF Follows
<1>2. Replays(S, d, X, E)
  BY <1>1 DEF Replays
<1> QED BY <1>1, <1>2 DEF Follows

\* What a chat shows of somebody put, taken out or loaded.
LEMMA ChatFields ==
    ASSUME NEW x, ChatOK(x)
    PROVE  /\ x.known \in BOOLEAN /\ x.open \in BOOLEAN /\ x.members \in Listed /\ x.rows \in Listed
           /\ View(x) \in Views /\ View(x).open = x.open /\ View(x).members = x.members
           /\ View(x).rows = x.rows
  BY DEF ChatOK, View, Views

\* user_create and user_change, in one chat.
LEMMA PutChat ==
    ASSUME NEW x, ChatOK(x), NEW u \in People, NEW n \in Names
    PROVE  /\ ChatOK(Put(x, u, n)) /\ View(Put(x, u, n)) = PutView(View(x), u, n)
           /\ Put(x, u, n).known /\ Put(x, u, n).open
<1> DEFINE t == Put(x, u, n)
           a == [x.members EXCEPT ![u] = n]
           b == [x.rows EXCEPT ![u] = n]
<1>1. /\ x.members \in Listed /\ x.rows \in Listed /\ View(x).members = x.members /\ View(x).rows = x.rows
      /\ x \in [known : BOOLEAN, open : BOOLEAN, members : Listed, rows : Listed]
  BY ChatFields DEF ChatOK
<1>2. a \in Listed /\ b \in Listed
  BY <1>1 DEF Listed
<1>3. t = [known |-> TRUE, open |-> TRUE, members |-> a, rows |-> b]
  <2> DEFINE o == Opened(x)
  <2>1. o = [known |-> TRUE, open |-> TRUE, members |-> x.members, rows |-> x.rows]
    <3>1. o = [x EXCEPT !.known = TRUE, !.open = TRUE]
      BY DEF Opened
    <3> QED BY <1>1, <3>1
  <2>2. t = [o EXCEPT !.members[u] = n, !.rows[u] = n]
    BY DEF Put
  <2> HIDE DEF o, t
  <2>3. o.members = x.members /\ o.rows = x.rows
    BY <2>1
  <2>4. t = [o EXCEPT !.members = a, !.rows = b]
    BY <2>2, <2>3
  <2> HIDE DEF a, b
  <2> QED BY <2>1, <2>4
<1>4. PutView(View(x), u, n) = [open |-> TRUE, members |-> a, rows |-> b]
  BY <1>1 DEF PutView
<1> HIDE DEF a, b, t
<1>5. ChatOK(t) /\ View(t) = [open |-> TRUE, members |-> a, rows |-> b] /\ t.known /\ t.open
  BY <1>2, <1>3 DEF ChatOK, View
<1> QED BY <1>4, <1>5 DEF t

\* user_delete.
Dropped(x, u) == [x EXCEPT !.members[u] = NotListed, !.rows[u] = NotListed]
\* ... leaves a chat that is right, and one not known as it was.
LEMMA DropChat ==
    ASSUME NEW x, ChatOK(x), NEW u \in People, NEW t, t = Dropped(x, u)
    PROVE  /\ ChatOK(t) /\ View(t) = DropView(View(x), u)
           /\ t.known = x.known /\ t.open = x.open
           /\ ~x.known => DropView(View(x), u) = View(x)
<1> DEFINE a == [x.members EXCEPT ![u] = NotListed]
           b == [x.rows EXCEPT ![u] = NotListed]
<1>1. /\ x.members \in Listed /\ x.rows \in Listed /\ View(x).members = x.members /\ View(x).rows = x.rows
      /\ x \in [known : BOOLEAN, open : BOOLEAN, members : Listed, rows : Listed] /\ View(x).open = x.open
      /\ x.open \in BOOLEAN /\ x.known \in BOOLEAN
  BY ChatFields DEF ChatOK
<1>2. a \in Listed /\ b \in Listed
  BY <1>1 DEF Listed
<1>3. t = [known |-> x.known, open |-> x.open, members |-> a, rows |-> b]
  BY <1>1 DEF Dropped
<1>4. DropView(View(x), u) = [open |-> x.open, members |-> a, rows |-> b]
  BY <1>1 DEF DropView
<1>5. (x.members = NoOne => a = NoOne) /\ (x.rows = NoOne => b = NoOne)
  BY DEF NoOne
<1>6. View(x) = [open |-> x.open, members |-> x.members, rows |-> x.rows]
  BY DEF View
<1>7. /\ ~x.known => ~x.open /\ x.members = NoOne
      /\ ~x.open => x.rows = NoOne
  BY DEF ChatOK
<1> HIDE DEF a, b
<1>8. t.known = x.known /\ t.open = x.open /\ t.members = a /\ t.rows = b
  <2> DEFINE k == x.known
             o == x.open
  <2>1. t = [known |-> k, open |-> o, members |-> a, rows |-> b]
    BY <1>3
  <2> HIDE DEF k, o
  <2>2. t.known = k /\ t.open = o /\ t.members = a /\ t.rows = b
    BY <2>1
  <2> QED BY <2>2, Zenon DEF k, o
<1>9. t \in [known : BOOLEAN, open : BOOLEAN, members : Listed, rows : Listed]
  BY <1>1, <1>2, <1>3
<1>10. ChatOK(t)
  BY <1>5, <1>7, <1>8, <1>9 DEF ChatOK
<1>11. View(t) = DropView(View(x), u)
  BY <1>4, <1>8 DEF View
<1>12. ~x.known => DropView(View(x), u) = View(x)
  BY <1>4, <1>5, <1>6, <1>7
<1> QED BY <1>8, <1>10, <1>11, <1>12

\* load.
LEMMA LoadChat ==
    ASSUME NEW x, ChatOK(x), NEW l \in Listed
    PROVE  /\ ChatOK(LoadList(x, l)) /\ View(LoadList(x, l)) = LoadView(View(x), l)
           /\ LoadList(x, l).known /\ (x.open => LoadList(x, l).open)
<1> DEFINE t == LoadList(x, l)
           new == {u \in People : l[u] # NotListed /\ ~Lists(x, u)}
           a == [u \in People |-> IF l[u] # NotListed THEN l[u] ELSE x.members[u]]
           b == [u \in People |-> IF u \in new THEN l[u] ELSE x.rows[u]]
           o == x.open \/ new # {}
           v == LoadView(View(x), l)
<1>1. /\ x.members \in Listed /\ x.rows \in Listed /\ View(x).members = x.members /\ View(x).rows = x.rows
      /\ View(x).open = x.open /\ x.open \in BOOLEAN
  BY ChatFields
<1>2. a \in Listed /\ b \in Listed
  BY <1>1 DEF Listed
<1>3. t = [known |-> TRUE, open |-> o, members |-> a, rows |-> b]
  BY DEF LoadList
<1>4. o = (x.open \/ \E u \in People : l[u] # NotListed /\ x.members[u] = NotListed)
  BY <1>1 DEF Lists
<1>5. b = [u \in People |-> IF l[u] # NotListed /\ x.members[u] = NotListed THEN l[u] ELSE x.rows[u]]
  BY DEF Lists
<1>6. v = [open |-> o, members |-> a, rows |-> b]
  BY <1>1, <1>4, <1>5 DEF LoadView
<1>7. ~o => b = NoOne
  <2> SUFFICES ASSUME ~o PROVE b = NoOne
    OBVIOUS
  <2>1. new = {} /\ x.rows = NoOne
    BY DEF ChatOK
  <2>2. \A u \in People : b[u] = x.rows[u]
    BY <2>1
  <2> QED BY <2>1, <2>2 DEF NoOne
<1>8. o \in BOOLEAN /\ (x.open => o)
  BY <1>1
<1> HIDE DEF o, a, b, t, v, new
<1>9. t.known = TRUE /\ t.open = o /\ t.members = a /\ t.rows = b
  BY <1>3
<1>10. t \in [known : BOOLEAN, open : BOOLEAN, members : Listed, rows : Listed]
  BY <1>2, <1>3, <1>8
<1>11. ChatOK(t) /\ View(t) = [open |-> o, members |-> a, rows |-> b]
  BY <1>7, <1>9, <1>10 DEF ChatOK, View
<1> QED BY <1>6, <1>8, <1>9, <1>11 DEF t, v

\* A message makes the chats K the chats L: each is right, and the ones followed
\* show what the replay says.
Becomes(K, L, D, m) == ChatsOK(L) /\ \A c \in D : View(L[c]) = After(Shown(K), m, c)

\* It is enough to say of each chat what it becomes.
LEMMA BecomesEach ==
    ASSUME NEW K, NEW L, NEW D \in SUBSET AllCids, NEW m,
           L = [c \in AllCids |-> L[c]],
           \A c \in AllCids : /\ ChatOK(L[c]) /\ (c \in D => View(L[c]) = After(Shown(K), m, c))
                              /\ (c = 0 => L[c].known /\ L[c].open)
    PROVE  Becomes(K, L, D, m)
<1>1. \A c \in AllCids : L[c] \in [known : BOOLEAN, open : BOOLEAN, members : Listed, rows : Listed]
  BY DEF ChatOK
<1>2. L \in [AllCids -> [known : BOOLEAN, open : BOOLEAN, members : Listed, rows : Listed]]
  BY <1>1, Zenon
<1>3. L[0].known /\ L[0].open
  BY DEF AllCids
<1>4. \A c \in AllCids : ChatOK(L[c])
  OBVIOUS
<1>5. ChatsOK(L)
  BY <1>2, <1>3, <1>4 DEF ChatsOK
<1>6. \A c \in D : View(L[c]) = After(Shown(K), m, c)
  OBVIOUS
<1> QED BY <1>5, <1>6 DEF Becomes

\* Nothing changes.
LEMMA BecomesSame ==
    ASSUME NEW K, ChatsOK(K), NEW D \in SUBSET AllCids, NEW m,
           \A c \in D : After(Shown(K), m, c) = Shown(K)[c]
    PROVE  Becomes(K, K, D, m)
  BY DEF Becomes, Shown

\* A list is loaded.
LEMMA BecomesLoaded ==
    ASSUME NEW K, ChatsOK(K), NEW L, NEW D \in SUBSET AllCids, NEW k \in AllCids, NEW m,
           m.list \in Listed, L = [K EXCEPT ![k] = LoadList(@, m.list)],
           \A c \in AllCids : Fills(m, c) <=> c = k, m.op \notin {"change", "left"}
    PROVE  Becomes(K, L, D, m)
<1> DEFINE V == Shown(K)
<1>1. /\ DOMAIN K = AllCids /\ 0 \in AllCids /\ (\A c \in AllCids : ChatOK(K[c])) /\ K[0].known /\ K[0].open
      /\ \A c \in AllCids : V[c] = View(K[c])
  BY DEF ChatsOK, AllCids, Shown
<1> HIDE DEF V
<1>2. \A c : ~Reaches(V, m, c) /\ ~Drops(m, c)
  BY DEF Reaches, Drops
<1>3. L = [c \in AllCids |-> L[c]]
  BY <1>1
<1>4. ASSUME NEW c \in AllCids
      PROVE  /\ ChatOK(L[c]) /\ View(L[c]) = After(V, m, c)
             /\ c = 0 => L[c].known /\ L[c].open
  <2>1. CASE c = k
    <3>1. L[c] = LoadList(K[c], m.list)
      BY <1>1, <2>1
    <3>2. After(V, m, c) = LoadView(V[c], m.list)
      BY <1>2, <2>1 DEF After
    <3>3. /\ ChatOK(LoadList(K[c], m.list)) /\ View(LoadList(K[c], m.list)) = LoadView(V[c], m.list)
          /\ LoadList(K[c], m.list).known /\ (K[c].open => LoadList(K[c], m.list).open)
      BY <1>1, LoadChat
    <3> QED BY <1>1, <3>1, <3>2, <3>3
  <2>2. CASE c # k
    <3>1. After(V, m, c) = V[c]
      BY <1>2, <2>2 DEF After
    <3>2. L[c] = K[c]
      BY <1>1, <2>2
    <3> QED BY <1>1, <3>1, <3>2
  <2> QED BY <2>1, <2>2
<1> QED BY <1>3, <1>4, BecomesEach DEF V

\* What one message makes of the chats followed is what the replay says, and
\* every chat stays right.
LEMMA TakesMessage ==
    ASSUME RosterInv, Sound, NEW m, down # <<>>, m = down[1],
           Changed(m) \/ Left(m) \/ ListCame(m) \/ Joined(m) \/ Created(m) \/ Failed(m) \/ Invited(m)
    PROVE  Becomes(chats, chats', Followed(shutAt), m)
<1> DEFINE V == Shown(chats)
           D == Followed(shutAt)
           L == chats'
<1> SUFFICES Becomes(chats, L, D, m)
  OBVIOUS
<1>1. /\ ChatsOK(chats) /\ chats[0].known /\ chats[0].open
      /\ DOMAIN chats = AllCids /\ 0 \in AllCids /\ \A c \in AllCids : ChatOK(chats[c])
  BY DEF Sound, ChatsOK, AllCids
<1>2. MessageOK(m)
  <2>1. 1 \in 1..Len(down)
    BY SequenceFacts DEF RosterInv
  <2> QED BY <2>1 DEF Sound, DownOK
<1>3. /\ \A c \in AllCids : V[c] = View(chats[c])
      /\ D \subseteq AllCids
      /\ \A c \in AllCids : /\ V[c].open = chats[c].open /\ V[c].members = chats[c].members
                            /\ V[c].rows = chats[c].rows
  BY <1>1, ChatFields DEF Shown, Followed
<1>13. V = Shown(chats) /\ D \in SUBSET AllCids
  BY <1>3
<1>14. L = chats'
  OBVIOUS
<1> HIDE DEF V, D, L
<1>5. CASE Changed(m)
  <2>1. m.op = "change" /\ m.cid \in AllCids /\ m.uid \in People /\ m.name \in Names
    BY <1>2, <1>5 DEF Changed, MessageOK
  <2>2. \A c : ~Drops(m, c) /\ ~Fills(m, c)
    BY <2>1 DEF Drops, Fills
  <2> DEFINE k == m.cid
             u == m.uid
             n == m.name
  <2>3. \A c \in AllCids : /\ ChatOK(Put(chats[c], u, n)) /\ View(Put(chats[c], u, n)) = PutView(V[c], u, n)
                           /\ Put(chats[c], u, n).known /\ Put(chats[c], u, n).open
    BY <1>1, <1>3, <2>1, PutChat
  <2>4. CASE Lists(chats[k], u)
    <3>1. L = UserChange(k, u, n)
      BY <1>5, <2>4 DEF Changed, L
    <3>2. L = [c \in AllCids |->
             IF c = k \/ (k = 0 /\ chats[c].open /\ Lists(chats[c], u)) THEN Put(chats[c], u, n)
             ELSE chats[c]]
      BY <1>1, <3>1 DEF UserChange
    <3>3. L = [c \in AllCids |-> L[c]]
      BY <3>2
    <3>4. ASSUME NEW c \in AllCids
          PROVE  /\ ChatOK(L[c]) /\ View(L[c]) = After(V, m, c)
                 /\ c = 0 => L[c].known /\ L[c].open
      <4>1. CASE c = k \/ (k = 0 /\ chats[c].open /\ Lists(chats[c], u))
        <5>1. L[c] = Put(chats[c], u, n)
          BY <3>2, <4>1
        <5>2. Reaches(V, m, c)
          BY <1>1, <1>3, <2>1, <2>4, <4>1 DEF Reaches, Lists
        <5> QED BY <2>3, <5>1, <5>2 DEF After
      <4>2. CASE ~(c = k \/ (k = 0 /\ chats[c].open /\ Lists(chats[c], u)))
        <5>1. L[c] = chats[c]
          BY <3>2, <4>2
        <5>2. ~Reaches(V, m, c)
          BY <1>3, <4>2 DEF Reaches, Lists
        <5> QED BY <1>1, <1>3, <2>2, <5>1, <5>2 DEF After
      <4> QED BY <4>1, <4>2
    <3> QED BY <1>13, <3>3, <3>4, BecomesEach
  <2>5. CASE ~Lists(chats[k], u) /\ u = Me
    <3>1. L = [chats EXCEPT ![k].known = TRUE]
      BY <1>5, <2>5 DEF Changed, L
    <3>2. \A c \in AllCids : chats[c] \in [known : BOOLEAN, open : BOOLEAN, members : Listed, rows : Listed]
      BY <1>1 DEF ChatOK
    <3>3. L = [c \in AllCids |-> L[c]]
      BY <1>1, <3>1
    <3>4. ASSUME NEW c \in AllCids
          PROVE  /\ ChatOK(L[c]) /\ View(L[c]) = After(V, m, c)
                 /\ c = 0 => L[c].known /\ L[c].open
      <4>1. ~Reaches(V, m, c)
        BY <1>3, <2>1, <2>5 DEF Reaches, Lists
      <4>2. After(V, m, c) = View(chats[c])
        BY <1>3, <2>2, <4>1 DEF After
      <4>3. CASE c = k
        <5> DEFINE x == chats[c]
                   t == [x EXCEPT !.known = TRUE]
        <5>1. L[c] = t
          BY <1>1, <3>1, <4>3
        <5>2. x \in [known : BOOLEAN, open : BOOLEAN, members : Listed, rows : Listed] /\ ChatOK(x)
          BY <1>1, <3>2
        <5> HIDE DEF x
        <5>3. /\ t.known = TRUE /\ t.open = x.open /\ t.members = x.members /\ t.rows = x.rows
              /\ t \in [known : BOOLEAN, open : BOOLEAN, members : Listed, rows : Listed]
          BY <5>2
        <5> HIDE DEF t
        <5>4. ChatOK(t) /\ View(t) = View(x)
          BY <5>2, <5>3 DEF ChatOK, View
        <5> QED BY <1>1, <4>2, <5>1, <5>3, <5>4 DEF x
      <4>4. CASE c # k
        <5>1. L[c] = chats[c]
          BY <1>1, <3>1, <4>4
        <5> QED BY <1>1, <4>2, <5>1
      <4> QED BY <4>3, <4>4
    <3> QED BY <1>13, <3>3, <3>4, BecomesEach
  <2>6. CASE ~Lists(chats[k], u) /\ u # Me
    <3>1. L = [chats EXCEPT ![k] = Put(@, u, n)]
      BY <1>5, <2>6 DEF Changed, UserCreate, L
    <3>3. L = [c \in AllCids |-> L[c]]
      BY <1>1, <3>1
    <3>4. ASSUME NEW c \in AllCids
          PROVE  /\ ChatOK(L[c]) /\ View(L[c]) = After(V, m, c)
                 /\ c = 0 => L[c].known /\ L[c].open
      <4>1. CASE c = k
        <5>1. L[c] = Put(chats[c], u, n)
          BY <1>1, <3>1, <4>1
        <5>2. Reaches(V, m, c)
          BY <2>1, <2>6, <4>1 DEF Reaches
        <5> QED BY <2>3, <5>1, <5>2 DEF After
      <4>2. CASE c # k
        <5>1. L[c] = chats[c]
          BY <1>1, <3>1, <4>2
        <5>2. ~Reaches(V, m, c)
          BY <1>1, <1>3, <2>6, <4>2 DEF Reaches, Lists
        <5> QED BY <1>1, <1>3, <2>2, <5>1, <5>2 DEF After
      <4> QED BY <4>1, <4>2
    <3> QED BY <1>13, <3>3, <3>4, BecomesEach
  <2> QED BY <2>4, <2>5, <2>6
<1>6. CASE Left(m)
  <2>1. m.op = "left" /\ m.cid \in AllCids /\ m.uid \in People
    BY <1>2, <1>6 DEF Left, MessageOK
  <2>2. \A c : ~Reaches(V, m, c) /\ ~Fills(m, c)
    BY <2>1 DEF Reaches, Fills
  <2> DEFINE k == m.cid
             u == m.uid
  <2>3. L = IF chats[k].known THEN UserDelete(k, u) ELSE chats
    BY <1>6 DEF Left, L
  <2>4. L = [c \in AllCids |-> L[c]]
    BY <1>1, <2>3 DEF UserDelete, ChatsOK
  <2>5. ASSUME NEW c \in AllCids
        PROVE  /\ ChatOK(L[c]) /\ View(L[c]) = After(V, m, c)
               /\ c = 0 => L[c].known /\ L[c].open
    <3>0. /\ ChatOK(Dropped(chats[c], u)) /\ View(Dropped(chats[c], u)) = DropView(V[c], u)
          /\ Dropped(chats[c], u).known = chats[c].known /\ Dropped(chats[c], u).open = chats[c].open
          /\ ~chats[c].known => DropView(V[c], u) = V[c]
      BY <1>1, <1>3, <2>1, DropChat
    <3>1. CASE c = k /\ chats[k].known
      <4>1. L[c] = Dropped(chats[c], u)
        <5>1. L = [chats EXCEPT ![k].members[u] = NotListed, ![k].rows[u] = NotListed]
          BY <2>3, <3>1 DEF UserDelete
        <5> QED BY <1>1, <3>1, <5>1 DEF Dropped
      <4>2. After(V, m, c) = DropView(V[c], u)
        BY <2>1, <2>2, <3>1 DEF After, Drops
      <4> QED BY <1>1, <3>0, <4>1, <4>2
    <3>2. CASE c = k /\ ~chats[k].known
      <4>1. After(V, m, c) = V[c]
        BY <2>1, <2>2, <3>0, <3>2 DEF After, Drops
      <4> QED BY <1>1, <1>3, <2>3, <3>2, <4>1
    <3>3. CASE c # k
      <4>1. After(V, m, c) = V[c]
        BY <2>2, <3>3 DEF After, Drops
      <4>2. L[c] = chats[c]
        BY <1>1, <2>3, <3>3 DEF UserDelete
      <4> QED BY <1>1, <1>3, <4>1, <4>2
    <3> QED BY <3>1, <3>2, <3>3
  <2> QED BY <1>13, <2>4, <2>5, BecomesEach
<1>8. CASE ListCame(m)
  <2>1. m.op = "list" /\ m.list \in Listed /\ L = [chats EXCEPT ![0] = LoadList(@, m.list)]
    BY <1>2, <1>8 DEF ListCame, MessageOK, L
  <2>2. \A c \in AllCids : Fills(m, c) <=> c = 0
    BY <2>1 DEF Fills
  <2> QED BY <1>1, <1>13, <2>1, <2>2, BecomesLoaded
<1>9. CASE Created(m)
  <2>1. /\ m.op = "created" /\ m.list \in Listed /\ m.cid \in AllCids
        /\ L = [chats EXCEPT ![m.cid] = LoadList(@, m.list)]
    BY <1>2, <1>9 DEF Created, MessageOK, AllCids, L
  <2>2. \A c \in AllCids : Fills(m, c) <=> c = m.cid
    BY <2>1 DEF Fills
  <2> QED BY <1>1, <1>13, <2>1, <2>2, BecomesLoaded
<1>10. CASE Joined(m)
  <2>1. m.op = "joined" /\ m.list \in Listed /\ m.cid \in Cids /\ m.cid \in AllCids
    BY <1>2, <1>10 DEF Joined, MessageOK, AllCids
  <2>2. \A c \in AllCids : Fills(m, c) <=> c = m.cid
    BY <2>1 DEF Fills
  <2>3. CASE \E j \in joins : j.trans = m.trans /\ j.parted
    <3>1. L = chats
      BY <1>10, <2>3 DEF Joined, L
    <3>2. m.cid \notin D
      <4>1. PICK j \in joins : j.trans = m.trans /\ j.parted
        BY <2>3
      <4>2. 1 \in 1..Len(down)
        BY SequenceFacts DEF RosterInv
      <4>3. PICK k \in joins : k.trans = m.trans /\ k.cid = m.cid
        BY <2>1, <4>2 DEF RosterInv, Owed
      <4>4. j.cid = m.cid /\ shutAt[m.cid] # 0
        BY <4>1, <4>3 DEF Sound, JoinsMarked
      <4> QED BY <2>1, <4>4, RosterAssumption DEF D, Followed
    <3>3. \A c \in D : After(V, m, c) = V[c]
      BY <1>3, <2>1, <2>2, <3>2 DEF After, Reaches, Drops
    <3> QED BY <1>1, <1>13, <3>1, <3>3, BecomesSame
  <2>4. CASE ~\E j \in joins : j.trans = m.trans /\ j.parted
    <3>1. L = [chats EXCEPT ![m.cid] = LoadList(@, m.list)]
      BY <1>10, <2>4 DEF Joined, L
    <3> QED BY <1>1, <1>13, <2>1, <2>2, <3>1, BecomesLoaded
  <2> QED BY <2>3, <2>4
<1>11. CASE Failed(m)
  <2>1. m.op = "failed"
    BY <1>11 DEF Failed, L
  <2>2. \A c : After(V, m, c) = V[c]
    BY <2>1, SilentAgrees
  <2>3. L = [c \in AllCids |-> L[c]]
    BY <1>1, <1>11 DEF Failed, L
  <2>4. ASSUME NEW c \in AllCids
        PROVE  /\ ChatOK(L[c]) /\ View(L[c]) = After(V, m, c)
               /\ c = 0 => L[c].known /\ L[c].open
    <3>1. L[c] = chats[c] \/ (L[c] = Unknown /\ ~chats[c].open /\ chats[c].members = NoOne)
      BY <1>1, <1>11 DEF Failed, L
    <3>2. CASE L[c] = chats[c]
      BY <1>1, <1>3, <2>2, <3>2
    <3>3. CASE L[c] = Unknown /\ ~chats[c].open /\ chats[c].members = NoOne
      <4>1. c # 0 /\ chats[c].rows = NoOne /\ chats[c].open = FALSE
        BY <1>1, <3>3 DEF ChatOK
      <4>2. View(chats[c]) = [open |-> FALSE, members |-> NoOne, rows |-> NoOne]
        BY <3>3, <4>1 DEF View
      <4>3. View(Unknown) = [open |-> FALSE, members |-> NoOne, rows |-> NoOne]
        BY DEF View, Unknown
      <4>4. ChatOK(Unknown)
        <5>1. NoOne \in Listed
          BY DEF NoOne, Listed
        <5> QED BY <5>1 DEF ChatOK, Unknown
      <4> QED BY <1>3, <2>2, <3>3, <4>1, <4>2, <4>3, <4>4
    <3> QED BY <3>1, <3>2, <3>3
  <2> QED BY <1>13, <2>3, <2>4, BecomesEach
<1>12. CASE Invited(m)
  <2>1. m.op = "invite" /\ L = chats
    BY <1>12 DEF Invited, L
  <2>2. \A c : After(V, m, c) = V[c]
    BY <2>1, SilentAgrees
  <2> QED BY <1>1, <1>13, <2>1, <2>2, BecomesSame
<1> QED BY <1>5, <1>6, <1>8, <1>9, <1>10, <1>11, <1>12

\* The public chat is followed, as is a chat whose tab was not closed.
LEMMA FollowedChats ==
    ASSUME NEW shut
    PROVE  /\ Followed(shut) \in SUBSET AllCids /\ 0 \in Followed(shut)
           /\ \A c \in Cids : c \in Followed(shut) <=> shut[c] = 0
  BY RosterAssumption DEF Followed, AllCids

\* A message is sent to us.
LEMMA FollowsSaid ==
    ASSUME NEW d, Sequence(d), NEW m, NEW e, e = d \o <<m>>,
           NEW V, NEW D, NEW W, NEW C, NEW a, Follows(d, V, D, W, C, a), NEW X, NEW B, NEW b,
           Carries(D, W, C, a, m, X, B, b)
    PROVE  Follows(e, V, D, X, B, b)
<1>1. GoesOn(d, e) /\ Len(e) = Len(d) + 1 /\ e[Len(e)] = m
  BY ConcatFacts
<1>2. Carries(D, W, C, a, e[Len(e)], X, B, b)
  BY <1>1
<1> QED BY <1>1, <1>2, FollowsMore

\* The messages on their way are the server's.
LEMMA DownMore ==
    ASSUME NEW d, Sequence(d), DownOK(d), NEW e, NEW m, e = d \o <<m>>, MessageOK(m)
    PROVE  DownOK(e)
<1>1. /\ Len(d) \in Nat /\ Len(e) = Len(d) + 1 /\ e[Len(d) + 1] = m
      /\ \A i \in 1..Len(d) : e[i] = d[i]
  BY ConcatFacts, SequenceFacts DEF GoesOn
<1>2. \A i \in 1..(Len(d) + 1) : i \in 1..Len(d) \/ i = Len(d) + 1
  BY <1>1
<1> QED BY <1>1, <1>2 DEF DownOK

\* ... and one appended is one said.
LEMMA SaidOnce == ASSUME NEW d, Sequence(d), NEW m PROVE Append(d, m) = d \o <<m>>
<1>1. PICK S : d \in Seq(S)
  BY DEF Sequence
<1>2. d \in Seq(S \cup {m}) /\ m \in S \cup {m}
  BY <1>1, SeqMonotonic
<1> QED BY <1>2

\* The first message is taken.
LEMMA DownFewer ==
    ASSUME NEW d, Sequence(d), d # <<>>, DownOK(d) PROVE DownOK(Tail(d)) /\ MessageOK(d[1])
<1>1. /\ Len(d) \in Nat /\ Len(d) >= 1 /\ Len(Tail(d)) = Len(d) - 1
      /\ \A i \in 1..(Len(d) - 1) : Tail(d)[i] = d[i + 1] /\ i + 1 \in 1..Len(d)
  BY SequenceFacts
<1>2. 1 \in 1..Len(d)
  BY <1>1
<1> QED BY <1>1, <1>2 DEF DownOK

\* A request that is not for the list.
LEMMA UpMore ==
    ASSUME NEW u, Sequence(u), NEW s, UpOK(u, s), NEW r, r.op # "list",
           r.op \in {"join", "part"} => r.cid \in Cids,
           NEW t, \A c \in Cids : s[c] # 0 => t[c] # 0, r.op = "part" => t[r.cid] # 0
    PROVE  UpOK(Append(u, r), t) /\ Asking(Append(u, r)) = Asking(u)
<1> DEFINE v == Append(u, r)
           l == Len(u)
<1>1. l \in Nat /\ Len(v) = l + 1 /\ v[l + 1] = r /\ \A i \in 1..l : v[i] = u[i]
  BY SequenceFacts, AppendFacts
<1>2. Sequence(v)
  BY AppendFacts
<1> HIDE DEF v
<1>3. \A i \in 1..(l + 1) : i = l + 1 \/ (i \in 1..l /\ v[i] = u[i])
  BY <1>1
<1>4. UpOK(v, t)
  BY <1>1, <1>3 DEF UpOK
<1>5. v # <<>>
  BY <1>1
<1>6. CASE u = <<>>
  <2>1. l = 0
    BY <1>6
  <2>2. v[1] = r
    BY <1>1, <2>1
  <2>3. Asking(v) = FALSE /\ Asking(u) = FALSE
    BY <1>6, <2>2 DEF Asking
  <2> QED BY <1>4, <2>3 DEF v
<1>7. CASE u # <<>>
  <2>1. 1 \in 1..l
    BY <1>7, SequenceFacts
  <2>2. v[1] = u[1]
    BY <1>1, <2>1
  <2>3. Asking(v) = Asking(u)
    BY <1>5, <1>7, <2>2 DEF Asking
  <2> QED BY <1>4, <2>3 DEF v
<1> QED BY <1>6, <1>7

\* A request is taken: what comes after it is not for the list.
LEMMA UpFewer ==
    ASSUME NEW u, Sequence(u), u # <<>>, NEW s, UpOK(u, s)
    PROVE  /\ UpOK(Tail(u), s) /\ Asking(Tail(u)) = FALSE /\ Asking(u) = (u[1].op = "list")
           /\ u[1].op \in {"join", "part"} => u[1].cid \in Cids
           /\ u[1].op = "part" => s[u[1].cid] # 0
<1> DEFINE v == Tail(u)
           l == Len(u)
<1>1. l \in Nat /\ l >= 1 /\ Len(v) = l - 1 /\ Sequence(v) /\ \A i \in 1..(l - 1) : v[i] = u[i + 1]
  BY SequenceFacts
<1> HIDE DEF v
<1>2. \A i \in 1..(l - 1) : i + 1 \in 1..l /\ i + 1 # 1 /\ i \in Nat
  BY <1>1
<1>3. ASSUME NEW i \in 1..(l - 1)
      PROVE  /\ v[i].op \in {"join", "part"} => v[i].cid \in Cids
             /\ v[i].op = "part" => s[v[i].cid] # 0
             /\ v[i].op # "list"
  BY <1>1, <1>2 DEF UpOK
<1>4. UpOK(v, s)
  BY <1>1, <1>3 DEF UpOK
<1>5. Asking(v) = FALSE
  <2>1. v # <<>> => 1 \in 1..(l - 1)
    BY <1>1, SequenceFacts
  <2> QED BY <1>3, <2>1 DEF Asking
<1>6. 1 \in 1..l
  BY <1>1
<1>7. Asking(u) = (u[1].op = "list")
  BY DEF Asking
<1> QED BY <1>4, <1>5, <1>6, <1>7 DEF v, UpOK

\* The client takes a message.
LEMMA ReceiveFollows ==
    ASSUME FollowInv, Receive
    PROVE  Sound' /\ Tracks(online', down', chats', shutAt', within', called', upward')
<1> DEFINE m == Head(down)
           D == Followed(shutAt)
<1>1. /\ down # <<>> /\ down' = Tail(down) /\ UNCHANGED <<online, tnext, shutAt, upward, within, called, made>>
      /\ Changed(m) \/ Left(m) \/ ListCame(m) \/ Joined(m) \/ Created(m) \/ Failed(m) \/ Invited(m)
  BY DEF Receive, hostVars
<1>2. RosterInv /\ Sound /\ Sequence(down) /\ m = down[1]
  BY <1>1, SequenceFacts DEF FollowInv, RosterInv
<1>3. online /\ Follows(down, Shown(chats), D, within, called, Asking(upward)) /\ Me \in within[0]
  BY <1>1, <1>2 DEF FollowInv, Tracks, RosterInv
<1>4. DownOK(Tail(down)) /\ MessageOK(m)
  BY <1>1, <1>2, DownFewer DEF Sound
<1> HIDE DEF m
<1>5. Becomes(chats, chats', D, m)
  BY <1>1, <1>2, TakesMessage
<1>6. ChatsOK(chats') /\ \A c \in D : View(chats'[c]) = After(Shown(chats), m, c)
  BY <1>5 DEF Becomes
<1>7. D \in SUBSET AllCids /\ 0 \in D
  BY FollowedChats
<1> DEFINE X == Shown(chats')
<1>8. \A c \in AllCids : X[c] = View(chats'[c])
  BY DEF Shown
<1> HIDE DEF X, D
<1>9. \A c \in D : X[c] = After(Shown(chats), down[1], c)
  BY <1>2, <1>6, <1>7, <1>8
<1>10. Follows(Tail(down), X, D, within, called, Asking(upward))
  BY <1>1, <1>2, <1>3, <1>7, <1>9, FollowsTail
<1>11. Tracks(online', down', chats', shutAt', within', called', upward')
  BY <1>1, <1>3, <1>10 DEF Tracks, X, D
<1>12. joins' \subseteq joins /\ invites' \subseteq Cids
  <2>1. joins' \subseteq joins /\ (invites' = invites \/ (m.op = "invite" /\ invites' = invites \cup {m.cid}))
    <3>1. CASE Changed(m) \/ Left(m) \/ ListCame(m) \/ Created(m)
      <4>1. joins' = joins /\ invites' = invites
        BY <3>1 DEF Changed, Left, ListCame, Created
      <4> QED BY <4>1
    <3>2. CASE Joined(m) \/ Failed(m)
      <4>1. joins' = {j \in joins : j.trans # m.trans} /\ invites' = invites
        BY <3>2 DEF Joined, Failed
      <4> QED BY <4>1
    <3>3. CASE Invited(m)
      BY <3>3 DEF Invited
    <3> QED BY <1>1, <3>1, <3>2, <3>3
  <2> QED BY <1>2, <1>4, <2>1 DEF Sound, MessageOK
<1>13. JoinsMarked(joins', shutAt)
  BY <1>2, <1>12 DEF Sound, JoinsMarked
<1> QED BY <1>1, <1>2, <1>4, <1>6, <1>11, <1>12, <1>13 DEF Sound

\* A request of ours but for closing a tab: the chats and the server are as they were.
LEMMA AskFollows ==
    ASSUME FollowInv, online, NEW r, r.op \notin {"list", "part"}, r.op = "join" => r.cid \in Cids,
           upward' = Append(upward, r), tnext' = tnext + 1, invites' \subseteq invites,
           JoinsMarked(joins', shutAt),
           UNCHANGED <<online, chats, shutAt, down, within, called, made>>
    PROVE  Sound' /\ Tracks(online', down', chats', shutAt', within', called', upward')
<1>1. RosterInv /\ Sound /\ Sequence(upward) /\ tnext \in Nat
  BY DEF FollowInv, RosterInv
<1>2. UpOK(upward', shutAt) /\ Asking(upward') = Asking(upward)
  BY <1>1, UpMore DEF Sound
<1>3. Tracks(online', down', chats', shutAt', within', called', upward')
  BY <1>2 DEF FollowInv, Tracks
<1>4. tnext' >= 1 /\ invites' \subseteq Cids
  BY <1>1 DEF Sound
<1> QED BY <1>1, <1>2, <1>3, <1>4 DEF Sound

\* A chat is asked for.
LEMMA ChatUserFollows ==
    ASSUME FollowInv, NEW op \in {"create", "createself"}, ChatUser(op)
    PROVE  Sound' /\ Tracks(online', down', chats', shutAt', within', called', upward')
<1> DEFINE r == Request(op, 0)
<1>1. r.op \notin {"list", "part", "join"}
  BY DEF Request
<1>2. /\ online /\ upward' = Append(upward, r) /\ tnext' = tnext + 1 /\ invites' = invites /\ joins' = joins
      /\ UNCHANGED <<online, chats, shutAt, down, within, called, made>>
  BY DEF ChatUser, hostVars
<1>3. JoinsMarked(joins', shutAt)
  BY <1>2 DEF FollowInv, Sound
<1> HIDE DEF r
<1> QED BY <1>1, <1>2, <1>3, AskFollows

\* An invitation is declined.
LEMMA RejectChatFollows ==
    ASSUME FollowInv, NEW c \in Cids, RejectChat(c)
    PROVE  Sound' /\ Tracks(online', down', chats', shutAt', within', called', upward')
<1> DEFINE r == Request("decline", c)
<1>1. r.op \notin {"list", "part", "join"}
  BY DEF Request
<1>2. /\ online /\ upward' = Append(upward, r) /\ tnext' = tnext + 1 /\ invites' \subseteq invites /\ joins' = joins
      /\ UNCHANGED <<online, chats, shutAt, down, within, called, made>>
  BY DEF RejectChat, hostVars
<1>3. JoinsMarked(joins', shutAt)
  BY <1>2 DEF FollowInv, Sound
<1> HIDE DEF r
<1> QED BY <1>1, <1>2, <1>3, AskFollows

\* A join is asked for, under a number no other has.
LEMMA ChatJoinFollows ==
    ASSUME FollowInv, NEW c \in Cids, ChatJoin(c)
    PROVE  Sound' /\ Tracks(online', down', chats', shutAt', within', called', upward')
<1> DEFINE r == Request("join", c)
           new == [trans |-> tnext, cid |-> c, parted |-> FALSE]
<1>1. r.op = "join" /\ r.cid = c
  BY DEF Request
<1>2. /\ online /\ upward' = Append(upward, r) /\ tnext' = tnext + 1 /\ invites' \subseteq invites
      /\ joins' = joins \cup {new}
      /\ UNCHANGED <<online, chats, shutAt, down, within, called, made>>
  BY DEF ChatJoin, hostVars
<1>3. new.trans = tnext /\ new.cid = c /\ new.parted = FALSE
  OBVIOUS
<1>4. tnext \in Nat /\ \A j \in joins : j.trans \in Nat /\ j.trans < tnext
  BY DEF FollowInv, RosterInv, JoinsOK
<1> HIDE DEF r, new
<1>5. JoinsMarked(joins', shutAt)
  <2>1. JoinsMarked(joins, shutAt)
    BY DEF FollowInv, Sound
  <2>2. \A j \in joins : j.trans # new.trans
    BY <1>3, <1>4
  <2> QED BY <1>2, <1>3, <2>1, <2>2 DEF JoinsMarked
<1> QED BY <1>1, <1>2, <1>5, AskFollows

\* A closed tab is followed no more.
LEMMA CloseTabFollows ==
    ASSUME FollowInv, NEW c \in Cids, CloseTab(c)
    PROVE  Sound' /\ Tracks(online', down', chats', shutAt', within', called', upward')
<1> DEFINE r == Request("part", c)
           mark(j) == [j EXCEPT !.parted = @ \/ j.cid = c]
           s == [shutAt EXCEPT ![c] = tnext]
<1>1. r.op = "part" /\ r.cid = c
  BY DEF Request
<1>2. /\ online /\ upward' = Append(upward, r) /\ tnext' = tnext + 1 /\ joins' = {mark(j) : j \in joins}
      /\ shutAt' = s /\ chats' = Shut(c)
      /\ UNCHANGED <<online, invites, down, within, called, made>>
  BY DEF CloseTab, JoinParted, hostVars
<1>3. RosterInv /\ Sound /\ Sequence(upward) /\ tnext \in Nat /\ tnext >= 1 /\ shutAt \in [Cids -> Nat]
  BY DEF FollowInv, RosterInv, Sound
<1>4. s[c] = tnext /\ s[c] # 0 /\ \A d \in Cids : d # c => s[d] = shutAt[d]
  BY <1>3
<1> HIDE DEF r, s
<1>5. UpOK(upward', s) /\ Asking(upward') = Asking(upward)
  <2>1. UpOK(upward, shutAt)
    BY <1>3 DEF Sound
  <2>2. \A d \in Cids : shutAt[d] # 0 => s[d] # 0
    BY <1>4
  <2>3. r.op # "list" /\ (r.op \in {"join", "part"} => r.cid \in Cids) /\ (r.op = "part" => s[r.cid] # 0)
    BY <1>1, <1>4
  <2> QED BY <1>2, <1>3, <2>1, <2>2, <2>3, UpMore
<1>6. JoinsMarked(joins', s)
  <2>1. ASSUME NEW j \in joins
        PROVE  mark(j).trans = j.trans /\ mark(j).cid = j.cid /\ (mark(j).parted <=> j.parted \/ j.cid = c)
               /\ j.cid \in Cids
    <3>1. j \in [trans : Nat, cid : Cids, parted : BOOLEAN]
      BY <1>3 DEF RosterInv, JoinsOK
    <3> DEFINE b == j.parted \/ j.cid = c
    <3>2. mark(j) = [j EXCEPT !.parted = b] /\ b \in BOOLEAN
      BY <3>1
    <3> HIDE DEF b, mark
    <3>3. mark(j).trans = j.trans /\ mark(j).cid = j.cid /\ mark(j).parted = b
      BY <3>1, <3>2
    <3> QED BY <3>1, <3>3 DEF b
  <2> HIDE DEF mark
  <2>2. JoinsMarked(joins, shutAt)
    BY <1>3 DEF Sound
  <2>3. ASSUME NEW j \in joins, mark(j).parted PROVE s[mark(j).cid] # 0
    <3>1. CASE j.cid = c
      BY <1>4, <2>1, <3>1
    <3>2. CASE j.cid # c
      BY <1>4, <2>1, <2>2, <2>3, <3>2 DEF JoinsMarked
    <3> QED BY <3>1, <3>2
  <2>4. ASSUME NEW j \in joins, NEW k \in joins, mark(j).trans = mark(k).trans PROVE mark(j).cid = mark(k).cid
    BY <2>1, <2>2, <2>4 DEF JoinsMarked
  <2> DEFINE J == joins'
  <2>5. \A k \in J : \E j \in joins : k = mark(j)
    BY <1>2
  <2> HIDE DEF J
  <2>6. JoinsMarked(J, s)
    BY <2>3, <2>4, <2>5 DEF JoinsMarked
  <2> QED BY <2>6 DEF J
<1>7. /\ ChatsOK(chats) /\ chats \in [AllCids -> [known : BOOLEAN, open : BOOLEAN, members : Listed, rows : Listed]]
      /\ (\A d \in AllCids : ChatOK(chats[d])) /\ chats[0].known /\ chats[0].open /\ c # 0 /\ c \in AllCids
  BY <1>3, RosterAssumption DEF Sound, ChatsOK, AllCids
<1> DEFINE K == chats'
           x == [chats[c] EXCEPT !.open = FALSE, !.rows = NoOne]
<1>8. /\ K[c] = x /\ (\A d \in AllCids : d # c => K[d] = chats[d]) /\ K = [d \in AllCids |-> K[d]]
  <2>1. K = [chats EXCEPT ![c].open = FALSE, ![c].rows = NoOne]
    BY <1>2 DEF Shut
  <2> QED BY <1>7, <2>1
<1>9. ChatOK(x)
  <2> DEFINE y == chats[c]
  <2>1. y \in [known : BOOLEAN, open : BOOLEAN, members : Listed, rows : Listed] /\ ChatOK(y) /\ NoOne \in Listed
    BY <1>7 DEF NoOne, Listed
  <2>2. x = [y EXCEPT !.open = FALSE, !.rows = NoOne]
    OBVIOUS
  <2> HIDE DEF y, x
  <2>3. /\ x.known = y.known /\ x.open = FALSE /\ x.members = y.members /\ x.rows = NoOne
        /\ x \in [known : BOOLEAN, open : BOOLEAN, members : Listed, rows : Listed]
    BY <2>1, <2>2
  <2> QED BY <2>1, <2>3 DEF ChatOK
<1> HIDE DEF K, x
<1>10. ChatsOK(K)
  <2>1. \A d \in AllCids : ChatOK(K[d])
    BY <1>7, <1>8, <1>9
  <2>2. \A d \in AllCids : K[d] \in [known : BOOLEAN, open : BOOLEAN, members : Listed, rows : Listed]
    BY <2>1 DEF ChatOK
  <2>3. K \in [AllCids -> [known : BOOLEAN, open : BOOLEAN, members : Listed, rows : Listed]]
    BY <1>8, <2>2, Zenon
  <2>4. K[0] = chats[0]
    BY <1>7, <1>8 DEF AllCids
  <2> QED BY <1>7, <2>1, <2>3, <2>4 DEF ChatsOK
<1>11. Followed(s) \in SUBSET Followed(shutAt) /\ c \notin Followed(s)
  BY <1>4, <1>7, RosterAssumption DEF Followed, AllCids
<1>12. Follows(down, Shown(K), Followed(s), within, called, Asking(upward)) /\ Me \in within[0]
  <2>1. \A d \in Followed(s) : Shown(K)[d] = Shown(chats)[d]
    BY <1>8, <1>11 DEF Shown, Followed
  <2>2. Follows(down, Shown(chats), Followed(shutAt), within, called, Asking(upward)) /\ Me \in within[0]
    BY <1>2 DEF FollowInv, Tracks
  <2> QED BY <1>11, <2>1, <2>2, FollowsFewer
<1>13. Tracks(online', down', chats', shutAt', within', called', upward')
  BY <1>2, <1>5, <1>12 DEF Tracks, K
<1>14. tnext' >= 1
  BY <1>2, <1>3
<1> QED BY <1>2, <1>3, <1>5, <1>6, <1>10, <1>13, <1>14 DEF Sound, K

\* A connection is made: the list is asked for, and nothing is shown before it.
LEMMA OpenLinkFollows ==
    ASSUME FollowInv, OpenLink
    PROVE  Sound' /\ Tracks(online', down', chats', shutAt', within', called', upward')
<1> DEFINE r == Request("list", 0)
           m == [op |-> "change", cid |-> 0, uid |-> Me, name |-> called[Me]]
           X == [within EXCEPT ![0] = @ \cup {Me}]
           D == Followed(shutAt)
           V == Shown(chats)
<1>1. /\ ~online /\ online' = TRUE /\ within' = X /\ upward' = <<r>> /\ tnext' = tnext + 1
      /\ down' = <<>> \/ down' = <<m>>
      /\ UNCHANGED <<chats, joins, invites, shutAt, called, made>>
  BY DEF OpenLink
<1>2. RosterInv /\ Sound /\ NoneShown(chats) /\ tnext \in Nat /\ ServerOK(within, called, made)
      /\ \A c \in AllCids : Me \notin within[c]
  BY <1>1 DEF FollowInv, Tracks, RosterInv, Sound, AllCids
<1>3. /\ within \in [AllCids -> SUBSET People] /\ called \in [People -> Names] /\ Me \in People
      /\ X[0] = within[0] \cup {Me} /\ \A c \in Cids : X[c] = within[c] /\ c # 0
  BY <1>2, RosterAssumption DEF ServerOK, People, AllCids
<1>4. ServerOK(X, called, made)
  <2>1. X \in [AllCids -> SUBSET People]
    BY <1>3 DEF AllCids
  <2> HIDE DEF X
  <2> QED BY <1>2, <1>3, <2>1 DEF ServerOK
<1>5. /\ m.op = "change" /\ m.cid = 0 /\ m.uid = Me /\ m.name = called[Me] /\ r.op = "list"
  BY DEF Request
<1> HIDE DEF X, m, r
<1>6. MessageOK(m)
  BY <1>3, <1>5 DEF MessageOK, AllCids
<1>7. Sequence(<<>>) /\ Len(<<>>) = 0 /\ DownOK(<<>>) /\ <<m>> = <<>> \o <<m>>
  <2>1. <<>> \in Seq({}) /\ Len(<<>>) = 0
    OBVIOUS
  <2>2. <<m>> = <<>> \o <<m>>
    <3>1. <<m>> \in Seq({m})
      OBVIOUS
    <3> QED BY <3>1, ConcatEmptySeq
  <2> QED BY <2>1, <2>2 DEF Sequence, DownOK
<1>8. DownOK(down')
  BY <1>1, <1>6, <1>7, DownMore
<1>9. UpOK(upward', shutAt) /\ Asking(upward') = TRUE
  <2>1. Len(<<r>>) = 1 /\ <<r>>[1] = r /\ <<r>> # <<>>
    OBVIOUS
  <2>2. \A i \in 1..1 : i = 1
    OBVIOUS
  <2> QED BY <1>1, <1>5, <2>1, <2>2 DEF UpOK, Asking
<1>10. D \in SUBSET AllCids /\ 0 \in D
  BY FollowedChats
<1> HIDE DEF D
<1>11. /\ \A c \in AllCids : V[c] \in Views /\ V[c].open = (c = 0)
       /\ \A c \in AllCids : \A u \in People : V[c].members[u] = NotListed /\ V[c].rows[u] = NotListed
  <2> SUFFICES ASSUME NEW c \in AllCids
               PROVE  /\ V[c] \in Views /\ V[c].open = (c = 0)
                      /\ \A u \in People : V[c].members[u] = NotListed /\ V[c].rows[u] = NotListed
    OBVIOUS
  <2> DEFINE b == c = 0
  <2>1. V[c] = [open |-> b, members |-> NoOne, rows |-> NoOne] /\ b \in BOOLEAN
    BY <1>2 DEF NoneShown, Shown
  <2>2. NoOne \in Listed /\ \A u \in People : NoOne[u] = NotListed
    BY DEF NoOne, Listed
  <2> HIDE DEF b
  <2>3. V[c] \in Views /\ V[c].open = b /\ V[c].members = NoOne /\ V[c].rows = NoOne
    BY <2>1, <2>2 DEF Views
  <2> QED BY <2>2, <2>3 DEF b
<1> HIDE DEF V
<1>12. \A c \in D : Agrees(V[c], X, called, c, TRUE)
  <2> SUFFICES ASSUME NEW c \in D PROVE Agrees(V[c], X, called, c, TRUE)
    OBVIOUS
  <2>1. c \in AllCids /\ (c # 0 => c \in Cids)
    BY <1>10 DEF AllCids
  <2>2. c # 0 => Me \notin X[c]
    BY <1>2, <1>3, <2>1
  <2> QED BY <1>11, <2>1, <2>2 DEF Agrees
<1>13. Follows(<<>>, V, D, X, called, TRUE)
  <2> DEFINE T == [i \in {0} |-> V]
  <2>1. T[0] = V /\ Len(<<>>) = 0 /\ 1..0 = {}
    OBVIOUS
  <2> HIDE DEF T
  <2>2. Replays(T, <<>>, V, D)
    BY <2>1 DEF Replays
  <2> QED BY <1>12, <2>1, <2>2 DEF Follows
<1>14. Follows(<<m>>, V, D, X, called, TRUE)
  <2> DEFINE T == [i \in {0, 1} |-> V]
  <2>1. T[0] = V /\ T[1] = V /\ Len(<<m>>) = 1 /\ <<m>>[1] = m /\ \A i \in 1..1 : i = 1 /\ i - 1 = 0
    OBVIOUS
  <2> HIDE DEF T
  <2>2. ASSUME NEW c \in D PROVE After(V, m, c) = V[c]
    <3>1. 0 \in AllCids /\ c \in AllCids /\ V[0].members[Me] = NotListed /\ V[c].members[Me] = NotListed
      BY <1>3, <1>10, <1>11
    <3>2. ~Reaches(V, m, c) /\ ~Drops(m, c) /\ ~Fills(m, c)
      BY <1>5, <3>1 DEF Reaches, Drops, Fills
    <3> QED BY <3>2 DEF After
  <2>3. Replays(T, <<m>>, V, D)
    BY <2>1, <2>2 DEF Replays
  <2> QED BY <1>12, <2>1, <2>3 DEF Follows
<1>15. Tracks(online', down', chats', shutAt', within', called', upward')
  <2>1. Me \in X[0]
    BY <1>3
  <2>2. Follows(down', V, D, X, called, TRUE)
    BY <1>1, <1>13, <1>14
  <2> QED BY <1>1, <1>9, <2>1, <2>2 DEF Tracks, V, D
<1>16. \A c \in Cids : Me \notin X[c]
  BY <1>2, <1>3 DEF AllCids
<1>17. tnext' >= 1
  BY <1>1, <1>2
<1> QED BY <1>1, <1>2, <1>4, <1>8, <1>9, <1>15, <1>16, <1>17 DEF Sound

\* No chat is shown but the public one, without anybody.
Emptied(c) == [Unknown EXCEPT !.known = c = 0, !.open = c = 0]
\* ... is what is left, and before the first connection.
LEMMA NoChatsShown ==
    ASSUME NEW K, K = [c \in AllCids |-> Emptied(c)]
    PROVE  ChatsOK(K) /\ NoneShown(K)
<1>1. NoOne \in Listed
  BY DEF NoOne, Listed
<1>2. ASSUME NEW c \in AllCids
      PROVE  /\ ChatOK(K[c]) /\ View(K[c]) = [open |-> c = 0, members |-> NoOne, rows |-> NoOne]
             /\ c = 0 => K[c].known /\ K[c].open
  <2> DEFINE b == c = 0
             t == K[c]
  <2>0. b \in BOOLEAN
    OBVIOUS
  <2>1. t = [Unknown EXCEPT !.known = b, !.open = b]
    BY DEF Emptied
  <2> HIDE DEF b, t
  <2>2. t = [known |-> b, open |-> b, members |-> NoOne, rows |-> NoOne]
    BY <2>1 DEF Unknown
  <2>3. /\ t.known = b /\ t.open = b /\ t.members = NoOne /\ t.rows = NoOne
        /\ t \in [known : BOOLEAN, open : BOOLEAN, members : Listed, rows : Listed]
    BY <1>1, <2>0, <2>2
  <2>4. ChatOK(t) /\ View(t) = [open |-> b, members |-> NoOne, rows |-> NoOne]
    BY <2>3 DEF ChatOK, View
  <2>5. c = 0 => t.known /\ t.open
    BY <2>3 DEF b
  <2> QED BY <2>4, <2>5 DEF t, b
<1>3. K = [c \in AllCids |-> K[c]]
  OBVIOUS
<1> HIDE DEF AllCids
<1>4. \A c \in AllCids : K[c] \in [known : BOOLEAN, open : BOOLEAN, members : Listed, rows : Listed]
  BY <1>2 DEF ChatOK
<1>5. K \in [AllCids -> [known : BOOLEAN, open : BOOLEAN, members : Listed, rows : Listed]]
  BY <1>3, <1>4, Zenon
<1>6. K[0].known /\ K[0].open
  BY <1>2 DEF AllCids
<1> QED BY <1>2, <1>5, <1>6 DEF ChatsOK, NoneShown

\* The connection goes.
LEMMA CloseLinkFollows ==
    ASSUME FollowInv, CloseLink
    PROVE  Sound' /\ Tracks(online', down', chats', shutAt', within', called', upward')
<1> DEFINE X == [c \in DOMAIN within |-> within[c] \ {Me}]
<1>1. /\ online' = FALSE /\ chats' = NoChats /\ joins' = {} /\ invites' = {} /\ tnext' = 1
      /\ upward' = <<>> /\ down' = <<>> /\ within' = X /\ UNCHANGED <<called, made>>
  BY DEF CloseLink, Forget
<1>2. ServerOK(within, called, made) /\ DOMAIN chats = AllCids
  BY DEF FollowInv, Sound, ChatsOK
<1>3. ServerOK(X, called, made) /\ \A c \in Cids : Me \notin X[c]
  <2>1. /\ within \in [AllCids -> SUBSET People]
        /\ \A c \in Cids : within[c] \subseteq within[0] /\ (c \notin made => within[c] = {})
    BY <1>2 DEF ServerOK
  <2>2. X \in [AllCids -> SUBSET People] /\ \A c \in AllCids : X[c] = within[c] \ {Me}
    BY <2>1
  <2>3. \A c \in Cids : c \in AllCids /\ 0 \in AllCids
    BY DEF AllCids
  <2> HIDE DEF X
  <2> QED BY <1>2, <2>1, <2>2, <2>3 DEF ServerOK
<1> HIDE DEF X
<1>4. ChatsOK(chats') /\ NoneShown(chats')
  <2> DEFINE K == chats'
  <2>1. K = [c \in AllCids |-> Emptied(c)]
    BY <1>1, <1>2 DEF NoChats, Emptied
  <2> HIDE DEF K
  <2>2. ChatsOK(K) /\ NoneShown(K)
    BY <2>1, NoChatsShown
  <2> QED BY <2>2 DEF K
<1>5. UpOK(<<>>, shutAt') /\ DownOK(<<>>) /\ JoinsMarked({}, shutAt')
  BY DEF UpOK, DownOK, JoinsMarked
<1>6. Tracks(online', down', chats', shutAt', within', called', upward')
  BY <1>1, <1>4 DEF Tracks
<1> QED BY <1>1, <1>3, <1>4, <1>5, <1>6 DEF Sound

\* At the start nothing is shown either.
LEMMA FollowInit == RosterInit => FollowInv
<1> SUFFICES ASSUME RosterInit PROVE FollowInv
  OBVIOUS
<1>1. RosterInv
  BY RosterInit_Inv
<1>2. /\ online = FALSE /\ joins = {} /\ invites = {} /\ tnext = 1 /\ upward = <<>> /\ down = <<>> /\ made = {}
      /\ called = [u \in People |-> CHOOSE n \in Names : TRUE]
  BY DEF RosterInit
<1>3. ChatsOK(chats) /\ NoneShown(chats)
  <2>1. chats = [c \in AllCids |-> Emptied(c)]
    BY DEF RosterInit, AllCids, Emptied
  <2> QED BY <2>1, NoChatsShown
<1>4. ServerOK(within, called, made) /\ \A c \in Cids : Me \notin within[c]
  <2>1. (CHOOSE n \in Names : TRUE) \in Names
    BY RosterAssumption
  <2>2. called \in [People -> Names]
    BY <1>2, <2>1
  <2>3. PICK there \in SUBSET Others : within = [c \in AllCids |-> IF c = 0 THEN there ELSE {}]
    BY DEF RosterInit, AllCids
  <2>4. within \in [AllCids -> SUBSET People] /\ \A c \in Cids : within[c] = {}
    BY <2>3, RosterAssumption DEF AllCids, People
  <2> QED BY <1>2, <2>2, <2>4 DEF ServerOK
<1>5. UpOK(<<>>, shutAt) /\ DownOK(<<>>) /\ JoinsMarked({}, shutAt)
  BY DEF UpOK, DownOK, JoinsMarked
<1>6. Sound
  BY <1>2, <1>3, <1>4, <1>5 DEF Sound
<1>7. Tracks(online, down, chats, shutAt, within, called, upward)
  BY <1>2, <1>3 DEF Tracks
<1> QED BY <1>1, <1>6, <1>7 DEF FollowInv

\* What the server and the other users do leaves the client as it is.
LEMMA HostFollows ==
    ASSUME FollowInv, UNCHANGED <<online, chats, joins, invites, tnext, shutAt>>,
           ServerOK(within', called', made'), UpOK(upward', shutAt), DownOK(down'),
           Asking(upward') => \A c \in Cids : Me \notin within'[c],
           online => /\ Me \in within'[0]
                     /\ Follows(down', Shown(chats), Followed(shutAt), within', called', Asking(upward'))
    PROVE  Sound' /\ Tracks(online', down', chats', shutAt', within', called', upward')
<1>1. Tracks(online', down', chats', shutAt', within', called', upward')
  BY DEF FollowInv, Tracks
<1>2. Sound'
  BY DEF FollowInv, Sound
<1> QED BY <1>1, <1>2

\* What is known of the server and the channels.
LEMMA FollowFacts ==
    ASSUME FollowInv
    PROVE  /\ Sequence(upward) /\ Sequence(down) /\ ServerOK(within, called, made)
           /\ UpOK(upward, shutAt) /\ DownOK(down)
           /\ within \in [AllCids -> SUBSET People] /\ called \in [People -> Names] /\ made \subseteq Cids
           /\ \A c \in Cids : within[c] \subseteq within[0] /\ (c \notin made => within[c] = {})
           /\ Asking(upward) => \A c \in Cids : Me \notin within[c]
           /\ online => /\ Me \in within[0]
                        /\ Follows(down, Shown(chats), Followed(shutAt), within, called, Asking(upward))
           /\ ~online => \A c \in AllCids : Me \notin within[c]
           /\ Me \in People /\ Me \notin Others /\ Others \subseteq People
           /\ 0 \in AllCids /\ 0 \notin Cids /\ Cids \subseteq AllCids
  BY RosterAssumption DEF FollowInv, Sound, RosterInv, Tracks, ServerOK, AllCids, People

\* Somebody arrives.
LEMMA ArriveFollows ==
    ASSUME FollowInv, NEW c \in Cids \cup {0}, NEW u \in Others, Arrive(c, u)
    PROVE  Sound' /\ Tracks(online', down', chats', shutAt', within', called', upward')
<1> DEFINE X == [within EXCEPT ![c] = @ \cup {u}]
           m == ChangeOf(c, u, called[u])
           e == down'
           t == Me \in within[c]
           D == Followed(shutAt)
           V == Shown(chats)
           a == Asking(upward)
<1>1. /\ UNCHANGED <<online, chats, joins, invites, tnext, shutAt, upward, called, made>>
      /\ u \notin within[c] /\ (c # 0 => u \in within[0] /\ within[c] # {}) /\ within' = X
      /\ (t => e = down \o <<m>>) /\ (~t => e = down)
  BY DEF Arrive, clientVars, Tell
<1>2. m.op = "change" /\ m.cid = c /\ m.uid = u /\ m.name = called[u]
  BY DEF ChangeOf
<1>3. c \in AllCids /\ u \in People /\ u # Me /\ called[u] \in Names
  BY FollowFacts DEF AllCids
<1>4. /\ X \in [AllCids -> SUBSET People] /\ X[c] = within[c] \cup {u}
      /\ \A d \in AllCids : d # c => X[d] = within[d]
      /\ \A d \in AllCids : Me \in X[d] <=> Me \in within[d]
  BY <1>3, FollowFacts
<1> HIDE DEF X, m, e, t, D, V, a
<1>5. ServerOK(X, called, made)
  <2>1. ASSUME NEW d \in Cids PROVE X[d] \subseteq X[0] /\ (d \notin made => X[d] = {})
    <3>1. d \in AllCids /\ d # 0 /\ 0 \in AllCids /\ within[d] \subseteq within[0]
          /\ (d \notin made => within[d] = {})
      BY FollowFacts
    <3>2. CASE d = c
      BY <1>1, <1>4, <3>1, <3>2
    <3>3. CASE d # c
      BY <1>4, <3>1, <3>3
    <3> QED BY <3>2, <3>3
  <2> QED BY <1>4, <2>1, FollowFacts DEF ServerOK
<1>6. DownOK(e)
  <2>1. MessageOK(m)
    BY <1>2, <1>3 DEF MessageOK
  <2>2. Sequence(down) /\ DownOK(down)
    BY FollowFacts
  <2>3. CASE t
    BY <1>1, <2>1, <2>2, <2>3, DownMore
  <2>4. CASE ~t
    BY <1>1, <2>2, <2>4
  <2> QED BY <2>3, <2>4
<1>7. D \in SUBSET AllCids /\ 0 \in D
  BY FollowedChats DEF D
<1>8. ASSUME online PROVE Follows(e, V, D, X, called, a)
  <2>1. Sequence(down) /\ Follows(down, V, D, within, called, a) /\ ServerOK(within, called, made) /\ Me \in within[0]
    BY <1>8, FollowFacts DEF V, D, a
  <2>2. CASE t
    <3>1. ASSUME NEW F, \A d \in D : Agrees(F[d], within, called, d, a)
          PROVE  \A d \in D : Agrees(After(F, m, d), X, called, d, a)
      BY <1>1, <1>2, <1>3, <1>7, <2>1, <2>2, <3>1, ArriveAgrees DEF X, t
    <3>2. Carries(D, within, called, a, m, X, called, a)
      BY <3>1 DEF Carries
    <3> QED BY <1>1, <2>1, <2>2, <3>2, FollowsSaid
  <2>3. CASE ~t
    <3>1. c \in Cids /\ Me \notin within[c] /\ Me \notin X[c]
      BY <1>3, <1>4, <2>1, <2>3 DEF t
    <3>2. \A d \in AllCids : d # c => X[d] = within[d]
      BY <1>4
    <3>3. Keeps(D, within, called, a, X, called, a)
      BY <1>7, <3>1, <3>2, ElsewhereAgrees
    <3> QED BY <1>1, <2>1, <2>3, <3>3, FollowsSame
  <2> QED BY <2>2, <2>3
<1>9. \A d \in Cids : Me \notin within[d] => Me \notin X[d]
  BY <1>4, FollowFacts
<1>10. online => Me \in X[0]
  BY <1>4, FollowFacts
<1>11. online => Follows(e, V, D, X, called, a)
  BY <1>8
<1>12. /\ ServerOK(within', called', made') /\ UpOK(upward', shutAt) /\ DownOK(down')
       /\ Asking(upward') => \A d \in Cids : Me \notin within'[d]
  BY <1>1, <1>5, <1>6, <1>9, FollowFacts DEF e
<1>13. online => /\ Me \in within'[0]
                 /\ Follows(down', Shown(chats), Followed(shutAt), within', called', Asking(upward'))
  BY <1>1, <1>10, <1>11 DEF e, V, D, a
<1> QED BY <1>1, <1>12, <1>13, HostFollows

\* Somebody departs.
LEMMA DepartFollows ==
    ASSUME FollowInv, NEW c \in Cids \cup {0}, NEW u \in Others, Depart(c, u)
    PROVE  Sound' /\ Tracks(online', down', chats', shutAt', within', called', upward')
<1> DEFINE X == [within EXCEPT ![c] = @ \ {u}]
           m == [op |-> "left", cid |-> c, uid |-> u]
           e == down'
           t == Me \in within[c]
           D == Followed(shutAt)
           V == Shown(chats)
           a == Asking(upward)
<1>1. /\ UNCHANGED <<online, chats, joins, invites, tnext, shutAt, upward, called, made>>
      /\ (c = 0 => \A d \in Cids : u \notin within[d]) /\ within' = X
      /\ (t => e = down \o <<m>>) /\ (~t => e = down)
  BY DEF Depart, clientVars, Tell
<1>2. m.op = "left" /\ m.cid = c /\ m.uid = u
  OBVIOUS
<1>3. c \in AllCids /\ u \in People /\ u # Me
  BY FollowFacts DEF AllCids
<1>4. /\ X \in [AllCids -> SUBSET People] /\ X[c] = within[c] \ {u}
      /\ \A d \in AllCids : d # c => X[d] = within[d]
      /\ \A d \in AllCids : Me \in X[d] <=> Me \in within[d]
  BY <1>3, FollowFacts
<1> HIDE DEF X, m, e, t, D, V, a
<1>5. ServerOK(X, called, made)
  <2>1. ASSUME NEW d \in Cids PROVE X[d] \subseteq X[0] /\ (d \notin made => X[d] = {})
    <3>1. d \in AllCids /\ d # 0 /\ 0 \in AllCids /\ within[d] \subseteq within[0]
          /\ (d \notin made => within[d] = {})
      BY FollowFacts
    <3>2. CASE d = c
      BY <1>1, <1>4, <3>1, <3>2
    <3>3. CASE d # c
      BY <1>1, <1>4, <3>1, <3>3
    <3> QED BY <3>2, <3>3
  <2> QED BY <1>4, <2>1, FollowFacts DEF ServerOK
<1>6. DownOK(e)
  <2>1. MessageOK(m)
    BY <1>2, <1>3 DEF MessageOK
  <2>2. Sequence(down) /\ DownOK(down)
    BY FollowFacts
  <2>3. CASE t
    BY <1>1, <2>1, <2>2, <2>3, DownMore
  <2>4. CASE ~t
    BY <1>1, <2>2, <2>4
  <2> QED BY <2>3, <2>4
<1>7. D \in SUBSET AllCids /\ 0 \in D
  BY FollowedChats DEF D
<1>8. ASSUME online PROVE Follows(e, V, D, X, called, a)
  <2>1. Sequence(down) /\ Follows(down, V, D, within, called, a) /\ ServerOK(within, called, made) /\ Me \in within[0]
    BY <1>8, FollowFacts DEF V, D, a
  <2>2. CASE t
    <3>1. ASSUME NEW F, \A d \in D : Agrees(F[d], within, called, d, a)
          PROVE  \A d \in D : Agrees(After(F, m, d), X, called, d, a)
      BY <1>1, <1>2, <1>3, <1>7, <2>1, <2>2, <3>1, DepartAgrees DEF X, t
    <3>2. Carries(D, within, called, a, m, X, called, a)
      BY <3>1 DEF Carries
    <3> QED BY <1>1, <2>1, <2>2, <3>2, FollowsSaid
  <2>3. CASE ~t
    <3>1. c \in Cids /\ Me \notin within[c] /\ Me \notin X[c]
      BY <1>3, <1>4, <2>1, <2>3 DEF t
    <3>2. \A d \in AllCids : d # c => X[d] = within[d]
      BY <1>4
    <3>3. Keeps(D, within, called, a, X, called, a)
      BY <1>7, <3>1, <3>2, ElsewhereAgrees
    <3> QED BY <1>1, <2>1, <2>3, <3>3, FollowsSame
  <2> QED BY <2>2, <2>3
<1>9. \A d \in Cids : Me \notin within[d] => Me \notin X[d]
  BY <1>4, FollowFacts
<1>10. online => Me \in X[0]
  BY <1>4, FollowFacts
<1>11. online => Follows(e, V, D, X, called, a)
  BY <1>8
<1>12. /\ ServerOK(within', called', made') /\ UpOK(upward', shutAt) /\ DownOK(down')
       /\ Asking(upward') => \A d \in Cids : Me \notin within'[d]
  BY <1>1, <1>5, <1>6, <1>9, FollowFacts DEF e
<1>13. online => /\ Me \in within'[0]
                 /\ Follows(down', Shown(chats), Followed(shutAt), within', called', Asking(upward'))
  BY <1>1, <1>10, <1>11 DEF e, V, D, a
<1> QED BY <1>1, <1>12, <1>13, HostFollows

\* Somebody is called otherwise.
LEMMA RenameFollows ==
    ASSUME FollowInv, NEW u \in People, NEW n \in Names, Rename(u, n)
    PROVE  Sound' /\ Tracks(online', down', chats', shutAt', within', called', upward')
<1> DEFINE X == [called EXCEPT ![u] = n]
           m == ChangeOf(0, u, n)
           e == down'
           t == Me \in within[0]
           D == Followed(shutAt)
           V == Shown(chats)
           a == Asking(upward)
<1>1. /\ UNCHANGED <<online, chats, joins, invites, tnext, shutAt, upward, within, made>>
      /\ u \in within[0] /\ called' = X /\ (t => e = down \o <<m>>) /\ (~t => e = down)
  BY DEF Rename, clientVars, Tell
<1>2. m.op = "change" /\ m.cid = 0 /\ m.uid = u /\ m.name = n
  BY DEF ChangeOf
<1>3. X \in [People -> Names]
  BY FollowFacts
<1> HIDE DEF m, e, t, D, V, a
<1>5. ServerOK(within, X, made)
  BY <1>3, FollowFacts DEF ServerOK
<1>6. DownOK(e)
  <2>1. MessageOK(m)
    BY <1>2, FollowFacts DEF MessageOK
  <2>2. Sequence(down) /\ DownOK(down)
    BY FollowFacts
  <2>3. CASE t
    BY <1>1, <2>1, <2>2, <2>3, DownMore
  <2>4. CASE ~t
    BY <1>1, <2>2, <2>4
  <2> QED BY <2>3, <2>4
<1>7. D \in SUBSET AllCids /\ 0 \in D
  BY FollowedChats DEF D
<1>8. ASSUME online PROVE Follows(e, V, D, within, X, a)
  <2>1. /\ Sequence(down) /\ Follows(down, V, D, within, called, a) /\ ServerOK(within, called, made) /\ t
        /\ a => \A c \in Cids : Me \notin within[c]
    BY <1>8, FollowFacts DEF V, D, a, t
  <2>2. ASSUME NEW F, \A d \in D : Agrees(F[d], within, called, d, a)
        PROVE  \A d \in D : Agrees(After(F, m, d), within, X, d, a)
    BY <1>1, <1>2, <1>7, <2>1, <2>2, RenameAgrees
  <2> HIDE DEF X
  <2>3. Carries(D, within, called, a, m, within, X, a)
    BY <2>2 DEF Carries
  <2> QED BY <1>1, <2>1, <2>3, FollowsSaid
<1> HIDE DEF X
<1>11. online => Follows(e, V, D, within, X, a)
  BY <1>8
<1>12. /\ ServerOK(within', called', made') /\ UpOK(upward', shutAt) /\ DownOK(down')
       /\ Asking(upward') => \A d \in Cids : Me \notin within'[d]
  BY <1>1, <1>5, <1>6, FollowFacts DEF e
<1>13. online => /\ Me \in within'[0]
                 /\ Follows(down', Shown(chats), Followed(shutAt), within', called', Asking(upward'))
  BY <1>1, <1>11, FollowFacts DEF e, V, D, a
<1> QED BY <1>1, <1>12, <1>13, HostFollows

\* We are invited to a chat we may not be in.
LEMMA InviteFollows ==
    ASSUME FollowInv, NEW c \in Cids, NEW u \in Others, Invite(c, u)
    PROVE  Sound' /\ Tracks(online', down', chats', shutAt', within', called', upward')
<1> DEFINE X == [within EXCEPT ![c] = @ \cup {u}]
           M == made \cup {c}
           m == [op |-> "invite", cid |-> c]
           e == down'
           D == Followed(shutAt)
           V == Shown(chats)
           a == Asking(upward)
<1>1. /\ UNCHANGED <<online, chats, joins, invites, tnext, shutAt, upward, called>>
      /\ Me \in within[0] /\ u \in within[0] /\ (u \in within[c] \/ c \notin made)
      /\ within' = X /\ made' = M /\ e = Append(down, m)
  BY DEF Invite, clientVars
<1>2. m.op = "invite" /\ m.cid = c
  OBVIOUS
<1>3. c \in AllCids /\ c # 0 /\ u \in People /\ u # Me
  BY FollowFacts
<1>4. /\ X \in [AllCids -> SUBSET People] /\ X[c] = within[c] \cup {u}
      /\ \A d \in AllCids : d # c => X[d] = within[d]
      /\ \A d \in AllCids : Me \in X[d] <=> Me \in within[d]
  BY <1>3, FollowFacts
<1> HIDE DEF X, m, e, D, V, a
<1>5. ServerOK(X, called, M)
  <2>1. ASSUME NEW d \in Cids PROVE X[d] \subseteq X[0] /\ (d \notin M => X[d] = {})
    <3>1. d \in AllCids /\ d # 0 /\ 0 \in AllCids /\ within[d] \subseteq within[0]
          /\ (d \notin made => within[d] = {})
      BY FollowFacts
    <3>2. CASE d = c
      BY <1>1, <1>3, <1>4, <3>1, <3>2
    <3>3. CASE d # c
      BY <1>3, <1>4, <3>1, <3>3
    <3> QED BY <3>2, <3>3
  <2>2. M \subseteq Cids
    BY FollowFacts
  <2> HIDE DEF M
  <2> QED BY <1>4, <2>1, <2>2, FollowFacts DEF ServerOK
<1>6. Sequence(down) /\ DownOK(down) /\ e = down \o <<m>>
  BY <1>1, FollowFacts, SaidOnce
<1>7. DownOK(e)
  <2>1. MessageOK(m)
    BY <1>2 DEF MessageOK
  <2> QED BY <1>6, <2>1, DownMore
<1>8. D \in SUBSET AllCids
  BY FollowedChats DEF D
<1>9. ASSUME online PROVE Follows(e, V, D, X, called, a)
  <2>1. Follows(down, V, D, within, called, a)
    BY <1>9, FollowFacts DEF V, D, a
  <2>2. Keeps(D, within, called, a, X, called, a)
    <3>1. CASE Me \notin within[c]
      <4>1. Me \notin X[c]
        BY <1>3, <1>4, <3>1
      <4>2. \A d \in AllCids : d # c => X[d] = within[d]
        BY <1>4
      <4> QED BY <1>8, <3>1, <4>1, <4>2, ElsewhereAgrees
    <3>2. CASE Me \in within[c]
      <4>1. u \in within[c]
        BY <1>1, <3>2, FollowFacts
      <4>2. \A d \in D : X[d] = within[d]
        BY <1>4, <1>8, <4>1
      <4> QED BY <4>2 DEF Keeps, Agrees
    <3> QED BY <3>1, <3>2
  <2>3. Carries(D, within, called, a, m, X, called, a)
    BY <1>2, <2>2, SilentCarries
  <2> QED BY <1>6, <2>1, <2>3, FollowsSaid
<1>10. \A d \in Cids : Me \notin within[d] => Me \notin X[d]
  BY <1>4, FollowFacts
<1>11. Me \in X[0]
  BY <1>1, <1>4, FollowFacts
<1>12. online => Follows(e, V, D, X, called, a)
  BY <1>9
<1>13. /\ ServerOK(within', called', made') /\ UpOK(upward', shutAt) /\ DownOK(down')
       /\ Asking(upward') => \A d \in Cids : Me \notin within'[d]
  BY <1>1, <1>5, <1>7, <1>10, FollowFacts DEF e
<1>14. online => /\ Me \in within'[0]
                 /\ Follows(down', Shown(chats), Followed(shutAt), within', called', Asking(upward'))
  BY <1>1, <1>11, <1>12 DEF e, V, D, a
<1> QED BY <1>1, <1>13, <1>14, HostFollows

\* What the server has and has said is followed.
Answered(X, M, e, V, D, C) ==
    /\ ServerOK(X, C, M) /\ DownOK(e) /\ Me \in X[0]
    /\ Follows(e, V, D, X, C, FALSE)

\* The server answers with the list of who is there.
LEMMA ListAnswered ==
    ASSUME NEW W, NEW C, NEW M, ServerOK(W, C, M), Me \in W[0], NEW d, Sequence(d), DownOK(d),
           NEW V, NEW D \in SUBSET AllCids, NEW a, Follows(d, V, D, W, C, a), NEW m, NEW e, e = d \o <<m>>,
           m.op = "list", m.list = RollOf(W[0], C)
    PROVE  Answered(W, M, e, V, D, C)
<1>1. MessageOK(m)
  <2>1. C \in [People -> Names]
    BY DEF ServerOK
  <2>2. m.list \in Listed
    BY <2>1, RollIs
  <2> QED BY <2>2 DEF MessageOK
<1>2. DownOK(e)
  BY <1>1, DownMore
<1>3. ASSUME NEW F, \A c \in D : Agrees(F[c], W, C, c, a)
      PROVE  \A c \in D : Agrees(After(F, m, c), W, C, c, FALSE)
  BY <1>3, ListAgrees
<1>4. Carries(D, W, C, a, m, W, C, FALSE)
  BY <1>3 DEF Carries
<1>5. Follows(e, V, D, W, C, FALSE)
  BY <1>4, FollowsSaid
<1> QED BY <1>2, <1>5 DEF Answered

\* ... lets us into a chat.
LEMMA JoinAnswered ==
    ASSUME NEW W, NEW C, NEW M, ServerOK(W, C, M), Me \in W[0], NEW d, Sequence(d), DownOK(d),
           NEW V, NEW D \in SUBSET AllCids, Follows(d, V, D, W, C, FALSE), NEW m, NEW e, e = d \o <<m>>,
           NEW k \in Cids, m.op \in {"joined", "created"}, m.cid = k, m.list = RollOf(W[k] \cup {Me}, C)
    PROVE  Answered([W EXCEPT ![k] = @ \cup {Me}], M \cup {k}, e, V, D, C)
<1> DEFINE X == [W EXCEPT ![k] = @ \cup {Me}]
           N == M \cup {k}
<1>1. /\ W \in [AllCids -> SUBSET People] /\ C \in [People -> Names] /\ M \subseteq Cids
      /\ \A c \in Cids : W[c] \subseteq W[0] /\ (c \notin M => W[c] = {})
  BY DEF ServerOK
<1>2. /\ 0 \in AllCids /\ k # 0 /\ k \in AllCids /\ Me \in People /\ \A c \in Cids : c \in AllCids
  BY RosterAssumption DEF AllCids, People
<1>3. /\ X \in [AllCids -> SUBSET People] /\ X[k] = W[k] \cup {Me} /\ X[0] = W[0]
      /\ \A c \in AllCids : c # k => X[c] = W[c]
  BY <1>1, <1>2
<1>4. MessageOK(m)
  <2>1. m.list \in Listed
    BY <1>1, RollIs
  <2> QED BY <2>1 DEF MessageOK
<1>5. DownOK(e)
  BY <1>4, DownMore
<1>7. Carries(D, W, C, FALSE, m, X, C, FALSE)
  <2> DEFINE a == FALSE
  <2>1. ~a
    OBVIOUS
  <2> SUFFICES Carries(D, W, C, a, m, X, C, a)
    OBVIOUS
  <2> HIDE DEF X, a
  <2>2. X[k] = W[k] \cup {Me} /\ \A c \in AllCids : c # k => X[c] = W[c]
    BY <1>3
  <2>3. LetsIn(m, k, W, C)
    BY DEF LetsIn
  <2> QED BY <2>1, <2>2, <2>3, JoinAgrees
<1> HIDE DEF X
<1>8. Follows(e, V, D, X, C, FALSE)
  BY <1>7, FollowsSaid
<1>9. ServerOK(X, C, N)
  <2>1. ASSUME NEW c \in Cids PROVE X[c] \subseteq X[0] /\ (c \notin N => X[c] = {})
    <3>1. CASE c = k
      BY <1>1, <1>3, <3>1
    <3>2. CASE c # k
      BY <1>1, <1>2, <1>3, <3>2
    <3> QED BY <3>1, <3>2
  <2>2. N \subseteq Cids
    BY <1>1
  <2> HIDE DEF N
  <2> QED BY <1>1, <1>3, <2>1, <2>2 DEF ServerOK
<1>10. Me \in X[0]
  BY <1>3
<1> HIDE DEF N
<1>11. Answered(X, N, e, V, D, C)
  BY <1>5, <1>8, <1>9, <1>10 DEF Answered
<1> QED BY <1>11 DEF X, N

\* ... says what changes no chat.
LEMMA SilentAnswered ==
    ASSUME NEW X, NEW C, NEW M, NEW d, Sequence(d), NEW V, NEW D, Answered(X, M, d, V, D, C),
           NEW m, NEW e, e = d \o <<m>>, m.op \in {"failed", "invite"}, m.op = "invite" => m.cid \in Cids
    PROVE  Answered(X, M, e, V, D, C)
<1>1. MessageOK(m)
  BY DEF MessageOK
<1>2. DownOK(e)
  BY <1>1, DownMore DEF Answered
<1>3. Carries(D, X, C, FALSE, m, X, C, FALSE)
  <2> DEFINE a == FALSE
  <2> SUFFICES Carries(D, X, C, a, m, X, C, a)
    OBVIOUS
  <2> HIDE DEF a
  <2>1. Keeps(D, X, C, a, X, C, a)
    BY DEF Keeps
  <2> QED BY <2>1, SilentCarries
<1>4. Follows(e, V, D, X, C, FALSE)
  BY <1>3, FollowsSaid DEF Answered
<1> QED BY <1>2, <1>4 DEF Answered

\* ... or lets us out of one whose tab is closed.
LEMMA PartAnswered ==
    ASSUME NEW W, NEW C, NEW M, ServerOK(W, C, M), Me \in W[0], NEW d, DownOK(d),
           NEW V, NEW D \in SUBSET AllCids, Follows(d, V, D, W, C, FALSE),
           NEW k \in Cids, k \notin D
    PROVE  Answered([W EXCEPT ![k] = @ \ {Me}], M, d, V, D, C)
<1> DEFINE X == [W EXCEPT ![k] = @ \ {Me}]
<1>1. /\ W \in [AllCids -> SUBSET People] /\ C \in [People -> Names] /\ M \subseteq Cids
      /\ \A c \in Cids : W[c] \subseteq W[0] /\ (c \notin M => W[c] = {})
  BY DEF ServerOK
<1>2. /\ 0 \in AllCids /\ k # 0 /\ k \in AllCids /\ \A c \in Cids : c \in AllCids
  BY RosterAssumption DEF AllCids
<1>3. /\ X \in [AllCids -> SUBSET People] /\ X[k] = W[k] \ {Me} /\ X[0] = W[0]
      /\ \A c \in AllCids : c # k => X[c] = W[c]
  BY <1>1, <1>2
<1> HIDE DEF X
<1>4. ServerOK(X, C, M)
  <2>1. ASSUME NEW c \in Cids PROVE X[c] \subseteq X[0] /\ (c \notin M => X[c] = {})
    <3>1. CASE c = k
      BY <1>1, <1>3, <3>1
    <3>2. CASE c # k
      BY <1>1, <1>2, <1>3, <3>2
    <3> QED BY <3>1, <3>2
  <2> QED BY <1>1, <1>3, <2>1 DEF ServerOK
<1>5. Keeps(D, W, C, FALSE, X, C, FALSE)
  BY <1>3, ElsewhereAgrees
<1>6. Follows(d, V, D, X, C, FALSE)
  BY <1>5, FollowsSame
<1>7. Answered(X, M, d, V, D, C)
  BY <1>3, <1>4, <1>6 DEF Answered
<1> QED BY <1>7 DEF X

\* A request is answered.
LEMMA ServeFollows ==
    ASSUME FollowInv, Serve
    PROVE  Sound' /\ Tracks(online', down', chats', shutAt', within', called', upward')
<1> DEFINE r == Head(upward)
           X == within'
           M == made'
           e == down'
           D == Followed(shutAt)
           V == Shown(chats)
<1>1. upward # <<>> /\ upward' = Tail(upward) /\ UNCHANGED <<online, chats, joins, invites, tnext, shutAt, called>>
  BY DEF Serve, clientVars
<1>2. Sequence(upward) /\ Sequence(down) /\ r = upward[1] /\ online /\ UpOK(upward, shutAt)
  BY <1>1, FollowFacts, SequenceFacts DEF FollowInv, RosterInv
<1>3. /\ UpOK(Tail(upward), shutAt) /\ Asking(Tail(upward)) = FALSE /\ Asking(upward) = (r.op = "list")
      /\ r.op \in {"join", "part"} => r.cid \in Cids
      /\ r.op = "part" => shutAt[r.cid] # 0
  BY <1>1, <1>2, UpFewer
<1>4. /\ ServerOK(within, called, made) /\ Me \in within[0] /\ DownOK(down) /\ D \in SUBSET AllCids
      /\ r.op = "list" => Follows(down, V, D, within, called, TRUE)
      /\ r.op # "list" => Follows(down, V, D, within, called, FALSE)
  <2>1. Follows(down, V, D, within, called, Asking(upward))
    BY <1>2, FollowFacts
  <2>2. D \in SUBSET AllCids
    BY FollowedChats
  <2> HIDE DEF r, D, V
  <2>3. (r.op # "list" => (r.op = "list") = FALSE) /\ (r.op = "list" => (r.op = "list") = TRUE)
    OBVIOUS
  <2> QED BY <1>2, <1>3, <2>1, <2>2, <2>3, FollowFacts
<1>5. \A S : Roll(S) = RollOf(S, called)
  BY DEF Roll, RollOf
<1>6. \/ r.op = "list" /\ e = Append(down, [op |-> "list", list |-> Roll(within[0])]) /\ X = within /\ M = made
      \/ /\ r.op \in {"create", "createself"}
         /\ \E c \in Cids \ made :
               /\ M = made \cup {c} /\ X = [within EXCEPT ![c] = {Me}]
               /\ e = (down \o <<[op |-> "created", cid |-> c, list |-> Roll({Me})]>>)
                      \o IF r.op = "create" THEN <<>> ELSE <<[op |-> "invite", cid |-> c]>>
      \/ /\ r.op = "join" /\ within[r.cid] # {} /\ X = [within EXCEPT ![r.cid] = @ \cup {Me}] /\ M = made
         /\ e = Append(down, [op |-> "joined", trans |-> r.trans, cid |-> r.cid,
                              list |-> Roll(within[r.cid] \cup {Me})])
      \/ r.op # "list" /\ e = Append(down, [op |-> "failed", trans |-> r.trans]) /\ X = within /\ M = made
      \/ r.op = "part" /\ X = [within EXCEPT ![r.cid] = @ \ {Me}] /\ e = down /\ M = made
      \/ r.op = "decline" /\ e = down /\ X = within /\ M = made
  <2> HIDE DEF r
  <2> QED BY DEF Serve, r
<1> HIDE DEF r, X, M, e, D, V
<1>7. r.op # "list" => Answered(within, made, down, V, D, called)
  BY <1>4 DEF Answered
<1>8. Answered(X, M, e, V, D, called)
  <2>1. CASE r.op = "list" /\ e = Append(down, [op |-> "list", list |-> Roll(within[0])]) /\ X = within /\ M = made
    <3> DEFINE m == [op |-> "list", list |-> Roll(within[0])]
    <3>1. m.op = "list" /\ m.list = RollOf(within[0], called) /\ e = Append(down, m)
      BY <1>5, <2>1
    <3> HIDE DEF m
    <3>2. e = down \o <<m>>
      BY <1>2, <3>1, SaidOnce
    <3>3. Follows(down, V, D, within, called, TRUE)
      BY <1>4, <2>1
    <3>4. Answered(within, made, e, V, D, called)
      BY <1>2, <1>4, <3>1, <3>2, <3>3, ListAnswered
    <3> QED BY <2>1, <3>4
  <2>2. CASE /\ r.op \in {"create", "createself"}
             /\ \E c \in Cids \ made :
                   /\ M = made \cup {c} /\ X = [within EXCEPT ![c] = {Me}]
                   /\ e = (down \o <<[op |-> "created", cid |-> c, list |-> Roll({Me})]>>)
                          \o IF r.op = "create" THEN <<>> ELSE <<[op |-> "invite", cid |-> c]>>
    <3>1. PICK c \in Cids \ made :
                   /\ M = made \cup {c} /\ X = [within EXCEPT ![c] = {Me}]
                   /\ e = (down \o <<[op |-> "created", cid |-> c, list |-> Roll({Me})]>>)
                          \o IF r.op = "create" THEN <<>> ELSE <<[op |-> "invite", cid |-> c]>>
      BY <2>2
    <3> DEFINE m == [op |-> "created", cid |-> c, list |-> Roll({Me})]
               b == [op |-> "invite", cid |-> c]
               f == down \o <<m>>
    <3>2. within[c] = {} /\ within[c] \cup {Me} = {Me}
      BY FollowFacts
    <3>3. X = [within EXCEPT ![c] = @ \cup {Me}]
      BY <3>1, <3>2
    <3>4. m.op = "created" /\ m.cid = c /\ m.list = RollOf(within[c] \cup {Me}, called)
          /\ b.op = "invite" /\ b.cid = c
      BY <1>5, <3>2
    <3>5. e = f \o <<>> \/ e = f \o <<b>>
      BY <3>1
    <3> HIDE DEF m, b
    <3>6. Sequence(f)
      BY <1>2, ConcatFacts DEF GoesOn
    <3>7. f \o <<>> = f
      <4>1. PICK S : f \in Seq(S)
        BY <3>6 DEF Sequence
      <4> HIDE DEF f
      <4> QED BY <4>1, ConcatEmptySeq
    <3>8. Answered(X, M, f, V, D, called)
      <4>0. r.op # "list"
        BY <2>2
      <4>1. Follows(down, V, D, within, called, FALSE)
        BY <1>4, <4>0
      <4>2. Answered([within EXCEPT ![c] = @ \cup {Me}], made \cup {c}, f, V, D, called)
        BY <1>2, <1>4, <3>4, <4>1, JoinAnswered
      <4> QED BY <3>1, <3>3, <4>2
    <3> HIDE DEF f
    <3>9. CASE e = f
      BY <3>8, <3>9
    <3>10. CASE e = f \o <<b>>
      BY <3>4, <3>6, <3>8, <3>10, SilentAnswered
    <3> QED BY <3>5, <3>7, <3>9, <3>10
  <2>3. CASE /\ r.op = "join" /\ within[r.cid] # {} /\ X = [within EXCEPT ![r.cid] = @ \cup {Me}] /\ M = made
             /\ e = Append(down, [op |-> "joined", trans |-> r.trans, cid |-> r.cid,
                                  list |-> Roll(within[r.cid] \cup {Me})])
    <3> DEFINE k == r.cid
               m == [op |-> "joined", trans |-> r.trans, cid |-> k, list |-> Roll(within[k] \cup {Me})]
    <3>1. m.op = "joined" /\ m.cid = k /\ m.list = RollOf(within[k] \cup {Me}, called) /\ e = Append(down, m)
      BY <1>5, <2>3
    <3>2. k \in Cids /\ r.op # "list"
      BY <1>3, <2>3
    <3>3. M = made \cup {k}
      <4>1. k \in made
        BY <2>3, <3>2, FollowFacts
      <4> QED BY <2>3, <4>1
    <3>4. X = [within EXCEPT ![k] = @ \cup {Me}]
      BY <2>3
    <3> HIDE DEF m, k
    <3>5. e = down \o <<m>>
      BY <1>2, <3>1, SaidOnce
    <3>6. Follows(down, V, D, within, called, FALSE)
      BY <1>4, <3>2
    <3>7. Answered([within EXCEPT ![k] = @ \cup {Me}], made \cup {k}, e, V, D, called)
      BY <1>2, <1>4, <3>1, <3>2, <3>5, <3>6, JoinAnswered
    <3> QED BY <3>3, <3>4, <3>7
  <2>4. CASE r.op # "list" /\ e = Append(down, [op |-> "failed", trans |-> r.trans]) /\ X = within /\ M = made
    <3> DEFINE m == [op |-> "failed", trans |-> r.trans]
    <3>1. m.op = "failed" /\ e = Append(down, m)
      BY <2>4
    <3> HIDE DEF m
    <3>2. e = down \o <<m>>
      BY <1>2, <3>1, SaidOnce
    <3>3. Answered(within, made, e, V, D, called)
      BY <1>2, <1>7, <2>4, <3>1, <3>2, SilentAnswered
    <3> QED BY <2>4, <3>3
  <2>5. CASE r.op = "part" /\ X = [within EXCEPT ![r.cid] = @ \ {Me}] /\ e = down /\ M = made
    <3> DEFINE k == r.cid
    <3>1. k \in Cids /\ shutAt[k] # 0 /\ r.op # "list"
      BY <1>3, <2>5
    <3>2. X = [within EXCEPT ![k] = @ \ {Me}]
      BY <2>5
    <3> HIDE DEF k
    <3>3. k \notin D
      BY <3>1, FollowedChats DEF D
    <3>4. Follows(down, V, D, within, called, FALSE)
      BY <1>4, <3>1
    <3>5. Answered([within EXCEPT ![k] = @ \ {Me}], made, down, V, D, called)
      BY <1>4, <3>1, <3>3, <3>4, PartAnswered
    <3> QED BY <2>5, <3>2, <3>5
  <2>6. CASE r.op = "decline" /\ e = down /\ X = within /\ M = made
    BY <1>7, <2>6
  <2> QED BY <1>6, <2>1, <2>2, <2>3, <2>4, <2>5, <2>6
<1>9. /\ ServerOK(within', called', made') /\ UpOK(upward', shutAt) /\ DownOK(down')
      /\ Asking(upward') => \A d \in Cids : Me \notin within'[d]
  BY <1>1, <1>3, <1>8 DEF Answered, e, X, M
<1>10. online => /\ Me \in within'[0]
                 /\ Follows(down', Shown(chats), Followed(shutAt), within', called', Asking(upward'))
  BY <1>1, <1>3, <1>8 DEF Answered, e, X, V, D
<1> QED BY <1>1, <1>9, <1>10, HostFollows

\* Every step keeps the chats following.
LEMMA FollowStep == FollowInv /\ [RosterNext]_rosterVars => FollowInv'
<1> SUFFICES ASSUME FollowInv, [RosterNext]_rosterVars PROVE FollowInv'
  OBVIOUS
<1>1. RosterInv'
  BY RosterStep DEF FollowInv
<1>2. Sound' /\ Tracks(online', down', chats', shutAt', within', called', upward')
  <2>1. CASE UNCHANGED rosterVars
    <3>1. UNCHANGED <<online, chats, joins, invites, tnext, shutAt, upward, down, called, within, made>>
      BY <2>1 DEF rosterVars, clientVars, hostVars
    <3> QED BY <3>1 DEF FollowInv, Sound
  <2>2. CASE UserActs
    BY <2>2, ChatUserFollows, ChatJoinFollows, RejectChatFollows, CloseTabFollows DEF UserActs
  <2>3. CASE HostActs
    BY <2>3, ServeFollows, ArriveFollows, DepartFollows, InviteFollows, RenameFollows DEF HostActs
  <2> QED BY <2>1, <2>2, <2>3, ReceiveFollows, OpenLinkFollows, CloseLinkFollows DEF RosterNext
<1> QED BY <1>1, <1>2 DEF FollowInv

\* With nothing on its way, what is shown is what the server has.
LEMMA FollowInv_Agree == FollowInv => RostersAgree
<1> SUFFICES ASSUME FollowInv, online, upward = <<>>, down = <<>>, NEW c \in DOMAIN chats,
                    c = 0 \/ shutAt[c] = 0
             PROVE  /\ chats[c].open <=> Me \in within[c]
                    /\ chats[c].open => chats[c].members = Roll(within[c]) /\ chats[c].rows = chats[c].members
  BY DEF RostersAgree, Quiet
<1> DEFINE D == Followed(shutAt)
           V == Shown(chats)
           x == chats[c]
<1>1. c \in AllCids /\ ChatOK(x) /\ Me \in within[0] /\ within[c] \subseteq People
      /\ called \in [People -> Names]
  BY FollowFacts DEF FollowInv, Sound, ChatsOK
<1>2. c \in D /\ V[c] = View(x)
  BY <1>1 DEF Followed, Shown
<1>3. Asking(<<>>) = FALSE /\ Len(<<>>) = 0
  BY DEF Asking
<1>4. Follows(<<>>, V, D, within, called, FALSE)
  BY <1>3, FollowFacts
<1> HIDE DEF V, D, x
<1>5. PICK S : Replays(S, <<>>, V, D) /\ \A d \in D : Agrees(S[0][d], within, called, d, FALSE)
  BY <1>3, <1>4 DEF Follows
<1>6. Agrees(View(x), within, called, c, FALSE)
  BY <1>2, <1>5 DEF Replays
<1>7. /\ x.members \in Listed /\ x.rows \in Listed /\ View(x).open = x.open
      /\ View(x).members = x.members /\ View(x).rows = x.rows
  BY <1>1, ChatFields
<1>8. x.open <=> Me \in within[c]
  BY <1>1, <1>6, <1>7 DEF Agrees
<1>9. ASSUME x.open PROVE x.members = Roll(within[c]) /\ x.rows = x.members
  <2>1. \A u \in People : x.members[u] = IF u \in within[c] THEN called[u] ELSE NotListed
    BY <1>6, <1>7, <1>9 DEF Agrees
  <2>2. \A u \in People : x.rows[u] = x.members[u]
    BY <1>6, <1>7 DEF Agrees
  <2>3. x.members = Roll(within[c])
    BY <1>7, <2>1 DEF Listed, Roll
  <2>4. x.rows = x.members
    BY <1>7, <2>2 DEF Listed
  <2> QED BY <2>3, <2>4
<1> QED BY <1>8, <1>9 DEF x

\* The invariant has every variable in its type.
LEMMA FollowInv_Type == FollowInv => RosterTypeOK
<1> SUFFICES ASSUME FollowInv PROVE RosterTypeOK
  OBVIOUS
<1>1. ChatsOK(chats) /\ invites \subseteq Cids
  BY DEF FollowInv, Sound
<1>2. /\ \A c \in DOMAIN chats :
            /\ chats[c].members \in Listed /\ chats[c].rows \in Listed
            /\ ~chats[c].known => ~chats[c].open /\ chats[c].members = NoOne
            /\ ~chats[c].open => chats[c].rows = NoOne
      /\ chats[0].known /\ chats[0].open
  BY <1>1 DEF ChatsOK, ChatOK
<1>3. online \in BOOLEAN /\ \A j \in joins : j.trans < tnext /\ j.cid \in Cids /\ j.parted \in BOOLEAN
  BY DEF FollowInv, RosterInv, JoinsOK
<1> QED BY <1>1, <1>2, <1>3 DEF RosterTypeOK

\* For any users, chats, names, connections and orders of what is sent: once nothing is on
\* its way the client has a tab for each chat it is in and no other, and lists in it those the
\* server has there, by the names they have, but for chats whose tab the user has closed; and
\* JOINS names the joins not answered (recv/user.rs, send/chat.rs, users.c, chat.c).
THEOREM ChatsAlwaysFollowServer == RosterSpec => [](RosterTypeOK /\ ChatsFollowServer)
<1>1. RosterInit => FollowInv
  BY FollowInit
<1>2. FollowInv /\ [RosterNext]_rosterVars => FollowInv'
  BY FollowStep
<1>3. FollowInv => RosterTypeOK /\ ChatsFollowServer
  BY FollowInv_Type, FollowInv_Agree, RosterInv_Joins DEF FollowInv, ChatsFollowServer
<1> QED BY <1>1, <1>2, <1>3, PTL DEF RosterSpec

=============================================================================
