---------------------------- MODULE WindowsProofs ----------------------------
(***************************************************************************)
(* Three windows of the client that show what asynchronous work brings: the *)
(* server's banner, the tabs of the connections, and the tracker list; and   *)
(* the slots in which the images they show are decoded.  Each has an         *)
(* inductive invariant of its own, for every value of its constants.         *)
(*                                                                           *)
(* Banner: the row is right because an attempt of a connection is in one     *)
(* stage at a time, of the newest message, and a worker's generation is its  *)
(* own.  Connections: the lists agree because the registry holds a session   *)
(* once, all of them opened before.  Tracker: the channel is drained because *)
(* without a wake-up it holds at most what was sent of one tracker, for      *)
(* which there is room; a verdict is right because it only grows with the    *)
(* handshakes that failed; the counts are right because a section made empty *)
(* or spliced changes its own places alone.  Decodes: the count of slots is  *)
(* right because a waiter is in the queue or granted and never both, the     *)
(* queue is empty when a slot is free because a release hands on before it   *)
(* frees, and a first poll that is cancelled gives its slot back to an empty *)
(* queue.                                                                    *)
(***************************************************************************)
EXTENDS Banner, Connections, TrackerFetch, ImageDecode, FiniteSetTheorems, SequenceTheorems, TLAPS

-----------------------------------------------------------------------------
(* The banner.                                                                *)

Attempts == [runs : BOOLEAN, url : Nat, gen : Nat, decode : Nat]

BannerTypes ==
    /\ tab \in [Tabs -> [up : BOOLEAN, newest : Nat, crossed : BOOLEAN]]
    /\ sent \in Nat /\ gen \in Nat
    /\ attempt \in [Tabs -> Attempts]
    /\ image \in [Tabs -> Nat]
    /\ requests \subseteq [tab : Tabs, of : Nat \ {0}]
    /\ workers \subseteq [tab : Tabs, of : Nat \ {0}, gen : Nat \ {0}]
    /\ decodes \subseteq [tab : Tabs, of : Nat \ {0}]
    /\ focus \in Tabs

\* A generation is given to one worker.
GenerationsDiffer ==
    /\ \A w \in workers : w.gen <= gen
    /\ \A v, w \in workers : v.gen = w.gen => v = w

\* The stages an attempt of a connection's newest message n goes through, of which
\* each excludes the others: its URL is fetched, its request is unanswered, its
\* transfer runs, it is decoded.
OneStage(t, a, n) ==
    /\ ~a.runs => a = NoAttempt
    /\ a.url \in {NoImage, n} /\ a.decode \in {NoImage, n}
    /\ a.url # NoImage => a.gen = 0 /\ a.decode = NoImage
    /\ \A d \in decodes : d.tab = t => d.of = a.decode
    /\ \A r \in requests : r.tab = t => r.of = n /\ a = NewAttempt
    /\ \A w \in workers : w.tab = t /\ w.gen = a.gen => w.of = n /\ a.decode = NoImage

NewestOnly(t) ==
    /\ image[t] \in {NoImage, tab[t].newest}
    /\ OneStage(t, attempt[t], tab[t].newest)

BannerInv ==
    /\ BannerTypes
    /\ GenerationsDiffer
    /\ RowIsFocused
    /\ \A t \in Tabs : ~tab[t].crossed => NewestOnly(t)

\* At the start nothing is fetched and the row is empty.
LEMMA BannerInit_Inv == BannerInit => BannerInv
  BY DEF BannerInit, BannerInv, BannerTypes, Attempts, GenerationsDiffer, RowIsFocused, NewestOnly,
         OneStage, NoAttempt, NewAttempt, NoImage

\* What finish leaves: the attempt is over, and the image is the result or the old one.
LEMMA FinishTypes ==
    ASSUME BannerTypes, NEW t \in Tabs, NEW result \in Nat, Finish(t, result)
    PROVE  /\ attempt' \in [Tabs -> Attempts]
           /\ image' \in [Tabs -> Nat]
           /\ attempt'[t] = NoAttempt
           /\ image'[t] \in {image[t], result}
           /\ \A u \in Tabs \ {t} : attempt'[u] = attempt[u] /\ image'[u] = image[u]
  BY DEF BannerTypes, Attempts, Finish, NoAttempt, NoImage

\* finish paints the row only for the connection in front.
LEMMA FinishPaints ==
    ASSUME BannerTypes, NEW t \in Tabs, NEW result \in Nat, Finish(t, result),
           RowIsFocused, focus' = focus
    PROVE  RowIsFocused'
  BY DEF BannerTypes, Finish, Paint, RowIsFocused

\* What start_decode leaves: one decode of the connection, the earlier one cancelled.
LEMMA StartDecodeTypes ==
    ASSUME BannerTypes, NEW t \in Tabs, NEW m \in Nat \ {0}, NEW kept \in Nat,
           StartDecode(t, m, kept)
    PROVE  /\ attempt' \in [Tabs -> Attempts]
           /\ decodes' \subseteq [tab : Tabs, of : Nat \ {0}]
           /\ attempt'[t] = [attempt[t] EXCEPT !.decode = m, !.url = kept]
           /\ \A u \in Tabs \ {t} : attempt'[u] = attempt[u]
           /\ \A d \in decodes' : d = [tab |-> t, of |-> m] \/ d \in Cancelled(t)
           /\ image' = image /\ row' = row
<1>1. attempt'[t] = [attempt[t] EXCEPT !.decode = m, !.url = kept]
  BY DEF BannerTypes, StartDecode
<1>2. attempt' \in [Tabs -> Attempts]
  BY ZenonT(40) DEF BannerTypes, Attempts, StartDecode
<1>3. \A u \in Tabs \ {t} : attempt'[u] = attempt[u]
  BY DEF BannerTypes, StartDecode
<1>4. decodes' \subseteq [tab : Tabs, of : Nat \ {0}]
  BY DEF BannerTypes, StartDecode, Cancelled
<1> QED BY <1>1, <1>2, <1>3, <1>4 DEF StartDecode

\* While its messages did not cross, cancelling a connection leaves no decode of it.
LEMMA CancelledAll ==
    ASSUME BannerInv, NEW t \in Tabs, ~tab[t].crossed
    PROVE  \A d \in Cancelled(t) : d.tab # t
  BY DEF BannerInv, NewestOnly, OneStage, Cancelled

\* What a step leaves alone of a connection stays of its newest message.
LEMMA LeftAlone ==
    ASSUME NEW u \in Tabs, NewestOnly(u),
           image'[u] = image[u], attempt'[u] = attempt[u], tab'[u].newest = tab[u].newest,
           \A d \in decodes' : d.tab = u => d \in decodes,
           \A r \in requests' : r.tab = u => r \in requests,
           \A w \in workers' : w.tab = u => w \in workers
    PROVE  NewestOnly(u)'
  BY DEF NewestOnly, OneStage

\* The attempts a message may begin.
LEMMA AttemptsBegin ==
    ASSUME NEW m \in Nat, NEW a \in {NoAttempt, NewAttempt, [NewAttempt EXCEPT !.url = m]}
    PROVE  /\ a \in Attempts
           /\ a.gen = 0 /\ a.decode = NoImage /\ a.url \in {NoImage, m}
           /\ ~a.runs => a = NoAttempt
<1>1. CASE a = NoAttempt
  BY <1>1 DEF NoAttempt, NoImage, Attempts
<1>2. CASE a = NewAttempt
  BY <1>2 DEF NewAttempt, NoAttempt, NoImage, Attempts
<1>3. CASE a = [NewAttempt EXCEPT !.url = m]
  <2>1. NewAttempt \in Attempts
    BY DEF NewAttempt, NoAttempt, NoImage, Attempts
  <2>2. a \in Attempts
    BY <1>3, <2>1 DEF Attempts
  <2>3. a.url = m /\ a.gen = 0 /\ a.decode = NoImage /\ a.runs
    BY <1>3 DEF NewAttempt, NoAttempt, NoImage
  <2> QED BY <2>2, <2>3
<1> QED BY <1>1, <1>2, <1>3

\* What a message does to its connection: it is the newest, and crosses an open request.
LEMMA MessageTab ==
    ASSUME BannerTypes, NEW t \in Tabs, NEW kind, Message(t, kind)
    PROVE  /\ tab' \in [Tabs -> [up : BOOLEAN, newest : Nat, crossed : BOOLEAN]]
           /\ tab'[t].newest = sent + 1
           /\ ~tab'[t].crossed => ~tab[t].crossed /\ \A r \in requests : r.tab # t
           /\ \A u \in Tabs \ {t} : tab'[u] = tab[u]
<1> DEFINE crossing == tab[t].crossed \/ \E r \in requests : r.tab = t
<1>1. crossing \in BOOLEAN
  OBVIOUS
<1>2. tab' = [tab EXCEPT ![t] = [@ EXCEPT !.newest = sent + 1, !.crossed = crossing]]
  BY DEF Message, BannerTypes
<1>3. ~crossing => ~tab[t].crossed /\ \A r \in requests : r.tab # t
  OBVIOUS
<1> HIDE DEF crossing
<1>4. tab'[t] = [tab[t] EXCEPT !.newest = sent + 1, !.crossed = crossing]
  BY <1>2 DEF BannerTypes
<1>5. tab'[t].newest = sent + 1 /\ tab'[t].crossed = crossing
  BY <1>4 DEF BannerTypes
<1>6. tab' \in [Tabs -> [up : BOOLEAN, newest : Nat, crossed : BOOLEAN]]
  <2>1. tab'[t] \in [up : BOOLEAN, newest : Nat, crossed : BOOLEAN]
    <3>1. tab[t] \in [up : BOOLEAN, newest : Nat, crossed : BOOLEAN] /\ sent + 1 \in Nat
      BY DEF BannerTypes
    <3> QED BY <1>1, <1>4, <3>1
  <2> QED BY <1>2, <1>4, <2>1 DEF BannerTypes
<1>7. \A u \in Tabs \ {t} : tab'[u] = tab[u]
  BY <1>2 DEF BannerTypes
<1> QED BY <1>3, <1>5, <1>6, <1>7

\* Every step keeps the invariant.
LEMMA BannerStep == BannerInv /\ [BannerNext]_bannerVars => BannerInv'
<1> SUFFICES ASSUME BannerInv, [BannerNext]_bannerVars PROVE BannerInv'
  OBVIOUS
<1>0. /\ BannerTypes /\ GenerationsDiffer /\ RowIsFocused
      /\ \A t \in Tabs : ~tab[t].crossed => NewestOnly(t)
  BY DEF BannerInv
<1>1. ASSUME NEW t \in Tabs, NEW kind \in {"url", "bare", "file"}, Message(t, kind)
      PROVE  BannerInv'
  <2>0. attempt' = [attempt EXCEPT ![t] = attempt'[t]] /\
        attempt'[t] \in {NoAttempt, NewAttempt, [NewAttempt EXCEPT !.url = sent + 1]}
    BY <1>0, <1>1 DEF Message, BannerTypes
  <2>5. sent \in Nat
    BY <1>0 DEF BannerTypes
  <2>6. sent + 1 \in Nat \ {0}
    BY <2>5
  <2>1. BannerTypes'
    <3>0. attempt'[t] \in Attempts
      BY <2>0, <2>6, AttemptsBegin
    <3>1. attempt' \in [Tabs -> Attempts]
      BY <1>0, <2>0, <3>0 DEF BannerTypes
    <3>2. tab' \in [Tabs -> [up : BOOLEAN, newest : Nat, crossed : BOOLEAN]]
      BY <1>0, <1>1, MessageTab
    <3>3. requests' \subseteq requests \cup {[tab |-> t, of |-> sent + 1]}
      BY <1>1 DEF Message
    <3>4. requests' \subseteq [tab : Tabs, of : Nat \ {0}]
      <4>1. [tab |-> t, of |-> sent + 1] \in [tab : Tabs, of : Nat \ {0}]
        BY <1>1, <2>6
      <4> QED BY <1>0, <4>1, <3>3 DEF BannerTypes
    <3>5. image' \in [Tabs -> Nat] /\ decodes' \subseteq decodes /\ sent' \in Nat
      <4>1. image' = [image EXCEPT ![t] = 0]
        BY <1>1 DEF Message, NoImage
      <4>2. decodes' \subseteq decodes /\ sent' = sent + 1
        BY <1>1 DEF Message, Cancelled
      <4> QED BY <1>0, <1>1, <2>5, <4>1, <4>2 DEF BannerTypes
    <3> QED BY <1>0, <1>1, <3>1, <3>2, <3>4, <3>5 DEF Message, BannerTypes
  <2>2. GenerationsDiffer'
    BY <1>0, <1>1 DEF Message, GenerationsDiffer
  <2>3. RowIsFocused'
    BY <1>0, <1>1 DEF Message, RowIsFocused, Paint, BannerTypes
  <2>4. ASSUME NEW u \in Tabs, ~tab'[u].crossed PROVE NewestOnly(u)'
    <3>1. CASE u # t
      <4>1. tab'[u] = tab[u] /\ attempt'[u] = attempt[u] /\ image'[u] = image[u]
        BY <3>1, <2>0, <1>0, <1>1, MessageTab, ZenonT(40) DEF Message, BannerTypes
      <4>2. \A r \in requests' : r.tab = u => r \in requests
        <5>1. requests' \subseteq requests \cup {[tab |-> t, of |-> sent + 1]}
          BY <1>1 DEF Message
        <5>2. \A r \in requests' : r \in requests \/ r.tab = t
          <6>1. [tab |-> t, of |-> sent + 1].tab = t
            OBVIOUS
          <6> QED BY <5>1, <6>1
        <5> QED BY <5>2, <3>1
      <4> QED BY <4>1, <4>2, <2>4, <1>0, <1>1, LeftAlone DEF Message, Cancelled
    <3>2. CASE u = t
      <4>1. ~tab[t].crossed /\ \A r \in requests : r.tab # t
        BY <3>2, <2>4, <1>0, <1>1, MessageTab
      <4>2. tab'[t].newest = sent + 1 /\ image'[t] = NoImage
        BY <1>0, <1>1, MessageTab DEF Message, BannerTypes
      <4>3. \A d \in decodes' : d.tab # t
        BY <4>1, <1>1, CancelledAll DEF Message
      <4>4. \A w \in workers' : w.gen # attempt'[t].gen
        BY <2>0, <1>1, <1>0 DEF Message, BannerTypes, NoAttempt, NewAttempt
      <4>5. \A r \in requests' : r.tab = t => r.of = sent + 1 /\ attempt'[t] = NewAttempt
        <5>1. CASE kind = "file"
          BY <5>1, <4>1, <1>0, <1>1 DEF Message, BannerTypes
        <5>2. CASE kind # "file"
          BY <5>2, <4>1, <1>1 DEF Message
        <5> QED BY <5>1, <5>2
      <4>6. /\ attempt'[t].url \in {NoImage, sent + 1} /\ attempt'[t].decode = NoImage
            /\ attempt'[t].gen = 0 /\ (~attempt'[t].runs => attempt'[t] = NoAttempt)
        BY <2>0, <2>6, AttemptsBegin, ZenonT(40)
      <4> QED BY <3>2, <4>2, <4>3, <4>4, <4>5, <4>6 DEF NewestOnly, OneStage
    <3> QED BY <3>1, <3>2
  <2> QED BY <2>1, <2>2, <2>3, <2>4 DEF BannerInv
<1>2. ASSUME NEW t \in Tabs, NEW ok \in BOOLEAN, UrlDrained(t, ok)
      PROVE  BannerInv'
  <2>2. GenerationsDiffer'
    BY <1>0, <1>2 DEF UrlDrained, GenerationsDiffer
  <2>3. CASE ok
    <3>1. StartDecode(t, attempt[t].url, NoImage) /\ attempt[t].url \in Nat \ {0} /\ NoImage \in Nat
      BY <1>0, <1>2, <2>3 DEF UrlDrained, BannerTypes, Attempts, NoImage
    <3>a. /\ attempt' \in [Tabs -> Attempts]
          /\ decodes' \subseteq [tab : Tabs, of : Nat \ {0}]
          /\ attempt'[t] = [attempt[t] EXCEPT !.decode = attempt[t].url, !.url = NoImage]
          /\ \A u \in Tabs \ {t} : attempt'[u] = attempt[u]
          /\ \A d \in decodes' : d = [tab |-> t, of |-> attempt[t].url] \/ d \in Cancelled(t)
          /\ image' = image /\ row' = row
      BY <3>1, <1>0, StartDecodeTypes
    <3>2. BannerTypes' /\ RowIsFocused'
      BY <3>a, <1>0, <1>2 DEF UrlDrained, BannerTypes, RowIsFocused
    <3>3. ASSUME NEW u \in Tabs, ~tab'[u].crossed PROVE NewestOnly(u)'
      <4>1. CASE u # t
        BY <4>1, <3>3, <3>a, <1>0, <1>2, LeftAlone DEF UrlDrained, Cancelled
      <4>2. CASE u = t
        <5>1. ~tab[t].crossed /\ NewestOnly(t)
          BY <4>2, <3>3, <1>0, <1>2 DEF UrlDrained
        <5>2. attempt'[t].decode = tab[t].newest /\ attempt'[t].url = NoImage /\ attempt'[t].runs /\ attempt'[t].gen = 0
          BY <5>1, <3>1, <3>a, <1>0 DEF BannerTypes, NewestOnly, OneStage, NoAttempt, NoImage
        <5>3. \A d \in decodes' : d.tab = t => d.of = tab[t].newest
          BY <5>1, <3>1, <3>a, CancelledAll DEF NewestOnly, OneStage, NoImage
        <5>4. \A r \in requests : r.tab # t
          BY <5>1, <3>1 DEF NewestOnly, OneStage, NewAttempt, NoAttempt, NoImage
        <5>5. \A w \in workers : w.gen # 0
          BY <1>0 DEF BannerTypes
        <5> QED BY <4>2, <5>1, <5>2, <5>3, <5>4, <5>5, <3>a, <1>2
                DEF UrlDrained, NewestOnly, OneStage, NoImage
      <4> QED BY <4>1, <4>2
    <3> QED BY <3>2, <3>3, <2>2 DEF BannerInv
  <2>4. CASE ~ok
    <3>1. Finish(t, NoImage) /\ NoImage \in Nat /\ decodes' = decodes
      BY <1>0, <1>2, <2>4 DEF UrlDrained, NoImage
    <3>2. BannerTypes' /\ RowIsFocused'
      BY <3>1, <1>0, <1>2, FinishTypes, FinishPaints DEF UrlDrained, BannerTypes
    <3>3. ASSUME NEW u \in Tabs, ~tab'[u].crossed PROVE NewestOnly(u)'
      <4>1. CASE u # t
        BY <4>1, <3>3, <3>1, <1>0, <1>2, FinishTypes DEF UrlDrained, NewestOnly, OneStage
      <4>2. CASE u = t
        <5>1. ~tab[t].crossed /\ NewestOnly(t)
          BY <4>2, <3>3, <1>0, <1>2 DEF UrlDrained
        <5>2. \A d \in decodes : d.tab # t
          BY <5>1, <1>0, <1>2 DEF UrlDrained, NewestOnly, OneStage, BannerTypes, NoImage
        <5>3. \A r \in requests : r.tab # t
          BY <5>1, <1>2 DEF UrlDrained, NewestOnly, OneStage, NewAttempt, NoAttempt, NoImage
        <5>4. \A w \in workers : w.gen # 0
          BY <1>0 DEF BannerTypes
        <5> QED BY <4>2, <5>1, <5>2, <5>3, <5>4, <3>1, <1>0, <1>2, FinishTypes
                DEF UrlDrained, NewestOnly, OneStage, NoAttempt, NoImage
      <4> QED BY <4>1, <4>2
    <3> QED BY <3>2, <3>3, <2>2 DEF BannerInv
  <2> QED BY <2>3, <2>4
<1>3. ASSUME NEW r \in requests, NEW how \in {"granted", "invalid", "refused"}, BannerReply(r, how)
      PROVE  BannerInv'
  <2>1. CASE how = "refused" \/ ~attempt[r.tab].runs
    BY <2>1, <1>0, <1>3 DEF BannerReply, BannerInv, BannerTypes, GenerationsDiffer, RowIsFocused, NewestOnly, OneStage
  <2>2. CASE how = "invalid" /\ attempt[r.tab].runs
    <3>1. Finish(r.tab, NoImage) /\ NoImage \in Nat /\ r.tab \in Tabs
      BY <1>0, <1>3, <2>2 DEF BannerReply, NoImage, BannerTypes
    <3>2. BannerTypes' /\ RowIsFocused' /\ GenerationsDiffer'
      BY <2>2, <3>1, <1>0, <1>3, FinishTypes, FinishPaints DEF BannerReply, BannerTypes, GenerationsDiffer
    <3>3. ASSUME NEW u \in Tabs, ~tab'[u].crossed PROVE NewestOnly(u)'
      <4>1. CASE u # r.tab
        BY <4>1, <3>3, <3>1, <2>2, <1>0, <1>3, FinishTypes DEF BannerReply, NewestOnly, OneStage
      <4>2. CASE u = r.tab
        <5>1. ~tab[u].crossed /\ NewestOnly(u) /\ attempt[u] = NewAttempt /\ r.of = tab[u].newest
          BY <4>2, <3>3, <1>0, <1>3 DEF BannerReply, NewestOnly, OneStage
        <5>2. \A d \in decodes : d.tab # u
          BY <5>1, <1>0 DEF NewestOnly, OneStage, BannerTypes, NewAttempt, NoAttempt, NoImage
        <5>3. \A q \in requests' : q.tab # u
          BY <4>2, <5>1, <1>0, <1>3 DEF BannerReply, NewestOnly, OneStage, BannerTypes
        <5>4. \A w \in workers : w.gen # 0
          BY <1>0 DEF BannerTypes
        <5> QED BY <4>2, <2>2, <5>1, <5>2, <5>3, <5>4, <3>1, <1>0, <1>3, FinishTypes
                DEF BannerReply, NewestOnly, OneStage, NoAttempt, NoImage
      <4> QED BY <4>1, <4>2
    <3> QED BY <3>2, <3>3 DEF BannerInv
  <2>3. CASE how = "granted" /\ attempt[r.tab].runs
    <3> DEFINE w0 == [tab |-> r.tab, of |-> r.of, gen |-> gen + 1]
    <3>1. /\ r.tab \in Tabs /\ r.of \in Nat \ {0}
          /\ gen' = gen + 1
          /\ attempt' = [attempt EXCEPT ![r.tab].gen = gen + 1]
          /\ workers' = workers \cup {w0}
          /\ requests' = requests \ {r}
          /\ UNCHANGED <<image, row, tab, sent, decodes, focus>>
      BY <1>0, <1>3, <2>3 DEF BannerReply, BannerTypes
    <3>2. BannerTypes' /\ RowIsFocused'
      BY <3>1, <1>0, SMTT(40) DEF BannerTypes, Attempts, RowIsFocused
    <3>3. GenerationsDiffer'
      BY <3>1, <1>0 DEF BannerTypes, GenerationsDiffer
    <3>4. ASSUME NEW u \in Tabs, ~tab'[u].crossed PROVE NewestOnly(u)'
      <4>1. CASE u # r.tab
        BY <4>1, <3>4, <3>1, <1>0 DEF BannerTypes, NewestOnly, OneStage
      <4>2. CASE u = r.tab
        <5>1. ~tab[u].crossed /\ NewestOnly(u) /\ attempt[u] = NewAttempt /\ r.of = tab[u].newest
          BY <4>2, <3>4, <3>1, <1>0 DEF NewestOnly, OneStage
        <5>2. \A d \in decodes : d.tab # u
          BY <5>1, <1>0 DEF NewestOnly, OneStage, BannerTypes, NewAttempt, NoAttempt, NoImage
        <5>3. \A q \in requests' : q.tab # u
          BY <4>2, <5>1, <1>0, <3>1 DEF NewestOnly, OneStage, BannerTypes
        <5>4. \A w \in workers' : w.gen = gen + 1 => w = w0
          BY <3>1, <1>0 DEF BannerTypes, GenerationsDiffer
        <5>5. attempt'[u] = [NewAttempt EXCEPT !.gen = gen + 1]
          BY <4>2, <5>1, <3>1, <1>0 DEF BannerTypes
        <5> QED BY <4>2, <5>1, <5>2, <5>3, <5>4, <5>5, <3>1
                DEF NewestOnly, OneStage, NewAttempt, NoAttempt, NoImage
      <4> QED BY <4>1, <4>2
    <3> QED BY <3>2, <3>3, <3>4 DEF BannerInv
  <2> QED BY <2>1, <2>2, <2>3
<1>4. ASSUME NEW w \in workers, NEW ok \in BOOLEAN, TransferDone(w, ok)
      PROVE  BannerInv'
  <2>0. /\ w.tab \in Tabs /\ w.of \in Nat \ {0} /\ w.gen # 0
        /\ workers' = workers \ {w} /\ UNCHANGED <<tab, sent, requests, gen, focus>>
        /\ GenerationsDiffer'
    BY <1>0, <1>4 DEF TransferDone, BannerTypes, GenerationsDiffer
  <2>1. CASE ~IsCurrent(w)
    BY <2>0, <2>1, <1>0, <1>4 DEF TransferDone, BannerInv, BannerTypes, RowIsFocused, NewestOnly, OneStage
  <2>2. CASE IsCurrent(w) /\ ok
    <3>1. StartDecode(w.tab, w.of, attempt[w.tab].url) /\ attempt[w.tab].url \in Nat
      BY <2>0, <2>2, <1>0, <1>4 DEF TransferDone, BannerTypes, Attempts
    <3>a. /\ attempt' \in [Tabs -> Attempts]
          /\ decodes' \subseteq [tab : Tabs, of : Nat \ {0}]
          /\ attempt'[w.tab] = [attempt[w.tab] EXCEPT !.decode = w.of, !.url = attempt[w.tab].url]
          /\ \A u \in Tabs \ {w.tab} : attempt'[u] = attempt[u]
          /\ \A d \in decodes' : d = [tab |-> w.tab, of |-> w.of] \/ d \in Cancelled(w.tab)
          /\ image' = image /\ row' = row
      BY <2>0, <3>1, <1>0, StartDecodeTypes
    <3>2. BannerTypes' /\ RowIsFocused'
      BY <2>0, <3>a, <1>0 DEF BannerTypes, RowIsFocused
    <3>3. ASSUME NEW u \in Tabs, ~tab'[u].crossed PROVE NewestOnly(u)'
      <4>1. CASE u # w.tab
        BY <4>1, <3>3, <2>0, <3>a, <1>0, LeftAlone DEF Cancelled
      <4>2. CASE u = w.tab
        <5>1. ~tab[u].crossed /\ NewestOnly(u) /\ attempt[u].runs /\ attempt[u].gen = w.gen
              /\ w.of = tab[u].newest /\ attempt[u].url = NoImage
          BY <4>2, <3>3, <2>0, <2>2, <1>0 DEF IsCurrent, NewestOnly, OneStage, NoImage
        <5>2. attempt'[u] = [attempt[u] EXCEPT !.decode = w.of, !.url = NoImage]
          BY <4>2, <5>1, <3>a
        <5>3. \A d \in decodes' : d.tab = u => d.of = w.of
          BY <4>2, <5>1, <3>a, CancelledAll
        <5>4. \A q \in requests : q.tab # u
          BY <5>1, <2>0 DEF NewestOnly, OneStage, NewAttempt, NoAttempt
        <5>5. \A v \in workers' : v.gen # w.gen
          BY <2>0, <1>0 DEF GenerationsDiffer
        <5>6. attempt[u] \in Attempts
          BY <1>0 DEF BannerTypes
        <5> QED BY <5>1, <5>2, <5>3, <5>4, <5>5, <5>6, <3>a, <2>0
                DEF NewestOnly, OneStage, NoImage
      <4> QED BY <4>1, <4>2
    <3> QED BY <2>0, <3>2, <3>3 DEF BannerInv
  <2>3. CASE IsCurrent(w) /\ ~ok
    <3>1. Finish(w.tab, NoImage) /\ NoImage \in Nat /\ decodes' = decodes
      BY <1>0, <1>4, <2>3 DEF TransferDone, NoImage
    <3>2. BannerTypes' /\ RowIsFocused'
      BY <2>0, <3>1, <1>0, FinishTypes, FinishPaints DEF BannerTypes
    <3>3. ASSUME NEW u \in Tabs, ~tab'[u].crossed PROVE NewestOnly(u)'
      <4>1. CASE u # w.tab
        BY <4>1, <3>3, <3>1, <2>0, <1>0, FinishTypes DEF NewestOnly, OneStage
      <4>2. CASE u = w.tab
        <5>1. ~tab[u].crossed /\ NewestOnly(u) /\ attempt[u].gen = w.gen /\ attempt[u].decode = NoImage
          BY <4>2, <3>3, <2>0, <2>3, <1>0 DEF IsCurrent, NewestOnly, OneStage, NoImage
        <5>2. \A d \in decodes : d.tab # u
          BY <5>1, <1>0 DEF NewestOnly, OneStage, BannerTypes, NoImage
        <5>3. \A q \in requests : q.tab # u
          BY <5>1, <2>0 DEF NewestOnly, OneStage, NewAttempt, NoAttempt
        <5>4. \A v \in workers : v.gen # 0
          BY <1>0 DEF BannerTypes
        <5> QED BY <4>2, <5>1, <5>2, <5>3, <5>4, <3>1, <2>0, <1>0, FinishTypes
                DEF NewestOnly, OneStage, NoAttempt, NoImage
      <4> QED BY <4>1, <4>2
    <3> QED BY <2>0, <3>2, <3>3 DEF BannerInv
  <2> QED BY <2>1, <2>2, <2>3
<1>5. ASSUME NEW d \in decodes, NEW ok \in BOOLEAN, Decoded(d, ok)
      PROVE  BannerInv'
  <2> DEFINE result == IF ok THEN d.of ELSE NoImage
  <2>0. /\ d.tab \in Tabs /\ result \in Nat /\ Finish(d.tab, result)
        /\ decodes' = decodes \ {d} /\ UNCHANGED <<tab, sent, requests, workers, gen, focus>>
    BY <1>0, <1>5 DEF Decoded, BannerTypes, NoImage
  <2> HIDE DEF result
  <2>1. BannerTypes' /\ RowIsFocused' /\ GenerationsDiffer'
    BY <2>0, <1>0, FinishTypes, FinishPaints DEF BannerTypes, GenerationsDiffer
  <2>2. ASSUME NEW u \in Tabs, ~tab'[u].crossed PROVE NewestOnly(u)'
    <3>1. CASE u # d.tab
      BY <3>1, <2>2, <2>0, <1>0, FinishTypes DEF NewestOnly, OneStage
    <3>2. CASE u = d.tab
      <4>1. ~tab[u].crossed /\ NewestOnly(u) /\ attempt[u].decode = d.of /\ d.of # 0
        BY <3>2, <2>2, <2>0, <1>0 DEF NewestOnly, OneStage, BannerTypes
      <4>2. result \in {NoImage, tab[u].newest}
        BY <4>1 DEF result, NewestOnly, OneStage, NoImage
      <4>3. \A e \in decodes' : e.tab # u
        BY <3>2, <4>1, <2>0, <1>0 DEF NewestOnly, OneStage, BannerTypes
      <4>4. \A q \in requests : q.tab # u
        BY <4>1 DEF NewestOnly, OneStage, NewAttempt, NoAttempt, NoImage
      <4>5. \A v \in workers : v.gen # 0
        BY <1>0 DEF BannerTypes
      <4> QED BY <3>2, <4>1, <4>2, <4>3, <4>4, <4>5, <2>0, <1>0, FinishTypes
              DEF NewestOnly, OneStage, NoAttempt, NoImage
    <3> QED BY <3>1, <3>2
  <2> QED BY <2>1, <2>2 DEF BannerInv
<1>6. ASSUME NEW t \in Tabs, BannerConnect(t) PROVE BannerInv'
  <2>1. BannerTypes' /\ GenerationsDiffer' /\ RowIsFocused'
    BY <1>0, <1>6 DEF BannerConnect, BannerTypes, GenerationsDiffer, RowIsFocused
  <2>2. \A u \in Tabs : tab'[u].newest = tab[u].newest /\ tab'[u].crossed = tab[u].crossed
    BY <1>0, <1>6 DEF BannerConnect, BannerTypes
  <2> QED BY <2>1, <2>2, <1>0, <1>6, LeftAlone DEF BannerConnect, BannerInv
<1>7. ASSUME NEW t \in Tabs, BannerDisconnect(t) PROVE BannerInv'
  <2>1. BannerTypes' /\ GenerationsDiffer' /\ RowIsFocused'
    BY <1>0, <1>7, ZenonT(40) DEF BannerDisconnect, Clear, Cancelled, BannerTypes, Attempts, GenerationsDiffer, RowIsFocused, NoAttempt, NoImage
  <2>2. ASSUME NEW u \in Tabs, ~tab'[u].crossed PROVE NewestOnly(u)'
    <3>1. CASE u # t
      BY <3>1, <2>2, <1>0, <1>7 DEF BannerDisconnect, Clear, Cancelled, BannerTypes, NewestOnly, OneStage
    <3>2. CASE u = t
      <4>1. ~tab[t].crossed
        BY <3>2, <2>2, <1>0, <1>7 DEF BannerDisconnect, BannerTypes
      <4>2. \A d \in decodes' : d.tab # t
        BY <4>1, <1>7, CancelledAll DEF BannerDisconnect, Clear
      <4>3. \A r \in requests' : r.tab # t
        BY <1>7 DEF BannerDisconnect
      <4>4. \A w \in workers' : w.gen # 0
        BY <1>0, <1>7 DEF BannerTypes, BannerDisconnect
      <4>5. attempt'[t] = NoAttempt /\ image'[t] = NoImage
        BY <1>0, <1>7 DEF BannerTypes, BannerDisconnect, Clear
      <4> QED BY <3>2, <4>2, <4>3, <4>4, <4>5 DEF NewestOnly, OneStage, NoAttempt, NoImage
    <3> QED BY <3>1, <3>2
  <2> QED BY <2>1, <2>2 DEF BannerInv
<1>8. ASSUME NEW t \in Tabs, SwitchTab(t) PROVE BannerInv'
  BY <1>0, <1>8 DEF SwitchTab, BannerInv, BannerTypes, GenerationsDiffer, RowIsFocused, NewestOnly, OneStage
<1>9. CASE UNCHANGED bannerVars
  BY <1>0, <1>9 DEF bannerVars, BannerInv, BannerTypes, GenerationsDiffer, RowIsFocused, NewestOnly, OneStage
<1> QED BY <1>1, <1>2, <1>3, <1>4, <1>5, <1>6, <1>7, <1>8, <1>9 DEF BannerNext

\* The row shows the newest banner of the connection in front, or nothing, whatever fetch,
\* transfer or decode finishes late: unless two of its messages crossed an unanswered request.
THEOREM BannerIsInFront == BannerSpec => []BannerInFront
<1>1. BannerInv => BannerInFront
  BY DEF BannerInv, BannerInFront, ShownIsNewestBanner, NewestOnly
<1> QED BY <1>1, BannerInit_Inv, BannerStep, PTL DEF BannerSpec

-----------------------------------------------------------------------------
(* Connections and their tabs.                                                *)

\* The registry lists a session once, the tabs are its sessions, all of them
\* given out, and the focus is in range.
RegistryInv ==
    /\ sessions \in Seq(Serials) /\ focused \in 1..Len(sessions)
    /\ \A i, j \in 1..Len(sessions) : sessions[i] = sessions[j] => i = j
    /\ strip = ToSet(sessions)
    /\ opened \in Serials /\ strip \subseteq 1..opened
    /\ selected \in strip /\ panels = selected

\* A question is about a tab that is there.
QuestionInv == question \in strip \cup {NoSession} /\ ClosingIsAsked

\* A session that is closed, or not yet opened, has no connection.
LinksInv ==
    /\ status \in [Serials -> {"down", "dialing", "connected"}]
    /\ host \in [Serials -> Hosts \cup {NoHost}]
    /\ lastConn \in [Serials -> Hosts \cup {NoHost}]
    /\ announced \subseteq Serials
    /\ lost \in Serials \cup {NoSession} /\ byHand \subseteq Serials
    /\ ReconnectGoesBack
    /\ \A s \in Serials \ strip : status[s] = "down"

ConnectionsInv == RegistryInv /\ QuestionInv /\ LinksInv

\* RemoveAt drops one element and closes the gap.
LEMMA RemoveAtProperties ==
    ASSUME NEW S, NEW q \in Seq(S), NEW i \in 1..Len(q)
    PROVE  /\ RemoveAt(q, i) \in Seq(S)
           /\ Len(RemoveAt(q, i)) = Len(q) - 1
           /\ \A j \in 1..(Len(q) - 1) :
                RemoveAt(q, i)[j] = IF j < i THEN q[j] ELSE q[j + 1]
<1> DEFINE n == Len(q)
           left == SubSeq(q, 1, i - 1)
           right == SubSeq(q, i + 1, n)
<1>1. n \in Nat /\ i \in Nat /\ 1 <= i /\ i <= n
  OBVIOUS
<1>2. left \in Seq(S) /\ Len(left) = i - 1 /\ \A j \in 1..(i - 1) : left[j] = q[j]
  BY <1>1, SubSeqProperties
<1>3. right \in Seq(S) /\ Len(right) = n - i /\ \A j \in 1..(n - i) : right[j] = q[i + j]
  BY <1>1, SubSeqProperties
<1> HIDE DEF left, right
<1>4. /\ left \o right \in Seq(S)
      /\ Len(left \o right) = n - 1
      /\ \A j \in 1..(n - 1) :
           (left \o right)[j] = IF j < i THEN left[j] ELSE right[j - (i - 1)]
  <2>1. /\ left \o right \in Seq(S)
        /\ Len(left \o right) = Len(left) + Len(right)
        /\ \A j \in 1..(Len(left) + Len(right)) :
             (left \o right)[j] = IF j <= Len(left) THEN left[j] ELSE right[j - Len(left)]
    BY <1>2, <1>3, ConcatProperties
  <2> QED BY <2>1, <1>1, <1>2, <1>3
<1>5. RemoveAt(q, i) = left \o right
  BY DEF RemoveAt, left, right
<1>6. \A j \in 1..(n - 1) : (left \o right)[j] = IF j < i THEN q[j] ELSE q[j + 1]
  BY <1>1, <1>2, <1>3, <1>4
<1> QED BY <1>4, <1>5, <1>6

\* hx_session_index finds a session that has a tab.
LEMMA SessionIsThere ==
    ASSUME RegistryInv, NEW s \in strip
    PROVE  SessionIndex(s) \in 1..Len(sessions) /\ sessions[SessionIndex(s)] = s
  BY DEF RegistryInv, ToSet, SessionIndex

\* The focused session has a tab.
LEMMA ActiveIsOpen ==
    ASSUME RegistryInv
    PROVE  Active \in strip /\ Active \in Serials
  BY DEF RegistryInv, ToSet, Active

\* The tabs are of sessions already opened.
LEMMA TabsAreSerials ==
    ASSUME RegistryInv
    PROVE  /\ opened \in Nat /\ opened \in Serials
           /\ \A s \in strip : s \in Serials /\ s <= opened /\ s # NoSession
<1>1. opened \in Serials /\ strip \subseteq 1..opened
  BY DEF RegistryInv
<1>2. MaxSessions \in Nat
  BY ConnectionsAssumption
<1> QED BY <1>1, <1>2 DEF Serials, NoSession

\* There are as many tabs as sessions.
LEMMA CountOfTabs == RegistryInv => Cardinality(strip) = Len(sessions)
<1> SUFFICES ASSUME RegistryInv PROVE Cardinality(strip) = Len(sessions)
  OBVIOUS
<1>1. Len(sessions) \in Nat /\ sessions \in [1..Len(sessions) -> strip]
  BY DEF RegistryInv, ToSet
<1>2. ExistsBijection(1..Len(sessions), strip)
  <2>1. sessions \in Bijection(1..Len(sessions), strip)
    BY <1>1 DEF RegistryInv, ToSet, Bijection, Injection, Surjection, IsInjective
  <2> QED BY <2>1 DEF ExistsBijection
<1> QED BY <1>1, <1>2, FS_CountingElements

\* What closing a tab leaves of the registry.
LEMMA RegistryRemoves ==
    ASSUME RegistryInv, NEW s \in strip, NEW n \in strip \ {s},
           NEW f \in 1..Len(sessions),
           sessions' = RemoveAt(sessions, SessionIndex(s)),
           focused' = FocusAfter(f, Len(sessions) - 1),
           strip' = strip \ {s}, selected' = n, panels' = n, opened' = opened
    PROVE  RegistryInv'
<1> DEFINE k == SessionIndex(s)
           len == Len(sessions)
<1>1. sessions \in Seq(Serials) /\ len \in Nat
  BY DEF RegistryInv
<1>2. k \in 1..len /\ sessions[k] = s
  BY SessionIsThere
<1>3. PICK j \in 1..len : sessions[j] = n
  BY DEF RegistryInv, ToSet
<1>4. len >= 2
  BY <1>1, <1>2, <1>3
<1> HIDE DEF k, len
<1>5. /\ sessions' \in Seq(Serials) /\ Len(sessions') = len - 1
      /\ \A i \in 1..(len - 1) :
           sessions'[i] = IF i < k THEN sessions[i] ELSE sessions[i + 1]
  BY <1>1, <1>2, RemoveAtProperties DEF k, len
<1>6. \A i, m \in 1..len : sessions[i] = sessions[m] => i = m
  BY DEF RegistryInv, len
<1>7. \A i, m \in 1..(len - 1) : sessions'[i] = sessions'[m] => i = m
  <2>0. SUFFICES ASSUME NEW i \in 1..(len - 1), NEW m \in 1..(len - 1),
                        sessions'[i] = sessions'[m]
                 PROVE  i = m
    OBVIOUS
  <2>1. /\ i \in 1..len /\ i + 1 \in 1..len /\ m \in 1..len /\ m + 1 \in 1..len
        /\ i \in Int /\ m \in Int /\ k \in Int
    BY <1>1, <1>2
  <2>2. (IF i < k THEN sessions[i] ELSE sessions[i + 1])
          = (IF m < k THEN sessions[m] ELSE sessions[m + 1])
    BY <2>0, <1>5
  <2>3. CASE i < k /\ m < k
    BY <2>1, <2>2, <2>3, <1>6
  <2>4. CASE ~(i < k) /\ ~(m < k)
    <3>1. i + 1 = m + 1
      BY <2>1, <2>2, <2>4, <1>6
    <3> QED BY <3>1, <2>1
  <2>5. CASE i < k /\ ~(m < k)
    <3>1. i = m + 1
      BY <2>1, <2>2, <2>5, <1>6
    <3> QED BY <3>1, <2>1, <2>5
  <2>6. CASE ~(i < k) /\ m < k
    <3>1. i + 1 = m
      BY <2>1, <2>2, <2>6, <1>6
    <3> QED BY <3>1, <2>1, <2>6
  <2> QED BY <2>3, <2>4, <2>5, <2>6
<1>8. focused' \in 1..(len - 1)
  BY <1>1, <1>4 DEF FocusAfter, len
<1>9. strip' = ToSet(sessions')
  <2>1. DOMAIN sessions = 1..len /\ DOMAIN sessions' = 1..(len - 1)
    BY <1>1, <1>5 DEF len
  <2>2. ASSUME NEW e \in strip' PROVE e \in ToSet(sessions')
    <3>1. PICK i \in 1..len : sessions[i] = e
      BY <2>1, <2>2 DEF RegistryInv, ToSet
    <3>2. i # k
      BY <2>2, <1>2, <3>1
    <3>3. CASE i < k
      BY <3>1, <3>3, <2>1, <1>1, <1>2, <1>5, SMTT(40) DEF ToSet
    <3>4. CASE i > k
      <4>1. i - 1 \in 1..(len - 1) /\ sessions'[i - 1] = sessions[i]
        BY <3>1, <3>4, <1>1, <1>2, <1>5
      <4> QED BY <4>1, <3>1, <2>1 DEF ToSet
    <3> QED BY <3>1, <3>2, <3>3, <3>4, <1>1, <1>2
  <2>3. ASSUME NEW i \in 1..(len - 1) PROVE sessions'[i] \in strip'
    <3>1. PICK m \in 1..len : m # k /\ sessions'[i] = sessions[m]
      <4>1. CASE i < k
        BY <4>1, <1>1, <1>2, <1>5
      <4>2. CASE ~(i < k)
        <5>1. i + 1 \in 1..len /\ i + 1 # k /\ sessions'[i] = sessions[i + 1]
          BY <4>2, <1>1, <1>2, <1>5
        <5> QED BY <5>1
      <4> QED BY <4>1, <4>2
    <3>2. sessions[m] # s /\ sessions[m] \in strip
      BY <3>1, <1>2, <1>6, <2>1 DEF RegistryInv, ToSet
    <3> QED BY <3>1, <3>2
  <2> QED BY <2>1, <2>2, <2>3 DEF ToSet
<1> QED BY <1>5, <1>7, <1>8, <1>9 DEF RegistryInv

\* What opening a tab makes of the registry.
LEMMA RegistryAppends ==
    ASSUME RegistryInv, opened + 1 <= MaxSessions,
           sessions' = Append(sessions, opened + 1), opened' = opened + 1,
           focused' = Len(sessions) + 1, strip' = strip \cup {opened + 1},
           selected' = opened + 1, panels' = opened + 1
    PROVE  RegistryInv'
<1> DEFINE len == Len(sessions)
           t == opened + 1
<1>1. sessions \in Seq(Serials) /\ len \in Nat /\ opened \in Nat
  BY DEF RegistryInv, Serials
<1>2. t \in Serials /\ t \notin strip /\ t \in Nat /\ t > opened
  BY <1>1, ConnectionsAssumption DEF RegistryInv, Serials
<1>3. sessions' = Append(sessions, t)
  OBVIOUS
<1> HIDE DEF len, t
<1>4. /\ sessions' \in Seq(Serials) /\ Len(sessions') = len + 1
      /\ \A i \in 1..len : sessions'[i] = sessions[i]
      /\ sessions'[len + 1] = t
  BY <1>1, <1>2, <1>3, AppendProperties DEF len
<1>5. \A i \in 1..len : sessions[i] \in strip
  BY <1>1 DEF RegistryInv, ToSet, len
<1>6. \A i, j \in 1..(len + 1) : sessions'[i] = sessions'[j] => i = j
  BY <1>1, <1>2, <1>4, <1>5 DEF RegistryInv, len
<1>7. strip' = ToSet(sessions')
  <2>1. DOMAIN sessions = 1..len /\ DOMAIN sessions' = 1..(len + 1)
    BY <1>1, <1>4 DEF len
  <2>2. strip' = strip \cup {t}
    BY DEF t
  <2>3. \A e \in strip' : \E i \in 1..(len + 1) : sessions'[i] = e
    BY <2>1, <2>2, <1>1, <1>4 DEF RegistryInv, ToSet
  <2>4. \A i \in 1..(len + 1) : sessions'[i] \in strip'
    BY <2>2, <1>1, <1>4, <1>5
  <2> QED BY <2>1, <2>3, <2>4 DEF ToSet
<1>8. opened' \in Serials /\ strip' \subseteq 1..opened'
  BY <1>1, <1>2 DEF RegistryInv, t
<1>9. focused' \in 1..(len + 1) /\ selected' \in strip' /\ panels' = selected'
  BY <1>1 DEF len
<1> QED BY <1>4, <1>6, <1>7, <1>8, <1>9 DEF RegistryInv

\* A step that leaves the registry alone but for the focus.
LEMMA RegistryStays ==
    ASSUME RegistryInv, UNCHANGED <<sessions, opened, strip>>,
           focused' \in 1..Len(sessions), selected' \in strip, panels' = selected'
    PROVE  RegistryInv'
  BY DEF RegistryInv

\* The first tab is there at the start.
LEMMA ConnectionsInit_Inv == ConnectionsInit => ConnectionsInv
<1> SUFFICES ASSUME ConnectionsInit PROVE ConnectionsInv
  OBVIOUS
<1>1. 1 \in Serials
  BY ConnectionsAssumption DEF Serials
<1>2. sessions = <<1>> /\ sessions \in Seq(Serials) /\ Len(sessions) = 1 /\ sessions[1] = 1
  BY <1>1 DEF ConnectionsInit
<1>3. ToSet(sessions) = {1}
  BY <1>2 DEF ToSet
<1>4. RegistryInv
  BY <1>1, <1>2, <1>3 DEF ConnectionsInit, RegistryInv
<1>5. QuestionInv
  BY DEF ConnectionsInit, QuestionInv, ClosingIsAsked
<1>6. LinksInv
  BY DEF ConnectionsInit, LinksInv, ReconnectGoesBack
<1> QED BY <1>4, <1>5, <1>6 DEF ConnectionsInv

\* What reaches the chrome.
LEMMA AnnounceTypes ==
    ASSUME announced \subseteq Serials, lost \in Serials \cup {NoSession},
           NEW s \in Serials, NEW new, Announce(s, new)
    PROVE  announced' \subseteq Serials /\ lost' \in Serials \cup {NoSession}
  BY DEF Announce

\* A step that changes the state of one open session's connection, and no more
\* than its state.
LEMMA StatusChanges ==
    ASSUME ConnectionsInv, NEW s \in strip, NEW st \in {"down", "dialing", "connected"},
           status' = [status EXCEPT ![s] = st],
           announced' \subseteq Serials, lost' \in Serials \cup {NoSession},
           byHand' \subseteq Serials,
           UNCHANGED <<registryVars, focused, host, lastConn, question, closing>>
    PROVE  ConnectionsInv'
<1>1. RegistryInv' /\ QuestionInv'
  BY DEF ConnectionsInv, RegistryInv, QuestionInv, ClosingIsAsked, registryVars
<1>2. LinksInv'
  BY DEF ConnectionsInv, LinksInv, ReconnectGoesBack, registryVars
<1> QED BY <1>1, <1>2 DEF ConnectionsInv

\* A connection made on a session that has a tab.
LEMMA ConnectOnStep ==
    ASSUME ConnectionsInv, NEW s \in strip, NEW h \in Hosts, ConnectOn(s, h)
    PROVE  ConnectionsInv'
<1> DEFINE t == Target(s)
<1>1. s \in Serials /\ opened \in Nat /\ opened \in Serials /\ s <= opened
  BY TabsAreSerials DEF ConnectionsInv
<1>2. CASE status[s] = "down"
  <2>1. t = s /\ ~(t > opened)
    BY <1>1, <1>2 DEF Target, Serials
  <2>2. UNCHANGED <<registryVars, focused, question, closing>>
    BY <2>1 DEF ConnectOn
  <2>3. RegistryInv' /\ QuestionInv'
    BY <2>2 DEF ConnectionsInv, RegistryInv, QuestionInv, ClosingIsAsked, registryVars
  <2>4. /\ lastConn' = [lastConn EXCEPT ![s] = h] /\ host' = [host EXCEPT ![s] = h]
        /\ status' = [status EXCEPT ![s] = "dialing"]
        /\ lost' \in {lost, NoSession} /\ announced' \subseteq announced /\ strip' = strip
        /\ byHand' = byHand
    BY <2>1, <2>2 DEF ConnectOn, Note, registryVars
  <2>5. LinksInv'
    BY <2>4, <1>1 DEF ConnectionsInv, LinksInv, ReconnectGoesBack
  <2> QED BY <2>3, <2>5 DEF ConnectionsInv
<1>3. CASE status[s] # "down"
  <2>1. t = opened + 1 /\ t > opened /\ t <= MaxSessions /\ t \in Serials
    BY <1>1, <1>3, ConnectionsAssumption DEF Target, Serials, ConnectOn
  <2>2. RegistryInv'
    BY <2>1, RegistryAppends DEF ConnectOn, ConnectionsInv
  <2>3. /\ lastConn' = [lastConn EXCEPT ![t] = h] /\ host' = [host EXCEPT ![t] = h]
        /\ status' = [status EXCEPT ![t] = "dialing"]
        /\ lost' \in {lost, NoSession} /\ announced' \subseteq announced
        /\ strip' = strip \cup {t} /\ UNCHANGED <<question, closing, byHand>>
    BY <2>1 DEF ConnectOn, Note
  <2> HIDE DEF t
  <2>4. QuestionInv'
    BY <2>3 DEF ConnectionsInv, QuestionInv, ClosingIsAsked
  <2>5. LinksInv'
    BY <2>3, <2>1 DEF ConnectionsInv, LinksInv, ReconnectGoesBack
  <2> QED BY <2>2, <2>4, <2>5 DEF ConnectionsInv
<1> QED BY <1>2, <1>3

\* A tab that closes takes its connection down first.
LEMMA FinishCloseStep ==
    ASSUME ConnectionsInv, NEW s \in strip, NEW n \in Serials, FinishClose(s, n)
    PROVE  RegistryInv' /\ LinksInv' /\ closing' = closing \ {s} /\ strip' = strip \ {s}
<1> DEFINE f == IF n = selected THEN focused ELSE SessionIndex(n)
<1>0. RegistryInv /\ LinksInv
  BY DEF ConnectionsInv
<1>1. n \in strip \ {s}
  BY <1>0 DEF FinishClose, GivesWay, RegistryInv
<1>2. f \in 1..Len(sessions)
  BY <1>0, <1>1, SessionIsThere DEF RegistryInv
<1>3. /\ sessions' = RemoveAt(sessions, SessionIndex(s))
      /\ focused' = FocusAfter(f, Len(sessions) - 1)
      /\ strip' = strip \ {s} /\ selected' = n /\ panels' = n /\ opened' = opened
  BY DEF FinishClose
<1>4. RegistryInv'
  <2> HIDE DEF f
  <2> QED BY <1>0, <1>1, <1>2, <1>3, RegistryRemoves
<1>5. s \in Serials
  BY <1>0 DEF RegistryInv, ToSet
<1>6. /\ status' = [status EXCEPT ![s] = "down"]
      /\ host' = [host EXCEPT ![s] = NoHost]
      /\ lastConn' = [lastConn EXCEPT ![s] = NoHost]
      /\ announced' = announced \ {s}
      /\ lost' \in {s, lost, NoSession} /\ byHand' = byHand
  BY DEF FinishClose, Refreshed
<1>7. LinksInv'
  BY <1>0, <1>3, <1>5, <1>6 DEF LinksInv, ReconnectGoesBack
<1> QED BY <1>3, <1>4, <1>7 DEF FinishClose

\* Every step keeps the invariant.
LEMMA ConnectionsStep == ConnectionsInv /\ [ConnectionsNext]_connectionsVars => ConnectionsInv'
<1> SUFFICES ASSUME ConnectionsInv, [ConnectionsNext]_connectionsVars PROVE ConnectionsInv'
  OBVIOUS
<1>0. /\ RegistryInv /\ QuestionInv /\ LinksInv
      /\ strip \subseteq Serials /\ NoSession \notin strip
  BY TabsAreSerials DEF ConnectionsInv
<1>1. ASSUME NEW s \in Serials, SelectTab(s) PROVE ConnectionsInv'
  <2>1. RegistryInv'
    BY <1>0, <1>1, SessionIsThere, RegistryStays DEF SelectTab
  <2>2. QuestionInv' /\ LinksInv'
    BY <1>0, <1>1 DEF SelectTab, Refreshed, QuestionInv, ClosingIsAsked, LinksInv,
                      ReconnectGoesBack
  <2> QED BY <2>1, <2>2 DEF ConnectionsInv
<1>2. ASSUME NEW s \in Serials, Connected(s) PROVE ConnectionsInv'
  <2>1. s \in strip
    BY <1>0, <1>2 DEF Connected, LinksInv
  <2> QED BY <2>1, <1>0, <1>2, AnnounceTypes, StatusChanges DEF Connected, LinksInv
<1>3. ASSUME NEW s \in Serials, Dropped(s) PROVE ConnectionsInv'
  <2>1. s \in strip
    BY <1>0, <1>3 DEF Dropped, LinksInv
  <2> QED BY <2>1, <1>0, <1>3, AnnounceTypes, StatusChanges DEF Dropped, LinksInv
<1>4. ASSUME NEW h \in Hosts, ConnectFocused(h) PROVE ConnectionsInv'
  BY <1>0, <1>4, ActiveIsOpen, ConnectOnStep DEF ConnectFocused
<1>5. ASSUME NEW s \in Serials, NEW h \in Hosts, ConnectDialog(s, h) PROVE ConnectionsInv'
  BY <1>5, ConnectOnStep DEF ConnectDialog
<1>6. CASE Reconnect
  <2>1. Active \in strip /\ Active \in Serials /\ lastConn[Active] = host[Active]
    BY <1>0, ActiveIsOpen DEF LinksInv, ReconnectGoesBack
  <2>2. lost' = NoSession /\ announced' \subseteq announced /\ byHand' = byHand
    BY <1>6 DEF Reconnect
  <2>3. host' = host
    BY <1>0, <1>6, <2>1 DEF Reconnect, LinksInv
  <2>4. CASE lastConn[Active] = NoHost
    BY <1>0, <1>6, <2>2, <2>4 DEF Reconnect, ConnectionsInv, RegistryInv, QuestionInv,
          ClosingIsAsked, LinksInv, ReconnectGoesBack, registryVars
  <2>5. CASE lastConn[Active] # NoHost
    <3>1. status' = [status EXCEPT ![Active] = "dialing"]
      BY <1>6, <2>5 DEF Reconnect
    <3> QED BY <3>1, <2>1, <2>2, <2>3, <1>0, <1>6, StatusChanges DEF Reconnect, LinksInv
  <2> QED BY <2>4, <2>5
<1>7. CASE DisconnectClicked
  BY <1>0, <1>7, ActiveIsOpen, AnnounceTypes, StatusChanges DEF DisconnectClicked, LinksInv
<1>8. CASE Declined
  BY <1>0, <1>8 DEF Declined, Decline, ConnectionsInv, RegistryInv, QuestionInv,
        ClosingIsAsked, LinksInv, ReconnectGoesBack, registryVars
<1>9. ASSUME NEW s \in Serials, NEW n \in Serials, ClosePage(s, n) PROVE ConnectionsInv'
  <2>1. CASE status[s] # "down"
    <3>1. QuestionInv'
      BY <1>0, <1>9, <2>1 DEF ClosePage, QuestionInv, ClosingIsAsked, registryVars
    <3>2. RegistryInv'
      BY <1>0, <1>9, <2>1 DEF ClosePage, RegistryInv, registryVars
    <3>3. LinksInv'
      BY <1>0, <1>9, <2>1 DEF ClosePage, LinksInv, ReconnectGoesBack, registryVars
    <3> QED BY <3>1, <3>2, <3>3 DEF ConnectionsInv
  <2>2. CASE status[s] = "down"
    <3>1. RegistryInv' /\ LinksInv' /\ closing' = closing \ {s} /\ strip' = strip \ {s}
      BY <1>9, <2>2, FinishCloseStep DEF ClosePage
    <3> QED BY <3>1, <1>0, <1>9, <2>2 DEF ClosePage, ConnectionsInv, QuestionInv, ClosingIsAsked
  <2> QED BY <2>1, <2>2
<1>10. ASSUME NEW n \in Serials, Confirmed(n) PROVE ConnectionsInv'
  <2>1. question \in strip
    BY <1>0, <1>10 DEF Confirmed, QuestionInv
  <2>2. RegistryInv' /\ LinksInv' /\ closing' = closing \ {question}
    BY <1>10, <2>1, FinishCloseStep DEF Confirmed
  <2> QED BY <2>2, <1>0, <1>10 DEF Confirmed, ConnectionsInv, QuestionInv, ClosingIsAsked
<1>12. ASSUME NEW h \in Hosts, SlashServer(h) PROVE ConnectionsInv'
  <2>1. panels \in strip /\ panels \in Serials
    BY <1>0 DEF RegistryInv
  <2>2. RegistryInv' /\ QuestionInv'
    BY <1>0, <1>12 DEF SlashServer, RegistryInv, QuestionInv, ClosingIsAsked, registryVars
  <2>3. /\ lastConn' = [lastConn EXCEPT ![panels] = h] /\ host' = [host EXCEPT ![panels] = h]
        /\ status' = [status EXCEPT ![panels] = "dialing"]
        /\ lost' \in {lost, NoSession} /\ announced' \subseteq announced
        /\ byHand' = byHand \cup {panels} /\ strip' = strip
    BY <1>12 DEF SlashServer, registryVars
  <2>4. LinksInv'
    BY <1>0, <2>1, <2>3 DEF LinksInv, ReconnectGoesBack
  <2> QED BY <2>2, <2>4 DEF ConnectionsInv
<1>11. CASE UNCHANGED connectionsVars
  BY <1>11 DEF connectionsVars, ConnectionsInv, RegistryInv, QuestionInv,
        ClosingIsAsked, LinksInv, ReconnectGoesBack
<1> QED BY <1>1, <1>2, <1>3, <1>4, <1>5, <1>6, <1>7, <1>8, <1>9, <1>10, <1>11,
           <1>12 DEF ConnectionsNext

\* The registry, the tab strip, the panels and the close question agree with each other after
\* every operation, and a reconnect goes back to the server the session last had, for any
\* number of sessions and servers.
THEOREM ConnectionsAlwaysAgree ==
    ConnectionsSpec => [](ConnectionsTypeOK /\ ConnectionsAgree)
<1>1. ConnectionsInv => ConnectionsTypeOK
  BY DEF ConnectionsInv, RegistryInv, LinksInv, ConnectionsTypeOK, ToSet
<1>2. ConnectionsInv => ConnectionsAgree
  BY CountOfTabs DEF ConnectionsInv, RegistryInv, QuestionInv, LinksInv, ConnectionsAgree,
        TabsAreSessions
<1> QED BY <1>1, <1>2, ConnectionsInit_Inv, ConnectionsStep, PTL DEF ConnectionsSpec

\* No connect costs a live connection but the one Reconnect was offered for and the one
\* whose own chat was told /server: connecting one tab never redials another's connection.
THEOREM LiveConnectionsAreKept == ConnectionsSpec => LiveIsKept
<1> DEFINE Keeps == \A s \in Serials : status[s] = "connected" /\ status'[s] = "dialing"
                        => (lost # NoSession /\ s = Active) \/ s \in byHand'
<1>1. ConnectionsInv /\ [ConnectionsNext]_connectionsVars => [Keeps]_connectionsVars
  <2> SUFFICES ASSUME ConnectionsInv, ConnectionsNext, NEW s \in Serials,
                      status[s] = "connected", status'[s] = "dialing"
               PROVE  (lost # NoSession /\ s = Active) \/ s \in byHand'
    OBVIOUS
  <2>0. /\ status \in [Serials -> {"down", "dialing", "connected"}]
        /\ \A u \in Serials \ strip : status[u] = "down"
    BY DEF ConnectionsInv, LinksInv
  <2>1. ASSUME NEW u \in Serials, NEW st \in {"down", "connected"},
               status' = [status EXCEPT ![u] = st]
        PROVE  FALSE
    BY <2>0, <2>1
  <2>2. \A u \in Serials : ~SelectTab(u) /\ ~Connected(u) /\ ~Dropped(u)
    BY <2>1 DEF SelectTab, Connected, Dropped
  <2>3. ASSUME NEW u \in strip, NEW h \in Hosts, ConnectOn(u, h) PROVE FALSE
    <3>1. status' = [status EXCEPT ![Target(u)] = "dialing"]
      BY <2>3 DEF ConnectOn
    <3>2. (Target(u) = u /\ status[u] = "down") \/ Target(u) = opened + 1
      BY DEF Target
    <3>3. opened + 1 \notin strip
      BY DEF ConnectionsInv, RegistryInv, Serials
    <3> QED BY <3>1, <3>2, <3>3, <2>0
  <2>4. \A h \in Hosts : ~ConnectFocused(h)
    BY <2>3, ActiveIsOpen DEF ConnectFocused, ConnectionsInv
  <2>5. \A u \in Serials, h \in Hosts : ~ConnectDialog(u, h)
    BY <2>3 DEF ConnectDialog
  <2>6. CASE Reconnect
    BY <2>6, <2>0 DEF Reconnect
  <2>11. ASSUME NEW h \in Hosts, SlashServer(h) PROVE s \in byHand'
    <3>1. panels \in Serials
      BY DEF ConnectionsInv, RegistryInv, ToSet
    <3> QED BY <2>0, <2>11, <3>1 DEF SlashServer
  <2>7. ~DisconnectClicked /\ ~Declined
    BY <2>1, ActiveIsOpen DEF DisconnectClicked, Declined, ConnectionsInv
  <2>8. \A u, n \in Serials : ~FinishClose(u, n)
    BY <2>1 DEF FinishClose
  <2>9. \A u, n \in Serials : ~ClosePage(u, n)
    BY <2>8 DEF ClosePage
  <2>10. \A n \in Serials : ~Confirmed(n)
    <3>1. question # NoSession => question \in Serials
      BY DEF ConnectionsInv, QuestionInv, RegistryInv, ToSet
    <3> QED BY <3>1, <2>8 DEF Confirmed
  <2> QED BY <2>2, <2>4, <2>5, <2>6, <2>7, <2>9, <2>10, <2>11 DEF ConnectionsNext
<1>2. ConnectionsSpec => [][Keeps]_connectionsVars
  <2> HIDE DEF Keeps
  <2> QED BY <1>1, ConnectionsInit_Inv, ConnectionsStep, PTL DEF ConnectionsSpec
<1> QED BY <1>2 DEF LiveIsKept

-----------------------------------------------------------------------------
(* The tracker window.                                                        *)

\* What is said of a tracker's failures: everything the verdicts name failed once, and
\* failed last unless a walk of a closed fetch has stored it.
KnownInv ==
    /\ plainOnly \subseteq Trackers
    /\ plainOnly \subseteq onceFailed /\ plainOnly \subseteq lastFailed \cup putBack
    /\ \A w \in late : w.no \subseteq onceFailed /\ w.no \subseteq Trackers

\* The walk that runs knows all that the process does, but what came from such a walk.
WalkKnowsInv ==
    /\ walk.no \subseteq onceFailed /\ walk.no \subseteq lastFailed \cup putBack
    /\ fetching => plainOnly \subseteq walk.no \cup putBack
    /\ PlainOnlyAfterFailure

VerdictsInv == KnownInv /\ WalkKnowsInv

Events == {<<"begin", u>> : u \in Trackers} \cup {<<"server", s>> : s \in HxServers}
            \cup {<<"error", u>> : u \in Trackers} \cup {<<"done", NoTracker>>}

Walks ==
    [urls : Seq(Trackers), at : Nat \ {0}, 
     step : {"open", "reopen", "send", "end", "guard", "over"},
     out : Seq(Events), chan : Seq(Events), open : BOOLEAN, queued : BOOLEAN,
     idles : {0, 1}, no : SUBSET Trackers, over : {"plain", "tls", "nothing"}]

\* Without a drain running or coming, the channel holds what the walk has sent of one
\* tracker, for which there is room.
DrainInv ==
    /\ walk.queued <=> walk.idles = 1
    /\ walk.step \in {"open", "reopen"} => walk.at <= Len(walk.urls) /\ walk.out = <<>>
    /\ Len(walk.out) <= MaxListing + 1
    /\ fetching => (walk.open <=> walk.step \notin {"guard", "over"})
    /\ draining \/ walk.idles > 0 => fetching
    /\ fetching /\ ~draining /\ walk.idles = 0 =>
          /\ walk.step # "over"
          /\ Len(walk.chan) + Len(walk.out) <= MaxListing + 1
          /\ walk.step \in {"open", "reopen"} => walk.chan = <<>>

(* The window. *)

WinFields == {"open", "busy", "sections", "current", "total", "found", "flush"}

SectionOK(sec) ==
    /\ sec \in [seen : SUBSET HxServers, pending : Seq(HxServers), rows : Seq(HxServers)]
    /\ IsInjective(sec.rows \o sec.pending)
    /\ Range(sec.rows \o sec.pending) = sec.seen

WindowOK(w) ==
    /\ DOMAIN w = WinFields
    /\ DOMAIN w.sections \subseteq Trackers
    /\ w.current \in DOMAIN w.sections \cup {NoTracker}
    /\ \A u \in DOMAIN w.sections : SectionOK(w.sections[u])
    /\ w.flush \in BOOLEAN
    /\ (\E u \in DOMAIN w.sections : w.sections[u].pending # <<>>) => w.flush

\* A new section is in order.
LEMMA EmptySectionOK == SectionOK(EmptySection)
<1>1. EmptySection \in [seen : SUBSET HxServers, pending : Seq(HxServers), rows : Seq(HxServers)]
  BY DEF EmptySection
<1>2. EmptySection.rows \o EmptySection.pending = <<>> /\ EmptySection.seen = {}
  BY DEF EmptySection
<1> QED BY <1>1, <1>2 DEF SectionOK, IsInjective, Range

\* A server not seen before is queued once.
LEMMA AddedServerOK ==
    ASSUME NEW sec, SectionOK(sec), NEW s \in HxServers, s \notin sec.seen
    PROVE  SectionOK(WithServer(sec, s))
<1> DEFINE new == WithServer(sec, s)
           all == sec.rows \o sec.pending
           n == Len(all)
<1>0. sec \in [seen : SUBSET HxServers, pending : Seq(HxServers), rows : Seq(HxServers)]
  BY DEF SectionOK
<1>1. /\ new \in [seen : SUBSET HxServers, pending : Seq(HxServers), rows : Seq(HxServers)]
      /\ new.rows = sec.rows /\ new.seen = sec.seen \cup {s} /\ new.pending = Append(sec.pending, s)
  <2>1. Append(sec.pending, s) \in Seq(HxServers) /\ sec.seen \cup {s} \in SUBSET HxServers
    BY <1>0
  <2>2. new = [sec EXCEPT !.seen = sec.seen \cup {s}, !.pending = Append(sec.pending, s)]
    BY DEF WithServer
  <2> HIDE DEF new
  <2>3. new.rows = sec.rows /\ new.seen = sec.seen \cup {s} /\ new.pending = Append(sec.pending, s)
    BY <2>2, <1>0
  <2>4. new \in [seen : SUBSET HxServers, pending : Seq(HxServers), rows : Seq(HxServers)]
    BY <2>1, <2>2, <1>0
  <2> QED BY <2>3, <2>4
<1> HIDE DEF new
<1>2. all \in Seq(HxServers) /\ n \in Nat /\ DOMAIN all = 1..n
  BY <1>0
<1>3. new.rows \o new.pending = Append(all, s)
  BY <1>0, <1>1
<1> HIDE DEF all
<1>4. /\ Append(all, s) \in Seq(HxServers)
      /\ DOMAIN Append(all, s) = 1..(n + 1)
      /\ \A i \in 1..n : Append(all, s)[i] = all[i]
      /\ Append(all, s)[n + 1] = s
  BY <1>2
<1> HIDE DEF n
<1>5. \A i \in 1..n : all[i] \in sec.seen
  BY <1>2 DEF SectionOK, Range, all
<1>6. IsInjective(Append(all, s))
  BY <1>2, <1>4, <1>5 DEF SectionOK, IsInjective, all
<1>7. Range(Append(all, s)) = sec.seen \cup {s}
  <2>1. sec.seen = {all[i] : i \in 1..n}
    BY <1>2 DEF SectionOK, Range, all
  <2>2. \A e \in sec.seen \cup {s} : \E i \in 1..(n + 1) : Append(all, s)[i] = e
    BY <2>1, <1>2, <1>4
  <2>3. \A i \in 1..(n + 1) : Append(all, s)[i] \in sec.seen \cup {s}
    BY <1>2, <1>4, <1>5
  <2>4. Range(Append(all, s)) = {Append(all, s)[i] : i \in 1..(n + 1)}
    BY <1>4 DEF Range
  <2> QED BY <2>2, <2>3, <2>4, ZenonT(40)
<1> QED BY <1>1, <1>3, <1>6, <1>7 DEF SectionOK, new

\* A splice moves what is queued to the rows, in order.
LEMMA FlushedSectionOK ==
    ASSUME NEW sec, SectionOK(sec)
    PROVE  SectionOK([sec EXCEPT !.pending = <<>>, !.rows = sec.rows \o sec.pending])
<1> DEFINE new == [sec EXCEPT !.pending = <<>>, !.rows = sec.rows \o sec.pending]
<1>0. sec \in [seen : SUBSET HxServers, pending : Seq(HxServers), rows : Seq(HxServers)]
  BY DEF SectionOK
<1>1. /\ new \in [seen : SUBSET HxServers, pending : Seq(HxServers), rows : Seq(HxServers)]
      /\ new.rows = sec.rows \o sec.pending /\ new.seen = sec.seen /\ new.pending = <<>>
  <2>1. sec.rows \o sec.pending \in Seq(HxServers) /\ <<>> \in Seq(HxServers)
    BY <1>0
  <2>2. new.rows = sec.rows \o sec.pending /\ new.seen = sec.seen /\ new.pending = <<>>
    BY <1>0
  <2>3. new \in [seen : SUBSET HxServers, pending : Seq(HxServers), rows : Seq(HxServers)]
    BY <2>1, <1>0
  <2> QED BY <2>2, <2>3
<1> HIDE DEF new
<1>2. new.rows \o new.pending = sec.rows \o sec.pending
  BY <1>0, <1>1
<1> QED BY <1>1, <1>2 DEF SectionOK, new

\* tracker_batch_begin opens a section, or keeps the one there is.
LEMMA BatchBeginOK ==
    ASSUME NEW w, WindowOK(w), NEW u \in Trackers
    PROVE  /\ WindowOK(BatchBegin(w, u))
           /\ BatchBegin(w, u).busy = w.busy /\ BatchBegin(w, u).flush = w.flush
<1> DEFINE b == BatchBegin(w, u)
<1>1. /\ DOMAIN b = WinFields
      /\ b.sections = [v \in DOMAIN w.sections \cup {u} |->
                         IF v = u THEN EmptySection ELSE w.sections[v]]
      /\ b.current = u /\ b.busy = w.busy /\ b.flush = w.flush
  BY DEF BatchBegin, WindowOK, WinFields
<1>2. /\ DOMAIN b.sections = {u} \cup DOMAIN w.sections
      /\ b.sections[u] = EmptySection
      /\ \A v \in DOMAIN w.sections \ {u} : b.sections[v] = w.sections[v]
  BY <1>1
<1>3. EmptySection.pending = <<>>
  BY DEF EmptySection
<1> HIDE DEF b
<1>4. \A v \in DOMAIN b.sections : SectionOK(b.sections[v])
  BY <1>2, EmptySectionOK DEF WindowOK
<1>5. (\E v \in DOMAIN b.sections : b.sections[v].pending # <<>>) => b.flush
  BY <1>1, <1>2, <1>3 DEF WindowOK
<1>6. WindowOK(b)
  BY <1>1, <1>2, <1>4, <1>5 DEF WindowOK
<1> QED BY <1>1, <1>6 DEF b

\* tracker_server_create queues a server in the current section, once.
LEMMA ServerCreateOK ==
    ASSUME NEW w, WindowOK(w), NEW s \in HxServers
    PROVE  /\ WindowOK(ServerCreate(w, s))
           /\ ServerCreate(w, s).busy = w.busy
           /\ w.flush => ServerCreate(w, s).flush
<1> DEFINE b == ServerCreate(w, s)
           c == w.current
           new == WithServer(w.sections[c], s)
<1>1. CASE c = NoTracker \/ s \in w.sections[c].seen
  BY <1>1 DEF ServerCreate
<1>2. CASE ~(c = NoTracker \/ s \in w.sections[c].seen)
  <2>0. c \in DOMAIN w.sections /\ SectionOK(new)
    BY <1>2, AddedServerOK DEF WindowOK
  <2>1. /\ DOMAIN b = WinFields
        /\ b.current = c /\ b.busy = w.busy /\ b.flush = TRUE
    BY <1>2 DEF ServerCreate, WindowOK, WinFields
  <2>2. b.sections = [w.sections EXCEPT ![c] = new]
    <3>1. b = [w EXCEPT !.sections = [@ EXCEPT ![c] = new], !.flush = TRUE]
      BY <1>2 DEF ServerCreate
    <3> HIDE DEF b, c, new
    <3>2. DOMAIN w = WinFields
      BY DEF WindowOK
    <3> QED BY <3>1, <3>2 DEF WinFields
  <2> HIDE DEF new
  <2> HIDE DEF b
  <2>3. /\ DOMAIN b.sections = DOMAIN w.sections
        /\ \A v \in DOMAIN b.sections : SectionOK(b.sections[v])
    BY <2>0, <2>1, <2>2 DEF WindowOK
  <2>4. WindowOK(b)
    BY <2>1, <2>2, <2>3 DEF WindowOK
  <2> QED BY <2>1, <2>4 DEF b
<1> QED BY <1>1, <1>2

\* What a drained event does to the window.
LEMMA DispatchOK ==
    ASSUME NEW w, WindowOK(w), NEW e \in Events
    PROVE  /\ WindowOK(Dispatch(w, e))
           /\ Dispatch(w, e).busy = w.busy
           /\ w.flush => Dispatch(w, e).flush
<1>1. CASE \E u \in Trackers : e = <<"begin", u>>
  BY <1>1, BatchBeginOK DEF Dispatch
<1>2. CASE \E s \in HxServers : e = <<"server", s>>
  BY <1>2, ServerCreateOK DEF Dispatch
<1>3. CASE e[1] \notin {"begin", "server"}
  BY <1>3 DEF Dispatch
<1> QED BY <1>1, <1>2, <1>3 DEF Events

\* tracker_clear leaves empty sections.
LEMMA EmptiedOK ==
    ASSUME NEW w, DOMAIN w = WinFields, w.flush \in BOOLEAN, NEW b \in BOOLEAN
    PROVE  LET new == [Emptied(w) EXCEPT !.busy = b] IN
           WindowOK(new) /\ new.busy = b /\ new.flush = w.flush
<1> DEFINE new == [Emptied(w) EXCEPT !.busy = b]
<1>1. /\ DOMAIN new = WinFields /\ new.sections = NoSections /\ new.current = NoTracker
      /\ new.busy = b /\ new.flush = w.flush
  BY DEF Emptied, WinFields
<1>2. DOMAIN NoSections = {}
  BY DEF NoSections
<1> HIDE DEF new
<1>3. WindowOK(new)
  BY <1>1, <1>2 DEF WindowOK
<1> QED BY <1>1, <1>3 DEF new

\* A closed window is in order.
LEMMA ClosedWindowOK ==
    /\ WindowOK(ClosedWindow) /\ ClosedWindow.busy = FALSE /\ ClosedWindow.flush = FALSE
    /\ DOMAIN [ClosedWindow EXCEPT !.open = TRUE] = WinFields
    /\ [ClosedWindow EXCEPT !.open = TRUE].flush = FALSE
<1>1. /\ DOMAIN ClosedWindow = WinFields /\ ClosedWindow.sections = NoSections
      /\ ClosedWindow.current = NoTracker
      /\ ClosedWindow.busy = FALSE /\ ClosedWindow.flush = FALSE
  BY DEF ClosedWindow, WinFields
<1>2. DOMAIN NoSections = {}
  BY DEF NoSections
<1>3. WindowOK(ClosedWindow)
  BY <1>1, <1>2 DEF WindowOK
<1>4. /\ DOMAIN [ClosedWindow EXCEPT !.open = TRUE] = WinFields
      /\ [ClosedWindow EXCEPT !.open = TRUE].flush = FALSE
  BY DEF ClosedWindow, WinFields
<1> QED BY <1>1, <1>3, <1>4

WindowInv ==
    /\ WindowOK(trackerWin)
    /\ flushes \in Nat /\ (trackerWin.flush => flushes > 0)
    /\ trackerWin.busy = fetching

WalkInv ==
    /\ walk \in Walks /\ fetching \in BOOLEAN /\ draining \in BOOLEAN
    /\ plainOnly \subseteq Trackers
    /\ DrainInv

TrackerInv == WalkInv /\ WindowInv /\ VerdictsInv

\* The walk before the first and after a cleanup.
LEMMA NoWalkFields ==
    ASSUME plainOnly \subseteq Trackers
    PROVE  /\ NoWalk \in Walks
           /\ NoWalk.idles = 0 /\ ~NoWalk.queued /\ NoWalk.step = "over" /\ NoWalk.no = {}
           /\ NoWalk.out = <<>> /\ NoWalk.over = "nothing"
<1>1. NewWalk(<<>>) \in Walks
  BY DEF NewWalk, Walks
<1> QED BY <1>1 DEF NoWalk, NewWalk, Walks

\* The walk a fetch starts.
LEMMA NewWalkFields ==
    ASSUME plainOnly \subseteq Trackers, NEW urls \in Seq(Trackers), urls # <<>>
    PROVE  LET w == NewWalk(urls) IN
           /\ w \in Walks /\ w.urls = urls /\ w.at = 1 /\ w.step = "open" /\ w.out = <<>>
           /\ w.open /\ w.queued /\ w.idles = 1 /\ w.no = plainOnly /\ w.over = "nothing"
           /\ w.at <= Len(urls)
  BY DEF NewWalk, Walks

\* wake touches the wake-up alone.
LEMMA WakeFields ==
    ASSUME NEW w \in Walks, w.queued <=> w.idles = 1
    PROVE  /\ Wake(w) \in Walks /\ Wake(w).queued /\ Wake(w).idles = 1
           /\ Wake(w).urls = w.urls /\ Wake(w).at = w.at /\ Wake(w).step = w.step
           /\ Wake(w).out = w.out /\ Wake(w).chan = w.chan /\ Wake(w).open = w.open
           /\ Wake(w).no = w.no /\ Wake(w).over = w.over
<1>1. CASE w.queued
  BY <1>1 DEF Wake
<1>2. CASE ~w.queued
  <2>1. w.idles = 0
    BY <1>2 DEF Walks
  <2>2. Wake(w) = [w EXCEPT !.queued = TRUE, !.idles = w.idles + 1]
    BY <1>2 DEF Wake
  <2>3. Wake(w) = [w EXCEPT !.queued = TRUE, !.idles = 1]
    BY <2>1, <2>2
  <2>4. Wake(w) \in Walks
    BY <2>3 DEF Walks
  <2> QED BY <2>3, <2>4 DEF Walks
<1> QED BY <1>1, <1>2

\* An attempt adds to the verdicts only what failed.
LEMMA LadderFields ==
    ASSUME NEW u \in Trackers, NEW no \in SUBSET Trackers, NEW back,
           no \subseteq lastFailed \cup back, NEW l \in Ladder(u, no)
    PROVE  /\ no \subseteq l.no /\ l.no \subseteq Trackers
           /\ l.no \subseteq l.failed \cup back /\ l.no \subseteq no \cup l.failed
           /\ l.over \in {"plain", "tls", "nothing"}
           /\ l.over = "plain" => u \in l.no
<1>1. CASE u \in no
  BY <1>1 DEF Ladder
<1>2. CASE u \notin no
  BY <1>2 DEF Ladder
<1> QED BY <1>1, <1>2

\* What is to be sent for a tracker fits in the channel.
LEMMA EventsListed ==
    ASSUME NEW u \in Trackers
    PROVE  /\ \A l \in Listings : ListingEvents(u, l) \in Seq(Events)
                                  /\ Len(ListingEvents(u, l)) <= MaxListing + 1
           /\ ErrorEvents(u) \in Seq(Events) /\ Len(ErrorEvents(u)) <= MaxListing + 1
           /\ <<<<"done", NoTracker>>>> \in Seq(Events)
           /\ Len(<<<<"done", NoTracker>>>>) <= MaxListing + 1
<1>0. MaxListing \in Nat
  BY TrackerAssumption
<1>1. <<"begin", u>> \in Events /\ <<"error", u>> \in Events /\ <<"done", NoTracker>> \in Events
  BY DEF Events
<1>2. ASSUME NEW l \in Listings
      PROVE  ListingEvents(u, l) \in Seq(Events) /\ Len(ListingEvents(u, l)) <= MaxListing + 1
  <2>1. l \in Seq(HxServers) /\ Len(l) <= MaxListing
    BY TrackerAssumption
  <2> DEFINE records == [i \in DOMAIN l |-> <<"server", l[i]>>]
  <2>2. \A i \in DOMAIN l : <<"server", l[i]>> \in Events
    BY <2>1 DEF Events
  <2>3. records \in Seq(Events) /\ Len(records) = Len(l)
    BY <2>1, <2>2
  <2>4. <<<<"begin", u>>>> \in Seq(Events) /\ Len(<<<<"begin", u>>>>) = 1
    BY <1>1
  <2>5. ListingEvents(u, l) = <<<<"begin", u>>>> \o records
    BY DEF ListingEvents
  <2> HIDE DEF records
  <2> QED BY <2>1, <2>3, <2>4, <2>5, <1>0
<1>3. ErrorEvents(u) \in Seq(Events) /\ Len(ErrorEvents(u)) = 1
  BY <1>1 DEF ErrorEvents
<1>4. <<<<"done", NoTracker>>>> \in Seq(Events) /\ Len(<<<<"done", NoTracker>>>>) = 1
  BY <1>1
<1> QED BY <1>0, <1>2, <1>3, <1>4

\* At the start there is no window and no walk.
LEMMA TrackerInit_Inv == TrackerInit => TrackerInv
<1> SUFFICES ASSUME TrackerInit PROVE TrackerInv
  OBVIOUS
<1>1. WindowInv
  BY ClosedWindowOK DEF TrackerInit, WindowInv
<1>2. WalkInv
  <2>1. walk = NoWalk /\ plainOnly \subseteq Trackers /\ fetching = FALSE /\ draining = FALSE
        /\ MaxListing \in Nat
    BY TrackerAssumption DEF TrackerInit
  <2>2. /\ walk \in Walks /\ walk.idles = 0 /\ ~walk.queued /\ walk.step = "over"
        /\ Len(walk.out) = 0
    BY <2>1, NoWalkFields
  <2>3. DrainInv
    BY <2>1, <2>2 DEF DrainInv
  <2> QED BY <2>1, <2>2, <2>3 DEF WalkInv
<1>3. VerdictsInv
  BY NoWalkFields DEF TrackerInit, VerdictsInv, KnownInv, WalkKnowsInv, PlainOnlyAfterFailure
<1> QED BY <1>1, <1>2, <1>3 DEF TrackerInv

\* The walk: each of its steps keeps the invariant.
LEMMA VisitTrackerStep == ASSUME TrackerInv, VisitTracker PROVE TrackerInv'
<1> DEFINE u == walk.urls[walk.at]
<1>0. /\ walk \in Walks /\ DrainInv /\ VerdictsInv /\ WindowInv /\ fetching
      /\ walk.step \in {"open", "reopen"} /\ MaxListing \in Nat
      /\ UNCHANGED <<trackerWin, fetching, draining, flushes, plainOnly, late, putBack>>
      /\ plainOnly \subseteq Trackers /\ draining \in BOOLEAN
  BY TrackerAssumption DEF TrackerInv, WalkInv, VisitTracker
<1>1. u \in Trackers /\ walk.out = <<>>
  BY <1>0, SMTT(40) DEF DrainInv, Walks
<1>2. PICK l \in Ladder(u, walk.no) :
         /\ lastFailed' = l.failed /\ onceFailed' = onceFailed \cup l.failed
         /\ \/ \E listing \in Listings :
                 walk' = [walk EXCEPT !.step = "send", !.out = ListingEvents(u, listing),
                                         !.no = l.no, !.over = l.over]
            \/ walk' = [walk EXCEPT !.step = "send", !.out = ErrorEvents(u),
                                    !.no = l.no, !.over = l.over]
            \/ walk' = [walk EXCEPT !.step = "reopen", !.no = l.no, !.over = l.over]
  BY Zenon DEF VisitTracker
<1>3. /\ walk.no \subseteq l.no /\ l.no \subseteq Trackers
      /\ l.no \subseteq l.failed \cup putBack /\ l.no \subseteq walk.no \cup l.failed
      /\ l.over \in {"plain", "tls", "nothing"} /\ (l.over = "plain" => u \in l.no)
  <2>1. walk.no \in SUBSET Trackers /\ walk.no \subseteq lastFailed \cup putBack
    BY <1>0, SMTT(40) DEF VerdictsInv, WalkKnowsInv, Walks
  <2> HIDE DEF u
  <2> QED BY <2>1, <1>1, <1>2, LadderFields
<1> HIDE DEF u
<1>4. \E st \in {"send", "reopen"}, o \in Seq(Events) :
         /\ Len(o) <= MaxListing + 1 /\ (st = "reopen" => o = <<>>)
         /\ walk' = [walk EXCEPT !.step = st, !.out = o, !.no = l.no, !.over = l.over]
  <2>1. CASE \E listing \in Listings :
                 walk' = [walk EXCEPT !.step = "send", !.out = ListingEvents(u, listing),
                                         !.no = l.no, !.over = l.over]
    BY <2>1, <1>1, EventsListed
  <2>2. CASE walk' = [walk EXCEPT !.step = "send", !.out = ErrorEvents(u),
                                    !.no = l.no, !.over = l.over]
    BY <2>2, <1>1, EventsListed
  <2>3. CASE walk' = [walk EXCEPT !.step = "reopen", !.no = l.no, !.over = l.over]
    <3>1. walk' = [walk EXCEPT !.step = "reopen", !.out = <<>>, !.no = l.no, !.over = l.over]
      BY <2>3, <1>0, <1>1 DEF Walks
    <3>2. <<>> \in Seq(Events) /\ Len(<<>>) <= MaxListing + 1
      BY <1>0
    <3> QED BY <3>1, <3>2
  <2> QED BY <2>1, <2>2, <2>3, <1>2
<1>5. PICK st \in {"send", "reopen"}, o \in Seq(Events) :
         /\ Len(o) <= MaxListing + 1 /\ (st = "reopen" => o = <<>>)
         /\ walk' = [walk EXCEPT !.step = st, !.out = o, !.no = l.no, !.over = l.over]
  BY <1>4
<1>6. walk' \in Walks
  BY <1>0, <1>3, <1>5 DEF Walks
<1>7. /\ walk'.step = st /\ walk'.out = o /\ walk'.no = l.no /\ walk'.over = l.over
      /\ walk'.urls = walk.urls /\ walk'.at = walk.at /\ walk'.chan = walk.chan
      /\ walk'.open = walk.open /\ walk'.queued = walk.queued /\ walk'.idles = walk.idles
  BY <1>0, <1>5 DEF Walks
<1>8. DrainInv'
  BY <1>0, <1>5, <1>7 DEF DrainInv, Walks
<1>9. VerdictsInv'
  <2>1. KnownInv /\ WalkKnowsInv
    BY <1>0 DEF VerdictsInv
  <2>2. KnownInv'
    <3>1. plainOnly \subseteq l.failed \cup putBack
      BY <2>1, <1>0, <1>3 DEF WalkKnowsInv
    <3> QED BY <3>1, <2>1, <1>0, <1>2 DEF KnownInv
  <2>3. walk'.no \subseteq onceFailed' /\ walk'.no \subseteq lastFailed' \cup putBack'
    BY <2>1, <1>0, <1>2, <1>3, <1>7 DEF WalkKnowsInv
  <2>4. PlainOnlyAfterFailure'
    <3>1. walk'.urls[walk'.at] = u /\ (walk'.over = "plain" => u \in walk'.no)
      BY <1>3, <1>7 DEF u
    <3> QED BY <3>1, <2>3 DEF PlainOnlyAfterFailure
  <2>5. fetching' => plainOnly' \subseteq walk'.no \cup putBack'
    BY <2>1, <1>0, <1>3, <1>7 DEF WalkKnowsInv
  <2> QED BY <2>2, <2>3, <2>4, <2>5 DEF VerdictsInv, WalkKnowsInv
<1>10. WindowInv'
  BY <1>0 DEF WindowInv
<1> QED BY <1>0, <1>6, <1>8, <1>9, <1>10 DEF TrackerInv, WalkInv

\* A step of the walk that changes neither the window nor what is known of failures.
LEMMA WalkOn ==
    ASSUME TrackerInv, walk' \in Walks, DrainInv',
           UNCHANGED <<trackerWin, fetching, flushes, verdictVars>>,
           draining' \in BOOLEAN, walk'.no = walk.no,
           \/ walk'.over = "nothing"
           \/ walk'.over = walk.over /\ walk'.at = walk.at /\ walk'.urls = walk.urls
    PROVE  TrackerInv'
<1>1. VerdictsInv'
  BY DEF TrackerInv, VerdictsInv, KnownInv, WalkKnowsInv, verdictVars, PlainOnlyAfterFailure
<1>2. WindowInv'
  BY DEF TrackerInv, WindowInv
<1>3. plainOnly' \subseteq Trackers
  BY <1>1 DEF VerdictsInv, KnownInv
<1>4. fetching' \in BOOLEAN
  BY DEF TrackerInv, WalkInv
<1> QED BY <1>1, <1>2, <1>3, <1>4 DEF TrackerInv, WalkInv

\* The walk sends an event to the main loop.
LEMMA SendEventStep == ASSUME TrackerInv, SendEvent PROVE TrackerInv'
<1>0. /\ walk \in Walks /\ DrainInv /\ fetching /\ walk.step = "send" /\ walk.out # <<>>
      /\ MaxListing \in Nat /\ draining \in BOOLEAN
      /\ UNCHANGED <<trackerWin, fetching, draining, flushes, verdictVars>>
  BY TrackerAssumption DEF TrackerInv, WalkInv, SendEvent
<1> DEFINE o == Tail(walk.out)
           c == Append(walk.chan, Head(walk.out))
<1>1. walk' = [walk EXCEPT !.out = o, !.chan = c]
  BY DEF SendEvent
<1>2. walk.out \in Seq(Events) /\ walk.chan \in Seq(Events)
  BY <1>0 DEF Walks
<1>3. /\ o \in Seq(Events) /\ Len(o) = Len(walk.out) - 1
      /\ c \in Seq(Events) /\ Len(c) = Len(walk.chan) + 1
      /\ Len(walk.out) \in Nat /\ Len(walk.chan) \in Nat
  BY <1>0, <1>2
<1> HIDE DEF o, c
<1>4. walk' \in Walks
  BY <1>0, <1>1, <1>3 DEF Walks
<1>5. /\ walk'.out = o /\ walk'.chan = c /\ walk'.step = "send" /\ walk'.urls = walk.urls
      /\ walk'.at = walk.at /\ walk'.open = walk.open /\ walk'.queued = walk.queued
      /\ walk'.idles = walk.idles /\ walk'.no = walk.no /\ walk'.over = walk.over
  BY <1>0, <1>1 DEF Walks
<1>6. DrainInv'
  <2>1. Len(walk'.out) <= MaxListing + 1
    BY <1>0, <1>3, <1>5 DEF DrainInv
  <2>2. Len(walk'.chan) + Len(walk'.out) = Len(walk.chan) + Len(walk.out)
    <3>1. Len(walk'.chan) = Len(c) /\ Len(walk'.out) = Len(o)
      BY <1>5
    <3>2. /\ Len(c) = Len(walk.chan) + 1 /\ Len(o) = Len(walk.out) - 1
          /\ Len(walk.chan) \in Int /\ Len(walk.out) \in Int
      BY <1>3
    <3>3. \A m, n \in Int : (m + 1) + (n - 1) = m + n
      OBVIOUS
    <3>4. Len(c) + Len(o) = (Len(walk.chan) + 1) + (Len(walk.out) - 1)
      BY <3>2
    <3> QED BY <3>1, <3>2, <3>3, <3>4
  <2> QED BY <1>0, <1>5, <2>1, <2>2 DEF DrainInv
<1> QED BY <1>0, <1>4, <1>5, <1>6, WalkOn

\* The walk goes on after a tracker.
LEMMA TrackerSentStep == ASSUME TrackerInv, TrackerSent PROVE TrackerInv'
<1>0. /\ walk \in Walks /\ DrainInv /\ fetching /\ walk.step = "send" /\ walk.out = <<>>
      /\ MaxListing \in Nat /\ draining \in BOOLEAN
      /\ UNCHANGED <<trackerWin, fetching, draining, flushes, verdictVars>>
  BY TrackerAssumption DEF TrackerInv, WalkInv, TrackerSent
<1> DEFINE k == Wake(walk)
           done == <<<<"done", NoTracker>>>>
<1>1. /\ k \in Walks /\ k.queued /\ k.idles = 1 /\ k.urls = walk.urls /\ k.at = walk.at
      /\ k.step = "send" /\ k.out = <<>> /\ k.open = walk.open /\ k.no = walk.no
  BY <1>0, WakeFields DEF DrainInv
<1>2. done \in Seq(Events) /\ Len(done) = 1
  BY DEF Events
<1>3. walk.at \in Nat \ {0} /\ walk.urls \in Seq(Trackers) /\ Len(walk.urls) \in Nat
  BY <1>0 DEF Walks
<1>4. walk' = IF walk.at < Len(walk.urls)
              THEN [[k EXCEPT !.at = k.at + 1, !.over = "nothing"] EXCEPT !.step = "open"]
              ELSE IF walk.at = Len(walk.urls)
              THEN [[k EXCEPT !.at = k.at + 1, !.over = "nothing"] EXCEPT !.out = done]
              ELSE [[k EXCEPT !.at = k.at + 1, !.over = "nothing"] EXCEPT !.step = "end"]
  BY DEF TrackerSent
<1> HIDE DEF k, done
<1>5. /\ walk' \in Walks /\ walk'.urls = walk.urls /\ walk'.at = walk.at + 1
      /\ (walk'.open <=> walk.open) /\ walk'.queued /\ walk'.idles = 1
      /\ walk'.no = walk.no /\ walk'.over = "nothing"
      /\ walk'.step \in {"open", "send", "end"} /\ walk'.out \in {<<>>, done}
      /\ walk'.step = "open" => walk.at < Len(walk.urls) /\ walk'.out = <<>>
  <2> DEFINE w == [k EXCEPT !.at = k.at + 1, !.over = "nothing"]
  <2>0. /\ w \in Walks /\ w.urls = walk.urls /\ w.at = walk.at + 1
        /\ (w.open <=> walk.open) /\ w.queued /\ w.idles = 1
        /\ w.no = walk.no /\ w.over = "nothing" /\ w.step = "send" /\ w.out = <<>>
    <3>1. k.at + 1 \in Nat \ {0}
      BY <1>1, <1>3
    <3> QED BY <3>1, <1>1, <1>3 DEF Walks
  <2> HIDE DEF w
  <2>1. CASE walk.at < Len(walk.urls)
    <3>1. walk' = [w EXCEPT !.step = "open"]
      BY <2>1, <1>4 DEF w
    <3> QED BY <3>1, <2>0, <2>1 DEF Walks
  <2>2. CASE walk.at = Len(walk.urls)
    <3>1. walk' = [w EXCEPT !.out = done]
      BY <2>2, <1>3, <1>4 DEF w
    <3> QED BY <3>1, <2>0, <1>2 DEF Walks
  <2>3. CASE walk.at > Len(walk.urls)
    <3>1. walk' = [w EXCEPT !.step = "end"]
      BY <2>3, <1>3, <1>4 DEF w
    <3> QED BY <3>1, <2>0 DEF Walks
  <2> QED BY <2>1, <2>2, <2>3, <1>3
<1>8. Len(walk'.out) <= 1
  <2>1. walk'.out = <<>> \/ walk'.out = done
    BY <1>5
  <2>2. CASE walk'.out = <<>>
    BY <2>2
  <2>3. CASE walk'.out = done
    BY <2>3, <1>2
  <2> QED BY <2>1, <2>2, <2>3
<1>9. DrainInv'
  BY <1>0, <1>3, <1>5, <1>8 DEF DrainInv
<1>10. walk' \in Walks /\ walk'.no = walk.no /\ walk'.over = "nothing"
  BY <1>5
<1>11. UNCHANGED <<trackerWin, fetching, flushes, verdictVars>> /\ draining' \in BOOLEAN
  BY <1>0
<1> QED BY <1>9, <1>10, <1>11, WalkOn

\* The walk ends.
LEMMA WalkEndsStep == ASSUME TrackerInv, WalkEnds PROVE TrackerInv'
<1>0. /\ walk \in Walks /\ DrainInv /\ VerdictsInv /\ WindowInv /\ fetching
      /\ walk.step = "end" /\ draining \in BOOLEAN
      /\ UNCHANGED <<trackerWin, fetching, draining, flushes>>
      /\ UNCHANGED <<late, lastFailed, onceFailed, putBack>>
      /\ plainOnly' = walk.no /\ walk' = [walk EXCEPT !.step = "guard", !.open = FALSE]
  BY DEF TrackerInv, WalkInv, WalkEnds
<1>1. walk' \in Walks
  BY <1>0 DEF Walks
<1>2. /\ walk'.step = "guard" /\ ~walk'.open /\ walk'.out = walk.out /\ walk'.chan = walk.chan
      /\ walk'.urls = walk.urls /\ walk'.at = walk.at /\ walk'.queued = walk.queued
      /\ walk'.idles = walk.idles /\ walk'.no = walk.no /\ walk'.over = walk.over
  BY <1>0 DEF Walks
<1>3. DrainInv'
  BY <1>0, <1>2 DEF DrainInv
<1>4. VerdictsInv' /\ plainOnly' \subseteq Trackers
  <2>1. walk.no \subseteq Trackers /\ KnownInv /\ WalkKnowsInv
    BY <1>0 DEF VerdictsInv, Walks
  <2>2. KnownInv'
    BY <1>0, <2>1 DEF KnownInv, WalkKnowsInv
  <2>3. WalkKnowsInv'
    BY <1>0, <1>2, <2>1 DEF WalkKnowsInv, PlainOnlyAfterFailure
  <2> QED BY <2>2, <2>3 DEF VerdictsInv, KnownInv
<1>5. WindowInv'
  BY <1>0 DEF WindowInv
<1> QED BY <1>0, <1>1, <1>3, <1>4, <1>5 DEF TrackerInv, WalkInv

\* The walk panics, which its guard survives.
LEMMA WalkPanicsStep == ASSUME TrackerInv, WalkPanics PROVE TrackerInv'
<1>0. /\ walk \in Walks /\ DrainInv /\ fetching
      /\ walk.step \in {"open", "reopen", "send"}
      /\ walk' = [walk EXCEPT !.step = "guard", !.open = FALSE, !.over = "nothing"]
  BY DEF TrackerInv, WalkInv, WalkPanics
<1>1. UNCHANGED <<trackerWin, fetching, flushes, verdictVars>> /\ draining' = draining
      /\ draining' \in BOOLEAN
  BY DEF TrackerInv, WalkInv, WalkPanics
<1>2. walk' \in Walks
  BY <1>0 DEF Walks
<1>3. /\ walk'.step = "guard" /\ ~walk'.open /\ walk'.out = walk.out /\ walk'.chan = walk.chan
      /\ walk'.queued = walk.queued
      /\ walk'.idles = walk.idles /\ walk'.no = walk.no /\ walk'.over = "nothing"
  BY <1>0 DEF Walks
<1>4. DrainInv'
  BY <1>0, <1>1, <1>3 DEF DrainInv
<1> QED BY <1>1, <1>2, <1>3, <1>4, WalkOn

\* The guard wakes the main loop a last time.
LEMMA GuardDropsStep == ASSUME TrackerInv, GuardDrops PROVE TrackerInv'
<1> DEFINE k == Wake(walk)
<1>0. /\ walk \in Walks /\ DrainInv /\ fetching /\ walk.step = "guard"
      /\ walk' = [k EXCEPT !.step = "over"]
  BY DEF TrackerInv, WalkInv, GuardDrops
<1>1. UNCHANGED <<trackerWin, fetching, flushes, verdictVars>> /\ draining' = draining
      /\ draining' \in BOOLEAN
  BY DEF TrackerInv, WalkInv, GuardDrops
<1>2. /\ k \in Walks /\ k.queued /\ k.idles = 1 /\ k.urls = walk.urls /\ k.at = walk.at
      /\ k.out = walk.out /\ k.open = walk.open /\ k.no = walk.no /\ k.over = walk.over
  BY <1>0, WakeFields DEF DrainInv
<1> HIDE DEF k
<1>3. walk' \in Walks
  BY <1>0, <1>2 DEF Walks
<1>4. /\ walk'.step = "over" /\ walk'.queued /\ walk'.idles = 1 /\ walk'.urls = walk.urls
      /\ walk'.at = walk.at /\ walk'.out = walk.out /\ walk'.open = walk.open
      /\ walk'.no = walk.no /\ walk'.over = walk.over
  BY <1>0, <1>2 DEF Walks
<1>5. DrainInv'
  BY <1>0, <1>1, <1>4 DEF DrainInv
<1> QED BY <1>1, <1>3, <1>4, <1>5, WalkOn

\* A walk that goes on after its fetch was closed stores what it knew, or does not.
LEMMA LateStoreStep == ASSUME TrackerInv, LateStore PROVE TrackerInv'
<1>1. PICK w \in late :
        /\ late' = late \ {w}
        /\ \/ plainOnly' = w.no /\ putBack' = putBack \cup w.no
           \/ UNCHANGED <<plainOnly, putBack>>
  BY DEF LateStore
<1>2. /\ UNCHANGED <<trackerWin, fetching, walk, draining, flushes, lastFailed, onceFailed>>
      /\ KnownInv /\ WalkKnowsInv /\ WindowInv /\ WalkInv
  BY DEF LateStore, TrackerInv, VerdictsInv
<1>3. /\ plainOnly' \subseteq plainOnly \cup w.no /\ putBack \subseteq putBack'
      /\ plainOnly' = plainOnly \/ plainOnly' \subseteq putBack'
  BY <1>1
<1>4. KnownInv'
  BY <1>1, <1>2, <1>3 DEF KnownInv
<1>5. WalkKnowsInv'
  <2>1. PlainOnlyAfterFailure'
    BY <1>2, <1>3 DEF WalkKnowsInv, PlainOnlyAfterFailure
  <2> QED BY <1>2, <1>3, <2>1 DEF WalkKnowsInv
<1>6. WindowInv'
  BY <1>2 DEF WindowInv
<1>7. WalkInv'
  BY <1>2, <1>4 DEF WalkInv, DrainInv, KnownInv
<1> QED BY <1>4, <1>5, <1>6, <1>7 DEF TrackerInv, VerdictsInv

\* What is known when a fetch is closed: a walk in the prompt had not given its tracker up.
LEMMA AbortStep == ASSUME TrackerInv, Abort PROVE KnownInv' /\ plainOnly' = plainOnly
<1> DEFINE u == walk.urls[walk.at]
<1>1. /\ KnownInv /\ WalkKnowsInv /\ UNCHANGED <<plainOnly, onceFailed, putBack>>
      /\ walk.no \subseteq Trackers
  BY DEF TrackerInv, WalkInv, VerdictsInv, Abort, Walks
<1>2. late' = late \/ late' = late \cup {[fetch |-> gets, no |-> walk.no]}
  BY DEF Abort, GoesOn
<1>3. \A w \in late' : w.no \subseteq onceFailed /\ w.no \subseteq Trackers
  BY <1>1, <1>2 DEF KnownInv, WalkKnowsInv
<1>4. \/ lastFailed' = lastFailed
      \/ fetching /\ u \notin walk.no /\ lastFailed' = lastFailed \ {u}
  BY Zenon DEF Abort
<1> HIDE DEF u
<1>5. plainOnly \subseteq lastFailed' \cup putBack
  <2>1. CASE lastFailed' = lastFailed
    BY <2>1, <1>1 DEF KnownInv
  <2>2. CASE fetching /\ u \notin walk.no /\ lastFailed' = lastFailed \ {u}
    BY <2>2, <1>1 DEF WalkKnowsInv
  <2> QED BY <2>1, <2>2, <1>4
<1> QED BY <1>1, <1>3, <1>5 DEF KnownInv

\* The fetch is closed, by whatever window is left.
LEMMA CleanupStep ==
    ASSUME TrackerInv, Cleanup, draining' = FALSE, flushes' = flushes,
           WindowOK(trackerWin'), trackerWin'.busy = FALSE,
           trackerWin'.flush => trackerWin.flush
    PROVE  TrackerInv'
<1>1. /\ fetching' = FALSE /\ walk' = NoWalk /\ plainOnly \subseteq Trackers
      /\ WindowInv /\ VerdictsInv /\ MaxListing \in Nat
  BY TrackerAssumption DEF Cleanup, TrackerInv, WalkInv
<1>2. /\ walk' \in Walks /\ walk'.idles = 0 /\ ~walk'.queued /\ walk'.step = "over"
      /\ walk'.no = {} /\ Len(walk'.out) = 0 /\ walk'.over = "nothing"
  BY <1>1, NoWalkFields
<1>3. DrainInv'
  BY <1>1, <1>2 DEF DrainInv
<1>4. WindowInv'
  BY <1>1 DEF WindowInv
<1>5. KnownInv' /\ plainOnly' = plainOnly
  BY AbortStep DEF Cleanup
<1>6. VerdictsInv'
  BY <1>1, <1>2, <1>5 DEF VerdictsInv, WalkKnowsInv, PlainOnlyAfterFailure
<1> QED BY <1>1, <1>2, <1>3, <1>4, <1>5, <1>6 DEF TrackerInv, WalkInv

\* The spinner stops with the fetch.
LEMMA SpinnerStops ==
    ASSUME WindowInv
    PROVE  LET w == [trackerWin EXCEPT !.busy = FALSE] IN
           WindowOK(w) /\ w.busy = FALSE /\ w.flush = trackerWin.flush
<1> DEFINE w == [trackerWin EXCEPT !.busy = FALSE]
<1>1. WindowOK(trackerWin)
  BY DEF WindowInv
<1>2. /\ DOMAIN w = WinFields /\ w.sections = trackerWin.sections /\ w.busy = FALSE
      /\ w.current = trackerWin.current /\ w.flush = trackerWin.flush
  BY <1>1 DEF WindowOK, WinFields
<1> HIDE DEF w
<1>3. WindowOK(w)
  BY <1>1, <1>2 DEF WindowOK
<1> QED BY <1>2, <1>3 DEF w

\* The main thread: each step of the drain keeps the invariant.
LEMMA RunWakeStep == ASSUME TrackerInv, RunWake PROVE TrackerInv'
<1>0. /\ walk \in Walks /\ DrainInv /\ WindowInv /\ ~draining /\ walk.idles > 0
      /\ flushes' = flushes /\ draining \in BOOLEAN
  BY DEF TrackerInv, WalkInv, RunWake
<1>1. CASE asker
  <2>1. /\ walk' = [walk EXCEPT !.idles = walk.idles - 1, !.queued = FALSE]
        /\ draining' = TRUE /\ UNCHANGED <<trackerWin, fetching, verdictVars>>
    BY <1>1 DEF RunWake
  <2>2. walk.idles = 1
    BY <1>0 DEF Walks
  <2>3. walk' = [walk EXCEPT !.idles = 0, !.queued = FALSE]
    BY <2>1, <2>2
  <2>4. walk' \in Walks
    BY <1>0, <2>3 DEF Walks
  <2>5. /\ walk'.step = walk.step /\ walk'.open = walk.open /\ walk'.out = walk.out
        /\ walk'.urls = walk.urls /\ walk'.at = walk.at /\ ~walk'.queued
        /\ walk'.idles = 0 /\ walk'.no = walk.no /\ walk'.over = walk.over
    BY <1>0, <2>3 DEF Walks
  <2>6. DrainInv'
    BY <1>0, <2>1, <2>5 DEF DrainInv
  <2> QED BY <1>0, <2>1, <2>4, <2>5, <2>6, WalkOn
<1>2. CASE ~asker
  <2>1. Cleanup /\ trackerWin' = [trackerWin EXCEPT !.busy = FALSE] /\ draining' = FALSE
    BY <1>0, <1>2 DEF RunWake
  <2> QED BY <1>0, <2>1, SpinnerStops, CleanupStep
<1> QED BY <1>1, <1>2

\* The main loop takes an event.
LEMMA PollEventStep == ASSUME TrackerInv, PollEvent PROVE TrackerInv'
<1>0. /\ walk \in Walks /\ DrainInv /\ WindowInv /\ VerdictsInv /\ draining /\ walk.chan # <<>>
      /\ UNCHANGED <<fetching, draining, verdictVars>>
      /\ trackerWin' = Dispatch(trackerWin, Head(walk.chan))
      /\ flushes' = IF trackerWin'.flush /\ ~trackerWin.flush THEN flushes + 1 ELSE flushes
      /\ walk' = [walk EXCEPT !.chan = Tail(walk.chan)]
      /\ draining \in BOOLEAN /\ fetching \in BOOLEAN /\ plainOnly' \subseteq Trackers
  BY DEF TrackerInv, WalkInv, PollEvent, verdictVars
<1>1. walk.chan \in Seq(Events)
  BY <1>0 DEF Walks
<1>2. Head(walk.chan) \in Events /\ Tail(walk.chan) \in Seq(Events)
  BY <1>0, <1>1
<1>3. /\ WindowOK(trackerWin') /\ trackerWin'.busy = trackerWin.busy
      /\ trackerWin.flush => trackerWin'.flush
  BY <1>0, <1>2, DispatchOK DEF WindowInv
<1>4. WindowInv'
  <2>1. flushes \in Nat /\ (trackerWin.flush => flushes > 0) /\ trackerWin.busy = fetching
    BY <1>0 DEF WindowInv
  <2>2. flushes' \in Nat /\ (trackerWin'.flush => flushes' > 0)
    BY <2>1, <1>0
  <2> QED BY <1>0, <1>3, <2>1, <2>2 DEF WindowInv
<1>5. walk' \in Walks
  BY <1>0, <1>2 DEF Walks
<1>6. /\ walk'.step = walk.step /\ walk'.open = walk.open /\ walk'.out = walk.out
      /\ walk'.urls = walk.urls /\ walk'.at = walk.at /\ walk'.queued = walk.queued
      /\ walk'.idles = walk.idles /\ walk'.no = walk.no /\ walk'.over = walk.over
  BY <1>0 DEF Walks
<1>7. DrainInv'
  BY <1>0, <1>6 DEF DrainInv
<1>8. VerdictsInv'
  BY <1>0, <1>6 DEF VerdictsInv, KnownInv, WalkKnowsInv, verdictVars, PlainOnlyAfterFailure
<1> QED BY <1>0, <1>4, <1>5, <1>7, <1>8 DEF TrackerInv, WalkInv

\* The main loop finds the channel empty.
LEMMA PollEmptyStep == ASSUME TrackerInv, PollEmpty PROVE TrackerInv'
<1>0. /\ walk \in Walks /\ DrainInv /\ WindowInv /\ draining /\ walk.chan = <<>>
      /\ flushes' = flushes /\ draining' = FALSE
  BY DEF TrackerInv, WalkInv, PollEmpty
<1>1. CASE walk.open
  <2>1. UNCHANGED <<trackerWin, fetching, walk, verdictVars>>
    BY <1>1 DEF PollEmpty
  <2>2. Len(walk.chan) = 0 /\ Len(walk.out) \in Nat /\ MaxListing \in Nat
    BY <1>0, TrackerAssumption DEF Walks
  <2>3. Len(walk.chan) + Len(walk.out) <= MaxListing + 1
    BY <2>2, <1>0 DEF DrainInv
  <2>4. walk.step # "over"
    BY <1>0, <1>1 DEF DrainInv
  <2>5. DrainInv'
    BY <1>0, <2>1, <2>3, <2>4 DEF DrainInv
  <2> QED BY <1>0, <2>1, <2>5, WalkOn
<1>2. CASE ~walk.open
  <2>1. Cleanup /\ trackerWin' = [trackerWin EXCEPT !.busy = FALSE]
    BY <1>2 DEF PollEmpty
  <2> QED BY <1>0, <2>1, SpinnerStops, CleanupStep
<1> QED BY <1>1, <1>2

\* A step of the window alone.
LEMMA WindowOn ==
    ASSUME TrackerInv, UNCHANGED <<fetching, walk, draining, verdictVars>>,
           WindowInv'
    PROVE  TrackerInv'
  BY DEF TrackerInv, WalkInv, DrainInv, VerdictsInv, KnownInv, WalkKnowsInv, verdictVars,
         PlainOnlyAfterFailure

\* The steps of the window keep the invariant.
LEMMA FlushPendingStep == ASSUME TrackerInv, FlushPending PROVE TrackerInv'
<1> DEFINE lists == trackerWin.sections
           w == trackerWin'
<1>0. /\ WindowInv /\ flushes > 0 /\ flushes' = flushes - 1
      /\ UNCHANGED <<fetching, walk, draining, verdictVars>>
      /\ WindowOK(trackerWin) /\ flushes \in Nat /\ trackerWin.busy = fetching
  BY DEF TrackerInv, WindowInv, FlushPending
<1>1. PICK total, found :
        trackerWin' = [trackerWin EXCEPT
                        !.flush = FALSE,
                        !.sections = [u \in DOMAIN lists |->
                          [lists[u] EXCEPT !.pending = <<>>, !.rows = lists[u].rows \o lists[u].pending]],
                        !.total = total, !.found = found]
  BY DEF FlushPending
<1>2. /\ DOMAIN w = WinFields /\ w.busy = trackerWin.busy /\ w.current = trackerWin.current
      /\ w.flush = FALSE
      /\ w.sections = [u \in DOMAIN lists |->
             [lists[u] EXCEPT !.pending = <<>>, !.rows = lists[u].rows \o lists[u].pending]]
  BY <1>0, <1>1 DEF WindowOK, WinFields
<1> HIDE DEF w
<1>3. ASSUME NEW u \in DOMAIN w.sections
      PROVE  SectionOK(w.sections[u]) /\ w.sections[u].pending = <<>>
  <2>1. SectionOK(lists[u]) /\ DOMAIN w.sections = DOMAIN lists
    BY <1>0, <1>2 DEF WindowOK
  <2>2. w.sections[u] = [lists[u] EXCEPT !.pending = <<>>, !.rows = lists[u].rows \o lists[u].pending]
    BY <1>2, <2>1
  <2> QED BY <2>1, <2>2, FlushedSectionOK, ZenonT(40) DEF SectionOK
<1>4. WindowOK(w)
  BY <1>0, <1>2, <1>3 DEF WindowOK
<1>5. WindowInv'
  <2>1. flushes' \in Nat
    BY <1>0
  <2>2. WindowOK(trackerWin') /\ trackerWin'.flush = FALSE /\ trackerWin'.busy = trackerWin.busy
    BY <1>2, <1>4 DEF w
  <2> QED BY <1>0, <2>1, <2>2 DEF WindowInv
<1> QED BY <1>0, <1>5, WindowOn

\* The search is made anew over the rows.
LEMMA RerunSearchStep == ASSUME TrackerInv, NEW m, RerunSearch(m) PROVE TrackerInv'
<1> DEFINE w == trackerWin'
<1>0. /\ WindowInv /\ WindowOK(trackerWin) /\ flushes' = flushes
      /\ UNCHANGED <<fetching, walk, draining, verdictVars>>
  BY DEF TrackerInv, WindowInv, RerunSearch
<1>1. PICK found : trackerWin' = [trackerWin EXCEPT !.found = found]
  BY DEF RerunSearch
<1>2. /\ DOMAIN w = WinFields /\ w.busy = trackerWin.busy /\ w.current = trackerWin.current
      /\ w.flush = trackerWin.flush /\ w.sections = trackerWin.sections
  BY <1>0, <1>1 DEF WindowOK, WinFields
<1> HIDE DEF w
<1>3. WindowOK(w)
  BY <1>0, <1>2 DEF WindowOK
<1>4. WindowInv'
  BY <1>0, <1>2, <1>3 DEF WindowInv, w
<1> QED BY <1>0, <1>4, WindowOn

\* A fetch replaces the walk before it.
LEMMA GetListStep ==
    ASSUME TrackerInv, NEW w, DOMAIN w = WinFields, w.flush \in BOOLEAN,
           w.flush => trackerWin.flush, GetList(w), ~draining,
           UNCHANGED <<draining, flushes>>
    PROVE  TrackerInv'
<1>0. /\ WindowInv /\ VerdictsInv /\ plainOnly \subseteq Trackers /\ draining' \in BOOLEAN
      /\ MaxListing \in Nat /\ Abort /\ KnownInv' /\ plainOnly' = plainOnly
  BY TrackerAssumption, AbortStep DEF TrackerInv, WalkInv, GetList
<1>1. PICK urls \in TrackerLists :
        /\ fetching' = (urls # <<>>)
        /\ walk' = IF urls # <<>> THEN NewWalk(urls) ELSE NoWalk
        /\ trackerWin' = [Emptied(w) EXCEPT !.busy = (urls # <<>>)]
  BY DEF GetList
<1>2. urls \in Seq(Trackers)
  BY TrackerAssumption
<1>3. CASE urls = <<>>
  <2>1. fetching' = FALSE /\ walk' = NoWalk /\ trackerWin' = [Emptied(w) EXCEPT !.busy = FALSE]
    BY <1>1, <1>3
  <2>2. WindowOK(trackerWin') /\ trackerWin'.busy = FALSE /\ trackerWin'.flush = w.flush
    BY <2>1, EmptiedOK
  <2>3. Cleanup /\ draining' = FALSE
    BY <2>1, <1>0 DEF Cleanup, TrackerInv, WalkInv
  <2> QED BY <2>2, <2>3, CleanupStep
<1>4. CASE urls # <<>>
  <2>1. fetching' = TRUE /\ walk' = NewWalk(urls) /\ trackerWin' = [Emptied(w) EXCEPT !.busy = TRUE]
    BY <1>1, <1>4
  <2>2. WindowOK(trackerWin') /\ trackerWin'.busy = TRUE /\ trackerWin'.flush = w.flush
    BY <2>1, EmptiedOK
  <2>3. WindowInv'
    BY <2>1, <2>2, <1>0 DEF WindowInv
  <2>4. /\ walk' \in Walks /\ walk'.urls = urls /\ walk'.at = 1 /\ walk'.step = "open"
        /\ walk'.out = <<>> /\ Len(walk'.out) = 0
        /\ walk'.open /\ walk'.queued /\ walk'.idles = 1 /\ walk'.no = plainOnly
        /\ walk'.over = "nothing" /\ walk'.at <= Len(urls)
    BY <2>1, <1>0, <1>2, <1>4, NewWalkFields
  <2>5. DrainInv'
    BY <2>1, <2>4, <1>0 DEF DrainInv
  <2>6. VerdictsInv'
    BY <2>1, <2>4, <1>0 DEF VerdictsInv, KnownInv, WalkKnowsInv, PlainOnlyAfterFailure
  <2> QED BY <2>1, <2>3, <2>4, <2>5, <2>6, <1>0 DEF TrackerInv, WalkInv
<1> QED BY <1>3, <1>4

\* Every step keeps the invariant.
LEMMA TrackerStep == TrackerInv /\ [TrackerNext]_trackerVars => TrackerInv'
<1> SUFFICES ASSUME TrackerInv, [TrackerNext]_trackerVars PROVE TrackerInv'
  OBVIOUS
<1>1. CASE VisitTracker
  BY <1>1, VisitTrackerStep
<1>2. CASE SendEvent
  BY <1>2, SendEventStep
<1>3. CASE TrackerSent
  BY <1>3, TrackerSentStep
<1>4. CASE WalkEnds
  BY <1>4, WalkEndsStep
<1>5. CASE WalkPanics
  BY <1>5, WalkPanicsStep
<1>6. CASE GuardDrops
  BY <1>6, GuardDropsStep
<1>7. CASE RunWake
  BY <1>7, RunWakeStep
<1>8. CASE PollEvent
  BY <1>8, PollEventStep
<1>9. CASE PollEmpty
  BY <1>9, PollEmptyStep
<1>10. CASE FlushPending
  BY <1>10, FlushPendingStep
<1>11. CASE \E m \in Searches : RerunSearch(m)
  BY <1>11, RerunSearchStep
<1>12. CASE OpenTracker
  BY <1>12, ClosedWindowOK, GetListStep DEF OpenTracker
<1>13. CASE RefreshTracker
  <2>1. WindowOK(trackerWin)
    BY DEF TrackerInv, WindowInv
  <2> QED BY <1>13, <2>1, GetListStep DEF RefreshTracker, WindowOK
<1>14. CASE CloseTracker
  <2>1. /\ Cleanup /\ trackerWin' = ClosedWindow /\ draining' = FALSE
        /\ flushes' = flushes
    BY <1>14 DEF CloseTracker, CloseStopsFetch, TrackerInv, WalkInv
  <2> QED BY <2>1, ClosedWindowOK, CleanupStep
<1>15. CASE KillThreads
  <2>1. /\ Cleanup /\ trackerWin' = [trackerWin EXCEPT !.busy = FALSE] /\ draining' = FALSE
        /\ flushes' = flushes /\ WindowInv
    BY <1>15 DEF KillThreads, TrackerInv, WalkInv
  <2> QED BY <2>1, SpinnerStops, CleanupStep
<1>16. CASE CloseAsker
  BY <1>16, WindowOn DEF CloseAsker, TrackerInv, WindowInv
<1>17. CASE UNCHANGED trackerVars
  BY <1>17, WindowOn DEF trackerVars, verdictVars, TrackerInv, WindowInv
<1>18. CASE LateStore
  BY <1>18, LateStoreStep
<1> QED BY <1>1, <1>2, <1>3, <1>4, <1>5, <1>6, <1>7, <1>8, <1>9, <1>10, <1>11, <1>12,
           <1>13, <1>14, <1>15, <1>16, <1>17, <1>18 DEF TrackerNext

\* A tracker is asked in the clear only if its TLS handshake has failed, and failed the last
\* time unless a walk of a closed fetch has stored its verdicts since, for any lists of
\* trackers and whatever the order of walks, panics, closed windows and late stores: no
\* verdict is stored for a tracker that answered over TLS.
THEOREM PlainIsAfterFailure == TrackerSpec => []PlainOnlyAfterFailure
<1>1. TrackerInv => PlainOnlyAfterFailure
  BY DEF TrackerInv, VerdictsInv, WalkKnowsInv
<1> QED BY <1>1, TrackerInit_Inv, TrackerStep, PTL DEF TrackerSpec

\* A place is a tracker and a number of its list.
LEMMA PlacesAre ==
    ASSUME NEW q, NEW p
    PROVE  p \in Places(q) <=> \E u \in DOMAIN q : \E i \in DOMAIN q[u] : p = <<u, i>>
<1>1. ASSUME p \in Places(q)
      PROVE  \E u \in DOMAIN q : \E i \in DOMAIN q[u] : p = <<u, i>>
  <2>1. PICK u \in DOMAIN q : p \in {u} \X DOMAIN q[u]
    BY <1>1 DEF Places
  <2>2. PICK i \in DOMAIN q[u] : p = <<u, i>>
    BY <2>1
  <2> QED BY <2>2
<1>2. ASSUME NEW u \in DOMAIN q, NEW i \in DOMAIN q[u], p = <<u, i>>
      PROVE  p \in Places(q)
  <2>1. p \in {u} \X DOMAIN q[u]
    BY <1>2
  <2> QED BY <2>1 DEF Places
<1> QED BY <1>1, <1>2

\* The lists of sections are sequences of servers, finitely many.
ListsOK(q) == IsFiniteSet(DOMAIN q) /\ \A u \in DOMAIN q : q[u] \in Seq(HxServers)

\* The places of finitely many lists are finitely many.
LEMMA PlacesFinite ==
    ASSUME NEW q, ListsOK(q)
    PROVE  IsFiniteSet(Places(q)) /\ \A m : IsFiniteSet(Matching(q, m))
<1> DEFINE T == {{u} \X DOMAIN q[u] : u \in DOMAIN q}
           f == [u \in DOMAIN q |-> {u} \X DOMAIN q[u]]
<1>1. f \in Surjection(DOMAIN q, T)
  BY DEF Surjection
<1>2. IsFiniteSet(T)
  <2>1. IsFiniteSet(DOMAIN q)
    BY DEF ListsOK
  <2> HIDE DEF T, f
  <2> QED BY <1>1, <2>1, FS_Surjection
<1>3. ASSUME NEW u \in DOMAIN q
      PROVE  IsFiniteSet({u} \X DOMAIN q[u])
  <2>1. q[u] \in Seq(HxServers)
    BY DEF ListsOK
  <2>2. DOMAIN q[u] = 1..Len(q[u]) /\ Len(q[u]) \in Int /\ 1 \in Int
    BY <2>1
  <2>3. IsFiniteSet(DOMAIN q[u])
    BY <2>2, FS_Interval
  <2>4. IsFiniteSet({u})
    BY FS_Singleton
  <2> QED BY <2>3, <2>4, FS_Product
<1>4. \A S \in T : IsFiniteSet(S)
  BY <1>3
<1>5. IsFiniteSet(UNION T)
  <2> HIDE DEF T
  <2> QED BY <1>2, <1>4, FS_UNION
<1>6. IsFiniteSet(Places(q))
  BY <1>5 DEF Places
<1>7. ASSUME NEW m PROVE IsFiniteSet(Matching(q, m))
  <2>1. Matching(q, m) \in SUBSET Places(q)
    BY DEF Matching
  <2> QED BY <1>6, <2>1, FS_Subset
<1> QED BY <1>6, <1>7

\* As many places in one list as numbers.
LEMMA OfOneList ==
    ASSUME NEW u, NEW S, IsFiniteSet(S)
    PROVE  IsFiniteSet({u} \X S) /\ Cardinality({u} \X S) = Cardinality(S)
<1>1. IsFiniteSet({u}) /\ Cardinality({u}) = 1
  BY FS_Singleton
<1>2. Cardinality({u} \X S) = 1 * Cardinality(S) /\ IsFiniteSet({u} \X S)
  BY <1>1, FS_Product
<1>3. Cardinality(S) \in Nat
  BY FS_CardinalityType
<1> QED BY <1>2, <1>3

\* What is taken from a finite set is taken from its number.
LEMMA CountWithout ==
    ASSUME NEW S, NEW T, IsFiniteSet(S), T \subseteq S
    PROVE  Cardinality(S \ T) = Cardinality(S) - Cardinality(T)
<1>1. S \cap T = T
  OBVIOUS
<1> QED BY <1>1, FS_Difference

\* r is the lists q with the one of u, which held old, made empty or added empty.
EmptyAt(q, u, old, r) ==
    /\ old = IF u \in DOMAIN q THEN q[u] ELSE <<>>
    /\ DOMAIN r = DOMAIN q \cup {u} /\ r[u] = <<>>
    /\ \A v \in DOMAIN q \ {u} : r[v] = q[v]

\* A list made empty, or added empty, takes its own places away and no others.
LEMMA EmptiedList ==
    ASSUME NEW q, ListsOK(q), NEW u, NEW m, NEW old \in Seq(HxServers),
           NEW r, EmptyAt(q, u, old, r)
    PROVE  /\ ListsOK(r)
           /\ Cardinality(Places(r)) = Cardinality(Places(q)) - Len(old)
           /\ Cardinality(Matching(r, m)) =
                Cardinality(Matching(q, m)) - Cardinality({i \in DOMAIN old : old[i] \in m})
<1> DEFINE gone == {u} \X DOMAIN old
           hits == {i \in DOMAIN old : old[i] \in m}
<1>0. /\ old = IF u \in DOMAIN q THEN q[u] ELSE <<>>
      /\ DOMAIN r = DOMAIN q \cup {u} /\ r[u] = <<>>
      /\ \A v \in DOMAIN q \ {u} : r[v] = q[v]
  BY DEF EmptyAt
<1>1. ListsOK(r)
  <2>1. IsFiniteSet(DOMAIN r)
    BY <1>0, FS_AddElement DEF ListsOK
  <2>2. \A v \in DOMAIN r : r[v] \in Seq(HxServers)
    <3>1. <<>> \in Seq(HxServers)
      OBVIOUS
    <3> QED BY <1>0, <3>1 DEF ListsOK
  <2> QED BY <2>1, <2>2 DEF ListsOK
<1>2. DOMAIN old = 1..Len(old) /\ Len(old) \in Nat
  OBVIOUS
<1>3. IsFiniteSet(DOMAIN old) /\ Cardinality(DOMAIN old) = Len(old)
  <2>1. 1 \in Int /\ Len(old) \in Int
    BY <1>2
  <2>2. IsFiniteSet(1..Len(old)) /\ Cardinality(1..Len(old)) = IF 1 > Len(old) THEN 0 ELSE Len(old) - 1 + 1
    BY <2>1, FS_Interval
  <2> QED BY <1>2, <2>2
<1>4. IsFiniteSet(hits)
  <2>1. hits \in SUBSET DOMAIN old
    OBVIOUS
  <2> QED BY <1>3, <2>1, FS_Subset
<1>5. DOMAIN <<>> = {}
  OBVIOUS
<1>6. \A p : p \in Places(r) <=> p \in Places(q) \ gone
  <2> SUFFICES ASSUME NEW p PROVE p \in Places(r) <=> p \in Places(q) \ gone
    OBVIOUS
  <2>1. p \in Places(r) <=> \E v \in DOMAIN r : \E i \in DOMAIN r[v] : p = <<v, i>>
    BY PlacesAre
  <2>2. p \in Places(q) <=> \E v \in DOMAIN q : \E i \in DOMAIN q[v] : p = <<v, i>>
    BY PlacesAre
  <2>3. ASSUME p \in Places(r) PROVE p \in Places(q) \ gone
    <3>1. PICK v \in DOMAIN r : \E i \in DOMAIN r[v] : p = <<v, i>>
      BY <2>1, <2>3
    <3>i. PICK i \in DOMAIN r[v] : p = <<v, i>>
      BY <3>1
    <3>2. v # u /\ v \in DOMAIN q
      BY <1>0, <3>i, <1>5
    <3> QED BY <1>0, <3>i, <3>2, <2>2
  <2>4. ASSUME p \in Places(q), p \notin gone PROVE p \in Places(r)
    <3>1. PICK v \in DOMAIN q : \E i \in DOMAIN q[v] : p = <<v, i>>
      BY <2>2, <2>4
    <3>i. PICK i \in DOMAIN q[v] : p = <<v, i>>
      BY <3>1
    <3>2. v # u
      BY <1>0, <3>i, <2>4
    <3> QED BY <1>0, <3>i, <3>2, <2>1
  <2> QED BY <2>3, <2>4
<1>7. gone \subseteq Places(q)
  <2> SUFFICES ASSUME NEW i \in DOMAIN old PROVE <<u, i>> \in Places(q)
    OBVIOUS
  <2>1. u \in DOMAIN q /\ old = q[u]
    BY <1>0, <1>5
  <2> QED BY <2>1, PlacesAre
<1>8. Cardinality(Places(r)) = Cardinality(Places(q)) - Len(old)
  <2>1. Places(r) = Places(q) \ gone
    BY <1>6
  <2>2. Cardinality(gone) = Len(old)
    BY <1>3, OfOneList
  <2>3. IsFiniteSet(Places(q))
    BY PlacesFinite
  <2> HIDE DEF gone
  <2> QED BY <2>1, <2>2, <2>3, <1>7, CountWithout
<1>9. Matching(r, m) = Matching(q, m) \ ({u} \X hits)
  <2> SUFFICES ASSUME NEW p
               PROVE  p \in Matching(r, m) <=> p \in Matching(q, m) \ ({u} \X hits)
    OBVIOUS
  <2>1. ASSUME p \in Matching(r, m) PROVE p \in Matching(q, m) \ ({u} \X hits)
    <3>1. p \in Places(r) /\ r[p[1]][p[2]] \in m
      BY <2>1 DEF Matching
    <3>2. p \in Places(q) /\ p \notin gone
      BY <3>1, <1>6
    <3>3. PICK v \in DOMAIN q : \E i \in DOMAIN q[v] : p = <<v, i>>
      BY <3>2, PlacesAre
    <3>i. PICK i \in DOMAIN q[v] : p = <<v, i>>
      BY <3>3
    <3>4. v # u
      <4>1. CASE v = u
        BY <1>0, <4>1, <3>2, <3>i
      <4> QED BY <4>1
    <3>5. r[v] = q[v] /\ p[1] = v /\ p[2] = i
      BY <1>0, <3>i, <3>4
    <3> QED BY <3>1, <3>2, <3>i, <3>4, <3>5 DEF Matching
  <2>2. ASSUME p \in Matching(q, m), p \notin {u} \X hits PROVE p \in Matching(r, m)
    <3>1. p \in Places(q) /\ q[p[1]][p[2]] \in m
      BY <2>2 DEF Matching
    <3>2. PICK v \in DOMAIN q : \E i \in DOMAIN q[v] : p = <<v, i>>
      BY <3>1, PlacesAre
    <3>i. PICK i \in DOMAIN q[v] : p = <<v, i>>
      BY <3>2
    <3>3. p[1] = v /\ p[2] = i
      BY <3>i
    <3>4. v # u
      <4>1. CASE v = u
        <5>1. old = q[u] /\ i \in hits
          BY <1>0, <4>1, <3>1, <3>i, <3>3
        <5> QED BY <5>1, <4>1, <3>i, <2>2
      <4> QED BY <4>1
    <3>5. p \in Places(r)
      BY <3>1, <3>i, <3>4, <1>6
    <3> QED BY <1>0, <3>1, <3>i, <3>3, <3>4, <3>5 DEF Matching
  <2> QED BY <2>1, <2>2
<1>10. ({u} \X hits) \subseteq Matching(q, m)
  <2> SUFFICES ASSUME NEW i \in hits PROVE <<u, i>> \in Matching(q, m)
    OBVIOUS
  <2>1. i \in DOMAIN old /\ old[i] \in m
    OBVIOUS
  <2>2. <<u, i>> \in gone
    BY <2>1
  <2>3. <<u, i>> \in Places(q)
    BY <2>2, <1>7
  <2>4. old = q[u]
    BY <1>0, <2>1, <1>5
  <2>5. <<u, i>>[1] = u /\ <<u, i>>[2] = i
    OBVIOUS
  <2> QED BY <2>1, <2>3, <2>4, <2>5 DEF Matching
<1>11. Cardinality(Matching(r, m)) = Cardinality(Matching(q, m)) - Cardinality(hits)
  <2>1. Cardinality({u} \X hits) = Cardinality(hits)
    BY <1>4, OfOneList
  <2>2. IsFiniteSet(Matching(q, m))
    BY PlacesFinite
  <2>3. Cardinality(Matching(q, m) \ ({u} \X hits)) = Cardinality(Matching(q, m)) - Cardinality({u} \X hits)
    BY <2>2, <1>10, CountWithout
  <2> QED BY <1>9, <2>1, <2>3
<1> QED BY <1>1, <1>8, <1>11

\* What is appended to the lists is added to their places.
LEMMA SplicedLists ==
    ASSUME NEW q, ListsOK(q), NEW w, ListsOK(w), DOMAIN w = DOMAIN q,
           NEW r, r = [u \in DOMAIN q |-> q[u] \o w[u]]
    PROVE  /\ ListsOK(r)
           /\ Cardinality(Places(r)) = Cardinality(Places(q)) + Cardinality(Places(w))
<1> DEFINE to(p) == <<p[1], Len(q[p[1]]) + p[2]>>
           moved == {to(p) : p \in Places(w)}
           f == [p \in Places(w) |-> to(p)]
<1>0. ASSUME NEW u \in DOMAIN q
      PROVE  /\ r[u] = q[u] \o w[u] /\ r[u] \in Seq(HxServers)
             /\ Len(q[u]) \in Nat /\ DOMAIN q[u] = 1..Len(q[u])
             /\ Len(w[u]) \in Nat /\ DOMAIN w[u] = 1..Len(w[u])
             /\ DOMAIN r[u] = 1..(Len(q[u]) + Len(w[u]))
  <2>1. q[u] \in Seq(HxServers) /\ w[u] \in Seq(HxServers) /\ r[u] = q[u] \o w[u]
    BY DEF ListsOK
  <2> QED BY <2>1
<1>1. DOMAIN r = DOMAIN q
  OBVIOUS
<1>2. ListsOK(r)
  BY <1>0, <1>1 DEF ListsOK
<1>3. ASSUME NEW p \in Places(w)
      PROVE  \E u \in DOMAIN q : \E i \in 1..Len(w[u]) : p = <<u, i>> /\ to(p) = <<u, Len(q[u]) + i>>
  <2>1. PICK u \in DOMAIN w : \E i \in DOMAIN w[u] : p = <<u, i>>
    BY PlacesAre
  <2>2. PICK i \in DOMAIN w[u] : p = <<u, i>>
    BY <2>1
  <2>3. p[1] = u /\ p[2] = i
    BY <2>2
  <2>4. i \in 1..Len(w[u])
    BY <1>0
  <2> QED BY <2>2, <2>3, <2>4
<1>4. Places(r) = Places(q) \cup moved
  <2> SUFFICES ASSUME NEW p PROVE p \in Places(r) <=> p \in Places(q) \cup moved
    OBVIOUS
  <2>1. ASSUME p \in Places(r) PROVE p \in Places(q) \cup moved
    <3>1. PICK u \in DOMAIN q : \E i \in DOMAIN r[u] : p = <<u, i>>
      BY <2>1, <1>1, PlacesAre
    <3>2. PICK i \in DOMAIN r[u] : p = <<u, i>>
      BY <3>1
    <3>3. i \in 1..(Len(q[u]) + Len(w[u])) /\ Len(q[u]) \in Nat /\ Len(w[u]) \in Nat
      BY <1>0
    <3>4. CASE i <= Len(q[u])
      <4>1. i \in DOMAIN q[u]
        BY <1>0, <3>3, <3>4
      <4> QED BY <4>1, <3>2, PlacesAre
    <3>5. CASE i > Len(q[u])
      <4> DEFINE j == i - Len(q[u])
      <4>1. j \in 1..Len(w[u]) /\ Len(q[u]) + j = i
        BY <3>3, <3>5
      <4> HIDE DEF j
      <4>2. <<u, j>> \in Places(w)
        <5>1. j \in DOMAIN w[u] /\ u \in DOMAIN w
          BY <4>1, <1>0
        <5> QED BY <5>1, PlacesAre
      <4>3. to(<<u, j>>) = p
        BY <4>1, <3>2
      <4> QED BY <4>2, <4>3
    <3> QED BY <3>3, <3>4, <3>5
  <2>2. ASSUME p \in Places(q) PROVE p \in Places(r)
    <3>1. PICK u \in DOMAIN q : \E i \in DOMAIN q[u] : p = <<u, i>>
      BY <2>2, PlacesAre
    <3>2. PICK i \in DOMAIN q[u] : p = <<u, i>>
      BY <3>1
    <3>3. i \in DOMAIN r[u] /\ u \in DOMAIN r
      BY <1>0, <1>1
    <3> QED BY <3>2, <3>3, PlacesAre
  <2>3. ASSUME p \in moved PROVE p \in Places(r)
    <3>1. PICK x \in Places(w) : p = to(x)
      BY <2>3
    <3>2. PICK u \in DOMAIN q : \E i \in 1..Len(w[u]) : x = <<u, i>> /\ to(x) = <<u, Len(q[u]) + i>>
      BY <1>3
    <3>3. PICK i \in 1..Len(w[u]) : to(x) = <<u, Len(q[u]) + i>>
      BY <3>2
    <3>4. Len(q[u]) + i \in DOMAIN r[u] /\ u \in DOMAIN r
      BY <1>0, <1>1
    <3> QED BY <3>1, <3>3, <3>4, PlacesAre
  <2> QED BY <2>1, <2>2, <2>3
<1>5. Places(q) \cap moved = {}
  <2> SUFFICES ASSUME NEW x \in Places(w), to(x) \in Places(q) PROVE FALSE
    OBVIOUS
  <2>1. PICK u \in DOMAIN q : \E i \in 1..Len(w[u]) : to(x) = <<u, Len(q[u]) + i>>
    BY <1>3
  <2>2. PICK i \in 1..Len(w[u]) : to(x) = <<u, Len(q[u]) + i>>
    BY <2>1
  <2>3. PICK v \in DOMAIN q : \E k \in DOMAIN q[v] : to(x) = <<v, k>>
    BY PlacesAre
  <2>4. PICK k \in DOMAIN q[v] : to(x) = <<v, k>>
    BY <2>3
  <2>5. v = u /\ k = Len(q[u]) + i
    <3> HIDE DEF to
    <3> QED BY <2>2, <2>4
  <2>6. k <= Len(q[u]) /\ i >= 1 /\ Len(q[u]) \in Nat
    BY <2>5, <1>0
  <2> QED BY <2>5, <2>6
<1>6. f \in Bijection(Places(w), moved)
  <2>1. f \in Surjection(Places(w), moved)
    BY DEF Surjection
  <2>2. ASSUME NEW x \in Places(w), NEW y \in Places(w), to(x) = to(y) PROVE x = y
    <3>1. PICK u \in DOMAIN q : \E i \in 1..Len(w[u]) : x = <<u, i>> /\ to(x) = <<u, Len(q[u]) + i>>
      BY <1>3
    <3>2. PICK i \in 1..Len(w[u]) : x = <<u, i>> /\ to(x) = <<u, Len(q[u]) + i>>
      BY <3>1
    <3>3. PICK v \in DOMAIN q : \E k \in 1..Len(w[v]) : y = <<v, k>> /\ to(y) = <<v, Len(q[v]) + k>>
      BY <1>3
    <3>4. PICK k \in 1..Len(w[v]) : y = <<v, k>> /\ to(y) = <<v, Len(q[v]) + k>>
      BY <3>3
    <3>5. u = v /\ Len(q[u]) + i = Len(q[v]) + k
      <4> HIDE DEF to
      <4> QED BY <2>2, <3>2, <3>4
    <3>6. i = k
      BY <3>5, <1>0
    <3> QED BY <3>2, <3>4, <3>5, <3>6
  <2>3. f \in Injection(Places(w), moved)
    <3>1. f \in [Places(w) -> moved]
      OBVIOUS
    <3>2. \A x, y \in Places(w) : f[x] = f[y] => x = y
      BY <2>2
    <3> HIDE DEF f, moved
    <3> QED BY <3>1, <3>2 DEF Injection, IsInjective
  <2> QED BY <2>1, <2>3 DEF Bijection
<1> HIDE DEF moved, f
<1>7. IsFiniteSet(Places(w)) /\ IsFiniteSet(Places(q))
  BY PlacesFinite
<1>8. IsFiniteSet(moved) /\ Cardinality(moved) = Cardinality(Places(w))
  <2>1. ExistsBijection(Places(w), moved)
    BY <1>6 DEF ExistsBijection
  <2> QED BY <1>7, <2>1, FS_Bijection
<1>9. Cardinality(Places(q) \cup moved) = Cardinality(Places(q)) + Cardinality(moved)
  <2>1. Cardinality(Places(q) \cup moved)
          = Cardinality(Places(q)) + Cardinality(moved) - Cardinality(Places(q) \cap moved)
    BY <1>7, <1>8, FS_Union
  <2>2. Cardinality(Places(q) \cap moved) = 0
    BY <1>5, FS_EmptySet
  <2>3. Cardinality(Places(q)) \in Nat /\ Cardinality(moved) \in Nat
    BY <1>7, <1>8, FS_CardinalityType
  <2> QED BY <2>1, <2>2, <2>3
<1> QED BY <1>2, <1>4, <1>8, <1>9

\* The counts of a window are the rows of its sections and those a search matches.
Counted(w, m) ==
    /\ ListsOK(Stores(w.sections))
    /\ w.total = Cardinality(Places(Stores(w.sections)))
    /\ w.found = Cardinality(Matching(Stores(w.sections), m))

CountsInv == Counted(trackerWin, search)

\* The counts are of the stores alone.
LEMMA SameCounts ==
    ASSUME NEW v, NEW m, Counted(v, m), NEW w, Stores(w.sections) = Stores(v.sections),
           w.total = v.total, w.found = v.found
    PROVE  Counted(w, m)
  BY DEF Counted

\* Without sections the counts are zero.
LEMMA EmptyCounts ==
    ASSUME NEW w, w.sections = NoSections, w.total = 0, w.found = 0, NEW m
    PROVE  Counted(w, m)
<1>1. DOMAIN Stores(w.sections) = {}
  BY DEF Stores, NoSections
<1> DEFINE q == Stores(w.sections)
<1> HIDE DEF q
<1>2. Places(q) = {}
  BY <1>1, PlacesAre DEF q
<1>3. Matching(q, m) = {}
  BY <1>2 DEF Matching
<1>4. IsFiniteSet({}) /\ Cardinality({}) = 0
  BY FS_EmptySet
<1>5. ListsOK(q)
  BY <1>1, <1>4 DEF ListsOK, q
<1> QED BY <1>2, <1>3, <1>4, <1>5 DEF Counted, q

\* tracker_batch_begin takes off the counts what it empties.
LEMMA BatchBeginCounts ==
    ASSUME NEW w, WindowOK(w), Counted(w, search), NEW u \in Trackers
    PROVE  Counted(BatchBegin(w, u), search)
<1> DEFINE b == BatchBegin(w, u)
           lists == w.sections
           sec == IF u \in DOMAIN lists THEN lists[u] ELSE EmptySection
           old == sec.rows
           q == Stores(lists)
           r == Stores(b.sections)
<1>1. /\ b.sections = [v \in DOMAIN lists \cup {u} |-> IF v = u THEN EmptySection ELSE lists[v]]
      /\ b.total = w.total - Len(old) /\ b.found = w.found - FoundIn(old)
  BY DEF BatchBegin, WindowOK, WinFields
<1>2. EmptySection.rows = <<>>
  BY DEF EmptySection
<1>3. DOMAIN q = DOMAIN lists /\ \A v \in DOMAIN lists : q[v] = lists[v].rows
  BY DEF Stores
<1>4. /\ DOMAIN r = DOMAIN q \cup {u} /\ r[u] = <<>>
      /\ \A v \in DOMAIN q \ {u} : r[v] = q[v]
  <2>1. DOMAIN b.sections = DOMAIN lists \cup {u} /\ b.sections[u] = EmptySection
        /\ \A v \in DOMAIN lists \ {u} : b.sections[v] = lists[v]
    BY <1>1
  <2>2. DOMAIN r = DOMAIN b.sections /\ \A v \in DOMAIN b.sections : r[v] = b.sections[v].rows
    BY DEF Stores
  <2> HIDE DEF b, r, q
  <2> QED BY <2>1, <2>2, <1>2, <1>3
<1>5. old = IF u \in DOMAIN q THEN q[u] ELSE <<>>
  BY <1>2, <1>3
<1>6. /\ ListsOK(q) /\ w.total = Cardinality(Places(q))
      /\ w.found = Cardinality(Matching(q, search))
  BY DEF Counted
<1>7. old \in Seq(HxServers)
  <2>1. <<>> \in Seq(HxServers)
    OBVIOUS
  <2> HIDE DEF q, old
  <2> QED BY <2>1, <1>5, <1>6 DEF ListsOK
<1> HIDE DEF old, q, r, b
<1>8. /\ ListsOK(r)
      /\ Cardinality(Places(r)) = Cardinality(Places(q)) - Len(old)
      /\ Cardinality(Matching(r, search)) =
           Cardinality(Matching(q, search)) - Cardinality({i \in DOMAIN old : old[i] \in search})
  <2>1. EmptyAt(q, u, old, r)
    BY <1>4, <1>5, Zenon DEF EmptyAt
  <2> QED BY <2>1, <1>6, <1>7, EmptiedList
<1>9. FoundIn(old) = Cardinality({i \in DOMAIN old : old[i] \in search})
  BY DEF FoundIn
<1>10. b.total = Cardinality(Places(r)) /\ b.found = Cardinality(Matching(r, search))
  BY <1>1, <1>6, <1>8, <1>9
<1> QED BY <1>8, <1>10 DEF Counted, b, r

\* tracker_server_create leaves rows and counts alone.
LEMMA ServerCreateCounts ==
    ASSUME NEW w, WindowOK(w), Counted(w, search), NEW s \in HxServers
    PROVE  Counted(ServerCreate(w, s), search)
<1> DEFINE b == ServerCreate(w, s)
           c == w.current
           new == WithServer(w.sections[c], s)
<1>1. CASE c = NoTracker \/ s \in w.sections[c].seen
  BY <1>1 DEF ServerCreate
<1>2. CASE ~(c = NoTracker \/ s \in w.sections[c].seen)
  <2>1. c \in DOMAIN w.sections /\ SectionOK(w.sections[c])
    BY <1>2 DEF WindowOK
  <2>2. new.rows = w.sections[c].rows
    BY <2>1 DEF WithServer, SectionOK
  <2> HIDE DEF new
  <2>3. /\ b.sections = [w.sections EXCEPT ![c] = new] /\ b.total = w.total /\ b.found = w.found
    <3>1. b = [w EXCEPT !.sections = [@ EXCEPT ![c] = new], !.flush = TRUE]
      BY <1>2 DEF ServerCreate, new
    <3> HIDE DEF b, c
    <3>2. DOMAIN w = WinFields
      BY DEF WindowOK
    <3> QED BY <3>1, <3>2 DEF WinFields
  <2> HIDE DEF b
  <2>4. DOMAIN b.sections = DOMAIN w.sections
        /\ \A v \in DOMAIN w.sections : b.sections[v].rows = w.sections[v].rows
    BY <2>1, <2>2, <2>3
  <2>5. Stores(b.sections) = Stores(w.sections)
    BY <2>4 DEF Stores
  <2>6. Counted(b, search)
    BY <2>3, <2>5, SameCounts
  <2> QED BY <2>6 DEF b
<1> QED BY <1>1, <1>2

\* An event keeps the counts those of the rows.
LEMMA DispatchCounts ==
    ASSUME NEW w, WindowOK(w), Counted(w, search), NEW e \in Events
    PROVE  Counted(Dispatch(w, e), search)
<1>1. CASE \E u \in Trackers : e = <<"begin", u>>
  BY <1>1, BatchBeginCounts DEF Dispatch
<1>2. CASE \E s \in HxServers : e = <<"server", s>>
  BY <1>2, ServerCreateCounts DEF Dispatch
<1>3. CASE e[1] \notin {"begin", "server"}
  BY <1>3 DEF Dispatch
<1> QED BY <1>1, <1>2, <1>3 DEF Events

\* flush_pending adds to the counts what it adds to the rows.
LEMMA FlushCounts == ASSUME TrackerInv, CountsInv, FlushPending PROVE CountsInv'
<1> DEFINE lists == trackerWin.sections
           w == trackerWin'
           q == Stores(lists)
           p == [u \in DOMAIN lists |-> lists[u].pending]
           r == [u \in DOMAIN lists |-> lists[u].rows \o lists[u].pending]
<1>0. WindowOK(trackerWin) /\ search' = search
  BY DEF TrackerInv, WindowInv, FlushPending
<1>1. /\ w.sections = [u \in DOMAIN lists |-> [lists[u] EXCEPT !.pending = <<>>, !.rows = r[u]]]
      /\ w.total = trackerWin.total + Cardinality(Places(p))
      /\ w.found = trackerWin.found + FoundDelta(q, r)
  <2>1. trackerWin' = [trackerWin EXCEPT
                        !.flush = FALSE,
                        !.sections = [u \in DOMAIN lists |->
                                        [lists[u] EXCEPT !.pending = <<>>, !.rows = r[u]]],
                        !.total = trackerWin.total + Cardinality(Places(p)),
                        !.found = trackerWin.found + FoundDelta(q, r)]
    BY DEF FlushPending
  <2> HIDE DEF q, p, r
  <2> QED BY <2>1, <1>0 DEF WindowOK, WinFields
<1>2. ASSUME NEW u \in DOMAIN lists
      PROVE  /\ lists[u].rows \in Seq(HxServers) /\ lists[u].pending \in Seq(HxServers)
             /\ w.sections[u].rows = lists[u].rows \o lists[u].pending
  <2>1. lists[u] \in [seen : SUBSET HxServers, pending : Seq(HxServers), rows : Seq(HxServers)]
    BY <1>0 DEF WindowOK, SectionOK
  <2>2. w.sections[u] = [lists[u] EXCEPT !.pending = <<>>, !.rows = r[u]]
    BY <1>1
  <2>3. w.sections[u].rows = r[u]
    <3> HIDE DEF w, r
    <3> QED BY <2>1, <2>2
  <2> QED BY <2>1, <2>3
<1>3. /\ ListsOK(q) /\ trackerWin.total = Cardinality(Places(q))
      /\ trackerWin.found = Cardinality(Matching(q, search))
  BY DEF CountsInv, Counted
<1>4. /\ DOMAIN q = DOMAIN lists /\ DOMAIN p = DOMAIN lists
      /\ \A u \in DOMAIN lists : q[u] = lists[u].rows /\ p[u] = lists[u].pending
  BY DEF Stores
<1>5. ListsOK(p)
  <2> HIDE DEF p, q
  <2> QED BY <1>2, <1>3, <1>4 DEF ListsOK
<1>6. r = [u \in DOMAIN q |-> q[u] \o p[u]]
  BY <1>4
<1>7. Stores(w.sections) = r
  <2>1. DOMAIN w.sections = DOMAIN lists
    BY <1>1
  <2> HIDE DEF w
  <2> QED BY <2>1, <1>2 DEF Stores
<1> HIDE DEF q, p, r
<1>8. /\ ListsOK(r)
      /\ Cardinality(Places(r)) = Cardinality(Places(q)) + Cardinality(Places(p))
  BY <1>3, <1>4, <1>5, <1>6, SplicedLists
<1>9. /\ Cardinality(Matching(q, search)) \in Nat /\ Cardinality(Matching(r, search)) \in Nat
  <2>1. IsFiniteSet(Matching(q, search)) /\ IsFiniteSet(Matching(r, search))
    BY <1>3, <1>8, PlacesFinite
  <2> QED BY <2>1, FS_CardinalityType
<1>10. FoundDelta(q, r) = Cardinality(Matching(r, search)) - Cardinality(Matching(q, search))
  BY DEF FoundDelta
<1>11. w.found = Cardinality(Matching(r, search)) /\ w.total = Cardinality(Places(r))
  <2>1. \A a, b \in Nat : a + (b - a) = b
    OBVIOUS
  <2> HIDE DEF w
  <2> QED BY <2>1, <1>1, <1>3, <1>8, <1>9, <1>10
<1>12. Counted(w, search)
  BY <1>7, <1>8, <1>11 DEF Counted
<1> QED BY <1>12, <1>0 DEF CountsInv

\* rerun_search counts the matches anew.
LEMMA RerunCounts == ASSUME TrackerInv, CountsInv, NEW m, RerunSearch(m) PROVE CountsInv'
<1> DEFINE w == trackerWin'
           n == Cardinality(Matching(Stores(trackerWin.sections), m))
<1>1. search' = m /\ w = [trackerWin EXCEPT !.found = n] /\ WindowOK(trackerWin)
  BY DEF RerunSearch, TrackerInv, WindowInv
<1> HIDE DEF n
<1>2. w.sections = trackerWin.sections /\ w.total = trackerWin.total /\ w.found = n
  BY <1>1 DEF WindowOK, WinFields
<1> HIDE DEF w
<1>3. Counted(w, m)
  BY <1>2 DEF Counted, CountsInv, n
<1> QED BY <1>1, <1>3 DEF CountsInv, w

\* A step that leaves sections, counts and search alone keeps the invariant.
LEMMA CountsOn ==
    ASSUME CountsInv, search' = search, trackerWin'.sections = trackerWin.sections,
           trackerWin'.total = trackerWin.total, trackerWin'.found = trackerWin.found
    PROVE  CountsInv'
<1>1. Stores(trackerWin'.sections) = Stores(trackerWin.sections)
  OBVIOUS
<1>2. Counted(trackerWin', search)
  BY <1>1, SameCounts DEF CountsInv
<1> QED BY <1>2 DEF CountsInv

\* The spinner is no part of the counts.
LEMMA SpinnerCounts ==
    ASSUME TrackerInv, CountsInv, search' = search,
           trackerWin' = [trackerWin EXCEPT !.busy = FALSE] \/ trackerWin' = trackerWin
    PROVE  CountsInv'
<1>1. DOMAIN trackerWin = WinFields
  BY DEF TrackerInv, WindowInv, WindowOK
<1>2. /\ trackerWin'.sections = trackerWin.sections
      /\ trackerWin'.total = trackerWin.total /\ trackerWin'.found = trackerWin.found
  BY <1>1 DEF WinFields
<1> QED BY <1>2, CountsOn

\* A fetch starts from nothing.
LEMMA GetListCounts ==
    ASSUME NEW w, DOMAIN w = WinFields, GetList(w)
    PROVE  CountsInv'
<1>1. PICK b : trackerWin' = [Emptied(w) EXCEPT !.busy = b]
  BY DEF GetList
<1>2. trackerWin'.sections = NoSections /\ trackerWin'.total = 0 /\ trackerWin'.found = 0
  BY <1>1 DEF Emptied, WinFields
<1> QED BY <1>2, EmptyCounts DEF CountsInv

\* Every step keeps the counts those of the rows.
LEMMA CountsStep == TrackerInv /\ CountsInv /\ [TrackerNext]_trackerVars => CountsInv'
<1> SUFFICES ASSUME TrackerInv, CountsInv, [TrackerNext]_trackerVars PROVE CountsInv'
  OBVIOUS
<1>1. CASE VisitTracker \/ SendEvent \/ TrackerSent \/ WalkEnds \/ WalkPanics \/ GuardDrops
           \/ LateStore \/ CloseAsker \/ UNCHANGED trackerVars
  <2>1. search' = search /\ trackerWin' = trackerWin
    BY <1>1 DEF VisitTracker, SendEvent, TrackerSent, WalkEnds, WalkPanics, GuardDrops,
                LateStore, CloseAsker, trackerVars
  <2> QED BY <2>1, SpinnerCounts
<1>2. CASE RunWake \/ PollEmpty \/ KillThreads
  <2>1. /\ search' = search
        /\ trackerWin' = [trackerWin EXCEPT !.busy = FALSE] \/ trackerWin' = trackerWin
    BY <1>2 DEF RunWake, PollEmpty, KillThreads
  <2> QED BY <2>1, SpinnerCounts
<1>3. CASE PollEvent
  <2>1. /\ search' = search /\ trackerWin' = Dispatch(trackerWin, Head(walk.chan))
        /\ WindowOK(trackerWin) /\ walk \in Walks /\ walk.chan # <<>>
    BY <1>3 DEF PollEvent, TrackerInv, WindowInv, WalkInv
  <2>2. walk.chan \in Seq(Events)
    BY <2>1 DEF Walks
  <2>3. Head(walk.chan) \in Events
    BY <2>1, <2>2
  <2> QED BY <2>1, <2>3, DispatchCounts DEF CountsInv
<1>4. CASE FlushPending
  BY <1>4, FlushCounts
<1>5. CASE \E m \in Searches : RerunSearch(m)
  BY <1>5, RerunCounts
<1>6. CASE OpenTracker
  BY <1>6, ClosedWindowOK, GetListCounts DEF OpenTracker
<1>7. CASE RefreshTracker
  <2>1. DOMAIN trackerWin = WinFields
    BY DEF TrackerInv, WindowInv, WindowOK
  <2> QED BY <1>7, <2>1, GetListCounts DEF RefreshTracker
<1>8. CASE CloseTracker
  <2>1. trackerWin'.sections = NoSections /\ trackerWin'.total = 0 /\ trackerWin'.found = 0
    BY <1>8 DEF CloseTracker, ClosedWindow
  <2> QED BY <2>1, EmptyCounts DEF CountsInv
<1> QED BY <1>1, <1>2, <1>3, <1>4, <1>5, <1>6, <1>7, <1>8 DEF TrackerNext

\* A walk that is over or blocked on a full channel always has a drain running or a wake-up
\* coming, a section lists a server once, the numbers in the header are those of the rows and
\* of the matches, what is queued has a splice coming, and the spinner turns exactly while a
\* fetch runs, for any trackers, listings of any length and searches.
THEOREM FetchIsAlwaysShown == TrackerSpec => []FetchIsShown
<1>1. TrackerInv => WalkIsDrained
  <2> SUFFICES ASSUME TrackerInv, fetching, ~draining, ~(walk.idles > 0),
                      walk.step = "over" \/ (walk.out # <<>> /\ Len(walk.chan) >= EventRoom)
               PROVE  FALSE
    BY DEF WalkIsDrained
  <2>1. /\ walk \in Walks /\ DrainInv /\ MaxListing \in Nat
    BY TrackerAssumption DEF TrackerInv, WalkInv
  <2>2. walk.idles = 0 /\ walk.out \in Seq(Events) /\ walk.chan \in Seq(Events)
    BY <2>1 DEF Walks
  <2>3. Len(walk.chan) + Len(walk.out) <= MaxListing + 1 /\ walk.step # "over"
    BY <2>1, <2>2 DEF DrainInv
  <2>4. Len(walk.out) \in Nat /\ Len(walk.chan) \in Nat
    BY <2>2
  <2>5. ~(Len(walk.chan) >= EventRoom)
    <3>1. \A a, b, m \in Nat : a + b <= m + 1 => ~(a >= m + 2)
      OBVIOUS
    <3> QED BY <3>1, <2>1, <2>3, <2>4 DEF EventRoom
  <2> QED BY <2>3, <2>5
<1>2. TrackerInv => ListedOnce
  BY DEF TrackerInv, WindowInv, WindowOK, SectionOK, ListedOnce
<1>3. TrackerInv => PendingIsFlushed /\ SpinnerIsFetch
  BY DEF TrackerInv, WindowInv, WindowOK, PendingIsFlushed, SpinnerIsFetch
<1>4. CountsInv => CountsAreRows
  BY DEF CountsInv, Counted, CountsAreRows
<1>5. TrackerInit => CountsInv
  BY EmptyCounts DEF TrackerInit, ClosedWindow, CountsInv
<1>6. TrackerInv /\ CountsInv => FetchIsShown
  BY <1>1, <1>2, <1>3, <1>4 DEF FetchIsShown
<1> QED BY <1>5, <1>6, TrackerInit_Inv, TrackerStep, CountsStep, PTL DEF TrackerSpec

-----------------------------------------------------------------------------
(* The slots of image decodes.                                                *)

DecodeInv ==
    /\ TypeOK
    /\ IsFiniteSet(Holding)
    /\ SlotsAccounted
    /\ NoIdleSlot
    /\ WaitersAreKnown

\* Taking one slot, giving one back, or passing one on, as the count sees it.
LEMMA CountOneMore ==
    ASSUME NEW S, IsFiniteSet(S), NEW x, x \notin S
    PROVE  IsFiniteSet(S \cup {x}) /\ Cardinality(S \cup {x}) = Cardinality(S) + 1
BY FS_AddElement

\* A member fewer.
LEMMA CountOneLess ==
    ASSUME NEW S, IsFiniteSet(S), NEW x \in S
    PROVE  /\ IsFiniteSet(S \ {x}) /\ Cardinality(S \ {x}) = Cardinality(S) - 1
           /\ Cardinality(S) \in Nat \ {0}
BY FS_RemoveElement, FS_CardinalityType, FS_EmptySet

\* One member in the place of another.
LEMMA CountPassedOn ==
    ASSUME NEW S, IsFiniteSet(S), NEW x \in S, NEW y, y \notin S
    PROVE  /\ IsFiniteSet((S \ {x}) \cup {y})
           /\ Cardinality((S \ {x}) \cup {y}) = Cardinality(S)
<1>1. IsFiniteSet(S \ {x}) /\ Cardinality(S \ {x}) = Cardinality(S) - 1
        /\ Cardinality(S) \in Nat \ {0}
  BY CountOneLess
<1>2. y \notin S \ {x}
  OBVIOUS
<1>3. IsFiniteSet((S \ {x}) \cup {y})
        /\ Cardinality((S \ {x}) \cup {y}) = Cardinality(S \ {x}) + 1
  BY <1>1, <1>2, CountOneMore
<1> QED BY <1>1, <1>3

\* The waiters of the queue are waiting, and hold nothing yet.
LEMMA QueuedHoldNothing ==
    ASSUME DecodeInv, NEW i \in 1 .. Len(slots.queue)
    PROVE  /\ slots.queue[i] \in Decodes
           /\ stage[slots.queue[i]] = "waiting"
           /\ slots.queue[i] \notin Holding
<1>1. slots.queue \in Seq(Decodes)
  BY DEF DecodeInv, TypeOK
<1>2. slots.queue[i] \in Decodes
  BY <1>1
<1>3. slots.queue[i] \notin granted /\ stage[slots.queue[i]] = "waiting"
  BY <1>2 DEF DecodeInv, WaitersAreKnown
<1> QED BY <1>2, <1>3 DEF Holding

\* A slot free means nobody waits.
LEMMA FreeMeansEmpty ==
    ASSUME DecodeInv, Free
    PROVE  slots.queue = <<>>
BY LimitAssumption DEF DecodeInv, TypeOK, NoIdleSlot, Free

\* A decode that holds a slot gives it up: it passes on or is freed.
LEMMA ReleaseKeeps ==
    ASSUME DecodeInv, NEW d \in Decodes, d \in Holding, EndsReleasing(d, slots),
           cancelled' \subseteq Decodes, answered' \subseteq Decodes
    PROVE  DecodeInv'
<1> DEFINE q == slots.queue
<1>q. slots \in [inFlight : 0 .. MaxInFlight, queue : Seq(Decodes)] /\ q \in Seq(Decodes)
  BY DEF DecodeInv, TypeOK
<1>s. stage \in [Decodes -> Stages] /\ stage' = [stage EXCEPT ![d] = "done"]
  BY DEF DecodeInv, TypeOK, EndsReleasing
<1>e. /\ slots' = Released(slots)
      /\ granted' = (granted \ {d}) \cup Handed(slots)
      /\ due' = (due \ {d}) \cup Handed(slots)
  BY DEF EndsReleasing
<1>w. WaitersAreKnown /\ granted \subseteq Decodes /\ due \subseteq Decodes
  BY DEF DecodeInv, TypeOK
<1>c. /\ IsFiniteSet(Holding) /\ slots.inFlight = Cardinality(Holding)
      /\ Cardinality(Holding) \in Nat \ {0}
      /\ IsFiniteSet(Holding \ {d}) /\ Cardinality(Holding \ {d}) = Cardinality(Holding) - 1
  BY CountOneLess DEF DecodeInv, SlotsAccounted
<1>1. CASE q = <<>>
  <2>1. slots' = [slots EXCEPT !.inFlight = @ - 1] /\ Handed(slots) = {}
    BY <1>1, <1>e DEF Released, Handed
  <2>2. slots'.inFlight = slots.inFlight - 1 /\ slots'.queue = <<>>
    BY <2>1, <1>1, <1>q
  <2>3. granted' = granted \ {d} /\ due' = due \ {d}
    BY <2>1, <1>e
  <2>4. Holding' = Holding \ {d}
    BY <2>3, <1>s DEF Holding
  <2>5. slots' \in [inFlight : 0 .. MaxInFlight, queue : Seq(Decodes)]
    BY <2>1, <1>c, <1>q, LimitAssumption
  <2>6. TypeOK'
    BY <2>3, <2>5, <1>s, <1>w DEF TypeOK, Stages
  <2>7. SlotsAccounted' /\ IsFiniteSet(Holding')
    BY <2>2, <2>4, <1>c DEF SlotsAccounted
  <2>8. NoIdleSlot'
    BY <2>2 DEF NoIdleSlot
  <2>9. WaitersAreKnown'
    BY <2>2, <2>3, <1>1, <1>s, <1>w DEF WaitersAreKnown
  <2> QED BY <2>6, <2>7, <2>8, <2>9 DEF DecodeInv
<1>2. CASE q # <<>>
  <2> DEFINE h == Head(q)
  <2>0. Len(q) \in Nat \ {0} /\ h = q[1] /\ Len(Tail(q)) = Len(q) - 1
          /\ Tail(q) \in Seq(Decodes)
          /\ \A i \in 1 .. Len(Tail(q)) : Tail(q)[i] = q[i + 1]
    BY <1>2, <1>q
  <2>1. slots' = [slots EXCEPT !.queue = Tail(q)] /\ Handed(slots) = {h}
    BY <1>2, <1>e DEF Released, Handed
  <2>2. slots'.inFlight = slots.inFlight /\ slots'.queue = Tail(q)
    BY <2>1, <1>q
  <2>3. granted' = (granted \ {d}) \cup {h} /\ due' = (due \ {d}) \cup {h}
    BY <2>1, <1>e
  <2>4. h \in Decodes /\ stage[h] = "waiting" /\ h \notin Holding /\ h # d
    BY <2>0, QueuedHoldNothing
  <2>5. Holding' = (Holding \ {d}) \cup {h}
    BY <2>3, <2>4, <1>s DEF Holding
  <2>6. slots' \in [inFlight : 0 .. MaxInFlight, queue : Seq(Decodes)]
    BY <2>0, <2>1, <1>q
  <2>7. TypeOK'
    BY <2>3, <2>4, <2>6, <1>s, <1>w DEF TypeOK, Stages
  <2>8. SlotsAccounted' /\ IsFiniteSet(Holding')
    BY <2>2, <2>4, <2>5, <1>c, CountPassedOn DEF SlotsAccounted
  <2>9. NoIdleSlot'
    BY <2>2, <1>2 DEF NoIdleSlot, DecodeInv
  <2>10. WaitersAreKnown'
    <3>1. \A e \in Decodes :
            (\E i \in 1 .. Len(q) : q[i] = e)
              <=> (e = h \/ \E i \in 1 .. Len(Tail(q)) : Tail(q)[i] = e)
      <4> SUFFICES ASSUME NEW e \in Decodes
                   PROVE  (\E i \in 1 .. Len(q) : q[i] = e)
                            <=> (e = h \/ \E i \in 1 .. Len(Tail(q)) : Tail(q)[i] = e)
        OBVIOUS
      <4>1. ASSUME NEW i \in 1 .. Len(q), q[i] = e, e # h
            PROVE  \E k \in 1 .. Len(Tail(q)) : Tail(q)[k] = e
        <5>1. i - 1 \in 1 .. Len(Tail(q)) /\ Tail(q)[i - 1] = e
          BY <2>0, <4>1
        <5> QED BY <5>1
      <4>2. ASSUME NEW i \in 1 .. Len(Tail(q)), Tail(q)[i] = e
            PROVE  \E k \in 1 .. Len(q) : q[k] = e
        <5>1. i + 1 \in 1 .. Len(q) /\ q[i + 1] = e
          BY <2>0, <4>2
        <5> QED BY <5>1
      <4>3. ASSUME e = h
            PROVE  \E k \in 1 .. Len(q) : q[k] = e
        <5>1. 1 \in 1 .. Len(q) /\ q[1] = e
          BY <2>0, <4>3
        <5> QED BY <5>1
      <4> HIDE DEF q, h
      <4> QED BY <4>1, <4>2, <4>3, Zenon
    <3>2. \A e \in Decodes : stage'[e] = "waiting" <=> (e # d /\ stage[e] = "waiting")
      BY <1>s
    <3>3. \A e \in Decodes :
            stage'[e] = "waiting" <=>
              (e \in granted' \/ \E i \in 1 .. Len(Tail(q)) : Tail(q)[i] = e)
      <4>1. ~\E i \in 1 .. Len(q) : q[i] = d
        BY QueuedHoldNothing
      <4>2. \A e \in Decodes :
              stage[e] = "waiting" <=> (e \in granted \/ \E i \in 1 .. Len(q) : q[i] = e)
        BY <1>w DEF WaitersAreKnown
      <4> HIDE DEF q, h
      <4> QED BY <2>3, <2>4, <3>1, <3>2, <4>1, <4>2
    <3>4. \A i \in 1 .. Len(Tail(q)) : Tail(q)[i] \notin granted'
      BY <2>0, <2>3, <1>w DEF WaitersAreKnown
    <3>5. \A i, j \in 1 .. Len(Tail(q)) : Tail(q)[i] = Tail(q)[j] => i = j
      <4> SUFFICES ASSUME NEW i \in 1 .. Len(Tail(q)), NEW j \in 1 .. Len(Tail(q)),
                          Tail(q)[i] = Tail(q)[j]
                   PROVE  i = j
        OBVIOUS
      <4>1. i + 1 \in 1 .. Len(q) /\ j + 1 \in 1 .. Len(q) /\ q[i + 1] = q[j + 1]
        BY <2>0
      <4>2. i + 1 = j + 1
        BY <4>1, <1>w DEF WaitersAreKnown
      <4> QED BY <2>0, <4>2
    <3>6. granted' \subseteq due'
      BY <2>3, <1>w DEF WaitersAreKnown
    <3>7. slots'.queue = Tail(q)
      BY <2>2
    <3> QED BY <3>3, <3>4, <3>5, <3>6, <3>7, Zenon DEF WaitersAreKnown
  <2> QED BY <2>7, <2>8, <2>9, <2>10 DEF DecodeInv
<1> QED BY <1>1, <1>2

\* A decode past acquire, holding one of the slots s it took or was handed,
\* starts: the slots are s and nothing else moves.
LEMMA StartKeeps ==
    ASSUME DecodeInv, NEW d \in Decodes, NEW s,
           d \notin cancelled, Start(d, s), UNCHANGED <<cancelled, answered>>,
           \/ s = slots /\ d \in granted
           \/ s = Taken /\ Free /\ stage[d] = "spawned"
    PROVE  DecodeInv'
<1>1. /\ slots' = s /\ granted' = granted \ {d} /\ due' = due \ {d}
      /\ stage' = [stage EXCEPT ![d] = "decoding"]
  BY DEF Start
<1>2. /\ slots \in [inFlight : 0 .. MaxInFlight, queue : Seq(Decodes)]
      /\ stage \in [Decodes -> Stages] /\ granted \subseteq due
      /\ granted \subseteq Decodes /\ due \subseteq Decodes
  BY DEF DecodeInv, TypeOK, WaitersAreKnown
<1>3. Holding' = Holding \cup {d}
  BY <1>1, <1>2 DEF Holding
<1>4. /\ slots' \in [inFlight : 0 .. MaxInFlight, queue : Seq(Decodes)]
      /\ slots'.queue = slots.queue
      /\ slots'.inFlight = Cardinality(Holding') /\ IsFiniteSet(Holding')
  <2>1. CASE s = slots /\ d \in granted
    <3>1. Holding' = Holding
      BY <2>1, <1>3 DEF Holding
    <3> QED BY <2>1, <3>1, <1>1, <1>2 DEF DecodeInv, SlotsAccounted
  <2>2. CASE s = Taken /\ Free /\ stage[d] = "spawned"
    <3>1. d \notin Holding
      BY <2>2 DEF DecodeInv, WaitersAreKnown, Holding
    <3>2. slots'.inFlight = slots.inFlight + 1 /\ slots'.queue = slots.queue
      BY <2>2, <1>1, <1>2 DEF Taken
    <3>3. slots' \in [inFlight : 0 .. MaxInFlight, queue : Seq(Decodes)]
      BY <2>2, <1>1, <1>2, LimitAssumption DEF Taken, Free
    <3> QED BY <3>1, <3>2, <3>3, <1>3, CountOneMore DEF DecodeInv, SlotsAccounted
  <2> QED BY <2>1, <2>2
<1>5. TypeOK'
  BY <1>1, <1>2, <1>4 DEF DecodeInv, TypeOK, Stages
<1>6. NoIdleSlot'
  <2>1. CASE s = slots
    BY <2>1, <1>1 DEF NoIdleSlot, DecodeInv
  <2>2. CASE Free
    BY <2>2, <1>4, FreeMeansEmpty DEF NoIdleSlot
  <2> QED BY <2>1, <2>2
<1>7. WaitersAreKnown'
  <2>1. ~\E i \in 1 .. Len(slots.queue) : slots.queue[i] = d
    <3>1. CASE d \in granted
      BY <3>1 DEF DecodeInv, WaitersAreKnown
    <3>2. CASE stage[d] = "spawned"
      BY <3>2, QueuedHoldNothing
    <3> QED BY <3>1, <3>2
  <2>2. WaitersAreKnown
    BY DEF DecodeInv
  <2>3. \A e \in Decodes : stage'[e] = "waiting" <=> (e # d /\ stage[e] = "waiting")
    BY <1>1, <1>2
  <2> QED BY <2>1, <2>2, <2>3, <1>1, <1>4 DEF WaitersAreKnown
<1> QED BY <1>4, <1>5, <1>6, <1>7 DEF DecodeInv, SlotsAccounted

\* A first poll whose decode was cancelled takes a free slot and gives it back.
LEMMA SkipKeeps ==
    ASSUME DecodeInv, NEW d \in Decodes, stage[d] = "spawned", Free,
           EndsReleasing(d, Taken), UNCHANGED <<cancelled, answered>>
    PROVE  DecodeInv'
<1>1. /\ slots \in [inFlight : 0 .. MaxInFlight, queue : Seq(Decodes)]
      /\ stage \in [Decodes -> Stages]
  BY DEF DecodeInv, TypeOK
<1>2. slots.queue = <<>>
  BY FreeMeansEmpty
<1>3. Taken.queue = <<>> /\ Taken.inFlight = slots.inFlight + 1
  BY <1>1, <1>2 DEF Taken
<1>4. Released(Taken) = slots /\ Handed(Taken) = {}
  <2>1. PICK n \in Nat : slots = [inFlight |-> n, queue |-> <<>>]
    BY <1>1, <1>2, LimitAssumption
  <2>2. Taken = [inFlight |-> n + 1, queue |-> <<>>]
    BY <2>1 DEF Taken
  <2>3. Released(Taken) = [inFlight |-> n + 1 - 1, queue |-> <<>>]
    BY <2>2 DEF Released
  <2> QED BY <1>3, <2>1, <2>3 DEF Handed
<1>5. /\ slots' = slots /\ granted' = granted \ {d} /\ due' = due \ {d}
      /\ stage' = [stage EXCEPT ![d] = "done"]
  BY <1>4 DEF EndsReleasing
<1>6. d \notin granted
  BY DEF DecodeInv, WaitersAreKnown
<1>7. Holding' = Holding
  BY <1>1, <1>5, <1>6 DEF Holding
<1>8. WaitersAreKnown'
  BY <1>1, <1>2, <1>5, <1>6 DEF DecodeInv, WaitersAreKnown
<1> QED BY <1>1, <1>5, <1>6, <1>7, <1>8
        DEF DecodeInv, TypeOK, SlotsAccounted, NoIdleSlot, Stages

\* A place in the queue.
LEMMA QueueKeeps ==
    ASSUME DecodeInv, NEW d \in Decodes, stage[d] = "spawned", ~Free,
           slots' = Queued(d), stage' = [stage EXCEPT ![d] = "waiting"],
           due' = due \ {d}, UNCHANGED <<granted, cancelled, answered>>
    PROVE  DecodeInv'
<1> DEFINE q == slots.queue
<1>1. /\ slots \in [inFlight : 0 .. MaxInFlight, queue : Seq(Decodes)]
      /\ stage \in [Decodes -> Stages] /\ q \in Seq(Decodes)
  BY DEF DecodeInv, TypeOK
<1>2. slots'.queue = Append(q, d) /\ slots'.inFlight = slots.inFlight
  BY <1>1 DEF Queued
<1>3. /\ Len(Append(q, d)) = Len(q) + 1 /\ Len(q) \in Nat
      /\ Append(q, d) \in Seq(Decodes) /\ Append(q, d)[Len(q) + 1] = d
      /\ \A i \in 1 .. Len(q) : Append(q, d)[i] = q[i]
  BY <1>1
<1>4. slots' \in [inFlight : 0 .. MaxInFlight, queue : Seq(Decodes)]
  BY <1>1, <1>3 DEF Queued
<1>5. slots.inFlight = MaxInFlight
  BY <1>1, LimitAssumption DEF Free
<1>6. d \notin granted /\ ~\E i \in 1 .. Len(q) : q[i] = d
  BY DEF DecodeInv, WaitersAreKnown
<1>7. Holding' = Holding
  BY <1>1 DEF Holding
<1>8. WaitersAreKnown'
  <2>1. \A e \in Decodes : stage'[e] = "waiting" <=> (e = d \/ stage[e] = "waiting")
    BY <1>1
  <2>2. \A e \in Decodes :
          (\E i \in 1 .. Len(q) + 1 : Append(q, d)[i] = e)
            <=> (e = d \/ \E i \in 1 .. Len(q) : q[i] = e)
    <3>1. \A i \in 1 .. Len(q) + 1 : i = Len(q) + 1 \/ i \in 1 .. Len(q)
      BY <1>3
    <3>2. Len(q) + 1 \in 1 .. Len(q) + 1 /\ \A i \in 1 .. Len(q) : i \in 1 .. Len(q) + 1
      BY <1>3
    <3> HIDE DEF q
    <3> QED BY <1>3, <3>1, <3>2, Zenon
  <2>3. \A e \in Decodes :
          stage[e] = "waiting" <=> (e \in granted \/ \E i \in 1 .. Len(q) : q[i] = e)
    BY DEF DecodeInv, WaitersAreKnown
  <2>4. \A e \in Decodes :
          stage'[e] = "waiting" <=>
            (e \in granted' \/ \E i \in 1 .. Len(q) + 1 : Append(q, d)[i] = e)
    <3> HIDE DEF q
    <3> QED BY <2>1, <2>2, <2>3
  <2>5. \A i \in 1 .. Len(q) + 1 : Append(q, d)[i] \notin granted'
    BY <1>3, <1>6 DEF DecodeInv, WaitersAreKnown
  <2>6. \A i, j \in 1 .. Len(q) + 1 : Append(q, d)[i] = Append(q, d)[j] => i = j
    <3> SUFFICES ASSUME NEW i \in 1 .. Len(q) + 1, NEW j \in 1 .. Len(q) + 1,
                        Append(q, d)[i] = Append(q, d)[j]
                 PROVE  i = j
      OBVIOUS
    <3>1. CASE i \in 1 .. Len(q) /\ j \in 1 .. Len(q)
      <4>1. q[i] = q[j]
        BY <1>3, <3>1
      <4> QED BY <3>1, <4>1 DEF DecodeInv, WaitersAreKnown
    <3>2. CASE i = Len(q) + 1 /\ j \in 1 .. Len(q)
      BY <1>3, <1>6, <3>2
    <3>3. CASE j = Len(q) + 1 /\ i \in 1 .. Len(q)
      BY <1>3, <1>6, <3>3
    <3> QED BY <1>3, <3>1, <3>2, <3>3
  <2>7. granted' \subseteq due'
    BY <1>6 DEF DecodeInv, WaitersAreKnown
  <2>8. slots'.queue = Append(q, d) /\ Len(slots'.queue) = Len(q) + 1
    BY <1>2, <1>3
  <2> HIDE DEF q
  <2> QED BY <2>4, <2>5, <2>6, <2>7, <2>8 DEF WaitersAreKnown
<1>9. TypeOK'
  BY <1>1, <1>4 DEF DecodeInv, TypeOK, Stages
<1> QED BY <1>2, <1>5, <1>7, <1>8, <1>9 DEF DecodeInv, SlotsAccounted, NoIdleSlot

\* What is left of the queue when its i-th waiter goes.
LEMMA WithoutIs ==
    ASSUME NEW S, NEW q \in Seq(S), NEW i \in 1 .. Len(q)
    PROVE  /\ Without(q, i) \in Seq(S)
           /\ Len(q) \in Nat \ {0}
           /\ Len(Without(q, i)) = Len(q) - 1
           /\ \A j \in 1 .. Len(q) - 1 : Without(q, i)[j] = IF j < i THEN q[j] ELSE q[j + 1]
<1>1. Len(q) \in Nat \ {0} /\ \A j \in 1 .. Len(q) : q[j] \in S
  OBVIOUS
<1>2. PICK n \in Nat : n = Len(q) - 1
  BY <1>1
<1>3. \A j \in 1 .. n : (IF j < i THEN q[j] ELSE q[j + 1]) \in S
  BY <1>1, <1>2
<1>4. Without(q, i) = [j \in 1 .. n |-> IF j < i THEN q[j] ELSE q[j + 1]]
  BY <1>2 DEF Without
<1>5. Without(q, i) \in [1 .. n -> S]
  BY <1>3, <1>4
<1>6. Without(q, i) \in Seq(S) /\ Len(Without(q, i)) = n
  BY <1>5
<1> QED BY <1>1, <1>2, <1>4, <1>6

\* A waiter without a slot leaves the queue.
LEMMA LeaveQueueKeeps ==
    ASSUME DecodeInv, NEW d \in Decodes, stage[d] = "waiting", d \notin granted,
           NEW i \in 1 .. Len(slots.queue), slots.queue[i] = d,
           slots' = [slots EXCEPT !.queue = Without(@, i)],
           stage' = [stage EXCEPT ![d] = "done"],
           UNCHANGED <<granted, due, cancelled, answered>>
    PROVE  DecodeInv'
<1> DEFINE q == slots.queue
           p == Without(slots.queue, i)
<1>1. /\ slots \in [inFlight : 0 .. MaxInFlight, queue : Seq(Decodes)]
      /\ stage \in [Decodes -> Stages] /\ q \in Seq(Decodes)
  BY DEF DecodeInv, TypeOK
<1>2. slots'.queue = p /\ slots'.inFlight = slots.inFlight
  BY <1>1
<1>3. /\ p \in Seq(Decodes) /\ Len(q) \in Nat \ {0} /\ Len(p) = Len(q) - 1
      /\ \A j \in 1 .. Len(p) : p[j] = IF j < i THEN q[j] ELSE q[j + 1]
  BY <1>1, WithoutIs
<1>4. slots' \in [inFlight : 0 .. MaxInFlight, queue : Seq(Decodes)]
  BY <1>1, <1>3
<1>5. Holding' = Holding
  BY <1>1 DEF Holding
<1>6. slots.inFlight = MaxInFlight
  BY <1>3 DEF DecodeInv, NoIdleSlot
<1>7. /\ \A e \in Decodes :
            stage[e] = "waiting" <=> (e \in granted \/ \E j \in 1 .. Len(q) : q[j] = e)
      /\ \A j \in 1 .. Len(q) : q[j] \notin granted
      /\ \A j, k \in 1 .. Len(q) : q[j] = q[k] => j = k
      /\ granted \subseteq due
  BY DEF DecodeInv, WaitersAreKnown
<1>8. q[i] = d /\ i \in 1 .. Len(q)
  OBVIOUS
<1>9. WaitersAreKnown'
  <2> HIDE DEF q, p
  <2>1. \A e \in Decodes : stage'[e] = "waiting" <=> (e # d /\ stage[e] = "waiting")
    BY <1>1
  <2>2. \A e \in Decodes :
          (\E j \in 1 .. Len(p) : p[j] = e) <=> (e # d /\ \E j \in 1 .. Len(q) : q[j] = e)
    <3> SUFFICES ASSUME NEW e \in Decodes
                 PROVE  (\E j \in 1 .. Len(p) : p[j] = e)
                           <=> (e # d /\ \E j \in 1 .. Len(q) : q[j] = e)
      OBVIOUS
    <3>1. ASSUME NEW j \in 1 .. Len(p), p[j] = e
          PROVE  e # d /\ \E k \in 1 .. Len(q) : q[k] = e
      <4>1. CASE j < i
        <5>1. j \in 1 .. Len(q) /\ q[j] = e /\ j # i
          BY <1>3, <1>8, <3>1, <4>1
        <5> QED BY <1>7, <1>8, <5>1
      <4>2. CASE ~(j < i)
        <5>1. j + 1 \in 1 .. Len(q) /\ q[j + 1] = e /\ j + 1 # i
          BY <1>3, <1>8, <3>1, <4>2
        <5> QED BY <1>7, <1>8, <5>1
      <4> QED BY <4>1, <4>2
    <3>2. ASSUME NEW j \in 1 .. Len(q), q[j] = e, e # d
          PROVE  \E k \in 1 .. Len(p) : p[k] = e
      <4>1. CASE j < i
        <5>1. j \in 1 .. Len(p) /\ p[j] = e
          BY <1>3, <1>8, <3>2, <4>1
        <5> QED BY <5>1
      <4>2. CASE j > i
        <5>1. j - 1 \in 1 .. Len(p) /\ p[j - 1] = e
          BY <1>3, <1>8, <3>2, <4>2, SMTT(40)
        <5> QED BY <5>1
      <4>3. j # i
        BY <1>8, <3>2
      <4> QED BY <1>3, <1>8, <4>1, <4>2, <4>3
    <3> QED BY <3>1, <3>2
  <2>3. \A e \in Decodes :
          stage'[e] = "waiting" <=> (e \in granted' \/ \E j \in 1 .. Len(p) : p[j] = e)
    BY <2>1, <2>2, <1>7
  <2>4. \A j \in 1 .. Len(p) : p[j] \notin granted'
    BY <1>3, <1>7, SMTT(40)
  <2>5. \A j, k \in 1 .. Len(p) : p[j] = p[k] => j = k
    <3> SUFFICES ASSUME NEW j \in 1 .. Len(p), NEW k \in 1 .. Len(p), p[j] = p[k]
                 PROVE  j = k
      OBVIOUS
    <3> DEFINE up(x) == IF x < i THEN x ELSE x + 1
    <3>1. /\ up(j) \in 1 .. Len(q) /\ q[up(j)] = p[j]
          /\ up(k) \in 1 .. Len(q) /\ q[up(k)] = p[k]
      BY <1>3, <1>8, SMTT(40)
    <3>2. up(j) = up(k)
      BY <1>7, <3>1
    <3> QED BY <1>3, <1>8, <3>2
  <2> QED BY <1>2, <1>7, <2>3, <2>4, <2>5 DEF WaitersAreKnown
<1>10. TypeOK'
  BY <1>1, <1>4 DEF DecodeInv, TypeOK, Stages
<1> QED BY <1>2, <1>5, <1>6, <1>9, <1>10 DEF DecodeInv, SlotsAccounted, NoIdleSlot

\* At the start every slot is free.
LEMMA DecodeInitHolds == Init => DecodeInv
<1> SUFFICES ASSUME Init PROVE DecodeInv
  OBVIOUS
<1>1. Holding = {}
  BY DEF Init, Holding
<1>2. slots.inFlight = 0 /\ slots.queue = <<>>
  BY DEF Init
<1>3. slots \in [inFlight : 0 .. MaxInFlight, queue : Seq(Decodes)]
  BY LimitAssumption DEF Init
<1>4. TypeOK
  BY <1>3 DEF Init, TypeOK, Stages
<1>5. IsFiniteSet(Holding) /\ SlotsAccounted
  BY <1>1, <1>2, FS_EmptySet DEF SlotsAccounted
<1>6. NoIdleSlot
  BY <1>2 DEF NoIdleSlot
<1>7. WaitersAreKnown
  BY <1>2 DEF Init, WaitersAreKnown
<1> QED BY <1>4, <1>5, <1>6, <1>7 DEF DecodeInv

\* Every step keeps the slots accounted for.
LEMMA DecodeStepHolds == DecodeInv /\ [Next]_vars => DecodeInv'
<1> SUFFICES ASSUME DecodeInv, [Next]_vars PROVE DecodeInv'
  OBVIOUS
<1>t. /\ stage \in [Decodes -> Stages] /\ answered \subseteq Decodes
      /\ cancelled \subseteq Decodes
  BY DEF DecodeInv, TypeOK
\* Steps that move no slot and no waiter.
<1>1. ASSUME NEW d \in Decodes, Refuse(d) \/ Spawn(d) \/ DropSpawned(d) \/ CancelDecode(d)
      PROVE  DecodeInv'
  <2>1. slots' = slots /\ granted' = granted
    BY <1>1 DEF Refuse, Spawn, DropSpawned, CancelDecode
  <2>2. /\ stage' \in [Decodes -> Stages] /\ due' \subseteq Decodes
        /\ cancelled' \subseteq Decodes /\ answered' \subseteq Decodes
    BY <1>1, <1>t DEF Refuse, Spawn, DropSpawned, CancelDecode, Stages, DecodeInv, TypeOK
  <2>3. \A e \in Decodes :
          /\ stage'[e] = "waiting" <=> stage[e] = "waiting"
          /\ stage'[e] = "decoding" <=> stage[e] = "decoding"
    BY <1>1, <1>t DEF Refuse, Spawn, DropSpawned, CancelDecode
  <2>4. granted \subseteq due'
    BY <1>1 DEF Refuse, Spawn, DropSpawned, CancelDecode, DecodeInv, WaitersAreKnown, TypeOK
  <2>5. Holding' = Holding
    BY <2>1, <2>3 DEF Holding
  <2>6. WaitersAreKnown'
    BY <2>1, <2>3, <2>4 DEF DecodeInv, WaitersAreKnown
  <2> QED BY <2>1, <2>2, <2>5, <2>6 DEF DecodeInv, TypeOK, SlotsAccounted, NoIdleSlot
<1>2. ASSUME NEW d \in Decodes, PollFirst(d) PROVE DecodeInv'
  <2>1. stage[d] = "spawned" /\ UNCHANGED <<cancelled, answered>>
    BY <1>2 DEF PollFirst
  <2>2. CASE Free /\ Start(d, Taken) /\ d \in cancelled
    <3>1. EndsReleasing(d, Taken)
      BY <2>2 DEF Start
    <3> QED BY <2>1, <2>2, <3>1, SkipKeeps
  <2>3. CASE Free /\ Start(d, Taken) /\ d \notin cancelled
    BY <2>1, <2>3, StartKeeps
  <2>4. CASE ~Free /\ slots' = Queued(d) /\ stage' = [stage EXCEPT ![d] = "waiting"]
               /\ due' = due \ {d} /\ UNCHANGED granted
    BY <2>1, <2>4, QueueKeeps
  <2> QED BY <1>2, <2>2, <2>3, <2>4 DEF PollFirst
<1>3. ASSUME NEW d \in Decodes, PollGranted(d) PROVE DecodeInv'
  <2>1. d \in granted /\ Start(d, slots) /\ UNCHANGED <<cancelled, answered>>
    BY <1>3 DEF PollGranted
  <2>2. CASE d \in cancelled
    <3>1. EndsReleasing(d, slots) /\ d \in Holding
      BY <2>1, <2>2 DEF Start, Holding
    <3> QED BY <2>1, <3>1, <1>t, ReleaseKeeps
  <2>3. CASE d \notin cancelled
    BY <2>1, <2>3, StartKeeps
  <2> QED BY <2>2, <2>3
<1>4. ASSUME NEW d \in Decodes, LoaderAnswers(d) \/ Deadline(d) \/ DropDecoding(d)
      PROVE  DecodeInv'
  <2>1. d \in Holding /\ EndsReleasing(d, slots)
    BY <1>4 DEF LoaderAnswers, Deadline, DropDecoding, Settles, Holding
  <2>2. cancelled' \subseteq Decodes /\ answered' \subseteq Decodes
    BY <1>4, <1>t DEF LoaderAnswers, Deadline, DropDecoding, Settles, Answers
  <2> QED BY <2>1, <2>2, ReleaseKeeps
<1>5. ASSUME NEW d \in Decodes, DropWaiting(d) PROVE DecodeInv'
  <2>1. stage[d] = "waiting" /\ UNCHANGED <<cancelled, answered>>
    BY <1>5 DEF DropWaiting
  <2>2. CASE d \in granted /\ EndsReleasing(d, slots)
    <3>1. d \in Holding
      BY <2>2 DEF Holding
    <3> QED BY <2>1, <2>2, <3>1, <1>t, ReleaseKeeps
  <2>3. CASE d \notin granted
    <3>1. PICK i \in 1 .. Len(slots.queue) :
            /\ slots.queue[i] = d
            /\ slots' = [slots EXCEPT !.queue = Without(@, i)]
      BY <1>5, <2>3 DEF DropWaiting
    <3>2. stage' = [stage EXCEPT ![d] = "done"] /\ UNCHANGED <<granted, due>>
      BY <1>5, <2>3 DEF DropWaiting
    <3> QED BY <2>1, <2>3, <3>1, <3>2, LeaveQueueKeeps
  <2> QED BY <1>5, <2>2, <2>3 DEF DropWaiting
<1>6. CASE UNCHANGED vars
  BY <1>6 DEF vars, DecodeInv, TypeOK, SlotsAccounted, NoIdleSlot, WaitersAreKnown, Holding
<1> QED BY <1>1, <1>2, <1>3, <1>4, <1>5, <1>6 DEF Next

\* Every reachable state satisfies the inductive invariant, for any number of
\* decodes and slots.
THEOREM DecodeInvariant == Spec => []DecodeInv
BY DecodeInitHolds, DecodeStepHolds, PTL DEF Spec

\* No slot leaks and none is freed twice.
THEOREM NoSlotLeaks == Spec => []SlotsAccounted
<1>1. DecodeInv => SlotsAccounted
  BY DEF DecodeInv
<1> QED BY <1>1, DecodeInvariant, PTL

\* Nobody waits while a slot is free.
THEOREM NoSlotIdles == Spec => []NoIdleSlot
<1>1. DecodeInv => NoIdleSlot
  BY DEF DecodeInv
<1> QED BY <1>1, DecodeInvariant, PTL

\* No wake-up is lost: a waiter is queued, or granted and due to be polled.
THEOREM NoWakeupLost == Spec => []WaitersAreKnown
<1>1. DecodeInv => WaitersAreKnown
  BY DEF DecodeInv
<1> QED BY <1>1, DecodeInvariant, PTL

\* Only a decode that was spawned has a token to cancel.
HasToken == \A d \in Decodes : d \in cancelled => stage[d] # "none"

\* Nothing is cancelled before it is spawned.
LEMMA TokensHold == Spec => []HasToken
<1>1. Init => HasToken
  BY DEF Init, HasToken
<1>2. DecodeInv /\ HasToken /\ [Next]_vars => HasToken'
  <2> SUFFICES ASSUME DecodeInv, HasToken, [Next]_vars PROVE HasToken'
    OBVIOUS
  <2>1. stage \in [Decodes -> Stages]
    BY DEF DecodeInv, TypeOK
  <2>2. CASE UNCHANGED vars
    BY <2>2 DEF vars, HasToken
  <2>3. CASE Next
    <3>1. PICK d \in Decodes :
            \/ Refuse(d) \/ Spawn(d) \/ PollFirst(d) \/ PollGranted(d)
            \/ LoaderAnswers(d) \/ Deadline(d)
            \/ CancelDecode(d) \/ DropSpawned(d) \/ DropWaiting(d) \/ DropDecoding(d)
      BY <2>3 DEF Next
    <3>2. CASE CancelDecode(d)
      BY <3>2 DEF CancelDecode, HasToken
    <3>3. CASE ~CancelDecode(d)
      <4>1. \E v \in Stages \ {"none"} : stage' = [stage EXCEPT ![d] = v]
        BY <3>1, <3>3 DEF Refuse, Spawn, PollFirst, PollGranted, LoaderAnswers, Deadline,
              Settles, DropSpawned, DropWaiting, DropDecoding, Start, EndsReleasing, Stages
      <4>2. cancelled' = cancelled
        BY <3>1, <3>3 DEF Refuse, Spawn, PollFirst, PollGranted, LoaderAnswers, Deadline,
              Settles, DropSpawned, DropWaiting, DropDecoding
      <4> QED BY <2>1, <4>1, <4>2 DEF HasToken
    <3> QED BY <3>2, <3>3
  <2> QED BY <2>2, <2>3
<1> QED BY <1>1, <1>2, DecodeInvariant, PTL DEF Spec

\* Once cancelled, a decode's callback never runs.
THEOREM CancelSilences == Spec => [][CallsNoCancelled]_vars
<1>1. HasToken /\ [Next]_vars => [CallsNoCancelled]_vars
  <2> SUFFICES ASSUME HasToken, [Next]_vars PROVE (answered' \ answered) \cap cancelled = {}
    BY DEF CallsNoCancelled
  <2>1. CASE UNCHANGED vars
    BY <2>1 DEF vars
  <2>2. ASSUME NEW d \in Decodes, Refuse(d) PROVE (answered' \ answered) \cap cancelled = {}
    BY <2>2 DEF Refuse, HasToken
  <2>3. ASSUME NEW d \in Decodes, LoaderAnswers(d) \/ Deadline(d)
        PROVE  (answered' \ answered) \cap cancelled = {}
    BY <2>3 DEF LoaderAnswers, Deadline, Settles, Answers
  <2>4. ASSUME NEW d \in Decodes,
               \/ Spawn(d) \/ PollFirst(d) \/ PollGranted(d) \/ CancelDecode(d)
               \/ DropSpawned(d) \/ DropWaiting(d) \/ DropDecoding(d)
        PROVE  (answered' \ answered) \cap cancelled = {}
    <3>1. answered' = answered
      BY <2>4 DEF Spawn, PollFirst, PollGranted, CancelDecode, DropSpawned, DropWaiting, DropDecoding
    <3> QED BY <3>1
  <2> QED BY <2>1, <2>2, <2>3, <2>4 DEF Next
<1> QED BY <1>1, TokensHold, PTL DEF Spec

\* Slots are handed on in the order they were asked for.
THEOREM HandedOnInOrder == Spec => [][ServesInOrder]_vars
<1>1. DecodeInv /\ [Next]_vars => [ServesInOrder]_vars
  <2> SUFFICES ASSUME DecodeInv, [Next]_vars, NEW i \in 1 .. Len(slots.queue),
                      slots.queue[i] \in granted'
               PROVE  \A j \in 1 .. i - 1 : slots.queue[j] \in granted'
    BY DEF ServesInOrder
  <2>1. granted' \subseteq granted \cup Handed(slots)
    <3>1. slots \in [inFlight : 0 .. MaxInFlight, queue : Seq(Decodes)]
      BY DEF DecodeInv, TypeOK
    <3>2. Handed(Taken) = Handed(slots)
      BY <3>1 DEF Handed, Taken
    <3>3. \A s : \A d \in Decodes : EndsReleasing(d, s) => granted' \subseteq granted \cup Handed(s)
      BY DEF EndsReleasing
    <3> QED BY <3>2, <3>3
            DEF Next, vars, Refuse, Spawn, PollFirst, PollGranted, Start, LoaderAnswers, Deadline,
                Settles, CancelDecode, DropSpawned, DropWaiting, DropDecoding
  <2>2. slots.queue \in Seq(Decodes) /\ slots.queue[i] \notin granted
    BY DEF DecodeInv, TypeOK, WaitersAreKnown
  <2>3. slots.queue[i] = Head(slots.queue) /\ slots.queue # <<>>
    BY <2>1, <2>2 DEF Handed
  <2>4. 1 \in 1 .. Len(slots.queue) /\ slots.queue[i] = slots.queue[1]
    BY <2>2, <2>3
  <2>5. i = 1
    BY <2>4 DEF DecodeInv, WaitersAreKnown
  <2> QED BY <2>5
<1> QED BY <1>1, DecodeInvariant, PTL DEF Spec

\* The slots are shared without loss, idleness or a lost wake-up.
THEOREM SlotsShared == Spec => []SlotsAreShared
<1>1. DecodeInv => SlotsAreShared
  BY DEF DecodeInv, SlotsAreShared
<1> QED BY <1>1, DecodeInvariant, PTL

\* Decodes are served in their turn, and a cancelled one calls nobody back.
THEOREM DecodesServed == Spec => DecodesAreServed
<1>1. [ServesInOrder]_vars /\ [CallsNoCancelled]_vars => [ServesInOrder /\ CallsNoCancelled]_vars
  OBVIOUS
<1> QED BY <1>1, HandedOnInOrder, CancelSilences, PTL DEF DecodesAreServed

=============================================================================
