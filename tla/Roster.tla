------------------------------- MODULE Roster -------------------------------
(***************************************************************************)
(* Who is in which chat: the membership models and tabs of one connection's *)
(* chats (rust/crates/hxhandlers/src/recv/user.rs, send/chat.rs, src/chat.c,*)
(* src/users.c, src/network.c) against a server that speaks and answers     *)
(* over two FIFO channels.                                                  *)
(*                                                                          *)
(* A chat is known (a conversation in sess->chats), has members with the    *)
(* name it has for each, and rows: what its list of users shows.  The       *)
(* public chat's list is always there; a private chat's comes with its tab. *)
(***************************************************************************)
EXTENDS Naturals, Sequences, FiniteSets

CONSTANTS
    Others,     \* the other users
    Me,         \* this client's user
    Names,      \* what a user may be called
    NotListed,     \* not listed
    Cids,       \* private chats, made at most once each
    MaxTold,    \* bound: what the other users do, in all
    MaxTrans,   \* bound: requests of one connection
    MaxLinks    \* bound: connections made

People == Others \cup {Me}
Listed == [People -> Names \cup {NotListed}]

ASSUME RosterAssumption ==
    Me \notin Others /\ NotListed \notin Names /\ Names # {} /\ 0 \notin Cids

VARIABLES
    online,     \* the connection is up
    links,      \* connections made so far
    chats,      \* sess->chats: [known, open, members, rows] for each cid
    joins,      \* JOINS: the joins in flight, [trans, cid, parted]
    invites,    \* invitations whose dialog is open
    tnext,      \* the next trans
    shutAt,     \* tnext when the user last closed each chat's tab, or 0
    upward,         \* requests on their way
    down,       \* the server's messages on their way
    called,     \* the server: what each user is called
    within,     \* the server: who is in each chat, cid 0 being all of it
    made,       \* the server: private chats there have been
    told        \* what the other users have done so far

clientVars == <<chats, joins, invites, tnext, shutAt>>
hostVars == <<called, within, made, told>>
rosterVars == <<online, links, clientVars, upward, down, hostVars>>

NoOne == [u \in People |-> NotListed]
Unknown == [known |-> FALSE, open |-> FALSE, members |-> NoOne, rows |-> NoOne]

RosterInit ==
    /\ online = FALSE /\ links = 0
    /\ chats = [c \in Cids \cup {0} |-> [Unknown EXCEPT !.known = c = 0, !.open = c = 0]]
    /\ joins = {} /\ invites = {} /\ tnext = 1
    /\ shutAt = [c \in Cids |-> 0]
    /\ upward = <<>> /\ down = <<>>
    /\ called = [u \in People |-> CHOOSE n \in Names : TRUE]
    /\ \E there \in SUBSET Others : within = [c \in Cids \cup {0} |-> IF c = 0 THEN there ELSE {}]
    /\ made = {} /\ told = 0

-----------------------------------------------------------------------------
(* Signals and their handlers in users.c.                                   *)

Lists(chat, u) == chat.members[u] # NotListed

\* create_pchat_window, where there is no tab: its list starts without rows.
Opened(chat) == [chat EXCEPT !.known = TRUE, !.open = TRUE]

\* The model, then the row, in a tab.
Put(chat, u, n) == [Opened(chat) EXCEPT !.members[u] = n, !.rows[u] = n]

UserCreate(c, u, n) == [chats EXCEPT ![c] = Put(@, u, n)]

\* Mutated form: a change on the public chat stays there.
UserChangeHere(c, u, n) == [chats EXCEPT ![c] = Put(@, u, n)]

\* user_change: one on the public chat reaches the open tabs the user is in.
UserChange(c, u, n) ==
    [d \in DOMAIN chats |->
        IF d = c \/ (c = 0 /\ chats[d].open /\ Lists(chats[d], u)) THEN Put(chats[d], u, n)
        ELSE chats[d]]

UserDelete(c, u) == [chats EXCEPT ![c].members[u] = NotListed, ![c].rows[u] = NotListed]

\* load: who is new gets a row, who is there is updated in the model alone.
LoadList(chat, list) ==
    LET new == {u \in People : list[u] # NotListed /\ ~Lists(chat, u)}
    IN  [known |-> TRUE,
         open |-> chat.open \/ new # {},
         members |-> [u \in People |-> IF list[u] # NotListed THEN list[u] ELSE chat.members[u]],
         rows |-> [u \in People |-> IF u \in new THEN list[u] ELSE chat.rows[u]]]

-----------------------------------------------------------------------------
(* What the server says, as recv/user.rs takes it.                          *)

\* changed: a user arrives or changes.  Our own arrival is left to the list.
Changed(m) ==
    /\ m.op = "change"
    /\ chats' = IF Lists(chats[m.cid], m.uid) THEN UserChange(m.cid, m.uid, m.name)
                ELSE IF m.uid = Me THEN [chats EXCEPT ![m.cid].known = TRUE]
                ELSE UserCreate(m.cid, m.uid, m.name)
    /\ UNCHANGED <<joins, invites>>

Left(m) ==
    /\ m.op = "left"
    /\ chats' = IF chats[m.cid].known THEN UserDelete(m.cid, m.uid) ELSE chats
    /\ UNCHANGED <<joins, invites>>

ListCame(m) ==
    /\ m.op = "list"
    /\ chats' = [chats EXCEPT ![0] = LoadList(@, m.list)]
    /\ UNCHANGED <<joins, invites>>

\* joined: unless the user has left the chat while the join was on its way.
Joined(m) ==
    /\ m.op = "joined"
    /\ joins' = {j \in joins : j.trans # m.trans}
    /\ chats' = IF \E j \in joins : j.trans = m.trans /\ j.parted THEN chats
                ELSE [chats EXCEPT ![m.cid] = LoadList(@, m.list)]
    /\ UNCHANGED invites

\* created: the reply lists us alone.
Created(m) ==
    /\ m.op = "created"
    /\ chats' = [chats EXCEPT ![m.cid] = LoadList(@, m.list)]
    /\ UNCHANGED <<joins, invites>>

\* failed: a refused join takes a chat nobody is in and nothing shows.
Failed(m) ==
    /\ m.op = "failed"
    /\ joins' = {j \in joins : j.trans # m.trans}
    /\ chats' = [c \in DOMAIN chats |->
                    IF /\ \E j \in joins : j.trans = m.trans /\ j.cid = c
                       /\ ~chats[c].open /\ chats[c].members = NoOne
                    THEN Unknown ELSE chats[c]]
    /\ UNCHANGED invites

\* invited: dropped when the user ignores whoever it is from.
Invited(m) ==
    /\ m.op = "invite"
    /\ invites' \in {invites, invites \cup {m.cid}}
    /\ UNCHANGED <<chats, joins>>

Receive ==
    /\ down # <<>>
    /\ down' = Tail(down)
    /\ LET m == Head(down)
       IN  \/ Changed(m) \/ Left(m) \/ ListCame(m) \/ Joined(m) \/ Created(m) \/ Failed(m) \/ Invited(m)
    /\ UNCHANGED <<online, links, tnext, shutAt, upward, hostVars>>

-----------------------------------------------------------------------------
(* What the user does.                                                      *)

Request(op, c) == [op |-> op, cid |-> c, trans |-> tnext]

\* hx_chat_user, of someone else or of ourselves.
ChatUser(op) ==
    /\ online /\ tnext <= MaxTrans
    /\ upward' = Append(upward, Request(op, 0))
    /\ tnext' = tnext + 1
    /\ UNCHANGED <<online, links, chats, joins, invites, shutAt, down, hostVars>>

\* hx_chat_join, from the invitation's dialog.
ChatJoin(c) ==
    /\ online /\ c \in invites /\ tnext <= MaxTrans
    /\ invites' = invites \ {c}
    /\ joins' = joins \cup {[trans |-> tnext, cid |-> c, parted |-> FALSE]}
    /\ upward' = Append(upward, Request("join", c))
    /\ tnext' = tnext + 1
    /\ UNCHANGED <<online, links, chats, shutAt, down, hostVars>>

\* hx_reject_chat.
RejectChat(c) ==
    /\ online /\ c \in invites /\ tnext <= MaxTrans
    /\ invites' = invites \ {c}
    /\ upward' = Append(upward, Request("decline", c))
    /\ tnext' = tnext + 1
    /\ UNCHANGED <<online, links, chats, joins, shutAt, down, hostVars>>

\* Mutated form: a join in flight is answered as if nothing had happened.
JoinKept(c) == joins

\* join_parted.
JoinParted(c) == {[j EXCEPT !.parted = @ \/ j.cid = c] : j \in joins}

\* gchat_delete: the view goes, the conversation and its members stay.
Shut(c) == [chats EXCEPT ![c].open = FALSE, ![c].rows = NoOne]

\* pchat_close: hx_part_chat, then the view.
CloseTab(c) ==
    /\ online /\ chats[c].open /\ tnext <= MaxTrans
    /\ joins' = JoinParted(c)
    /\ upward' = Append(upward, Request("part", c))
    /\ tnext' = tnext + 1
    /\ shutAt' = [shutAt EXCEPT ![c] = tnext]
    /\ chats' = Shut(c)
    /\ UNCHANGED <<online, links, invites, down, hostVars>>

\* joins_forget, with the connection.
Forget == {}

\* close_connected_windows closes every private tab; the conversations go
\* after it, all but the public one, which loses its members.
NoChats == [c \in DOMAIN chats |-> [Unknown EXCEPT !.known = c = 0, !.open = c = 0]]

\* hx_htlc_close, whoever closed: chats and joins go.  An invitation is answered nowhere.
CloseLink ==
    /\ online
    /\ online' = FALSE
    /\ chats' = NoChats
    /\ joins' = Forget
    /\ invites' = {} /\ tnext' = 1 /\ shutAt' = [c \in Cids |-> 0]
    /\ upward' = <<>> /\ down' = <<>>
    /\ within' = [c \in DOMAIN within |-> within[c] \ {Me}]
    /\ UNCHANGED <<links, called, made, told>>

\* The login, up to hx_user_list_get; some servers tell us of ourselves.
OpenLink ==
    /\ ~online /\ links < MaxLinks
    /\ online' = TRUE /\ links' = links + 1
    /\ within' = [within EXCEPT ![0] = @ \cup {Me}]
    /\ upward' = <<Request("list", 0)>>
    /\ tnext' = tnext + 1
    /\ down' \in {<<>>, <<[op |-> "change", cid |-> 0, uid |-> Me, name |-> called[Me]]>>}
    /\ UNCHANGED <<chats, joins, invites, shutAt, called, made, told>>

-----------------------------------------------------------------------------
(* The server and the other users.                                          *)

Roll(set) == [u \in People |-> IF u \in set THEN called[u] ELSE NotListed]
Tell(c, messages) == down' = IF Me \in within[c] THEN down \o messages ELSE down
ToldOnce == told < MaxTold /\ told' = told + 1
ChangeOf(c, u, n) == [op |-> "change", cid |-> c, uid |-> u, name |-> n]

\* A request is taken, in order.
Serve ==
    /\ upward # <<>>
    /\ upward' = Tail(upward)
    /\ LET r == Head(upward)
       IN  \/ /\ r.op = "list"
              /\ down' = Append(down, [op |-> "list", list |-> Roll(within[0])])
              /\ UNCHANGED <<within, made>>
           \/ /\ r.op \in {"create", "createself"}
              /\ \E c \in Cids \ made :
                    /\ made' = made \cup {c}
                    /\ within' = [within EXCEPT ![c] = {Me}]
                    /\ down' = (down \o <<[op |-> "created", cid |-> c, list |-> Roll({Me})]>>)
                               \o IF r.op = "create" THEN <<>> ELSE <<[op |-> "invite", cid |-> c]>>
           \/ /\ r.op = "join" /\ within[r.cid] # {}
              /\ within' = [within EXCEPT ![r.cid] = @ \cup {Me}]
              /\ down' = Append(down, [op |-> "joined", trans |-> r.trans, cid |-> r.cid,
                                       list |-> Roll(within[r.cid] \cup {Me})])
              /\ UNCHANGED made
           \/ /\ \/ r.op = "join" /\ within[r.cid] = {}
                 \/ r.op \in {"create", "createself"} /\ made = Cids
              /\ down' = Append(down, [op |-> "failed", trans |-> r.trans])
              /\ UNCHANGED <<within, made>>
           \/ /\ r.op = "part"
              /\ within' = [within EXCEPT ![r.cid] = @ \ {Me}]
              /\ UNCHANGED <<down, made>>
           \/ r.op = "decline" /\ UNCHANGED <<down, within, made>>
    /\ UNCHANGED <<online, links, clientVars, called, told>>

Arrive(c, u) ==
    /\ ToldOnce
    /\ u \notin within[c]
    /\ c # 0 => u \in within[0] /\ within[c] # {}
    /\ within' = [within EXCEPT ![c] = @ \cup {u}]
    /\ Tell(c, <<ChangeOf(c, u, called[u])>>)
    /\ UNCHANGED <<online, links, clientVars, upward, called, made>>

\* One who leaves the server leaves its chats first.
Depart(c, u) ==
    /\ ToldOnce
    /\ u \in within[c]
    /\ c = 0 => \A d \in Cids : u \notin within[d]
    /\ within' = [within EXCEPT ![c] = @ \ {u}]
    /\ Tell(c, <<[op |-> "left", cid |-> c, uid |-> u]>>)
    /\ UNCHANGED <<online, links, clientVars, upward, called, made>>

Rename(u, n) ==
    /\ ToldOnce
    /\ u \in within[0] /\ called[u] # n
    /\ called' = [called EXCEPT ![u] = n]
    /\ Tell(0, <<ChangeOf(0, u, n)>>)
    /\ UNCHANGED <<online, links, clientVars, upward, within, made>>

\* Someone invites us to a chat they are in, or make.
Invite(c, u) ==
    /\ ToldOnce
    /\ Me \in within[0] /\ u \in within[0]
    /\ u \in within[c] \/ c \notin made
    /\ made' = made \cup {c}
    /\ within' = [within EXCEPT ![c] = @ \cup {u}]
    /\ down' = Append(down, [op |-> "invite", cid |-> c])
    /\ UNCHANGED <<online, links, clientVars, upward, called>>

UserActs ==
    \/ \E op \in {"create", "createself"} : ChatUser(op)
    \/ \E c \in Cids : ChatJoin(c) \/ RejectChat(c) \/ CloseTab(c)

HostActs ==
    \/ Serve
    \/ \E u \in Others, c \in Cids \cup {0} : Arrive(c, u) \/ Depart(c, u)
    \/ \E u \in Others, c \in Cids : Invite(c, u)
    \/ \E u \in People, n \in Names : Rename(u, n)

RosterNext == Receive \/ UserActs \/ OpenLink \/ CloseLink \/ HostActs

RosterSpec == RosterInit /\ [][RosterNext]_rosterVars

-----------------------------------------------------------------------------
\* Every variable has its type; a list without a tab shows nobody.
RosterTypeOK ==
    /\ online \in BOOLEAN
    /\ \A c \in DOMAIN chats :
          /\ chats[c].members \in Listed /\ chats[c].rows \in Listed
          /\ ~chats[c].known => ~chats[c].open /\ chats[c].members = NoOne
          /\ ~chats[c].open => chats[c].rows = NoOne
    /\ chats[0].known /\ chats[0].open
    /\ \A j \in joins : j.trans < tnext /\ j.cid \in Cids /\ j.parted \in BOOLEAN
    /\ invites \subseteq Cids

Quiet == online /\ upward = <<>> /\ down = <<>>

\* Once nothing is on its way, the client's chats are the server's: a tab for
\* each chat we are in and no other, and in it, as in the list of users,
\* those who are there by the name they now have, however arrivals, renames,
\* joins and reconnects were ordered.  A chat whose tab has been closed on
\* this connection is left out: its members linger.
RostersAgree ==
    Quiet =>
        \A c \in DOMAIN chats : (c = 0 \/ shutAt[c] = 0) =>
            /\ chats[c].open <=> Me \in within[c]
            /\ chats[c].open => chats[c].members = Roll(within[c]) /\ chats[c].rows = chats[c].members

\* JOINS names the joins of this connection still to be answered and no
\* others: an old one would answer for a new connection's request.
JoinsAreInFlight ==
    {j.trans : j \in joins} =
        {upward[i].trans : i \in {k \in 1 .. Len(upward) : upward[k].op = "join"}}
        \cup {down[i].trans : i \in {k \in 1 .. Len(down) : down[k].op = "joined"}}
        \cup {down[i].trans : i \in {k \in 1 .. Len(down) :
                  down[k].op = "failed" /\ \E j \in joins : j.trans = down[k].trans}}

\* The answer to a join asked for before the user closed the chat's tab opens
\* no tab.
ClosedStaysClosed ==
    [][\A c \in Cids :
          /\ online' /\ down # <<>> /\ down' = Tail(down)
          /\ Head(down).op = "joined" /\ Head(down).cid = c /\ Head(down).trans < shutAt[c]
          => chats'[c] = chats[c]]_rosterVars

\* The chats follow the server: once it is quiet they show what it has, and the
\* joins remembered are the ones it owes an answer.
ChatsFollowServer == RostersAgree /\ JoinsAreInFlight
=============================================================================
