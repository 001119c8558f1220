# A TLA+ model of GtkHx

GtkHx is a GTK client for the Hotline protocol: chat, news, files and, over a
WebRTC extension, voice and video. This directory holds TLA+ modules for the
parts of it that are state machines with several actors, the TLC configurations
that check them on small instances, and TLAPS proofs of what matters most in
them. `PROJECT.json` maps every definition to the lines it was translated from,
and lists the hazards of the code with the properties that would catch them.

Paths below are relative to `src/rust/crates/`, and those of C files (`chat.c`,
`network.c`, ...) to `src/src/`.

| Part | Module | Proofs | Runs |
|---|---|---|---|
| voice session machine, `hxvoice` | `VoiceSession` | `VoiceProofs` | `client` |
| microphone token and push-to-talk, `gtkhx-ui` | `VoiceArbiter` | `VoiceProofs` | `client` |
| voice runtime, `hxvoice-runtime` | `VoiceRuntime` | `VoiceProofs` | `voice_runtime`, `voice_runtime_stall` |
| receive legs and frames, `hxvoice-runtime` | `ReceiveLegs` | `VoiceProofs` | `client` |
| image decode slots, `hx-image-decode` | `ImageDecode` | `WindowsProofs` | `voice_runtime` |
| file-transfer queue, `hxhandlers` | `TransferQueue` | `TransferQueueProofs` | `transfer_queue`, `transfer_queue_stall` |
| folder transfer workers, `hxnet`, `hxhandlers` | `FolderDownload`, `FolderUpload` | `FolderTransfersProofs` | `folder_transfers`, `folder_transfers_trust` |
| media preview's range reader, `gtkhx-ui` | `RangeReader` | `RangeReaderProofs` | `range_reader`, `range_reader_skip` |
| control channel, `hxtask`, `hxnet`, `hxbridge` | `ControlChannel`, implementing `Fifo` | `ControlChannelProofs` | `control_channel` |
| pinned certificates, `hxtls-trust` | `KnownHosts` | `ClientStateProofs` | `client` |
| settings file, `hxconfig`, `options.c` | `SettingsFile` | `ClientStateProofs` | `client` |
| public chat's history | `ChatHistory` | `ChatsAndFilesProofs` | `client` |
| chats and their members | `Roster` | `ChatsAndFilesProofs` | `client` |
| files window | `FileBrowser` | `ChatsAndFilesProofs` | `client`, `files_dialog` |
| threaded news window | `NewsBrowser` | `ClientStateProofs` | `client` |
| server banners | `Banner` | `WindowsProofs` | `client` |
| connections, tabs, Reconnect | `Connections` | `WindowsProofs` | `client`, `connections_focus` |
| tracker window and walk | `TrackerFetch` | `WindowsProofs` | `client` |

To run: `tlc -config MCClient.cfg MCClient`, and so on for each configuration;
`tlapm VoiceProofs.tla`, and so on for each module named in the third
column, for the proofs (`ControlChannelProofs` takes ten minutes, the others less).

## 1. Inventory

### How the program is put together

One GLib main loop runs the user interface and nearly all of the logic. Network
actors run on a tokio runtime and talk to the main loop through bounded channels
and completions posted to the main context. Transfer workers run on a thread
pool. GStreamer's webrtcbin and the media preview's pipeline run in threads of
their own. The concurrency is thus mostly of one kind: the main loop runs one
handler at a time to its end, and between any two handlers anything may have been
posted, timed out, closed or clicked. What a handler read before it returned may
be stale when its continuation runs. Three places really share memory or files:
the range reader's lock, the decode slots' mutex, and the files in the
configuration directory.

### Components

For each: its state, its operations, what makes it hard, when it is correct.

**Voice session machine** (`hxvoice/src/state.rs`). The session state, the room,
receive mids, publications, the receive set wanted and the one last sent, own
captures, generation counters, an offer that waits. One operation, `step(event)`,
which returns effects. A switch of rooms is one event that has to drop everything
of the old room; replies may be for requests that no longer matter. Correct when
no state of a room outlives it and no room is left without telling the server.

**Voice runtime** (`hxvoice-runtime/src/runtime.rs`). Timers, the wedge watchdog,
the last peer state, the negotiation's generation, the pipeline. It carries out
the machine's effects, runs what webrtcbin posts and fires timers. Promises cannot
be withdrawn, so a resolution may belong to an offer or a room already gone.
Correct when only current answers are sent, timers follow the session, and every
session that gets nowhere ends.

**Voice user interface** (`gtkhx-ui/src/voice_arbiter.rs`, `voice_panel.rs`,
`voice_ptt.rs`). One token for the application, and the pressed push-to-talk key.
A session fails by itself; "leave that call?" is answered much later. Correct when
the token names the one session in voice.

**Image decoding** (`hx-image-decode`). A count of decodes in flight and a queue
of waiters. A slot is handed over in two steps, and a future may be dropped at any
await. Correct when no slot leaks or idles and a cancelled decode never calls back.

**Transfer queue** (`hxhandlers/src/xfer.rs`, `recv/xfer.rs`). The list, and for
each transfer its pause, worker, request latch, retries, abort token, reference
count and folder progress. Everything interleaves, and the list moves on only
where some exit remembers to call `start_next`. Correct when a transfer is never
asked for twice, never freed early, and the queue never stops.

**Folder workers** (`hxnet/src/xfer.rs`, `htxf.rs`). A ledger of what was written
or sent, over pauses, cuts and restarts. The protocol has no end marker, servers
differ, and files change at both ends. Correct when a finished folder is whole, two
versions of a file are never joined, and every worker returns.

**Range reader** (`gtkhx-ui/src/media_preview`). A window of a remote file under a
lock, read by a streaming thread, filled by a worker per range and moved by the
main thread. Correct when each byte served is the file's, memory is bounded, and
reads return.

**Control channel** (`hxtask`, `hxnet/src/session.rs`, `hxbridge`, `tasks.c`).
Requests numbered and held until the login settles; an actor that reads, writes
and delivers; a bounded channel to the main loop. The connection outlives its
transports. Correct when both directions are FIFO, nothing of one transport
reaches the next, and each answer reaches its request.

**Stored files** (`hxtls-trust`, `hxconfig`, `hxbookmarks`). Read, changed and
renamed over, by several workers or processes, through kills and power loss.
Correct when only what the user approved is trusted and no file is lost or torn.

**Windows that ask the server** (history, chats, files, news, banner, tracker).
Rows, requests in flight, and a claim on the answers. Answers come late, in
another order, for a folder, window, chat or connection that is gone. Correct when
what is shown is what was asked last, once, and no window waits for nothing.

**Connections** (`session_registry.c`, `conn_tabs.rs`, `connect.rs`). The registry
with its focus, the tab strip, the panels, the close question, Reconnect. Four
copies of "which connection" are kept in step by the order of calls. Correct when
they agree and no connect costs a live connection.

**The rest**: frame builders and parsers, list models, resource and text
conversion, the update check, widgets and the C front end. Sequential, or pure
data. `PROJECT.json` lists each with the reason it is left out.

### Interactions

- The panels call the arbiter, then the runtime's join or leave; the runtime's
  state signal comes back to the panel, which releases the token.
- The runtime calls `step` and dispatches its effects. Frames go to the server
  through `hxtask`; descriptions to webrtcbin; timers to the main loop.
- Every window asks through `hxtask` and is answered through `recv/`, by the trans
  of its request. A disconnect tells each of them to forget what it asked.
- The transfer queue asks on the control connection; its workers (the folder
  workers among them) run on a pool and return through an idle; a disconnect
  sweeps them. The range reader asks as the queue does and has its own workers.
- Control connections, transfers and trackers all check certificates with
  `hxtls-trust`, each on its own thread.
- Focus changes in the registry repaint the banner row and move the panels.

## 2. The modules

An action is a whole handler. Request numbers, serials, versions and bytes are
small numbers whose identity shows where they came from, so that "the right one"
can be stated. Fields kept only for the properties are called histories.
A run checks a module's promises under one name each, a conjunction of named
parts: below, `Whole` (`PartA`, `PartB`).

### VoiceSession

Each field of `SessionMachine` is a variable, and each event an action, total in
the states as `step` is: an event no arm takes is `Ignored`. The effects an event
returns are the value of `out`, in order. UI signals are left out. An SDP is the
receive mids it names and the inactive ones among them. Generation counters wrap
at `GenMod` (2^32 in the code).

- `RoomsAreIsolated` (`RoomStateDiesWithRoom`, `QueuedOfferIsForThisRoom`),
  `SubscriptionsCurrent`, `EveryRoomIsLeft`. `SessionTypeOK` also says that every
  frame has a room: the `unwrap_or(0)` fallbacks, which would address the public
  chat, are never taken.
- Not covered: a JOIN refusal carries no room (`state.rs:1323`), so the refusal of
  a join the user has switched away from fails the new session. Nothing in the
  frame tells them apart; it takes a model of the server to say when it happens.

### VoiceRuntime

Extends `VoiceSession`; each action is an event of the machine with the dispatch
of what it returned (`Step`), as `handle_event` is. webrtcbin is external and is
modelled by what the runtime sees of it: a description is applied or refused, an
answer is made (perhaps after waiting for the senders' caps) or refused,
connection states are reported, and `posted` holds the closures not yet run, in
order. Closures that carry a generation are checked against `answerGen` when they
run; the connection report carries none, as in the code.

- `AnswersAreCurrent`; `RuntimeInStep` (`NegotiationsSerialised`,
  `TimersMatchSession`, `UnconnectedIsWatched`); liveness `SessionsGetSomewhere`
  (`JoinEnds`, `WedgedEnds`, `ConnectedIsNoticed`).
- Seen while modelling: a connection report of a pipeline already left is applied
  to the next one (`runtime.rs:3938`; its candidates likewise, 3438), and the
  media timer only toasts (`state.rs:1157`) where a comment calls it fatal
  (`state.rs:1114`).

### ReceiveLegs

webrtcbin's threads expose pads and take them back, and a leg (a bin) is built for
a pad by whichever thread routes it: the streaming thread, or the main thread for a
pad that was held because its RTP was ahead of its offer. What the threads do is
told to the main loop in `calls`, in order; idle sources (`releases`) run when
nothing else waits. `TearDownLegs` and `RebuildPipe` are the two halves of
`reset_and_rebuild_pipeline`, between which the old pipeline's threads still run.
The session machine is reduced to what legs depend on.

- `LegsAreTheSessions` (`LegsAreListed`, `EndedLegsGo`, `PicturesAreLive`,
  `StoppedIsNotRevived`).
- A click that joins a room, or switches to it, is taken to come after the offers of
  that room from an earlier stay have run (`NoOfferOf`). Without that a closure of an
  old pipeline can be listed in the next session, if such an offer is taken first: by a
  leave and a join, or by two switches there and back.
- Seen while modelling: the comment on `apply_stored_volume_to_bin` counts on the
  live setter once a leg's user is known, but `handle_level_message`
  (`runtime.rs:4181`) only fills the cache; and a pad routed by the streaming thread
  while the offer that makes its section inactive is queued gets a leg after the
  stop.

### VoiceArbiter

Of each connection's session its room and its mute; the token; the open questions;
the push-to-talk latch. A join is the whole of the panel's path. `SessionFails` is
a session that ends by itself, with the panel's reaction. `TokenIsTruth` (from
which `OneMicrophone` follows) and `ReleaseMutes`.

### ImageDecode

A decode is `none`, `spawned`, `waiting`, `decoding` or `done`; `granted` holds the
waiters whose slot is on its way; `due` the futures the main loop will poll. Every
exit is an action. A poll of a future that was not woken changes nothing and is
left out. `SlotsAreShared` (`SlotsAccounted`, `NoIdleSlot`, `WaitersAreKnown`),
`DecodesAreServed` (`ServesInOrder`, `CallsNoCancelled`), `EveryDecodeEnds`.

### TransferQueue

The handlers of `xfer.rs` call one another deeply, so each call is an operator from
the queue's state to the next, and a handler is their composition. A worker is
`run` until it returns, and then how it returned until its cleanup idle runs.
`disk` is what a resumed upload finds of its local files, and `full` whether a file's
bytes were all counted, by which a paused worker's return is settled. A `bigput` is an
upload too large to resume. Bytes, offsets, paths and the preview's window are left out, and so is the retry timer's `opt_retry` branch:
nothing in the program sets it.

- `OneHolderEach` (`RefsAreHolders`, `SweptWithConnection`, `OneRequestOrWorker`,
  `WorkersHaveLiveTokens`), `QueueMoves`,
  `QueueLeavesPauses`, `EveryTransferGoes`.
- `QueueMoves` makes an exception of a folder upload paused as changed, which
  `QueueNeverStops` does not: that is the finding of `transfer_queue_stall`.
- Not covered: a reply without a reference leaves the transfer asked for and
  heading the queue (`recv/xfer.rs:184`); a record of a request made on a
  connection that is closed already is left over (`send/files.rs:91`).

### FolderDownload, FolderUpload

One side of a folder's transfer each, from the request to the settled row, with
the server, the user and other programs as the environment. A block of a file is
the version it was read from and its place, so a local file shows what it was put
together from; a version stands for a modification date. The servers differ as
`docs/hotline-protocol.md` records: they resume or send the whole file, announce a
count, a size or nothing, end by closing or by silence (download), and treat an
existing folder as an error or not (upload). Making an entry's folder, opening its file
and writing to it may each fail. Resource forks, AEAD frames and TLS are left out, and
so are malformed entries (an empty, `..` or overlong name, `xfer.rs:1136`-`1171`): the
worker returns `EINVAL` or `ENAMETOOLONG`, nothing retries it, and the row goes as it
does for `TransferQueue`'s "fatal" outcome.

- `LedgerHolds` (`LedgerIsTruth`, `RefusedIsAskedWhole`), `EndIsTheEnd`
  (`FinishedIsWhole`, `GraceIsEarned`), `UploadIsWhole` (`NeverJoined`,
  `TakenIsMade`, `DoneIsWhole`); `WorkersEnd`, which is liveness of both
  (`WorkerEnds`, `UploadEnds`) and what a failure is told as
  (`StallIsToldOfAStall`).

### RangeReader

The streaming thread's `fetch`, a worker per range and the main thread's `Player`,
a step being what one thread does in one hold of the lock. Sizes are in chunks; a
byte is its position in the file. One fetch runs at a time: `GStreamer`'s stream
lock sees to it, and a flush ends once the fetch has returned. It is the streaming
thread's, or the main thread's when a demuxer reads while it seeks (`mod.rs:92`); the
main loop then runs nothing until it has returned (`MainRuns`). A worker that panics is
a state of its own, as the drain in `keep` can panic.

- `ServesTheFile` (`WindowIsFile`, `ServedBytesAreTheFile`, `BoundedMemory`);
  `StaleWorkersEnd`, `ReadReturns` (unless a worker panicked, or the read is on the
  main thread and its range has no worker yet), and `EveryReadReturns`, of the
  streaming thread's reads, which the code breaks.
- Seen while modelling: the second exception is real. The idle a restart asks from
  (`mod.rs:94`) and the server's answer both need the main loop, so a read on the main
  thread that restarts a range, or waits for one not granted yet, never returns. The
  comment there avoids a deadlock on the lock, not this one.

### ControlChannel, Fifo

One connection and the handles of its successive transports. Per handle: the
command channel, the actor's read, write and delivery sides over one session, its
event channel, the pump and the channel to the main loop. Main thread: what is
held until the login settles, the reserved trans, the records replies are matched
by. A send is atomic against the actor, destroying a handle aborts it at once, and
the agreement's dialog is part of the login settling (`Settle`). With one
connection the partition of the held requests by connection is not exercised. A
server may stop reading (`WriteStalls`): the write then waits without a timeout
(`session.rs:318`), and with it the commands and the session's clock. `Opened` clears
`post_login_fetched`, which the code does at the close before (`network.c:105`); no
`Ready` is handed on in between. The reason of a refused login, an event the main
thread only shows before the shutdown, is left out.

- `RequestsInOrder` and `EventsInOrder` are refinements: with the histories of
  what was asked and what reached the wire, and of what the session said and what
  the main loop was handed, `ControlChannel` implements `Fifo`, a set of channels
  that lose, reorder and mix nothing while open.
- `RepliesFindTheirRequest` (`AnswersTheirOwn`, `JoinedBeforeAsked`,
  `OneTransEach`); liveness `ActorFinishes`: `AskedGoesOut`, of a server that reads,
  and, of any server, `SaidIsHeard` and `EndedIsClosed`.
- Seen while modelling: the keep-alive goes through the writer that waits, so a server
  that stops reading but keeps its socket open is not noticed. The requests asked of
  it queue up until the command channel is full, and the next one closes the
  connection.

### KnownHosts

`decide` as run by every worker that meets a certificate WebPKI does not vouch
for: `lookup`, the host's other ports, the prompt, and a pin in three file
operations. The file is the set of its entries as the parser reads them; reads and
writes may fail; the test seams are unset. `survivors` is what a loss of power may
leave, at most `MaxUnsynced` versions. Writing a pin and reading it back is
`ReadBack`: `pin` joins host and port by a colon without brackets, and the parser
takes a field with several colons for a host, on every port, so the pin of an IPv6
address (`Literals`) comes back as another host (`ReadAs`).

- `TrustIsEarned` (`AcceptedIsApproved`, `OnePinEach`, `KnownHostsWhole`).
  `Stands` says for which hosts a trusted certificate may stand: those it was
  trusted for, and those that the pin of such an address reads as.
- Seen while modelling: the pin of an IPv6 address (`hxtls-trust/src/lib.rs:201`,
  against lines 71-74) never matches that address again, so its user is asked every
  time; it is never replaced; and it stands, on every port, for the address that
  happens to be spelt like it. The two properties say how far this reaches.
- Two pins at once can lose one of them, and the second read of `decide` may see
  another file than the first. Either only costs the user another question.

### SettingsFile

What a load makes of `gtkhx.toml`, the dirty flag, the debounced save, the flush at
exit, and the salvage, write, rename and sync of a save. Two clients may run (with
`--pass`, `gtkhx.c:2545`), the user may edit the file, a newer build may write it,
and kills and power loss may come between any two file operations. `alone`,
`found`, `saved`, `unsalvaged` and `warned` are histories.

- `SettingsAreKept` (`NewerIsKept`, `BadIsKept`, `ChangeIsPending`, `SavedSurvives`,
  `SettingsWhole`).
- The salvage's rename and the directory's sync may fail, and the code tells nobody
  (`hxconfig/src/lib.rs:348`, `atomic.rs:90`, a no-op off unix). So an unusable file
  is kept unless its salvage failed right before the save that went through
  (`unsalvaged`), and a save survives a loss of power once its directory was synced
  (`saved`). Seen while modelling: after a kill between the salvage and the rename the next start finds
  no file and imports an old `gtkhxrc`; two clients may overwrite one another's
  salvage.

### ChatHistory

The server's lines are numbered and a row is its line's number; rows are kept
above and below the divider the first batch puts in. The view outlives its
connections.

- `HistoryIsContinuous` (`NoGapNoRepeat`, `OlderWithinReach`). A view whose render
  state was not fresh when it was cleared (`carried`) is exempt.
- Seen while modelling: a page of older lines is not always put in their order
  (`chat.c:1041`, `1107`: rows 2, 3, 1); a connect zeroes
  `chat_history_last_msgid` (`network.c:374`), so the catch-up by message id is
  never taken.

### Roster

The members and rows of the public and the private chats against a server that
speaks and answers over two FIFO channels.

- `ChatsFollowServer` (`RostersAgree`, once nothing is on its way, and
  `JoinsAreInFlight`) and `ClosedStaysClosed`. A chat the user closed (`shutAt`) is
  exempt from `RostersAgree`.
- Seen while modelling: rejoining a closed private chat shows no tab and old
  members, and an arrival announced just after a close opens the tab again.

### FileBrowser

Two panes, a provider each, the listings in flight, the dialogs. Rows are
abstracted to the request whose answer they are; request numbers are used again
once answered. Dialogs are modal. A provider's claim on an answer and its watchdog
come and go together.

- `PanesAgree` (`RowsMatchPath`, `ShownIsNewest`, `WaitIsAnswerable`); `ActsOnWhatWasChosen`,
  which the code breaks.
- Seen while modelling: the reload after a finished transfer cancels a navigation
  in flight (`browser.rs:553`).

### NewsBrowser

A tree of one folder and one category with one article, the requests in flight, the
window's claims on the listings, and the article pane. Answers come in any order. A
node that left the tree is "gone" and an answer into it is lost.

- `NewsIsCurrent` (`TreeListedOnce`, `EmptyTreeIsAsked`, `FetchingIsAsked`,
  `ArticleShown`).
- Seen while modelling: a category refreshed twice, or a folder refreshed while its
  listing is in flight, gets the listing twice (`news_browser.rs:434`, though
  377-380 says otherwise); a refresh after a create may be suppressed or sent for a
  node out of the tree (`news_dialogs.rs:134`); a refused article says "Loading"
  until it is selected again.

### Banner

Each connection's message, attempt, workers with their generation, decodes and
image, and the one row. An image is the message it was sent for.

- `BannerInFront` (`RowIsFocused`, `ShownIsNewestBanner`), except where a message crossed the
  unanswered request for another (`banner.rs:492`). The exemption is never lifted,
  not even by a disconnect: after a crossing a decode can be left that nobody
  cancels, and whichever attempt runs when it reports takes its result, the next
  connection's included (TLC finds this once the flag is cleared there).
- Seen while modelling: finishing drops a running decode's handle without
  cancelling it; its late result is dropped, unless another attempt runs by then.

### Connections

The registry (serials oldest first, the focus an index into it), the tab strip, the
panels, each connection's status, Reconnect's target, the lost-connection banner
and the close question. The strip's order is left out: a neighbour is any other
tab. Handing a closed session to a connect (`toolbar.c:1138`, `1165`, the connect
dialog's `data`, the tracker window's session) is undefined and the model does not
go there.

- `ConnectionsAgree` (`TabsAreSessions`, `ClosingIsAsked`, `ReconnectGoesBack`),
  `LiveIsKept`; `ActiveIsSelected`, which the code breaks. `/server` in a chat
  (`commands.c:134`) takes the chat's connection elsewhere whatever its state, and
  so does Reconnect: `LiveIsKept` says that no other connect does. `byHand` is the
  history that tells a `/server` from the rest.
- Seen while modelling: the banner is not hidden on switching to another tab that
  is down, and a background connection's status is not recorded (`gtkutil.c:487`,
  `497`, `532`; `connect.rs:402`).

### TrackerFetch

The walk over the configured trackers on tokio, with its TLS ladder and verdicts;
the bounded channel, whose wake-ups coalesce; the drain on the main thread, one
poll at a time while the walk goes on; the window's sections with pending rows,
counts, search and flush idle; refresh, close and cancel; a panic in the walk. A
wake's exchange and its post are one step. An empty list of trackers is refused at
the open. Verdicts Ok and Unknown both try TLS and are
one. Closing a fetch aborts its walk, which stops it only where it waits: one blocked
in the trust prompt, or between two waits, goes on (`late`) and may store its
verdicts over those of newer walks (`LateStore`, `hxnet/src/ffi.rs:2936`). A fetch
may be closed during a drain, as `network.c:865` expects; a Refresh from within
one, which no subscriber makes, is left out. Refreshing after the asking tab closed
is undefined and is left out.

- `FetchIsShown`: a walk that waits for room has a drain coming (`WalkIsDrained`), and
  the window shows what came (`ListedOnce`, `CountsAreRows`, `PendingIsFlushed`,
  `SpinnerIsFetch`). `PlainOnlyAfterFailure`: a list is read in the clear only of a
  tracker whose handshake has failed, and failed last, unless a walk of a closed
  fetch has stored its verdicts since (`putBack`).
- Seen while modelling: that exception is real. A walk that saw a handshake fail is
  closed in the midst of a poll; the next walk has the same tracker's certificate
  rejected; the first one's store then puts its No back, and the walk after goes
  plain, although `tracker_fetch.rs:487` says never to downgrade past a rejection
  and `ffi.rs:2920` that a cancelled walk just loses its updates. The reopen for the older protocol tries TLS again, and a
  failure there falls back to plain text and records No, although
  `tracker_fetch.rs:279` says that the verdict is settled by then. A silent tracker
  holds the walk up: listing reads have no timeout.

### Compositions and sums

`VoiceRuntime` composes with `VoiceSession` by extending it, and `ControlChannel`
holds sender, actor, bridge and matching together. The other modules meet at
requests and answers, which each takes as inputs. `MCClient`, `MCVoiceRuntime` and
`MCFolderTransfers` put several modules in one run: `part` (or `side`) is chosen at
the start and says which of them moves. They share no variable, so their states add
up and each property is checked of its part as it would be alone.

## 3. The runs

| Run | Instance | Shows |
|---|---|---|
| `client` | 12 parts, below; 1.1 million states | the safety properties of each part |
| `voice_runtime` | 2 rooms, 2 offers, 2 negotiations, 2 closures; 4 decodes over 2 slots | the runtime's safety and liveness; the slots and that every decode ends |
| `voice_runtime_stall` | the same | violated: an offer webrtcbin refuses is never given up |
| `transfer_queue` | groups of 3, 2, 2 and 2 transfers of all kinds, 2 connections | the queue's safety; in a fair queue of two, each gets its turn |
| `transfer_queue_stall` | folder upload and preview | violated: a changed folder upload stops the queue |
| `range_reader` | 7 chunks, 4 ranges, 2 reads, 1 fault | bytes, memory, stale workers, reads within reach |
| `range_reader_skip` | the same | violated: a read past what is kept panics the worker |
| `control_channel` | 2 transports, 2 requests, channels of 2 and 1 | refinement of `Fifo`, matching, the login gate |
| `folder_transfers` | 2 files, folders between and above them, 2-3 versions, all server styles | ledgers, wholeness, and that workers end |
| `folder_transfers_trust` | the same | violated: a file that would not open is taken for its own |
| `files_dialog` | the `client` instance | violated: a dialog acts in another folder than it opened in |
| `connections_focus` | the `client` instance | violated: the focus is not on the selected tab |

The parts of `client`: the session machine (2 rooms, 1 user, 1 camera, 1 leg), the
microphone (3 connections, 2 rooms), known hosts (2 workers, a host, an
address and the one its pin reads as), settings (2 clients), history (pages of 2 of 7 lines, 2 logins),
chats (1 other user, who acts twice, 1 private chat, 2 logins, 4 requests), files (2 folders, 2 requests), news
(1 folder, 1 category, 1 article, 3 requests), banners (2 connections, 3 messages),
connections (3), the tracker window (one tracker configured twice, listings of up to
2, 3 fetches, one walk that goes on after its fetch was closed) and the receive legs
(2 rooms, one section with 2 streams, 2 pads a pipeline, 2 pipelines, 2 offers, 2
calls waiting). Its `VIEW` tells states apart by the moving part's variables alone, and
takes the two workers of known hosts, and the two clients of the settings, for each
other: nothing in their modules orders them.

### Bounds

- Two rooms give every switch; the machine remembers only the room it is in, and
  the proofs cover any number. Two offers, with and without an inactive leg, tell
  every branch apart. `GenMod` is 2, so counters wrap (in `voice_runtime`, which has
  no video, nothing counts).
- Two negotiations let a promise of the first meet the second, and two closures a
  report of one pipeline wait behind another's.
- Four decodes and two slots: two running and two queued. The proofs cover any
  number of either. `MAX_IN_FLIGHT` is 4 in the code.
- `QueueTries` and `AgainTries` are 1 (5 and 8 in the code): the limit is reached,
  and the code only compares with it. Three transfers: one at the head, one moved
  past it, one behind.
- `RangeReader`'s constants keep the order of the code's (`SKIP_AHEAD` above
  `BEHIND`, a file longer than window and skip together).
- Two transports and channels of one or two: a full channel at every hop, and what
  is left of one transport while the next is up.
- Files of at most two blocks and three versions (the last empty): a cut inside a
  file, a change while paused, a file that becomes empty.
- Two workers on `known_hosts`, two clients on the settings: a third adds an
  interleaving of the same pairs, and the proofs cover any number. The settings start
  with an older file, or with none but an old `gtkhxrc` to import.
- Three connections: the focus slips only with three tabs.
- `MaxListing` is 2 and the channel has room for two more, as `TRACKER_EVENT_ROOM`
  has: the channel fills up with the second visit's events. Three fetches let the
  first one's walk put back what the second disproved, for the third to use; during
  that third one the search and the asking session stay as they are. The
  window has one tracker's section in this instance, any number in the proofs.
- Each `Max...` constant of a module is such a bound; the guards that use it stop
  the environment, never the client.

### Deadlock

Checked in `client` and the voice runs, where a part that has come to its bound, or
to the end of its decodes, rests explicitly. The other modules stop where the
system does: transfers all done, application closed, connection over.

### Fairness

- `VoiceRuntime`: the main loop runs what is posted and pending, armed timers
  fire, webrtcbin resolves each promise one way or the other, and senders' caps
  arrive. Nothing is assumed of the user, the server or the network.
- `ImageDecode`: the main loop polls what was woken, and the deadline's timer
  fires. Nothing is assumed of the loader.
- `TransferQueue`, for the pair of `EveryTransferGoes` only: the main loop runs
  idles and timers, servers answer, workers return. Without the last two the
  property is false of any client, as there is no transfer timeout. The user may
  do anything.
- `RangeReader`: every thread runs, the main loop runs what it was handed while the
  main thread is not itself in a read, an aborted read ends, and a live server answers, moves its queue and sends what it
  granted to the range being read. A preview of a server that says nothing waits.
- `ControlChannel`: the runtime and the main loop run what is ready. A write is ready
  while its server reads, which it may stop for ever (`WriteStalls`, with no fairness);
  nothing else is assumed of the server, and nothing of the user.
- `FolderDownload`: the worker runs, its timeouts fire, its return is settled.
- `FolderUpload`: threads run, the server answers the request and reads what it is
  sent, and the user starts a paused upload again: `UploadEnds` is about what then
  keeps it from ending. `FolderDownload` asks nothing of the server or the user.

`client` assumes no fairness: its properties are of safety.

## 4. What is proved

The theorems hold for every value of the constants that satisfies the named
assumptions: `None` and `Nobody` are not rooms or tokens, the client's own id is a
user, an SDP's inactive mids are among its mids, counters have at least one value,
there is at least one slot, ports are not the wildcard, and the files a behaviour
starts from have at most one entry for each host and port. Sets of rooms, users,
connections, decodes and checks may be infinite. Of the other modules: a channel
has at least one place and a request is of a known kind (`ControlChannel`); a page
of history has at least one line (`ChatHistory`); the root is a folder and every
other folder has one above it (`FileBrowser`); the client is not one of the others,
users have names and the public chat is not a private one (`Roster`); there is at least one session
(`Connections`); a tracker's listing has at most `MaxListing` servers, an empty
search shows all of them (`TrackerFetch`); the reads a demuxer makes have a longest
one, a read's length being bounded (`RangeReader`); every file served is in the tree
served, and no file is named as a folder (`FolderDownload`); an item of a local tree is
there once, after what it lies in, and a file has a version (`FolderUpload`, from the
order in which `collect_put_entries` walks); a transfer has a connection, a kind and the
replies its server may give, and the bounds on tries are numbers (`TransferQueue`); each stream has one section, and an offer's
streams and sections are among them (`ReceiveLegs`); and the `Max...` bounds are numbers,
of which nothing more is used.

**VoiceSession.** `SessionInv` is the type, `RoomStateDiesWithRoom`,
`QueuedOfferIsForThisRoom` and `SubscriptionsCurrent`; none of the last three is
inductive alone. The queue is drained into the right room because a failed session
has none; the receive set is current after the first offer because it was empty
before it; frames are well typed because a session in voice has a room. There is
one lemma for each event that changes something. `EveryRoomIsLeft` follows: only a
switch, a leave and a failure change the room. `RoomsIsolated` is a part of it.

**VoiceRuntime.** `RuntimeInv` builds on `SessionInv`: every dispatch is a step of the
machine, so its lemmas are reused. `OneStage` says that the negotiation of the last
number is in one place, a promise of webrtcbin, a closure of the main context or the
wait for caps. What is of an older number may be anywhere, and the number tells it
apart; but a teardown gives no new number, so what is left of the last one is of the
room there is only while its offer is answered (`InForce`, under `OfferPending`).
Besides, an offer that waits still fits the bound on numbers, the timers follow from
the effects in the order they are run (`TimersMatchSession`), and a session that never
connected is watched, or is torn down, or has its report queued (`WatchOK`).
`RuntimeIsInStep` and, with what the step sends, `AnswersAreAlwaysCurrent` follow.

**ReceiveLegs.** `LegsAreTheSessions` needs eight more conjuncts (`LegsInv`). A name is
one pad's among all that is in play in the pipeline (`NamesOK`), which lets
`receive_bins` be keyed by it; a pad is routed once, being held, let go or told of, never
two of these (`RouteOK`); a release of an earlier session is known by its generation, and
one of this session is of this pipeline (`GenOK`); a pad that was told of and taken back
has its removal behind the call that told of it (`OrderOK`). The closures of an earlier
pipeline carry nothing to tell them by: they are harmless because they run before the
offer that lets the next pipeline be heard (`StaleOK`), for the old threads have ended
before that offer comes. `LegsAreAlwaysTheSessions` follows. The proof showed that the
assumption on clicks, which was made of Join only, is needed of a switch as well: with a
third pipeline, two switches there and back meet the old room's offer.

**VoiceArbiter.** `IInv` adds to the type and `TokenIsTruth` that a session in a
room has its connection and its runtime. It is needed because a switch gives up
the token first: if the join that follows could fail, the token would name nobody
while the session stayed. `SingleMicrophone` and `PushToTalkCloses` follow.

**ImageDecode.** `DecodeInv` is the type, the finiteness of the set of holders,
`SlotsAccounted`, `NoIdleSlot` and `WaitersAreKnown`. The count is right because a
slot passed on goes to a waiter that did not hold one, which is the part of
`WaitersAreKnown` that says the queue has no duplicates and no granted waiter.
`CancelSilences` needs a second invariant, that only a decode that was spawned has
a token to cancel; `HandedOnInOrder` uses the uniqueness of queue entries.
`SlotsShared` and `DecodesServed` put the parts together.

**KnownHosts.** `HostsInv` says, besides the type, that the file and all that a loss
of power may leave of it are whole and good (each entry stands for its host, and but
for misread addresses there is one for each host and port), and that every check is sound: what it has built but not yet
published is good, what it is about to accept is approved, and what it has written
is synced. Soundness is what two workers at once need: the later rename publishes a
file built from a stale read, which has to be good as it stands. `ReadBackStands` is
the lemma on the conversion: what stands for an address stands for what its pin
reads as, a closure because that may be the address of a further pin. `ApprovedOnly`,
`OnePin`, `NeverTorn` and, for the three together, `TrustEarned` follow.

**ControlChannel.** `ChannelInv` has five parts. `ConnPart`: the open handle is the
one whose actor lives. `EventsPart`: what is on its way in (the bridge's ferry, the
channel, an event in hand on either side of the actor, the session's own queue) goes
on where what was heard ends. `RequestsPart`: what was asked is what was written,
what the session holds, what is in the channel and what is held back, in this order.
`TransPart`: no two requests of a connect share a number. `RecordsPart`: a record is
of a request of this connect, or of one that no reply of it can meet. The property
speaks of the main thread only; what makes it true is where a frame is in between.
`RecordsPart` needs its second half because a banner's record outlives its
connection, and the numbers start again. `RequestsRefineFifo` and `EventsRefineFifo`
show that each handle's two directions implement `Fifo`, with a step of `Fifo` or a
stutter for each action; a write that stalls is a stutter. A handler of the main thread calls others that close or
reopen the connection on the way, so the lemmas are about the records handed from
one call to the next.

**SettingsFile.** `SettingsInv` says for each running client where the file it could
not use is, by how far its save has come: in place, or moved aside before anything
is written, or in place still when that failed, until the rename writes over it. "Moved aside" is only the client's own doing as long as no other process
wrote, which is what `alone` records. A crash may leave only whole files because the
file that is renamed was synced first.

**NewsBrowser.** `NewsInv` adds that a request's number is of one request, that a
claim on an answer is on a request in flight, and that at most one root listing is
claimed and only while the tree is empty. Without the last a refused listing and its
retry could both fill the tree.

**ChatHistory.** `HistoryInv` is about a view that no earlier connection's state was
carried into: the rows are the lines from the oldest on, each once (`Covers`), and
at most one page is on its way, the first one or the one before the oldest row. That
the answer is joined to the rows without a gap follows from the cursor of the
request, which only the answer can move.

**FileBrowser.** `FilesInv` says that a provider has one place for an answer, under a
number of its own, asked for after its last change; that a pane of a connection
without a login shows nothing; and that a provider that waits has a place. The second
is why a dialog answered across a reconnect leaves nothing out of date.

**Roster.** `RosterInv` says that a number is one request's, on its way up or down
(`Numbered`); that a join is remembered exactly while it is on its way (`Owed`); and
that one asked for before its chat was closed is marked. `ClosedChatsStayClosed` is
the action property, `JoinsAreAlwaysInFlight` the part of `ChatsFollowServer` about
the memory of joins. The other part, `RostersAgree`, speaks of the states with nothing on
its way only, so `FollowInv` says what holds before: there is a replay of the messages
on their way to the client, one state of the chats for each (`Follows`), that starts from
what is shown and ends in what the server has (`Agrees`), for every chat whose tab was
not closed. A step of the server adds a message to the end and must carry what agrees
with the server to what agrees with it afterwards (`Carries`), the client's step takes
the first, and `TakesMessage` says that the handlers do what the replay says. Three more
facts are needed: until the list has come the public chat may lack users, so a rename
could miss one, but we are in no private chat by then (`Asking`); a request to leave is
of a chat that was closed (`UpOK`); and so is a join that is marked (`JoinsMarked`).
`ChatsAlwaysFollowServer` follows.

**Banner.** `BannerInv` says of every connection whose banner messages did not cross
that its image is of the newest message or none, and that its attempt is in one stage
(fetching, asked, transferring, decoding), each excluding the others; a generation is
given to one worker. The stages are needed because a completion is matched by a
generation or a URL and by nothing else.

**Connections.** `ConnectionsInv` says that the registry lists a session once, that
the tabs are its sessions, that the focus is in range, and that a session closed or
never opened has no connection. `ConnectionsAlwaysAgree` and `LiveConnectionsAreKept`
follow; the focus itself may be wrong (finding `connections_focus`).

**TrackerFetch.** `TrackerInv` joins the verdicts (every tracker the walk or the
process knows to be plain failed a handshake once, and its last one unless it was put
back by a walk of a closed fetch), the drain (without one running
or coming, the channel has room for what the walk still has of one tracker) and the
window (rows and queue of a section are its servers, each once, and a queue that is
not empty has a splice coming). `PlainIsAfterFailure` is the property of the run,
`FetchIsAlwaysShown` the whole of `FetchIsShown`: for its counts, kept by adding and
subtracting, `CountsInv` says that they are the number of places in the stores of finitely
many sections and of those that match. A section made empty takes its own places and no
others (`EmptiedList`), and a splice adds as many as waited, by a bijection onto the places
behind the old rows (`SplicedLists`).

**RangeReader.** `ReaderInv` says that the worker of the current range, and no other,
adds to the window, and where the window ends; that a range between its request and
its worker has one place and a number of its own, and that until it has its worker
nothing of it was read; and that the length was told before anything but the start
is asked for. The window then holds the file's bytes whatever order restarts, late
workers, retries and refusals come in. The bound on the memory needs a bound on what
a read waits for, `waiting_to`: not further past what the player has taken than the
longest read and `BACK_OFF`. `ReaderServesTheFile` follows.

**FolderDownload.** `DownInv` says what the ledger's entry of a file says of the file on
disk (`LedgerOK`), and, of the one file in hand, by how far the worker is with it, how the
disk runs ahead of its entry (`HandOK`). An edit from outside, a file that could not be
opened and an empty file of another program's name are told apart by the history
variables of the model. `LedgerAlwaysHolds` follows. For `EndIsAlwaysTheEnd`, of the
entries served all files but the one in hand have arrived (`EndOK`), and the bytes counted
for them, held or sent, are never more than theirs (`CountOK`); so a size that is reached
leaves only empty files. The sum is a recursive function over the tree, and what is said
of it is proved by an induction stated for sets (`NatInductionSet`: a set with zero and
closed under successor has all numbers), since the library's induction theorems take an
operator. `StallsAreToldTruly` is the action property in `WorkersEnd`.

`CountOK` is what the proof taught about the model: an empty file is not opened, so one of
the name of another program's file counts with that file's bytes, and in a tree of three
files the grace came early. `GraceIsEarned` now leaves such a file out.

**FolderUpload.** `UpInv` says that what lies behind the worker in the tree the server
has, but for the last item while it is on its way (`BehindOK`), and what may be on the
connection at each point of the worker (`WireOK`, `PlaceOK`). A server that closes at an
item, and did not stray, then has all the item lies in, for that lies before it in the
tree; so it closed because the item is a folder it has, which is what `ended` concludes.
Blocks are of the version the ledger says was sent (`BlocksOK`), unless the ledger was
dropped while the server held the file. The invariant does not ask the server to be
honest in anything the property does not: once it strayed, only `NeverJoined` is left.
`UploadIsAlwaysWhole` follows.

**TransferQueue.** `QueueInv` is about one row at a time: a row that is right (`RowOK`)
has one request or one worker and none before its latch is set, a pause that agrees with
them, a timer for no more than the tries counted, and a used token only if it is
cancelled, winding down or done with. Besides, every reference is owed to a holder
(`Owed` is zero), a row that was not made is as it was at the start, and the queue moves
(`Moves`). A handler is a composition of calls, so each call has a lemma (`Call`): the
queue it leaves is right and moves, only the row it is about has changed, but for what
`start_next` asked for (`Frame`), and no row owes other than it did (`Even`). A reply, a
cleanup and a retry take a holder away first and let go of it last; between the two the
row owes one (`TakenFits`). The sweep of a closing connection is a recursive function
over the list, whose value is got by an induction stated for a set of numbers: each
deletion may start what is deleted next, and what is started is listed, so it is swept
or is of another connection. `Moves` is an invariant of its own because every call that
takes the one on its way out of the list, or pauses it, ends in `start_next`; the
exception is the one `QueueMoves` names. `HoldersAreAlwaysKnown`, `QueueAlwaysMoves` and
`QueueAlwaysLeavesPauses` follow; the last needs that a row with a request or a worker
is not paused, so that no reply and no cleanup is about a paused one.

**Only model-checked.** All liveness, which is out of the prover's reach, as is
anything that needs `ENABLED`. `PartsTypeOK`, the types of all the modules in `client`:
it is a conjunction over the parts of an instance, of which no module but `MCClient`
knows, and the inductive invariants above hold the types their proofs need.

## 5. Findings

- `voice_runtime_stall`: when webrtcbin refuses a description or an answer nothing
  is posted. The comments count on the `JoinReply` timer, which was cancelled when
  the offer was taken, and no other timer acts in `OfferPending`: the session stays
  there until the user leaves.
- `transfer_queue_stall`: a folder upload that asks to be started again and finds
  its files changed is paused without `start_next`; what waits behind it waits for
  the user.
- `range_reader_skip`: a read may land `SKIP_AHEAD` past the window, but `keep`
  then drains more than the window holds; the worker panics with its range still
  active, and the read waits for ever.
- `folder_transfers_trust`: the description of a file is noted before the local
  file is opened; when the open fails the ledger vouches for a file that is another
  program's, and a resume joins the two.
- `files_dialog`: Delete, Rename and Move look their names up in the folder shown
  when the dialog is answered, which a listing in flight or a reconnect may have
  changed since it opened.
- `connections_focus`: the registry's focus is an index, and removing a session
  before it leaves it on the next one. Until a tab is selected, Disconnect, a
  bookmark, a tracker row and Reconnect act on a connection that is not the one on
  screen; Reconnect may replace a live one.

The points under "seen while modelling" above are of the same kind, without a run.

## 6. What is not modelled

- Media: GStreamer elements, caps, devices, codecs and the runtime's captures,
  volumes and candidates. The video panel's tiles and subscriptions.
- Servers, except where a module needs one (`Roster`, `FolderDownload`,
  `FolderUpload`, `RangeReader`). The voice machine is checked against any sequence
  of server events, which includes what no server would send.
- Making a connection: DNS, sockets, TLS, HOPE and the login's handshake. Their
  outcome is an input of `ControlChannel`.
- Frames, text, resource and file formats: data without state.
- The bookmarks file, written whole from the main thread without a sync and to a
  fixed temporary name (`hxconfig/src/atomic.rs:5` says so); the hazard is listed.
- Icons, accounts, inline media and flat news: a frame in, a signal out. Private
  messages and friends keep state of their own (presence, messages held back,
  receipts), which is not modelled either.
- Widgets, and the C front end but for the handlers the modules name.

Much of the repository is of these kinds, so the map covers a minority of its
lines: encoders and their C shims, GStreamer and GTK calls, tests, and parsers have
no state for a model to explore.

## 7. Plan

1. `VoiceRoom`: the machine against a server that answers in order, with replies
   tied to requests, for the refusal without a room.
2. `VoiceRuntime`: candidates and receive legs with the pipeline they come from,
   captures and their start failures; the video panel's subscriptions.
3. `VoiceArbiter` composed with one `VoiceSession` for each connection.
