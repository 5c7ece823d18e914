# A verification project for schoolHelper

schoolHelper (`src/wer2`) is an iOS app for a school. Its first tab is a notice
board: a news feed that every user reads, and on which users with the role
*Master* publish and delete posts. Its second tab is an account page with a sign-in
sheet. (A timetable exists as code and scenes, but nothing leads to it.) The app keeps no state of its own on disk:
posts and users' data are documents in Cloud Firestore, users are accounts
of Firebase Auth, and both are reached through the client libraries under
`src/wer2/Pods`.

What makes such a small program hard is that it is all callbacks. Every read is
answered later, on the main queue, possibly from a stale cache, possibly when the
page that asked has been left, and always after other things have happened; every
write is queued, shown at once on the device that wrote it, and applied by the
backend some time later, perhaps twice.

The project models the app - the notice board, the feed's screen, the account
pages - and the Firestore client below it, first by the promises the app relies on
and then by the machinery that keeps them: the upload of writes, the watch of
queries, and the two threads around gRPC's completion queue. It checks the models
on small instances with TLC and proves the main safety properties with TLAPS for
every size.


## 1. Inventory

Each part with its state, its operations, whom it talks to, what is hard about
it, and what makes it correct. `V` is `wer2/wer2/ViewController`, `F` is
`wer2/Pods/FirebaseFirestore/Firestore/core/src/firebase/firestore`.

| Part | State | Operations | Interacts with |
|---|---|---|---|
| News feed (`V/MainViewController.swift`, `Model/PostModel.swift`, `View/TableViewCell.swift`) | `taskArray`, the table view's row count and `isHidden`, the half-second timer, the flag `Master`, the button's `isEnabled` | `viewDidLoad`, `viewWillAppear`, `viewWillDisappear`, `updateTimer` (= `update`, `fetchyData`, reload), the three table callbacks, `NewPostButton` | reads `Post` and `Users/<uid>`; opens the two pages |
| New-post page (`V/NewPostViewController.swift`) | the two text fields | `SaveButPress`, `saveTask`, `closeWindow` | reads `Post`, writes `Post/<name>` |
| Post page (`V/PostViewController.swift`) | `currentPost` (a text), `NameLabel`, the delete button | `viewDidLoad`, `Delete` | reads `Post`, deletes `Post/<label>` |
| Firestore client, as the app sees it (`F`) | remote-document cache and mutation queue (persistent), listeners | `getDocuments`, `setData`, `delete`, remote events, write responses | backend, main queue |
| - its upload of writes (`F/remote/remote_store.cc`, `stream.cc`, `write_stream.cc`, `F/local/leveldb_mutation_queue.cc`, `F/core/sync_engine.mm`) | a queue of batches per user, the pipeline, the write stream, its timers and token, callbacks | write, fill the pipeline, handshake, answer, close, backoff, idle, network on and off, change of user, restart | local store, Auth, gRPC |
| - its watch of queries (`F/remote/remote_event.cc`, `online_state_tracker.cc`, `watch_stream.cc`, `F/local/local_store.cc`, `F/core/view.cc`) | targets, the aggregator's states, cached documents and keys, resume tokens, views, documents in limbo, online state | listen, unlisten, snapshot, count mismatch, target error, reconnect, restart | local store, views, gRPC |
| - its calls of gRPC (`F/remote/grpc_stream.cc`, `grpc_completion.cc`, `grpc_connection.cc`, `datastore.cc`) | completions, buffered writes, active calls, gRPC's queue, the worker queue | start, read, write, last write, finish, cancel, poll, network change | two threads, gRPC |
| Profile page (`V/ProfileViewController.swift`) | `signup`, labels, buttons | auth listener, read of the account, sign-out | Auth, `Users/<uid>` |
| Sign-in sheet (`V/AuthViewController.swift`) | `singup`, four fields | toggle, return key: register or sign in | Auth, writes `Users/<uid>` |
| Firebase Auth client (`Pods/FirebaseAuth`) | current user (key chain), listeners | create user, sign in, sign out | keychain, backend |
| Firestore's credentials provider (`F/auth/firebase_credentials_provider_apple.mm`) | the user Firestore knows | notification | Auth, write queues |
| Timetable pages (`V/TimeTableViewController.swift`, `V/TableViewController.swift`, `Model/TimeTableModel.swift`) | `taskArray`, `lessonArray`, timer | timer, table callbacks | reads `TimeTable`, `Post` |
| Delegates, Core Data stack, `ViewControllerMain` | none of the program's own | launch | - |
| Other pods | - | - | - |

What is hard, and what it takes to be correct:

- **Feed.** Ticks read every half second without waiting for answers; the array
  changes when an answer comes, the table view only when the next tick reloads it,
  so a row may be drawn or tapped that the array no longer has. The role is read
  when the feed appears and answered whenever. *Correct*: a feed left on the screen
  comes to hold and show the backend's posts; it never goes back to an older board;
  the button agrees with the role, the role with the user.
- **New-post page.** `saveTask` reads the whole collection and writes *from
  inside its loop* over the answer: once for every post with another name. It takes
  the fields as they are when the answer comes. *Correct*: what is stored under a
  name is a post of that name that the user typed; each press is answered; the
  repeated writes never bring back what was replaced or deleted.
- **Post page.** It finds its post by text, and deletes by the name its label
  shows. *Correct*: the label shows a name that has had that text.
- **Firestore client.** Writes are at-least-once, in order; a read returns the
  cache overlaid with pending writes. *Correct*: an acknowledgement always has a
  pending write (asserted in `remote_store.cc`) and is invisible; the cache and the
  queue survive the process.
- **Upload of writes.** The pipeline is refilled, and its stream started, from half a
  dozen places; answers are matched to batches by order alone; the stream asks Auth
  for a token on one queue and gets it on another, while the user may change; batch
  ids are used again. *Correct*: writes leave in order, each under its own user's
  name; each is settled once, as the backend answered; none is forgotten.
- **Watch of queries.** Messages about targets that were left, reset or watched anew
  still arrive and are told apart by counting; a count that does not match, a broken
  stream, a server that is behind and a resume token older than what is beside it
  may follow each other. *Correct*: what is said to be synced is a state of the
  backend; the cache never gets older; whatever is listened to is wanted; whoever
  listens comes to be current, and synced, but for the cases section 3 names.
- **Calls of gRPC.** A stream may be destroyed only when gRPC has handed back all its
  operations, so the worker queue cancels them and blocks until the polling thread
  has taken them off gRPC's queue; their callbacks may be on the worker queue by
  then. *Correct*: nothing outlives the stream; nobody waits for ever; gRPC is used
  as it asks to be, except that a write can be started beside the finish of a call
  that has ended (section 3).
- **Account pages.** Registration is two steps (account, then document) that can
  fail apart; the answer about an account may come after it has signed out. Auth
  changes its user on a queue of its own, and page and Firestore hear of it later,
  in different ways. *Correct*: documents and accounts belong together; the page
  agrees with Auth once it has caught up; an account's document is queued once, so
  that a promotion is taken back only by a registration's write sent again after
  its acknowledgement got lost.
- **Timetable.** Not reachable: the tab bar of `Main.storyboard` (lines 535-547)
  holds the feed's and the profile's controllers only, and the timetable's scene has
  neither an identifier nor a segue from them. For whoever connects it: the table has
  always four rows, `didSelectRowAt` indexes the array of classes without the check
  `cellForRowAt` makes, and the second page has no rows, because the array it counts
  is never filled (its index `DayOfWeek[numberOfSections]` is one past the end).

The individual hazards, each at its line and with the properties that watch over
it, are the list `hazards` in `PROJECT.json`.


## 2. Modules

| Module | Models | Uses |
|---|---|---|
| `Firestore` | one collection of the client library on several devices, and the backend | - |
| `PostBoard` | the board: feed, new-post page and post page of every device, taps, answers, crashes | `INSTANCE Firestore` |
| `BoardHistory` | the same with a record of what users have asked for (never restricts a step) | `PostBoard` |
| `PostFeed` | the feed's screen on one device: timer, array, table view, role, button, traps | - |
| `Account` | the profile page, the sign-in sheet, Auth's current user, the documents of `Users` and each user's write queue, on one phone | - |
| `WriteContract` | what the client promises about users' writes | - |
| `WritePipeline` | how it keeps that: queues of batches, pipeline, write stream, timers, tokens, users, restarts | `INSTANCE WriteContract` |
| `WatchTargets` | how it follows queries: targets, watch stream, aggregator, local store, views, limbo, online state | - |
| `GrpcStreams` | gRPC's operations under both streams, the completion queue and its polling thread | - |
| `MCPostBoard`, `MCBoardHistory`, `MCPostFeed`, `MCAccount`, `MCWritePipeline`, `MCWatchTargets`, `MCGrpcStreams` | instances for TLC | the above |
| `PostBoardProofs` | types and the write pipeline; posts and their names; the empty board; the local view and acknowledgements | `PostBoard` |
| `BoardHistoryProofs` | the last word; what is shown was published | `BoardHistory`, `PostBoardProofs` |
| `AccountProofs` | types, documents and promotions of the accounts; the profile page | `Account` |
| `PostFeedProofs` | types, order of answers, traps and roles of the feed | `PostFeed` |
| `WritePipelineProofs` | assertions, pipeline, answers, credentials and tokens of the write stream | `WritePipeline` |
| `WriteContractProofs` | the contract, completion handlers and waits | `WritePipelineProofs` |
| `GrpcStreamsProofs` | the calls of gRPC and the life of completions | `GrpcStreams` |
| `WatchInvariants` | the types and the inductive invariants of the watched targets | `WatchTargets` |
| `WatchTargetsProofs` | assertions about the watched targets; what is listened to is what is wanted; the cache never goes back; limbo documents are resolved | `WatchInvariants` |

### Firestore

`server` is the collection in the backend. Per device: `cache` (the remote-document
cache), `queue` (the mutation queue), `sent` (how many of the queue's writes the
backend has applied), `fresh` (how many of those the cache already contains, which
is what the version comparison of `LocalStore::ApplyBatchResult` decides), `gets`
(reads without answer) and `inbox` (answers waiting on the main queue).

`Overlay` is latency compensation (`LocalDocumentsView`): of the pending writes to
a key the last wins. `ApplyRemoteEvent`, `AnswerOffline` and
`HandleRejectedListen` are the three ways a `getDocuments` call can be answered: by
a synced snapshot, from the cache when the client takes itself to be offline, or
with an error. All reads of the board are the same query, hence one listener entry
whose waiting listeners are answered by one snapshot (`RaiseSnapshot`).
`CommitNext`, `HandleSuccessfulWrite`, `HandleRejectedWrite` and
`OnWriteStreamClose` are the write stream; after a close everything not
acknowledged is sent again, although the backend may have applied it.

Abstractions: the client's worker queue runs the calls of the app in order and
reports to the main queue, so a call and its work on the worker queue are one
step. The snapshot of a listen is the backend's collection at the moment it is
raised; that it may be old when the app sees it is the `inbox`. Documents in
limbo are in `WatchTargets`; transactions and cache garbage collection are left out; the board's phones
have one user each, and the write queues of several users are in `Account`.

### PostBoard

A device shows its feed or one page pushed over it (`screen`). One step is one
handler: a tap, a tick, one callback, or one step of client or backend. Keyboard
input is `EditName` and `EditText`; `SaveButPress` issues the read; `SaveTask`,
`SaveNothing` and `SaveCrash` are the three outcomes of its callback: it writes
`Writes(d)` copies (the loop of `NewPostViewController.swift:35-50` runs once per
post read and writes in each round whose post has another name) and pops the page,
it writes nothing, or `document("")` ends the process because the name was left
empty. `Update` is the answer to the feed's tick. `DidSelectRow` opens the page of
a post, `ShowPost` is that page's answer (of the posts with the text the last one in document order wins, because the loop
overwrites the label), and `Delete` deletes the document the label names, which is
the storyboard's text (`Placeholder`) until the answer comes. `Kill` ends the
process at any point.

A page that was left keeps existing while a callback holds it, but its navigation
controller and its editing are gone. A read therefore remembers the page it is
for: `Open` while the page is on the screen; when the page closes, `Detached`
freezes the fields into the read. This is how a save whose answer comes after
*Back* still writes, with the fields as they were when the page was left, and pops
nothing.

Each device has one user; whether that user is a master is the constant `Master`.
(The races about the role are in `PostFeed`.) Posts that are there at first are
stored under their names (`Boards`): other writers than this app are not modelled.
A post's `tags` field, which the app always writes with the same value, is dropped.

### BoardHistory

`latest[d][k]` is the last thing device `d` asked for about name `k`: a post, its
deletion, or `Silent`. `refused` collects names of refused writes, `published` the
posts of the beginning and every post ever written. `Record` computes them from the
change of the queues alone.

### PostFeed

The feed's view controller statement by statement: `UpdateTimer` issues the read,
sets the button, hides the table by the array *of now* and reloads it, all before
its own answer can come; `CellForRow` and `DidSelectRow` index the array of now
with a row of the last reload, and trap when it is gone; `ViewWillAppear` sets the
button before the answer that sets the flag; `SetMaster` is that answer. The
boards the backend has held are numbered, so a snapshot is a number, and its age
can be compared. `masterOf` and `raced` are history: whose role the flag tells, and
whether a role of another user was still to come when the feed appeared.

### Account

Auth changes its user on its work queue (`ChangeUser`): `currentUser` changes at
once, and two things are posted to the main queue, the notification and after it
the callback of the request. `mainQueue` holds these blocks in order, and
`HandleBlock` runs the one at its head. Two parties hear of the notification.
Firestore's credentials provider takes the user *named in it*: `clientUser`; it
swaps the queue of writes and restarts the streams (`sent`, `SendAgain`). The page's listener
asks who is the user *when it is called* and keeps quiet if that was the user of
its last call (`Tell`, `previousUserID`). `SetSignup` is the observer of the page's
flag: without a user it shows the invitation at once, with one it reads the
account's document, whose answer paints the page (`HandleDocument`) whoever is the
user by then.

`Return` sends a request, as often as return is pressed; it is answered by
`CreateUser` (only for an address without account), `SignIn`, `RequestFails`, or
`ResponseLost` (the account is made and the phone is told of an error).
`HandleRegistered` then writes the account's document, into the queue of the user
Firestore knows, and dismisses its sheet. Sheets are numbered: dismissing takes off
the alert over the sheet, the sheet, or nothing if that sheet is gone (`Dismiss`).
`writes[u]` are the pending writes of user `u`, kept across restarts;
`CommitNext`, `HandleSuccessfulWrite`, `HandleRejectedWrite` and
`OnWriteStreamClose` are the write stream for the queue of `clientUser`. `Promote`
is the school's decision to make a user a master, outside of the app. `lost`,
`resent` and `raced` are history: accounts whose registration was cut by a crash, a
lost response or a refusal, accounts whose document the backend has applied and the
phone will send again, and whether the user changed before the page had caught up
with the last change.

Abstractions: what is typed is the address, and all spellings of an address are
one; `updateCurrentUser` and the creation of the account in the backend are one
step (a crash between the two is `ResponseLost` followed by `Kill`); a keychain error
of a sign-out changes nothing and is a stutter; Auth has loaded its user from the
keychain when the app's first page appears; tokens are not refreshed (a refresh
posts a notification for the same user, which the listener ignores and which only
restarts the streams). The cache of documents is not kept apart: a read offline
finds what the backend has, or nothing.

### WritePipeline and WriteContract

`queue[u]` is the mutation queue of user `u` and `saved[u]` the stream token kept
with it; both are on disk. Everything the remote store and its write stream hold in
memory is the record `remote`: `pipeline`, the stream's `state`, `closeCount`, the
idle timer, `handshake`, the stream `token`, the call to the backend (`conn`: the
user whose token opened it, requests not yet handled, answers not yet read, and how
it ended) and the token requests under way (`asks`). `FillWritePipeline`, `Start`,
`Send`, `Closed`, `Notified`, `EnableNetwork` and `DisableNetworkInternal` are the
functions of these names (`Notified` is `NotifyStreamClose` with
`OnWriteStreamClose`); the actions compose them in the order of the code. A step is
one operation of the worker queue, or a step of the main queue (`MainQueueRuns`),
of Auth (`AuthAnswers`, `AuthStateChanges`) or of the backend (`Serve`, `Refuse`,
`Break`). `tasks` and `main` keep the order of what the credentials provider has
enqueued on either queue, which is what keeps a late token from another user's
stream. `Relaunch` is a crash and a restart: queues and tokens stay.

`WriteContract` says the same to a caller: per user a sequence of pending writes;
the backend applies or refuses each only when the earlier ones have been answered;
the client settles the oldest, as acknowledged when it was applied, as rejected when
it was refused or its answer got lost or could not be decoded. `ContractHolds` is the refinement, under the
mapping of each queue of batches to its writes.

Assumptions: the backend ends a stream in use with an error, never with OK (with OK
`remote_store.cc:433` asserts); requests in flight on a call that is destroyed are
applied before it closes or not at all; statuses matter only as transient,
permanent or aborted; the delays of backoff are abstracted; persistence is LevelDB.
`unread` is history: the writes whose answers an error took off the stream unread.
There are two such errors. A write operation that fails cancels the read under way
(`grpc_stream.cc:217-248`), and the status that follows is about a later batch; and an
answer that cannot be decoded closes the stream with DATA_LOSS, a permanent error
(`UnreadableResponse`; `stream.cc:209-216`, `write_stream.cc:123-124` and `146-147`,
`datastore.cc:328`). Either way a batch the backend has applied may be taken for
refused, against the premise of `HandleWriteError` (`remote_store.cc:490`).
`RejectedUnlessLost` says that these are the only ways, write by write. An undecodable
answer to the handshake throws the stream token away, as a refused handshake does
(`TokenKeptOnAbort`). `PostBoard` and `Account`, which see Firestore through the module
`Firestore`, take a save for refused only when the backend refused it: they assume that
no answer is lost in these two ways.

### WatchTargets

`client` is the memory of the remote store (targets, stream, online state), of its
aggregator (`states`, `docs`, `resets`), of the local store (`mem`) and of the sync
engine (`views`, `limbo`); `disk` the cached documents, the keys and resume token of
each query, and the version of the last snapshot. The backend's data is `log`, the
sequence of its changes; a version is a prefix of it, a resume token a version.
The call (`conn`) has the requests not yet handled, the targets the server serves
with the documents it still owes to each, and the version the server is at, which
after a reconnect may be older than what the client has seen.

A message of the backend and the client's handling of it are one action; the
handler is composed of the code's functions (`HandleDocumentChange`,
`HandleTargetChange`, `HandleExistenceFilter`, `RemoteEvent`, `Stored`,
`ApplyToView`, `Track`, ...). Left out: users' writes (overlay), queries with limits
and garbage collection of the cache.

Assumptions on the backend, from the protocol's comments: it answers every watch and
unwatch request in order; with a resume token it sends a count before it marks the
target current; snapshots come only when all served targets are current
(`Firestore.pbobjc.h:1250-1260`); a restarted stream may reach a server that is
behind (`Target.pbobjc.h:189-196`); a limbo document's target is refused only when
the document is in no result any more.

### GrpcStreams

One level below the two modules above, where a call is more than a pair of queues.
`streams[s]` is the `GrpcStream` of stream `s` (`Nothing` when it is destroyed): its
`completions_`, `is_grpc_call_finished_`, the buffered writer, and the state of the
call. A completion is a record of its stream, its type and what its callback does
when it runs; it travels from gRPC to `grpcQueue`, to the polling thread (`polled`),
to the worker queue (`tasks`). `off_queue_` is fulfilled as soon as the polling thread has it
(`OffQueue`), before its callback is enqueued: `Poll` and `Enqueue` are two steps.

The operations of `GrpcStream` are functions on a `World` (the streams, the
completions, the assertions), so that the order of calls in the code is the order of
composition. `worker` says where the worker queue is blocked: in `TryLastWrite`
(`lastWrite`), in `FinishGrpcCall` after a failed operation (`failing`) or from
`Shutdown` (`cancelling`), or in `Shutdown`'s last wait (`finishing`), with the
streams that still have to be shut down after a change of the network. `Proceed` and
`LastWriteEnds` are the ends of these waits; all else of the worker queue waits for
them, which is what makes a deadlock conceivable.

`Start`, `ObserverWrites`, `Stop` and the choices in `OnRead` stand for all callers:
whenever the modules above may start a call, write, stop it or fail to understand a
message, this one may too.
Left out: unary calls and streaming readers (transactions), which the app never
makes, and the termination of Firestore.


## 3. Runs

| Run | Instance | Shows |
|---|---|---|
| `board` | one phone, two names, empty board or one post, 2 presses, 1 fault, 1 refusal, 2 reads in flight, fair | `TypeOK`, `KeyedByName`, `EmptyBoardStaysEmpty`, `AckIsInvisible`, `FeedConverges`, `SaveIsAnswered` |
| `board_one` | one phone, three names, two texts, 2 presses, 1 fault | `LastWordStands`, `ShownWasPublished` |
| `feed` | one feed, two posts, two accounts, 1 change of the board, 2 appearances, 2 reads, fair | `TypeOK`, `NoTrapUnlessShrunk`, `RoleIsOfTheUser`, `FeedNeverGoesBack`, `FeedShowsBoard` |
| `accounts` | two addresses, 2 requests, 2 sheets, 1 fault, fair | `TypeOK`, `DocumentNeedsAccount`, `AccountHasDocument`, `PageAgreesUnlessRaced`, `PromotionStands`, `PageIsPainted` |
| `account_page` | one address, 1 request, 1 sheet, no fault | that `PageOffersSignIn` is violated |
| `writes_one` | one user, pipeline of 2, 3 writes, 1 token event, 1 fault, fair | `NoAssertFails`, `PipelineIsFull`, `AnswersMatch`, `RejectedUnlessLost`, `WritesSettle` |
| `writes_users` | two users, pipeline of 2, 2 writes, 2 changes of user or token, 1 fault | `OwnCredentials`, `TokenKeptOnAbort`, `ToldOfItsWrites`, `ContractHolds` |
| `watch_one` | one query about two documents, 3 versions, 2 listens, 1 fault, fair | `NoAssertFails`, `ModifiedAreSynced`, `TargetsAreWanted`, `SyncedIsConsistent`, `LimboIsResolved`, `CacheNeverGoesBack`, `ListenSettles` |
| `watch_two` | two queries that share a document, 3 versions, 2 listens, no fault | `SyncedTogether` |
| `watch_mismatch` | one query, 3 versions, 2 listens, 1 fault | that `SyncedIsAlwaysConsistent` is violated |
| `calls` | the watch and the write stream, 3 starts and faults together, 1 later write, 1 message, fair | `CallsAreLegal`, `NothingOutlivesTheStream`, `WorkerGoesOn` |
| `calls_finish` | the same | that `FinishIsLast` is violated |

Bounds, and why they suffice:

- *Names.* Two names make the save loop write zero times or once, three make it
  write twice, which is what duplicate writes need. The placeholder is one of the
  names: a post called "Label" can be published and then be deleted by accident.
- *Phones* (1). `LastWordStands` is about several masters who write at once; that is
  proved for every number of phones, and was model-checked with two masters, two
  names, one post at first, 2 presses and 1 fault (2.3 million states, three minutes),
  which is too long for a run.
- *Presses* (2): a save and a delete, or two saves.
  A third press adds no new pair of operations in flight; one save is already
  several writes.
- *Faults* (crashes and broken streams): one splits every sequence once.
- *Refusals*: one read or write; none in the `BoardHistory` runs, where a refused
  write leaves the name out of `LastWordStands` anyway (the proof covers them).
- *Reads in flight*: two are enough for an older answer to be followed by a newer
  one; `board_one` allows one, and the interleavings there are of
  writes.
- *Requests and sheets* (2 of each): two requests of one sheet, or a request of a
  sheet that was left and one of the next, may overlap, for one address or for two;
  the user may then sign out and sign in again while both are being handled.
  The safety properties were also checked with 3 requests. Faults here
  are crashes, broken streams, refused writes and lost responses.
- *Batches and pipeline.* `kMaxPendingWrites` is 10; with 2 a third write already
  waits in the queue for room. Faults are refusals, breaks, failed tokens, the
  network switched off, and restarts; one comes at every point of every sequence.
  Two changes of user go there and back, which is what stale tokens and reused ids
  need.
- *Versions, listens* (3, 2): the first document, a change or deletion while the
  client is away, and one more while it catches up; the query is left and listened to
  again once. Safety was also checked with
  2 versions, 3 listens and 2 faults; with one document, 4 versions, 3 listens and
  2 faults, for a query that names the document and for one that does not; with two
  documents, 4 versions and 1 fault; and with two queries about
  one document, 3 versions, 3 listens and 1 fault; with one query and one document, 4
  versions and 4 faults; and with one query, two documents, 3 versions and 3 faults. `ListenSettles` was checked for one query about one document with 3 versions, 3 listens
  and 3 faults (1.5 million states): the one fault of the run is too few for a
  count to go wrong. These larger instances showed
  which interleavings `CacheNeverGoesBack` and `LimboIsResolved` must except. The
  requests of a new stream come in any order, that of a hash map.
- *Calls*: both streams may be started and one fault strike, or one stream be
  started and two faults follow (the call ends and is then stopped), or it be
  restarted. Safety was also checked with 4 starts and faults, and one stream alone with
  3 starts, 3 later writes, 2 messages and 3 faults.

Users, not the app, may stop. Deadlock is nevertheless checked in the runs of board
and feed, since a tick or an answer is always possible; the account pages have no
timer and really are at rest when nobody touches them, and so is the client when
there is nothing to send or to watch: these runs do not check it. What a deadlock
would be there, a worker queue that waits for ever, is `WorkerGoesOn`.

Three runs find a disagreement.

- The comment at `ProfileViewController.swift:28` says
  that the page puts the account on the screen or else the offer to register or sign
  in. In `account_page` a user signs out while the read of the account's document is
  on its way: the invitation is shown, the answer comes and paints the account, with a
  button that says "sign out" and opens the sign-in sheet, and nobody is signed in.
  `PageAgreesUnlessRaced` says that this takes such a race: without one, page, flag and
  Auth agree.
- `core/view.h:221-224` says that a view is current when it has seen the current flag
  and "did not lose consistency within the watch stream (e.g. because of an existence
  filter mismatch)". In `watch_mismatch` a query is left after such a mismatch, before
  the snapshot, and listened to again: the removals are forgotten with the target's
  state, the query stays in `pending_target_resets_` and is asked for without a
  token, hence without a count, and a deleted document stays in a result said to be
  synced. `SyncedIsConsistent` says that it takes this.
- The comment at `grpc_stream.cc:234-235` says that the buffered writer should never be
  called again after a call to `Finish`, and gRPC asks that nothing be under way beside a
  finish (`async_stream.h:50-52`). In `calls_finish` the call ends and its read fails: the
  stream finishes the call, but stays open until the status is there, and is written to; no
  write was active, so this one is given to gRPC beside the finish. `CallsAreLegal` says how
  far this goes: no read is beside a finish, and a write only when gRPC has ended the
  call, never on one that the client cancels; that write fails and its callback finds
  the call finished.

What the models also show, and what no comment of the code speaks against:
a post saved twice under one name overwrites the other device's; with an empty
board nobody can publish; with a board whose only post has the name typed, Save
does nothing and leaves the page open; an empty name ends the process; a row
tapped after the board shrank traps or opens the neighbour; a *Delete* pressed
before the label is filled deletes the post named like the placeholder; a save
whose page was left still writes; and a user promoted between the moment the backend
applied the registration's document and the moment the phone handled the
acknowledgement is demoted when the stream breaks, the user changes or the app is
restarted in between, because the same write, with the role false, is sent again.
`NoTrapUnlessShrunk`, `EmptyBoardStaysEmpty`, `RoleIsOfTheUser` and `PromotionStands`
state exactly how far these go and no further.

Of the client: the timer of the online state is lost when the last query is left and
another listened to while the stream is starting (`online_state_tracker.cc:44-46`);
the count of outstanding answers goes below zero when a target fails while it is
being watched anew (`remote_store.cc:339`): the query that is then listened to again has
more answers than it asked for, its target does not count as active, and it does not
become current until the stream starts anew, so `ListenSettles` excepts it (`Miscounted`; it takes two
faults, a break and a refusal); and the mark "current" survives a new
watch (`remote_event.cc:157`); a limbo document whose target is reset, or which is also in a query that is left or reset,
before a snapshot, and which is then deleted
stays in limbo until the next snapshot that names it (`remote_event.cc:266`);
a document query that is left after a count of zero and before the snapshot makes
that snapshot remove a newer document from the cache
(`remote_event.cc:231`, `local_store.cc:307-311`), since what is told of an inactive
target is not heard: `raced` has "overtaken" then;
when the target of a limbo document is refused while a view is not current, because it
heard of Offline, the view keeps the document in limbo and, if the document is in it again by
the time it is current, does not ask for it again (`view.cc:359-363`):
`TargetsAreWanted` says "as long as nothing was refused so" there;
a limbo target that has received its document on an earlier stream, and is reset before
it hears that the document is gone, keeps the document among its keys at the next snapshot,
which then does not deduce the deletion (`remote_event.cc:266`): `raced` has "unheard" then;
in these cases a view whose document stays in limbo is current and not synced, which
`ListenSettles` excepts too;
after a reconnect two synced views may be of different versions, so `SyncedTogether`
is checked without faults of any kind (no break, reset, refusal, restart, change of user or
of the network), and the synced view of one query may even be of no version: when
two queries share documents, the snapshot of the one that is watched first updates the
documents of the other, which stays current (with two queries, two documents, 3
versions and 1 fault), so `SyncedIsConsistent` is checked for a single query.


## 4. Fairness

`FairSpec` of `PostBoard` asks, per device: weak fairness of the timer (a repeating
`Timer` on the main run loop, scheduled while the feed is on the screen); weak
fairness of `HandleAnswer` as a whole (the main queue runs the block at its head,
whichever it is); strong fairness of `Synced` (a device may be offline for long
and answered from the cache every time, but is online again and again); weak
fairness of `Commit` and `Ack` (the write stream sends and is answered while there
is something to send). Nothing is assumed of the users, of faults or of refusals;
presses, faults and refusals are bounded and therefore end. `PostFeed` assumes the
same and weak fairness of the answer about a role; appearances and changes of the
board are bounded and end. `FairSpec` of `Account` asks weak fairness of
`HandleBlock` (the main queue) and of the answer to each read (an answer from the
cache, or an error, if need be); nothing of users or of Auth's backend.

`WritePipeline`: weak fairness of the worker queue as a whole (it runs what has been
enqueued and its timers one after another: something of it runs, whichever), of the main
queue, of Auth's answer to a token request and of a backend that has a request to serve.
Users, network switches and faults owe nothing. `WatchTargets`: weak fairness of the backoff timer
and of the stream's opening, and a backend that does not owe messages for ever:
`[]<>~BackendOwes`. Each of the backend's steps lessens what it owes, so weak fairness
of its steps amounts to the same; that `BackendOwes` is when such a step is enabled
was checked on an instance. `GrpcStreams`: both threads run what they have (the worker
queue's 500 ms wait ends), and gRPC ends the operations of a call that has ended or
was cancelled. No fairness of the backend: a call may stay open and silent.


## 5. Proofs

All theorems are about every number of devices, names, texts, posts, addresses and
users and every value of the bounds; they rest on `FeedAssumption` (finitely many posts,
and marks that are no data), on `AccountAssumption` (the marks are no addresses), on
`PipelineAssumption`, `HandshakeAssumption` and `ConnAssumption` (room for one write
at least, and marks that are no users, batches or calls), on `StreamsAssumption` and
`NothingAssumption` (`Nothing` is no stream and no record), on `TargetsAssumption`
(finitely many queries and documents, a query's documents are documents, one change at
least) and `TargetsDiffer` (a query's id is no limbo target's: `target_id_generator.cc`
gives the ones even numbers and the others odd ones) or on `BoardAssumption`, `MarksAssumption` (the marks are no data, and posts at first
are stored under their names) and, for the history, `SilentAssumption`.

- `TypeCorrect`: `Spec => []TypeOK`. It is not inductive alone: that `sent` stays
  natural and `Tail` applies to a nonempty queue needs the bookkeeping of the model's
  counts (`PipelineOK`: `fresh <= sent <= Len(queue)`), which needs the types. Their
  conjunction is inductive (`StoreInvariant`), and every later proof starts from it.
- `KeyedCorrect`: `Spec => []KeyedByName`. `Stored(G)` says that every post in the
  backend, a cache, a queue or an answer is one that `G` allows under its
  document's name. `StoredNext` shows that any `G` that allows what is saved is
  preserved; `Named` is one such `G`, and saving uses the name typed for both the
  key and the post.
- `EmptyBoardCorrect`: `Spec => EmptyBoardStaysEmpty`, from the same lemma with
  the `G` that allows nothing: an answer without posts makes `Writes` zero.
- `AckCorrect`: `Spec => AckIsInvisible`. The last write to a key exists (the
  maximum of a set of positions, by well-foundedness), decides the view, and stays
  the last one when the oldest write leaves the queue, unless it is the oldest, in
  which case the cache now holds it.
- `LastWordCorrect`: `HistorySpec => []LastWordStands`. Inductive with
  `TypeOK /\ PipelineOK` and `PendingIsLatest`: while a device has writes to a name
  pending, the last of them is its last word. When the backend applies a write and
  nothing else to the name is pending, that write was some device's last. A restart
  or a broken stream only unsettles names; a new write unsettles its own, because
  it enters the queue behind everything sent.
- `ShownCorrect`: `HistorySpec => []ShownWasPublished`. That the arrays show published
  posts is `Stored(G)` once more, with the published posts for `G`. That a label is
  one, needs `LabelKnown` and `PageCloses`: when no post page is on the screen, no read
  and no answer is for one, and the label is the placeholder. So an answer that sets a
  label finds its page still there, with the text the page was opened with.
- `AccountTypeCorrect`: `Spec => []TypeOK` of `Account`.
- `DocumentNeedsAccountCorrect` and `AccountHasDocumentCorrect`. They are inductive
  together with the types and `SentStored`: every write counted as sent has its
  document in the backend. Without it an acknowledgement, which takes the write off
  the queue, might take the last trace of a document. `QuietSteps` shows that all
  steps but seven leave accounts, documents and what is on its way alone; the
  callback of a registration is one of them, since it only moves a document from a
  block of the main queue to a queue of writes. A change of the user is another:
  it exchanges the queue, and forgets what was sent from the old one.
- `PromotionCorrect`: `Spec => PromotionStands`. The only step that overwrites a
  document sends one that was on its way, and a document comes on its way only with a
  new account. Whether the write is the account's first takes `OnceInvariant`: an
  address waits in one place at most, a block of the main queue (and then it has no
  document yet) or one position of one user's queue, and what the present stream has
  not sent is not in the backend, except for what `resent` names.
- `PageAgreesCorrect`: `Spec => []PageAgreesUnlessRaced`, from `PageFollows`. As long as
  there was no race: if the listener's last call was for another user than Auth's, a
  notification (or the listener's first call) is on the main queue (`Heard`); every read
  under way and every answer on the queue is about the present user (`ReadsPresent`);
  and if the last call was for the present user, the flag is his and the page shows him
  or will (`Painted`). A change of the user while nothing is being painted keeps this
  because there is nothing under way that could be another's.

- `FeedTypeCorrect`, `FeedForwardCorrect`, `NoTrapCorrect`, `RoleCorrect`: `Spec =>
  []TypeOK`, `FeedNeverGoesBack`, `[]NoTrapUnlessShrunk` and `[]RoleIsOfTheUser` of
  `PostFeed`, from one inductive invariant. `InOrder`: the answers waiting for the
  main queue bring boards in the order of their age, none older than the array and
  none newer than the cache; so the next answer cannot take the array back, and the
  array always names a board. `RowsOfBoard`: the rows the table view believes in are
  those of a board the array holds or has held; so a row that is gone is a post that
  is gone. `RoleComes`: while the feed is on the screen and no race was recorded, only
  the present user's role can be on its way, and if none is, the flag is his.

- `NoAssertFailsHolds`, `PipelineIsFullHolds`, `AnswersMatchHolds`,
  `RejectedUnlessLostHolds`, `OwnCredentialsHolds` and `TokenKept`: all safety
  properties of `WritePipeline` but two, from one inductive invariant, `Inv`. Each part
  needs the others. `Queues`: every queue is in the order of its ids, which are below
  the next one, and holds its own user's writes; so the pipeline, a prefix of it, can
  be filled up by id, and an answered batch is the queue's first. `Stream`: the states
  of the stream, its call and its marks fit each other (`Sound`), the pipeline is `Full`,
  and what is left of the call is the pipeline's writes (`CallMatches`), of the call's
  user (`OwnCall`). `Tokens` is why a token is never used for another user:
  a stream waits for at most one token, in one of three places (asked for, on the
  main queue, on the worker queue), and if that token is not of the current user, a
  change of user is on the same way before it and will raise the close count
  (`TokensInOrder`); the last news under way is of the user Auth has now (`LastUser`).
  A step that only moves the stream preserves `Tokens` by one lemma, `TokensMove`: it
  keeps its close count, its state and its requests, or waits for none of the old ones.
- `ContractIsKept`: `Spec => ContractHolds`, the refinement. `LedgerStep` shows three
  things of every step at once: it keeps `Ledger`, it is a step of `WriteContract` or
  a stutter under the mapping, and it tells only of what it settles. `Ledger` adds to `Inv`
  what the contract speaks of: an answer on its way is about a write the backend has
  applied, and no queue holds a write twice or one already settled. With `Inv`, which
  says that the next answer is for the queue's first batch, the write that is settled
  is the user's oldest and was applied; and with `Full`, that the backend is given a
  user's writes in their order. `LedgerHolds` states the invariant alone.
- `ToldOfItsWritesHolds`: `Spec => ToldOfItsWrites`, from the same lemma. `Handlers` and
  `Waiters` (parts of `Ledger`) say that a completion handler names a batch of its
  user's queue with its write, and a wait's writes are settled or still queued
  with an id up to the wait's; so an id that is used again finds no handler left.
- `CallsCorrect` and `NothingOutlivesCorrect`: `Spec => []CallsAreLegal` and
  `Spec => []NothingOutlivesTheStream` of `GrpcStreams`, from `IInv`. `Sound` says where a
  completion can be: on its stream's list, or cancelled and handed back by gRPC; and what a stream's list may
  hold (one read, one write, a finish only of a finished call; a write beside it only of a
  call that has ended, since nothing is started on a cancelled one, `Uncancelled`). `QueuesOK`: each
  completion gRPC has handed back is in one place, once, and only calls that are over
  hand back failures. `WorkerOK` and `HasRead` say what holds where the worker
  queue is blocked, `RegisteredOK` that active calls are those of the streams. Each
  operation of `GrpcStream` (a function on a `World`) is shown to keep `Sound` by a lemma
  of its own, and the steps of the threads compose these lemmas as the code composes the calls. That
  `Destroy` is safe is then one fact: when the worker queue goes on, every completion
  on the list has been handed back and cancelled.

- `NoAssertFailsHolds` and `TargetsAreWantedHolds`: `Spec => []NoAssertFails` and
  `Spec => []TargetsAreWanted` of `WatchTargets`, from `IInv`. The invariants of this module are
  defined in `WatchInvariants`, apart from the proofs, which are long. Its parts about the client:
  `OnlineKnown` (the timer of the online state runs only while the stream starts, and a
  client that is online has counted no failure), `IdleKnown` (the stream is idle only
  without targets), `Watched` (what the backend serves, the aggregator has a state for,
  so a reset or a count finds one), `ChangesKnown` (a resolution whose pending changes
  include a removal or a modification is known to have received its document, which
  `SyncEngine::ApplyRemoteEvent` asserts), `AllNumbered` (the ids of limbo targets, the
  ones forgotten but still named in requests or served included, are below the next one, so a
  new one is new), `Wanted` and `Tracked` (the two halves of `TargetsAreWanted`). The
  handler of a message is a composition of the code's functions, and so is its proof:
  one lemma per function says what it returns of a sound client, and
  `OnWatchStreamChangeIs` puts them together. While a snapshot goes to the views one after
  the other, a resolution may be of no view any more or not yet be there; `WantedBut` says for which
  documents, and `StepByStep` carries the claim along the order of the views by
  well-foundedness of the numbers. `Tracked` excepts the documents of a refused
  resolution only once `raced` says that a view was offline: `HandledIs` shows
  that all other views give the document up when they see it deleted.

- `CacheNeverGoesBackHolds`: `Spec => CacheNeverGoesBack` of `WatchTargets`, from `IInv`
  and `CacheInv`. A document is written with a version only when that is newer, so all
  depends on the ones collected without a version, which overwrite whatever the cache has. `Vouched`: each
  of them has an active target that the backend serves and that vouches for it
  (`Honest`): the document is gone at the server's version, or is still owed to that
  target. At the snapshot no current target is owed anything (`OwesRightly`), so the
  document is gone at that version; and the snapshot is not older than the cache's last one,
  nor is the cache newer than that (`Dated`). The invariant needs `Counted`: a target has as
  many answers outstanding as requests about it wait. Without it a target might count as
  active while the server still answers for an earlier watch of it. `Streamed` says that
  what is collected belongs to the open stream and is not newer than the server. Both `Vouched` and
  `Counted` end when a target is overtaken, which `raced` records: then only the
  versions are known, and a document can go. `CacheKept` is proved of each step next to
  `IInv'`, and the lemmas on the functions of the aggregator say what each collects.
- `LimboIsResolvedHolds`: `Spec => []LimboIsResolved` of `WatchTargets`, from `LimboInv`,
  the last part of `CacheInv`: for every limbo target, `Follow`. Resolving is a matter of
  what is *not* said: no message names a document that does not exist, and what is deduced
  from the silence must be right. `Knows`: a document that is there and not owed any more, the target has
  (`Has`: received, or among the changes that wait). `Misses`: if the target has a
  document that is gone, is counted and is owed nothing, then the cache does not have it or
  its deletion was collected. `Resumable`: so it is with the token, and the
  tokens in the requests that wait: who asks "since version v" has what was there at v, and
  who asks without a token has nothing, and is sent no count. With these a
  watch on a new stream starts right (`WatchFollows`), whichever version its server has
  reached. `Gathers` says that changes wait only for targets with no answer outstanding,
  `Resolves` that the client agrees with the backend on what is current, and `Present` that a target is
  served or asked for as long as the stream is open. What a step does to a target it does not tell anything is one
  lemma (`UntoldFollows`, and `UnheardFollows` while answers are outstanding), what a
  document told of does another (`ToldFollows`), and `SnapshotFollows` puts them together at the
  snapshot: there a document that is gone was collected, and `Vouched` makes that true, or
  `CreateRemoteEvent` deduces it (`Unseen`), and with `Dated` the deletion is newer than
  what the cache has. The two exceptions end the invariant (`Heeded`): "overtaken" as above,
  and "unheard", a reset that throws away what is not heard yet.

Only model-checked: the liveness properties (liveness and `ENABLED` are beyond the
prover), and of `WatchTargets` `SyncedIsConsistent`, `SyncedTogether` and `ModifiedAreSynced`. The first two are not
true of every instance (section 3): they hold for one query, and as long as there is no
fault. `Follow` says of a limbo target what they would need of a query: what the keys,
the changes that wait and the documents still owed say together.

No formula is trusted: the proof modules contain no assumption besides those named
above, which TLC also evaluates on the constants of every run.


## 6. Plan

Done, in this order: `Firestore` with `PostBoard` (the heart of the program),
`PostFeed`, `BoardHistory` and their proofs, `Account` and its proofs; then the
client library below them: `WritePipeline` and the contract it implements,
`WatchTargets`, and `GrpcStreams` under both; then the proofs about `PostFeed` and
`WritePipeline`, of the contract, of `GrpcStreams`, of what board and profile page show,
and of the targets, the cache and the limbo resolutions of `WatchTargets`.

What would come next:

1. An abstract board, a map from names to posts with atomic publish and delete, and
   `PostBoard` shown to implement it for one device under a mapping to its local
   view; where the save loop writes twice, the second write must be a stutter. An
   abstract account service in the same way.
2. Background and foreground of the app, and a tab switch with a page pushed: the
   timers' life cycle. The board and the accounts are two models of the same
   phone; composing them would let the user who signs out be the one whose post is
   still pending (`WritePipeline` shows that the write waits for that user's return).
3. A theorem about the keys of `WatchTargets`, with `IInv` and `CacheInv` as the ground:
   what can be said of synced views on one stream (it needs what `Follow` says of a limbo
   target for each served query: the keys, the changes gathered since the last snapshot and
   the documents still owed make up the result at the server's version).


## 7. Not modelled, and why

- The timetable pages: nothing leads to them (section 1).
- `AppDelegate`, `SceneDelegate` and the Core Data stack: launch code and a store
  nothing writes to. `ViewControllerMain`: no scene and no code refers to it.
- Of Auth: other ways to sign in, user profiles, errors of the keychain, the
  refresh of a token itself (`WritePipeline` has what the client does with one).
- Of the Firestore client: transactions, queries with filters or limits, field
  transforms and server timestamps, garbage collection of the cache, several
  clients on one database, unary calls and termination. The app uses none of the
  first three; the others change no result it sees.
- The rest of the pods: BoringSSL, gRPC-Core, Protobuf, LevelDB, abseil, nanopb, the
  Realtime Database, analytics and their headers and tables. They are vendored
  third-party libraries and make up nearly all of the repository's 500,000 lines,
  which is why the share of lines mapped to a definition is small although the
  program's own pages and the parts of the client they depend on are covered.
- Layout, colours, cell text, print statements: no property is about them.
- Security rules of the backend: they are not in the repository; a refusal may
  come at any time.
