# Formal model of the dating application

The repository holds three programs: `backend-api` (NestJS: accounts, profiles,
uploads, matching), `im-server` (Go: chat over WebSockets) and `flutter_app`
(the client). This directory models the parts of them in which order, failure
and concurrency matter, checks the models with TLC on small instances, and
proves the safety results with TLAPS for every instance.

Contents: 1 inventory, 2 modules and how they correspond to the code, 3 runs,
bounds and fairness, 4 proofs, 5 disagreements found, 6 not modelled, 7 what is
left.

## 1. Inventory

| component | state | operations | what is hard, and what makes it correct |
|---|---|---|---|
| im-server hub (`internal/ws/hub.go`) | map user -> client, three channels | Run (register, unregister, broadcast), SendToUser, Broadcast | one goroutine writes, all others read under a lock they release before they send; `select` takes ready cases in any order. One connection per user; each channel closed once, and never one that is the user's current one |
| im-server pumps (`internal/ws/client.go`) | a send channel, a socket, two goroutines per connection | ReadPump, WritePump | the pumps end each other through the socket, the channel and the hub; messages are batched. Nothing accepted is lost or reordered while the connection is up; both pumps end |
| im-server handler (`internal/ws/handler.go`) | none of its own; runs in the ReadPump | HandleMessage, handleTextMessage, handleReadReceipt, sendError | three calls that may fail, one after another. Persist before route; every text is routed or stored; a read text stays read |
| im-server stores (`internal/store`) | table `messages`, lists `offline:<user>` | SaveMessage, UpdateMessageStatus, Store/Get/DeleteOfflineMessages, pub/sub | shared by all handlers, no transaction spans two calls. Repeats are harmless |
| im-server offline delivery (`cmd/server/main.go`) | a goroutine per connection | deliverOfflineMessages | runs concurrently with the registration of its own connection and with new messages |
| im-server token validation, wire format, logger, start-up and shutdown | configuration | Validate, Encode, Decode | pure, except that a shutdown drops what is in memory |
| backend HTTP (`main.ts`, `src/common`) | none | guard, pipe, handler, interceptor, filter of each request | every request is answered once; what a handler throws decides the status |
| backend accounts (`src/auth`, `src/users`) | table `users` | register, login, users/me, users/:id, JwtStrategy.validate | check-then-insert on a unique column. One account per phone, who was answered can sign in, tokens are honoured |
| backend profiles (`src/profiles`) | table `profiles` | PUT profiles/:id, GET profiles/me and profiles/:id | check-then-insert, then read-modify-write through TypeORM's `save`. An update that was answered is not undone by one that began later |
| backend upload (`src/upload`) | a bucket and its objects | POST upload, delete, getUrl | check-then-create of the bucket. An answered url resolves |
| backend matching (`src/matching`) | tables `swipes`, `matches`, `profiles` | getCards, swipe, getMatches | concurrent requests, each a sequence of awaited calls. A match is mutual, no mutual liking is missed, cards exclude those swiped |
| backend recommendation | none | calculateScore, rankCandidates | pure: the best cards come first |
| app WebSocket client (`services/ws_service.dart`) | channel, two timers, two flags | connect, disconnect, reconnect, heartbeat | callbacks of replaced channels; a lost connection comes back, and none is left after a disconnect |
| app storage, router, login, registration and profile screens | token, user id, location | login, register, sign out, navigation, restart | answers that arrive after the screen was left; no session without a token, no token beside someone else's id |
| app API client, models, other screens | local lists | REST calls | the other screens use placeholder data and call no service |
| nginx, docker-compose | - | - | configuration |

How they interact. The app calls the backend over HTTP, obtains a token and
stores it. It can open a WebSocket to im-server with that token (the `/ws`
handler), which makes a client, registers it with the hub and starts WritePump,
ReadPump and deliverOfflineMessages. The ReadPump hands each message to the
handler, which writes to PostgreSQL, asks the hub to send to the recipient, and
stores in Redis what the hub did not take. The backend and im-server share the
secret that signs tokens, and no state. Nothing in the app calls
`WsService.connect` at this commit, so the app and im-server are modelled apart.

## 2. Modules

| module | role |
|---|---|
| `Presence` | what the hub promises: at most one connection per user, and a retired connection stays retired |
| `Hub` | the hub, the two pumps of each connection, and the calls other goroutines make |
| `Conversation` | what the chat promises: nobody is shown what was not sent to them, receipts only answer texts that were shown |
| `Delivery` | `Hub` composed with the handler, offline delivery and the two stores |
| `Registry` | what accounts promise: a phone has one account for good, access goes to who gave its phone and password |
| `Http` | a request from its arrival to its answer: guard, pipe, interceptor, filter, and what an awaited call may do |
| `Accounts` | register, login, users/me, users/:id and the guard's query, over `Http` |
| `Profiles` | PUT and GET of profiles beside `Accounts` |
| `Uploads` | the upload route and the object store beside `Accounts` |
| `Backend` | `Profiles` and `Uploads` composed: one table of users, one stream of requests |
| `MutualMatch` | what swiping promises: matched only if mutual, and, if mutual, matched in the end |
| `Matching` | getCards, swipe and getMatches, call by call |
| `Recommendation` | calculateScore, rankCandidates and the list of cards, as pure functions |
| `Cards` | `Matching` with the scores and the lists of `Recommendation` |
| `WsService` | the app's WebSocket client |
| `AppSession` | storage, router, screens and sign-out, composed with `WsService` |
| `HubProofs`, `DeliveryProofs`, `AccountsProofs`, `ProfilesProofs`, `UploadsProofs`, `BackendProofs`, `MatchingProofs`, `AppProofs` | theorems |
| `MCHub`, `MCDelivery`, `MCBackend`, `MCMatching`, `MCApp` | instances for TLC |

### Hub

State. `clients`, `register`, `unregister`, `broadcast` are the fields of the
Go struct; `send` and `closed` are each client's channel; `frame` and `left`
are what WritePump holds between `NextWriter` and `Close` (its local `n`);
`readPump` and `writePump` are program counters; `sock` is the connection under
them; `target` is the local `client` of a SendToUser call in progress; `crash`
says which panic ended the process.

Steps. `ServeWS` is the handler's NewClient, Register, go WritePump, go
ReadPump: a connection whose Register blocks on a full channel has not been
accepted yet. Each case of the `select` in Run is one action: Run is the only
writer of the map and holds the lock while it looks and closes.
SendToUser is two actions, `Lookup` (under the read lock) and `Push` (after it):
between them anything may happen, and a send on a closed channel is the panic
`crash = "send"`. ReadPump's deferred calls are the two actions `Unregister` and
`CloseConn`. WritePump is split at every point where others can interfere:
receive, `n := len(c.send)`, each receive of the drain loop, the final write.
`PeerGone` stands for everything that breaks a connection: the peer closing,
the network, a read or a write deadline. After it a write may still succeed (the
bytes stay in a socket buffer) or fail. A receive of the drain loop from an
empty channel blocks while the channel is open; `DrainOne` then waits. It
cannot happen, because only WritePump receives: theorem `DrainNeverWaits`.

IsOnline, GetOnlineUsers and OnlineCount read and are left out. Broadcast is
exported and has no caller; it is modelled all the same.

### Delivery

`job` is the handler of each connection, between its calls: `persist`, `route`
(lookup), `send`, `store`. `worker` is deliverOfflineMessages with its slice and loop
index. `rows` is the messages table by message id (absent, sent, read), `offline` the
Redis lists. `posted`, `failed` (PostgreSQL failed), `unstored` (Redis failed),
`stored`, `queued` and `wire` are history variables: they are read by properties and
by `Receive`, which lets a peer acknowledge only what it was shown, and by nothing
else.

A store call is one step. When it fails it may have taken effect all the
same (answer lost, context expired), and the handler goes on exactly as the code
does: a failed save is logged and the message is routed anyway, a failed store
loses the message, a failed load ends the worker, a failed delete leaves
the list to be delivered again.

Hub's actions are reused as they are: `Route` and `DeliverLookup` contain
`Lookup`, `Send` and `DeliverPush` contain `Push`, `ReceiveBad` contains
`SendError`, `Serve` contains `ServeWS`, `Write` contains `WriteFrame`. That
Delivery implements Hub is a theorem. The values of `Msgs` are pairs
`<<"text", id>>` and `<<"receipt", id>>`; images are handled as texts are. The
peers are clients of their own user, with ids that are theirs alone, and send
texts with the status of a sent one (SaveMessage inserts the status it is given).

### Http, Accounts, Profiles, Uploads, Backend

A request is a process. `at` is the awaited call it is suspended at: `auth` is
the query of JwtStrategy.validate, `find` the first query of a handler, `insert`,
`refind`, `compare` and `update` those of register and of PUT profiles/:id,
`bucket`, `make` and `put` the calls of MinioStorageService.upload. One step is
one such call with all that the handler computes until the next: Node runs
nothing else in between. `call` holds the arguments, `answer` the status and the
id in the data. `before` (who was answered when this request arrived) and
`failed` are history; `Overlap` is read off `before`. `CallFails` is a call that
rejects, whether or not it took effect: no handler catches it, and
HttpExceptionFilter answers 500. `Throw` and `Return` are the filter and the
interceptor. A request validated away never reaches its handler (`Enter`).

`Accounts`: `users` is the table; its unique column phone is checked inside
`InsertUser`. A uuid is the number of the request that drew it, a token the id it
was signed for, a hash its password. `Profiles`: `repository.save` of an entity
with an id is a SELECT and an UPDATE of the columns that differ, so an update
of a profile is four queries, `find`, `refind`, `compare` and `update`, with
`entity` and `diff` between them. The body of a PUT is not validated
(`profiles.controller.ts:42`), so it may give the columns of a profile, values the
database refuses (`BadValues`: an unknown gender, a text too long), and the `id`,
`userId` and `user` of the entity, which `create` (`profiles.service.ts:18`) and
`Object.assign` (`:31`) take over. So a save may write the row of another id, move the
row to another user, or fail at a unique column, and the comment of the controller
("Ensure users can only update their own profile", `:45`) does not hold for such
bodies. A client may well send back the id and the user of its own profile, as GET
answers both. The three properties of updates are therefore claimed of a profile
that bodies keep `Apart`: its owner's updates give no other user, nobody else's give
its owner, and neither give an id of the other's. A malformed id or user is
an instance of a refused value, so it is left out, and so are a body that gives null
for one and `createdAt`; the uuids a client makes up are among `Ids`; a column with
the default of the table is `Null`.
`Uploads`: `bucket` and `objects`; a key is the number of the request.
`UploadService.delete` has no caller; it is modelled as a step anyone may take
(`Delete`).

`Backend` joins the two over one `users` and one stream of requests.

Three things this code does that its documents put otherwise, and that the model
follows the code in: login answers 201 (the default of POST); `GET users/:id`
and `GET profiles/:id` have no guard; a profile is updated at `profiles/:id`,
for one's own id only. `SwipeDto` decorates no property, so the global pipe
(`forbidNonWhitelisted`) answers every body of `POST matching/swipe` with 400 (an
empty one passes and ends in a server error, which is left out):
`Http` has that route, behind the guard, and `Matching` models what the service
does when it is called.

### Matching, Recommendation, Cards

Every awaited repository call of `swipe` is a step: save the swipe, find the
reciprocal one, save the match. `Fail` is the exception of any of them, before or
after the row was written, and stands for a crash of the backend at that point too.
getCards is three steps (ids swiped, candidates, ranking and cut); the query fetches
at most `2 * Limit` candidates in no particular order. The score is a constant
function, and ranking a choice: when the user has a profile, no profile left out has a
better score than one dealt (`Best`). `Cards` gives the constant its value,
calculateScore of two profiles, and compares the list that rankCandidates and `slice`
make, for every order of the candidates, with that choice. The tables are sets of the
requests whose rows they hold: a row is determined by its request. `Swipers`,
`Viewers` and `Newcomers` only bound who swipes, who asks for cards and who may have
no profile. getMatches is the operator `MatchesOf`. A user does not swipe on
themselves, as cards never show them their own.

### WsService, AppSession

Dart runs one callback at a time, so a callback is a step; what is concurrent is the
channels. `channel`, `connected`, `wanted` are the fields `_channel`, `_isConnected`,
`_shouldReconnect`; `heartbeat` and `timer` say which timers are set; `stream` is the
state of every channel ever opened, since a channel that was replaced keeps its
callbacks, and `Lost(c)` may be of any of them. Whose token a channel was opened with
is left out. `begun`, `gaveUp` (the last timer found nobody signed in, and none was
set since) and `hasty` are history. `hasty` says that connect was called when
something of an earlier connection was left: `OneChannel` is claimed only without it.
dispose is disconnect and the end of the service.

`AppSession`: `token` and `userId` are what StorageService holds. A sign-in is a
process (`attempt`): the request, saveToken, saveUserId, the navigation. It goes on
when its screen is gone (`mounted`). A sign-out is a process as well (`signOut`), as
nothing keeps the tile from being tapped again: `SignOut`, `ClearId`, `LeaveProfile`,
clearAll's writes and the navigation after them. `Guard` is the redirect of the
router, evaluated at every navigation and at the start. `StartAgain` is the end of the
app and a new start with what was stored. Writes of shared_preferences change its
cache at once, so they take effect in the step that calls them, and are taken to be on
the disk then: that the app ends between the cache and the disk is left out. WsService
runs beside all this, reads the token when it connects, and is called by nothing in
it: `Connect` and `Disconnect` may come at any moment.

## 3. Runs

Run `tlc -config X.cfg M` for each line. Passing runs:

| run (`X.cfg`, module) | instance | shows |
|---|---|---|
| `MCHub` | one user, two connections that call each other, one message, channels of 1; fair; 124 thousand states | `Accounted`: every accepted connection waits, is mapped or is closed, and exactly one of them; `NoDoubleClose`; `NoEviction`: a late unregister never removes a successor; `ImplementsPresence`; `ClosedEnds`: what the hub closes is wound up; `WritePumpEnds`: no WritePump outlives its ReadPump |
| `MCDelivery` | users a and b, one connection each, b's may break; one text that may be sent twice, its receipt, one message that cannot be decoded; save, update, store and load may fail; buffer of 1 | `PersistedFirst`; `LostOnlyWithConnection`: no handler gives a text up, also when its save failed, unless the call to store it fails or a connection of its addressee breaks (a text that deliverOfflineMessages then deletes unsent is the subject of section 5); `InOrder`: what is written is what was accepted, in order, across batching and after the hub has closed the channel, unless the connection breaks; `ReadStays`; `ImplementsConversation` |
| `MCDeliveryLive`, `MCDelivery` | a writes, b connects twice; the list may expire or fail to be cleared; fair | `QueuedArrives`: what a channel accepted is written if the connection stays up, even though the hub closes the channel; `HandlersReturn` |
| `MCMatching` | six users, two swipes of any direction among three of them, one getCards with limit 2 for a user with five candidates, whose scores are 23 twice, 20 twice and 18; that user's profile may appear; save and match may fail; fair; 0.2 million states | `NoMissedMatch`; `CardsExcluded`; `CardsRanked`: whichever 4 of the candidates are fetched in whatever order, the 2 cards are the best, best first, equals in that order; `ImplementsMutualMatch`; `EventuallyMatched` (MutualMatch with its liveness) |
| `MCBackend` | three requests out of twenty calls, of two users and of phones that may register, with bodies that give ids and users of the own or of the other profile and a refused value; insert, update, make and put may fail; fair; 0.8 million states | `RegisteredCanLogin`, `TokensHonoured`: what was answered holds for later requests; `OwnValues`, `LastWriteStands`: which update a column is from, for profiles kept apart; `RegisterErrorExplained`, `PutErrorExplained`, `UploadErrorExplained`: which concurrency a 500 may come from; `UrlsResolve`; `ImplementsRegistry`; `EveryRequestAnswered` |
| `MCApp` | two users, two sign-ins, two sign-outs at once, two channels, restarts; fair; 1.6 million states | `RetryArmed`, `FlagsAgree`, `OneChannel` of the client; `HomeNeedsToken`, `StoredTogether` of the session; `Reconnects` |

Each run but `MCDeliveryLive` also checks the type invariant of its module. The
violation runs are in section 5.

Why the bounds are enough. The hub treats users independently, so one user with
as many connections as replace each other is the interesting instance; two
connections and a queue of one contain every order of the two queues. A buffer of
one is full after one message, which reaches both branches of every non-blocking
send, and still gives frames of two: the message WritePump holds and the one
queued behind it. Two messages suffice for an order to be wrong. For matching,
two requests contain the race of section 5; five candidates are one more than
`2 * Limit`, so the cut of the query and the cut at the limit both fall among equal
scores. The properties of the backend relate two requests that race, or one
that was answered and a later one; the third makes room for an update between
two others, and for a registration, its rival and a login. Two channels are what
a client that is connected in haste has open; two sign-ins are two answers that
may come in the wrong order. What is proved (section 4) does not depend on
these. `SendCap`, `QueueCap`, `BroadcastCap`, `Limit` are the code's capacities
(256, 64, 256, 10) made small; `Faulty`, `Fragile`, `Garbled`, `MaxReceived`,
`Calls`, `Bodies`, `Swipers`, `Viewers`, `Newcomers`, `Channels`, `Attempts`,
`SignOuts`, and the finite sets of connections, texts and
requests are bounds of the check only.

Runs set CHECK_DEADLOCK FALSE because the system really may come to rest: each
connection and each request happens once, and a panic ends the process.

Fairness.

- im-server. The Go scheduler runs every runnable goroutine and `select` chooses
  at random among ready cases, so each case of Run and each WritePump is weakly
  fair; the ticker of WritePump never stops, so `PingFails` is part of that. A
  ReadPump on a broken connection has only finitely many messages left to read
  before ReadMessage fails, and a blocked Unregister is served in order by the
  runtime: both strongly fair. Handlers and offline workers are weakly fair because
  their calls carry contexts of 5 and 10 seconds. Nothing is assumed of peers, of
  new connections or of new calls.
- backend. An awaited call returns or throws in the end, and Node resumes the
  request then: each request that was made is weakly fair. Nothing is assumed of
  clients.
- app. A timer that is set fires, opening a channel does not throw for ever
  (`TimerConnects`), and a stream that is done says so (`Lost`). Nothing is
  assumed of users, of answers or of the server.

Because of the panic of section 5, liveness in the hub and in delivery is stated
"or the process is down" (`~Up`).

Mutants. For each property of a passing run PROJECT.json names an operator
(commented "Mutant" in the modules) that changes a definition as a plausible bug
would: `HoldsEntry` forgets to compare the connection that leaves with the one
in the map, `CloseAtOnce` returns before the buffer is drained, `Upsert`
overwrites a row on a repeated save, `InsertAtOnce` does not look for the phone
first, `FindAnyones` does not compare whose profile it is, `MakeAlways` creates
the bucket each time, `SearchFirst` looks for the other swipe before its own is
saved, `Ascending` ranks the worst first, `SaveIdIfMounted` stores the id only when
the screen is there, `ScheduleIfSignedIn` gives a reconnect up at once. With it in
place the property fails.

## 4. Proofs

Each of these holds for all values of the constants that satisfy the named
assumptions of the module (any sets of users, connections, texts, requests and
channels, any capacities, any calls failing).

- `HubProofs`. `IInv` is `TypeOK /\ Accounted /\ NoDoubleClose /\ UnregisterOwn`.
  NoDoubleClose alone is not inductive: closing the mapped connection is safe only
  because a mapped connection is open, which is Accounted; Accounted in turn needs
  that a connection enters the register channel once, which its ReadPump
  records. `UnregisterOwn` (who is in the unregister channel has left its loop)
  is what NoEviction needs. Theorems: `TypeCorrect`, `AccountedHolds`,
  `NoDoubleCloseHolds`, `NoEvictionHolds` (an action property, from the invariant
  before and after the step) and `PresenceHolds` (the refinement: RunRegister is
  Arrive, RunUnregister is Leave, everything else stutters). `DrainNeverWaits` needs
  no more than TypeOK: what WritePump has counted stays in the channel until it
  receives it, as others only add to the end (`FrameFits`). `GhostsExplained` is about
  the second disagreement of section 5: a mapped connection whose request to leave
  was taken (`Ghost`) arises only when the event loop registers it after that, and
  ends only when it registers the next connection of the user.
- `DeliveryProofs`. `DeliveryTypeCorrect`; `DeliveryRefinesHub`: every step of
  Delivery is a step of Hub or leaves Hub's variables alone, so `DeliveryAccounted`
  and the other results of Hub carry over. `PersistedFirstHolds`: whatever holds a
  message must be followed from its handler to the channel, so `BackedInv` says of
  every job, list, worker and channel that what it carries is backed by its row, and
  that a receipt is only for a text that was shown. `InOrderHolds`: with `OrderAt`
  (what is on the wire, in the frame and in the buffer of an unbroken connection is
  what its channel accepted; a prefix of that on a broken one), `OrderInv` says that
  before a connection is accepted nothing of it has been used (`Untouched`), that a
  WritePump that is over has closed its connection (`PumpsOpen`), and that a
  connection nothing breaks is closed by its own WritePump only, which has drained the
  closed channel then (`Steady`). What is on the wire is a concatenation of frames;
  `FlattenSeq` is a recursive function there, and its two equations are obtained from
  the least length at which they fail. `LostOnlyWithConnectionHolds` joins that with
  `HandledSomewhere` (each text is with its handler, stored, accepted by a channel of
  its addressee, or the call to store it failed), which needs that the connection a
  handler holds between lookup and send is one of its recipient (`Aimed`), which comes
  from Accounted. `DeliveredUnlessBroken`, `FramesBoundedHolds` and `PanicsExplained`
  bound what section 5 shows. `ConversationHolds` needs the same of
  deliverOfflineMessages, and that jobs, lists, snapshots, buffers and frames hold
  only what was posted for the user they belong to (`Directed`); then Receive is Post,
  Write is Show, and everything else stutters. `ReadStaysHolds`.
- `MatchingProofs`. `TypeCorrect`, `NoMissedMatchHolds`, `CardsExcludedHolds`,
  `MutualMatchHolds` (safety part), `RankCandidatesSorts`, `CardsRankedHolds`. Of two
  mutual swipes the one that searches last sees both rows; `IInv` says that a request
  that found nothing had saved its own before it searched, that two mutual requests
  are not both unmatched, and that a match has its two rows (`MatchSound`). For the
  cards: the positions that go before a position i are a proper subset of those that
  go before any position behind i, so the places that rankCandidates assigns are
  distinct (`AheadGrows`), and as there are as many as positions each is taken
  (`PlacesAreTaken`): the sort is a permutation, in the order of `GoesBefore`. A cut
  of it leaves out nobody better. This is where users are assumed to be finitely many
  (`UsersAssumption`), as the rows of a table are; `QueryAssumption` and
  `CardAssumption` only say what `Limit` and `Score` are.
- `AccountsProofs`. `AInv`: the table has one row per phone and id (`Table`),
  an id in an answer is in the table with the phone and password it was answered for
  (`Entitled`), who signs in later is known (`Known`), a request past its guard
  belongs to a user (`Passed`), and one suspended before its INSERT whose phone is
  taken has a rival (`RivalInserted`). `AccountsImplementRegistry` follows; the
  parts are used by all of the following.
- `ProfilesProofs`, `UploadsProofs`. `PInv` follows what holds a profile together while
  bodies keep it apart: an id belongs to those whose updates draw or give it. The row of
  a user has one of that user's ids and no other row has (`OwnKeys`), an entity carries
  the user and an id of the user just if the update is by that user (`OwnEntities`), and
  an arrival can only add ids that nothing of somebody else has yet, or the profile is
  not apart any more (`KnownKeys`). Rows and entities then hold values of the owner's
  updates (`OwnValues`, `OwnColumns`); a request that inserts overlaps every update that
  was answered, unless it gives another id than the row has (`Unfound`); and `Standing`
  is LastWriteStands extended to updates in progress: an update that nobody disturbs
  (`Quiet`) finds its row as it left it at each of its four calls, and one that arrived
  later holds its value and does not write the column. `UInv` adds that who puts has a
  bucket to put into (`InBucket`), and that who is about to make a bucket that is there
  by now overlaps an upload that made it (`Late`). Both are shown for the effects of a
  step (`Effects`, `StoreEffects`) so that they can be used beside other routes.
- `BackendProofs`. Every step of Backend is a step of one part, and for the others
  at most a request that moves on, so `BInv`, the conjunction, is inductive. It has
  one theorem for each property of `MCBackend` but the liveness one; that the whole
  implements Registry is `BackendImplementsRegistry`.
- `AppProofs`. `AppImplementsWs`: the app is the client beside an arbitrary holder of
  the token, so `RetryArmedHolds`, `FlagsAgreeHolds` and `OneChannelHolds`
  are proved once, of the client. OneChannel without haste
  is inductive with its last conjunct, that a pending timer excludes a channel.
  `SessionTypeCorrect`; `HomeNeedsTokenHolds` (a sign-out under way still has its
  screen, or the guard has been passed since); `StoredTogetherHolds` (of those who
  write at most one is between two writes, or `mixed` says otherwise).

Every safety property of the passing runs is a theorem, so is each refinement.
Checked by TLC only: liveness (`ClosedEnds`, `WritePumpEnds`, `QueuedArrives`,
`HandlersReturn`, `EventuallyMatched`, `EveryRequestAnswered`, `Reconnects`), since
fairness and ENABLED are outside the prover. That `MCDelivery` has one connection
per user, which never sees its channel closed for a successor, is no gap in the
safety results: the theorems have any number of connections, and
`MCDeliveryLive` has two.

## 5. Disagreements between the code and what it says

| run | property | what happens |
|---|---|---|
| `MCDeliveryPanic` | `SendReturns` | a handler looks up a client, the hub closes that client's channel, the handler sends on it: panic, and the server ends. The comment of SendToUser says that it returns |
| `MCHubGhost` | `OnlyActiveMapped` | a client that leaves at once may be unregistered before it is registered; it then stays in the map and counts as online until its user connects again |
| `MCDeliveryCleared` | `OfflineSentThenCleared` | deliverOfflineMessages finds the user not yet registered, sends nothing, and deletes the list. A message pushed between the load and the delete is lost in the same way |
| `MCDeliveryFrame` | `OneMessagePerFrame` | two queued messages leave in one frame, joined by a newline; the protocol, and the app's `jsonDecode`, expect one object |
| `MCDeliveryLost` | `DeliveredOrKept` | the channel of a connection that is already dead accepts a message, which nobody will write or store |
| `MCMatchingTwice` | `OneMatchRecord` | two simultaneous right swipes both find the other and each saves a match |

How far they go is proved for three of them and bounded for a fourth.
`PanicsExplained`: the panic needs a connection whose channel the hub closed, and the
hub closes one only after it broke or its user connected again. `GhostsExplained`:
nothing but the inverted order of the two requests makes a ghost.
`DeliveredUnlessBroken`: if no connection of the addressee breaks and no call to store
the text fails, what `DeliveredOrKept` says is so. `FramesBoundedHolds`: a frame has
at least one message and at most `SendCap + 1`. `OneMatchRecord` fails without
concurrency too: a right swipe repeated after the match saves a second record.

## 6. Not modelled

- im-server: pub/sub (nothing publishes), token validation (stateless; the user of a
  connection is taken as given), the JSON codec beyond message types, the logger,
  configuration. Shutdown and restart: a behaviour ends at a panic or with
  the process, and nothing in the source recovers what was in memory. Also left out:
  messages a peer sends under the id of a text that is another user's, and receipts
  for what was not shown.
- backend: S3StorageService (a placeholder that throws, provided by no module),
  configuration, the expiry of tokens (after 7 days a token is refused for its age).
  Of updates whose bodies bring the id or the user of another profile, the steps are
  modelled and nothing is claimed. Users who swipe on themselves, which the service
  does not refuse and no card suggests. The upload limit is the code's 10 MB.
- app: the remaining methods of the API client (one request and one decoding each),
  the models, the validation of forms, and the screens over placeholder data. An
  answer of login or register is what the screens take it for: a token with or
  without an id, or an error. The names and paths the app uses differ from the
  backend's in places (it reads `token` where the backend answers
  `data.accessToken`), so the app and the backend are not composed: at this
  commit no answer of the backend would sign the app in.
- nginx and docker-compose: configuration.

## 7. What is left

1. A crash and restart of `Delivery` that keeps the two stores: which of the
   safety properties survive it.
2. `WireFormat`: the server's codec against the app's models, as pure functions
   against a reference.
3. `WsService` composed with `Hub`, once the app calls connect: a replaced
   connection is closed by the server, whose close makes the app reconnect.
4. A cluster of im-server nodes over the pub/sub channel, once something publishes.
5. An abstract channel per connection, which `Delivery` implements, with `InOrder` as
   its promise: the lemmas of `DeliveryProofs` are most of its proof.
