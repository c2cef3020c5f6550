# room-chat in TLA+

room-chat is a chat server in Go: clients connect over websockets, log in with
the credentials of a registered account, join and leave channels and send
messages to them. Messages are stored in Elasticsearch, accounts in Postgres;
an HTTP and a gRPC API register and update accounts and list a channel's
messages. This directory specifies the program in TLA+, checks the
specifications with TLC and proves theorems about them with TLAPS.

## 1. Inventory

| part | code | state | operations |
|---|---|---|---|
| hub | `internal/server/server.go` | `clients`, `mu`, unbuffered channels `register`, `unregister`, `dispatchMessage` | `Run` receives one thing at a time: `addClient`, `removeClient`, `handleLogin`, `handleJoinChannel`, `handleSendMessage`, `handleLeaveChannel` |
| connection | `internal/connection/client.go` | `user`, `authenticated`, `send` (256 messages) | reader goroutine `ReadMessages`, writer goroutine `WriteMessages`, `Authenticate` |
| sessions | `internal/user/manager.go`, `user.go` | username to `User`; a `User` has connections and channel names | `AddClientToUser`, `RemoveClientFromUser`, `SendEvent` |
| channels | `internal/channels` | name to `Channel`; a `Channel` has usernames | `GetOrCreate`, `AddUser`, `RemoveUser`, `Delete`, `IsUserAMember`, the pushes |
| accounts | `internal/user/users.go`, `repository.go` | Postgres table `users` | `Register`, `Login`, `UpdateProfile` |
| message index | `internal/elastic/elastic.go` | Elasticsearch index | `IndexMessage` (with retries), `ListDocuments`, `GetMessageStats` |
| HTTP API | `internal/server/http_*.go` | none of its own | register, update, list messages; basic auth |
| gRPC API | `internal/server/grpc.go` | none of its own | the same, and statistics |
| tokens | `internal/utils/utils.go` | none | `ParseBasicAuth` |
| wire protocol | `internal/protocol/message.go` | none | kinds of messages, validation |
| test client | `test/internal/websocket/client.go` | pending requests, pushes | reads one JSON value per frame |
| start-up, configuration, error tables, generated code | | none | |

How they interact. Every connection has a reader and a writer. The reader
checks a frame, stamps it with the connection's user and hands it to the hub
over an unbuffered channel. The hub carries out the whole request, waits
included, before it receives again: it answers with a *blocking* send into the
requester's `send` channel and pushes to all members with *non-blocking* sends
into theirs. The writer empties `send` into the socket and returns when a write
fails or `send` is closed; `send` is closed only by the hub, when the reader has
ended and unregistered. The HTTP and gRPC handlers run on goroutines of their
own and read the channel registry that the hub writes.

What is hard. A request is checked and stamped before it waits for the hub, and
handled afterwards. Membership is stored twice (`Channel.users`,
`User.channels`), sessions three times (`clients`, `SessionManager.users`,
`User.connections`), under different locks. A user has any number of
connections, and only the last one to go ends his session and his memberships.
The hub can block on a connection that is dying. `Authenticate` writes two
fields without the lock their readers take. Postgres and Elasticsearch fail in
ways that leave the outcome open.

What correctness means, per part:

- hub: it always returns to its `select`; every request is answered; it never
  panics; it keeps no lock.
- connection: its channel is never overfilled nor used after it is closed; a
  dead connection is removed.
- sessions: a session exists exactly while it has a connection, and a connection
  belongs to the session of the user it logged in as.
- channels: members are present users; a channel exists exactly while it has
  members; a message reaches a channel under its sender's name.
- accounts: usernames and nicks are unique; an operation reported done is done.
- index: a message that was pushed is stored, once.
- APIs: messages are listed only to members, judged at a definite moment.

`PROJECT.json` lists the hazards at their lines.

## 2. Plan

1. `Rooms` (done): the abstract promise of presence and membership.
2. `Server` (done): hub, connections, sessions and channels in one module,
   because they share every step; `MCServer` instantiates it, `ServerProofs`
   proves it correct and an implementation of `Rooms`.
3. `Profiles` (done): accounts against Postgres, concurrent calls over both APIs,
   statements lost and late, crashes; `MCProfiles` instantiates it,
   `ProfilesProofs` proves it.
4. `Archive` (done): the abstract promise of the message index to a sender.
5. `Indexer` (done): `IndexMessage` with its retries, and the two queries, against an
   Elasticsearch that carries requests out late, twice or never.
6. `History` (done): composes `Indexer` with the hub and with channel *objects*
   (deleted, and created anew), seen by API calls that take an object under one lock
   and ask it under another. `MCHistory` instantiates it.
7. `Delivery` (done): contents and order of the send channels, frames, and what a
   peer takes from them. `MCDelivery` instantiates it.
8. `HistoryProofs`, `DeliveryProofs` (done): their safety properties for all values of
   the constants, and that `Indexer` implements `Archive`.
9. `SumLemmas` (done): what a sum over a finite function is, and with it
   `StatsCountMessages` for all values of the constants.
10. `BasicAuth` (done): the parser of headers, used by `Profiles`.
11. `Accounts` (done): the abstract promise of the users table, which `Profiles` is
   checked and proved to implement.
12. Done in the proofs: what `Server` keeps to in every build (`PanicsKnown`, `WedgeIsFinal`,
   `NoCircularWait`, `NamesNeverAnothers`), that nobody waits in a circle in `Delivery`
   (`NeverStuck`), and that the hub's handlers end (`HubStepsBounded`, `IndexingBounded`).
13. Left: that `Delivery`'s send channels implement those of `Server`, of which it knows the
   length only.

## 3. Modules

### Rooms

A user is present while he has a live connection. Only a present user joins or
leaves; when the last connection goes he is evicted from every channel before he
can come back. `SafeSpec` is the safety part; `Spec` adds that evictions happen.

### Server

State and code:

| variable | code |
|---|---|
| `clients` | `Server.clients` |
| `sessions`, `conns`, `joined` | keys of `SessionManager.users`; `User.connections`, `User.channels` of each |
| `table`, `members` | keys of `Channels.channels`; `Channel.users` of each |
| `user`, `auth` | `Client.user`, `Client.authenticated` |
| `queue`, `closed` | length of `Client.send`; whether it is closed |
| `reader`, `asked`, `stamp` | where `ReadMessages` (before it, `ServeWS`) is; kind and `User` of the message it holds |
| `writer`, `batch` | where `WriteMessages` is; its `n - i` |
| `hub` | where `Run` is, with the locals it still needs: client, channel, user, channels left to evict from |
| `rlocks` | read locks of `Server.mu` that no one will release |
| `panicked` | the process died |

An action is one stretch of a goroutine between two points where it can block or
where another goroutine can tell the difference. A handler is therefore an action
for what it does on receipt (`HandleJoinChannel`, ...) followed by `Reply`,
`Push`, `CleanupEmptyChannel`, and for a disconnection `RemoveClient`, `Detach`,
`Evict` per channel, `EvictDone`. Merging steps is sound here for these reasons:

- Registry writes within one action: only the hub reads or writes `clients`,
  sessions, memberships and channels in this module. (The API handlers, which
  also read channels, are in `History`.)
- A push is one action although it visits one connection after another: each
  visit touches one queue, and only that connection's own goroutines touch it
  besides, so the visits commute with everything between them.
- `Server.mu` is taken by the hub alone. It can only fail to get it if an earlier
  read lock was never released; actions that lock need `rlocks = 0`.

Abstractions, all of them in the data: a message is its kind (`login`, `request`,
`other`) and stamped user; channel and token are chosen when the hub receives it,
which is the first time anything depends on them. A frame that is not JSON, not
allowed or too long is `ReadRefused` or `ReadError`. A token is a user's
credentials, one that is refused (wrong password, unknown user, not decodable,
database down), or one that is too short. `IndexMessage` succeeds or fails
(its retries are in `Indexer`). Deadlines, pings and the network are the freedom of
`ReadError` and `WriterFail` to happen at any time. A connection is used again,
as a new one, when nothing in the program refers to it any more.

The data race in `Authenticate` is the constant `Racy`. If it is TRUE, then while
the hub is in `Authenticate` the connection's reader may see either value of
`authenticated`, and as `user` the empty string, the name, or `Torn`: a string
header written by half, which crashes whoever hashes or marshals it. The window
ends with the hub's next lock operation, which orders the stores. FALSE stands
for stores seen whole and in program order. (A torn name that is only logged does
no harm: `log/slog` recovers from it.)

`HandleOther` is the switch of `handleMessage` when no case fits. The reader's validation lets no
such action pass, so the program never gets there; the action only adds behaviours to the
model, and what is proved of those holds of the program.

Definitions marked `\* mutant` are broken variants of the definition below them.
No specification uses them; they show that the properties can fail.

### BasicAuth

A text is a sequence of characters, one of which is the colon. `GetEncodedBase64Token` joins
name and password, `ParseBasicAuth` cuts at the first colon, as `strings.Cut` and the
parser of `net/http` do. Prefix and base64 are left out: a header that does not decode
fares as one without a colon. (A header too short for the slice is in `Server`.) A
password may hold colons; a name may not, although nothing refuses to register it: its
owner can never log in.

### Accounts

The users table as its callers may think of it: accounts that stay and differ from one another in id,
username and nick; registrations that are reported only for an account that is there; wishes
for a new nick, each made with an account's credentials, that come true or to nothing
at any later time. `Profiles` implements it: `users` are the accounts, `told` the reports, and
every call in an UPDATE, waiting or left behind, is a wish (`Wishes`).

### Profiles

A call (a request on a goroutine of the HTTP or gRPC server) waits in one statement
at a time.

| variable | code |
|---|---|
| `users` | the table `users`: id, username, password hash, nick |
| `calls` | per call: the statement it waits in (`at`), its API, the fields of the request, the id that the login put into the context, the last reply |
| `told` | no variable of the code: credentials whose registration was answered as done |

A login looks up what `BasicAuth` makes of the header, so name and password of a call in
`GetByUsername` may be any text. `known` in `calls` (no variable of the code either) says that
the header was made from credentials in `told` whose name has no colon.

`HandleRegister` and `Login` are calls coming in, up to the first statement;
`GetByUsername` is the answer to the SELECT, the password check and the handler up
to its UPDATE; `Finish` is Postgres carrying out the INSERT or UPDATE and the reply;
`Fail` a statement that ends in an error, and the reply. The replies follow the code:
`CreateReply` and `UpdateReply` are the repository's switches, `LoginReply` and
`StatementReply` the handlers'. HTTP status and gRPC code are folded into one
vocabulary; the APIs differ where the code does (`LoginReply`). A call can give up
while Postgres still works (connection broken, context ended): it is answered at
once and its statement is carried out later or never (`Late`). `Crash` does that to
all calls. A call is used again when nothing is left of it. Postgres and its driver
are external: what the constraints of the migration allow, under any order. So is bcrypt: of
a password it takes the first 72 bytes (`KeyLength`) of the password with a NUL at its end,
repeated (`Key`). It refuses to hash one that is longer (`TooLong`, answered as an internal error), but
compares such a one by what it takes of it. In `Profiles` a password is therefore kept, in the table
and in a call, as its key, and "the credentials of an account" are those that bcrypt cannot
tell from them; salt and rounds are left out. The empty nick is a nick like any other, because
a Go string is never NULL (so the NOT NULL on `nick` and `ErrMissingRequiredFields`
never come into play).

### Archive, Indexer

`Archive` is the promise: a message is taken once and answered once; "sent" is
answered only for a stored message, and what is stored stays; "failed" promises
nothing. `Indexer` is the code:

| variable | code |
|---|---|
| `docs` | the index: documents, each under its id |
| `visible` | the documents that a search finds (those refreshed) |
| `inFlight` | requests that may still be carried out, answered or not |
| `answer` | per message, the result of `IndexMessage`; "taken" while it runs |
| `retries` | `attempt` inside `retry.Do` |

`IndexFails` is every failed attempt: a transport error and an error in the answer
are both wrapped as retryable. Nothing follows from a failure about the document:
its request stays in `inFlight` and `Write` may carry it out at any later time.
`IndexDone` needs the document in the index, which is what a successful answer
says. Elasticsearch is external: `Write` replaces a document of the same id,
`Refresh` is per document since each shard refreshes by itself. `ListDocuments` asks for no
number of hits, so it gets a page (`PageSize`; ten is Elasticsearch's default) of
the newest, and any choice among messages stamped alike. A histogram
(`Buckets`) counts the matching documents per interval; a count of 0 stands for a
bucket that is left out.

### History

| variable | code |
|---|---|
| `table` | `Channels.channels`: the object under a name |
| `users` | `Channel.users` of each object |
| `hub` | where the hub is, with its locals |
| `call` | where an API call is, its arguments, the object it holds, and its answer |

Unlike in `Server`, a channel is an object, because a call keeps one while the
hub deletes it or registers another under the name. The hub's handlers are cut
where a call can look in between: `GetOrCreate` before `AddUser`; `RemoveUser` before
the reply, the push and `CleanupEmptyChannel`; each channel of an eviction by
itself. A call is cut at its locks and at the search: `Request`, `GetChannel`,
`HasUser`, then `ListDocuments`, `GetMessageStats` or `SearchFails`. After a search that
failed `HandleListMessages` sends the error and does not return: it writes what
`ListDocuments` returned beside the error as a second body (`SearchError`). An answer
therefore tells how many bodies it has (`bodies`) and which messages are in any of them
(`shown`); that there are none is because `ListDocuments` returns nothing with an error
(`ListedOnError`), and for no other reason.

- One call at a time stands for any number: calls only read, so no call can
  tell whether there are others. Users and arguments are those of `Requests`.
- A request that the hub refuses changes nothing a call can see, so it has no action
  (`Leave` and `SendMessage` by a non-member).
- An eviction is told from memberships instead of `User.channels`: the two agree by
  `MembershipMirrored`, proved in `ServerProofs`.
- Basic auth and the gRPC interceptor are in `Profiles`; a call here has a user. HTTP
  status and gRPC code are folded into one vocabulary; only HTTP refuses an
  empty channel name.
- Which free object stands for a new channel makes no difference (`CHOOSE`).
- `was`, `before` and `touched` in `call` are no variables of the code: membership
  and matching documents when the call came in, and whether the hub changed the
  caller's membership since. A finished call leaves its answer only.

### Delivery

| variable | code |
|---|---|
| `user` | `Client.user` of each connection: all are logged in, any number of them as one user |
| `members` | `Channel.users` of the one channel: users, not connections |
| `clock` | the time that `created_at` is taken from: it goes on with every frame that is read |
| `asked`, `refusing`, `offers` | the frames a reader has read; readers that block in `c.send <- errorMsg`, in `c.dispatchCh <- message` |
| `hub` | the handler the hub is in: request, outcome, reply or push next |
| `queue` | `Client.send` |
| `frame`, `left`, `writer` | the frame under way, `n - i`, where `WriteMessages` is |
| `got` | what the peer has taken from finished frames |
| `made` | no variable of the code: all that was ever put into `queue` |
| `told` | no variable of the code: whom a reply has welcomed to the channel, on any connection of his, and none has let go since |

There is one channel. A user joins or leaves it on one of his connections and `User.SendEvent`
pushes to all of them (`Connections`, `Audience`), also to those that asked for
nothing, as `multiple_sessions_test.go` wants it. Logging in and the end of a connection are
`Server`'s. Of `created_at` the model has the order only: two frames are not stamped with the
same time and the clock does not go back. A frame that is not JSON, not valid or sent before login is
refused by the reader, past the hub; a second login fares as any other request
answered with an error. Leave pushes of an eviction are left out: like
those of `leave` they go to the remaining members, and nobody is answered. Neither
a refusal nor a push carries a request id in the code; their `n` only lets the
properties tell them apart. A push to all members is one action, as in `Server`.
`OnePerFrame` says how the peer reads: every line of a frame, or one value, as
`ReadJSON` in the test client does.

### The MC modules

Give the constants their values: connections, users, channels, calls, ids, names
are model values, and those without a structure are interchangeable in the safety runs of
`Server` and `Profiles`.

## 4. What the runs check

| run | instance | question |
|---|---|---|
| `server_safety` | 2 connections, 2 users, 2 channels, channels of 2 messages | all safety properties, and that every request is answered |
| `server_racy` | 2 connections, 2 users, 1 channel, 1 message, racy, any token | whose name can a request bear in the race, and of what does the process die? |
| `hub_progress` | 2 connections, 1 user, 1 channel, 1 message | does the hub implement `Rooms`, and always return? |
| `server_liveness` | the same | is a dead connection always removed? |
| `profiles_safety` | 2 calls, 2 usernames (`a`, `a:`), 3 passwords (`b`, `:b`, `:ba`), of which bcrypt takes 2 characters, 2 nicks, 2 ids | all properties of `Profiles`, and does it implement `Accounts`? |
| `history` | 2 messages, 2 users, a channel and the one named "", 2 objects, 1 retry, pages of 1, 5 kinds of request | all properties of `History`, and does the index implement `Archive`? |
| `delivery` | 2 connections, of 1 user or of 2, 3 requests, at most 1 of them by `c2`, channels of 1 message, all initial memberships, `c1` may break | all properties of `Delivery` |
| `hub_wedged`, `author_lost`, `short_token_panics`, `update_lost`, `frame_lost` | small | the findings below |

Why the bounds are enough. Two connections are both "two sessions of one user"
and "two users"; a reused connection is a third and later one. Two users in one
channel give joins, leaves and evictions that leave the channel inhabited or
empty, and two channels an eviction of more than one. A channel of one message is
full and empty in turn; with two, a writer drains a batch while the hub refills
it. Two calls race for one name, or one races with the late statement of
the other, which is given up and reused. The names and passwords are such that a colon in
the password of one makes the header that a colon in the name of the other makes, and one
password is too long to be registered and begins with another that is not. An id for every username is enough, since
no row goes. In `history`, one retry is a request and its repetition, late or double
(the code's three add no other order); two objects are the one a call holds and the
one that replaces it, and a third could only be needed by a second call; two
messages fill a page of one and leave one out. In `delivery`, three requests are
two of one connection with one of the other between them, or three of one (`MostOfOne`: of three
requests one connection has at least two, and the connections are interchangeable, so
it is `c1` that has them), and with a channel of one
message every push can be dropped, every reply can wait and a frame can still
hold two. Two connections of one user are one that acts and one that is pushed what the other
brings about; with two users they are a member and another who comes and goes. Only the connection
that asks more may break (`MayFail`): what else can happen after a writer has failed is
covered by the theorems on `Delivery`, and `EveryFrameAnswered` asks nothing then. For the safety properties nothing rests on the bounds, but for the
ones that section 6 calls model-checked: the theorems hold for all of them.

The properties:

- `SessionsMatchConnections`, `MembershipMirrored`, `NoGhostMembers`,
  `ChannelsInhabited` tie the copies of the registries together.
- `NoPanic`: no send on a closed channel, no nil user in `handleLeaveChannel`.
- `OnlyKnownPanics`: in any build and for any token, the process dies of a short
  token or of a name read while it was stored, and of nothing else.
- `WedgedForever`: a hub that waits for a connection whose writer has ended stays there,
  and no registry changes any more.
- `NoLeakedReadLock`: the two `continue`s of `removeUserFromAllChannels` that skip
  the `RUnlock` are never reached. The code is wrong there, but unreachable.
- `RequestHasSession`, `AuthorIsSender`, `EveryRequestAnswered`: what was stamped
  before the wait is still true after it.
- `NeverAnothersName`: whatever a reader sees of the stores of a login, what it stamps is
  none, garbage or its own user's name, never that of another who might be a member
  of other channels; and `join` takes the own user only.
- `Presence`: `Server` implements `Rooms`, evictions happening included.
- `AccountsUnique`, `KeepsAccounts`: what registrations and renames leave, whoever races, gives
  up or crashes; `KeepsAccounts` is the refinement of `Accounts`.
- `LetInAsOwner`, `OnlyOwnerRenames`: the id read at login is used in a later statement,
  possibly much later; it must hit the caller's own account.
- `GrpcRefusalIsTrue`, `AnsweredUpdateDone`: replies say what happened.
- `OneDocument`, `KeepsPromise`: what retries, late and repeated requests leave in the
  index, and what the sender was told of it.
- `AuthorStaysMember`: the membership checked before the wait for Elasticsearch
  still holds when the push goes out.
- `UndisturbedDecision`, `AdmittedAsMember`: `IsUserAMember` looks twice, at a name and at
  an object; the decision is right all the same, and nobody gets in through an
  object that was replaced.
- `ListingIsSound`, `FreshListing`, `StatsCountMessages`: what a listing shows, must show,
  and how often a message counts. `ListingIsSound` also says where a call is answered with
  two bodies, and that neither of them shows anything.
- `NothingLost`: a send channel, filled by the hub and a reader while a writer cuts it into frames,
  passes everything on once and in order.
- `ReplyOrder`, `ReplyBeforePush`, `PushOrder`: the order that
  clients can build on, and that no frame is answered twice, across blocking replies, refusals past the hub and
  droppable pushes. `PushOrder` includes that what one connection sent is pushed in the order of
  its `created_at`, by which a listing is sorted; of two connections that is not so.
- `PushesAsTold`: a push goes to all connections of the users who were told, on any
  connection of theirs, that they are members and not since that they left, and to no others:
  what a user does on one connection decides what his others are sent.
- `EveryFrameAnswered`: every frame is answered unless a writer fails; a writer that counted
  more than is queued would block in its drain.
- `HubReturns`, `DeadConnectionRemoved`: progress, with the one way to lose it
  (`Wedged`, a blocked refusal) named in the property. `HubReturns` of `History` says the
  same of retries and evictions.

`CHECK_DEADLOCK FALSE` is set because the hub really can stop: wedged, or dead
of a panic.

### Fairness

`HubFairSpec` owes the hub's own steps (strong: Go serves blocked senders in the
order of arrival, so a hub that waits for room is not overtaken for ever) and the
writers' (weak: a write ends within `WriteWait`, one way or the other). It
assumes that Elasticsearch and Postgres answer at last; the code sets no deadline.
`FairSpec` adds that the hub receives what is offered to it again and again
(`select` chooses at random, senders on one channel are first come, first served),
that a reader gets on with a frame it has read, and that reading from a
connection that the writer has closed fails at last. Nothing is owed by clients
or the network.

`History` owes the hub's steps once it has taken a request (`HubGoesOn`, weak), which
includes that a request to Elasticsearch is answered or fails at last; not that
it is carried out, nor that calls go on. `Delivery` owes the hub's replies and pushes, the
writers' steps, and that a waiting request or refusal gets its turn (weak: there are
finitely many requests, so nobody is overtaken for ever).

## 5. Findings

- **A dying connection stops the server** (`hub_wedged`). `sendResponse` and
  `sendError` block the hub on the requester's `send` channel. If that connection's
  writer has returned with the channel full, nobody will ever receive from it,
  and its reader cannot unregister since the hub is not listening. The run ends
  in a state where another request waits for ever.
- **A message without an author** (`author_lost`). `Authenticate` stores `user` and
  `authenticated` without the mutex that `GetUser` and `IsAuthenticated` take. A reader that sees
  the second without the first stamps the empty name; if the user is in the
  channel through another connection, the message is indexed and pushed so.
- **An update that was not made is reported as made** (`update_lost`). `Update` returns
  an error only for `sql.ErrNoRows` and PgErrors; when the connection fails it
  returns an empty profile and no error.
- **What stands behind in a frame is lost to the repository's own client**
  (`frame_lost`). `WriteMessages` joins what is queued into one websocket message; the
  test client decodes one JSON value per websocket message. A push or a reply that
  the writer finds queued behind another is never seen; a welcome and the push of
  the same join are enough.
- **A short token ends the process** (`short_token_panics`). `ParseBasicAuth` slices
  from a fixed offset without looking at the length.

## 6. Proofs

`ServerProofs` proves, for every number of connections, users, channels and
buffer slots:

- for any memory model and any tokens: `TypeCorrect`, `SessionsCorrect`,
  `MirrorCorrect`, `MembersPresent`, `ChannelsCorrect`, `LocksReleased`, `PanicsKnown`,
  `WedgeIsFinal`, `NoCircularWait`, `NamesNeverAnothers`, `HubStepsBounded`, and
  `ImplementsRooms` (`Spec => Promise!SafeSpec`);
- for stores in order (`~Racy`) and any tokens: `RequestsHaveSessions`, `AuthorsCorrect`;
- for `Benign` instances (`~Racy`, no short token): `PanicFree`, `RequestsAnswered`.

`ProfilesProofs` proves, for any calls, ids, usernames, passwords, nicks and key length:
`ProfilesTypeCorrect`, `AccountsAlwaysUnique`, `RegistrationsStay`, `LetInAlwaysOwner`,
`OwnersRename`, `AnsweredUpdatesDone`, `GrpcRefusalsTrue` and `ImplementsAccounts`
(`Spec => KeepsAccounts`). Its invariant adds that a
waiting call has all its statement needs (`Filled`; a registration a name and a password that
are not empty), that known credentials are an
account's (`KnownIsAccount`) and that only INSERT and UPDATE are left behind; a second
one says that a call in `GetByUsername` has no reply yet (`SelectsUnanswered`). Every step keeps id, username and password of
every row (`RowsKept`), from which the rest follows. In the refinement an INSERT that Postgres
carries out is a registration, an UPDATE a wish that comes true (`LetInAsOwner` says that the
row it hits is the one whose credentials the wish was made with), and a call that is answered
otherwise drops its wish, unless another call has the same (`WishEnded`). That known credentials are an account's
rests on the parser: `TokenRoundTrip` says that it gives back what was joined if the name
has no colon, `ParsedHeader` that it loses nothing of any header. (The first colon exists
because `<` on the naturals is well-founded.)

The argument for `Server`. None of the properties is inductive by itself: each depends on
where the hub is. `IInv` adds to them

- `HubOK`: which of its locals the hub needs at which place;
- `ReadersOK`: the hub knows a client exactly while its reader runs, its channel is
  closed only after the reader has ended, and a client that the hub is answering
  is known (so an answer never meets a closed channel);
- `AccountsOK`: a connection has a user once it is authenticated; the hub logs in
  only a connection that has none, and detaches only one it has forgotten;
- `PresenceOK`: memberships outlive a session only while the hub revokes them, and
  its list of channels to revoke is then exactly what the user had joined. This is
  what makes the lock-leaking branches unreachable (`EvictTakes`): a channel on the
  list is in `joined`, hence (mirror) the user is a member, hence the channel is
  registered.

`JInv` adds `StampsOK`, what a waiting request and a message under way carry; it is
inductive for `~Racy`, whatever tokens are sent, because a short token ends the process
before anything is stored. `PanicsKnown` needs `IInv` only: each send of the hub meets an open
channel and each leave a session, so what is left of `panicked'` is the token and the
torn name. `WedgeIsFinal` is an action property: an ended writer does not start again while
the hub holds the connection, and only its writer could make room. `NoCircularWait` adds
`WritersOK` (a known client's writer was started, and what it counted is still queued) and shows that a busy hub can
take a step, or waits for a writer that can, or is wedged, and a refusing reader likewise: so
what `HubReturns` and `DeadConnectionRemoved` need beyond it is scheduling, and that is fairness.
`HubStepsBounded` is the rest of the safety half of `HubReturns`: `HubRank`, the channels
left to evict from plus what follows them, is a natural number that every step of the hub outside its
`select` lowers and no other step changes, so no handler goes on for ever. A session has
finitely many channels (`FinitelyJoined`) because each join adds one. `NamesNeverAnothers`
needs `IInv`: a connection's `user` is set once, so what a reader saw of a login that is
under way is still its connection's when the message is taken.

There is one lemma per action or group of actions, and in it one step per part
of the invariant.

`HistoryProofs` proves, for any users, messages, objects, kinds of request, number of
retries and page size: `HistoryTypeCorrect`, `DocumentsUnique`, `AuthorsRemain`,
`DecisionsRight`, `AdmittedMembers`, `ListingsSound`, `ListingsFresh`, and
`StatisticsCount` and `ImplementsArchive` (`Spec => KeepsPromise`). The queries read three things at three
moments: the table, an object, the index. Its invariant therefore says what the hub may
have done in between: which members the hub's place implies (`HubOK`), what an answer to
a sender implies of the index (`AnswersOK`), that an object is registered under its own
name only (`OneName`), that an object that a call still holds either is the registered
one or has nobody left in it (`HeldOK`; `CleanupEmptyChannel` deletes only empty
channels), and that what a call noted when it came in is still in the index (`NotesOK`;
documents are added, never removed). From `HeldOK` it follows that the second look of
`IsUserAMember` cannot let in somebody whom the first would have refused.

`IndexingBounded` is for this module what `HubStepsBounded` is for `Server`, retries included;
the rank counts the channels that the hub's user is still in.

`StatisticsCount` says that the buckets of a histogram add up to the number of matching
messages. The sum is a fold of the community modules, and induction over data is out of the
prover's reach; `SumLemmas` does without it, by a smallest counterexample: among the
subsets of a finite set on which two sums differ, or which have none, one contains
no other (strict inclusion is well-founded there), and taking one element from it
contradicts that. So sums exist and are unique, a sum over a function is the fold, and the
sizes of disjoint buckets add up to the size of their union (`BucketsAddUp`).

`DeliveryProofs` proves, for any connections, any number of them per user, number of requests and capacity:
`DeliveryTypeCorrect`, `RepliesInOrder`, `RepliedFirst`, `PushesInOrder`, `PushedMembers`,
and `FramesCarryAll`, which is `NothingLost` for a peer that reads whole frames
(`~OnePerFrame`; for one that does not, `frame_lost` shows the opposite). What the
properties say of `made` depends on who is about to add to it. The invariant adds that
a reader has one frame in hand, its last (`OffersOK`), that every frame is answered
or in the hands of the reader or the hub (`FramesOK`, from which at most one request
can be overtaken by a refusal), that a waiting request is younger than all that was
made (`MadeOK`, from which replies and pushes are in order), that a waiting or handled request of one
connection has a later time than its pushes so far, and none a time to come (`StampsOK`), and that the hub pushes
after its reply, when `members` and `told` agree: they differ only while a reply about a membership
waits for room (`HubOK`), so `PushesAsTold` holds for connections that asked for nothing, too. The hub and a reader add to a send
channel in one way (`Put`), so each property has one lemma about `Put` and the actions
only supply its hypotheses.

`DrainNeverBlocks` and `NeverStuck` are about waiting. `WritersOK` says that a writer that has
counted what is queued has at least as much to receive (the hub and the reader only add,
and nobody else takes), so the loop that fills a frame never blocks. `NeverStuck`: while no
writer has failed, somebody can take a step, or every frame has been answered and the
answer read. What `EveryFrameAnswered` needs beyond it is fairness, and stays with TLC.

The assumptions are those on the constants in `Server` (named, evaluated by TLC
in every run): the special values differ from users, connections and channels,
and `SendCap` is positive; in `Profiles`, that `NoId` is no id and `KeyLength` a number; in `Indexer` and `History`, that
there are finitely many messages, with their fields, that special values are no users,
channels, objects or messages, and that numbers are naturals; in `Delivery`, that `SendCap` is
positive and the rest have their types (a login function tells of every connection); in `BasicAuth` and `Profiles`, that the colon is a
character and names and passwords are texts that are not empty.

Only model-checked: the liveness properties `HubReturns` (of `Server` and of `History`),
`DeadConnectionRemoved`, `EveryFrameAnswered` and the liveness part of `Presence`, since
liveness under fairness is out of the prover's reach (of `HubReturns` the part that needs no
fairness is proved: no circular wait, and boundedly many steps). The properties of the runs that expect a
violation are false of the code, and are stated by no theorem in that generality.

## 7. Not modelled

Left out for good: configuration, start-up and database connection (sequential, no
later state), generated protobuf code, logging, the wording of replies, length
limits and the JSON form of messages (folded into "refused"), the test client's table
of pending requests, the base64 of headers. A channel name that is used again after its channel was deleted
shows the older messages to the new members; `History` allows it, and no document of
the repository says otherwise.
