------------------------------- MODULE Server -------------------------------
(***************************************************************************)
(* The websocket side of room-chat.  One hub goroutine (Server.Run) owns   *)
(* the connections, the sessions and the channels.  Every connection adds  *)
(* a reader and a writer goroutine: the reader hands requests to the hub   *)
(* over an unbuffered channel, the hub answers into the connection's       *)
(* buffered send channel, the writer empties that channel into the socket. *)
(*                                                                         *)
(* Of a message only the kind and the stamped author are kept, of a send   *)
(* channel only its length.  A hub step runs from one point where it can   *)
(* block (or where another goroutine can tell) to the next.                *)
(***************************************************************************)
EXTENDS Naturals, FiniteSets

CONSTANTS Clients,     \* connections; one is reused when nothing refers to it any more
          Users,       \* registered usernames
          Channels,    \* channel names
          SendCap,     \* capacity of a send channel (256 in NewClient)
          Tokens,      \* the login tokens that clients present
          NoUser,      \* the empty username of a connection not logged in
          Torn,        \* a username read while it was being written
          None,        \* no connection, no channel
          BadToken,    \* any token that ends in an error reply
          ShortToken,  \* a token shorter than "Basic "
          Racy         \* can a reader see the stores of Authenticate in part?

ASSUME SendCapAssumption == SendCap \in Nat \ {0}
ASSUME RacyAssumption == Racy \in BOOLEAN
ASSUME TokensAssumption == Tokens \subseteq Users \cup {BadToken, ShortToken}
ASSUME TokenNamesAssumption == BadToken \notin Users /\ ShortToken \notin Users
ASSUME UserNamesAssumption == NoUser \notin Users /\ Torn \notin Users /\ Torn # NoUser
ASSUME NoneAssumption == None \notin Clients /\ None \notin Channels

VARIABLES clients,    \* Server.clients
          sessions,   \* the keys of SessionManager.users
          conns,      \* User.connections of each session
          joined,     \* User.channels of each session
          table,      \* the keys of Channels.channels
          members,    \* Channel.users of each channel
          user,       \* Client.user
          auth,       \* Client.authenticated
          queue,      \* number of messages in Client.send
          closed,     \* connections whose send channel is closed
          reader,     \* where ReadMessages is ("register": where ServeWS is)
          asked,      \* the kind of request the reader holds
          stamp,      \* message.User of the request the reader holds
          writer,     \* where WriteMessages is
          batch,      \* messages WriteMessages still adds to its frame
          hub,        \* where Run is, and the locals it still needs there
          rlocks,     \* read locks on Server.mu that nobody will release
          panicked    \* the process died of an unrecovered panic

registry == <<clients, sessions, conns, joined, table, members>>
accounts == <<user, auth>>
buffers  == <<queue, closed>>
readers  == <<reader, asked, stamp>>
writers  == <<writer, batch>>
vars == <<registry, accounts, buffers, readers, writers, hub, rlocks, panicked>>

Replies == {"reply", "joinReply", "sendReply", "leaveReply"}
Pushes  == {"joinPush", "sendPush", "leavePush", "evictPush"}
Cleanups == {"leaveCleanup", "evictCleanup"}
Removals == {"leaveReply", "leavePush", "evictPush"}  \* on the way to a cleanup
HubAt == {"select", "authenticate", "index", "detach", "evict"}
         \cup Replies \cup Pushes \cup Cleanups

Kinds == {"login", "request", "other"}

Hub(at, c, ch, u, todo) == [at |-> at, c |-> c, ch |-> ch, u |-> u, todo |-> todo]
Idle == Hub("select", None, None, NoUser, {})
HubGoes(at) == hub' = [hub EXCEPT !.at = at]

-----------------------------------------------------------------------------
Init == /\ clients = {} /\ sessions = {} /\ table = {} /\ closed = {}
        /\ conns = [u \in Users |-> {}]
        /\ joined = [u \in Users |-> {}]
        /\ members = [ch \in Channels |-> {}]
        /\ user = [c \in Clients |-> NoUser]
        /\ auth = [c \in Clients |-> FALSE]
        /\ queue = [c \in Clients |-> 0]
        /\ reader = [c \in Clients |-> "none"]
        /\ asked = [c \in Clients |-> "other"]
        /\ stamp = [c \in Clients |-> NoUser]
        /\ writer = [c \in Clients |-> "off"]
        /\ batch = [c \in Clients |-> 0]
        /\ hub = Idle
        /\ rlocks = 0
        /\ panicked = FALSE

-----------------------------------------------------------------------------
(* What the goroutine of a connection can see of Client.user and           *)
(* Client.authenticated.  Authenticate stores both without taking the lock *)
(* that the getters take, so while the hub is in it a reader may see the   *)
(* stores in either order, and only half of the string header.             *)
Storing(c) == Racy /\ hub.at = "authenticate" /\ hub.c = c
SeesAuth(c) == IF Storing(c) THEN BOOLEAN ELSE {auth[c]}
SeesUser(c) == IF Storing(c) THEN {NoUser, Torn, hub.u} ELSE {user[c]}

-----------------------------------------------------------------------------
(* The reader.                                                             *)

Unreferenced(c) == /\ reader[c] \in {"none", "done"}
                   /\ writer[c] \in {"off", "exited"}
                   /\ hub.c # c
                   /\ c \notin clients
                   /\ \A u \in Users : c \notin conns[u]

NewClient(c) == /\ user' = [user EXCEPT ![c] = NoUser]
                /\ auth' = [auth EXCEPT ![c] = FALSE]
                /\ queue' = [queue EXCEPT ![c] = 0]
                /\ closed' = closed \ {c}

(* ServeWS upgrades a request and offers the new client to the hub.        *)
ServeWS(c) == /\ Unreferenced(c)
              /\ reader' = [reader EXCEPT ![c] = "register"]
              /\ asked' = [asked EXCEPT ![c] = "other"]
              /\ stamp' = [stamp EXCEPT ![c] = NoUser]
              /\ writer' = [writer EXCEPT ![c] = "off"]
              /\ batch' = [batch EXCEPT ![c] = 0]
              /\ NewClient(c)
              /\ UNCHANGED <<registry, hub, rlocks, panicked>>

(* A frame that is refused on the spot: not JSON, not logged in, invalid.  *)
ReadRefused(c) == /\ reader[c] = "read"
                  /\ reader' = [reader EXCEPT ![c] = "refuse"]
                  /\ UNCHANGED <<registry, accounts, buffers, asked, stamp,
                                 writers, hub, rlocks, panicked>>

(* A frame that passes: a login always does, the rest needs a login first. *)
ReadRequest(c, kind) ==
  /\ reader[c] = "read"
  /\ kind = "login" \/ TRUE \in SeesAuth(c)
  /\ reader' = [reader EXCEPT ![c] = "stamp"]
  /\ asked' = [asked EXCEPT ![c] = kind]
  /\ UNCHANGED <<registry, accounts, buffers, stamp, writers, hub, rlocks, panicked>>

(* The author is read anew, after the check, and travels with the message. *)
Stamp(c) == /\ reader[c] = "stamp"
            /\ stamp' \in {[stamp EXCEPT ![c] = u] : u \in SeesUser(c)}
            /\ reader' = [reader EXCEPT ![c] = "dispatch"]
            /\ UNCHANGED <<registry, accounts, buffers, asked, writers, hub, rlocks, panicked>>

ReadErrorLeaks(c) == /\ reader[c] = "read"           \* mutant
                     /\ reader' = [reader EXCEPT ![c] = "done"]
                     /\ UNCHANGED <<registry, accounts, buffers, asked, stamp,
                                    writers, hub, rlocks, panicked>>

(* The connection breaks, times out, or the frame is too long.             *)
ReadError(c) == /\ reader[c] = "read"
                /\ reader' = [reader EXCEPT ![c] = "unregister"]
                /\ UNCHANGED <<registry, accounts, buffers, asked, stamp,
                               writers, hub, rlocks, panicked>>

-----------------------------------------------------------------------------
(* Putting a message into a send channel: blocking, and for a set of       *)
(* connections without blocking.                                           *)

HasRoomOffByOne(c) == queue[c] <= SendCap          \* mutant
HasRoom(c) == queue[c] < SendCap

Enqueue(cs) == queue' = [c \in Clients |-> IF c \in cs /\ HasRoom(c)
                                           THEN queue[c] + 1 ELSE queue[c]]

SendsIfRoom(c) == IF c \in closed                   \* mutant
                  THEN panicked' = TRUE /\ UNCHANGED queue
                  ELSE Enqueue({c}) /\ UNCHANGED panicked
SendOn(c) == IF c \in closed
             THEN panicked' = TRUE /\ UNCHANGED queue
             ELSE HasRoom(c) /\ Enqueue({c}) /\ UNCHANGED panicked

(* The reader puts its refusal into its own send channel, and may block.   *)
SendRefusal(c) == /\ reader[c] = "refuse"
                  /\ SendOn(c)
                  /\ reader' = [reader EXCEPT ![c] = "read"]
                  /\ UNCHANGED <<registry, accounts, closed, asked, stamp, writers, hub, rlocks>>

-----------------------------------------------------------------------------
(* The writer.  It ends when a write fails or the send channel is closed   *)
(* and empty; what is queued when a write fails stays queued.              *)

WriterGoes(c, at) == writer' = [writer EXCEPT ![c] = at]

WriterReceive(c) == /\ writer[c] = "wait"
                    /\ queue[c] > 0
                    /\ queue' = [queue EXCEPT ![c] = @ - 1]
                    /\ WriterGoes(c, "write")
                    /\ UNCHANGED <<registry, accounts, closed, readers, batch, hub, rlocks, panicked>>

(* n := len(c.send)                                                        *)
WriterCount(c) == /\ writer[c] = "write"
                  /\ batch' = [batch EXCEPT ![c] = queue[c]]
                  /\ WriterGoes(c, "drain")
                  /\ UNCHANGED <<registry, accounts, buffers, readers, hub, rlocks, panicked>>

WriterDrain(c) == /\ writer[c] = "drain"
                  /\ batch[c] > 0 /\ queue[c] > 0
                  /\ queue' = [queue EXCEPT ![c] = @ - 1]
                  /\ batch' = [batch EXCEPT ![c] = @ - 1]
                  /\ UNCHANGED <<registry, accounts, closed, readers, writer, hub, rlocks, panicked>>

WriterFlush(c) == /\ writer[c] = "drain"
                  /\ batch[c] = 0
                  /\ WriterGoes(c, "wait")
                  /\ UNCHANGED <<registry, accounts, buffers, readers, batch, hub, rlocks, panicked>>

(* A ping, the frame's opening or its closing write fails.                 *)
WriterFail(c) == /\ \/ writer[c] \in {"wait", "write"}
                    \/ writer[c] = "drain" /\ batch[c] = 0
                 /\ WriterGoes(c, "exited")
                 /\ UNCHANGED <<registry, accounts, buffers, readers, batch, hub, rlocks, panicked>>

WriterClose(c) == /\ writer[c] = "wait"
                  /\ c \in closed /\ queue[c] = 0
                  /\ WriterGoes(c, "exited")
                  /\ UNCHANGED <<registry, accounts, buffers, readers, batch, hub, rlocks, panicked>>

-----------------------------------------------------------------------------
(* The hub.  Take: Run receives c's request, and c's reader reads on.      *)
(* s.mu is only ever locked by the hub; a lock it could not get shows as a *)
(* step that needs rlocks = 0.                                             *)

Take(c, kind) == /\ hub.at = "select"
                 /\ reader[c] = "dispatch" /\ asked[c] = kind
                 /\ reader' = [reader EXCEPT ![c] = "read"]
                 /\ asked' = [asked EXCEPT ![c] = "other"]
                 /\ stamp' = [stamp EXCEPT ![c] = NoUser]
                 /\ UNCHANGED <<accounts, buffers, writers, rlocks>>

(* Run receives a new client: it is known to the hub, then its goroutines  *)
(* start.                                                                  *)
AddClient(c) == /\ hub.at = "select"
                /\ reader[c] = "register"
                /\ rlocks = 0
                /\ clients' = clients \cup {c}
                /\ reader' = [reader EXCEPT ![c] = "read"]
                /\ WriterGoes(c, "wait")
                /\ UNCHANGED <<sessions, conns, joined, table, members, accounts, buffers,
                               asked, stamp, batch, hub, rlocks, panicked>>

LoginReplaces(c, token) == token \in Users         \* mutant
Accepted(c, token) == token \in Users /\ ~auth[c]

(* A token that names a user carries his password; a token shorter than    *)
(* the "Basic " that ParseBasicAuth cuts off makes the slice panic.        *)
HandleLogin(c, token) ==
  /\ Take(c, "login")
  /\ rlocks = 0
  /\ UNCHANGED registry
  /\ IF c \in clients /\ token = ShortToken
     THEN panicked' = TRUE /\ UNCHANGED hub
     ELSE /\ UNCHANGED panicked
          /\ hub' = IF c \notin clients THEN Idle
                    ELSE IF Accepted(c, token)
                    THEN Hub("authenticate", c, None, token, {})
                    ELSE Hub("reply", c, None, NoUser, {})

(* SessionManager.AddClientToUser: a session is created on demand, with no *)
(* channels.                                                               *)
AddClientToUser(u, c) ==
  /\ sessions' = sessions \cup {u}
  /\ conns' = [conns EXCEPT ![u] = (IF u \in sessions THEN @ ELSE {}) \cup {c}]
  /\ joined' = [joined EXCEPT ![u] = IF u \in sessions THEN @ ELSE {}]
  /\ UNCHANGED <<clients, table, members>>

(* Client.Authenticate stores only once; then the session, then the reply. *)
Authenticate == /\ hub.at = "authenticate"
                /\ user' = [user EXCEPT ![hub.c] = IF auth[hub.c] THEN @ ELSE hub.u]
                /\ auth' = [auth EXCEPT ![hub.c] = TRUE]
                /\ AddClientToUser(hub.u, hub.c)
                /\ HubGoes("reply")
                /\ UNCHANGED <<buffers, readers, writers, rlocks, panicked>>

GetOrCreate(ch) == table \cup {ch}

(* The user goes into the channel, then the channel into the user.         *)
AddUser(u, ch) == /\ members' = [members EXCEPT ![ch] = @ \cup {u}]
                  /\ joined' = [joined EXCEPT ![u] = @ \cup {ch}]

(* The user is the one stamped on the message, not the connection's.  The  *)
(* channel is created on demand before the user is added to it.            *)
HandleJoinChannel(c, ch) ==
  LET u == stamp[c] IN
  /\ Take(c, "request")
  /\ UNCHANGED <<clients, sessions, conns>>
  /\ IF u = Torn
     THEN panicked' = TRUE /\ UNCHANGED <<joined, table, members, hub>>
     ELSE /\ UNCHANGED panicked
          /\ IF u \notin sessions \/ c \notin clients
             THEN UNCHANGED <<joined, table, members, hub>>
             ELSE /\ rlocks = 0
                  /\ table' = GetOrCreate(ch)
                  /\ IF u \in members[ch]
                     THEN /\ hub' = Hub("reply", c, None, NoUser, {})
                          /\ UNCHANGED <<joined, members>>
                     ELSE /\ hub' = Hub("joinReply", c, ch, u, {})
                          /\ AddUser(u, ch)

ChannelIsEnough(c, ch) == ch \in table              \* mutant
IsMember(c, ch) == ch \in table /\ user[c] \in members[ch]

(* Membership is that of the connection's user, authorship the stamp's.    *)
HandleSendMessage(c, ch) ==
  /\ Take(c, "request")
  /\ UNCHANGED <<registry, panicked>>
  /\ hub' = IF c \notin clients THEN Idle
            ELSE IF IsMember(c, ch)
            THEN Hub("index", c, ch, stamp[c], {})
            ELSE Hub("reply", c, None, NoUser, {})

(* Elasticsearch took the message, or refused it four times.               *)
IndexMessage(indexed) ==
  /\ hub.at = "index"
  /\ IF hub.u = Torn THEN panicked' = TRUE /\ UNCHANGED hub
     ELSE /\ UNCHANGED panicked
          /\ IF indexed THEN HubGoes("sendReply")
                        ELSE hub' = Hub("reply", hub.c, None, NoUser, {})
  /\ UNCHANGED <<registry, accounts, buffers, readers, writers, rlocks>>

(* The user is taken out of the channel, then the channel out of the user. *)
KeepsChannel(u, ch) == /\ members' = [members EXCEPT ![ch] = @ \ {u}]  \* mutant
                       /\ UNCHANGED joined
RemoveUser(u, ch) == /\ members' = [members EXCEPT ![ch] = @ \ {u}]
                     /\ joined' = [joined EXCEPT ![u] = @ \ {ch}]

(* A member without a session would be a nil pointer here.                 *)
HandleLeaveChannel(c, ch) ==
  LET u == user[c] IN
  /\ Take(c, "request")
  /\ UNCHANGED <<clients, sessions, conns, table>>
  /\ IF c \notin clients
     THEN UNCHANGED <<joined, members, hub, panicked>>
     ELSE IF ~IsMember(c, ch)
     THEN /\ hub' = Hub("reply", c, None, NoUser, {})
          /\ UNCHANGED <<joined, members, panicked>>
     ELSE IF u \notin sessions
     THEN panicked' = TRUE /\ UNCHANGED <<joined, members, hub>>
     ELSE /\ RemoveUser(u, ch)
          /\ hub' = Hub("leaveReply", c, ch, u, {})
          /\ UNCHANGED panicked

(* A valid message whose action the hub does not know.                     *)
HandleOther(c) == Take(c, "other") /\ UNCHANGED <<registry, hub, panicked>>

(* sendResponse and sendError block until the send channel has room.       *)
Reply == /\ hub.at \in Replies
         /\ SendOn(hub.c)
         /\ hub' = CASE hub.at = "reply"      -> Idle
                     [] hub.at = "joinReply"  -> [hub EXCEPT !.at = "joinPush"]
                     [] hub.at = "sendReply"  -> [hub EXCEPT !.at = "sendPush"]
                     [] hub.at = "leaveReply" -> [hub EXCEPT !.at = "leavePush"]
         /\ UNCHANGED <<registry, accounts, closed, readers, writers, rlocks>>

(* The connections that a push to a channel is for.                        *)
Audience(ch) == UNION {conns[u] : u \in members[ch] \cap sessions}

(* A push skips the connections that have no room.                         *)
Push == /\ hub.at \in Pushes
        /\ IF Audience(hub.ch) \cap closed # {}
           THEN panicked' = TRUE /\ UNCHANGED queue
           ELSE Enqueue(Audience(hub.ch)) /\ UNCHANGED panicked
        /\ hub' = CASE hub.at \in {"joinPush", "sendPush"} -> Idle
                    [] hub.at = "leavePush" -> [hub EXCEPT !.at = "leaveCleanup"]
                    [] hub.at = "evictPush" -> [hub EXCEPT !.at = "evictCleanup"]
        /\ UNCHANGED <<registry, accounts, closed, readers, writers, rlocks>>

DeleteAlways(ch) == table \ {ch}                    \* mutant
DeleteIfEmpty(ch) == IF members[ch] = {} THEN table \ {ch} ELSE table

(* A channel that has lost its last member is deleted.                     *)
CleanupEmptyChannel ==
  /\ hub.at \in Cleanups
  /\ rlocks = 0
  /\ table' = DeleteIfEmpty(hub.ch)
  /\ hub' = IF hub.at = "leaveCleanup" THEN Idle
            ELSE Hub("evict", hub.c, None, hub.u, hub.todo)
  /\ UNCHANGED <<clients, sessions, conns, joined, members, accounts, buffers,
                 readers, writers, rlocks, panicked>>

(* Run receives a client whose reader has ended.                           *)
RemoveClient(c) ==
  /\ hub.at = "select"
  /\ reader[c] = "unregister"
  /\ rlocks = 0
  /\ reader' = [reader EXCEPT ![c] = "done"]
  /\ clients' = clients \ {c}
  /\ closed' = IF c \in clients THEN closed \cup {c} ELSE closed
  /\ hub' = IF user[c] \in sessions THEN Hub("detach", c, None, user[c], {}) ELSE Idle
  /\ UNCHANGED <<sessions, conns, joined, table, members, accounts, queue,
                 asked, stamp, writers, rlocks, panicked>>

(* SessionManager.RemoveClientFromUser: the session ends with its last     *)
(* connection.                                                             *)
KeepsConnection(u, c) ==                            \* mutant
  /\ UNCHANGED conns
  /\ sessions' = IF conns[u] \subseteq {c} THEN sessions \ {u} ELSE sessions
KeepsSession(u, c) ==                               \* mutant
  /\ conns' = [conns EXCEPT ![u] = @ \ {c}]
  /\ UNCHANGED sessions
EndsSession(u, c) ==                                \* mutant
  /\ conns' = [conns EXCEPT ![u] = @ \ {c}]
  /\ sessions' = sessions \ {u}
RemoveClientFromUser(u, c) ==
  /\ conns' = [conns EXCEPT ![u] = @ \ {c}]
  /\ sessions' = IF conns[u] \subseteq {c} THEN sessions \ {u} ELSE sessions

GetNoChannels(u) == {}                              \* mutant
GetChannels(u) == joined[u]

Detach == /\ hub.at = "detach"
          /\ RemoveClientFromUser(hub.u, hub.c)
          /\ hub' = IF conns[hub.u] \subseteq {hub.c}
                    THEN Hub("evict", hub.c, None, hub.u, GetChannels(hub.u))
                    ELSE Idle
          /\ UNCHANGED <<clients, joined, table, members, accounts, buffers,
                         readers, writers, rlocks, panicked>>

(* removeUserFromAllChannels, one channel of the snapshot it took.  Both   *)
(* early "continue"s keep the read lock.                                   *)
EvictMemberKeepsLock(u, ch) == RemoveUser(u, ch) /\ rlocks' = rlocks + 1  \* mutant
EvictMember(u, ch) == RemoveUser(u, ch) /\ UNCHANGED rlocks

Evict(ch) ==
  /\ hub.at = "evict" /\ ch \in hub.todo
  /\ IF ch \in table /\ hub.u \in members[ch]
     THEN /\ EvictMember(hub.u, ch)
          /\ hub' = Hub("evictPush", hub.c, ch, hub.u, hub.todo \ {ch})
     ELSE /\ joined' = IF ch \in table THEN joined
                       ELSE [joined EXCEPT ![hub.u] = @ \ {ch}]
          /\ hub' = [hub EXCEPT !.todo = @ \ {ch}]
          /\ rlocks' = rlocks + 1
          /\ UNCHANGED members
  /\ UNCHANGED <<clients, sessions, conns, table, accounts, buffers,
                 readers, writers, panicked>>

EvictDone == /\ hub.at = "evict" /\ hub.todo = {}
             /\ hub' = Idle
             /\ UNCHANGED <<registry, accounts, buffers, readers, writers, rlocks, panicked>>

-----------------------------------------------------------------------------
HubStep == \/ Authenticate
           \/ \E indexed \in BOOLEAN : IndexMessage(indexed)
           \/ Reply
           \/ Push
           \/ CleanupEmptyChannel
           \/ Detach
           \/ \E ch \in Channels : Evict(ch)
           \/ EvictDone

Handle(c) == \/ \E token \in Tokens : HandleLogin(c, token)
             \/ \E ch \in Channels : \/ HandleJoinChannel(c, ch)
                                     \/ HandleSendMessage(c, ch)
                                     \/ HandleLeaveChannel(c, ch)
             \/ HandleOther(c)

ReaderStep(c) == \/ ServeWS(c)
                 \/ ReadRefused(c)
                 \/ \E kind \in Kinds : ReadRequest(c, kind)
                 \/ Stamp(c)
                 \/ ReadError(c)
                 \/ SendRefusal(c)

WriterStep(c) == \/ WriterReceive(c)
                 \/ WriterCount(c)
                 \/ WriterDrain(c)
                 \/ WriterFlush(c)
                 \/ WriterClose(c)

(* After a panic the process is gone.                                      *)
Next == /\ ~panicked
        /\ \/ HubStep
           \/ \E c \in Clients : \/ AddClient(c)
                                 \/ RemoveClient(c)
                                 \/ Handle(c)
                                 \/ ReaderStep(c)
                                 \/ WriterStep(c)
                                 \/ WriterFail(c)

Spec == Init /\ [][Next]_vars

(* The hub's own steps and the writers' are owed.  Others can take the     *)
(* room in a send channel that the hub waits for, but Go serves blocked    *)
(* senders in the order of arrival: SF.  That Elasticsearch and the users  *)
(* table always answer is an assumption.                                   *)
Live(A) == ~panicked /\ A
HubFairSpec == /\ Spec
               /\ SF_vars(Live(HubStep))
               /\ \A c \in Clients : WF_vars(Live(WriterStep(c)))

(* So is the rest of what the goroutines do: select chooses at random, so  *)
(* what can be received again and again is received.  Once the writer has  *)
(* closed the connection, reading from it fails.  Requests, disconnections *)
(* and failing writes are owed by nobody.                                  *)
FairSpec == /\ HubFairSpec
            /\ \A c \in Clients :
                 /\ SF_vars(Live(AddClient(c) \/ RemoveClient(c) \/ Handle(c)))
                 /\ WF_vars(Live(Stamp(c)))
                 /\ SF_vars(Live(\/ SendRefusal(c)
                                 \/ writer[c] = "exited" /\ ReadError(c)))

-----------------------------------------------------------------------------
(* Type invariant.                                                         *)
TypeOK ==
  /\ clients \subseteq Clients /\ closed \subseteq Clients
  /\ sessions \subseteq Users /\ table \subseteq Channels
  /\ conns \in [Users -> SUBSET Clients]
  /\ joined \in [Users -> SUBSET Channels]
  /\ members \in [Channels -> SUBSET Users]
  /\ user \in [Clients -> Users \cup {NoUser}]
  /\ auth \in [Clients -> BOOLEAN]
  /\ queue \in [Clients -> 0 .. SendCap]
  /\ reader \in [Clients -> {"none", "register", "read", "refuse", "stamp",
                             "dispatch", "unregister", "done"}]
  /\ asked \in [Clients -> Kinds]
  /\ stamp \in [Clients -> Users \cup {NoUser, Torn}]
  /\ writer \in [Clients -> {"off", "wait", "write", "drain", "exited"}]
  /\ batch \in [Clients -> 0 .. SendCap]
  /\ hub \in [at : HubAt, c : Clients \cup {None}, ch : Channels \cup {None},
              u : Users \cup {NoUser, Torn}, todo : SUBSET Channels]
  /\ rlocks \in Nat
  /\ panicked \in BOOLEAN

Evicting(u) == hub.at \in {"evict", "evictPush", "evictCleanup"} /\ hub.u = u
Detaching(c) == hub.at = "detach" /\ hub.c = c

(* No goroutine sends on a send channel that removeClient has closed, and  *)
(* handleLeaveChannel never meets a member without a session.              *)
NoPanic == ~panicked

(* The process dies only of a login whose token is too short for the slice *)
(* that ParseBasicAuth takes of it, or of a name that was read while it    *)
(* was being stored: no order of connects, logins, leaves and closes makes *)
(* a send on a closed channel or meets a user without a session.           *)
Received(c, kind) == reader[c] = "dispatch" /\ asked[c] = kind /\ reader'[c] = "read"
OnlyKnownPanics ==
  [][panicked' => \/ ShortToken \in Tokens /\ \E c \in Clients : Received(c, "login")
                  \/ \E c \in Clients : Received(c, "request") /\ stamp[c] = Torn
                  \/ hub.at = "index" /\ hub.u = Torn]_vars

(* SessionManager and hub agree: a session exists exactly while it has a   *)
(* connection, its connections are the hub's clients logged in as its      *)
(* user, and every client that is logged in is in its user's session.      *)
SessionsMatchConnections ==
  /\ \A u \in Users : u \in sessions <=> conns[u] # {}
  /\ \A u \in Users, c \in Clients :
       c \in conns[u] <=> user[c] = u /\ (c \in clients \/ Detaching(c))

(* Channel.users and User.channels are two copies of one relation that no  *)
(* common lock protects.                                                   *)
MembershipMirrored ==
  \A u \in Users, ch \in Channels : u \in members[ch] <=> ch \in joined[u]

(* A member is present: whoever is in a channel has a session, or the hub  *)
(* is just taking him out of it.                                           *)
NoGhostMembers ==
  \A ch \in Channels : \A u \in members[ch] :
    u \in sessions \/ (Evicting(u) /\ ch \in hub.todo)

(* Channels holds the channels that have members, and at most the one the  *)
(* hub is about to delete besides.                                         *)
ChannelsInhabited ==
  \A ch \in Channels :
    /\ members[ch] # {} => ch \in table
    /\ ch \in table => \/ members[ch] # {}
                       \/ hub.at \in Cleanups \cup Removals /\ hub.ch = ch

(* removeUserFromAllChannels never takes the early "continue" of its loop, *)
(* which keeps Server.mu locked for reading for ever.                      *)
NoLeakedReadLock == rlocks = 0

(* A request that waits for the hub bears the name of the user its         *)
(* connection is logged in as, and he still has a session.                 *)
RequestHasSession ==
  \A c \in Clients : reader[c] = "dispatch" /\ asked[c] = "request"
                     => stamp[c] = user[c] /\ user[c] \in sessions

(* A message is indexed and broadcast under the name of the user whose     *)
(* connection sent it, to a channel he is a member of.                     *)
AuthorIsSender ==
  hub.at \in {"sendReply", "sendPush"}
  => hub.u = user[hub.c] /\ hub.u \in members[hub.ch]

(* Whatever a reader sees of a login in progress, the author it stamps on  *)
(* a request, and the one the hub then joins or indexes and pushes under,  *)
(* is its connection's own user, none, or garbage: never another user, who *)
(* might be a member of other channels.  Join takes the own user only.     *)
Bears(c, u) == u \in {NoUser, Torn, user[c]}
LoggingIn(c, u) == hub.at = "authenticate" /\ hub.c = c /\ hub.u = u
NeverAnothersName ==
  /\ \A c \in Clients : reader[c] = "dispatch" => Bears(c, stamp[c]) \/ LoggingIn(c, stamp[c])
  /\ hub.at \in {"joinReply", "joinPush"} => hub.u = user[hub.c]
  /\ hub.at \in {"index", "sendReply", "sendPush"} => Bears(hub.c, hub.u)

(* The hub never drops a login, join, message or leave without an answer:  *)
(* having received one it is on its way to a reply.                        *)
EveryRequestAnswered ==
  [][\A c \in Clients :
       reader[c] = "dispatch" /\ reader'[c] = "read" /\ asked[c] # "other"
       => hub'.at # "select"]_vars

(* The refinement: sessions and memberships behave as Rooms says.          *)
Promise == INSTANCE Rooms WITH session <- conns
Presence == Promise!Spec

(* The hub waits for room in a send channel that nobody empties any more.  *)
Wedged == hub.at \in Replies /\ ~HasRoom(hub.c) /\ writer[hub.c] = "exited"

(* From then on no connection is added, removed or answered: the hub stays *)
(* where it is, whatever the other goroutines do.                          *)
WedgedForever == [][Wedged => Wedged' /\ UNCHANGED <<hub, registry>>]_vars

(* Whatever Run has received it finishes, and receives again: unless it is *)
(* wedged, and only the reply to a connection whose writer has ended can   *)
(* do that.                                                                *)
HubReturns == hub.at # "select" ~> (hub.at = "select" \/ Wedged)

(* A connection whose writer has ended is removed: unless the hub is       *)
(* wedged, or the reader is, on a refusal it puts into its own full send   *)
(* channel.                                                                *)
DeadConnectionRemoved ==
  \A c \in Clients :
    (c \in clients /\ writer[c] = "exited")
    ~> (c \notin clients \/ Wedged \/ (reader[c] = "refuse" /\ ~HasRoom(c)))

(* What the tests take for granted: a request that was offered is taken.   *)
EveryRequestTaken ==
  \A c \in Clients : reader[c] = "dispatch" ~> reader[c] # "dispatch"

=============================================================================
