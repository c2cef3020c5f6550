---------------------------- MODULE ServerProofs ----------------------------
(***************************************************************************)
(* Proofs about Server for every number of connections, users, channels    *)
(* and buffer slots.                                                       *)
(***************************************************************************)
EXTENDS Server, FiniteSetTheorems, TLAPS

Evictions == {"evict", "evictPush", "evictCleanup"}
LiveReader == {"read", "refuse", "stamp", "dispatch", "unregister"}
NeedsClient == Replies \cup {"authenticate", "index"}
NeedsChannel == Pushes \cup Cleanups \cup {"index", "joinReply", "sendReply", "leaveReply"}
NeedsUser == Evictions \cup {"authenticate", "detach"}

(* Which of its locals the hub needs where it is.                          *)
HubOK ==
  /\ hub.at # "select" => hub.c \in Clients
  /\ hub.at \in NeedsUser => hub.u \in Users
  /\ hub.at \in NeedsChannel => hub.ch \in Channels

(* The hub knows a client for as long as its reader runs, closes its send  *)
(* channel only afterwards, and logs it in only in between.                *)
ReadersOK ==
  /\ \A c \in Clients : c \in clients <=> reader[c] \in LiveReader
  /\ \A c \in closed : reader[c] = "done"
  /\ \A c \in Clients : reader[c] = "register" => ~auth[c]
  /\ hub.at \in NeedsClient => hub.c \in clients

-----------------------------------------------------------------------------
(* Types.                                                                  *)

(* The initial state has the types and the shape.                          *)
LEMMA InitType == Init => TypeOK /\ HubOK /\ ReadersOK
<1> SUFFICES ASSUME Init PROVE TypeOK /\ HubOK /\ ReadersOK
  OBVIOUS
<1>1. hub = [at |-> "select", c |-> None, ch |-> None, u |-> NoUser, todo |-> {}]
  BY DEF Init, Idle, Hub
<1>2. hub \in [at : HubAt, c : Clients \cup {None}, ch : Channels \cup {None},
               u : Users \cup {NoUser, Torn}, todo : SUBSET Channels]
  BY <1>1 DEF HubAt
<1>3. TypeOK
  <2>1. 0 \in 0 .. SendCap
    BY SendCapAssumption
  <2>2. "other" \in Kinds
    BY DEF Kinds
  <2> QED BY <1>2, <2>1, <2>2 DEF Init, TypeOK
<1>4. HubOK /\ ReadersOK
  BY <1>1 DEF Init, HubOK, ReadersOK, LiveReader, NeedsClient, NeedsChannel, NeedsUser,
     Evictions, Replies, Pushes, Cleanups
<1> QED BY <1>3, <1>4

(* A send never overfills a send channel.                                  *)
LEMMA EnqueueType ==
  ASSUME TypeOK, NEW cs, Enqueue(cs)
  PROVE  queue' \in [Clients -> 0 .. SendCap]
<1>1. ASSUME NEW d \in Clients
      PROVE  (IF d \in cs /\ HasRoom(d) THEN queue[d] + 1 ELSE queue[d]) \in 0 .. SendCap
  BY SendCapAssumption DEF TypeOK, HasRoom
<1> QED BY <1>1 DEF Enqueue

(* What a connection's own goroutines and the messages they exchange with  *)
(* its socket do to the types.                                             *)
LEMMA ReaderType ==
  ASSUME TypeOK, HubOK, ReadersOK, NEW c \in Clients, ReaderStep(c)
  PROVE  (TypeOK /\ HubOK /\ ReadersOK)'
<1> USE DEF registry, accounts, buffers, readers, writers
<1>1. CASE ServeWS(c)
  BY <1>1, SendCapAssumption DEF ServeWS, NewClient, Unreferenced, TypeOK, HubOK, ReadersOK, Kinds, LiveReader
<1>2. CASE ReadRefused(c)
  BY <1>2 DEF ReadRefused, TypeOK, HubOK, ReadersOK, LiveReader
<1>3. CASE \E kind \in Kinds : ReadRequest(c, kind)
  BY <1>3 DEF ReadRequest, TypeOK, HubOK, ReadersOK, LiveReader
<1>4. CASE Stamp(c)
  BY <1>4 DEF Stamp, SeesUser, TypeOK, HubOK, ReadersOK, LiveReader
<1>5. CASE ReadError(c)
  BY <1>5 DEF ReadError, TypeOK, HubOK, ReadersOK, LiveReader
<1>6. CASE SendRefusal(c)
  BY <1>6, EnqueueType DEF SendRefusal, SendOn, TypeOK, HubOK, ReadersOK, LiveReader
<1> QED BY <1>1, <1>2, <1>3, <1>4, <1>5, <1>6 DEF ReaderStep

(* A writer only moves itself, its batch and its queue.                    *)
LEMMA WriterType ==
  ASSUME TypeOK, HubOK, ReadersOK, NEW c \in Clients, WriterStep(c) \/ WriterFail(c)
  PROVE  (TypeOK /\ HubOK /\ ReadersOK)'
<1> USE DEF registry, accounts, buffers, readers, writers, WriterGoes
<1>1. UNCHANGED <<registry, accounts, closed, readers, hub, rlocks, panicked>>
  BY DEF WriterStep, WriterReceive, WriterCount, WriterDrain, WriterFlush, WriterFail, WriterClose
<1>2. /\ queue' \in [Clients -> 0 .. SendCap]
      /\ batch' \in [Clients -> 0 .. SendCap]
      /\ writer' \in [Clients -> {"off", "wait", "write", "drain", "exited"}]
  BY SendCapAssumption DEF WriterStep, WriterReceive, WriterCount, WriterDrain, WriterFlush,
     WriterFail, WriterClose, TypeOK
<1> QED BY <1>1, <1>2 DEF TypeOK, HubOK, ReadersOK

(* The hub's own steps.                                                    *)
LEMMA HubType ==
  ASSUME TypeOK, HubOK, ReadersOK, HubStep
  PROVE  (TypeOK /\ HubOK /\ ReadersOK)'
<1> USE DEF registry, accounts, buffers, readers, writers
<1> USE DEF HubAt, Replies, Pushes, Cleanups, NeedsClient, NeedsChannel, NeedsUser, Evictions
<1>1. CASE Authenticate
  <2>1. hub.u \in Users /\ hub.c \in clients /\ hub.c \in Clients
    BY <1>1 DEF Authenticate, HubOK, ReadersOK
  <2>2. /\ sessions' \subseteq Users /\ conns' \in [Users -> SUBSET Clients]
        /\ joined' \in [Users -> SUBSET Channels]
    BY <1>1, <2>1 DEF Authenticate, AddClientToUser, TypeOK
  <2>3. user' \in [Clients -> Users \cup {NoUser}] /\ auth' \in [Clients -> BOOLEAN]
    BY <1>1, <2>1 DEF Authenticate, TypeOK
  <2>4. hub' = [hub EXCEPT !.at = "reply"]
        /\ UNCHANGED <<clients, table, members, buffers, readers, writers, rlocks, panicked>>
    BY <1>1 DEF Authenticate, AddClientToUser, HubGoes
  <2>5. TypeOK' /\ HubOK'
    BY <2>1, <2>2, <2>3, <2>4 DEF TypeOK, HubOK
  <2>6. \A c \in Clients : reader'[c] = "register" => ~auth'[c]
    BY <1>1, <2>1, <2>4 DEF Authenticate, ReadersOK, TypeOK, LiveReader
  <2> QED BY <2>1, <2>4, <2>5, <2>6 DEF ReadersOK, TypeOK
<1>2. CASE \E indexed \in BOOLEAN : IndexMessage(indexed)
  <2>1. \/ hub' \in {hub, Hub("reply", hub.c, None, NoUser, {})}
        \/ hub' = [hub EXCEPT !.at = "sendReply"]
    BY <1>2 DEF IndexMessage, HubGoes
  <2>2. panicked' \in BOOLEAN
    BY <1>2 DEF IndexMessage, TypeOK
  <2>3. hub.at = "index" /\ UNCHANGED <<registry, accounts, buffers, readers, writers, rlocks>>
    BY <1>2 DEF IndexMessage
  <2> QED BY <2>1, <2>2, <2>3 DEF Hub, TypeOK, HubOK, ReadersOK
<1>3. CASE Reply
  <2>1. queue' \in [Clients -> 0 .. SendCap] /\ panicked' \in BOOLEAN
    BY <1>3, EnqueueType DEF Reply, SendOn, TypeOK
  <2>2. hub' \in {Idle, [hub EXCEPT !.at = "joinPush"], [hub EXCEPT !.at = "sendPush"],
                  [hub EXCEPT !.at = "leavePush"]}
    BY <1>3 DEF Reply
  <2>3. hub.at \in {"joinReply", "sendReply", "leaveReply"} \/ hub' = Idle
    BY <1>3 DEF Reply
  <2> QED BY <1>3, <2>1, <2>2, <2>3 DEF Reply, Idle, Hub, TypeOK, HubOK, ReadersOK
<1>4. CASE Push
  <2>1. queue' \in [Clients -> 0 .. SendCap] /\ panicked' \in BOOLEAN
    BY <1>4, EnqueueType DEF Push, TypeOK
  <2>2. hub' = Idle \/ hub' = [hub EXCEPT !.at = "leaveCleanup"]
        \/ (hub.at = "evictPush" /\ hub' = [hub EXCEPT !.at = "evictCleanup"])
    BY <1>4 DEF Push
  <2> QED BY <1>4, <2>1, <2>2 DEF Push, Idle, Hub, TypeOK, HubOK, ReadersOK
<1>5. CASE CleanupEmptyChannel
  BY <1>5 DEF CleanupEmptyChannel, DeleteIfEmpty, Idle, Hub, TypeOK, HubOK, ReadersOK
<1>6. CASE Detach
  BY <1>6 DEF Detach, RemoveClientFromUser, GetChannels, Idle, Hub, TypeOK, HubOK, ReadersOK
<1>7. CASE \E ch \in Channels : Evict(ch)
  BY <1>7 DEF Evict, EvictMember, RemoveUser, Hub, TypeOK, HubOK, ReadersOK
<1>8. CASE EvictDone
  BY <1>8 DEF EvictDone, Idle, Hub, TypeOK, HubOK, ReadersOK
<1> QED BY <1>1, <1>2, <1>3, <1>4, <1>5, <1>6, <1>7, <1>8 DEF HubStep

(* What the hub does on receiving something.                               *)
LEMMA ReceiveType ==
  ASSUME TypeOK, HubOK, ReadersOK, NEW c \in Clients,
         AddClient(c) \/ RemoveClient(c) \/ Handle(c)
  PROVE  (TypeOK /\ HubOK /\ ReadersOK)'
<1> USE DEF registry, accounts, buffers, readers, writers, Take, Hub, Idle
<1> USE DEF HubAt, Replies, Pushes, Cleanups, NeedsClient, NeedsChannel, NeedsUser, Evictions, LiveReader
<1>1. CASE AddClient(c)
  BY <1>1 DEF AddClient, WriterGoes, TypeOK, HubOK, ReadersOK
<1>2. CASE RemoveClient(c)
  BY <1>2 DEF RemoveClient, TypeOK, HubOK, ReadersOK
<1>3. CASE \E token \in Tokens : HandleLogin(c, token)
  <2>1. PICK token \in Tokens : HandleLogin(c, token)
    BY <1>3
  <2>2. \/ hub' \in {hub, Idle, Hub("reply", c, None, NoUser, {})}
        \/ token \in Users /\ hub' = Hub("authenticate", c, None, token, {})
    BY <2>1 DEF HandleLogin, Accepted
  <2>3. c \in clients
    BY <2>1 DEF HandleLogin, ReadersOK
  <2>4. panicked' \in BOOLEAN /\ UNCHANGED registry /\ Take(c, "login")
    BY <2>1 DEF HandleLogin, TypeOK
  <2> QED BY <2>2, <2>3, <2>4 DEF Kinds, TypeOK, HubOK, ReadersOK
<1>4. CASE \E ch \in Channels : HandleJoinChannel(c, ch)
  <2>1. PICK ch \in Channels : HandleJoinChannel(c, ch)
    BY <1>4
  <2>2. \/ hub' \in {hub, Hub("reply", c, None, NoUser, {})}
        \/ stamp[c] \in Users /\ hub' = Hub("joinReply", c, ch, stamp[c], {})
    BY <2>1 DEF HandleJoinChannel, GetOrCreate, AddUser, TypeOK
  <2>3. /\ members' \in [Channels -> SUBSET Users]
        /\ joined' \in [Users -> SUBSET Channels]
        /\ table' \subseteq Channels
    BY <2>1 DEF HandleJoinChannel, GetOrCreate, AddUser, TypeOK
  <2>4. /\ panicked' \in BOOLEAN /\ UNCHANGED <<clients, sessions, conns>>
        /\ Take(c, "request") /\ c \in clients
    BY <2>1 DEF HandleJoinChannel, GetOrCreate, AddUser, TypeOK, ReadersOK
  <2> QED BY <2>2, <2>3, <2>4 DEF Kinds, TypeOK, HubOK, ReadersOK
<1>5. CASE \E ch \in Channels : HandleSendMessage(c, ch)
  BY <1>5 DEF HandleSendMessage, IsMember, Kinds, TypeOK, HubOK, ReadersOK
<1>6. CASE \E ch \in Channels : HandleLeaveChannel(c, ch)
  <2>1. PICK ch \in Channels : HandleLeaveChannel(c, ch)
    BY <1>6
  <2>2. \/ hub' \in {hub, Hub("reply", c, None, NoUser, {})}
        \/ user[c] \in Users /\ hub' = Hub("leaveReply", c, ch, user[c], {})
    BY <2>1 DEF HandleLeaveChannel, IsMember, TypeOK
  <2>3. members' \in [Channels -> SUBSET Users] /\ joined' \in [Users -> SUBSET Channels]
    BY <2>1 DEF HandleLeaveChannel, RemoveUser, TypeOK
  <2>4. /\ panicked' \in BOOLEAN /\ UNCHANGED <<clients, sessions, conns, table>>
        /\ Take(c, "request") /\ c \in clients
    BY <2>1 DEF HandleLeaveChannel, TypeOK, ReadersOK
  <2> QED BY <2>2, <2>3, <2>4 DEF Kinds, TypeOK, HubOK, ReadersOK
<1>7. CASE HandleOther(c)
  BY <1>7 DEF HandleOther, Kinds, TypeOK, HubOK, ReadersOK
<1> QED BY <1>1, <1>2, <1>3, <1>4, <1>5, <1>6, <1>7 DEF Handle

(* No step breaks the types.                                               *)
LEMMA TypeStep == TypeOK /\ HubOK /\ ReadersOK /\ [Next]_vars => (TypeOK /\ HubOK /\ ReadersOK)'
<1> SUFFICES ASSUME TypeOK, HubOK, ReadersOK, [Next]_vars
             PROVE  (TypeOK /\ HubOK /\ ReadersOK)'
  OBVIOUS
<1>1. CASE UNCHANGED vars
  BY <1>1 DEF vars, registry, accounts, buffers, readers, writers, TypeOK, HubOK, ReadersOK
<1>2. CASE Next
  BY <1>2, ReaderType, WriterType, HubType, ReceiveType DEF Next
<1> QED BY <1>1, <1>2

(* Every variable keeps its type, whatever the memory model and whatever   *)
(* tokens are presented.                                                   *)
THEOREM TypeCorrect == Spec => []TypeOK
<1>1. Spec => [](TypeOK /\ HubOK /\ ReadersOK)
  BY InitType, TypeStep, PTL DEF Spec
<1> QED BY <1>1, PTL

-----------------------------------------------------------------------------
(* The registry: sessions, memberships and channels stay one relation.     *)

(* A connection has a user once it is logged in, and the hub logs in or    *)
(* takes apart only what is not, or no longer, there.                      *)
AccountsOK ==
  /\ \A c \in Clients : auth[c] <=> user[c] \in Users
  /\ hub.at = "authenticate" => ~auth[hub.c]
  /\ hub.at = "detach" => hub.c \notin clients /\ user[hub.c] = hub.u

(* Memberships outlive the session only while they are being revoked.      *)
PresenceOK ==
  /\ \A u \in Users : joined[u] # {} => u \in sessions \/ Evicting(u)
  /\ hub.at \in Evictions => hub.u \notin sessions /\ joined[hub.u] = hub.todo

(* What ties the four registries together.                                 *)
RegistryOK == /\ AccountsOK
              /\ SessionsMatchConnections
              /\ MembershipMirrored
              /\ PresenceOK
              /\ ChannelsInhabited
              /\ NoLeakedReadLock

Shape == TypeOK /\ HubOK /\ ReadersOK
IInv == Shape /\ RegistryOK

(* Everything starts empty.                                                *)
LEMMA InitRegistry == Init => RegistryOK
<1> SUFFICES ASSUME Init PROVE RegistryOK
  OBVIOUS
<1>1. hub.at = "select"
  BY DEF Init, Idle, Hub
<1> QED BY <1>1, UserNamesAssumption DEF Init, RegistryOK, AccountsOK, SessionsMatchConnections,
           Detaching, MembershipMirrored, PresenceOK, Evictions, ChannelsInhabited, NoLeakedReadLock

(* The registry says nothing of queues, readers and writers.               *)
LEMMA QuietRegistry ==
  ASSUME RegistryOK, UNCHANGED <<registry, accounts, hub, rlocks>>
  PROVE  RegistryOK'
  BY DEF registry, accounts, RegistryOK, AccountsOK, SessionsMatchConnections, Detaching,
     MembershipMirrored, PresenceOK, Evicting, ChannelsInhabited, NoLeakedReadLock

(* Readers and writers leave registry, accounts and hub alone.             *)
LEMMA QuietStep ==
  ASSUME NEW c \in Clients, (ReaderStep(c) /\ ~ServeWS(c)) \/ WriterStep(c) \/ WriterFail(c)
  PROVE  UNCHANGED <<registry, accounts, hub, rlocks>>
  BY DEF ReaderStep, ReadRefused, ReadRequest, Stamp, ReadError, SendRefusal, WriterStep,
     WriterReceive, WriterCount, WriterDrain, WriterFlush, WriterClose, WriterFail, WriterGoes,
     registry, accounts, buffers, readers, writers

(* A new connection starts without a user, and belongs to nobody.          *)
LEMMA ServeWSRegistry ==
  ASSUME IInv, NEW c \in Clients, ServeWS(c)
  PROVE  RegistryOK'
<1> USE DEF registry, accounts
<1>1. AccountsOK'
  BY UserNamesAssumption DEF IInv, Shape, TypeOK, RegistryOK, AccountsOK, ServeWS, NewClient, Unreferenced
<1>2. SessionsMatchConnections'
  BY UserNamesAssumption DEF IInv, Shape, TypeOK, RegistryOK, SessionsMatchConnections, Detaching,
     ServeWS, NewClient, Unreferenced
<1>3. (MembershipMirrored /\ PresenceOK /\ ChannelsInhabited /\ NoLeakedReadLock)'
  BY DEF IInv, RegistryOK, MembershipMirrored, PresenceOK, Evicting, ChannelsInhabited,
     NoLeakedReadLock, ServeWS, NewClient
<1> QED BY <1>1, <1>2, <1>3 DEF RegistryOK

(* A login puts the connection into the session of its user.               *)
LEMMA AuthenticateRegistry ==
  ASSUME IInv, Authenticate
  PROVE  RegistryOK'
<1> USE DEF registry, accounts
<1>1. /\ hub.at = "authenticate" /\ hub.c \in clients /\ hub.u \in Users /\ ~auth[hub.c]
      /\ hub.c \in Clients /\ hub' = [hub EXCEPT !.at = "reply"]
  BY DEF Authenticate, HubGoes, IInv, Shape, HubOK, ReadersOK, NeedsClient, NeedsUser, RegistryOK, AccountsOK
<1>2. hub'.at = "reply"
  BY <1>1 DEF IInv, Shape, TypeOK
<1>3. /\ user' = [user EXCEPT ![hub.c] = hub.u]
      /\ auth' = [auth EXCEPT ![hub.c] = TRUE]
      /\ UNCHANGED <<clients, table, members, rlocks>>
      /\ sessions' = sessions \cup {hub.u}
  BY <1>1 DEF Authenticate, AddClientToUser
<1>4. conns' = [conns EXCEPT ![hub.u] = @ \cup {hub.c}]
  BY <1>1 DEF Authenticate, AddClientToUser, IInv, Shape, TypeOK, RegistryOK, SessionsMatchConnections
<1>5. UNCHANGED joined
  BY <1>1 DEF Authenticate, AddClientToUser, IInv, Shape, TypeOK, RegistryOK, PresenceOK, Evicting
<1>6. AccountsOK'
  BY <1>1, <1>2, <1>3 DEF IInv, Shape, TypeOK, RegistryOK, AccountsOK
<1>7. SessionsMatchConnections'
  <2>1. \A d \in Clients, u \in Users :
          d \in conns'[u] <=> d \in conns[u] \/ (d = hub.c /\ u = hub.u)
    BY <1>1, <1>4 DEF IInv, Shape, TypeOK
  <2>2. \A u \in Users : hub.c \notin conns[u]
    BY <1>1 DEF IInv, Shape, TypeOK, RegistryOK, AccountsOK, SessionsMatchConnections
  <2>3. \A u \in Users : conns'[u] \subseteq Clients
    BY <1>1, <1>4 DEF IInv, Shape, TypeOK
  <2>4. \A u \in Users : u \in sessions' <=> conns'[u] # {}
    BY <1>1, <1>3, <1>4, <2>1, <2>3 DEF IInv, Shape, TypeOK, RegistryOK, SessionsMatchConnections
  <2>5. ASSUME NEW u \in Users, NEW d \in Clients
        PROVE  d \in conns'[u] <=> user'[d] = u /\ (d \in clients' \/ Detaching(d)')
    BY <1>1, <1>2, <1>3, <2>1, <2>2
       DEF IInv, Shape, TypeOK, RegistryOK, SessionsMatchConnections, Detaching
  <2> QED BY <2>4, <2>5 DEF SessionsMatchConnections
<1>8. (MembershipMirrored /\ PresenceOK /\ ChannelsInhabited /\ NoLeakedReadLock)'
  BY <1>1, <1>2, <1>3, <1>5 DEF IInv, RegistryOK, MembershipMirrored, PresenceOK, Evicting, Evictions,
     ChannelsInhabited, NoLeakedReadLock, Cleanups, Removals
<1> QED BY <1>6, <1>7, <1>8 DEF RegistryOK

(* A hub step that leaves the registry alone and starts no removal.        *)
LEMMA HubMoves ==
  ASSUME IInv, UNCHANGED <<registry, accounts, rlocks>>,
         hub.at \notin Evictions \cup {"detach"},
         hub'.at \notin Evictions \cup {"detach"},
         hub'.at = "authenticate" => ~auth[hub'.c],
         hub.at \in Removals => hub'.at \in Removals \cup Cleanups /\ hub'.ch = hub.ch,
         hub.at \notin Cleanups
  PROVE  RegistryOK'
<1> USE DEF registry, accounts
<1>1. AccountsOK'
  BY DEF IInv, RegistryOK, AccountsOK
<1>2. SessionsMatchConnections'
  BY DEF IInv, RegistryOK, SessionsMatchConnections, Detaching
<1>3. MembershipMirrored' /\ NoLeakedReadLock'
  BY DEF IInv, RegistryOK, MembershipMirrored, NoLeakedReadLock
<1>4. PresenceOK'
  BY DEF IInv, RegistryOK, PresenceOK, Evicting, Evictions
<1>5. ChannelsInhabited'
  BY DEF IInv, RegistryOK, ChannelsInhabited
<1> QED BY <1>1, <1>2, <1>3, <1>4, <1>5 DEF RegistryOK

(* The requests that change no registry.                                   *)
LEMMA RequestRegistry ==
  ASSUME IInv, NEW c \in Clients,
         \/ \E token \in Tokens : HandleLogin(c, token)
         \/ \E ch \in Channels : HandleSendMessage(c, ch)
         \/ HandleOther(c)
  PROVE  RegistryOK'
<1>1. hub.at = "select" /\ UNCHANGED <<registry, accounts, rlocks>>
  BY DEF HandleLogin, HandleSendMessage, HandleOther, Take
<1>2. hub'.at \in {"select", "reply", "index", "authenticate"}
  BY <1>1 DEF HandleLogin, HandleSendMessage, HandleOther, Hub, Idle
<1>3. hub'.at = "authenticate" => ~auth[hub'.c]
  BY <1>1 DEF HandleLogin, Accepted, HandleSendMessage, HandleOther, Hub, Idle
<1> QED BY <1>1, <1>2, <1>3, HubMoves DEF Evictions, Removals, Cleanups

(* Indexing, the replies, the pushes: no registry changes either.          *)
LEMMA AnswerRegistry ==
  ASSUME IInv, (\E indexed \in BOOLEAN : IndexMessage(indexed)) \/ Reply
  PROVE  RegistryOK'
<1>1. hub.at \in Replies \cup {"index"} /\ UNCHANGED <<registry, accounts, rlocks>>
  BY DEF IndexMessage, Reply
<1>2. hub'.at \in {"select", "index", "reply", "joinPush", "sendReply", "sendPush", "leavePush"}
  <2>1. hub' \in {hub, Idle, Hub("reply", hub.c, None, NoUser, {})}
        \/ hub' \in {[hub EXCEPT !.at = at] : at \in {"sendReply", "joinPush", "sendPush", "leavePush"}}
    BY DEF IndexMessage, Reply, HubGoes, Replies
  <2>2. hub' = hub => hub.at = "index"
    BY DEF IndexMessage, Reply, HubGoes, Replies, Hub, Idle, IInv, Shape, TypeOK
  <2> QED BY <2>1, <2>2 DEF Hub, Idle, IInv, Shape, TypeOK
<1>3. hub.at \in Removals => hub'.at \in Removals \cup Cleanups /\ hub'.ch = hub.ch
  BY DEF IndexMessage, Reply, Removals, Replies, IInv, Shape, TypeOK
<1> QED BY <1>1, <1>2, <1>3, HubMoves DEF Evictions, Removals, Cleanups, Replies

(* A push changes no registry; after an eviction the hub stays at it.      *)
LEMMA PushRegistry ==
  ASSUME IInv, Push
  PROVE  RegistryOK'
<1> USE DEF registry, accounts
<1>1. CASE hub.at # "evictPush"
  <2>1. hub.at \in {"joinPush", "sendPush", "leavePush"} /\ UNCHANGED <<registry, accounts, rlocks>>
    BY <1>1 DEF Push, Pushes
  <2>2. hub' = Idle \/ (hub.at = "leavePush" /\ hub' = [hub EXCEPT !.at = "leaveCleanup"])
    BY <1>1 DEF Push, Pushes
  <2>3. hub'.at \in {"select", "leaveCleanup"}
    BY <2>2 DEF Idle, Hub, IInv, Shape, TypeOK
  <2>4. hub.at = "leavePush" => hub'.at = "leaveCleanup" /\ hub'.ch = hub.ch
    BY <1>1 DEF Push, Pushes, IInv, Shape, TypeOK
  <2> QED BY <2>1, <2>3, <2>4, HubMoves DEF Evictions, Removals, Cleanups
<1>2. CASE hub.at = "evictPush"
  <2>1. hub' = [hub EXCEPT !.at = "evictCleanup"] /\ UNCHANGED <<registry, accounts, rlocks>>
    BY <1>2 DEF Push
  <2>2. /\ hub'.at = "evictCleanup"
        /\ hub'.c = hub.c /\ hub'.u = hub.u /\ hub'.ch = hub.ch /\ hub'.todo = hub.todo
    BY <2>1 DEF IInv, Shape, TypeOK
  <2> QED BY <1>2, <2>1, <2>2 DEF IInv, RegistryOK, AccountsOK, SessionsMatchConnections, Detaching,
             MembershipMirrored, PresenceOK, Evicting, Evictions, ChannelsInhabited,
             NoLeakedReadLock, Cleanups, Removals
<1> QED BY <1>1, <1>2

(* A join adds a user who is present to a channel, in both registries.     *)
LEMMA JoinRegistry ==
  ASSUME IInv, NEW c \in Clients, NEW ch \in Channels, HandleJoinChannel(c, ch)
  PROVE  RegistryOK'
<1> USE DEF registry, accounts
<1>1. hub.at = "select" /\ UNCHANGED <<clients, sessions, conns, accounts, rlocks>>
  BY DEF HandleJoinChannel, Take
<1>2. CASE UNCHANGED <<joined, table, members, hub>>
  BY <1>1, <1>2, QuietRegistry DEF IInv
<1>3. CASE /\ stamp[c] \in sessions /\ table' = table \cup {ch} /\ stamp[c] \in members[ch]
           /\ hub' = Hub("reply", c, None, NoUser, {}) /\ UNCHANGED <<joined, members>>
  <2>1. hub'.at = "reply"
    BY <1>3 DEF Hub
  <2>2. UNCHANGED registry
    BY <1>1, <1>3 DEF IInv, Shape, TypeOK, RegistryOK, ChannelsInhabited
  <2> QED BY <1>1, <2>1, <2>2, HubMoves DEF Evictions, Removals, Cleanups
<1>4. CASE /\ stamp[c] \in sessions /\ table' = table \cup {ch} /\ stamp[c] \notin members[ch]
           /\ hub' = Hub("joinReply", c, ch, stamp[c], {})
           /\ members' = [members EXCEPT ![ch] = @ \cup {stamp[c]}]
           /\ joined' = [joined EXCEPT ![stamp[c]] = @ \cup {ch}]
  <2>1. hub'.at = "joinReply"
    BY <1>4 DEF Hub
  <2>2. AccountsOK' /\ SessionsMatchConnections' /\ NoLeakedReadLock'
    BY <1>1, <2>1 DEF IInv, RegistryOK, AccountsOK, SessionsMatchConnections, Detaching, NoLeakedReadLock
  <2>3. MembershipMirrored'
    BY <1>4 DEF IInv, Shape, TypeOK, RegistryOK, MembershipMirrored
  <2>4. PresenceOK'
    BY <1>1, <1>4, <2>1 DEF IInv, Shape, TypeOK, RegistryOK, PresenceOK, Evicting, Evictions
  <2>5. ChannelsInhabited'
    BY <1>1, <1>4, <2>1 DEF IInv, Shape, TypeOK, RegistryOK, ChannelsInhabited, Removals, Cleanups
  <2> QED BY <2>2, <2>3, <2>4, <2>5 DEF RegistryOK
<1> QED BY <1>2, <1>3, <1>4 DEF HandleJoinChannel, GetOrCreate, AddUser

(* A leave removes the membership from both; the channel may be left empty *)
(* for the cleanup the hub is then on its way to.                          *)
LEMMA LeaveRegistry ==
  ASSUME IInv, NEW c \in Clients, NEW ch \in Channels, HandleLeaveChannel(c, ch)
  PROVE  RegistryOK'
<1> USE DEF registry, accounts
<1>1. hub.at = "select" /\ UNCHANGED <<clients, sessions, conns, table, accounts, rlocks>>
  BY DEF HandleLeaveChannel, Take
<1>2. CASE UNCHANGED <<joined, members, hub>>
  BY <1>1, <1>2, QuietRegistry DEF IInv
<1>3. CASE hub' = Hub("reply", c, None, NoUser, {}) /\ UNCHANGED <<joined, members>>
  <2>1. hub'.at = "reply"
    BY <1>3 DEF Hub
  <2> QED BY <1>1, <1>3, <2>1, HubMoves DEF Evictions, Removals, Cleanups
<1>4. CASE /\ RemoveUser(user[c], ch) /\ IsMember(c, ch)
           /\ hub' = Hub("leaveReply", c, ch, user[c], {})
  <2>1. hub'.at = "leaveReply" /\ hub'.ch = ch
    BY <1>4 DEF Hub
  <2>2. user[c] \in Users
    BY <1>4 DEF IsMember, IInv, Shape, TypeOK
  <2>3. AccountsOK' /\ SessionsMatchConnections' /\ NoLeakedReadLock'
    BY <1>1, <2>1 DEF IInv, RegistryOK, AccountsOK, SessionsMatchConnections, Detaching, NoLeakedReadLock
  <2>4. MembershipMirrored'
    BY <1>4, <2>2 DEF RemoveUser, IInv, Shape, TypeOK, RegistryOK, MembershipMirrored
  <2>5. PresenceOK'
    BY <1>1, <1>4, <2>1, <2>2
       DEF RemoveUser, IInv, Shape, TypeOK, RegistryOK, PresenceOK, Evicting, Evictions
  <2>6. ChannelsInhabited'
    BY <1>1, <1>4, <2>1
       DEF RemoveUser, IInv, Shape, TypeOK, RegistryOK, ChannelsInhabited, Removals, Cleanups
  <2> QED BY <2>3, <2>4, <2>5, <2>6 DEF RegistryOK
<1> QED BY <1>1, <1>2, <1>3, <1>4 DEF HandleLeaveChannel

(* The only channel that can be empty goes; then none is.                  *)
LEMMA CleanupRegistry ==
  ASSUME IInv, CleanupEmptyChannel
  PROVE  RegistryOK'
<1> USE DEF registry, accounts
<1>1. /\ hub.at \in Cleanups /\ hub.ch \in Channels
      /\ table' = DeleteIfEmpty(hub.ch)
      /\ UNCHANGED <<clients, sessions, conns, joined, members, accounts, rlocks>>
  BY DEF CleanupEmptyChannel, IInv, Shape, HubOK, NeedsChannel
<1>2. \/ hub.at = "leaveCleanup" /\ hub'.at = "select"
      \/ hub.at = "evictCleanup" /\ hub'.at = "evict" /\ hub'.u = hub.u /\ hub'.todo = hub.todo
  BY DEF CleanupEmptyChannel, Cleanups, Hub, Idle
<1>3. AccountsOK' /\ SessionsMatchConnections' /\ MembershipMirrored' /\ NoLeakedReadLock'
  BY <1>1, <1>2 DEF IInv, RegistryOK, AccountsOK, SessionsMatchConnections, Detaching,
     MembershipMirrored, NoLeakedReadLock, Cleanups
<1>4. PresenceOK'
  BY <1>1, <1>2 DEF IInv, RegistryOK, PresenceOK, Evicting, Evictions
<1>5. ChannelsInhabited'
  BY <1>1, <1>2 DEF IInv, Shape, TypeOK, RegistryOK, ChannelsInhabited, DeleteIfEmpty, Cleanups, Removals
<1> QED BY <1>3, <1>4, <1>5 DEF RegistryOK

(* A connection joins the hub's clients without a user.                    *)
LEMMA AddClientRegistry ==
  ASSUME IInv, NEW c \in Clients, AddClient(c)
  PROVE  RegistryOK'
<1> USE DEF registry, accounts
<1>1. /\ clients' = clients \cup {c} /\ hub.at = "select" /\ reader[c] = "register"
      /\ UNCHANGED <<sessions, conns, joined, table, members, accounts, hub, rlocks>>
  BY DEF AddClient
(* A connection that is only now being registered has no user yet.         *)
<1>2. user[c] \notin Users
  BY <1>1 DEF IInv, Shape, ReadersOK, RegistryOK, AccountsOK
<1>3. SessionsMatchConnections'
  BY <1>1, <1>2 DEF IInv, Shape, TypeOK, RegistryOK, SessionsMatchConnections, Detaching
<1> QED BY <1>1, <1>3 DEF IInv, RegistryOK, AccountsOK, MembershipMirrored, PresenceOK, Evicting,
           ChannelsInhabited, NoLeakedReadLock

(* A connection leaves the hub's clients while the hub detaches it from    *)
(* its user, if it has one.                                                *)
LEMMA RemoveClientRegistry ==
  ASSUME IInv, NEW c \in Clients, RemoveClient(c)
  PROVE  RegistryOK'
<1> USE DEF registry, accounts
<1>1. /\ clients' = clients \ {c} /\ hub.at = "select"
      /\ UNCHANGED <<sessions, conns, joined, table, members, accounts, rlocks>>
  BY DEF RemoveClient
<1>2. \/ user[c] \in sessions /\ hub'.at = "detach" /\ hub'.c = c /\ hub'.u = user[c]
      \/ user[c] \notin sessions /\ hub'.at = "select"
  BY DEF RemoveClient, Hub, Idle
<1>3. AccountsOK'
  BY <1>1, <1>2 DEF IInv, RegistryOK, AccountsOK
<1>4. SessionsMatchConnections'
  <2>1. user[c] \in Users => (user[c] \in sessions <=> c \in conns[user[c]])
    BY DEF IInv, Shape, ReadersOK, RemoveClient, LiveReader, RegistryOK, SessionsMatchConnections
  <2>2. ASSUME NEW u \in Users, NEW d \in Clients
        PROVE  d \in conns'[u] <=> user'[d] = u /\ (d \in clients' \/ Detaching(d)')
    <3>1. CASE d = c
      BY <1>1, <1>2, <2>1, <3>1 DEF IInv, RegistryOK, SessionsMatchConnections, Detaching
    <3>2. CASE d # c
      BY <1>1, <1>2, <3>2 DEF IInv, RegistryOK, SessionsMatchConnections, Detaching
    <3> QED BY <3>1, <3>2
  <2> QED BY <1>1, <2>2 DEF IInv, RegistryOK, SessionsMatchConnections
<1>5. (MembershipMirrored /\ PresenceOK /\ ChannelsInhabited /\ NoLeakedReadLock)'
  BY <1>1, <1>2 DEF IInv, RegistryOK, MembershipMirrored, PresenceOK, Evicting, Evictions,
     ChannelsInhabited, NoLeakedReadLock, Removals, Cleanups
<1> QED BY <1>3, <1>4, <1>5 DEF RegistryOK

(* The session goes with its last connection, and what it had joined       *)
(* becomes what the hub has to revoke.                                     *)
LEMMA DetachRegistry ==
  ASSUME IInv, Detach
  PROVE  RegistryOK'
<1> USE DEF registry, accounts
<1>1. /\ hub.at = "detach" /\ hub.u \in Users /\ hub.c \notin clients /\ user[hub.c] = hub.u
      /\ UNCHANGED <<clients, joined, table, members, accounts, rlocks>>
  BY DEF Detach, IInv, Shape, HubOK, NeedsUser, RegistryOK, AccountsOK
<1>2. conns' = [conns EXCEPT ![hub.u] = @ \ {hub.c}]
  BY DEF Detach, RemoveClientFromUser
<1>3. \/ /\ conns[hub.u] \subseteq {hub.c} /\ sessions' = sessions \ {hub.u}
         /\ hub'.at = "evict" /\ hub'.u = hub.u /\ hub'.todo = joined[hub.u]
      \/ /\ ~(conns[hub.u] \subseteq {hub.c}) /\ sessions' = sessions
         /\ hub'.at = "select"
  BY DEF Detach, RemoveClientFromUser, GetChannels, Hub, Idle
<1>4. AccountsOK'
  BY <1>1, <1>3 DEF IInv, RegistryOK, AccountsOK
<1>5. SessionsMatchConnections'
  <2>1. \A u \in Users : u \in sessions' <=> conns'[u] # {}
    BY <1>1, <1>2, <1>3 DEF IInv, Shape, TypeOK, RegistryOK, SessionsMatchConnections
  <2>2. ASSUME NEW u \in Users, NEW d \in Clients
        PROVE  d \in conns'[u] <=> user'[d] = u /\ (d \in clients' \/ Detaching(d)')
    BY <1>1, <1>2, <1>3 DEF IInv, Shape, TypeOK, RegistryOK, SessionsMatchConnections, Detaching
  <2> QED BY <2>1, <2>2 DEF SessionsMatchConnections
<1>6. PresenceOK'
  BY <1>1, <1>3 DEF IInv, Shape, TypeOK, RegistryOK, PresenceOK, Evicting, Evictions
<1>7. (MembershipMirrored /\ ChannelsInhabited /\ NoLeakedReadLock)'
  BY <1>1, <1>3 DEF IInv, RegistryOK, MembershipMirrored, ChannelsInhabited,
     NoLeakedReadLock, Removals, Cleanups
<1> QED BY <1>4, <1>5, <1>6, <1>7 DEF RegistryOK

(* A channel on the list to revoke has the user as a member, so the loop   *)
(* never takes the branches that keep the read lock.                       *)
LEMMA EvictTakes ==
  ASSUME IInv, NEW ch \in Channels, Evict(ch)
  PROVE  /\ ch \in table /\ hub.u \in members[ch] /\ hub.u \in Users
         /\ RemoveUser(hub.u, ch) /\ UNCHANGED rlocks
         /\ hub' = Hub("evictPush", hub.c, ch, hub.u, hub.todo \ {ch})
<1>1. hub.u \in Users /\ ch \in joined[hub.u]
  BY DEF Evict, IInv, Shape, HubOK, NeedsUser, Evictions, RegistryOK, PresenceOK
<1>2. hub.u \in members[ch] /\ ch \in table
  BY <1>1 DEF IInv, RegistryOK, MembershipMirrored, ChannelsInhabited
<1> QED BY <1>1, <1>2 DEF Evict, EvictMember

(* Revoking one membership, and the end of the list.                       *)
LEMMA EvictRegistry ==
  ASSUME IInv, (\E ch \in Channels : Evict(ch)) \/ EvictDone
  PROVE  RegistryOK'
<1> USE DEF registry, accounts
<1>1. ASSUME NEW ch \in Channels, Evict(ch)
      PROVE  RegistryOK'
  <2>1. /\ hub.at = "evict" /\ UNCHANGED <<clients, sessions, conns, table, accounts, rlocks>>
        /\ RemoveUser(hub.u, ch) /\ hub.u \in Users
    BY <1>1, EvictTakes DEF Evict
  <2>2. /\ hub'.at = "evictPush" /\ hub'.c = hub.c /\ hub'.ch = ch
        /\ hub'.u = hub.u /\ hub'.todo = hub.todo \ {ch}
    BY <1>1, EvictTakes DEF Hub
  <2>3. AccountsOK' /\ SessionsMatchConnections' /\ NoLeakedReadLock'
    BY <2>1, <2>2 DEF IInv, RegistryOK, AccountsOK, SessionsMatchConnections, Detaching, NoLeakedReadLock
  <2>4. MembershipMirrored'
    BY <2>1 DEF RemoveUser, IInv, Shape, TypeOK, RegistryOK, MembershipMirrored
  <2>5. PresenceOK'
    BY <2>1, <2>2 DEF RemoveUser, IInv, Shape, TypeOK, RegistryOK, PresenceOK, Evicting, Evictions
  <2>6. ChannelsInhabited'
    BY <2>1, <2>2 DEF RemoveUser, IInv, Shape, TypeOK, RegistryOK, ChannelsInhabited, Removals, Cleanups
  <2> QED BY <2>3, <2>4, <2>5, <2>6 DEF RegistryOK
<1>2. CASE EvictDone
  <2>1. /\ hub.at = "evict" /\ hub.todo = {} /\ hub'.at = "select"
        /\ UNCHANGED <<registry, accounts, rlocks>>
    BY <1>2 DEF EvictDone, Idle, Hub
  <2> QED BY <2>1 DEF IInv, RegistryOK, AccountsOK, SessionsMatchConnections, Detaching,
             MembershipMirrored, PresenceOK, Evicting, Evictions, ChannelsInhabited,
             NoLeakedReadLock, Removals, Cleanups
<1> QED BY <1>1, <1>2

(* One step of any goroutine keeps the invariant.                          *)
LEMMA Inductive == IInv /\ [Next]_vars => IInv'
<1> SUFFICES ASSUME IInv, [Next]_vars PROVE IInv'
  OBVIOUS
<1>1. Shape'
  BY TypeStep DEF IInv, Shape
<1>2. RegistryOK'
  <2>1. CASE UNCHANGED vars
    BY <2>1, QuietRegistry DEF IInv, vars, registry, accounts
  <2>2. CASE HubStep
    BY <2>2, AuthenticateRegistry, AnswerRegistry, PushRegistry, CleanupRegistry, DetachRegistry,
       EvictRegistry DEF HubStep
  <2>3. ASSUME NEW c \in Clients, AddClient(c) \/ RemoveClient(c) \/ Handle(c)
        PROVE  RegistryOK'
    BY <2>3, AddClientRegistry, RemoveClientRegistry, RequestRegistry, JoinRegistry, LeaveRegistry
       DEF Handle
  <2>4. ASSUME NEW c \in Clients, ReaderStep(c) \/ WriterStep(c) \/ WriterFail(c)
        PROVE  RegistryOK'
    BY <2>4, ServeWSRegistry, QuietStep, QuietRegistry DEF IInv
  <2> QED BY <2>1, <2>2, <2>3, <2>4 DEF Next
<1> QED BY <1>1, <1>2 DEF IInv

(* The inductive invariant of the hub and its connections.                 *)
THEOREM Invariance == Spec => []IInv
<1>1. Init => IInv
  BY InitType, InitRegistry DEF IInv, Shape
<1> QED BY <1>1, Inductive, PTL DEF Spec

(* Sessions, their connections and the hub's clients agree, whatever the   *)
(* readers see of a login in progress.                                     *)
THEOREM SessionsCorrect == Spec => []SessionsMatchConnections
<1>1. IInv => SessionsMatchConnections
  BY DEF IInv, RegistryOK
<1> QED BY <1>1, Invariance, PTL

(* The two copies of the membership relation never differ.                 *)
THEOREM MirrorCorrect == Spec => []MembershipMirrored
<1>1. IInv => MembershipMirrored
  BY DEF IInv, RegistryOK
<1> QED BY <1>1, Invariance, PTL

(* A member has a session, or is being evicted.                            *)
THEOREM MembersPresent == Spec => []NoGhostMembers
<1>1. IInv => NoGhostMembers
  BY DEF IInv, Shape, TypeOK, RegistryOK, MembershipMirrored, PresenceOK, NoGhostMembers, Evicting, Evictions
<1> QED BY <1>1, Invariance, PTL

(* No channel outlives its last member, but for the cleanup under way.     *)
THEOREM ChannelsCorrect == Spec => []ChannelsInhabited
<1>1. IInv => ChannelsInhabited
  BY DEF IInv, RegistryOK
<1> QED BY <1>1, Invariance, PTL

(* The continues of removeUserFromAllChannels that keep the lock are dead  *)
(* code.                                                                   *)
THEOREM LocksReleased == Spec => []NoLeakedReadLock
<1>1. IInv => NoLeakedReadLock
  BY DEF IInv, RegistryOK
<1> QED BY <1>1, Invariance, PTL

-----------------------------------------------------------------------------
(* What stops the process, and what stops the hub, in every build.         *)

(* Nothing panics but what takes a short token or a torn name apart.       *)
LEMMA PanicStep ==
  ASSUME IInv, Next, panicked'
  PROVE  \/ ShortToken \in Tokens /\ \E c \in Clients : Received(c, "login")
         \/ \E c \in Clients : Received(c, "request") /\ stamp[c] = Torn
         \/ hub.at = "index" /\ hub.u = Torn
<1>0. ~panicked
  BY DEF Next
(* The reader's own send channel is open while the reader runs.            *)
<1>1. ASSUME NEW c \in Clients, ReaderStep(c) \/ WriterStep(c) \/ WriterFail(c)
      PROVE  FALSE
  <2>1. reader[c] = "refuse" => c \notin closed
    BY DEF IInv, Shape, ReadersOK
  <2> QED BY <1>0, <1>1, <2>1
      DEF ReaderStep, ServeWS, NewClient, ReadRefused, ReadRequest, Stamp, ReadError, SendRefusal, SendOn,
          WriterStep, WriterReceive, WriterCount, WriterDrain, WriterFlush, WriterClose, WriterFail
(* A member has a session.                                                 *)
<1>2. ASSUME NEW c \in Clients, AddClient(c) \/ RemoveClient(c) \/ Handle(c)
      PROVE  \/ ShortToken \in Tokens /\ Received(c, "login")
             \/ Received(c, "request") /\ stamp[c] = Torn
  <2>1. \A ch \in Channels : hub.at = "select" /\ IsMember(c, ch) => user[c] \in sessions
    BY DEF IsMember, IInv, Shape, TypeOK, RegistryOK, MembershipMirrored, PresenceOK, Evicting
  <2>2. \A kind : Take(c, kind) => Received(c, kind)
    BY DEF Take, Received, IInv, Shape, TypeOK
  <2>3. ASSUME NEW token \in Tokens, HandleLogin(c, token)
        PROVE  ShortToken \in Tokens /\ Received(c, "login")
    BY <1>0, <2>2, <2>3 DEF HandleLogin
  <2>4. ASSUME NEW ch \in Channels,
               HandleJoinChannel(c, ch) \/ HandleSendMessage(c, ch) \/ HandleLeaveChannel(c, ch)
        PROVE  Received(c, "request") /\ stamp[c] = Torn
    BY <1>0, <2>1, <2>2, <2>4 DEF HandleJoinChannel, HandleSendMessage, HandleLeaveChannel, Take
  <2> QED BY <1>0, <1>2, <2>3, <2>4 DEF AddClient, RemoveClient, Handle, HandleOther
(* The hub answers only clients it knows.                                  *)
<1>3. CASE Reply
  <2>1. hub.c \notin closed
    BY <1>3 DEF Reply, IInv, Shape, HubOK, ReadersOK, NeedsClient, LiveReader, Replies, TypeOK
  <2> QED BY <1>0, <1>3, <2>1 DEF Reply, SendOn
(* A session's connections are clients the hub knows.                      *)
<1>4. CASE Push
  <2>1. ASSUME NEW u \in sessions, NEW c \in conns[u] PROVE c \notin closed
    <3>1. u \in Users /\ c \in Clients
      BY DEF IInv, Shape, TypeOK
    <3>2. c \in clients
      BY <1>4, <3>1 DEF Push, Pushes, IInv, RegistryOK, SessionsMatchConnections, Detaching
    <3> QED BY <3>1, <3>2 DEF IInv, Shape, ReadersOK, LiveReader
  <2>2. Audience(hub.ch) \cap closed = {}
    BY <2>1 DEF Audience
  <2> QED BY <1>0, <1>4, <2>2 DEF Push
<1>5. CASE \E indexed \in BOOLEAN : IndexMessage(indexed)
  BY <1>0, <1>5 DEF IndexMessage
<1>6. CASE Authenticate \/ CleanupEmptyChannel \/ Detach \/ (\E ch \in Channels : Evict(ch)) \/ EvictDone
  BY <1>0, <1>6 DEF Authenticate, CleanupEmptyChannel, Detach, Evict, EvictDone
<1> QED BY <1>1, <1>2, <1>3, <1>4, <1>5, <1>6 DEF Next, HubStep

(* The process dies of nothing else, in no build and under no schedule: no *)
(* send on a closed channel, no leaving user without a session.            *)
THEOREM PanicsKnown == Spec => OnlyKnownPanics
<1> DEFINE Known == \/ ShortToken \in Tokens /\ \E c \in Clients : Received(c, "login")
                    \/ \E c \in Clients : Received(c, "request") /\ stamp[c] = Torn
                    \/ hub.at = "index" /\ hub.u = Torn
<1>1. IInv /\ [Next]_vars => [panicked' => Known]_vars
  BY PanicStep
<1> QED BY <1>1, Invariance, PTL DEF Spec, OnlyKnownPanics

(* Nothing that another goroutine does gives a wedged hub room.            *)
LEMMA WedgedStep ==
  ASSUME IInv, Wedged, Next
  PROVE  Wedged' /\ UNCHANGED <<hub, registry>>
<1> USE DEF registry, accounts, buffers, readers, writers
<1>1. /\ hub.at \in Replies /\ hub.c \in clients /\ hub.c \in Clients
      /\ writer[hub.c] = "exited" /\ queue[hub.c] >= SendCap /\ hub.c \notin closed
      /\ hub.at # "select"
  BY SendCapAssumption DEF Wedged, HasRoom, IInv, Shape, TypeOK, HubOK, ReadersOK, NeedsClient, LiveReader, Replies
<1>2. ~HubStep
  BY <1>1 DEF HubStep, Authenticate, IndexMessage, Reply, SendOn, Wedged, Push, CleanupEmptyChannel, Detach,
     Evict, EvictDone, Replies, Pushes, Cleanups
<1>3. ASSUME NEW c \in Clients, ReaderStep(c) \/ WriterStep(c) \/ WriterFail(c)
      PROVE  /\ UNCHANGED <<hub, registry>>
             /\ writer'[hub.c] = "exited" /\ queue'[hub.c] = queue[hub.c]
  <2>1. CASE ServeWS(c)
    <3>1. hub.c # c
      BY <2>1 DEF ServeWS, Unreferenced
    <3> QED BY <1>1, <2>1, <3>1 DEF ServeWS, NewClient, IInv, Shape, TypeOK
  <2>2. CASE SendRefusal(c)
    <3>1. \/ UNCHANGED queue
          \/ queue' = [d \in Clients |-> IF d \in {c} /\ HasRoom(d) THEN queue[d] + 1 ELSE queue[d]]
      BY <2>2 DEF SendRefusal, SendOn, Enqueue
    <3> QED BY <1>1, <2>2, <3>1 DEF SendRefusal, Wedged
  <2>3. CASE ReaderStep(c) /\ ~ServeWS(c) /\ ~SendRefusal(c)
    BY <1>1, <2>3 DEF ReaderStep, ReadRefused, ReadRequest, Stamp, ReadError
  <2>4. CASE WriterStep(c) \/ WriterFail(c)
    <3>1. c # hub.c
      BY <1>1, <2>4 DEF WriterStep, WriterReceive, WriterCount, WriterDrain, WriterFlush, WriterClose, WriterFail
    <3> QED BY <1>1, <2>4, <3>1 DEF WriterStep, WriterReceive, WriterCount, WriterDrain, WriterFlush,
            WriterClose, WriterFail, WriterGoes, IInv, Shape, TypeOK
  <2> QED BY <1>3, <2>1, <2>2, <2>3, <2>4
<1>4. ASSUME NEW c \in Clients PROVE ~(AddClient(c) \/ RemoveClient(c) \/ Handle(c))
  BY <1>1 DEF AddClient, RemoveClient, Handle, HandleLogin, HandleJoinChannel, HandleSendMessage,
     HandleLeaveChannel, HandleOther, Take
<1>5. PICK c \in Clients : ReaderStep(c) \/ WriterStep(c) \/ WriterFail(c)
  BY <1>2, <1>4 DEF Next
<1> QED BY <1>3, <1>5 DEF Wedged, HasRoom

(* A hub that waits for room in the channel of a dead writer waits for     *)
(* ever, and the registry is what it was: nobody is served any more.       *)
THEOREM WedgeIsFinal == Spec => WedgedForever
<1>1. IInv /\ [Next]_vars => [Wedged => Wedged' /\ UNCHANGED <<hub, registry>>]_vars
  BY WedgedStep
<1> QED BY <1>1, Invariance, PTL DEF Spec, WedgedForever

(* Every client's writer was started; what a writer counted is still       *)
(* queued, as nobody else receives from the send channel.                  *)
WritersOK ==
  /\ \A c \in clients : writer[c] # "off"
  /\ \A c \in Clients : writer[c] = "drain" => batch[c] <= queue[c]

LEMMA WritersStep ==
  ASSUME IInv, WritersOK, Next
  PROVE  WritersOK'
<1> USE DEF registry, accounts, buffers, readers, writers, WritersOK
<1>1. clients \subseteq Clients /\ queue \in [Clients -> 0 .. SendCap] /\ batch \in [Clients -> 0 .. SendCap]
  BY DEF IInv, Shape, TypeOK
(* What is sent only adds to what is queued.                               *)
<1>2. ASSUME NEW cs, Enqueue(cs) PROVE \A d \in Clients : queue[d] <= queue'[d]
  BY <1>1, <1>2, SendCapAssumption DEF Enqueue
<1>3. CASE HubStep
  <2>1. \A d \in Clients : queue[d] <= queue'[d]
    <3>1. UNCHANGED queue \/ \E cs : Enqueue(cs)
      BY <1>3 DEF HubStep, Authenticate, IndexMessage, Reply, SendOn, Push, CleanupEmptyChannel, Detach,
         Evict, EvictDone
    <3>2. UNCHANGED queue => \A d \in Clients : queue[d] <= queue'[d]
      BY <1>1, SendCapAssumption
    <3> QED BY <1>2, <3>1, <3>2
  <2>2. UNCHANGED <<clients, writer, batch>>
    BY <1>3 DEF HubStep, Authenticate, AddClientToUser, IndexMessage, Reply, Push, CleanupEmptyChannel, Detach,
       Evict, EvictDone
  <2>3. queue' \in [Clients -> 0 .. SendCap]
    BY TypeStep DEF IInv, Shape, TypeOK
  <2> QED BY <1>1, <2>1, <2>2, <2>3, SendCapAssumption
<1>4. ASSUME NEW c \in Clients, AddClient(c) \/ RemoveClient(c) \/ Handle(c)
      PROVE  WritersOK'
  <2>1. CASE AddClient(c)
    BY <1>1, <2>1 DEF AddClient, WriterGoes, IInv, Shape, TypeOK
  <2>2. CASE RemoveClient(c) \/ Handle(c)
    BY <1>1, <2>2 DEF RemoveClient, Handle, HandleLogin, HandleJoinChannel, HandleSendMessage,
       HandleLeaveChannel, HandleOther, Take
  <2> QED BY <1>4, <2>1, <2>2
<1>5. ASSUME NEW c \in Clients, ReaderStep(c)
      PROVE  WritersOK'
  <2>1. CASE ServeWS(c)
    BY <1>1, <2>1 DEF ServeWS, NewClient, Unreferenced, IInv, Shape, TypeOK
  <2>2. CASE SendRefusal(c)
    <3>1. \A d \in Clients : queue[d] <= queue'[d]
      <4>1. UNCHANGED queue \/ Enqueue({c})
        BY <2>2 DEF SendRefusal, SendOn
      <4>2. UNCHANGED queue => \A d \in Clients : queue[d] <= queue'[d]
        BY <1>1, SendCapAssumption
      <4> QED BY <1>2, <4>1, <4>2
    <3>2. UNCHANGED <<clients, writer, batch>>
      BY <2>2 DEF SendRefusal
    <3>3. queue' \in [Clients -> 0 .. SendCap]
      BY TypeStep DEF IInv, Shape, TypeOK
    <3> QED BY <1>1, <3>1, <3>2, <3>3, SendCapAssumption
  <2>3. CASE ReaderStep(c) /\ ~ServeWS(c) /\ ~SendRefusal(c)
    BY <1>1, <2>3 DEF ReaderStep, ReadRefused, ReadRequest, Stamp, ReadError
  <2> QED BY <1>5, <2>1, <2>2, <2>3
<1>6. ASSUME NEW c \in Clients, WriterStep(c) \/ WriterFail(c)
      PROVE  WritersOK'
  BY <1>1, <1>6, SendCapAssumption DEF WriterStep, WriterReceive, WriterCount, WriterDrain, WriterFlush,
     WriterClose, WriterFail, WriterGoes, IInv, Shape, TypeOK
<1> QED BY <1>3, <1>4, <1>5, <1>6 DEF Next

(* The hub, or a writer, can take its next step.                           *)
HubFree == rlocks = 0 /\ (hub.at \in Replies => HasRoom(hub.c))
WriterMoves(c) == \/ writer[c] = "wait" /\ (queue[c] > 0 \/ c \in closed)
                  \/ writer[c] = "write"
                  \/ writer[c] = "drain" /\ (batch[c] > 0 => queue[c] > 0)

(* Nobody waits in a circle.  A hub that is busy can go on, or waits for a *)
(* writer that can, or is wedged; a reader that waits to refuse a frame    *)
(* waits for a writer that can go on, or for one that has ended.  (All     *)
(* other waiting is for the hub.)                                          *)
NoCircle ==
  /\ hub.at # "select" => HubFree \/ WriterMoves(hub.c) \/ Wedged
  /\ \A c \in Clients : reader[c] = "refuse" =>
       HasRoom(c) \/ WriterMoves(c) \/ writer[c] = "exited"

(* With NoCircle, liveness is a matter of scheduling and of writers that   *)
(* end, for every number of connections and every capacity.                *)
THEOREM NoCircularWait == Spec => []NoCircle
<1>1. Init => IInv /\ WritersOK
  BY InitType, InitRegistry DEF IInv, Shape, Init, WritersOK
<1>2. IInv /\ WritersOK /\ [Next]_vars => (IInv /\ WritersOK)'
  <2>1. ASSUME IInv, WritersOK, UNCHANGED vars PROVE WritersOK'
    BY <2>1 DEF WritersOK, vars, registry, buffers, writers
  <2> QED BY <2>1, Inductive, WritersStep
<1>3. ASSUME IInv, WritersOK PROVE NoCircle
  <2>1. ASSUME NEW c \in clients, ~HasRoom(c)
        PROVE  WriterMoves(c) \/ writer[c] = "exited"
    <3>1. c \in Clients /\ writer[c] \in {"wait", "write", "drain", "exited"} /\ queue[c] > 0
      BY <1>3, <2>1, SendCapAssumption DEF IInv, Shape, TypeOK, WritersOK, HasRoom
    <3> QED BY <3>1 DEF WriterMoves
  <2>2. ASSUME NEW c \in Clients, reader[c] = "refuse" PROVE c \in clients
    BY <1>3, <2>2 DEF IInv, Shape, ReadersOK, LiveReader
  <2>3. hub.at \in Replies => hub.c \in clients
    BY <1>3 DEF IInv, Shape, ReadersOK, NeedsClient
  <2>4. rlocks = 0
    BY <1>3 DEF IInv, RegistryOK, NoLeakedReadLock
  <2> QED BY <2>1, <2>2, <2>3, <2>4 DEF NoCircle, HubFree, Wedged
<1> QED BY <1>1, <1>2, <1>3, PTL DEF Spec

-----------------------------------------------------------------------------
(* How long the hub is away from its select.                               *)

(* What a set of memberships costs: each is revoked, pushed, cleaned up.   *)
Left(channels) == 3 * Cardinality(channels)

(* The steps the hub has left before it receives again.                    *)
HubRank ==
  CASE hub.at = "select" -> 0
    [] hub.at \in {"reply", "joinPush", "sendPush", "leaveCleanup"} -> 1
    [] hub.at \in {"authenticate", "joinReply", "sendReply", "leavePush"} -> 2
    [] hub.at \in {"index", "leaveReply"} -> 3
    [] hub.at = "evict" -> Left(hub.todo) + 1
    [] hub.at = "evictCleanup" -> Left(hub.todo) + 2
    [] hub.at = "evictPush" -> Left(hub.todo) + 3
    [] hub.at = "detach" -> Left(joined[hub.u]) + 2

(* Away from its select the hub comes nearer to it with every step of its  *)
(* own, unless the process dies, and nobody else moves it.                 *)
HubAdvances ==
  [][hub.at # "select" => IF HubStep THEN panicked' \/ HubRank' < HubRank
                          ELSE UNCHANGED <<hub, registry>>]_vars

(* A user is in finitely many channels: he joined them one by one.         *)
FinitelyJoined == \A u \in Users : IsFiniteSet(joined[u])

LEMMA FinitelyJoinedStep ==
  ASSUME IInv, FinitelyJoined, Next
  PROVE  FinitelyJoined'
<1> USE DEF registry
<1>1. joined \in [Users -> SUBSET Channels]
  BY DEF IInv, Shape, TypeOK
<1>2. ASSUME NEW u, NEW ch, AddUser(u, ch) \/ RemoveUser(u, ch)
      PROVE  FinitelyJoined'
  <2>1. \A v \in Users : joined'[v] \in {joined[v], joined[v] \cup {ch}, joined[v] \ {ch}}
    BY <1>1, <1>2 DEF AddUser, RemoveUser
  <2>2. ASSUME NEW v \in Users PROVE IsFiniteSet(joined'[v])
    <3>1. IsFiniteSet(joined[v])
      BY DEF FinitelyJoined
    <3>2. IsFiniteSet(joined[v] \cup {ch}) /\ IsFiniteSet(joined[v] \ {ch})
      BY <3>1, FS_AddElement, FS_RemoveElement
    <3> QED BY <2>1, <3>1, <3>2
  <2> QED BY <2>2 DEF FinitelyJoined
<1>3. CASE Authenticate
  <2>1. \A v \in Users : joined'[v] \in {joined[v], {}}
    BY <1>1, <1>3 DEF Authenticate, AddClientToUser
  <2> QED BY <2>1, FS_EmptySet DEF FinitelyJoined
<1>4. CASE HubStep /\ ~Authenticate
  <2>1. UNCHANGED joined \/ \E ch \in Channels : Evict(ch)
    BY <1>4 DEF HubStep, IndexMessage, Reply, Push, CleanupEmptyChannel, Detach, EvictDone
  <2> QED BY <1>2, <2>1, EvictTakes DEF FinitelyJoined
<1>5. ASSUME NEW c \in Clients, AddClient(c) \/ RemoveClient(c) \/ Handle(c)
      PROVE  UNCHANGED joined \/ \E u, ch : AddUser(u, ch) \/ RemoveUser(u, ch)
  <2>1. CASE \/ AddClient(c) \/ RemoveClient(c) \/ HandleOther(c)
             \/ \E token \in Tokens : HandleLogin(c, token)
             \/ \E ch \in Channels : HandleSendMessage(c, ch)
    BY <2>1 DEF AddClient, RemoveClient, HandleOther, HandleLogin, HandleSendMessage
  <2>2. ASSUME NEW ch \in Channels, HandleJoinChannel(c, ch)
        PROVE  UNCHANGED joined \/ AddUser(stamp[c], ch)
    BY <2>2 DEF HandleJoinChannel
  <2>3. ASSUME NEW ch \in Channels, HandleLeaveChannel(c, ch)
        PROVE  UNCHANGED joined \/ RemoveUser(user[c], ch)
    BY <2>3 DEF HandleLeaveChannel
  <2> QED BY <1>5, <2>1, <2>2, <2>3 DEF Handle
<1>6. ASSUME NEW c \in Clients, ReaderStep(c) \/ WriterStep(c) \/ WriterFail(c)
      PROVE  UNCHANGED joined
  BY <1>6, QuietStep DEF ServeWS
<1> QED BY <1>2, <1>3, <1>4, <1>5, <1>6 DEF Next, FinitelyJoined

(* The memberships a set of channels stands for can be counted, and the    *)
(* count goes down by the price of one when one is revoked.                *)
LEMMA LeftType ==
  ASSUME NEW S, IsFiniteSet(S)
  PROVE  /\ Left(S) \in Nat
         /\ \A ch \in S : Left(S \ {ch}) + 3 = Left(S)
<1>1. Cardinality(S) \in Nat
  BY FS_CardinalityType
<1>2. \A ch \in S : Cardinality(S \ {ch}) = Cardinality(S) - 1
  BY FS_RemoveElement
<1> QED BY <1>1, <1>2 DEF Left

(* What the hub has to revoke, or may have to, is finite.                  *)
LEMMA FinitelyLeft ==
  ASSUME IInv, FinitelyJoined
  PROVE  /\ hub.at \in Evictions => IsFiniteSet(hub.todo)
         /\ hub.at = "detach" => IsFiniteSet(joined[hub.u])
  BY DEF IInv, Shape, HubOK, NeedsUser, RegistryOK, PresenceOK, FinitelyJoined, Evictions

(* The rank is a number, at most three for each channel and three besides. *)
LEMMA RankType ==
  ASSUME IInv, FinitelyJoined
  PROVE  /\ HubRank \in Nat
         /\ IsFiniteSet(Channels) => HubRank <= Left(Channels) + 3
<1>1. hub.at \in HubAt /\ hub.todo \subseteq Channels
  BY DEF IInv, Shape, TypeOK
<1>2. hub.at = "detach" => joined[hub.u] \subseteq Channels
  BY DEF IInv, Shape, TypeOK, HubOK, NeedsUser
<1>3. /\ hub.at \in Evictions => Left(hub.todo) \in Nat
      /\ hub.at = "detach" => Left(joined[hub.u]) \in Nat
  BY FinitelyLeft, LeftType
<1>4. ASSUME IsFiniteSet(Channels), NEW S, S \subseteq Channels
      PROVE  Left(S) <= Left(Channels) /\ Left(Channels) \in Nat /\ Left(S) \in Nat
  <2>1. IsFiniteSet(S) /\ Cardinality(S) <= Cardinality(Channels)
    BY <1>4, FS_Subset
  <2>2. Cardinality(S) \in Nat /\ Cardinality(Channels) \in Nat
    BY <1>4, <2>1, FS_CardinalityType
  <2> QED BY <2>1, <2>2 DEF Left
<1>5. HubRank \in Nat
  BY <1>1, <1>3 DEF HubRank, HubAt, Replies, Pushes, Cleanups, Evictions
<1>6. ASSUME IsFiniteSet(Channels) PROVE HubRank <= Left(Channels) + 3
  <2>1. Left(Channels) \in Nat /\ Left(hub.todo) <= Left(Channels)
        /\ (hub.at = "detach" => Left(joined[hub.u]) <= Left(Channels))
    BY <1>1, <1>2, <1>4, <1>6
  <2> QED BY <1>1, <1>3, <2>1 DEF HubRank, HubAt, Replies, Pushes, Cleanups, Evictions
<1> QED BY <1>5, <1>6

(* Every step of the hub's own costs at least one.                         *)
LEMMA RankDrops ==
  ASSUME IInv, FinitelyJoined, HubStep, ~panicked'
  PROVE  HubRank' < HubRank
<1>1. CASE Authenticate
  <2>1. hub.at = "authenticate" /\ hub'.at = "reply"
    BY <1>1 DEF Authenticate, HubGoes, IInv, Shape, TypeOK
  <2> QED BY <2>1 DEF HubRank
<1>2. CASE \E indexed \in BOOLEAN : IndexMessage(indexed)
  <2>1. hub.at = "index" /\ hub'.at \in {"reply", "sendReply"}
    BY <1>2 DEF IndexMessage, HubGoes, Hub, IInv, Shape, TypeOK
  <2> QED BY <2>1 DEF HubRank
<1>3. CASE Reply
  <2>1. \/ hub.at = "reply" /\ hub'.at = "select"
        \/ hub.at = "joinReply" /\ hub'.at = "joinPush"
        \/ hub.at = "sendReply" /\ hub'.at = "sendPush"
        \/ hub.at = "leaveReply" /\ hub'.at = "leavePush"
    BY <1>3 DEF Reply, Replies, Idle, Hub, IInv, Shape, TypeOK
  <2> QED BY <2>1 DEF HubRank
<1>4. CASE Push
  <2>1. \/ hub.at \in {"joinPush", "sendPush"} /\ hub'.at = "select"
        \/ hub.at = "leavePush" /\ hub'.at = "leaveCleanup"
        \/ hub.at = "evictPush" /\ hub'.at = "evictCleanup" /\ hub'.todo = hub.todo
    BY <1>4 DEF Push, Pushes, Idle, Hub, IInv, Shape, TypeOK
  <2>2. hub.at = "evictPush" => Left(hub.todo) \in Nat
    BY FinitelyLeft, LeftType DEF Evictions
  <2> QED BY <2>1, <2>2 DEF HubRank
<1>5. CASE CleanupEmptyChannel
  <2>1. \/ hub.at = "leaveCleanup" /\ hub'.at = "select"
        \/ hub.at = "evictCleanup" /\ hub'.at = "evict" /\ hub'.todo = hub.todo
    BY <1>5 DEF CleanupEmptyChannel, Cleanups, Idle, Hub
  <2>2. hub.at = "evictCleanup" => Left(hub.todo) \in Nat
    BY FinitelyLeft, LeftType DEF Evictions
  <2> QED BY <2>1, <2>2 DEF HubRank
<1>6. CASE Detach
  <2>1. /\ hub.at = "detach"
        /\ hub'.at = "select" \/ (hub'.at = "evict" /\ hub'.todo = joined[hub.u])
    BY <1>6 DEF Detach, GetChannels, Idle, Hub
  <2>2. Left(joined[hub.u]) \in Nat
    BY <2>1, FinitelyLeft, LeftType
  <2> QED BY <2>1, <2>2 DEF HubRank
<1>7. ASSUME NEW ch \in Channels, Evict(ch)
      PROVE  HubRank' < HubRank
  <2>1. hub.at = "evict" /\ ch \in hub.todo /\ hub'.at = "evictPush" /\ hub'.todo = hub.todo \ {ch}
    BY <1>7, EvictTakes DEF Evict, Hub
  <2>2. Left(hub.todo) \in Nat /\ Left(hub.todo \ {ch}) + 3 = Left(hub.todo)
    BY <2>1, FinitelyLeft, LeftType DEF Evictions
  <2>3. HubRank = Left(hub.todo) + 1
    BY <2>1 DEF HubRank
  <2>4. HubRank' = Left(hub.todo \ {ch}) + 3
    BY <2>1 DEF HubRank
  <2> QED BY <2>2, <2>3, <2>4
<1>8. CASE EvictDone
  <2>1. hub.at = "evict" /\ hub'.at = "select"
    BY <1>8 DEF EvictDone, Idle, Hub
  <2>2. Left(hub.todo) \in Nat
    BY <2>1, FinitelyLeft, LeftType DEF Evictions
  <2> QED BY <2>1, <2>2 DEF HubRank
<1> QED BY <1>1, <1>2, <1>3, <1>4, <1>5, <1>6, <1>7, <1>8 DEF HubStep

(* What the hub has received it is done with after at most HubRank steps   *)
(* of its own, for every number of channels: eviction ends, and with       *)
(* NoCircularWait only a dead writer can keep the hub from its select.     *)
THEOREM HubStepsBounded ==
  Spec => /\ [](/\ HubRank \in Nat
                 /\ IsFiniteSet(Channels) => HubRank <= Left(Channels) + 3)
          /\ HubAdvances
<1> DEFINE Bounded == /\ HubRank \in Nat
                      /\ IsFiniteSet(Channels) => HubRank <= Left(Channels) + 3
           Advances == hub.at # "select" => IF HubStep THEN panicked' \/ HubRank' < HubRank
                                            ELSE UNCHANGED <<hub, registry>>
<1>1. Init => IInv /\ FinitelyJoined
  BY InitType, InitRegistry, FS_EmptySet DEF IInv, Shape, Init, FinitelyJoined
<1>2. IInv /\ FinitelyJoined /\ [Next]_vars => (IInv /\ FinitelyJoined)'
  <2>1. ASSUME FinitelyJoined, UNCHANGED vars PROVE FinitelyJoined'
    BY <2>1 DEF vars, registry, FinitelyJoined
  <2> QED BY <2>1, Inductive, FinitelyJoinedStep
<1>3. IInv /\ FinitelyJoined => Bounded
  BY RankType
<1>4. IInv /\ FinitelyJoined /\ [Next]_vars => [Advances]_vars
  <2>1. ASSUME IInv, FinitelyJoined, Next, hub.at # "select", ~HubStep
        PROVE  UNCHANGED <<hub, registry>>
    <3>1. PICK c \in Clients : ReaderStep(c) \/ WriterStep(c) \/ WriterFail(c)
      BY <2>1 DEF Next, AddClient, RemoveClient, Handle, HandleLogin, HandleJoinChannel,
         HandleSendMessage, HandleLeaveChannel, HandleOther, Take
    <3> QED BY <3>1, QuietStep DEF ServeWS
  <2> QED BY <2>1, RankDrops
<1> QED BY <1>1, <1>2, <1>3, <1>4, PTL DEF Spec, HubAdvances

-----------------------------------------------------------------------------
(* Whose name a request bears, whatever a reader sees of a login.          *)

(* Where the hub carries a name for somebody.                              *)
Naming == {"joinReply", "joinPush", "index", "sendReply", "sendPush"}

(* A reader stamps a request with what it sees of its own user.            *)
LEMMA ReaderNames ==
  ASSUME IInv, NeverAnothersName, NEW c \in Clients, ReaderStep(c)
  PROVE  NeverAnothersName'
<1> USE DEF registry, accounts, buffers, readers, writers
<1>1. CASE ServeWS(c)
  <2>1. hub.c # c /\ UNCHANGED hub
    BY <1>1 DEF ServeWS, Unreferenced
  <2>2. \A d \in Clients :
          /\ d = c => reader'[d] = "register"
          /\ d # c => reader'[d] = reader[d] /\ stamp'[d] = stamp[d] /\ user'[d] = user[d]
    BY <1>1 DEF ServeWS, NewClient, IInv, Shape, TypeOK
  <2>3. hub.at \in Naming => hub.c \in Clients
    BY DEF Naming, IInv, Shape, HubOK
  <2> QED BY <2>1, <2>2, <2>3 DEF Naming, NeverAnothersName, Bears, LoggingIn
<1>2. CASE Stamp(c)
  <2>1. UNCHANGED <<user, hub>>
    BY <1>2 DEF Stamp
  <2>2. \A d \in Clients : d # c => reader'[d] = reader[d] /\ stamp'[d] = stamp[d]
    BY <1>2 DEF Stamp, IInv, Shape, TypeOK
  <2>3. stamp'[c] \in SeesUser(c)
    BY <1>2 DEF Stamp, IInv, Shape, TypeOK
  <2>4. Bears(c, stamp'[c]) \/ LoggingIn(c, stamp'[c])
    BY <2>3 DEF SeesUser, Storing, Bears, LoggingIn
  <2> QED BY <2>1, <2>2, <2>4 DEF NeverAnothersName, Bears, LoggingIn
<1>3. CASE ReaderStep(c) /\ ~ServeWS(c) /\ ~Stamp(c)
  <2>1. UNCHANGED <<user, stamp, hub>>
    BY <1>3 DEF ReaderStep, ReadRefused, ReadRequest, ReadError, SendRefusal
  <2>2. \A d \in Clients : reader'[d] = "dispatch" => reader[d] = "dispatch"
    BY <1>3 DEF ReaderStep, ReadRefused, ReadRequest, ReadError, SendRefusal, IInv, Shape, TypeOK
  <2> QED BY <2>1, <2>2 DEF NeverAnothersName, Bears, LoggingIn
<1> QED BY <1>1, <1>2, <1>3

(* A request made during a login bears the name that is being stored.      *)
LEMMA HubNames ==
  ASSUME IInv, NeverAnothersName, HubStep
  PROVE  NeverAnothersName'
<1> USE DEF registry, accounts, buffers, readers, writers
<1>1. CASE Authenticate
  <2>1. hub'.at = "reply" /\ UNCHANGED <<reader, stamp>>
    BY <1>1 DEF Authenticate, HubGoes, IInv, Shape, TypeOK
  <2>2. hub.c \in Clients /\ user[hub.c] = NoUser /\ ~auth[hub.c]
    BY <1>1 DEF Authenticate, IInv, Shape, TypeOK, HubOK, RegistryOK, AccountsOK
  <2>3. user'[hub.c] = hub.u /\ \A d \in Clients : d # hub.c => user'[d] = user[d]
    BY <1>1, <2>2 DEF Authenticate, IInv, Shape, TypeOK
  <2>4. ASSUME NEW d \in Clients, reader'[d] = "dispatch"
        PROVE  Bears(d, stamp[d])'
    <3>1. Bears(d, stamp[d]) \/ LoggingIn(d, stamp[d])
      BY <2>1, <2>4 DEF NeverAnothersName
    <3> QED BY <2>1, <2>2, <2>3, <3>1 DEF Bears, LoggingIn
  <2> QED BY <2>1, <2>4 DEF NeverAnothersName
<1>2. CASE HubStep /\ ~Authenticate
  <2>1. UNCHANGED <<user, reader, stamp>> /\ hub.at # "authenticate"
    BY <1>2 DEF HubStep, IndexMessage, Reply, Push, CleanupEmptyChannel, Detach, Evict, EvictDone,
       Replies, Pushes, Cleanups
  (* Only indexing and its reply carry a name on, the one they have. *)
  <2>2. CASE (\E indexed \in BOOLEAN : IndexMessage(indexed)) \/ Reply
    <3>1. /\ hub'.at \in {"joinReply", "joinPush"} => hub.at = "joinReply"
          /\ hub'.at \in {"index", "sendReply", "sendPush"}
             => hub.at \in {"index", "sendReply", "sendPush"}
          /\ hub'.at \in Naming => hub'.c = hub.c /\ hub'.u = hub.u
      BY <2>2 DEF Naming, IndexMessage, Reply, HubGoes, Hub, Idle, Replies, IInv, Shape, TypeOK
    <3> QED BY <2>1, <3>1 DEF Naming, NeverAnothersName, Bears, LoggingIn
  <2>3. CASE Push \/ CleanupEmptyChannel \/ Detach \/ (\E ch \in Channels : Evict(ch)) \/ EvictDone
    <3>1. hub'.at \notin Naming
      BY <2>3 DEF Naming, Push, CleanupEmptyChannel, Detach, Evict, EvictDone, Hub, Idle, Pushes,
         IInv, Shape, TypeOK
    <3> QED BY <2>1, <3>1 DEF Naming, NeverAnothersName, Bears, LoggingIn
  <2> QED BY <1>2, <2>2, <2>3 DEF HubStep
<1> QED BY <1>1, <1>2

(* No login is under way when the hub takes a request; a stamp that has a  *)
(* session is a user.                                                      *)
LEMMA ReceiveNames ==
  ASSUME IInv, NeverAnothersName, NEW c \in Clients, AddClient(c) \/ RemoveClient(c) \/ Handle(c)
  PROVE  NeverAnothersName'
<1> USE DEF registry, accounts, buffers, readers, writers
<1>1. hub.at = "select" /\ UNCHANGED user
  BY DEF AddClient, RemoveClient, Handle, HandleLogin, HandleJoinChannel, HandleSendMessage,
     HandleLeaveChannel, HandleOther, Take
<1>2. \A d \in Clients : reader'[d] = "dispatch" => reader[d] = "dispatch" /\ stamp'[d] = stamp[d]
  <2>1. CASE AddClient(c) \/ RemoveClient(c)
    BY <2>1 DEF AddClient, RemoveClient, IInv, Shape, TypeOK
  <2>2. CASE Handle(c)
    <3>1. \E kind : Take(c, kind)
      BY <2>2 DEF Handle, HandleLogin, HandleJoinChannel, HandleSendMessage, HandleLeaveChannel, HandleOther
    <3> QED BY <3>1 DEF Take, IInv, Shape, TypeOK
  <2> QED BY <2>1, <2>2
<1>3. \A d \in Clients : reader'[d] = "dispatch" => Bears(d, stamp[d])'
  BY <1>1, <1>2 DEF NeverAnothersName, Bears, LoggingIn
<1>4. ASSUME NEW ch \in Channels, HandleJoinChannel(c, ch)
      PROVE  \/ hub'.at \notin Naming
             \/ hub'.at = "joinReply" /\ hub'.u = user[hub'.c]
  <2>1. reader[c] = "dispatch"
    BY <1>4 DEF HandleJoinChannel, Take
  <2>2. stamp[c] \in Users => stamp[c] = user[c]
    BY <1>1, <2>1, UserNamesAssumption DEF NeverAnothersName, Bears, LoggingIn
  <2>3. \/ hub' \in {hub, Hub("reply", c, None, NoUser, {})}
        \/ stamp[c] \in Users /\ hub' = Hub("joinReply", c, ch, stamp[c], {})
    BY <1>4 DEF HandleJoinChannel, IInv, Shape, TypeOK
  <2> QED BY <1>1, <2>2, <2>3 DEF Naming, Hub
<1>5. ASSUME NEW ch \in Channels, HandleSendMessage(c, ch)
      PROVE  \/ hub'.at \notin Naming
             \/ hub'.at = "index" /\ hub'.u \in {NoUser, Torn, user[hub'.c]}
  <2>1. Bears(c, stamp[c])
    BY <1>1, <1>5 DEF HandleSendMessage, Take, NeverAnothersName, LoggingIn
  <2> QED BY <1>5, <2>1 DEF HandleSendMessage, Naming, Hub, Idle, Bears
<1>6. CASE \/ AddClient(c) \/ RemoveClient(c) \/ HandleOther(c)
           \/ \E token \in Tokens : HandleLogin(c, token)
           \/ \E ch \in Channels : HandleLeaveChannel(c, ch)
  <2>1. hub'.at \notin Naming
    BY <1>1, <1>6 DEF AddClient, RemoveClient, HandleOther, HandleLogin, HandleLeaveChannel, Hub, Idle, Naming
  <2> QED BY <1>3, <2>1 DEF NeverAnothersName, Naming
<1> QED BY <1>1, <1>3, <1>4, <1>5, <1>6 DEF Handle, NeverAnothersName, Naming, Bears

(* Writers carry no names.                                                 *)
LEMMA WriterNames ==
  ASSUME NeverAnothersName, NEW c \in Clients, WriterStep(c) \/ WriterFail(c)
  PROVE  NeverAnothersName'
<1>1. UNCHANGED <<user, reader, stamp, hub>>
  BY DEF WriterStep, WriterReceive, WriterCount, WriterDrain, WriterFlush, WriterFail,
     WriterClose, accounts, buffers, readers
<1> QED BY <1>1 DEF NeverAnothersName, Bears, LoggingIn

(* In every build, the racy one included: a request may lose its author,   *)
(* but never gets another user's name, and nobody joins for somebody else. *)
THEOREM NamesNeverAnothers == Spec => []NeverAnothersName
<1>1. Init => IInv /\ NeverAnothersName
  BY InitType, InitRegistry DEF IInv, Shape, Init, Idle, Hub, NeverAnothersName
<1>2. IInv /\ NeverAnothersName /\ [Next]_vars => (IInv /\ NeverAnothersName)'
  <2>1. ASSUME NeverAnothersName, UNCHANGED vars PROVE NeverAnothersName'
    BY <2>1 DEF vars, accounts, readers, NeverAnothersName, Bears, LoggingIn
  <2>2. ASSUME IInv, NeverAnothersName, Next PROVE NeverAnothersName'
    BY <2>2, ReaderNames, HubNames, ReceiveNames, WriterNames DEF Next
  <2> QED BY <2>1, <2>2, Inductive
<1> QED BY <1>1, <1>2, PTL DEF Spec

-----------------------------------------------------------------------------
(* What holds where the stores of Authenticate are seen whole and in       *)
(* order, and what if no token is too short besides.                       *)

Benign == ~Racy /\ ShortToken \notin Tokens

(* What a request carries while its reader waits for the hub, and what the *)
(* hub carries while it sends a message.                                   *)
StampsOK ==
  /\ \A c \in Clients :
       /\ stamp[c] # Torn
       /\ reader[c] = "stamp" /\ asked[c] # "login" => auth[c]
       /\ reader[c] = "dispatch" /\ asked[c] # "login" => auth[c] /\ stamp[c] = user[c]
  /\ hub.at \in {"index", "sendReply", "sendPush"}
     => hub.u \in Users /\ hub.u = user[hub.c] /\ hub.u \in members[hub.ch]

JInv == IInv /\ StampsOK

(* No request is under way at first.                                       *)
LEMMA InitStamps == Init => StampsOK
  BY UserNamesAssumption DEF Init, StampsOK, Idle, Hub

(* A reader stamps a request with its own, settled user.                   *)
LEMMA ReaderStamps ==
  ASSUME ~Racy, IInv, StampsOK, NEW c \in Clients, ReaderStep(c)
  PROVE  StampsOK'
<1> USE DEF registry, accounts, buffers, readers, writers
<1>1. CASE ServeWS(c)
  <2>1. hub.c # c /\ UNCHANGED <<members, hub>>
    BY <1>1 DEF ServeWS, NewClient, Unreferenced
  <2>2. \A d \in Clients :
          /\ d = c => reader'[d] = "register" /\ stamp'[d] = NoUser
          /\ d # c => /\ reader'[d] = reader[d] /\ stamp'[d] = stamp[d] /\ asked'[d] = asked[d]
                      /\ user'[d] = user[d] /\ auth'[d] = auth[d]
    BY <1>1 DEF ServeWS, NewClient, IInv, Shape, TypeOK
  <2>3. hub.at # "select" => hub.c \in Clients
    BY DEF IInv, Shape, HubOK
  <2> QED BY <2>1, <2>2, <2>3, UserNamesAssumption DEF StampsOK
<1>2. CASE ReadRefused(c) \/ ReadError(c) \/ SendRefusal(c)
  BY <1>2 DEF ReadRefused, ReadError, SendRefusal, IInv, Shape, TypeOK, StampsOK
<1>3. CASE \E kind \in Kinds : ReadRequest(c, kind)
  <2>1. PICK kind \in Kinds : ReadRequest(c, kind)
    BY <1>3
  <2>2. kind # "login" => auth[c]
    BY <2>1 DEF ReadRequest, SeesAuth, Storing, IInv, Shape, TypeOK
  <2> QED BY <2>1, <2>2 DEF ReadRequest, IInv, Shape, TypeOK, StampsOK
<1>4. CASE Stamp(c)
  <2>1. reader[c] = "stamp" /\ reader' = [reader EXCEPT ![c] = "dispatch"]
        /\ UNCHANGED <<registry, accounts, asked, hub>>
    BY <1>4 DEF Stamp
  <2>2. stamp' = [stamp EXCEPT ![c] = user[c]]
    BY <1>4 DEF Stamp, SeesUser, Storing
  <2>3. user[c] # Torn
    BY UserNamesAssumption DEF IInv, Shape, TypeOK
  <2> QED BY <2>1, <2>2, <2>3 DEF IInv, Shape, TypeOK, StampsOK
<1> QED BY <1>1, <1>2, <1>3, <1>4 DEF ReaderStep

(* What the hub does on its own disturbs no waiting request.               *)
LEMMA HubStamps ==
  ASSUME IInv, StampsOK, HubStep
  PROVE  StampsOK'
<1> USE DEF registry, accounts, buffers, readers, writers
<1>1. CASE Authenticate
  <2>1. hub'.at = "reply" /\ UNCHANGED readers
    BY <1>1 DEF Authenticate, HubGoes, IInv, Shape, TypeOK
  <2>2. hub.c \in Clients /\ ~auth[hub.c]
    BY <1>1 DEF Authenticate, IInv, Shape, HubOK, RegistryOK, AccountsOK
  <2>3. \A d \in Clients : d # hub.c => user'[d] = user[d] /\ auth'[d] = auth[d]
    BY <1>1 DEF Authenticate, IInv, Shape, TypeOK
  <2>4. auth'[hub.c] = TRUE
    BY <1>1, <2>2 DEF Authenticate, IInv, Shape, TypeOK
  <2> QED BY <2>1, <2>2, <2>3, <2>4 DEF StampsOK
<1>2. CASE (\E indexed \in BOOLEAN : IndexMessage(indexed)) \/ Reply
  <2>1. UNCHANGED <<registry, accounts, readers>>
    BY <1>2 DEF IndexMessage, Reply
  <2>2. hub'.at \in {"index", "sendReply", "sendPush"}
        => /\ hub.at \in {"index", "sendReply", "sendPush"}
           /\ hub'.c = hub.c /\ hub'.ch = hub.ch /\ hub'.u = hub.u
    BY <1>2 DEF IndexMessage, Reply, HubGoes, Hub, Idle, Replies, IInv, Shape, TypeOK
  <2> QED BY <2>1, <2>2 DEF StampsOK
<1>3. CASE Push \/ CleanupEmptyChannel \/ Detach \/ (\E ch \in Channels : Evict(ch)) \/ EvictDone
  <2>1. UNCHANGED <<accounts, readers>>
    BY <1>3 DEF Push, CleanupEmptyChannel, Detach, Evict, EvictDone
  <2>2. hub'.at \notin {"index", "sendReply", "sendPush"}
    BY <1>3 DEF Push, CleanupEmptyChannel, Detach, Evict, EvictDone, Hub, Idle, Pushes, IInv, Shape, TypeOK
  <2> QED BY <2>1, <2>2 DEF StampsOK
<1> QED BY <1>1, <1>2, <1>3 DEF HubStep

(* What the hub receives it carries under the stamped name.                *)
LEMMA ReceiveStamps ==
  ASSUME IInv, StampsOK, NEW c \in Clients, AddClient(c) \/ RemoveClient(c) \/ Handle(c)
  PROVE  StampsOK'
<1> USE DEF registry, accounts, buffers, readers, writers
<1>1. CASE AddClient(c) \/ RemoveClient(c)
  <2>1. /\ reader' \in {[reader EXCEPT ![c] = "read"], [reader EXCEPT ![c] = "done"]}
        /\ UNCHANGED <<accounts, stamp, asked, members>>
    BY <1>1 DEF AddClient, RemoveClient
  <2>2. hub'.at \notin {"index", "sendReply", "sendPush"}
    BY <1>1 DEF AddClient, RemoveClient, Hub, Idle
  <2> QED BY <2>1, <2>2 DEF IInv, Shape, TypeOK, StampsOK
<1>2. CASE Handle(c)
  <2>1. \E kind \in Kinds : Take(c, kind)
    BY <1>2 DEF Handle, HandleLogin, HandleJoinChannel, HandleSendMessage, HandleLeaveChannel,
       HandleOther, Kinds
  <2>2. \A d \in Clients :
          /\ stamp'[d] # Torn
          /\ reader'[d] = "stamp" /\ asked'[d] # "login" => auth'[d]
          /\ reader'[d] = "dispatch" /\ asked'[d] # "login" => auth'[d] /\ stamp'[d] = user'[d]
    BY <2>1, UserNamesAssumption DEF Take, IInv, Shape, TypeOK, StampsOK
  <2>3. ASSUME NEW ch \in Channels, HandleSendMessage(c, ch)
        PROVE  hub'.at \in {"index", "sendReply", "sendPush"}
               => /\ hub'.u \in Users /\ hub'.u = user'[hub'.c]
                  /\ hub'.u \in members'[hub'.ch]
    BY <2>3 DEF HandleSendMessage, Take, IsMember, Hub, Idle, IInv, Shape, TypeOK, StampsOK
  <2>4. (\A ch \in Channels : ~HandleSendMessage(c, ch))
        => hub'.at \notin {"index", "sendReply", "sendPush"}
    <3>1. Take(c, "login") \/ Take(c, "request") \/ Take(c, "other") => hub.at = "select"
      BY DEF Take
    <3>2. ASSUME NEW token \in Tokens, HandleLogin(c, token)
          PROVE  hub'.at \notin {"index", "sendReply", "sendPush"}
      BY <3>1, <3>2 DEF HandleLogin, Hub, Idle
    <3>3. ASSUME NEW ch \in Channels, HandleJoinChannel(c, ch)
          PROVE  hub'.at \notin {"index", "sendReply", "sendPush"}
      BY <3>1, <3>3 DEF HandleJoinChannel, Hub
    <3>4. ASSUME NEW ch \in Channels, HandleLeaveChannel(c, ch)
          PROVE  hub'.at \notin {"index", "sendReply", "sendPush"}
      BY <3>1, <3>4 DEF HandleLeaveChannel, Hub
    <3>5. ASSUME HandleOther(c)
          PROVE  hub'.at \notin {"index", "sendReply", "sendPush"}
      BY <3>1, <3>5 DEF HandleOther
    <3> QED BY <1>2, <3>2, <3>3, <3>4, <3>5 DEF Handle
  <2> QED BY <2>2, <2>3, <2>4 DEF StampsOK
<1> QED BY <1>1, <1>2

(* Writers carry no names.                                                 *)
LEMMA WriterStamps ==
  ASSUME StampsOK, NEW c \in Clients, WriterStep(c) \/ WriterFail(c)
  PROVE  StampsOK'
<1>1. UNCHANGED <<registry, accounts, readers, hub>>
  BY DEF WriterStep, WriterReceive, WriterCount, WriterDrain, WriterFlush, WriterFail,
     WriterClose, registry, accounts, buffers, readers, writers
<1> QED BY <1>1 DEF StampsOK, registry, accounts, readers

-----------------------------------------------------------------------------
(* One step of any goroutine keeps the stamps.                             *)
LEMMA SettledInductive == ~Racy /\ JInv /\ [Next]_vars => JInv'
<1> SUFFICES ASSUME ~Racy, JInv, [Next]_vars PROVE JInv'
  OBVIOUS
<1>1. IInv'
  BY Inductive DEF JInv
<1>2. CASE UNCHANGED vars
  BY <1>1, <1>2 DEF JInv, StampsOK, vars, registry, accounts, readers
<1>3. CASE Next
  BY <1>1, <1>3, ReaderStamps, HubStamps, ReceiveStamps, WriterStamps DEF JInv, Next
<1> QED BY <1>2, <1>3

(* Where the stores are seen whole and in order the stamps are right.      *)
THEOREM SettledInvariance == ~Racy /\ Spec => []JInv
<1>1. Init => JInv
  BY InitType, InitRegistry, InitStamps DEF JInv, IInv, Shape
<1>2. CASE Racy
  BY <1>2, PTL
<1>3. CASE ~Racy
  <2>1. JInv /\ [Next]_vars => JInv'
    BY <1>3, SettledInductive
  <2> QED BY <1>1, <2>1, PTL DEF Spec
<1> QED BY <1>2, <1>3

(* With no short token either, nothing is left that panics.                *)
LEMMA NoPanicStep ==
  ASSUME Benign, JInv, NoPanic, [Next]_vars
  PROVE  NoPanic'
<1>1. \A c \in Clients : stamp[c] # Torn
  BY DEF JInv, StampsOK
<1>2. hub.at = "index" => hub.u # Torn
  BY UserNamesAssumption DEF JInv, StampsOK
<1>3. ShortToken \notin Tokens
  BY DEF Benign
<1> QED BY <1>1, <1>2, <1>3, PanicStep DEF JInv, NoPanic, vars

(* No goroutine sends on a closed channel, no handler meets a nil user.    *)
THEOREM PanicFree == Benign /\ Spec => []NoPanic
<1>1. Init => NoPanic
  BY DEF Init, NoPanic
<1>2. CASE ~Benign
  BY <1>2, PTL
<1>3. CASE Benign
  <2>1. JInv /\ NoPanic /\ [Next]_vars => NoPanic'
    BY <1>3, NoPanicStep
  <2>2. ~Racy
    BY <1>3 DEF Benign
  <2> QED BY <1>1, <2>1, <2>2, SettledInvariance, PTL DEF Spec
<1> QED BY <1>2, <1>3

(* A waiting request names the user its connection is logged in as, and    *)
(* that user has a session.                                                *)
THEOREM RequestsHaveSessions == ~Racy /\ Spec => []RequestHasSession
<1>1. JInv => RequestHasSession
  BY DEF JInv, IInv, Shape, ReadersOK, LiveReader, StampsOK, RegistryOK, AccountsOK,
     SessionsMatchConnections, RequestHasSession
<1> QED BY <1>1, SettledInvariance, PTL

(* Messages go out under the sender's name, into a channel he is in.       *)
THEOREM AuthorsCorrect == ~Racy /\ Spec => []AuthorIsSender
<1>1. JInv => AuthorIsSender
  BY DEF JInv, StampsOK, AuthorIsSender
<1> QED BY <1>1, SettledInvariance, PTL

(* Having received a request the hub is on its way to a reply.             *)
THEOREM RequestsAnswered == Benign /\ Spec => EveryRequestAnswered
<1>1. ASSUME Benign, JInv, [Next]_vars, NEW c \in Clients,
             reader[c] = "dispatch", reader'[c] = "read", asked[c] # "other"
      PROVE  hub'.at # "select"
  <2>1. c \in clients /\ stamp[c] # Torn
    BY <1>1 DEF JInv, IInv, Shape, ReadersOK, LiveReader, StampsOK
  <2>2. asked[c] # "login" => stamp[c] \in sessions
    BY <1>1, <2>1 DEF JInv, IInv, RegistryOK, AccountsOK, SessionsMatchConnections, StampsOK
  (* Only the hub's receiving takes a reader from dispatch to read. *)
  <2>3. Handle(c)
    <3>1. CASE UNCHANGED vars
      BY <1>1, <3>1 DEF vars, readers
    <3>2. CASE HubStep
      BY <1>1, <3>2 DEF HubStep, Authenticate, IndexMessage, Reply, Push, CleanupEmptyChannel,
         Detach, Evict, EvictDone, readers
    <3>3. ASSUME NEW d \in Clients, d # c,
                 AddClient(d) \/ RemoveClient(d) \/ Handle(d) \/ ReaderStep(d)
          PROVE  reader'[c] = reader[c]
      BY <1>1, <3>3 DEF AddClient, RemoveClient, Handle, HandleLogin, HandleJoinChannel,
         HandleSendMessage, HandleLeaveChannel, HandleOther, Take, ReaderStep, ServeWS, NewClient,
         ReadRefused, ReadRequest, Stamp, ReadError, SendRefusal, JInv, IInv, Shape, TypeOK
    <3>4. ASSUME NEW d \in Clients, WriterStep(d) \/ WriterFail(d)
          PROVE  reader'[c] = reader[c]
      BY <3>4 DEF WriterStep, WriterReceive, WriterCount, WriterDrain, WriterFlush, WriterClose,
         WriterFail, readers
    <3>5. CASE AddClient(c) \/ RemoveClient(c) \/ ReaderStep(c)
      BY <1>1, <3>5 DEF AddClient, RemoveClient, ReaderStep, ServeWS, NewClient, Unreferenced, ReadRefused,
         ReadRequest, Stamp, ReadError, SendRefusal
    <3> QED BY <1>1, <3>1, <3>2, <3>3, <3>4, <3>5 DEF Next
  <2>4. CASE asked[c] = "login"
    BY <2>1, <2>3, <2>4, <1>1 DEF Handle, HandleLogin, HandleJoinChannel, HandleSendMessage,
       HandleLeaveChannel, HandleOther, Take, Hub, Benign
  <2>5. CASE asked[c] # "login"
    <3>1. PICK ch \in Channels : \/ HandleJoinChannel(c, ch)
                                 \/ HandleSendMessage(c, ch)
                                 \/ HandleLeaveChannel(c, ch)
      BY <1>1, <2>3, <2>5 DEF Handle, HandleLogin, HandleOther, Take
    <3>2. CASE HandleJoinChannel(c, ch)
      BY <2>1, <2>2, <2>5, <3>2 DEF HandleJoinChannel, GetOrCreate, AddUser, Hub
    <3>3. CASE HandleSendMessage(c, ch)
      BY <2>1, <3>3 DEF HandleSendMessage, Hub
    <3>4. CASE HandleLeaveChannel(c, ch)
      <4>1. hub.at = "select" /\ (IsMember(c, ch) => user[c] \in sessions)
        BY <3>4, <1>1 DEF HandleLeaveChannel, Take, IsMember, JInv, IInv, Shape, TypeOK,
           RegistryOK, MembershipMirrored, PresenceOK, Evicting
      <4> QED BY <2>1, <3>4, <4>1 DEF HandleLeaveChannel, Hub
    <3> QED BY <3>1, <3>2, <3>3, <3>4
  <2> QED BY <2>4, <2>5
<1>2. CASE ~Benign
  BY <1>2, PTL
<1>3. CASE Benign
  <2>1. JInv /\ [Next]_vars
        => [\A c \in Clients :
              reader[c] = "dispatch" /\ reader'[c] = "read" /\ asked[c] # "other"
              => hub'.at # "select"]_vars
    BY <1>1, <1>3
  <2>2. ~Racy
    BY <1>3 DEF Benign
  <2> QED BY <2>1, <2>2, SettledInvariance, PTL DEF Spec, EveryRequestAnswered
<1> QED BY <1>2, <1>3

-----------------------------------------------------------------------------
(* The hub, its readers and its writers implement Rooms.                   *)

(* Login, detachment and eviction are steps of Rooms; the rest stutters.   *)
LEMMA HubRefines ==
  ASSUME IInv, HubStep
  PROVE  [Promise!Next]_(Promise!vars)
<1> USE DEF registry
<1>1. CASE Authenticate
  <2>1. /\ hub.u \in Users /\ hub.c \in Clients /\ ~auth[hub.c] /\ hub.at = "authenticate"
    BY <1>1 DEF Authenticate, IInv, Shape, HubOK, NeedsUser, RegistryOK, AccountsOK
  <2>2. conns' = [conns EXCEPT ![hub.u] = @ \cup {hub.c}] /\ UNCHANGED members
    BY <1>1, <2>1 DEF Authenticate, AddClientToUser, IInv, Shape, TypeOK, RegistryOK,
       SessionsMatchConnections
  <2>3. \A v \in Users : hub.c \notin conns[v]
    BY <2>1 DEF IInv, Shape, TypeOK, RegistryOK, AccountsOK, SessionsMatchConnections
  <2>4. conns[hub.u] = {} => \A ch \in Channels : hub.u \notin members[ch]
    BY <2>1 DEF IInv, Shape, TypeOK, RegistryOK, SessionsMatchConnections, MembershipMirrored,
       PresenceOK, Evicting
  <2>5. Promise!Attach(hub.u, hub.c)
    BY <2>1, <2>2, <2>3, <2>4 DEF Promise!Attach, Promise!Present, Promise!MemberOf
  <2> QED BY <2>1, <2>5 DEF Promise!Next
<1>2. CASE Detach
  <2>1. /\ hub.u \in Users /\ hub.c \in Clients
        /\ conns' = [conns EXCEPT ![hub.u] = @ \ {hub.c}] /\ UNCHANGED members
    BY <1>2 DEF Detach, RemoveClientFromUser, IInv, Shape, HubOK, NeedsUser
  <2>2. hub.c \in conns[hub.u]
    BY <1>2, <2>1 DEF Detach, IInv, RegistryOK, AccountsOK, SessionsMatchConnections, Detaching
  <2> QED BY <2>1, <2>2 DEF Promise!Next, Promise!Detach
<1>3. ASSUME NEW ch \in Channels, Evict(ch)
      PROVE  [Promise!Next]_(Promise!vars)
  <2>1. /\ hub.u \in Users /\ hub.u \in members[ch]
        /\ members' = [members EXCEPT ![ch] = @ \ {hub.u}] /\ UNCHANGED conns
    BY <1>3, EvictTakes DEF Evict, RemoveUser
  <2>2. conns[hub.u] = {}
    BY <1>3, <2>1 DEF Evict, IInv, RegistryOK, PresenceOK, Evictions, SessionsMatchConnections
  <2>3. Promise!Evict(hub.u, ch)
    BY <2>1, <2>2 DEF Promise!Evict, Promise!Present
  <2> QED BY <2>1, <2>3 DEF Promise!Next
<1>4. CASE \/ \E indexed \in BOOLEAN : IndexMessage(indexed)
           \/ Reply \/ Push \/ CleanupEmptyChannel \/ EvictDone
  BY <1>4 DEF IndexMessage, Reply, Push, CleanupEmptyChannel, EvictDone, Promise!vars
<1> QED BY <1>1, <1>2, <1>3, <1>4 DEF HubStep

(* Joins and leaves are steps of Rooms; the rest stutters.                 *)
LEMMA ReceiveRefines ==
  ASSUME IInv, NEW c \in Clients, AddClient(c) \/ RemoveClient(c) \/ Handle(c)
  PROVE  [Promise!Next]_(Promise!vars)
<1> USE DEF registry
<1>1. ASSUME NEW ch \in Channels, HandleJoinChannel(c, ch)
      PROVE  [Promise!Next]_(Promise!vars)
  <2>1. UNCHANGED conns
    BY <1>1 DEF HandleJoinChannel, GetOrCreate, AddUser
  <2>2. CASE UNCHANGED members
    BY <2>1, <2>2 DEF Promise!vars
  <2>3. CASE ~UNCHANGED members
    <3>1. /\ stamp[c] \in sessions /\ stamp[c] \notin members[ch]
          /\ members' = [members EXCEPT ![ch] = @ \cup {stamp[c]}]
      BY <1>1, <2>3 DEF HandleJoinChannel, GetOrCreate, AddUser
    <3>2. stamp[c] \in Users /\ conns[stamp[c]] # {}
      BY <3>1 DEF IInv, Shape, TypeOK, RegistryOK, SessionsMatchConnections
    <3>3. Promise!Join(stamp[c], ch)
      BY <2>1, <3>1, <3>2 DEF Promise!Join, Promise!Present
    <3> QED BY <3>2, <3>3 DEF Promise!Next
  <2> QED BY <2>2, <2>3
<1>2. ASSUME NEW ch \in Channels, HandleLeaveChannel(c, ch)
      PROVE  [Promise!Next]_(Promise!vars)
  <2>1. UNCHANGED conns
    BY <1>2 DEF HandleLeaveChannel
  <2>2. CASE UNCHANGED members
    BY <2>1, <2>2 DEF Promise!vars
  <2>3. CASE ~UNCHANGED members
    <3>1. user[c] \in sessions /\ user[c] \in members[ch] /\ RemoveUser(user[c], ch)
      BY <1>2, <2>3 DEF HandleLeaveChannel, IsMember
    <3>2. user[c] \in Users /\ conns[user[c]] # {}
      BY <3>1 DEF IInv, Shape, TypeOK, RegistryOK, SessionsMatchConnections
    <3>3. Promise!Leave(user[c], ch)
      BY <2>1, <3>1, <3>2 DEF RemoveUser, Promise!Leave, Promise!Present
    <3> QED BY <3>2, <3>3 DEF Promise!Next
  <2> QED BY <2>2, <2>3
<1>3. CASE \/ AddClient(c) \/ RemoveClient(c)
           \/ \E token \in Tokens : HandleLogin(c, token)
           \/ \E ch \in Channels : HandleSendMessage(c, ch)
           \/ HandleOther(c)
  BY <1>3 DEF AddClient, RemoveClient, HandleLogin, HandleSendMessage, HandleOther, Promise!vars
<1> QED BY <1>1, <1>2, <1>3 DEF Handle

(* Whatever memory model and tokens: presence and membership behave as     *)
(* Rooms promises.  (That evictions do happen is left to TLC.)             *)
THEOREM ImplementsRooms == Spec => Promise!SafeSpec
<1>1. Init => Promise!Init
  BY DEF Init, Promise!Init
<1>2. IInv /\ [Next]_vars => [Promise!Next]_(Promise!vars)
  <2> SUFFICES ASSUME IInv, [Next]_vars PROVE [Promise!Next]_(Promise!vars)
    OBVIOUS
  <2>1. CASE UNCHANGED vars
    BY <2>1 DEF vars, registry, Promise!vars
  <2>2. ASSUME NEW c \in Clients, ReaderStep(c) \/ WriterStep(c) \/ WriterFail(c)
        PROVE  UNCHANGED Promise!vars
    <3>1. CASE ServeWS(c)
      BY <3>1 DEF ServeWS, NewClient, registry, Promise!vars
    <3>2. CASE ~ServeWS(c)
      BY <2>2, <3>2, QuietStep DEF registry, Promise!vars
    <3> QED BY <3>1, <3>2
  <2> QED BY <2>1, <2>2, HubRefines, ReceiveRefines DEF Next
<1> QED BY <1>1, <1>2, Invariance, PTL DEF Spec, Promise!SafeSpec
=============================================================================
