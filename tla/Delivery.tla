------------------------------ MODULE Delivery ------------------------------
(***************************************************************************)
(* What a connection is sent, and in what order.  The hub replies into the *)
(* requester's send channel and pushes into those of every connection of   *)
(* every member; the connection's own reader puts refusals into it; its    *)
(* writer takes what is there, puts it into one frame, a JSON value per    *)
(* line, and writes the frame.                                             *)
(*                                                                         *)
(* There is one channel; its members are users, who may have any number of *)
(* connections.  How connections and logins come and go is told in Server; *)
(* here every connection is logged in, and its writer may fail.            *)
(***************************************************************************)
EXTENDS Naturals, FiniteSets, SequencesExt

CONSTANTS Clients,      \* connections, logged in
          Logins,       \* who may have logged in where: functions to users
          SendCap,      \* capacity of Client.send
          OnePerFrame,  \* the peer takes one JSON value per frame
          MayFail,      \* connections that may break: a bound
          MaxRequests,  \* requests of all connections: a bound
          MaxOf         \* MaxOf[c]: requests of c: a bound

ASSUME LoginsAssumption == \A l \in Logins : DOMAIN l = Clients
ASSUME SendCapAssumption == SendCap \in Nat \ {0}
ASSUME MaxRequestsAssumption == MaxRequests \in Nat
ASSUME MaxOfAssumption == MaxOf \in [Clients -> Nat]
ASSUME OnePerFrameAssumption == OnePerFrame \in BOOLEAN

VARIABLES user,     \* user[c]: Client.user
          members,  \* Channel.users
          told,     \* whom a reply has welcomed, and none let go since, no variable of the code
          clock,    \* the time: it goes on with every frame that is read
          asked,    \* asked[c]: frames that c's reader has read
          refusing, \* readers that wait to put a refusal into the send channel
          offers,   \* requests that wait for the hub in dispatchMessage
          hub,      \* where the hub is, with which request
          queue,    \* queue[c]: Client.send
          frame,    \* frame[c]: what the writer has put into the frame so far
          left,     \* left[c]: how many more queued messages will go into it
          writer,   \* writer[c]: where WriteMessages is
          got,      \* got[c]: what the peer has read
          made      \* made[c]: all that was ever put into queue[c], no variable of the code

vars == <<user, members, told, clock, asked, refusing, offers, hub, queue, frame, left, writer, got, made>>
writers == <<frame, left, writer, got>>

Requests == {"join", "leave", "message"}
Whats == {"welcome", "bye", "sent", "error"}

(* A push is named by the request it comes from.  (Neither a push nor a    *)
(* refusal carries a request id in the code: n only tells them apart here.) *)
(* created_at is 0 in all that is no user's message.                       *)
Item == [type : {"response", "refusal", "push"}, client : Clients, n : Nat,
         what : Whats \cup {"none"}, createdAt : Nat]

Response(c, n, w) == [type |-> "response", client |-> c, n |-> n, what |-> w, createdAt |-> 0]
Refusal(c, n) == [type |-> "refusal", client |-> c, n |-> n, what |-> "none", createdAt |-> 0]

(* A system push says who came or went; a message keeps its time.          *)
Push(r) == [type |-> "push", client |-> r.client, n |-> r.n, what |-> "none",
            createdAt |-> IF r.what = "sent" THEN r.createdAt ELSE 0]

Offer == [client : Clients, n : Nat, kind : Requests, createdAt : Nat]

(* The hub has nobody's request when it is idle.                           *)
Hub == [at : {"reply", "push"}, client : Clients, n : Nat, what : Whats, createdAt : Nat]
Idle == [at |-> "idle"]

(* Some users have joined before.                                          *)
Init ==
  /\ user \in Logins
  /\ members \in SUBSET {user[c] : c \in Clients}
  /\ told = members
  /\ clock = 0
  /\ asked = [c \in Clients |-> 0]
  /\ refusing = {}
  /\ offers = {}
  /\ hub = Idle
  /\ queue = [c \in Clients |-> <<>>]
  /\ frame = [c \in Clients |-> <<>>]
  /\ left = [c \in Clients |-> 0]
  /\ writer = [c \in Clients |-> "select"]
  /\ got = [c \in Clients |-> <<>>]
  /\ made = got

-----------------------------------------------------------------------------
(* The send channel.                                                       *)

\* mutant: room for one more than there is
RoomOffByOne(c) == Len(queue[c]) <= SendCap

HasRoom(c) == Len(queue[c]) < SendCap

(* A blocking send, of the hub or of the reader.                           *)
Send(c, item) ==
  /\ HasRoom(c)
  /\ queue' = [queue EXCEPT ![c] = Append(@, item)]
  /\ made' = [made EXCEPT ![c] = Append(@, item)]

-----------------------------------------------------------------------------
(* ReadMessages.                                                           *)

\* mutant: a request is handed over by a goroutine of its own
HandsOverLater(c) == FALSE

(* dispatchMessage is unbuffered: the reader waits until the hub takes it. *)
Dispatching(c) == \E o \in offers : o.client = c

\* mutant: the time is rounded
NowRounded == (clock + 1) \div 2

Now == clock + 1

(* A frame is read.  It is refused (no JSON, not valid), or stamped and    *)
(* dispatched.                                                             *)
Read(c) ==
  /\ c \notin refusing
  /\ ~Dispatching(c)
  /\ clock < MaxRequests /\ asked[c] < MaxOf[c]
  /\ clock' = clock + 1
  /\ asked' = [asked EXCEPT ![c] = @ + 1]
  /\ \/ /\ refusing' = refusing \cup {c}
        /\ UNCHANGED offers
     \/ /\ \E k \in Requests :
             offers' = offers \cup
                         {[client |-> c, n |-> asked[c] + 1, kind |-> k, createdAt |-> Now]}
        /\ UNCHANGED refusing
  /\ UNCHANGED <<user, members, told, hub, queue, writers, made>>

SendRefusal(c) ==
  /\ c \in refusing
  /\ Send(c, Refusal(c, asked[c]))
  /\ refusing' = refusing \ {c}
  /\ UNCHANGED <<user, members, told, clock, asked, offers, hub, writers>>

-----------------------------------------------------------------------------
(* The hub.                                                                *)

\* mutant: the push goes out before the reply
PushesFirst(at, what) ==
  CASE at = "idle" -> IF what = "error" THEN "reply" ELSE "push"
    [] at = "push" -> "reply"
    [] OTHER -> "idle"

(* What a handler does next: it replies, and pushes unless it failed.      *)
Following(at, what) ==
  CASE at = "idle" -> "reply"
    [] at = "reply" -> IF what = "error" THEN "idle" ELSE "push"
    [] OTHER -> "idle"

(* How a request turns out.  A message may fail to be indexed.             *)
Outcomes(o) ==
  LET member == user[o.client] \in members IN
  CASE o.kind = "join" -> {IF member THEN "error" ELSE "welcome"}
    [] o.kind = "leave" -> {IF member THEN "bye" ELSE "error"}
    [] OTHER -> IF member THEN {"sent", "error"} ELSE {"error"}

(* What a reply says of a user.                                            *)
Changed(set, what, u) ==
  CASE what = "welcome" -> set \cup {u}
    [] what = "bye" -> set \ {u}
    [] OTHER -> set

(* The hub takes a request and changes the membership.                     *)
Take(c) ==
  /\ hub = Idle
  /\ \E o \in offers :
       /\ o.client = c
       /\ \E w \in Outcomes(o) :
            /\ hub' = [at |-> Following("idle", w), client |-> c, n |-> o.n, what |-> w,
                        createdAt |-> o.createdAt]
            /\ members' = Changed(members, w, user[c])
       /\ offers' = offers \ {o}
  /\ UNCHANGED <<user, told, clock, asked, refusing, queue, writers, made>>

GoOn == hub' = IF Following(hub.at, hub.what) = "idle" THEN Idle
               ELSE [hub EXCEPT !.at = Following(@, hub.what)]

\* mutant: a reply is dropped when the channel is full, as a push is
DropsReply(c, item) ==
  IF HasRoom(c) THEN Send(c, item) ELSE UNCHANGED <<queue, made>>

SendReply(c, item) == Send(c, item)

(* sendResponse, sendError: the hub waits for room.                        *)
Reply ==
  /\ hub.at = "reply"
  /\ SendReply(hub.client, Response(hub.client, hub.n, hub.what))
  /\ GoOn
  /\ told' = Changed(told, hub.what, user[hub.client])
  /\ UNCHANGED <<user, members, clock, asked, refusing, offers, writers>>

\* mutant: a user has one connection
AnyConnection(u) == IF \E c \in Clients : user[c] = u
                    THEN {CHOOSE c \in Clients : user[c] = u} ELSE {}

(* User.connections: a push goes to all of them, whichever has joined.     *)
Connections(u) == {c \in Clients : user[c] = u}

\* mutant: who leaves is told that he left, too
AudienceWithLeaver == UNION {Connections(u) : u \in members \cup {user[hub.client]}}

(* The connections of the users of GetUsernames.                           *)
Audience == UNION {Connections(u) : u \in members}

(* Channel.Send: to every member, dropped where there is no room.          *)
PushAll ==
  LET to == {c \in Audience : HasRoom(c)}
      add(q) == [c \in Clients |-> IF c \in to THEN Append(q[c], Push(hub)) ELSE q[c]]
  IN /\ hub.at = "push"
     /\ queue' = add(queue)
     /\ made' = add(made)
     /\ GoOn
     /\ UNCHANGED <<user, members, told, clock, asked, refusing, offers, writers>>

-----------------------------------------------------------------------------
(* WriteMessages.                                                          *)

(* The first message of a frame ...                                        *)
WriterReceive(c) ==
  /\ writer[c] = "select"
  /\ queue[c] # <<>>
  /\ frame' = [frame EXCEPT ![c] = <<Head(queue[c])>>]
  /\ queue' = [queue EXCEPT ![c] = Tail(@)]
  /\ writer' = [writer EXCEPT ![c] = "count"]
  /\ UNCHANGED <<user, members, told, clock, asked, refusing, offers, hub, left, got, made>>

\* mutant: one more than there are
QueuedOffByOne(c) == Len(queue[c]) + 1

Queued(c) == Len(queue[c])

(* ... and as many more as are queued when it looks.                       *)
WriterCount(c) ==
  /\ writer[c] = "count"
  /\ left' = [left EXCEPT ![c] = Queued(c)]
  /\ writer' = [writer EXCEPT ![c] = "drain"]
  /\ UNCHANGED <<user, members, told, clock, asked, refusing, offers, hub, queue, frame, got, made>>

\* mutant: a queued message takes the place of what the frame held
OnlyTheLast(f, item) == <<item>>

AddToFrame(f, item) == Append(f, item)

WriterDrain(c) ==
  /\ writer[c] = "drain"
  /\ left[c] > 0
  /\ queue[c] # <<>>
  /\ frame' = [frame EXCEPT ![c] = AddToFrame(@, Head(queue[c]))]
  /\ queue' = [queue EXCEPT ![c] = Tail(@)]
  /\ left' = [left EXCEPT ![c] = @ - 1]
  /\ UNCHANGED <<user, members, told, clock, asked, refusing, offers, hub, writer, got, made>>

(* What the peer takes from a frame: all its lines, or, if it reads one    *)
(* JSON value per frame (ReadJSON), the first.                             *)
Taken(f) == IF OnePerFrame THEN <<Head(f)>> ELSE f

WriterFlush(c) ==
  /\ writer[c] = "drain"
  /\ left[c] = 0
  /\ got' = [got EXCEPT ![c] = @ \o Taken(frame[c])]
  /\ frame' = [frame EXCEPT ![c] = <<>>]
  /\ writer' = [writer EXCEPT ![c] = "select"]
  /\ UNCHANGED <<user, members, told, clock, asked, refusing, offers, hub, queue, left, made>>

(* A ping, the frame's opening or its closing write fails; nobody receives *)
(* from the send channel any more.                                         *)
WriterFail(c) ==
  /\ c \in MayFail
  /\ \/ writer[c] \in {"select", "count"}
     \/ writer[c] = "drain" /\ left[c] = 0
  /\ writer' = [writer EXCEPT ![c] = "ended"]
  /\ frame' = [frame EXCEPT ![c] = <<>>]
  /\ UNCHANGED <<user, members, told, clock, asked, refusing, offers, hub, queue, left, got, made>>

Write(c) == WriterReceive(c) \/ WriterCount(c) \/ WriterDrain(c) \/ WriterFlush(c)

-----------------------------------------------------------------------------
Next == \/ Reply \/ PushAll
        \/ \E c \in Clients : Read(c) \/ SendRefusal(c) \/ Take(c) \/ Write(c) \/ WriterFail(c)

SafeSpec == Init /\ [][Next]_vars

(* The hub and the writers go on, a waiting reader gets its turn.  With    *)
(* finitely many requests weak fairness is enough.                         *)
Spec == /\ SafeSpec
        /\ WF_vars(Reply \/ PushAll)
        /\ \A c \in Clients : WF_vars(Take(c)) /\ WF_vars(SendRefusal(c)) /\ WF_vars(Write(c))

-----------------------------------------------------------------------------
(* The variables have their types; a send channel is not overfilled.       *)
TypeOK ==
  /\ user \in Logins
  /\ members \subseteq {user[c] : c \in Clients}
  /\ told \subseteq {user[c] : c \in Clients}
  /\ clock \in Nat
  /\ asked \in [Clients -> Nat]
  /\ refusing \subseteq Clients
  /\ offers \subseteq Offer
  /\ hub \in Hub \cup {Idle}
  /\ queue \in [Clients -> Seq(Item)]
  /\ \A c \in Clients : Len(queue[c]) <= SendCap
  /\ frame \in [Clients -> Seq(Item)]
  /\ left \in [Clients -> 0 .. SendCap]
  /\ writer \in [Clients -> {"select", "count", "drain", "ended"}]
  /\ got \in [Clients -> Seq(Item)]
  /\ made \in [Clients -> Seq(Item)]

(* What c was sent or will be, as things are.                              *)
Stream(c) == got[c] \o frame[c] \o queue[c]

(* What was put into a send channel comes out at the peer, each message    *)
(* once and in order, however the writer cuts it into frames while the     *)
(* channel is being filled.  When the writer has failed, what came out is  *)
(* a beginning of what was put in.                                         *)
NothingLost ==
  \A c \in Clients : /\ writer[c] # "ended" => Stream(c) = made[c]
                     /\ IsPrefix(got[c], made[c])

(* What a member was pushed reaches its peer ("user in a channel receive   *)
(* message", channel_test.go).  It does if the peer reads whole frames.    *)
PushesReachPeer ==
  \A c \in Clients : writer[c] # "ended" =>
    \A i \in DOMAIN made[c] : made[c][i].type = "push" =>
      \E j \in DOMAIN Stream(c) : Stream(c)[j] = made[c][i]

(* A frame is answered once, by the hub or by the reader, and the answer   *)
(* goes to whom it is for.  Replies of the hub come in the order of the    *)
(* requests.  A refusal, which names no request, can overtake the one      *)
(* request that the hub is busy with, and no other.                        *)
ReplyOrder ==
  \A c \in Clients :
    LET s == made[c] IN
    \A j \in DOMAIN s :
      /\ s[j].type # "push" =>
           /\ s[j].client = c
           /\ \A i \in 1 .. j - 1 : s[i].type = "push" \/ s[i].n # s[j].n
      /\ s[j].type = "response" =>
           \A i \in 1 .. j - 1 : s[i].type = "response" => s[i].n < s[j].n
      /\ s[j].type = "refusal" =>
           Cardinality({k \in 1 .. s[j].n - 1 :
                          \A i \in 1 .. j - 1 : s[i].type = "push" \/ s[i].n # k}) <= 1

(* A requester reads the reply to a request before the push it caused.     *)
ReplyBeforePush ==
  \A c \in Clients :
    \A j \in DOMAIN made[c] :
      made[c][j].type = "push" /\ made[c][j].client = c =>
        \E i \in 1 .. j - 1 : made[c][i].type = "response" /\ made[c][i].n = made[c][j].n

Before(s, x, y) == \E i, j \in DOMAIN s : i < j /\ s[i] = x /\ s[j] = y

(* All connections see pushes in one order, each once, and those from one  *)
(* connection in the order in which it sent them: the order of their       *)
(* created_at, which is also that of a listing.                            *)
PushOrder ==
  \A c, d \in Clients : \A i, j \in DOMAIN made[c] :
    LET x == made[c][i]
        y == made[c][j]
    IN i < j /\ x.type = "push" /\ y.type = "push" =>
         /\ ~Before(made[d], y, x)
         /\ x.client = y.client =>
              x.n < y.n /\ (y.createdAt # 0 => x.createdAt < y.createdAt)

(* What a handler pushes goes to all connections of the users who have     *)
(* been told, on any connection of theirs, that they are in the channel,   *)
(* and have not been told since that they left it: to those that asked for *)
(* nothing, too ("two websocket connection receive message",               *)
(* multiple_sessions_test.go), unless there is no room, and to no others.  *)
Pushed(c) == Len(made'[c]) > Len(made[c]) /\ Last(made'[c]).type = "push"
PushesAsTold ==
  [][\A c \in Clients :
       Pushed(c) <=> hub.at = "push" /\ hub' # hub /\ user[c] \in told /\ HasRoom(c)]_vars

Answered(c, n) == \E i \in DOMAIN got[c] : got[c][i].type # "push" /\ got[c][i].n = n

(* Every frame is answered, and its sender reads the answer, unless a      *)
(* writer fails.  (One that fails can stop the hub: HubReturns in Server.) *)
Unanswered == \E c \in Clients : \E n \in 1 .. asked[c] : ~Answered(c, n)
EveryFrameAnswered == Unanswered ~> ~Unanswered \/ \E c \in Clients : writer[c] = "ended"

=============================================================================
