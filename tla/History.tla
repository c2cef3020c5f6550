------------------------------- MODULE History -------------------------------
(***************************************************************************)
(* A channel's stored messages, seen through the HTTP and gRPC APIs while  *)
(* the hub changes memberships and has messages indexed.                   *)
(*                                                                         *)
(* The hub deletes a channel when its last member goes, and makes another  *)
(* object for the name when somebody joins it again.  A call takes the     *)
(* object under the registry's lock, asks it under the object's own lock   *)
(* whether the caller is a member, and then searches the index, while the  *)
(* hub goes on.  Calls only read, so they do not disturb one another: one  *)
(* call at a time stands for any number.                                   *)
(***************************************************************************)
EXTENDS Indexer

CONSTANTS Objects,     \* channel objects, a bound: one is reused when nothing refers to it
          NoObject, NoUser, NoChannel, NoMessage,
          EmptyName,   \* the channel named "", if there is one
          Joins,       \* who may join what: a bound
          Requests     \* what callers ask for: a bound

Apis == {"http", "grpc", "stats"}

ASSUME ObjectsAssumption == NoObject \notin Objects
ASSUME NoUserAssumption == NoUser \notin Users
ASSUME NoChannelAssumption == NoChannel \notin Channels
ASSUME NoMessageAssumption == NoMessage \notin Messages
ASSUME RequestsAssumption ==
  Requests \subseteq [api : {"http", "grpc", "stats"}, user : Users, channel : Channels,
                     author : Users \cup {NoAuthor}]

VARIABLES table,     \* Channels.channels: the object registered for a name
          users,     \* users[o]: Channel.users
          hub,       \* where the hub is
          call       \* where the call is, and what it was answered

vars == <<docs, visible, inFlight, answer, retries, table, users, hub, call>>

Hub == [at : {"idle", "join", "cleanup", "evict", "index"}, user : Users \cup {NoUser},
        channel : Channels \cup {NoChannel}, evicting : BOOLEAN, message : Messages \cup {NoMessage}]

HubIdle == [at |-> "idle", user |-> NoUser, channel |-> NoChannel, evicting |-> FALSE,
            message |-> NoMessage]

(* "was" and "before" are what held when the call came in, "touched" says  *)
(* whether the caller's membership changed since.  A call that is over     *)
(* leaves only its answer: what it said, how many bodies were written to   *)
(* say it, and what they show.                                             *)
Call == [at : {"idle", "get", "check", "search"}, api : Apis,
         user : Users \cup {NoUser}, channel : Channels \cup {NoChannel},
         author : Users \cup {NoAuthor}, object : Objects \cup {NoObject},
         was : BOOLEAN, touched : BOOLEAN, before : SUBSET docs,
         reply : {"none", "refused", "invalid", "internal", "ok"}, bodies : 0 .. 2,
         shown : SUBSET docs, buckets : [BucketKeys -> Nat]]

Answered(reply, bodies, shown, buckets) ==
  [at |-> "idle", api |-> "http", user |-> NoUser, channel |-> NoChannel,
   author |-> NoAuthor, object |-> NoObject, was |-> FALSE, touched |-> FALSE,
   before |-> {}, reply |-> reply, bodies |-> bodies, shown |-> shown, buckets |-> buckets]

MembersOf(ch) == IF table[ch] = NoObject THEN {} ELSE users[table[ch]]

Init ==
  /\ IndexInit
  /\ table = [ch \in Channels |-> NoObject]
  /\ users = [o \in Objects |-> {}]
  /\ hub = HubIdle
  /\ call = Answered("none", 0, {}, NoBuckets)

-----------------------------------------------------------------------------
(* The hub.  What it replies and pushes, and to whom, is not told here.    *)

Free(o) == /\ \A ch \in Channels : table[ch] # o
           /\ call.object # o

\* mutant: an object is made whether or not there is one
AlwaysCreate(ch) ==
  /\ \E o \in Objects : Free(o)
  /\ LET o == CHOOSE p \in Objects : Free(p) IN
     /\ table' = [table EXCEPT ![ch] = o]
     /\ users' = [users EXCEPT ![o] = {}]

(* Which object is taken makes no difference.                              *)
GetOrCreate(ch) ==
  IF table[ch] # NoObject THEN UNCHANGED <<table, users>>
  ELSE /\ \E o \in Objects : Free(o)
       /\ LET o == CHOOSE p \in Objects : Free(p) IN
          /\ table' = [table EXCEPT ![ch] = o]
          /\ users' = [users EXCEPT ![o] = {}]

(* u's membership of ch changes: the call takes note if it is about that.  *)
Touch(u, ch) ==
  call' = IF call.user = u /\ call.channel = ch THEN [call EXCEPT !.touched = TRUE] ELSE call

(* handleJoinChannel: the object is registered before the user is in it.   *)
Join(u, ch) ==
  /\ hub.at = "idle"
  /\ <<u, ch>> \in Joins
  /\ GetOrCreate(ch)
  /\ hub' = [HubIdle EXCEPT !.at = "join", !.user = u, !.channel = ch]
  /\ UNCHANGED <<indexVars, call>>

(* Channels.AddUser looks the name up again.                               *)
AddUser ==
  /\ hub.at = "join"
  /\ IF hub.user \in MembersOf(hub.channel) THEN UNCHANGED <<users, call>>
     ELSE /\ users' = [users EXCEPT ![table[hub.channel]] = @ \cup {hub.user}]
          /\ Touch(hub.user, hub.channel)
  /\ hub' = HubIdle
  /\ UNCHANGED <<indexVars, table>>

RemoveUser(u, ch) ==
  /\ users' = [users EXCEPT ![table[ch]] = @ \ {u}]
  /\ Touch(u, ch)

(* handleLeaveChannel up to the reply.  Who is no member, or names no      *)
(* channel, changes nothing.                                               *)
Leave(u, ch) ==
  /\ hub.at = "idle"
  /\ u \in MembersOf(ch)
  /\ RemoveUser(u, ch)
  /\ hub' = [HubIdle EXCEPT !.at = "cleanup", !.user = u, !.channel = ch]
  /\ UNCHANGED <<indexVars, table>>

(* The last connection of u is gone.                                       *)
Disconnect(u) ==
  /\ hub.at = "idle"
  /\ \E ch \in Channels : u \in MembersOf(ch)
  /\ hub' = [HubIdle EXCEPT !.at = "evict", !.user = u]
  /\ UNCHANGED <<indexVars, table, users, call>>

(* The channels u has joined are those that he is a member of              *)
(* (MembershipMirrored in Server).                                         *)
Evict(ch) ==
  /\ hub.at = "evict"
  /\ hub.user \in MembersOf(ch)
  /\ RemoveUser(hub.user, ch)
  /\ hub' = [hub EXCEPT !.at = "cleanup", !.channel = ch, !.evicting = TRUE]
  /\ UNCHANGED <<indexVars, table>>

EvictDone ==
  /\ hub.at = "evict"
  /\ \A ch \in Channels : hub.user \notin MembersOf(ch)
  /\ hub' = HubIdle
  /\ UNCHANGED <<indexVars, table, users, call>>

\* mutant: the channel goes with whoever leaves it
DeletesAlways(o) == TRUE

DeletesEmpty(o) == users[o] = {}

(* After reply and push: the channel goes if nobody is left.               *)
CleanupEmptyChannel ==
  /\ hub.at = "cleanup"
  /\ table' = IF DeletesEmpty(table[hub.channel])
              THEN [table EXCEPT ![hub.channel] = NoObject] ELSE table
  /\ hub' = IF hub.evicting
            THEN [hub EXCEPT !.at = "evict", !.channel = NoChannel, !.evicting = FALSE]
            ELSE HubIdle
  /\ UNCHANGED <<indexVars, users, call>>

\* mutant: an existing channel is enough
SendsToAny(m) == table[ChannelOf[m]] # NoObject

MaySend(m) == AuthorOf[m] \in MembersOf(ChannelOf[m])

(* handleSendMessage.  Who is no member gets an error and nothing changes. *)
SendMessage(m) ==
  /\ hub.at = "idle"
  /\ MaySend(m)
  /\ IndexMessage(m)
  /\ hub' = [HubIdle EXCEPT !.at = "index", !.message = m]
  /\ UNCHANGED <<table, users, call>>

(* An answer of Elasticsearch to the hub.                                  *)
IndexStep ==
  /\ hub.at = "index"
  /\ IndexDone(hub.message) \/ IndexFails(hub.message)
  /\ hub' = IF answer'[hub.message] = "taken" THEN hub ELSE HubIdle
  /\ UNCHANGED <<table, users, call>>

-----------------------------------------------------------------------------
(* A call: HandleListMessages ("http"), ListMessages ("grpc"),             *)
(* GetMessageStats ("stats"), for a user that basic auth let in.           *)

Matching(r) ==
  IF r.api = "stats" THEN StatHits(r.channel, r.author) ELSE Hits(r.channel, r.author)

Reply(r) == Answered(r, 1, {}, NoBuckets)

(* Only the HTTP handler refuses an empty name before it looks it up.      *)
BadRequest(r) == r.api = "http" /\ r.channel = EmptyName

Request(r) ==
  /\ call.at = "idle"
  /\ call' = IF BadRequest(r) THEN Reply("invalid")
             ELSE [at |-> "get", api |-> r.api, user |-> r.user, channel |-> r.channel,
                   author |-> r.author, object |-> NoObject,
                   was |-> r.user \in MembersOf(r.channel), touched |-> FALSE,
                   before |-> Matching(r), reply |-> "none", bodies |-> 0, shown |-> {},
                   buckets |-> NoBuckets]
  /\ UNCHANGED <<indexVars, table, users, hub>>

(* IsUserAMember, first half: Channels.Get.                                *)
GetChannel ==
  /\ call.at = "get"
  /\ call' = IF table[call.channel] = NoObject THEN Reply("refused")
             ELSE [call EXCEPT !.at = "check", !.object = table[call.channel]]
  /\ UNCHANGED <<indexVars, table, users, hub>>

(* Second half: HasUser on the object.  A statistics call may then turn    *)
(* out to name no known interval.                                          *)
HasUser ==
  /\ call.at = "check"
  /\ IF call.user \notin users[call.object] THEN call' = Reply("refused")
     ELSE \/ call' = [call EXCEPT !.at = "search", !.object = NoObject]
          \/ call.api = "stats" /\ call' = Reply("invalid")
  /\ UNCHANGED <<indexVars, table, users, hub>>

\* mutant: the hits that were read before the error come with it
PartialHits(ch, author) == Hits(ch, author)

(* What ListDocuments returns beside an error.                             *)
ListedOnError(ch, author) == {}

\* mutant: the status of the answer is not looked at, an error has no hits
SearchErrorIgnored == Reply("ok")

(* HandleListMessages does not return once it has sent the error: a second *)
(* body follows, of what ListDocuments returned beside the error.          *)
SearchError ==
  IF call.api = "http"
  THEN Answered("internal", 2, ListedOnError(call.channel, call.author), NoBuckets)
  ELSE Reply("internal")

SearchFails ==
  /\ call.at = "search"
  /\ call' = SearchError
  /\ UNCHANGED <<indexVars, table, users, hub>>

ListDocuments ==
  /\ call.at = "search"
  /\ call.api # "stats"
  /\ \E page \in Pages(Hits(call.channel, call.author)) :
       call' = Answered("ok", 1, page, NoBuckets)
  /\ UNCHANGED <<indexVars, table, users, hub>>

GetMessageStats ==
  /\ call.at = "search"
  /\ call.api = "stats"
  /\ \E w \in Widths :
       call' = Answered("ok", 1, {}, Buckets(StatHits(call.channel, call.author), w))
  /\ UNCHANGED <<indexVars, table, users, hub>>

-----------------------------------------------------------------------------
Elasticsearch == (Write \/ Refresh) /\ UNCHANGED <<table, users, hub, call>>

HubNext ==
  \/ \E u \in Users : Disconnect(u) \/ \E ch \in Channels : Join(u, ch) \/ Leave(u, ch)
  \/ \E ch \in Channels : Evict(ch)
  \/ \E m \in Messages : SendMessage(m)
  \/ AddUser \/ EvictDone \/ CleanupEmptyChannel \/ IndexStep

CallNext ==
  \/ \E r \in Requests : Request(r)
  \/ GetChannel \/ HasUser \/ SearchFails \/ ListDocuments \/ GetMessageStats

Next == Elasticsearch \/ HubNext \/ CallNext

(* What the hub does on its own once it has taken something.               *)
HubGoesOn == AddUser \/ (\E ch \in Channels : Evict(ch)) \/ EvictDone \/ CleanupEmptyChannel
             \/ IndexStep

(* The hub is not stopped (by itself; for what stops it see Server), and a *)
(* request to Elasticsearch is answered or fails at last.                  *)
Spec == Init /\ [][Next]_vars /\ WF_vars(HubGoesOn)

-----------------------------------------------------------------------------
(* The variables have their types.                                         *)
TypeOK ==
  /\ IndexTypeOK
  /\ table \in [Channels -> Objects \cup {NoObject}]
  /\ users \in [Objects -> SUBSET Users]
  /\ hub \in Hub
  /\ call \in Call

Answering == call.at # "idle" /\ call'.at = "idle"

(* A call that ran while the caller's membership stayed what it was is     *)
(* decided by it: a member is not refused and nobody else gets to the      *)
(* messages, although Get and HasUser look at two moments, and at an       *)
(* object that may have been deleted in between.  (If the membership       *)
(* changed, either decision was right at one of the moments.)              *)
UndisturbedDecision ==
  [][Answering /\ ~call.touched =>
       /\ call'.reply = "refused" => ~call.was
       /\ call'.reply # "refused" => call.was]_vars

(* Whoever gets past IsUserAMember is at that moment a member of the       *)
(* channel registered under the name, not only of an object that somebody  *)
(* still holds.                                                            *)
AdmittedAsMember ==
  [][call.at = "check" /\ call'.at = "search" => call.user \in MembersOf(call.channel)]_vars

(* While the hub waits for Elasticsearch, however often it retries, the    *)
(* author's membership, checked before, does not lapse.                    *)
AuthorStaysMember ==
  hub.at = "index" => AuthorOf[hub.message] \in MembersOf(ChannelOf[hub.message])

(* A call is answered with one body, but for a listing over HTTP whose     *)
(* search failed (http_handler.go:132 goes on after the error and writes   *)
(* another), and in no body of an answer that reports an error is there a  *)
(* message, the second one included: those shown were listed with success, *)
(* are the channel's, the author's if one was given, each there once, and  *)
(* were sent.                                                              *)
ListingIsSound ==
  [][Answering =>
       /\ call'.bodies # 1 => call.api = "http" /\ call.at = "search" /\ call'.reply = "internal"
       /\ call'.shown # {} =>
            /\ call'.reply = "ok"
            /\ \A d \in call'.shown : /\ ChannelOf[d.message] = call.channel
                                      /\ call.author \in {AuthorOf[d.message], NoAuthor}
                                      /\ answer[d.message] # "none"
            /\ \A d, e \in call'.shown : d.message = e.message => d = e]_vars

(* A listing shows what was visible when the call came in, unless a page   *)
(* full of messages at least as new leaves no room.                        *)
FreshListing ==
  [][Answering /\ call'.reply = "ok" /\ call.api # "stats" =>
       \A d \in call.before \ call'.shown :
         /\ Cardinality(call'.shown) = PageSize
         /\ \A e \in call'.shown : CreatedAt[e.message] >= CreatedAt[d.message]]_vars

(* Statistics count each message once: no fewer than were visible when the *)
(* call came in, no more than are now.                                     *)
StatsCountMessages ==
  [][Answering /\ call'.reply = "ok" /\ call.api = "stats" =>
       /\ SumFunction(call'.buckets) >= Cardinality({d.message : d \in call.before})
       /\ SumFunction(call'.buckets) <= Cardinality({d.message : d \in StatHits(call.channel, call.author)})]_vars

A == INSTANCE Archive WITH stored <- {d.message : d \in docs}

(* The index keeps its promise to senders: "sent" only for what is stored, *)
(* and what is stored stays.                                               *)
KeepsPromise == A!SafeSpec

(* The hub comes back: retries end, evictions end.                         *)
HubReturns == (hub.at # "idle") ~> (hub.at = "idle")

=============================================================================
