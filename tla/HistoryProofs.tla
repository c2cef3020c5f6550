---------------------------- MODULE HistoryProofs ----------------------------
(***************************************************************************)
(* Proofs about History (and with it Indexer) for every set of messages,   *)
(* users, channels, objects and requests, and any number of retries.       *)
(***************************************************************************)
EXTENDS History, SumLemmas, FiniteSetTheorems, TLAPS

(* All requests for a message name one document.                           *)
Docs == {Document(m, 0) : m \in Messages}

(* The hub's locals are there when it needs them; while it waits for       *)
(* Elasticsearch it indexes a message of a member.                         *)
HubOK ==
  /\ hub.at \in {"join", "cleanup"} => hub.channel \in Channels /\ table[hub.channel] # NoObject
  /\ hub.at \in {"join", "evict"} => hub.user \in Users
  /\ hub.evicting => hub.user \in Users
  /\ hub.at = "index" => hub.message \in Messages /\ answer[hub.message] = "taken"
  /\ AuthorStaysMember

(* What IndexMessage returned agrees with the index.                       *)
AnswersOK ==
  /\ \A m \in Messages : answer[m] = "taken" => hub.at = "index" /\ hub.message = m
  /\ \A m \in Messages : answer[m] = "sent" => Document(m, 0) \in docs
  /\ \A d \in docs \cup inFlight : answer[d.message] # "none"

(* An object is registered under one name.                                 *)
OneName == \A ch, dh \in Channels : table[ch] = table[dh] /\ table[ch] # NoObject => ch = dh

(* The object that a call holds is registered under the call's channel, or *)
(* was deleted empty and is not used again.                                *)
HeldOK ==
  /\ call.at = "check" <=> call.object # NoObject
  /\ call.at = "check" =>
       /\ \A ch \in Channels : table[ch] = call.object => ch = call.channel
       /\ table[call.channel] # call.object => users[call.object] = {}

(* What a call noted when it came in still says something.                 *)
NotesOK ==
  call.at # "idle" =>
    /\ call.user \in Users /\ call.channel \in Channels
    /\ call.reply = "none"
    /\ call.before \subseteq Matching(call)
    /\ ~call.touched => /\ call.was <=> call.user \in MembersOf(call.channel)
                        /\ call.at = "check" /\ table[call.channel] # call.object => ~call.was
                        /\ call.at = "search" => call.was

IInv == TypeOK /\ HubOK /\ AnswersOK /\ OneName /\ HeldOK /\ NotesOK

-----------------------------------------------------------------------------
(* The index.                                                              *)

USE NoAuthorAssumption, NoUserAssumption, NoChannelAssumption, ObjectsAssumption,
    NoMessageAssumption, RequestsAssumption, MaxRetriesAssumption

(* A document is known by its message.                                     *)
LEMMA DocumentFacts ==
  /\ \A m, n : Document(m, n) = Document(m, 0)
  /\ \A m, n : Document(m, n).message = m /\ Document(m, n).id = m
  /\ \A d, e \in Docs : d.id = e.id \/ d.message = e.message => d = e
  /\ \A d \in Docs : d.message \in Messages /\ d = Document(d.message, 0)
BY DEF Docs, Document, DocumentID

LEMMA DocumentTypes ==
  ASSUME IndexTypeOK
  PROVE  docs \subseteq Docs /\ visible \subseteq Docs /\ inFlight \subseteq Docs
<1>1. {Document(m, n) : m \in Messages, n \in 0 .. MaxRetries} = Docs
  BY DocumentFacts DEF Docs
<1> QED BY <1>1 DEF IndexTypeOK

(* What a search can find is finite.                                       *)
LEMMA HitsFinite ==
  ASSUME IndexTypeOK, NEW S \in SUBSET visible
  PROVE  IsFiniteSet(S) /\ Cardinality(S) \in Nat
<1> DEFINE f == [m \in Messages |-> Document(m, 0)]
<1>1. f \in Surjection(Messages, Docs)
  BY DEF Surjection, Docs
<1>2. IsFiniteSet(Docs)
  <2> HIDE DEF f
  <2> QED BY <1>1, FS_Surjection, MessagesAssumption
<1>3. S \in SUBSET Docs
  BY DocumentTypes
<1>4. IsFiniteSet(S)
  BY <1>2, <1>3, FS_Subset
<1> QED BY <1>4, FS_CardinalityType

(* What a call was typed as it still is when the index has grown.          *)
LEMMA CallKept ==
  ASSUME call \in Call, docs \subseteq docs',
         call' = call \/ call' = [call EXCEPT !.touched = TRUE]
  PROVE  call' \in Call'
<1>1. CASE call' = call
  BY <1>1 DEF Call
<1>2. CASE call' = [call EXCEPT !.touched = TRUE]
  BY <1>2 DEF Call
<1> QED BY <1>1, <1>2

(* The index changes only by growing.                                      *)
LEMMA WriteGrows ==
  ASSUME IInv, Write
  PROVE  /\ IndexTypeOK'
         /\ \E d \in inFlight : docs' = docs \cup {d} /\ inFlight' = inFlight \ {d}
<1>1. PICK d \in inFlight : /\ docs' = {e \in docs : e.id # d.id} \cup {d}
                           /\ inFlight' = inFlight \ {d}
  BY DEF Write
<1>2. docs \subseteq Docs /\ d \in Docs
  BY <1>1, DocumentTypes DEF IInv, TypeOK
<1>3. docs' = docs \cup {d}
  BY <1>1, <1>2, DocumentFacts
<1>4. IndexTypeOK'
  BY <1>1, <1>3 DEF IndexTypeOK, IInv, TypeOK, Write
<1> QED BY <1>1, <1>3, <1>4

LEMMA ElasticsearchStep ==
  ASSUME IInv, Elasticsearch
  PROVE  IInv'
<1> USE DEF IInv
<1>1. UNCHANGED <<table, users, hub, call, answer>>
  BY DEF Elasticsearch, Write, Refresh
<1>2. /\ docs \subseteq docs' /\ docs' \cup inFlight' \subseteq docs \cup inFlight
      /\ visible \subseteq visible'
      /\ IndexTypeOK'
  <2>1. CASE Write
    BY <2>1, WriteGrows DEF Write, IndexTypeOK
  <2>2. CASE Refresh
    BY <2>2 DEF Refresh, IndexTypeOK, TypeOK
  <2> QED BY <2>1, <2>2 DEF Elasticsearch
<1>3. call' \in Call'
  BY <1>1, <1>2, CallKept DEF TypeOK
<1>4. TypeOK'
  BY <1>1, <1>2, <1>3 DEF TypeOK
<1>5. HubOK' /\ OneName' /\ HeldOK'
  BY <1>1 DEF HubOK, OneName, HeldOK, AuthorStaysMember, MembersOf
<1>6. AnswersOK'
  BY <1>1, <1>2 DEF AnswersOK
<1>7. Matching(call) \subseteq Matching(call)'
  BY <1>1, <1>2 DEF Matching, StatHits, Hits, Matches
<1>8. NotesOK'
  BY <1>1, <1>7 DEF NotesOK, MembersOf
<1> QED BY <1>4, <1>5, <1>6, <1>8

-----------------------------------------------------------------------------
(* The hub.                                                                *)

(* Steps that leave the index alone leave alone what is said of it.        *)
LEMMA IndexKept ==
  ASSUME IInv, UNCHANGED indexVars,
         hub.at = "index" => hub' = hub,
         hub.at # "index" => hub'.at # "index"
  PROVE  IndexTypeOK' /\ AnswersOK'
BY DEF indexVars, IndexTypeOK, AnswersOK, IInv, TypeOK

LEMMA MatchingKept ==
  ASSUME UNCHANGED indexVars, call \in Call,
         call' = call \/ call' = [call EXCEPT !.touched = TRUE]
  PROVE  Matching(call)' = Matching(call)
<1>1. call'.api = call.api /\ call'.channel = call.channel /\ call'.author = call.author
  BY DEF Call
<1> QED BY <1>1 DEF Matching, StatHits, Hits, Matches, indexVars

LEMMA JoinStep ==
  ASSUME IInv, NEW u \in Users, NEW ch \in Channels, Join(u, ch)
  PROVE  IInv'
<1> USE DEF IInv
<1>1. /\ hub.at = "idle" /\ UNCHANGED <<indexVars, call>>
      /\ hub' = [HubIdle EXCEPT !.at = "join", !.user = u, !.channel = ch]
  BY DEF Join
<1>2. /\ hub' \in Hub /\ hub'.at = "join" /\ hub'.user = u /\ hub'.channel = ch
      /\ ~hub'.evicting
  BY <1>1 DEF Hub, HubIdle
<1>3. IndexTypeOK' /\ AnswersOK'
  BY <1>1, <1>2, IndexKept
<1>4. call' \in Call'
  BY <1>1, CallKept DEF TypeOK, indexVars
<1>5. CASE table[ch] # NoObject
  <2>1. UNCHANGED <<table, users>>
    BY <1>5 DEF Join, GetOrCreate
  <2>2. TypeOK'
    BY <1>2, <1>3, <1>4, <2>1 DEF TypeOK
  <2>3. HubOK' /\ OneName' /\ HeldOK'
    BY <1>1, <1>2, <1>5, <2>1 DEF HubOK, AuthorStaysMember, OneName, HeldOK
  <2>4. NotesOK'
    BY <1>1, <2>1, MatchingKept DEF NotesOK, MembersOf, TypeOK
  <2> QED BY <1>3, <2>2, <2>3, <2>4
<1>6. CASE table[ch] = NoObject
  <2>1. PICK o \in Objects : /\ Free(o)
                            /\ table' = [table EXCEPT ![ch] = o]
                            /\ users' = [users EXCEPT ![o] = {}]
    BY <1>6 DEF Join, GetOrCreate
  <2>2. TypeOK'
    BY <1>2, <1>3, <1>4, <2>1 DEF TypeOK
  <2>3. /\ table'[ch] = o /\ users'[o] = {}
        /\ \A dh \in Channels : dh # ch => table'[dh] = table[dh] /\ table[dh] # o
        /\ \A p \in Objects : p # o => users'[p] = users[p]
        /\ call.object # o /\ o # NoObject
    BY <2>1 DEF TypeOK, Free
  <2>4. HubOK'
    BY <1>1, <1>2, <2>3 DEF HubOK, AuthorStaysMember
  <2>5. OneName'
    BY <2>3 DEF OneName
  <2>6. HeldOK'
    BY <1>1, <1>6, <2>3 DEF HeldOK, NotesOK, TypeOK, Call
  <2>7. \A dh \in Channels : MembersOf(dh)' = MembersOf(dh)
    BY <1>6, <2>3 DEF MembersOf, TypeOK
  <2>8. NotesOK'
    <3>1. Matching(call)' = Matching(call)
      BY <1>1, MatchingKept DEF TypeOK
    <3>2. call.at = "check" /\ table'[call.channel] # call.object /\ call.channel \in Channels
          => table[call.channel] # call.object
      BY <1>6, <2>3 DEF HeldOK
    <3> QED BY <1>1, <2>7, <3>1, <3>2 DEF NotesOK
  <2> QED BY <1>3, <2>2, <2>4, <2>5, <2>6, <2>8
<1> QED BY <1>5, <1>6

(* A change of one user's membership, and what it does to the call.        *)
LEMMA MembershipStep ==
  ASSUME IInv, NEW u \in Users, NEW ch \in Channels, table[ch] # NoObject,
         NEW S \in SUBSET Users, \A v \in Users : v # u => (v \in S <=> v \in MembersOf(ch)),
         users' = [users EXCEPT ![table[ch]] = S], Touch(u, ch),
         UNCHANGED <<indexVars, table>>
  PROVE  /\ users' \in [Objects -> SUBSET Users] /\ call' \in Call'
         /\ \A dh \in Channels : MembersOf(dh)' = IF dh = ch THEN S ELSE MembersOf(dh)
         /\ OneName' /\ HeldOK' /\ NotesOK'
<1> USE DEF IInv
<1>1. table[ch] \in Objects /\ users' \in [Objects -> SUBSET Users]
  BY DEF TypeOK
<1>2. /\ \A dh \in Channels : MembersOf(dh)' = IF dh = ch THEN S ELSE MembersOf(dh)
      /\ \A o \in Objects : o # table[ch] => users'[o] = users[o]
  BY <1>1 DEF MembersOf, OneName, TypeOK
<1>3. call' = call \/ call' = [call EXCEPT !.touched = TRUE]
  BY DEF Touch
<1>4. call' \in Call'
  BY <1>3, CallKept DEF TypeOK, indexVars
<1>5. /\ call'.at = call.at /\ call'.object = call.object /\ call'.user = call.user
      /\ call'.channel = call.channel /\ call'.was = call.was /\ call'.reply = call.reply
      /\ call'.before = call.before
      /\ ~call'.touched => ~call.touched /\ ~(call.user = u /\ call.channel = ch)
  BY DEF Touch, TypeOK, Call
<1>6. OneName'
  BY DEF OneName
<1>7. HeldOK'
  <2>1. CASE call.at = "check"
    <3>1. call.object \in Objects /\ call.channel \in Channels
      BY <2>1 DEF HeldOK, NotesOK, TypeOK, Call
    <3>2. table[call.channel] # call.object => call.object # table[ch]
      BY <2>1 DEF HeldOK
    <3> QED BY <1>2, <1>5, <2>1, <3>1, <3>2 DEF HeldOK
  <2>2. CASE call.at # "check"
    BY <1>5, <2>2 DEF HeldOK
  <2> QED BY <2>1, <2>2
<1>8. NotesOK'
  <2>1. Matching(call)' = Matching(call)
    BY <1>3, MatchingKept DEF TypeOK
  <2>2. call.at # "idle" /\ ~call'.touched
        => (call.user \in MembersOf(call.channel)' <=> call.user \in MembersOf(call.channel))
    BY <1>2, <1>5 DEF NotesOK
  <2> QED BY <1>5, <2>1, <2>2 DEF NotesOK, MembersOf
<1> QED BY <1>1, <1>2, <1>4, <1>6, <1>7, <1>8

LEMMA AddUserStep ==
  ASSUME IInv, AddUser
  PROVE  IInv'
<1> USE DEF IInv
<1> DEFINE u == hub.user
           ch == hub.channel
<1>1. /\ hub.at = "join" /\ hub' = HubIdle /\ UNCHANGED <<indexVars, table>>
      /\ u \in Users /\ ch \in Channels /\ table[ch] # NoObject /\ table[ch] \in Objects
  BY DEF AddUser, HubOK, TypeOK
<1>2. hub' \in Hub /\ HubOK'
  BY <1>1 DEF HubIdle, Hub, HubOK, AuthorStaysMember
<1>3. IndexTypeOK' /\ AnswersOK'
  BY <1>1, IndexKept DEF HubIdle
<1>4. CASE u \in MembersOf(ch)
  <2>1. UNCHANGED <<users, call>>
    BY <1>4 DEF AddUser
  <2>2. call' \in Call'
    BY <1>1, <2>1, CallKept DEF TypeOK, indexVars
  <2>3. TypeOK'
    BY <1>1, <1>2, <1>3, <2>1, <2>2 DEF TypeOK
  <2>4. Matching(call)' = Matching(call)
    BY <1>1, <2>1, MatchingKept DEF TypeOK
  <2>5. OneName' /\ HeldOK' /\ NotesOK'
    BY <1>1, <2>1, <2>4 DEF OneName, HeldOK, NotesOK, MembersOf
  <2> QED BY <1>2, <1>3, <2>3, <2>5
<1>5. CASE u \notin MembersOf(ch)
  <2> DEFINE S == users[table[ch]] \cup {u}
  <2>1. users' = [users EXCEPT ![table[ch]] = S] /\ Touch(u, ch)
    BY <1>5 DEF AddUser
  <2>2. S \in SUBSET Users /\ \A v \in Users : v # u => (v \in S <=> v \in MembersOf(ch))
    BY <1>1 DEF TypeOK, MembersOf
  <2>3. users' \in [Objects -> SUBSET Users] /\ call' \in Call' /\ OneName' /\ HeldOK' /\ NotesOK'
    <3> HIDE DEF u, ch, S
    <3> QED BY <1>1, <2>1, <2>2, MembershipStep
  <2>4. TypeOK'
    BY <1>1, <1>2, <1>3, <2>3 DEF TypeOK
  <2> QED BY <1>2, <1>3, <2>3, <2>4
<1> QED BY <1>4, <1>5

(* Leave and Evict.                                                        *)
LEMMA RemoveUserStep ==
  ASSUME IInv, NEW u \in Users, NEW ch \in Channels, u \in MembersOf(ch), RemoveUser(u, ch),
         UNCHANGED <<indexVars, table>>, hub' \in Hub, hub.at # "index",
         hub'.at = "cleanup", hub'.channel = ch, hub'.user \in Users
  PROVE  IInv'
<1> USE DEF IInv
<1> DEFINE S == users[table[ch]] \ {u}
<1>1. table[ch] # NoObject /\ table[ch] \in Objects /\ users' = [users EXCEPT ![table[ch]] = S]
  BY DEF MembersOf, RemoveUser, TypeOK
<1>2. S \in SUBSET Users /\ \A v \in Users : v # u => (v \in S <=> v \in MembersOf(ch))
  BY <1>1 DEF TypeOK, MembersOf
<1>3. users' \in [Objects -> SUBSET Users] /\ call' \in Call' /\ OneName' /\ HeldOK' /\ NotesOK'
  <2> HIDE DEF S
  <2> QED BY <1>1, <1>2, MembershipStep DEF RemoveUser
<1>4. IndexTypeOK' /\ AnswersOK'
  BY IndexKept
<1>5. TypeOK' /\ HubOK'
  BY <1>1, <1>3, <1>4 DEF TypeOK, HubOK, AuthorStaysMember
<1> QED BY <1>3, <1>4, <1>5

LEMMA LeaveStep ==
  ASSUME IInv, NEW u \in Users, NEW ch \in Channels, Leave(u, ch)
  PROVE  IInv'
<1>1. /\ hub' = [HubIdle EXCEPT !.at = "cleanup", !.user = u, !.channel = ch]
      /\ hub.at = "idle" /\ u \in MembersOf(ch) /\ RemoveUser(u, ch)
      /\ UNCHANGED <<indexVars, table>>
  BY DEF Leave
<1>2. /\ hub' \in Hub /\ hub'.at = "cleanup" /\ hub'.channel = ch /\ hub'.user = u
      /\ hub.at # "index"
  BY <1>1 DEF Hub, HubIdle
<1> QED BY <1>1, <1>2, RemoveUserStep

LEMMA EvictStep ==
  ASSUME IInv, NEW ch \in Channels, Evict(ch)
  PROVE  IInv'
<1>1. /\ hub' = [hub EXCEPT !.at = "cleanup", !.channel = ch, !.evicting = TRUE]
      /\ hub.at = "evict" /\ hub.user \in MembersOf(ch) /\ RemoveUser(hub.user, ch)
      /\ UNCHANGED <<indexVars, table>> /\ hub.user \in Users
  BY DEF Evict, IInv, HubOK
<1>2. /\ hub' \in Hub /\ hub'.at = "cleanup" /\ hub'.channel = ch /\ hub'.user \in Users
      /\ hub.at # "index"
  BY <1>1 DEF Hub, IInv, TypeOK
<1> QED BY <1>1, <1>2, RemoveUserStep

(* Steps of the hub that leave channels alone.                             *)
LEMMA ChannelsKept ==
  ASSUME IInv, UNCHANGED <<docs, visible, table, users, call>>
  PROVE  call' \in Call' /\ OneName' /\ HeldOK' /\ NotesOK'
<1> USE DEF IInv
<1>1. call' \in Call'
  BY CallKept DEF TypeOK
<1>2. OneName' /\ HeldOK'
  BY DEF OneName, HeldOK
<1>3. Matching(call)' = Matching(call)
  BY DEF Matching, StatHits, Hits, Matches
<1>4. NotesOK'
  BY <1>3 DEF NotesOK, MembersOf
<1> QED BY <1>1, <1>2, <1>4

LEMMA DisconnectStep ==
  ASSUME IInv, NEW u \in Users, Disconnect(u)
  PROVE  IInv'
<1> USE DEF IInv
<1>1. /\ hub' = [HubIdle EXCEPT !.at = "evict", !.user = u]
      /\ hub.at = "idle" /\ UNCHANGED <<indexVars, table, users, call>>
  BY DEF Disconnect
<1>2. /\ hub' \in Hub /\ hub'.at = "evict" /\ hub'.user = u
  BY <1>1 DEF Hub, HubIdle
<1>3. IndexTypeOK' /\ AnswersOK'
  BY <1>1, <1>2, IndexKept
<1>4. call' \in Call' /\ OneName' /\ HeldOK' /\ NotesOK'
  BY <1>1, ChannelsKept DEF indexVars
<1>5. TypeOK' /\ HubOK'
  BY <1>1, <1>2, <1>3, <1>4 DEF TypeOK, HubOK, AuthorStaysMember
<1> QED BY <1>3, <1>4, <1>5

LEMMA EvictDoneStep ==
  ASSUME IInv, EvictDone
  PROVE  IInv'
<1> USE DEF IInv
<1>1. hub.at = "evict" /\ hub' = HubIdle /\ UNCHANGED <<indexVars, table, users, call>>
  BY DEF EvictDone
<1>2. hub' \in Hub /\ HubOK'
  BY <1>1 DEF Hub, HubIdle, HubOK, AuthorStaysMember
<1>3. IndexTypeOK' /\ AnswersOK'
  BY <1>1, IndexKept DEF HubIdle
<1>4. call' \in Call' /\ OneName' /\ HeldOK' /\ NotesOK'
  BY <1>1, ChannelsKept DEF indexVars
<1>5. TypeOK'
  BY <1>1, <1>2, <1>3, <1>4 DEF TypeOK
<1> QED BY <1>2, <1>3, <1>4, <1>5

(* An object goes when it is empty, so no membership changes.              *)
LEMMA CleanupStep ==
  ASSUME IInv, CleanupEmptyChannel
  PROVE  IInv'
<1> USE DEF IInv
<1> DEFINE ch == hub.channel
<1>1. /\ hub.at = "cleanup" /\ ch \in Channels /\ table[ch] \in Objects
      /\ UNCHANGED <<indexVars, users, call>>
  BY DEF CleanupEmptyChannel, HubOK, TypeOK
<1>2. hub' \in Hub /\ hub'.at \in {"idle", "evict"} /\ HubOK'
  <2>1. CASE hub.evicting
    <3>1. hub' = [hub EXCEPT !.at = "evict", !.channel = NoChannel, !.evicting = FALSE]
      BY <2>1 DEF CleanupEmptyChannel
    <3>2. hub' \in Hub /\ hub'.at = "evict" /\ hub'.user = hub.user /\ ~hub'.evicting
      BY <3>1 DEF Hub, TypeOK
    <3> QED BY <2>1, <3>2 DEF HubOK, AuthorStaysMember
  <2>2. CASE ~hub.evicting
    BY <2>2 DEF CleanupEmptyChannel, HubIdle, Hub, HubOK, AuthorStaysMember
  <2> QED BY <2>1, <2>2
<1>3. IndexTypeOK' /\ AnswersOK'
  BY <1>1, <1>2, IndexKept
<1>4. CASE UNCHANGED table
  <2>1. call' \in Call' /\ OneName' /\ HeldOK' /\ NotesOK'
    BY <1>1, <1>4, ChannelsKept DEF indexVars
  <2>2. TypeOK'
    BY <1>1, <1>2, <1>3, <1>4, <2>1 DEF TypeOK
  <2> QED BY <1>2, <1>3, <2>1, <2>2
<1>5. CASE users[table[ch]] = {} /\ table' = [table EXCEPT ![ch] = NoObject]
  <2>1. \A dh \in Channels : table'[dh] = IF dh = ch THEN NoObject ELSE table[dh]
    BY <1>5 DEF TypeOK
  <2>2. call' \in Call'
    BY <1>1, CallKept DEF TypeOK, indexVars
  <2>3. TypeOK'
    BY <1>1, <1>2, <1>3, <1>5, <2>2 DEF TypeOK
  <2>4. OneName'
    BY <2>1 DEF OneName
  <2>5. HeldOK'
    BY <1>1, <1>5, <2>1 DEF HeldOK, NotesOK
  <2>6. \A dh \in Channels : MembersOf(dh)' = MembersOf(dh)
    <3> SUFFICES ASSUME NEW dh \in Channels PROVE MembersOf(dh)' = MembersOf(dh)
      OBVIOUS
    <3>1. CASE dh = ch
      BY <1>1, <1>5, <2>1, <3>1 DEF MembersOf
    <3>2. CASE dh # ch
      BY <1>1, <2>1, <3>2 DEF MembersOf
    <3> QED BY <3>1, <3>2
  <2>7. Matching(call)' = Matching(call)
    BY <1>1, MatchingKept DEF TypeOK
  <2>8. call.at = "check" /\ ~call.touched /\ table'[call.channel] # call.object => ~call.was
    <3>1. SUFFICES ASSUME call.at = "check", ~call.touched, table'[call.channel] # call.object,
                          table[call.channel] = call.object
                   PROVE  ~call.was
      BY DEF NotesOK
    <3>2. call.channel = ch
      BY <2>1, <3>1 DEF NotesOK
    <3>3. MembersOf(ch) = {}
      BY <1>1, <1>5 DEF MembersOf
    <3> QED BY <3>1, <3>2, <3>3 DEF NotesOK
  <2>9. NotesOK'
    BY <1>1, <2>6, <2>7, <2>8 DEF NotesOK
  <2> QED BY <1>2, <1>3, <2>3, <2>4, <2>5, <2>9
<1> QED BY <1>4, <1>5 DEF CleanupEmptyChannel, DeletesEmpty

LEMMA SendMessageStep ==
  ASSUME IInv, NEW m \in Messages, SendMessage(m)
  PROVE  IInv'
<1> USE DEF IInv
<1>1. /\ hub' = [HubIdle EXCEPT !.at = "index", !.message = m]
      /\ hub.at = "idle" /\ MaySend(m) /\ IndexMessage(m) /\ UNCHANGED <<table, users, call>>
  BY DEF SendMessage
<1>2. /\ hub' \in Hub /\ hub'.at = "index" /\ hub'.message = m /\ ~hub'.evicting
  BY <1>1 DEF Hub, HubIdle
<1>3. /\ answer[m] = "none" /\ answer' = [answer EXCEPT ![m] = "taken"] /\ retries' = 0
      /\ inFlight' = inFlight \cup {Document(m, 0)} /\ UNCHANGED <<docs, visible>>
  BY <1>1 DEF IndexMessage
<1>4. IndexTypeOK'
  BY <1>3 DEF IndexTypeOK, TypeOK
<1>5. \A n \in Messages : answer'[n] = IF n = m THEN "taken" ELSE answer[n]
  BY <1>3 DEF TypeOK, IndexTypeOK
<1>6. \A d \in docs \cup inFlight : d.message \in Messages
  BY DocumentTypes, DocumentFacts DEF TypeOK
<1>7. AnswersOK'
  BY <1>1, <1>2, <1>3, <1>5, <1>6, DocumentFacts DEF AnswersOK
<1>8. call' \in Call' /\ OneName' /\ HeldOK' /\ NotesOK'
  BY <1>1, <1>3, ChannelsKept
<1>9. TypeOK'
  BY <1>1, <1>2, <1>4, <1>8 DEF TypeOK
<1>10. HubOK'
  BY <1>1, <1>2, <1>5 DEF HubOK, AuthorStaysMember, MaySend, MembersOf
<1> QED BY <1>7, <1>8, <1>9, <1>10

(* An answer, or a failure and perhaps a retry.                            *)
LEMMA IndexStepStep ==
  ASSUME IInv, IndexStep
  PROVE  IInv'
<1> USE DEF IInv
<1> DEFINE m == hub.message
<1>1. /\ hub.at = "index" /\ m \in Messages /\ answer[m] = "taken"
      /\ UNCHANGED <<docs, visible, table, users, call>>
      /\ hub' = IF answer'[m] = "taken" THEN hub ELSE HubIdle
  BY DEF IndexStep, HubOK, IndexDone, IndexFails
<1>2. /\ IndexTypeOK'
      /\ \A n \in Messages : n # m => answer'[n] = answer[n]
      /\ inFlight' \subseteq inFlight \cup {Document(m, 0)}
      /\ answer'[m] \in {"taken", "sent", "failed"}
      /\ answer'[m] = "sent" => Document(m, 0) \in docs
  <2>1. CASE IndexDone(m)
    BY <1>1, <2>1, DocumentFacts DEF IndexDone, IndexTypeOK, TypeOK
  <2>2. CASE IndexFails(m) /\ GivesUp(retries)
    BY <1>1, <2>2 DEF IndexFails, LastError, IndexTypeOK, TypeOK
  <2>3. CASE IndexFails(m) /\ ~GivesUp(retries)
    <3>1. /\ retries' = retries + 1 /\ retries < MaxRetries /\ UNCHANGED <<docs, visible, answer>>
          /\ inFlight' = inFlight \cup {Document(m, retries + 1)}
      BY <2>3 DEF IndexFails, GivesUp, Retried, IndexTypeOK, TypeOK
    <3>2. retries' \in 0 .. MaxRetries
      BY <3>1 DEF IndexTypeOK, TypeOK
    <3>3. Document(m, retries + 1) = Document(m, 0)
      BY DocumentFacts
    <3> QED BY <1>1, <3>1, <3>2, <3>3 DEF IndexTypeOK, TypeOK
  <2> QED BY <2>1, <2>2, <2>3 DEF IndexStep
<1>3. call' \in Call' /\ OneName' /\ HeldOK' /\ NotesOK'
  BY <1>1, ChannelsKept
<1>4. hub' \in Hub /\ HubOK'
  BY <1>1 DEF TypeOK, Hub, HubIdle, HubOK, AuthorStaysMember, MembersOf
<1>5. \A d \in docs \cup inFlight' : d.message \in Messages
  BY <1>1, <1>2, DocumentTypes, DocumentFacts DEF TypeOK
<1>6. AnswersOK'
  <2>1. \A n \in Messages : answer'[n] = "taken" => hub'.at = "index" /\ hub'.message = n
    BY <1>1, <1>2 DEF AnswersOK
  <2>2. \A n \in Messages : answer'[n] = "sent" => Document(n, 0) \in docs'
    BY <1>1, <1>2 DEF AnswersOK
  <2>3. \A d \in docs' \cup inFlight' : answer'[d.message] # "none"
    BY <1>1, <1>2, <1>5, DocumentFacts DEF AnswersOK
  <2> QED BY <2>1, <2>2, <2>3 DEF AnswersOK
<1>7. TypeOK'
  BY <1>1, <1>2, <1>3, <1>4 DEF TypeOK
<1> QED BY <1>3, <1>4, <1>6, <1>7

-----------------------------------------------------------------------------
(* A call.  It changes nothing but itself.                                 *)

LEMMA CallSteps ==
  ASSUME IInv, UNCHANGED <<indexVars, table, users, hub>>, call' \in Call
  PROVE  TypeOK' /\ HubOK' /\ AnswersOK' /\ OneName'
<1> USE DEF IInv
<1>1. call' \in Call'
  BY DEF Call, indexVars
<1>2. IndexTypeOK' /\ AnswersOK'
  BY DEF IndexTypeOK, AnswersOK, TypeOK, indexVars
<1>3. TypeOK' /\ HubOK' /\ OneName'
  BY <1>1, <1>2 DEF TypeOK, HubOK, AuthorStaysMember, MembersOf, OneName, indexVars
<1> QED BY <1>2, <1>3

LEMMA NoBucketsType == NoBuckets \in [BucketKeys -> Nat]
BY DEF NoBuckets

(* A call that is over is remembered by its answer only.                   *)
LEMMA AnswerStep ==
  ASSUME IInv, UNCHANGED <<indexVars, table, users, hub>>,
         NEW reply \in {"refused", "invalid", "internal", "ok"}, NEW bodies \in 0 .. 2,
         NEW shown \in SUBSET docs, NEW buckets \in [BucketKeys -> Nat],
         call' = Answered(reply, bodies, shown, buckets)
  PROVE  /\ IInv' /\ call'.at = "idle" /\ call'.reply = reply
         /\ call'.bodies = bodies /\ call'.shown = shown
<1>1. call' \in Call /\ call'.at = "idle" /\ call'.object = NoObject
  BY DEF Answered, Call, Apis
<1>2. HeldOK' /\ NotesOK'
  BY <1>1 DEF HeldOK, NotesOK
<1> QED BY <1>1, <1>2, CallSteps DEF IInv, Answered

LEMMA ReplyStep ==
  ASSUME IInv, UNCHANGED <<indexVars, table, users, hub>>,
         NEW reply \in {"refused", "invalid", "internal"}, call' = Reply(reply)
  PROVE  /\ IInv' /\ call'.at = "idle" /\ call'.reply = reply
         /\ call'.bodies = 1 /\ call'.shown = {}
BY AnswerStep, NoBucketsType DEF Reply

LEMMA RequestStep ==
  ASSUME IInv, NEW r \in Requests, Request(r)
  PROVE  IInv'
<1> USE DEF IInv
<1>1. UNCHANGED <<indexVars, table, users, hub>>
  BY DEF Request
<1>2. CASE BadRequest(r)
  BY <1>1, <1>2, ReplyStep DEF Request
<1>3. CASE ~BadRequest(r)
  <2>1. r.api \in Apis /\ r.user \in Users /\ r.channel \in Channels /\ r.author \in Users \cup {NoAuthor}
    BY DEF Apis
  <2>2. Matching(r) \subseteq docs
    BY DEF Matching, StatHits, Hits, TypeOK, IndexTypeOK
  <2>3. call' = [at |-> "get", api |-> r.api, user |-> r.user, channel |-> r.channel,
                 author |-> r.author, object |-> NoObject,
                 was |-> r.user \in MembersOf(r.channel), touched |-> FALSE,
                 before |-> Matching(r), reply |-> "none", bodies |-> 0, shown |-> {},
                 buckets |-> NoBuckets]
    BY <1>3 DEF Request
  <2>4. call' \in Call
    BY <2>1, <2>2, <2>3, NoBucketsType DEF Call
  <2>5. HeldOK'
    BY <2>3 DEF HeldOK
  <2>6. Matching(call)' = Matching(r)
    BY <1>1, <2>3 DEF Matching, StatHits, Hits, Matches, indexVars
  <2>7. MembersOf(r.channel)' = MembersOf(r.channel)
    BY <1>1 DEF MembersOf
  <2>8. NotesOK'
    <3>1. /\ call'.at = "get" /\ call'.user = r.user /\ call'.channel = r.channel
          /\ call'.reply = "none" /\ call'.before = Matching(r)
          /\ call'.was <=> r.user \in MembersOf(r.channel)
      BY <2>3
    <3> QED BY <2>1, <2>6, <2>7, <3>1 DEF NotesOK, MembersOf
  <2> QED BY <1>1, <2>4, <2>5, <2>8, CallSteps
<1> QED BY <1>2, <1>3

LEMMA GetChannelStep ==
  ASSUME IInv, GetChannel
  PROVE  /\ IInv'
         /\ call'.at = "idle" => call'.reply = "refused" /\ call'.bodies = 1 /\ call'.shown = {}
<1> USE DEF IInv
<1>1. call.at = "get" /\ UNCHANGED <<indexVars, table, users, hub>>
  BY DEF GetChannel
<1>2. CASE table[call.channel] = NoObject
  BY <1>1, <1>2, ReplyStep DEF GetChannel
<1>3. CASE table[call.channel] # NoObject
  <2> DEFINE o == table[call.channel]
  <2>1. call' = [call EXCEPT !.at = "check", !.object = o] /\ call.channel \in Channels
    BY <1>1, <1>3 DEF GetChannel, NotesOK
  <2>2. o \in Objects
    BY <1>3, <2>1 DEF TypeOK
  <2>3. /\ call' \in Call
        /\ call'.at = "check" /\ call'.object = o /\ call'.user = call.user
        /\ call'.channel = call.channel /\ call'.was = call.was /\ call'.reply = call.reply
        /\ call'.before = call.before /\ call'.touched = call.touched
        /\ call'.api = call.api /\ call'.author = call.author
    BY <2>1, <2>2 DEF Call, TypeOK
  <2>4. HeldOK'
    BY <1>1, <1>3, <2>1, <2>3 DEF HeldOK, OneName
  <2>5. Matching(call)' = Matching(call)
    BY <1>1, <2>3 DEF Matching, StatHits, Hits, Matches, indexVars
  <2>6. NotesOK'
    BY <1>1, <2>3, <2>5 DEF NotesOK, MembersOf
  <2> QED BY <1>1, <2>3, <2>4, <2>6, CallSteps
<1> QED BY <1>2, <1>3

(* Who passes the check is a member of the registered channel, and was one *)
(* when the call came in unless his membership changed since; who does not *)
(* pass was none.                                                          *)
LEMMA HasUserStep ==
  ASSUME IInv, HasUser
  PROVE  /\ IInv'
         /\ call'.at = "idle" =>
              /\ call'.bodies = 1 /\ call'.shown = {} /\ call'.reply \in {"refused", "invalid"}
              /\ ~call.touched => (call'.reply = "refused" <=> ~call.was)
         /\ call'.at = "search" => call.user \in MembersOf(call.channel)
<1> USE DEF IInv
<1>1. /\ call.at = "check" /\ UNCHANGED <<indexVars, table, users, hub>>
      /\ call.channel \in Channels /\ call.object \in Objects
  BY DEF HasUser, NotesOK, HeldOK, TypeOK, Call
<1>2. CASE call.user \notin users[call.object]
  <2>1. call' = Reply("refused")
    BY <1>2 DEF HasUser
  <2>2. ~call.touched => ~call.was
    BY <1>1, <1>2 DEF NotesOK, MembersOf
  <2> QED BY <1>1, <2>1, <2>2, ReplyStep
<1>3. CASE call.user \in users[call.object]
  <2>1. table[call.channel] = call.object
    BY <1>1, <1>3 DEF HeldOK
  <2>2. call.user \in MembersOf(call.channel)
    BY <1>1, <1>3, <2>1 DEF MembersOf
  <2>3. ~call.touched => call.was
    BY <1>1, <2>2 DEF NotesOK
  <2>4. CASE call' = Reply("invalid")
    BY <1>1, <2>3, <2>4, ReplyStep
  <2>5. CASE call' = [call EXCEPT !.at = "search", !.object = NoObject]
    <3>1. /\ call' \in Call
          /\ call'.at = "search" /\ call'.object = NoObject /\ call'.user = call.user
          /\ call'.channel = call.channel /\ call'.was = call.was /\ call'.reply = call.reply
          /\ call'.before = call.before /\ call'.touched = call.touched
          /\ call'.api = call.api /\ call'.author = call.author
      BY <2>5 DEF Call, TypeOK
    <3>2. HeldOK'
      BY <3>1 DEF HeldOK
    <3>3. Matching(call)' = Matching(call)
      BY <1>1, <3>1 DEF Matching, StatHits, Hits, Matches, indexVars
    <3>4. NotesOK'
      BY <1>1, <2>3, <3>1, <3>3 DEF NotesOK, MembersOf
    <3> QED BY <1>1, <2>2, <3>1, <3>2, <3>4, CallSteps
  <2> QED BY <1>3, <2>4, <2>5 DEF HasUser
<1> QED BY <1>2, <1>3

(* An error shows nothing, and only the HTTP handler says it twice.        *)
LEMMA SearchFailsStep ==
  ASSUME IInv, SearchFails
  PROVE  /\ IInv' /\ call'.at = "idle" /\ call'.reply = "internal" /\ call'.shown = {}
         /\ call.api # "http" => call'.bodies = 1
<1>1. UNCHANGED <<indexVars, table, users, hub>> /\ call' = SearchError
  BY DEF SearchFails
<1>2. CASE call.api = "http"
  <2>1. call' = Answered("internal", 2, {}, NoBuckets)
    BY <1>1, <1>2 DEF SearchError, ListedOnError
  <2>2. {} \in SUBSET docs /\ 2 \in 0 .. 2
    OBVIOUS
  <2> QED BY <1>1, <1>2, <2>1, <2>2, NoBucketsType, AnswerStep
<1>3. CASE call.api # "http"
  BY <1>1, <1>3, ReplyStep DEF SearchError
<1> QED BY <1>2, <1>3

LEMMA ListDocumentsStep ==
  ASSUME IInv, ListDocuments
  PROVE  /\ IInv' /\ call'.at = "idle" /\ call'.reply = "ok" /\ call'.bodies = 1
         /\ call'.shown \in Pages(Hits(call.channel, call.author))
<1>1. PICK page \in Pages(Hits(call.channel, call.author)) :
        call' = Answered("ok", 1, page, NoBuckets)
  BY DEF ListDocuments
<1>2. page \in SUBSET docs
  BY DEF Pages, Hits, IInv, TypeOK, IndexTypeOK
<1> QED BY <1>1, <1>2, NoBucketsType, AnswerStep DEF ListDocuments

LEMMA GetMessageStatsStep ==
  ASSUME IInv, GetMessageStats
  PROVE  /\ IInv' /\ call'.at = "idle" /\ call'.reply = "ok"
         /\ call'.bodies = 1 /\ call'.shown = {}
<1>1. PICK w \in Widths :
        call' = Answered("ok", 1, {}, Buckets(StatHits(call.channel, call.author), w))
  BY DEF GetMessageStats
<1>2. \A b \in BucketKeys :
        Cardinality({d \in StatHits(call.channel, call.author) : Bucket(d.message, w) = b}) \in Nat
  BY HitsFinite DEF StatHits, IInv, TypeOK
<1>3. Buckets(StatHits(call.channel, call.author), w) \in [BucketKeys -> Nat]
  BY <1>2 DEF Buckets
<1> QED BY <1>1, <1>3, AnswerStep DEF GetMessageStats

-----------------------------------------------------------------------------
(* The invariant.                                                          *)

LEMMA InitInv == Init => IInv
<1> SUFFICES ASSUME Init PROVE IInv
  OBVIOUS
<1>1. IndexTypeOK /\ docs = {} /\ inFlight = {} /\ \A m \in Messages : answer[m] = "none"
  BY DEF Init, IndexInit, IndexTypeOK
<1>2. hub \in Hub /\ hub.at = "idle" /\ ~hub.evicting
  BY DEF Init, HubIdle, Hub
<1>3. call \in Call /\ call.at = "idle" /\ call.object = NoObject
  BY <1>1, NoBucketsType DEF Init, Answered, Call, Apis
<1>4. TypeOK
  BY <1>1, <1>2, <1>3 DEF Init, TypeOK
<1>5. HubOK /\ AnswersOK /\ OneName /\ HeldOK /\ NotesOK
  BY <1>1, <1>2, <1>3 DEF Init, HubOK, AuthorStaysMember, AnswersOK, OneName, HeldOK, NotesOK
<1> QED BY <1>4, <1>5 DEF IInv

LEMMA NextInv == IInv /\ [Next]_vars => IInv'
<1> SUFFICES ASSUME IInv, [Next]_vars PROVE IInv'
  OBVIOUS
<1>1. CASE Elasticsearch
  BY <1>1, ElasticsearchStep
<1>2. CASE HubNext
  BY <1>2, JoinStep, AddUserStep, LeaveStep, DisconnectStep, EvictStep, EvictDoneStep,
     CleanupStep, SendMessageStep, IndexStepStep DEF HubNext
<1>3. CASE CallNext
  BY <1>3, RequestStep, GetChannelStep, HasUserStep, SearchFailsStep, ListDocumentsStep,
     GetMessageStatsStep DEF CallNext
<1>4. CASE UNCHANGED vars
  <2>1. call' \in Call
    BY <1>4 DEF vars, IInv, TypeOK
  <2>2. HeldOK' /\ NotesOK'
    BY <1>4 DEF vars, IInv, HeldOK, NotesOK, MembersOf, Matching, StatHits, Hits, Matches
  <2> QED BY <1>4, <2>1, <2>2, CallSteps DEF vars, indexVars, IInv
<1> QED BY <1>1, <1>2, <1>3, <1>4 DEF Next

LEMMA Invariance == Spec => []IInv
BY InitInv, NextInv, PTL DEF Spec

-----------------------------------------------------------------------------
(* The theorems.                                                           *)

(* Type correctness of hub, channels, index and calls.                     *)
THEOREM HistoryTypeCorrect == Spec => []TypeOK
BY Invariance, PTL DEF IInv

(* However often IndexMessage retries and whenever Elasticsearch carries   *)
(* its requests out, the index holds a message once.                       *)
THEOREM DocumentsUnique == Spec => []OneDocument
<1>1. IInv => OneDocument
  BY DocumentTypes, DocumentFacts DEF IInv, TypeOK, OneDocument
<1> QED BY <1>1, Invariance, PTL

(* While handleSendMessage waits for Elasticsearch its sender remains a    *)
(* member of the channel.                                                  *)
THEOREM AuthorsRemain == Spec => []AuthorStaysMember
BY Invariance, PTL DEF IInv, HubOK

(* Which step ends a call, and how.                                        *)
LEMMA AnsweringSteps ==
  ASSUME IInv, [Next]_vars, Answering
  PROVE  GetChannel \/ HasUser \/ SearchFails \/ ListDocuments \/ GetMessageStats
<1>1. ~UNCHANGED call /\ call.at # "idle" /\ call'.at = "idle"
  BY DEF Answering
<1>2. \A u, ch : ~Touch(u, ch)
  BY <1>1 DEF Touch, IInv, TypeOK, Call
<1>3. ~Elasticsearch
  BY <1>1 DEF Elasticsearch
<1>4. ~HubNext
  BY <1>1, <1>2 DEF HubNext, Disconnect, Join, Leave, Evict, SendMessage, AddUser, EvictDone,
     CleanupEmptyChannel, IndexStep, RemoveUser
<1> QED BY <1>1, <1>3, <1>4 DEF Next, CallNext, vars, Request

(* A call that ran while the caller's membership did not change is decided *)
(* by it, although IsUserAMember looks twice and channels are deleted and  *)
(* made anew in between.                                                   *)
THEOREM DecisionsRight == Spec => UndisturbedDecision
<1>1. ASSUME IInv, [Next]_vars, Answering, ~call.touched
      PROVE  (call'.reply = "refused" => ~call.was) /\ (call'.reply # "refused" => call.was)
  <2>1. CASE GetChannel
    <3>1. call'.reply = "refused"
      BY <1>1, <2>1, GetChannelStep DEF Answering
    <3>2. call.at = "get" /\ call.channel \in Channels
      BY <1>1, <2>1 DEF GetChannel, IInv, NotesOK
    <3>3. table[call.channel] = NoObject
      BY <1>1, <2>1 DEF GetChannel, Answering, IInv, TypeOK, Call
    <3> QED BY <1>1, <3>1, <3>2, <3>3 DEF IInv, NotesOK, MembersOf
  <2>2. CASE HasUser
    BY <1>1, <2>2, HasUserStep DEF Answering
  <2>3. CASE SearchFails \/ ListDocuments \/ GetMessageStats
    <3>1. call'.reply # "refused"
      BY <1>1, <2>3, SearchFailsStep, ListDocumentsStep, GetMessageStatsStep
    <3>2. call.at = "search"
      BY <2>3 DEF SearchFails, ListDocuments, GetMessageStats
    <3> QED BY <1>1, <3>1, <3>2 DEF IInv, NotesOK
  <2> QED BY <1>1, <2>1, <2>2, <2>3, AnsweringSteps
<1>2. IInv /\ [Next]_vars =>
        [Answering /\ ~call.touched =>
           /\ call'.reply = "refused" => ~call.was
           /\ call'.reply # "refused" => call.was]_vars
  BY <1>1
<1> QED BY <1>2, Invariance, PTL DEF Spec, UndisturbedDecision

(* Whoever is let through to the messages is, as he is let through, a      *)
(* member of the channel registered under the name.                        *)
THEOREM AdmittedMembers == Spec => AdmittedAsMember
<1>1. ASSUME IInv, [Next]_vars, call.at = "check", call'.at = "search"
      PROVE  call.user \in MembersOf(call.channel)
  <2>1. \A u, ch : ~Touch(u, ch)
    BY <1>1 DEF Touch, IInv, TypeOK, Call
  <2>2. ~Elasticsearch /\ ~HubNext /\ ~UNCHANGED vars
    BY <1>1, <2>1 DEF Elasticsearch, vars, HubNext, Disconnect, Join, Leave, Evict, SendMessage,
       AddUser, EvictDone, CleanupEmptyChannel, IndexStep, RemoveUser
  <2>3. HasUser
    BY <1>1, <2>2 DEF Next, CallNext, Request, GetChannel, SearchFails, ListDocuments,
       GetMessageStats
  <2> QED BY <1>1, <2>3, HasUserStep
<1>2. IInv /\ [Next]_vars =>
        [call.at = "check" /\ call'.at = "search" => call.user \in MembersOf(call.channel)]_vars
  BY <1>1
<1> QED BY <1>2, Invariance, PTL DEF Spec, AdmittedAsMember

(* A listing shows messages of the channel (and author) asked for, each    *)
(* once and each sent, and one that failed shows none, in neither body of  *)
(* its answer; every other call is answered with one body.                 *)
THEOREM ListingsSound == Spec => ListingIsSound
<1> DEFINE Sound == /\ call'.reply = "ok"
                    /\ \A d \in call'.shown : /\ ChannelOf[d.message] = call.channel
                                              /\ call.author \in {AuthorOf[d.message], NoAuthor}
                                              /\ answer[d.message] # "none"
                    /\ \A d, e \in call'.shown : d.message = e.message => d = e
           Once == call'.bodies # 1 => call.api = "http" /\ call.at = "search" /\ call'.reply = "internal"
<1>1. ASSUME IInv, [Next]_vars, Answering
      PROVE  Once
  <2>1. CASE SearchFails
    BY <1>1, <2>1, SearchFailsStep DEF SearchFails
  <2>2. CASE GetChannel \/ HasUser \/ ListDocuments \/ GetMessageStats
    BY <1>1, <2>2, GetChannelStep, HasUserStep, ListDocumentsStep, GetMessageStatsStep DEF Answering
  <2> QED BY <1>1, <2>1, <2>2, AnsweringSteps
<1>2. ASSUME IInv, [Next]_vars, Answering, call'.shown # {}
      PROVE  Sound
  <2>1. ListDocuments
    BY <1>2, AnsweringSteps, GetChannelStep, HasUserStep, SearchFailsStep, GetMessageStatsStep
       DEF Answering
  <2>2. call'.reply = "ok" /\ call'.shown \in Pages(Hits(call.channel, call.author))
    BY <1>2, <2>1, ListDocumentsStep
  <2>3. call'.shown \subseteq Hits(call.channel, call.author) /\ call'.shown \subseteq docs
    BY <1>2, <2>2 DEF Pages, Hits, IInv, TypeOK, IndexTypeOK
  <2>4. \A d \in docs : answer[d.message] # "none"
    BY <1>2 DEF IInv, AnswersOK
  <2>5. \A d, e \in docs : d.message = e.message => d = e
    BY <1>2, DocumentTypes, DocumentFacts DEF IInv, TypeOK
  <2>6. \A d \in call'.shown : Matches(d, call.channel, call.author)
    BY <2>3 DEF Hits
  <2> QED BY <2>2, <2>3, <2>4, <2>5, <2>6 DEF Matches
<1>3. IInv /\ [Next]_vars => [Answering => /\ Once
                                           /\ call'.shown # {} => Sound]_vars
  BY <1>1, <1>2
<1> QED BY <1>3, Invariance, PTL DEF Spec, ListingIsSound

(* A listing shows what was visible when the call came in, or a full page  *)
(* of messages at least as new.                                            *)
THEOREM ListingsFresh == Spec => FreshListing
<1> DEFINE Fresh == \A d \in call.before \ call'.shown :
                      /\ Cardinality(call'.shown) = PageSize
                      /\ \A e \in call'.shown : CreatedAt[e.message] >= CreatedAt[d.message]
<1>1. ASSUME IInv, [Next]_vars, Answering, call'.reply = "ok", call.api # "stats"
      PROVE  Fresh
  <2>1. ListDocuments
    BY <1>1, AnsweringSteps, GetChannelStep, HasUserStep, SearchFailsStep DEF Answering, GetMessageStats
  <2> DEFINE hits == Hits(call.channel, call.author)
             page == call'.shown
  <2>2. /\ page \in SUBSET hits /\ Cardinality(page) <= PageSize
        /\ Cardinality(page) < PageSize => page = hits
        /\ \A d \in page, e \in hits \ page : CreatedAt[d.message] >= CreatedAt[e.message]
    BY <1>1, <2>1, ListDocumentsStep DEF Pages
  <2>3. call.before \subseteq hits
    BY <1>1, <2>1 DEF ListDocuments, IInv, NotesOK, Matching
  <2>4. Cardinality(page) \in Nat
    BY <1>1, <2>2, HitsFinite DEF Hits, IInv, TypeOK
  <2>5. page # hits => Cardinality(page) = PageSize
    BY <2>2, <2>4, PageSizeAssumption
  <2> QED BY <2>2, <2>3, <2>5
<1>2. IInv /\ [Next]_vars => [Answering /\ call'.reply = "ok" /\ call.api # "stats" => Fresh]_vars
  BY <1>1
<1> QED BY <1>2, Invariance, PTL DEF Spec, FreshListing

(* There are finitely many buckets: none is beyond the latest time stamp.  *)
LEMMA BucketKeysFinite == IsFiniteSet(BucketKeys)
<1> DEFINE f == [m \in Messages |-> 0 .. CreatedAt[m]]
           Ranges == {0 .. CreatedAt[m] : m \in Messages}
<1>1. IsFiniteSet(Ranges)
  <2>1. f \in Surjection(Messages, Ranges)
    BY DEF Surjection
  <2> HIDE DEF f, Ranges
  <2> QED BY <2>1, FS_Surjection, MessagesAssumption
<1>2. \A T \in Ranges : IsFiniteSet(T)
  BY FS_Interval, FieldsAssumption
<1>3. IsFiniteSet(UNION Ranges)
  <2> HIDE DEF Ranges
  <2> QED BY <1>1, <1>2, FS_UNION
<1>4. ASSUME NEW m \in Messages, NEW w \in Widths
      PROVE  Bucket(m, w) \in 0 .. CreatedAt[m]
  <2>1. w \in Nat /\ w > 0 /\ CreatedAt[m] \in Nat
    BY WidthsAssumption, FieldsAssumption
  <2> QED BY <2>1 DEF Bucket
<1>5. BucketKeys \in SUBSET (UNION Ranges)
  BY <1>4 DEF BucketKeys
<1> QED BY <1>3, <1>5, FS_Subset

(* Documents count as their messages do.                                   *)
LEMMA MessagesCounted ==
  ASSUME IndexTypeOK, NEW S \in SUBSET visible
  PROVE  Cardinality({d.message : d \in S}) = Cardinality(S)
<1> DEFINE M == {d.message : d \in S}
           f == [d \in S |-> d.message]
<1>1. f \in Surjection(S, M)
  BY DEF Surjection
<1>2. f \in Injection(S, M)
  <2>1. \A d, e \in S : d.message = e.message => d = e
    BY DocumentTypes, DocumentFacts
  <2>2. f \in [S -> M] /\ \A d \in S : f[d] = d.message
    OBVIOUS
  <2> HIDE DEF f, M
  <2> QED BY <2>1, <2>2 DEF Injection, IsInjective
<1>3. IsFiniteSet(S)
  BY HitsFinite
<1> HIDE DEF f, M
<1> QED BY <1>1, <1>2, <1>3, FS_Surjection DEF M

(* The counts of a statistics answer add up to the hits, whatever the      *)
(* width of the buckets.                                                   *)
LEMMA BucketsCountHits ==
  ASSUME IndexTypeOK, NEW S \in SUBSET visible, NEW w \in Widths
  PROVE  SumFunction(Buckets(S, w)) = Cardinality(S)
<1> DEFINE bucket == [d \in S |-> Bucket(d.message, w)]
           counts == [b \in BucketKeys |-> Cardinality({d \in S : bucket[d] = b})]
<1>1. bucket \in [S -> BucketKeys]
  BY DocumentTypes, DocumentFacts DEF BucketKeys
<1>2. counts = Buckets(S, w)
  <2>1. \A b \in BucketKeys : {d \in S : bucket[d] = b} = {d \in S : Bucket(d.message, w) = b}
    OBVIOUS
  <2> QED BY <2>1 DEF Buckets
<1>3. IsFiniteSet(S) /\ IsFiniteSet(BucketKeys)
  BY HitsFinite, BucketKeysFinite
<1>4. SumFunction(counts) = Cardinality(S)
  <2> HIDE DEF bucket
  <2> QED BY <1>1, <1>3, BucketsAddUp
<1> QED BY <1>2, <1>4

(* The buckets of GetMessageStats hold each message once, whatever their   *)
(* width: all that were visible when the call came in, and no others than  *)
(* are visible now.                                                        *)
THEOREM StatisticsCount == Spec => StatsCountMessages
<1> DEFINE hits == StatHits(call.channel, call.author)
           Counted == /\ SumFunction(call'.buckets) >= Cardinality({d.message : d \in call.before})
                      /\ SumFunction(call'.buckets) <= Cardinality({d.message : d \in hits})
<1>1. ASSUME IInv, [Next]_vars, Answering, call'.reply = "ok", call.api = "stats"
      PROVE  Counted
  <2>1. GetMessageStats
    BY <1>1, AnsweringSteps, GetChannelStep, HasUserStep, SearchFailsStep DEF Answering, ListDocuments
  <2>2. PICK w \in Widths : call'.buckets = Buckets(hits, w)
    BY <2>1 DEF GetMessageStats, Answered
  <2>3. hits \in SUBSET visible /\ call.before \in SUBSET hits /\ IndexTypeOK
    BY <1>1 DEF StatHits, IInv, TypeOK, NotesOK, Matching, Answering
  <2> HIDE DEF hits
  <2>4. SumFunction(call'.buckets) = Cardinality(hits)
    BY <2>2, <2>3, BucketsCountHits
  <2>5. /\ Cardinality({d.message : d \in hits}) = Cardinality(hits)
        /\ Cardinality({d.message : d \in call.before}) = Cardinality(call.before)
    BY <2>3, MessagesCounted
  <2>6. /\ IsFiniteSet(hits)
        /\ Cardinality(hits) \in Nat /\ Cardinality(call.before) \in Nat
    BY <2>3, HitsFinite
  <2>7. Cardinality(call.before) <= Cardinality(hits)
    BY <2>3, <2>6, FS_Subset
  <2> QED BY <2>4, <2>5, <2>6, <2>7
<1>2. IInv /\ [Next]_vars => [Answering /\ call'.reply = "ok" /\ call.api = "stats" => Counted]_vars
  BY <1>1
<1> QED BY <1>2, Invariance, PTL DEF Spec, StatsCountMessages

-----------------------------------------------------------------------------
(* The refinement.                                                         *)

LEMMA DocsGrow ==
  ASSUME IInv, Write
  PROVE  \E d \in inFlight : {e.message : e \in docs'} = {e.message : e \in docs} \cup {d.message}
                            /\ d.message \in Messages
<1>1. PICK d \in inFlight : docs' = docs \cup {d}
  BY WriteGrows
<1>2. d.message \in Messages
  BY <1>1, DocumentTypes, DocumentFacts DEF IInv, TypeOK
<1> QED BY <1>1, <1>2

(* Every step of the index is one that Archive allows, or none of its      *)
(* business.                                                               *)
LEMMA ArchiveStep == IInv /\ [Next]_vars => [A!Next]_(A!vars)
<1> SUFFICES ASSUME IInv, [Next]_vars PROVE [A!Next]_(A!vars)
  OBVIOUS
<1> DEFINE stored == {d.message : d \in docs}
<1>1. CASE Write
  <2>1. PICK d \in inFlight : stored' = stored \cup {d.message} /\ d.message \in Messages
    BY <1>1, DocsGrow
  <2>2. UNCHANGED answer /\ answer[d.message] \in {"taken", "sent", "failed"}
    BY <1>1, <2>1 DEF Write, IInv, AnswersOK, TypeOK, IndexTypeOK
  <2>3. CASE answer[d.message] = "sent"
    <3>1. Document(d.message, 0) \in docs
      BY <2>1, <2>3 DEF IInv, AnswersOK
    <3>2. d.message \in stored
      BY <3>1, DocumentFacts
    <3> QED BY <2>1, <2>2, <3>2 DEF A!vars
  <2>4. CASE answer[d.message] \in {"taken", "failed"}
    BY <2>1, <2>2, <2>4 DEF A!Next, A!Store
  <2> QED BY <2>2, <2>3, <2>4
<1>2. CASE UNCHANGED <<docs, answer>>
  BY <1>2 DEF A!vars
<1>3. ASSUME NEW m \in Messages, SendMessage(m)
      PROVE  A!Next
  BY <1>3 DEF SendMessage, IndexMessage, A!Next, A!Take
<1>4. CASE IndexStep
  <2>1. hub.message \in Messages
    BY <1>4 DEF IndexStep, IInv, HubOK
  <2>2. CASE IndexDone(hub.message)
    <3>1. hub.message \in stored
      BY <2>2, DocumentFacts DEF IndexDone
    <3> QED BY <2>1, <2>2, <3>1 DEF IndexDone, Indexing, A!Next, A!Confirm
  <2>3. CASE IndexFails(hub.message)
    BY <2>1, <2>3 DEF IndexFails, Indexing, LastError, A!Next, A!Refuse, A!vars
  <2> QED BY <1>4, <2>2, <2>3 DEF IndexStep
<1>5. CASE Refresh \/ CallNext \/ UNCHANGED vars
  BY <1>2, <1>5 DEF Refresh, CallNext, Request, GetChannel, HasUser, SearchFails, ListDocuments,
     GetMessageStats, indexVars, vars
<1>6. CASE HubNext
  BY <1>2, <1>3, <1>4, <1>6 DEF HubNext, Disconnect, Join, Leave, Evict, AddUser, EvictDone,
     CleanupEmptyChannel, indexVars
<1> QED BY <1>1, <1>5, <1>6 DEF Next, Elasticsearch

(* IndexMessage, its retries and Elasticsearch implement Archive: "sent"   *)
(* is said only of stored messages, each message is answered once, and     *)
(* what is stored stays.                                                   *)
THEOREM ImplementsArchive == Spec => KeepsPromise
<1>1. Init => A!Init
  BY DEF Init, IndexInit, A!Init
<1> QED BY <1>1, ArchiveStep, Invariance, PTL DEF Spec, KeepsPromise, A!SafeSpec

-----------------------------------------------------------------------------
(* How long the hub is away.                                               *)

JoinedBy(u) == {ch \in Channels : u \in MembersOf(ch)}

(* Each membership of u costs an eviction and a cleanup.                   *)
LeftOf(u) == 2 * Cardinality(JoinedBy(u))

(* The steps, its retries included, the hub has left before it is idle.    *)
HubRank ==
  CASE hub.at = "idle" -> 0
    [] hub.at = "join" -> 1
    [] hub.at = "index" -> MaxRetries + 1 - retries
    [] hub.at = "cleanup" /\ ~hub.evicting -> 1
    [] hub.at = "cleanup" /\ hub.evicting -> LeftOf(hub.user) + 2
    [] hub.at = "evict" -> LeftOf(hub.user) + 1

(* Away from idle the hub comes nearer to it with every step of its own,   *)
(* and neither Elasticsearch nor a caller sets it back.                    *)
HubAdvances ==
  [][hub.at # "idle" => IF HubGoesOn THEN HubRank' < HubRank
                        ELSE UNCHANGED <<hub, table, users, retries>>]_vars

(* A user belongs to finitely many channels: he joined them one by one.    *)
FinitelyJoined == \A u \in Users : IsFiniteSet(JoinedBy(u))

(* Making a channel, or deleting an empty one, changes no membership.      *)
LEMMA MakeMembers ==
  ASSUME IInv, NEW ch \in Channels, GetOrCreate(ch)
  PROVE  \A dh \in Channels : MembersOf(dh)' = MembersOf(dh)
<1>1. CASE table[ch] # NoObject
  BY <1>1 DEF GetOrCreate, MembersOf
<1>2. CASE table[ch] = NoObject
  <2>1. PICK o \in Objects : /\ Free(o)
                            /\ table' = [table EXCEPT ![ch] = o]
                            /\ users' = [users EXCEPT ![o] = {}]
    BY <1>2 DEF GetOrCreate
  <2>2. /\ table'[ch] = o /\ users'[o] = {}
        /\ \A dh \in Channels : dh # ch => table'[dh] = table[dh] /\ table[dh] # o
        /\ \A p \in Objects : p # o => users'[p] = users[p]
        /\ o # NoObject
    BY <2>1 DEF IInv, TypeOK, Free
  <2> QED BY <1>2, <2>2 DEF MembersOf, IInv, TypeOK
<1> QED BY <1>1, <1>2

LEMMA CleanupMembers ==
  ASSUME IInv, CleanupEmptyChannel
  PROVE  \A dh \in Channels : MembersOf(dh)' = MembersOf(dh)
<1>1. UNCHANGED users
  BY DEF CleanupEmptyChannel
<1>2. CASE UNCHANGED table
  BY <1>1, <1>2 DEF MembersOf
<1>3. CASE users[table[hub.channel]] = {} /\ table' = [table EXCEPT ![hub.channel] = NoObject]
  <2>1. ASSUME NEW dh \in Channels, dh = hub.channel
        PROVE  MembersOf(dh)' = {} /\ MembersOf(dh) = {}
    BY <1>3, <2>1 DEF MembersOf, IInv, TypeOK
  <2>2. ASSUME NEW dh \in Channels, dh # hub.channel
        PROVE  MembersOf(dh)' = MembersOf(dh)
    BY <1>1, <1>3, <2>2 DEF MembersOf, IInv, TypeOK
  <2> QED BY <2>1, <2>2
<1> QED BY <1>2, <1>3 DEF CleanupEmptyChannel, DeletesEmpty

(* Putting a user into a channel, and taking one out.                      *)
LEMMA AddMembers ==
  ASSUME IInv, AddUser
  PROVE  \A u \in Users : JoinedBy(u)' \subseteq JoinedBy(u) \cup {hub.channel}
<1> DEFINE ch == hub.channel
           S == users[table[ch]] \cup {hub.user}
<1>1. /\ hub.user \in Users /\ ch \in Channels /\ table[ch] # NoObject /\ table[ch] \in Objects
      /\ UNCHANGED <<indexVars, table>>
  BY DEF AddUser, IInv, HubOK, TypeOK
<1>2. CASE UNCHANGED users
  BY <1>1, <1>2 DEF JoinedBy, MembersOf
<1>3. CASE users' = [users EXCEPT ![table[ch]] = S] /\ Touch(hub.user, ch)
  <2>1. S \in SUBSET Users /\ \A v \in Users : v # hub.user => (v \in S <=> v \in MembersOf(ch))
    BY <1>1 DEF IInv, TypeOK, MembersOf
  <2>2. \A dh \in Channels : dh # ch => MembersOf(dh)' = MembersOf(dh)
    <3> HIDE DEF S, ch
    <3> QED BY <1>1, <1>3, <2>1, MembershipStep
  <2> QED BY <2>2 DEF JoinedBy
<1> QED BY <1>2, <1>3 DEF AddUser

LEMMA RemoveMembers ==
  ASSUME IInv, NEW u \in Users, NEW ch \in Channels, u \in MembersOf(ch), RemoveUser(u, ch),
         UNCHANGED <<indexVars, table>>
  PROVE  /\ JoinedBy(u)' = JoinedBy(u) \ {ch}
         /\ \A v \in Users : v # u => JoinedBy(v)' = JoinedBy(v)
<1> DEFINE S == users[table[ch]] \ {u}
<1>1. table[ch] # NoObject /\ table[ch] \in Objects /\ users' = [users EXCEPT ![table[ch]] = S]
  BY DEF MembersOf, RemoveUser, IInv, TypeOK
<1>2. S \in SUBSET Users /\ \A v \in Users : v # u => (v \in S <=> v \in MembersOf(ch))
  BY <1>1 DEF IInv, TypeOK, MembersOf
<1>3. \A dh \in Channels : MembersOf(dh)' = IF dh = ch THEN S ELSE MembersOf(dh)
  <2> HIDE DEF S
  <2> QED BY <1>1, <1>2, MembershipStep DEF RemoveUser
<1>4. \A v \in Users, dh \in Channels :
        v \in MembersOf(dh)' <=> v \in MembersOf(dh) /\ ~(v = u /\ dh = ch)
  BY <1>1, <1>2, <1>3
<1>5. JoinedBy(u)' = JoinedBy(u) \ {ch}
  BY <1>4 DEF JoinedBy
<1>6. ASSUME NEW v \in Users, v # u PROVE JoinedBy(v)' = JoinedBy(v)
  BY <1>4, <1>6 DEF JoinedBy
<1> QED BY <1>5, <1>6

(* A step adds at most one channel to those of a user.                     *)
LEMMA FinitelyJoinedStep ==
  ASSUME IInv, FinitelyJoined, [Next]_vars
  PROVE  FinitelyJoined'
<1>1. ASSUME NEW ch, \A u \in Users : JoinedBy(u)' \subseteq JoinedBy(u) \cup {ch}
      PROVE  FinitelyJoined'
  <2> SUFFICES ASSUME NEW u \in Users PROVE IsFiniteSet(JoinedBy(u)')
    BY DEF FinitelyJoined
  <2>1. IsFiniteSet(JoinedBy(u) \cup {ch})
    BY FS_AddElement DEF FinitelyJoined
  <2>2. JoinedBy(u)' \in SUBSET (JoinedBy(u) \cup {ch})
    BY <1>1
  <2> QED BY <2>1, <2>2, FS_Subset
<1>2. ASSUME \A dh \in Channels : MembersOf(dh)' = MembersOf(dh)
      PROVE  FinitelyJoined'
  <2>1. \A u \in Users : JoinedBy(u)' = JoinedBy(u)
    BY <1>2 DEF JoinedBy
  <2> QED BY <2>1 DEF FinitelyJoined
<1>3. ASSUME UNCHANGED <<table, users>> PROVE FinitelyJoined'
  BY <1>2, <1>3 DEF MembersOf
<1>4. CASE Elasticsearch \/ CallNext \/ UNCHANGED vars
  BY <1>3, <1>4 DEF Elasticsearch, CallNext, Request, GetChannel, HasUser, SearchFails,
     ListDocuments, GetMessageStats, vars
<1>5. ASSUME NEW u \in Users, NEW ch \in Channels, Join(u, ch) PROVE FinitelyJoined'
  BY <1>2, <1>5, MakeMembers DEF Join
<1>6. CASE AddUser
  BY <1>1, <1>6, AddMembers
<1>7. ASSUME NEW u \in Users, NEW ch \in Channels, u \in MembersOf(ch), RemoveUser(u, ch),
             UNCHANGED <<indexVars, table>>
      PROVE  FinitelyJoined'
  BY <1>1, <1>7, RemoveMembers
<1>8. CASE CleanupEmptyChannel
  BY <1>2, <1>8, CleanupMembers
<1>9. CASE (\E u \in Users : Disconnect(u)) \/ EvictDone \/ (\E m \in Messages : SendMessage(m)) \/ IndexStep
  BY <1>3, <1>9 DEF Disconnect, EvictDone, SendMessage, IndexStep
<1>10. CASE \/ \E u \in Users, ch \in Channels : Leave(u, ch)
            \/ \E ch \in Channels : Evict(ch)
  BY <1>7, <1>10 DEF Leave, Evict, IInv, HubOK
<1> QED BY <1>4, <1>5, <1>6, <1>8, <1>9, <1>10 DEF Next, HubNext

LEMMA LeftType ==
  ASSUME FinitelyJoined, NEW u \in Users
  PROVE  /\ LeftOf(u) \in Nat
         /\ IsFiniteSet(Channels) => LeftOf(u) <= 2 * Cardinality(Channels)
<1>1. Cardinality(JoinedBy(u)) \in Nat
  BY FS_CardinalityType DEF FinitelyJoined
<1>2. ASSUME IsFiniteSet(Channels) PROVE LeftOf(u) <= 2 * Cardinality(Channels)
  <2>1. JoinedBy(u) \in SUBSET Channels
    BY DEF JoinedBy
  <2>2. Cardinality(JoinedBy(u)) <= Cardinality(Channels)
    BY <1>2, <2>1, FS_Subset
  <2>3. Cardinality(Channels) \in Nat
    BY <1>2, FS_CardinalityType
  <2> QED BY <1>1, <2>2, <2>3 DEF LeftOf
<1> QED BY <1>1, <1>2 DEF LeftOf

(* The rank is a number, and no greater than channels and retries allow.   *)
LEMMA RankType ==
  ASSUME IInv, FinitelyJoined
  PROVE  /\ HubRank \in Nat
         /\ IsFiniteSet(Channels) => HubRank <= 2 * Cardinality(Channels) + MaxRetries + 2
<1>1. /\ hub.at \in {"idle", "join", "cleanup", "evict", "index"} /\ hub.evicting \in BOOLEAN
      /\ retries \in 0 .. MaxRetries
      /\ hub.at = "evict" \/ hub.evicting => hub.user \in Users
  BY DEF IInv, TypeOK, Hub, IndexTypeOK, HubOK
<1>2. hub.at = "evict" \/ hub.evicting => LeftOf(hub.user) \in Nat
  BY <1>1, LeftType
<1>3. HubRank \in Nat
  BY <1>1, <1>2 DEF HubRank
<1>4. ASSUME IsFiniteSet(Channels)
      PROVE  HubRank <= 2 * Cardinality(Channels) + MaxRetries + 2
  <2>1. Cardinality(Channels) \in Nat
    BY <1>4, FS_CardinalityType
  <2>2. hub.at = "evict" \/ hub.evicting => LeftOf(hub.user) <= 2 * Cardinality(Channels)
    BY <1>1, <1>4, LeftType
  <2> QED BY <1>1, <1>2, <2>1, <2>2 DEF HubRank
<1> QED BY <1>3, <1>4

(* Every step of the hub's own lowers the rank.                            *)
LEMMA RankDrops ==
  ASSUME IInv, FinitelyJoined, HubGoesOn
  PROVE  HubRank' < HubRank
<1>1. CASE AddUser
  <2>1. hub.at = "join" /\ hub'.at = "idle"
    BY <1>1 DEF AddUser, HubIdle
  <2> QED BY <2>1 DEF HubRank
<1>2. ASSUME NEW ch \in Channels, Evict(ch)
      PROVE  HubRank' < HubRank
  <2> PICK u \in Users : u = hub.user
    BY <1>2 DEF Evict, IInv, HubOK
  <2>1. /\ hub.at = "evict" /\ u \in MembersOf(ch) /\ RemoveUser(u, ch)
        /\ UNCHANGED <<indexVars, table>>
    BY <1>2 DEF Evict
  <2>2. hub'.at = "cleanup" /\ hub'.evicting /\ hub'.user = u
    BY <1>2 DEF Evict, IInv, TypeOK, Hub
  <2>3. JoinedBy(u)' = JoinedBy(u) \ {ch} /\ ch \in JoinedBy(u)
    BY <2>1, RemoveMembers DEF JoinedBy
  <2>4. IsFiniteSet(JoinedBy(u))
    BY <2>1 DEF FinitelyJoined
  <2>5. /\ Cardinality(JoinedBy(u)) \in Nat
        /\ Cardinality(JoinedBy(u) \ {ch}) = Cardinality(JoinedBy(u)) - 1
    BY <2>3, <2>4, FS_CardinalityType, FS_RemoveElement
  <2>6. HubRank = 2 * Cardinality(JoinedBy(u)) + 1
    BY <2>1 DEF HubRank, LeftOf
  <2>7. HubRank' = 2 * Cardinality(JoinedBy(u) \ {ch}) + 2
    <3>1. HubRank' = LeftOf(hub.user)' + 2
      BY <2>2 DEF HubRank
    <3>2. LeftOf(hub.user)' = 2 * Cardinality(JoinedBy(u)')
      BY <2>2 DEF LeftOf, JoinedBy
    <3> QED BY <2>3, <3>1, <3>2
  <2> QED BY <2>5, <2>6, <2>7
<1>3. CASE EvictDone
  <2>1. hub.at = "evict" /\ hub'.at = "idle" /\ hub.user \in Users
    BY <1>3 DEF EvictDone, HubIdle, IInv, HubOK
  <2>2. LeftOf(hub.user) \in Nat
    BY <2>1, LeftType
  <2> QED BY <2>1, <2>2 DEF HubRank
<1>4. CASE CleanupEmptyChannel /\ ~hub.evicting
  <2>1. hub.at = "cleanup" /\ hub'.at = "idle"
    BY <1>4 DEF CleanupEmptyChannel, HubIdle
  <2> QED BY <1>4, <2>1 DEF HubRank
<1>5. CASE CleanupEmptyChannel /\ hub.evicting
  <2>1. hub.at = "cleanup" /\ hub'.at = "evict" /\ hub'.user = hub.user /\ hub.user \in Users
    BY <1>5 DEF CleanupEmptyChannel, IInv, TypeOK, Hub, HubOK
  <2>2. \A dh \in Channels : MembersOf(dh)' = MembersOf(dh)
    BY <1>5, CleanupMembers
  <2>3. LeftOf(hub.user)' = LeftOf(hub.user)
    BY <2>1, <2>2 DEF LeftOf, JoinedBy
  <2>4. LeftOf(hub.user) \in Nat
    BY <2>1, LeftType
  <2>5. HubRank = LeftOf(hub.user) + 2
    BY <1>5, <2>1 DEF HubRank
  <2>6. HubRank' = LeftOf(hub.user)' + 1
    BY <2>1 DEF HubRank
  <2> QED BY <2>3, <2>4, <2>5, <2>6
<1>6. CASE IndexStep
  <2>1. hub.at = "index" /\ hub.message \in Messages /\ answer[hub.message] = "taken"
        /\ retries \in 0 .. MaxRetries /\ answer \in [Messages -> {"none", "taken", "sent", "failed"}]
    BY <1>6 DEF IndexStep, IInv, HubOK, TypeOK, IndexTypeOK
  <2>2. \/ hub'.at = "idle"
        \/ hub' = hub /\ retries' = retries + 1 /\ retries < MaxRetries
    <3>1. CASE IndexDone(hub.message)
      <4>1. answer'[hub.message] # "taken"
        BY <2>1, <3>1 DEF IndexDone
      <4> QED BY <1>6, <4>1 DEF IndexStep, HubIdle
    <3>2. CASE IndexFails(hub.message) /\ GivesUp(retries)
      <4>1. answer'[hub.message] # "taken"
        BY <2>1, <3>2 DEF IndexFails, LastError
      <4> QED BY <1>6, <4>1 DEF IndexStep, HubIdle
    <3>3. CASE IndexFails(hub.message) /\ ~GivesUp(retries)
      <4>1. retries' = retries + 1 /\ retries < MaxRetries /\ UNCHANGED answer
        BY <2>1, <3>3 DEF IndexFails, GivesUp, Retried
      <4> QED BY <1>6, <2>1, <4>1 DEF IndexStep
    <3> QED BY <1>6, <3>1, <3>2, <3>3 DEF IndexStep
  <2> QED BY <2>1, <2>2 DEF HubRank
<1> QED BY <1>1, <1>2, <1>3, <1>4, <1>5, <1>6 DEF HubGoesOn

(* What it has taken the hub is done with after at most HubRank steps of   *)
(* its own, for every number of channels and of retries, whatever          *)
(* Elasticsearch answers: the retries end, and so do the evictions.        *)
THEOREM IndexingBounded ==
  Spec => /\ [](/\ HubRank \in Nat
                /\ IsFiniteSet(Channels) => HubRank <= 2 * Cardinality(Channels) + MaxRetries + 2)
          /\ HubAdvances
<1> DEFINE Bounded == /\ HubRank \in Nat
                      /\ IsFiniteSet(Channels)
                         => HubRank <= 2 * Cardinality(Channels) + MaxRetries + 2
           Advances == hub.at # "idle" => IF HubGoesOn THEN HubRank' < HubRank
                                          ELSE UNCHANGED <<hub, table, users, retries>>
<1>1. Init => FinitelyJoined
  <2> SUFFICES ASSUME Init, NEW u \in Users PROVE IsFiniteSet(JoinedBy(u))
    BY DEF FinitelyJoined
  <2>1. JoinedBy(u) = {}
    BY DEF Init, JoinedBy, MembersOf
  <2> QED BY <2>1, FS_EmptySet
<1>2. IInv /\ FinitelyJoined /\ [Next]_vars => FinitelyJoined'
  BY FinitelyJoinedStep
<1>3. IInv /\ FinitelyJoined => Bounded
  BY RankType
<1>4. IInv /\ FinitelyJoined /\ [Next]_vars => [Advances]_vars
  <2>1. ASSUME Next, hub.at # "idle", ~HubGoesOn
        PROVE  UNCHANGED <<hub, table, users, retries>>
    <3>1. Elasticsearch \/ CallNext
      BY <2>1 DEF Next, HubNext, HubGoesOn, Disconnect, Join, Leave, SendMessage
    <3> QED BY <3>1 DEF Elasticsearch, Write, Refresh, CallNext, Request, GetChannel, HasUser,
            SearchFails, ListDocuments, GetMessageStats, indexVars
  <2> QED BY <2>1, RankDrops
<1> QED BY <1>1, <1>2, <1>3, <1>4, Invariance, PTL DEF Spec, HubAdvances

=============================================================================
