-------------------------------- MODULE Rooms --------------------------------
(***************************************************************************)
(* What room-chat promises about presence and membership, with none of the *)
(* goroutines, buffers or locks that provide it.  A user is present while  *)
(* he holds at least one live connection.  Only a present user joins or    *)
(* leaves a channel.  When his last connection goes he is evicted from     *)
(* every channel, and he cannot come back before that is done: a session   *)
(* always starts with no membership left over from an earlier one.         *)
(***************************************************************************)

CONSTANTS Clients,   \* websocket connections
          Users,     \* usernames
          Channels   \* channel names

VARIABLES session,   \* session[u]: the live, authenticated connections of u
          members    \* members[ch]: the users that belong to channel ch

vars == <<session, members>>

Present(u) == session[u] # {}

MemberOf(u) == {ch \in Channels : u \in members[ch]}

Init == /\ session = [u \in Users |-> {}]
        /\ members = [ch \in Channels |-> {}]

(* A connection that belongs to nobody becomes one of u's.                 *)
Attach(u, c) == /\ \A v \in Users : c \notin session[v]
                /\ ~Present(u) => MemberOf(u) = {}
                /\ session' = [session EXCEPT ![u] = @ \cup {c}]
                /\ UNCHANGED members

(* One of u's connections goes away; his memberships are not touched.      *)
Detach(u, c) == /\ c \in session[u]
                /\ session' = [session EXCEPT ![u] = @ \ {c}]
                /\ UNCHANGED members

Join(u, ch) == /\ Present(u)
               /\ u \notin members[ch]
               /\ members' = [members EXCEPT ![ch] = @ \cup {u}]
               /\ UNCHANGED session

(* A membership ends because a present user asks for it ...                *)
Leave(u, ch) == /\ Present(u)
                /\ u \in members[ch]
                /\ members' = [members EXCEPT ![ch] = @ \ {u}]
                /\ UNCHANGED session

(* ... or because its user has no connection left.                         *)
Evict(u, ch) == /\ ~Present(u)
                /\ u \in members[ch]
                /\ members' = [members EXCEPT ![ch] = @ \ {u}]
                /\ UNCHANGED session

Next == \E u \in Users :
          \/ \E c \in Clients : Attach(u, c) \/ Detach(u, c)
          \/ \E ch \in Channels : Join(u, ch) \/ Leave(u, ch) \/ Evict(u, ch)

SafeSpec == Init /\ [][Next]_vars

(* Eviction is the only step the service owes on its own account.          *)
Spec == /\ SafeSpec
        /\ \A u \in Users, ch \in Channels : WF_vars(Evict(u, ch))

=============================================================================
