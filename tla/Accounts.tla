------------------------------ MODULE Accounts ------------------------------
(***************************************************************************)
(* What the users table promises, with none of the calls, statements and   *)
(* answers that are lost or late.  An account, once there, stays, and      *)
(* shares neither id nor username nor nick with another.  A registration   *)
(* is reported only for an account that is there.  A nick becomes another  *)
(* only if one who gave the account's credentials has asked for it; he may *)
(* have it at any later time, or never.                                    *)
(***************************************************************************)

CONSTANTS Ids, Usernames, Passwords, Nicks

VARIABLES accounts,  \* the accounts there are
          reported,  \* the credentials whose registration was reported
          wishes     \* new nicks asked for, with the credentials of the asker

vars == <<accounts, reported, wishes>>

Account == [id : Ids, username : Usernames, password : Passwords, nick : Nicks]

Login(a) == [username |-> a.username, password |-> a.password]

Wish(a, n) == [username |-> a.username, password |-> a.password, nick |-> n]

Init == accounts = {} /\ reported = {} /\ wishes = {}

(* A new account, reported to whoever registers it or not.                 *)
Register(a) ==
  /\ \A b \in accounts : b.id # a.id /\ b.username # a.username /\ b.nick # a.nick
  /\ accounts' = accounts \cup {a}
  /\ reported' \in {reported, reported \cup {Login(a)}}
  /\ UNCHANGED wishes

Ask(a, n) ==
  /\ wishes' = wishes \cup {Wish(a, n)}
  /\ UNCHANGED <<accounts, reported>>

(* A wish comes true; it remains if it was made twice.                     *)
Rename(a, n) ==
  /\ Wish(a, n) \in wishes
  /\ \A b \in accounts \ {a} : b.nick # n
  /\ accounts' = (accounts \ {a}) \cup {[a EXCEPT !.nick = n]}
  /\ wishes' \in {wishes, wishes \ {Wish(a, n)}}
  /\ UNCHANGED reported

(* A wish comes to nothing.                                                *)
Drop(w) ==
  /\ wishes' = wishes \ {w}
  /\ UNCHANGED <<accounts, reported>>

Next == \/ \E a \in Account : Register(a)
        \/ \E a \in accounts, n \in Nicks : Ask(a, n) \/ Rename(a, n)
        \/ \E w \in wishes : Drop(w)

SafeSpec == Init /\ [][Next]_vars

=============================================================================
