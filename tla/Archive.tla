------------------------------- MODULE Archive -------------------------------
(***************************************************************************)
(* What the message index promises to a sender.  A message is taken once   *)
(* and answered once.  "sent" is answered only for a message that is       *)
(* stored, and what is stored stays.  "failed" promises nothing: the       *)
(* message may be stored by then, or later, or never.                      *)
(***************************************************************************)
CONSTANT Messages

VARIABLES answer,  \* answer[m]: what the sender of m was told
          stored   \* the messages in the index

vars == <<answer, stored>>

Init == /\ answer = [m \in Messages |-> "none"]
        /\ stored = {}

Take(m) == /\ answer[m] = "none"
           /\ answer' = [answer EXCEPT ![m] = "taken"]
           /\ UNCHANGED stored

(* A request reaches the index, perhaps after its sender was told that it  *)
(* failed.                                                                 *)
Store(m) == /\ answer[m] \in {"taken", "failed"}
            /\ stored' = stored \cup {m}
            /\ UNCHANGED answer

Confirm(m) == /\ answer[m] = "taken"
              /\ m \in stored
              /\ answer' = [answer EXCEPT ![m] = "sent"]
              /\ UNCHANGED stored

Refuse(m) == /\ answer[m] = "taken"
             /\ answer' = [answer EXCEPT ![m] = "failed"]
             /\ UNCHANGED stored

Next == \E m \in Messages : Take(m) \/ Store(m) \/ Confirm(m) \/ Refuse(m)

SafeSpec == Init /\ [][Next]_vars

(* A message that was taken is answered, one way or the other.             *)
Spec == SafeSpec /\ \A m \in Messages : WF_vars(Confirm(m) \/ Refuse(m))

=============================================================================
