------------------------------ MODULE BasicAuth ------------------------------
(***************************************************************************)
(* The credentials in a basic-auth header: joined by a colon by the        *)
(* caller, cut at the first one by the server.  Prefix and base64 are left *)
(* out here; what a header without them comes to is the caller's matter.   *)
(***************************************************************************)
EXTENDS Naturals, Sequences

CONSTANTS Characters, Colon

ASSUME ColonAssumption == Colon \in Characters

Text == Seq(Characters)

HasColon(s) == \E i \in 1..Len(s) : s[i] = Colon

GetEncodedBase64Token(username, password) == username \o <<Colon>> \o password

\* mutant: cut at the last colon
LastColon(s) ==
  CHOOSE i \in 1..Len(s) : s[i] = Colon /\ \A j \in i+1..Len(s) : s[j] # Colon

FirstColon(s) ==
  CHOOSE i \in 1..Len(s) : s[i] = Colon /\ \A j \in 1..i-1 : s[j] # Colon

(* strings.Cut, and nothing at all of what has no colon.                   *)
ParseBasicAuth(auth) ==
  IF HasColon(auth)
  THEN [username |-> SubSeq(auth, 1, FirstColon(auth) - 1),
        password |-> SubSeq(auth, FirstColon(auth) + 1, Len(auth)), ok |-> TRUE]
  ELSE [username |-> <<>>, password |-> <<>>, ok |-> FALSE]

=============================================================================
