------------------------------ MODULE Profiles ------------------------------
(***************************************************************************)
(* Accounts: the HTTP and gRPC calls that register an account, log in and  *)
(* change a nick, each on a goroutine of its own, against the users table  *)
(* in Postgres.                                                            *)
(*                                                                         *)
(* A call waits in one statement at a time.  Postgres carries it out or    *)
(* refuses it; or the call gives up first (its connection broke, its       *)
(* context ended), is answered with what the code makes of that, and the   *)
(* statement may still be carried out later.                               *)
(***************************************************************************)
EXTENDS BasicAuth, FiniteSets

CONSTANTS Calls,       \* calls in progress; one is reused when nothing is left of it
          Ids,         \* what the BIGSERIAL can give
          Usernames, Passwords,
          Nicks,       \* the empty nick is one of them like any other
          KeyLength,   \* how much of a password bcrypt takes: 72 bytes
          Nul,         \* the byte bcrypt ends a password with
          NoId, NoNick \* where a call has none

ASSUME NoIdAssumption == NoId \notin Ids
ASSUME KeyLengthAssumption == KeyLength \in Nat
ASSUME TextAssumption == Usernames \cup Passwords \subseteq Text \ {<<>>}

VARIABLES users,  \* the users table, a set of rows
          calls,  \* where each call is, what it asks, what it was answered
          told    \* the credentials whose registration was reported done

vars == <<users, calls, told>>

(* All that bcrypt sees of a password: with a NUL at its end, over and     *)
(* over again, as long as the key is.  Salt and rounds are left out.       *)
Key(password) ==
  [i \in 1..KeyLength |-> Append(password, Nul)[((i - 1) % (Len(password) + 1)) + 1]]

Keys == [1..KeyLength -> Characters \cup {Nul}]
Hashes == {Key(p) : p \in Passwords}

Row == [id : Ids, username : Usernames, password : Hashes, nick : Nicks]
Credentials == [username : Usernames, password : Hashes]

Apis == {"http", "grpc"}
Statements == {"insert", "select", "update"}
Replies == {"ok", "conflict", "invalid", "refused", "internal", "none"}

(* "left" marks a statement whose call has ended without its result;       *)
(* "known" says whether the credentials were an account's when the call    *)
(* came in.  The password is kept as its key.                              *)
Call == [at : Statements \cup {"idle"}, left : BOOLEAN, api : Apis,
         id : Ids \cup {NoId}, username : Text, password : Keys \cup {<<>>},
         nick : Nicks \cup {NoNick}, known : BOOLEAN, reply : Replies]

Ended(r) == [at |-> "idle", left |-> FALSE, api |-> "http", id |-> NoId, username |-> <<>>,
             password |-> <<>>, nick |-> NoNick, known |-> FALSE, reply |-> r]

Init ==
  /\ users = {}
  /\ calls = [c \in Calls |-> Ended("none")]
  /\ told = {}

Answer(c, r) == calls' = [calls EXCEPT ![c] = Ended(r)]

Open(c, at, api, u, p, n, known) ==
  calls' = [calls EXCEPT ![c] =
              [at |-> at, left |-> FALSE, api |-> api, id |-> NoId, username |-> u,
               password |-> p, nick |-> n, known |-> known, reply |-> "none"]]

-----------------------------------------------------------------------------
(* Postgres.                                                               *)

(* The UNIQUE constraints of the migration.                                *)
Clashes(q) == {r \in users : r.username = q.username \/ r.nick = q.nick}
\* mutant: the nick is UNIQUE, the username is not
InsertSucceedsUsernameNotUnique(q) == {r \in users : r.nick = q.nick} = {}

InsertSucceeds(q) == Clashes(q) = {}

(* Inserting takes an id that no row has.                                  *)
Inserted(q) ==
  {users \cup {[id |-> i, username |-> q.username, password |-> q.password, nick |-> q.nick]} :
     i \in Ids \ {r.id : r \in users}}

\* mutant: UPDATE without its WHERE, on one row or another
RenamedOther(q) ==
  {IF r.id # q.id THEN [r EXCEPT !.nick = q.nick] ELSE r : r \in users}

Renamed(q) ==
  {IF r.id = q.id THEN [r EXCEPT !.nick = q.nick] ELSE r : r \in users}

(* What a statement comes to.                                              *)
Result(q) ==
  CASE q.at = "insert" -> IF InsertSucceeds(q) THEN "row" ELSE "unique"
    [] q.at = "update" ->
         IF ~\E r \in users : r.id = q.id THEN "none"
         ELSE IF \E r \in users : r.nick = q.nick /\ r.id # q.id THEN "unique" ELSE "row"
    [] OTHER -> IF \E r \in users : r.username = q.username THEN "row" ELSE "none"

Execute(q) ==
  CASE Result(q) = "row" /\ q.at = "insert" -> users' \in Inserted(q)
    [] Result(q) = "row" /\ q.at = "update" -> users' = Renamed(q)
    [] OTHER -> UNCHANGED users

-----------------------------------------------------------------------------
(* What the repository, Users and the handlers make of a result: "row",    *)
(* "none" (sql.ErrNoRows), "unique", "pgerror" (any other PgError), "lost" *)
(* (an error that is none).                                                *)

\* mutant: Create falls through as Update does
CreateReplyFallsThrough(res) ==
  IF res = "lost" THEN "ok"
  ELSE CASE res = "row" -> "ok" [] res = "unique" -> "conflict" [] OTHER -> "internal"

CreateReply(res) ==
  CASE res = "row" -> "ok"
    [] res = "unique" -> "conflict"
    [] OTHER -> "internal"

\* mutant: no violation is told from success
UpdateReplyNoUnique(res) == IF res \in {"none", "pgerror"} THEN "internal" ELSE "ok"

(* Update has no return after the switch on PgErrors.                      *)
UpdateReply(res) ==
  CASE res \in {"row", "lost"} -> "ok"
    [] res = "unique" -> "conflict"
    [] OTHER -> "internal"

\* mutant: the interceptor refuses on any error, too
LoginReplyAlwaysRefused(api, res) == "refused"

(* BasicAuth refuses on any error, AuthInterceptor on bad credentials only. *)
LoginReply(api, res) ==
  IF api = "http" \/ res \in {"none", "wrong"} THEN "refused" ELSE "internal"

StatementReply(q, res) ==
  CASE q.at = "insert" -> CreateReply(res)
    [] q.at = "update" -> UpdateReply(res)
    [] OTHER -> LoginReply(q.api, res)

-----------------------------------------------------------------------------
(* Calls.                                                                  *)

\* mutant: the password may be empty
UsernameMissing(u, p) == u = <<>>

FieldMissing(u, p) == u = <<>> \/ p = <<>>

(* GenerateFromPassword refuses what it would have to cut.                 *)
TooLong(p) == Len(p) > KeyLength

(* POST /api/register and RegisterProfile: an empty username or password   *)
(* is refused; bcrypt refuses a password that is too long, or any, when it *)
(* gets no salt.                                                           *)
HandleRegister(c) ==
  /\ calls[c].at = "idle"
  /\ \E api \in Apis, n \in Nicks,
        u \in Usernames \cup {<<>>}, p \in Passwords \cup {<<>>} :
       IF FieldMissing(u, p) THEN Answer(c, "invalid")
       ELSE \/ Answer(c, "internal")
            \/ ~TooLong(p) /\ Open(c, "insert", api, u, Key(p), n, FALSE)
  /\ UNCHANGED <<users, told>>

(* What callers send as authorization: credentials, or text that may have  *)
(* no colon (a header that is missing or does not decode is like it).      *)
Headers ==
  {GetEncodedBase64Token(u, p) : u \in Usernames, p \in Passwords} \cup Usernames

(* The header of one whose registration was reported and whose name        *)
(* survives the cut at the first colon.                                    *)
Known(auth) ==
  \E a \in told, p \in Passwords : /\ ~HasColon(a.username)
                                   /\ a.password = Key(p)
                                   /\ auth = GetEncodedBase64Token(a.username, p)

(* BasicAuth and AuthInterceptor before a profile update: what is looked   *)
(* up is what the parser makes of the header.                              *)
Login(c) ==
  /\ calls[c].at = "idle"
  /\ \E auth \in Headers, api \in Apis, n \in Nicks :
       LET a == ParseBasicAuth(auth) IN
       IF a.ok THEN Open(c, "select", api, a.username, Key(a.password), n, Known(auth))
               ELSE Answer(c, "refused")
  /\ UNCHANGED <<users, told>>

\* mutant: the password is not looked at
PasswordIgnored(q, r) == TRUE

(* bcrypt compares the password with the one in the row: of one that is    *)
(* too long, only what it takes.                                           *)
PasswordOk(q, r) == r.password = q.password

(* GetByUsername has an answer.  A call that is let in carries the row's   *)
(* id to UpdateProfile; over HTTP its body may still turn out not to be     *)
(* JSON.                                                                   *)
GetByUsername(c) ==
  LET q == calls[c] IN
  /\ q.at = "select"
  /\ \/ /\ Result(q) = "none"
        /\ Answer(c, LoginReply(q.api, "none"))
     \/ \E r \in users :
          /\ r.username = q.username
          /\ IF PasswordOk(q, r)
             THEN \/ q.api = "http" /\ Answer(c, "invalid")
                  \/ calls' = [calls EXCEPT ![c].at = "update", ![c].id = r.id,
                                            ![c].known = FALSE]
             ELSE Answer(c, LoginReply(q.api, "wrong"))
  /\ UNCHANGED <<users, told>>

Reply(c, res) ==
  LET q == calls[c]
      r == StatementReply(q, res)
  IN /\ calls' = [calls EXCEPT ![c] = IF res = "lost" /\ q.at # "select"
                                       THEN [q EXCEPT !.left = TRUE, !.reply = r]
                                       ELSE Ended(r)]
     /\ told' = IF q.at = "insert" /\ r = "ok"
                THEN told \cup {[username |-> q.username, password |-> q.password]}
                ELSE told

(* Postgres carries out an INSERT or UPDATE, and the call is answered.     *)
Finish(c) ==
  /\ calls[c].at \in {"insert", "update"} /\ ~calls[c].left
  /\ Execute(calls[c])
  /\ Reply(c, Result(calls[c]))

(* Postgres refuses for a reason of its own, or the call gives up: it is   *)
(* answered, and an INSERT or UPDATE given up stays with Postgres.         *)
Fail(c) ==
  /\ calls[c].at # "idle" /\ ~calls[c].left
  /\ \E res \in {"pgerror", "lost"} : Reply(c, res)
  /\ UNCHANGED users

(* A statement that was given up is carried out after all, or never.       *)
Late(c) ==
  /\ calls[c].left
  /\ Execute(calls[c]) \/ UNCHANGED users
  /\ Answer(c, "none")
  /\ UNCHANGED told

(* The process dies (a header shorter than "Basic " panics on the          *)
(* goroutine of a gRPC call) and is started anew; the table is kept.       *)
Crash ==
  /\ calls' = [c \in Calls |-> IF calls[c].at \in {"insert", "update"}
                               THEN [calls[c] EXCEPT !.left = TRUE, !.reply = "none"]
                               ELSE Ended("none")]
  /\ UNCHANGED <<users, told>>

Next ==
  \/ \E c \in Calls : HandleRegister(c) \/ Login(c) \/ GetByUsername(c)
                       \/ Finish(c) \/ Fail(c) \/ Late(c)
  \/ Crash

Spec == Init /\ [][Next]_vars

-----------------------------------------------------------------------------
(* Properties.                                                             *)

(* Rows, requests and reports have the types of the code's structures.     *)
TypeOK ==
  /\ users \subseteq Row
  /\ calls \in [Calls -> Call]
  /\ told \subseteq Credentials

(* Whatever registrations and renames race, are given up, or come late: no *)
(* two accounts share an id, a username or a nick.                         *)
AccountsUnique ==
  \A r, s \in users : r.id = s.id \/ r.username = s.username \/ r.nick = s.nick => r = s

(* A call that Login has let in acts on the account whose credentials it   *)
(* presented, as far as bcrypt tells passwords apart, and that account     *)
(* still exists.                                                           *)
LetInAsOwner ==
  \A c \in Calls : calls[c].at = "update" =>
    \E r \in users : /\ r.id = calls[c].id
                     /\ r.username = calls[c].username
                     /\ r.password = calls[c].password

(* A nick changes only into one that a call with the credentials of its    *)
(* owner has asked for, however late the statement is carried out; nothing *)
(* else in a row ever changes, and no row goes.                            *)
OnlyOwnerRenames ==
  [][\A r \in users : \E s \in users' :
       /\ s = [r EXCEPT !.nick = s.nick]
       /\ \/ s = r
          \/ \E c \in Calls : /\ calls[c].at = "update"
                              /\ calls[c].nick = s.nick
                              /\ calls[c].username = r.username
                              /\ calls[c].password = r.password]_vars

(* gRPC refuses nobody whose registration was reported before he called    *)
(* and who gives the same credentials, be there colons in his password or  *)
(* others' names; colons in his own lock him out.  (BasicAuth refuses more *)
(* when the database fails.)                                               *)
GrpcRefusalIsTrue ==
  [][\A c \in Calls :
       calls[c].at = "select" /\ calls[c].api = "grpc" /\ calls'[c].reply = "refused"
       => ~calls[c].known]_vars

Done(q, table) == \E r \in table : r.id = q.id /\ r.nick = q.nick

(* An update that Postgres answered and the caller is told was done, is.   *)
AnsweredUpdateDone ==
  [][\A c \in Calls :
       calls[c].at = "update" /\ calls'[c].at = "idle" /\ calls'[c].reply = "ok"
       => Done(calls[c], users')]_vars

(* Accounts is kept: what was reported registered is there and stays, and  *)
(* an account's nick becomes only what was asked for with its credentials  *)
(* and is still to come, whatever statements are lost, late or repeated.   *)
(* An update that waits or was left behind is a wish.                      *)
WishOf(q) == [username |-> q.username, password |-> q.password, nick |-> q.nick]
Wishes == {WishOf(calls[c]) : c \in {d \in Calls : calls[d].at = "update"}}
Promise == INSTANCE Accounts WITH Passwords <- Hashes, accounts <- users, reported <- told,
                                 wishes <- Wishes
KeepsAccounts == Promise!SafeSpec

(* What the log of UpdateProfile says: an update that the caller is told   *)
(* was done ("updated successfully"), is.                                  *)
ReportedUpdateDone ==
  [][\A c \in Calls :
       calls[c].at = "update" /\ ~calls[c].left /\ calls'[c].reply = "ok"
       => Done(calls[c], users')]_vars

=============================================================================
