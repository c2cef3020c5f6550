--------------------------- MODULE ProfilesProofs ---------------------------
(***************************************************************************)
(* Proofs about Profiles for every number of calls, ids, names, passwords. *)
(***************************************************************************)
EXTENDS Profiles, SequenceTheorems, WellFoundedInduction, TLAPS

-----------------------------------------------------------------------------
(* Headers.                                                                *)

(* In a text with a colon the first one is where a name could end.         *)
LEMMA FirstColonAt ==
  ASSUME NEW s \in Text, HasColon(s)
  PROVE  /\ FirstColon(s) \in 1..Len(s)
         /\ s[FirstColon(s)] = Colon
         /\ \A j \in 1..FirstColon(s)-1 : s[j] # Colon
<1> DEFINE At == {i \in 1..Len(s) : s[i] = Colon}
<1>1. Len(s) \in Nat /\ At # {} /\ At \subseteq Nat
  BY DEF HasColon, Text
<1>2. PICK i \in At : \A j \in At : i <= j
  <2> DEFINE Less == OpToRel(<, Nat)
  <2>1. \A i, j \in Nat : <<j, i>> \in Less <=> j < i
    BY DEF OpToRel
  <2>2. IsWellFoundedOn(Less, Nat)
    BY NatLessThanWellFounded
  <2> HIDE DEF Less, At
  <2>3. PICK i \in At : \A j \in At : <<j, i>> \notin Less
    BY <1>1, <2>2, WFMin
  <2>4. \A j \in At : i <= j
    <3> SUFFICES ASSUME NEW j \in At PROVE i <= j
      OBVIOUS
    <3>1. i \in Nat /\ j \in Nat
      BY <1>1
    <3>2. ~(j < i)
      BY <2>1, <2>3, <3>1, Zenon
    <3> QED BY <3>1, <3>2
  <2> QED BY <2>4
<1>3. i \in 1..Len(s) /\ s[i] = Colon /\ \A j \in 1..i-1 : s[j] # Colon
  BY <1>1, <1>2
<1> QED BY <1>3 DEF FirstColon

(* What the parser cuts, joined again, is the header: it loses nothing,    *)
(* and the name it gives has no colon.                                     *)
LEMMA ParsedHeader ==
  ASSUME NEW auth \in Text, ParseBasicAuth(auth).ok
  PROVE  /\ ParseBasicAuth(auth).username \in Text
         /\ ParseBasicAuth(auth).password \in Text
         /\ ~HasColon(ParseBasicAuth(auth).username)
         /\ GetEncodedBase64Token(ParseBasicAuth(auth).username,
                                  ParseBasicAuth(auth).password) = auth
<1> DEFINE f == FirstColon(auth)
           u == SubSeq(auth, 1, f - 1)
           p == SubSeq(auth, f + 1, Len(auth))
<1>1. ParseBasicAuth(auth).username = u /\ ParseBasicAuth(auth).password = p /\ HasColon(auth)
  BY DEF ParseBasicAuth
<1>2. /\ f \in 1..Len(auth) /\ auth[f] = Colon
      /\ \A j \in 1..f-1 : auth[j] # Colon
  BY <1>1, FirstColonAt
<1> HIDE DEF f
<1>3. /\ u \in Text /\ Len(u) = f - 1 /\ \A j \in 1..f-1 : u[j] = auth[j]
      /\ p \in Text /\ Len(p) = Len(auth) - f /\ \A j \in 1..Len(auth)-f : p[j] = auth[f + j]
  BY <1>2 DEF Text
<1> HIDE DEF u, p
<1>4. ~HasColon(u)
  BY <1>2, <1>3 DEF HasColon
<1>5. u \o <<Colon>> \o p = auth
  <2> DEFINE w == u \o <<Colon>> \o p
  <2>1. w \in Text /\ Len(w) = Len(auth)
    <3>1. <<Colon>> \in Seq(Characters) /\ Len(<<Colon>>) = 1
      BY ColonAssumption
    <3>2. u \o <<Colon>> \in Seq(Characters) /\ Len(u \o <<Colon>>) = f
      BY <1>2, <1>3, <3>1, ConcatProperties DEF Text
    <3>3. w \in Seq(Characters) /\ Len(w) = f + Len(p)
      <4> DEFINE v == u \o <<Colon>>
      <4>1. v \in Seq(Characters) /\ p \in Seq(Characters)
        BY <1>3, <3>2 DEF Text
      <4> HIDE DEF v
      <4>2. v \o p \in Seq(Characters) /\ Len(v \o p) = Len(v) + Len(p)
        BY <4>1, ConcatProperties
      <4> QED BY <3>2, <4>2 DEF v
    <3> HIDE DEF w
    <3>4. f + Len(p) = Len(auth)
      BY <1>2, <1>3 DEF Text
    <3> QED BY <3>3, <3>4 DEF Text
  <2>2. \A j \in 1..Len(auth) : w[j] = auth[j]
    BY <1>2, <1>3, ColonAssumption DEF Text
  <2> HIDE DEF w
  <2>3. w = auth
    BY <2>1, <2>2, SeqEqual DEF Text
  <2> QED BY <2>3 DEF w
<1> QED BY <1>1, <1>3, <1>4, <1>5 DEF GetEncodedBase64Token

(* Credentials whose name has no colon come out of the parser as they went *)
(* into the token, whatever the password is.                               *)
THEOREM TokenRoundTrip ==
  ASSUME NEW u \in Text, NEW p \in Text, ~HasColon(u)
  PROVE  ParseBasicAuth(GetEncodedBase64Token(u, p))
           = [username |-> u, password |-> p, ok |-> TRUE]
<1> DEFINE t == GetEncodedBase64Token(u, p)
           f == FirstColon(t)
<1>1. /\ t \in Text /\ Len(t) = Len(u) + 1 + Len(p) /\ Len(u) \in Nat /\ Len(p) \in Nat
      /\ \A j \in 1..Len(u) : t[j] = u[j]
      /\ t[Len(u) + 1] = Colon
      /\ \A j \in 1..Len(p) : t[Len(u) + 1 + j] = p[j]
  BY ColonAssumption DEF Text, GetEncodedBase64Token
<1>2. HasColon(t)
  BY <1>1 DEF HasColon
<1>3. f \in 1..Len(t) /\ t[f] = Colon /\ \A j \in 1..f-1 : t[j] # Colon
  BY <1>1, <1>2, FirstColonAt
<1> HIDE DEF t, f
<1>4. f = Len(u) + 1
  BY <1>1, <1>3 DEF HasColon
<1>5. SubSeq(t, 1, f - 1) = u
  <2> DEFINE w == SubSeq(t, 1, f - 1)
  <2>1. w \in Text /\ Len(w) = Len(u) /\ \A j \in 1..Len(u) : w[j] = u[j]
    BY <1>1, <1>4 DEF Text
  <2> HIDE DEF w
  <2>2. w = u
    BY <2>1, SeqEqual DEF Text
  <2> QED BY <2>2 DEF w
<1>6. SubSeq(t, f + 1, Len(t)) = p
  <2> DEFINE w == SubSeq(t, f + 1, Len(t))
  <2>1. w \in Text /\ Len(w) = Len(p) /\ \A j \in 1..Len(p) : w[j] = p[j]
    BY <1>1, <1>4 DEF Text
  <2> HIDE DEF w
  <2>2. w = p
    BY <2>1, SeqEqual DEF Text
  <2> QED BY <2>2 DEF w
<1>7. ParseBasicAuth(t) = [username |-> u, password |-> p, ok |-> TRUE]
  BY <1>2, <1>5, <1>6 DEF ParseBasicAuth, f
<1> QED BY <1>7 DEF t

(* What bcrypt takes of a password is a key.                               *)
LEMMA KeyType == ASSUME NEW p \in Text PROVE Key(p) \in Keys
<1>1. p \in Seq(Characters) /\ Len(p) \in Nat
  BY DEF Text
<1>2. ASSUME NEW i \in 1..KeyLength
      PROVE  Append(p, Nul)[((i - 1) % (Len(p) + 1)) + 1] \in Characters \cup {Nul}
  <2> DEFINE j == (i - 1) % (Len(p) + 1)
  <2>1. i - 1 \in Nat /\ Len(p) + 1 \in Nat \ {0}
    BY <1>1, KeyLengthAssumption
  <2>2. j \in 0..Len(p)
    <3>1. \A m \in Nat, n \in Nat \ {0} : m % n \in 0..(n - 1)
      OBVIOUS
    <3>2. j \in 0..((Len(p) + 1) - 1)
      BY <2>1, <3>1
    <3>3. (Len(p) + 1) - 1 = Len(p)
      BY <1>1
    <3> QED BY <3>2, <3>3
  <2> HIDE DEF j
  <2>3. \A k \in 1..Len(p) + 1 : Append(p, Nul)[k] \in Characters \cup {Nul}
    BY <1>1
  <2>4. j + 1 \in 1..Len(p) + 1
    BY <1>1, <2>2
  <2>5. Append(p, Nul)[j + 1] \in Characters \cup {Nul}
    BY <2>3, <2>4
  <2> QED BY <2>5 DEF j
<1> QED BY <1>2 DEF Key, Keys

(* What a call looks up is text; and of a header that is known it is the   *)
(* name and the password that were reported.                               *)
LEMMA HeaderParsed ==
  ASSUME TypeOK, NEW auth \in Headers, ParseBasicAuth(auth).ok
  PROVE  /\ ParseBasicAuth(auth).username \in Text
         /\ ParseBasicAuth(auth).password \in Text
         /\ Known(auth) =>
              \E a \in told : /\ a.username = ParseBasicAuth(auth).username
                             /\ a.password = Key(ParseBasicAuth(auth).password)
<1>1. auth \in Text
  <2>1. ASSUME NEW u \in Usernames, NEW p \in Passwords
        PROVE  GetEncodedBase64Token(u, p) \in Text
    BY TextAssumption, ColonAssumption DEF GetEncodedBase64Token, Text
  <2> QED BY <2>1, TextAssumption DEF Headers
<1>2. ASSUME NEW a \in told, NEW p \in Passwords, ~HasColon(a.username),
             a.password = Key(p), auth = GetEncodedBase64Token(a.username, p)
      PROVE  /\ a.username = ParseBasicAuth(auth).username
             /\ a.password = Key(ParseBasicAuth(auth).password)
  <2>1. a.username \in Text /\ p \in Text
    BY TextAssumption DEF TypeOK, Credentials
  <2> QED BY <1>2, <2>1, TokenRoundTrip
<1> QED BY <1>1, <1>2, ParsedHeader DEF Known

-----------------------------------------------------------------------------
(* The invariant.                                                          *)

(* A call that waits in a statement has all that the statement needs.      *)
Filled ==
  \A c \in Calls :
    /\ calls[c].at # "idle" => calls[c].nick \in Nicks
    /\ calls[c].at = "insert" => /\ calls[c].username \in Usernames
                                 /\ calls[c].password \in Hashes

(* Credentials known when a call came in are those of an account.          *)
KnownIsAccount ==
  \A c \in Calls : calls[c].known =>
    \E r \in users : r.username = calls[c].username /\ r.password = calls[c].password

(* A call that waits in GetByUsername leaves nothing behind.               *)
LeftIsWrite == \A c \in Calls : calls[c].left => calls[c].at \in {"insert", "update"}

(* A registration that was reported done is in the table, with the         *)
(* password it gave.                                                       *)
RegisteredStays ==
  \A a \in told : \E r \in users : r.username = a.username /\ r.password = a.password

CallsOK == Filled /\ KnownIsAccount /\ LeftIsWrite /\ LetInAsOwner

IInv == TypeOK /\ AccountsUnique /\ RegisteredStays /\ CallsOK

(* Of every row all but the nick is kept.                                  *)
RowsKept ==
  \A r \in users : \E s \in users' :
    s.id = r.id /\ s.username = r.username /\ s.password = r.password

-----------------------------------------------------------------------------
(* Statements.                                                             *)

(* A successful INSERT adds a row of its own.                              *)
LEMMA InsertRow ==
  ASSUME TypeOK, AccountsUnique, NEW c \in Calls, Filled,
         calls[c].at = "insert", Result(calls[c]) = "row", Execute(calls[c])
  PROVE  users' \subseteq Row /\ AccountsUnique' /\ users \subseteq users'
         /\ \E r \in users' : r.username = calls[c].username /\ r.password = calls[c].password
<1>1. users' \in Inserted(calls[c])
  BY DEF Execute
<1>2. PICK i \in Ids \ {r.id : r \in users} :
        users' = users \cup {[id |-> i, username |-> calls[c].username,
                              password |-> calls[c].password, nick |-> calls[c].nick]}
  BY <1>1 DEF Inserted
<1>3. \A r \in users : r.username # calls[c].username /\ r.nick # calls[c].nick
  BY DEF Result, InsertSucceeds, Clashes
<1>4. [id |-> i, username |-> calls[c].username, password |-> calls[c].password,
       nick |-> calls[c].nick] \in Row
  BY DEF Row, Filled
<1>5. \A r \in users : r.id # i
  BY <1>2
<1> QED BY <1>2, <1>3, <1>4, <1>5 DEF TypeOK, AccountsUnique

(* A successful UPDATE changes the nick of one row to one no row has.      *)
LEMMA UpdateRow ==
  ASSUME TypeOK, AccountsUnique, NEW c \in Calls, Filled,
         calls[c].at = "update", Result(calls[c]) = "row", Execute(calls[c])
  PROVE  users' \subseteq Row /\ AccountsUnique' /\ RowsKept
         /\ users' = Renamed(calls[c]) /\ Done(calls[c], users')
<1> DEFINE New(r) == IF r.id = calls[c].id THEN [r EXCEPT !.nick = calls[c].nick] ELSE r
<1>1. users' = {New(r) : r \in users}
  BY DEF Execute, Renamed
<1>2. /\ \E r \in users : r.id = calls[c].id
      /\ \A r \in users : r.nick = calls[c].nick => r.id = calls[c].id
  BY DEF Result
<1>3. \A r \in users :
        /\ New(r) \in Row /\ New(r).id = r.id
        /\ New(r).username = r.username /\ New(r).password = r.password
        /\ New(r).nick = IF r.id = calls[c].id THEN calls[c].nick ELSE r.nick
  BY DEF TypeOK, Row, Filled
<1> HIDE DEF New
<1>4. users' \subseteq Row
  BY <1>1, <1>3
<1>5. AccountsUnique'
  <2> SUFFICES ASSUME NEW r \in users, NEW s \in users,
                      \/ New(r).id = New(s).id
                      \/ New(r).username = New(s).username
                      \/ New(r).nick = New(s).nick
               PROVE  r = s
    BY <1>1 DEF AccountsUnique
  <2>1. r.id = s.id \/ r.username = s.username \/ r.nick = s.nick
    BY <1>2, <1>3
  <2> QED BY <2>1 DEF AccountsUnique
<1>6. RowsKept
  BY <1>1, <1>3 DEF RowsKept
<1>7. Done(calls[c], users')
  BY <1>1, <1>2, <1>3 DEF Done
<1> QED BY <1>4, <1>5, <1>6, <1>7 DEF Execute

(* Whatever a statement comes to, the table stays well formed and keeps    *)
(* its accounts.                                                           *)
LEMMA ExecuteTable ==
  ASSUME TypeOK, AccountsUnique, NEW c \in Calls, Filled,
         calls[c].at \in {"insert", "update"}, Execute(calls[c])
  PROVE  users' \subseteq Row /\ AccountsUnique' /\ RowsKept
<1>1. CASE Result(calls[c]) # "row"
  BY <1>1 DEF Execute, TypeOK, AccountsUnique, RowsKept
<1>2. CASE Result(calls[c]) = "row" /\ calls[c].at = "insert"
  BY <1>2, InsertRow DEF RowsKept
<1>3. CASE Result(calls[c]) = "row" /\ calls[c].at = "update"
  BY <1>3, UpdateRow
<1> QED BY <1>1, <1>2, <1>3

(* So does every step.                                                     *)
LEMMA StepTable ==
  ASSUME IInv, [Next]_vars
  PROVE  users' \subseteq Row /\ AccountsUnique' /\ RowsKept
<1>1. CASE UNCHANGED users
  BY <1>1 DEF IInv, TypeOK, AccountsUnique, RowsKept
<1>2. ASSUME NEW c \in Calls, Finish(c)
      PROVE  users' \subseteq Row /\ AccountsUnique' /\ RowsKept
  BY <1>2, ExecuteTable DEF Finish, IInv, CallsOK
<1>3. ASSUME NEW c \in Calls, Late(c), Execute(calls[c])
      PROVE  users' \subseteq Row /\ AccountsUnique' /\ RowsKept
  BY <1>3, ExecuteTable DEF Late, IInv, CallsOK, LeftIsWrite
<1> QED BY <1>1, <1>2, <1>3 DEF Next, vars, HandleRegister, Login, GetByUsername, Fail, Late, Crash

-----------------------------------------------------------------------------
(* Calls.                                                                  *)

(* A call that has ended satisfies all that is said of calls.              *)
LEMMA EndedCall ==
  ASSUME NEW r \in Replies
  PROVE  /\ Ended(r) \in Call
         /\ Ended(r).at = "idle" /\ ~Ended(r).known /\ ~Ended(r).left /\ Ended(r).reply = r
<1>1. <<>> \in Text
  BY DEF Text
<1> QED BY <1>1 DEF Ended, Call, Apis, Statements

(* Every answer is one of the replies.                                     *)
LEMMA ReplyType == ASSUME NEW q, NEW res PROVE StatementReply(q, res) \in Replies
  BY DEF StatementReply, CreateReply, UpdateReply, LoginReply, Replies

(* What a step makes of one call: nothing, a fresh one, one let in, one    *)
(* given up, or one that has ended.                                        *)
CallStep(c) ==
  \/ calls'[c] = calls[c]
  \/ \E r \in Replies : calls'[c] = Ended(r)
  \/ \E r \in Replies : /\ calls[c].at \in {"insert", "update"}
                        /\ calls'[c] = [calls[c] EXCEPT !.left = TRUE, !.reply = r]
  \/ \E at \in {"insert", "select"}, api \in Apis, u \in Text, p \in Keys,
        n \in Nicks, k \in BOOLEAN :
       /\ at = "insert" => u \in Usernames /\ p \in Hashes
       /\ calls'[c] = [at |-> at, left |-> FALSE, api |-> api, id |-> NoId, username |-> u,
                       password |-> p, nick |-> n, known |-> k, reply |-> "none"]
       /\ k => \E a \in told : a.username = u /\ a.password = p
  \/ \E r \in users :
       /\ calls[c].at = "select"
       /\ r.username = calls[c].username /\ r.password = calls[c].password
       /\ calls'[c] = [calls[c] EXCEPT !.at = "update", !.id = r.id, !.known = FALSE]

(* Every step treats every call in one of these ways.                      *)
LEMMA CallSteps ==
  ASSUME IInv, [Next]_vars
  PROVE  DOMAIN calls' = Calls /\ \A c \in Calls : CallStep(c)
<1> USE DEF IInv, TypeOK
<1>1. CASE UNCHANGED vars
  BY <1>1 DEF vars, CallStep
<1>2. CASE Crash
  BY <1>2 DEF Crash, CallStep, Replies
<1>3. ASSUME NEW d \in Calls,
             \/ HandleRegister(d) \/ Login(d) \/ GetByUsername(d)
             \/ Finish(d) \/ Fail(d) \/ Late(d)
      PROVE  DOMAIN calls' = Calls /\ \A c \in Calls : CallStep(c)
  <2>1. ASSUME NEW r \in Replies, Answer(d, r)
        PROVE  DOMAIN calls' = Calls /\ \A c \in Calls : CallStep(c)
    BY <2>1 DEF Answer, CallStep
  <2>2. ASSUME NEW res, Reply(d, res), calls[d].at # "idle"
        PROVE  DOMAIN calls' = Calls /\ \A c \in Calls : CallStep(c)
    <3>1. StatementReply(calls[d], res) \in Replies
      BY ReplyType
    <3>2. res = "lost" /\ calls[d].at # "select" => calls[d].at \in {"insert", "update"}
      BY <2>2 DEF Call, Statements
    <3> QED BY <2>2, <3>1, <3>2 DEF Reply, CallStep
  <2>3. CASE HandleRegister(d)
    <3>1. PICK api \in Apis, n \in Nicks, u \in Usernames \cup {<<>>},
               p \in Passwords \cup {<<>>} :
            IF FieldMissing(u, p) THEN Answer(d, "invalid")
            ELSE \/ Answer(d, "internal")
                 \/ ~TooLong(p) /\ Open(d, "insert", api, u, Key(p), n, FALSE)
      BY <2>3 DEF HandleRegister
    <3>2. CASE Answer(d, "invalid") \/ Answer(d, "internal")
      BY <3>2, <2>1 DEF Replies
    <3>3. CASE u \in Usernames /\ p \in Passwords /\ Open(d, "insert", api, u, Key(p), n, FALSE)
      <4>1. u \in Text /\ Key(p) \in Keys /\ Key(p) \in Hashes
        BY <3>3, TextAssumption, KeyType DEF Hashes
      <4>2. PICK h \in Keys : h = Key(p)
        BY <4>1
      <4> QED BY <3>3, <4>1, <4>2 DEF Open, CallStep
    <3> QED BY <3>1, <3>2, <3>3 DEF FieldMissing
  <2>4. CASE Login(d)
    <3>1. CASE Answer(d, "refused")
      BY <3>1, <2>1 DEF Replies
    <3>2. ASSUME NEW auth \in Headers, NEW api \in Apis, NEW n \in Nicks,
                 ParseBasicAuth(auth).ok,
                 Open(d, "select", api, ParseBasicAuth(auth).username,
                      Key(ParseBasicAuth(auth).password), n, Known(auth))
          PROVE  DOMAIN calls' = Calls /\ \A c \in Calls : CallStep(c)
      <4> DEFINE k == Known(auth)
                 u == ParseBasicAuth(auth).username
                 p == Key(ParseBasicAuth(auth).password)
      <4>1. /\ u \in Text /\ p \in Keys /\ k \in BOOLEAN
            /\ k => \E a \in told : a.username = u /\ a.password = p
        BY <3>2, HeaderParsed, KeyType DEF Known
      <4>2. Open(d, "select", api, u, p, n, k)
        BY <3>2
      <4> HIDE DEF k, u, p
      <4> QED BY <4>1, <4>2 DEF Open, CallStep
    <3> QED BY <2>4, <3>1, <3>2 DEF Login
  <2>5. CASE GetByUsername(d)
    <3>1. CASE \E r \in Replies : Answer(d, r)
      BY <3>1, <2>1
    <3>2. ASSUME NEW r \in users, r.username = calls[d].username, PasswordOk(calls[d], r),
                 calls' = [calls EXCEPT ![d].at = "update", ![d].id = r.id, ![d].known = FALSE]
          PROVE  DOMAIN calls' = Calls /\ \A c \in Calls : CallStep(c)
      BY <2>5, <3>2 DEF GetByUsername, PasswordOk, CallStep
    <3> QED BY <2>5, <3>1, <3>2 DEF GetByUsername, LoginReply, Replies
  <2>6. CASE Finish(d)
    BY <2>6, <2>2 DEF Finish
  <2>7. CASE Fail(d)
    BY <2>7, <2>2 DEF Fail
  <2>8. CASE Late(d)
    BY <2>8, <2>1 DEF Late, Replies
  <2> QED BY <1>3, <2>3, <2>4, <2>5, <2>6, <2>7, <2>8
<1> QED BY <1>1, <1>2, <1>3 DEF Next

(* A call that a step leaves, opens, lets in or ends is well formed.       *)
LEMMA CallWellFormed ==
  ASSUME IInv, [Next]_vars, NEW c \in Calls
  PROVE  /\ calls'[c] \in Call
         /\ calls'[c].at # "idle" => calls'[c].nick \in Nicks
         /\ calls'[c].at = "insert" => /\ calls'[c].username \in Usernames
                                       /\ calls'[c].password \in Hashes
         /\ calls'[c].left => calls'[c].at \in {"insert", "update"}
         /\ calls'[c].known =>
              \E r \in users' : /\ r.username = calls'[c].username
                               /\ r.password = calls'[c].password
         /\ calls'[c].at = "update" =>
              \E r \in users' : /\ r.id = calls'[c].id
                               /\ r.username = calls'[c].username
                               /\ r.password = calls'[c].password
<1> DEFINE q == calls[c]
<1>1. /\ q \in Call
      /\ q.at # "idle" => q.nick \in Nicks
      /\ q.at = "insert" => q.username \in Usernames /\ q.password \in Hashes
      /\ q.left => q.at \in {"insert", "update"}
      /\ q.known => \E r \in users : r.username = q.username /\ r.password = q.password
      /\ q.at = "update" => \E r \in users : /\ r.id = q.id
                                            /\ r.username = q.username
                                            /\ r.password = q.password
  BY DEF IInv, TypeOK, CallsOK, Filled, LeftIsWrite, KnownIsAccount, LetInAsOwner
<1>2. RowsKept
  BY StepTable
<1>3. CallStep(c)
  BY CallSteps
<1>4. CASE calls'[c] = q
  BY <1>1, <1>2, <1>4 DEF RowsKept
<1>5. CASE \E r \in Replies : calls'[c] = Ended(r)
  BY <1>5, EndedCall
<1>6. ASSUME NEW r \in Replies, q.at \in {"insert", "update"},
             calls'[c] = [q EXCEPT !.left = TRUE, !.reply = r]
      PROVE  /\ calls'[c] \in Call /\ calls'[c].at = q.at /\ calls'[c].id = q.id
             /\ calls'[c].username = q.username /\ calls'[c].password = q.password
             /\ calls'[c].nick = q.nick /\ calls'[c].known = q.known
  BY <1>1, <1>6 DEF Call
<1>7. ASSUME NEW r \in users, q.at = "select",
             r.username = q.username, r.password = q.password,
             calls'[c] = [q EXCEPT !.at = "update", !.id = r.id, !.known = FALSE]
      PROVE  /\ calls'[c] \in Call /\ calls'[c].at = "update" /\ calls'[c].id = r.id
             /\ calls'[c].username = q.username /\ calls'[c].password = q.password
             /\ calls'[c].nick = q.nick /\ ~calls'[c].known /\ calls'[c].left = q.left
  BY <1>1, <1>7 DEF Call, Statements, IInv, TypeOK, Row
<1>8. CASE \E r \in Replies : /\ q.at \in {"insert", "update"}
                              /\ calls'[c] = [q EXCEPT !.left = TRUE, !.reply = r]
  <2>1. /\ calls'[c] \in Call /\ calls'[c].at = q.at /\ calls'[c].id = q.id
        /\ calls'[c].username = q.username /\ calls'[c].password = q.password
        /\ calls'[c].nick = q.nick /\ calls'[c].known = q.known
    BY <1>6, <1>8
  <2> HIDE DEF q
  <2> QED BY <1>1, <1>2, <1>8, <2>1 DEF RowsKept
<1>9. CASE \E r \in users :
              /\ q.at = "select" /\ r.username = q.username /\ r.password = q.password
              /\ calls'[c] = [q EXCEPT !.at = "update", !.id = r.id, !.known = FALSE]
  <2>1. PICK r \in users :
              /\ q.at = "select" /\ r.username = q.username /\ r.password = q.password
              /\ calls'[c] = [q EXCEPT !.at = "update", !.id = r.id, !.known = FALSE]
    BY <1>9
  <2>2. /\ calls'[c] \in Call /\ calls'[c].at = "update" /\ calls'[c].id = r.id
        /\ calls'[c].username = q.username /\ calls'[c].password = q.password
        /\ calls'[c].nick = q.nick /\ ~calls'[c].known /\ calls'[c].left = q.left
    BY <1>7, <2>1
  <2> HIDE DEF q
  <2> QED BY <1>1, <1>2, <2>1, <2>2 DEF RowsKept
<1>10. CASE \E at \in {"insert", "select"}, api \in Apis, u \in Text, p \in Keys,
               n \in Nicks, k \in BOOLEAN :
              /\ at = "insert" => u \in Usernames /\ p \in Hashes
              /\ calls'[c] = [at |-> at, left |-> FALSE, api |-> api, id |-> NoId, username |-> u,
                              password |-> p, nick |-> n, known |-> k, reply |-> "none"]
              /\ k => \E a \in told : a.username = u /\ a.password = p
  <2>0. PICK at \in {"insert", "select"}, api \in Apis, u \in Text, p \in Keys,
             n \in Nicks, k \in BOOLEAN :
              /\ at = "insert" => u \in Usernames /\ p \in Hashes
              /\ calls'[c] = [at |-> at, left |-> FALSE, api |-> api, id |-> NoId, username |-> u,
                              password |-> p, nick |-> n, known |-> k, reply |-> "none"]
              /\ k => \E a \in told : a.username = u /\ a.password = p
    BY <1>10
  <2>1. /\ calls'[c] \in Call
        /\ calls'[c].at # "update" /\ ~calls'[c].left
        /\ calls'[c].at = "insert" => /\ calls'[c].username \in Usernames
                                      /\ calls'[c].password \in Hashes
        /\ calls'[c].nick \in Nicks
        /\ calls'[c].known =>
             \E r \in users : /\ r.username = calls'[c].username
                             /\ r.password = calls'[c].password
    BY <2>0 DEF Call, Statements, Replies, IInv, RegisteredStays
  <2> QED BY <1>2, <2>1 DEF RowsKept
<1> QED BY <1>3, <1>4, <1>5, <1>8, <1>9, <1>10 DEF CallStep

(* Calls stay well formed: what they carry is complete, what they know of  *)
(* accounts is true.                                                       *)
LEMMA StepCalls ==
  ASSUME IInv, [Next]_vars
  PROVE  calls' \in [Calls -> Call] /\ CallsOK'
<1>1. Filled' /\ LeftIsWrite' /\ KnownIsAccount' /\ LetInAsOwner'
  BY CallWellFormed DEF Filled, LeftIsWrite, KnownIsAccount, LetInAsOwner
<1>2. calls' \in [Calls -> Call]
  <2>1. CASE UNCHANGED vars
    BY <2>1 DEF vars, IInv, TypeOK
  <2>2. calls' = [c \in Calls |-> calls'[c]]
    <3>1. CASE UNCHANGED vars
      BY <2>1, <3>1
    <3>2. CASE Crash
      BY <3>2 DEF Crash
    <3>3. ASSUME NEW d \in Calls, HandleRegister(d) \/ Login(d) \/ GetByUsername(d)
          PROVE  calls' = [c \in Calls |-> calls'[c]]
      BY <3>3 DEF HandleRegister, Login, GetByUsername, Answer, Open, IInv, TypeOK
    <3>4. ASSUME NEW d \in Calls, Finish(d) \/ Fail(d) \/ Late(d)
          PROVE  calls' = [c \in Calls |-> calls'[c]]
      BY <3>4 DEF Finish, Fail, Late, Reply, Answer, IInv, TypeOK
    <3> QED BY <3>1, <3>2, <3>3, <3>4 DEF Next
  <2> QED BY <2>2, CallWellFormed
<1> QED BY <1>1, <1>2 DEF CallsOK

-----------------------------------------------------------------------------
(* Reports.                                                                *)

(* What is reported done has been inserted, and stays.                     *)
LEMMA StepTold ==
  ASSUME IInv, [Next]_vars
  PROVE  told' \subseteq Credentials /\ RegisteredStays'
<1>1. RowsKept
  BY StepTable
<1>2. CASE UNCHANGED told
  BY <1>1, <1>2 DEF IInv, TypeOK, RegisteredStays, RowsKept
<1>3. ASSUME NEW c \in Calls, Finish(c), told' # told
      PROVE  told' \subseteq Credentials /\ RegisteredStays'
  <2>1. /\ calls[c].at = "insert" /\ Result(calls[c]) = "row" /\ Execute(calls[c])
        /\ told' = told \cup {[username |-> calls[c].username, password |-> calls[c].password]}
    BY <1>3 DEF Finish, Reply, StatementReply, CreateReply
  <2>2. \E r \in users' : r.username = calls[c].username /\ r.password = calls[c].password
    BY <2>1, InsertRow DEF IInv, CallsOK
  <2>3. told' \subseteq Credentials
    BY <2>1 DEF IInv, TypeOK, CallsOK, Filled, Credentials
  <2> QED BY <1>1, <2>1, <2>2, <2>3 DEF IInv, RegisteredStays, RowsKept
<1>4. ASSUME NEW c \in Calls, Fail(c)
      PROVE  UNCHANGED told
  BY <1>4 DEF Fail, Reply, StatementReply, CreateReply
<1> QED BY <1>2, <1>3, <1>4 DEF Next, vars, HandleRegister, Login, GetByUsername, Late, Crash

-----------------------------------------------------------------------------
(* Theorems.                                                               *)

(* The invariant holds at first.                                           *)
LEMMA InitInv == Init => IInv
  BY EndedCall DEF Init, IInv, TypeOK, AccountsUnique, RegisteredStays, CallsOK, Filled,
     KnownIsAccount, LeftIsWrite, LetInAsOwner, Replies

(* Every step keeps it.                                                    *)
LEMMA StepInv == IInv /\ [Next]_vars => IInv'
  BY StepTable, StepCalls, StepTold DEF IInv, TypeOK

(* The invariant of the accounts holds throughout.                         *)
THEOREM Invariance == Spec => []IInv
  BY InitInv, StepInv, PTL DEF Spec

(* Rows, requests and reports always have their types.                     *)
THEOREM ProfilesTypeCorrect == Spec => []TypeOK
  BY Invariance, PTL DEF IInv

(* No two accounts ever share an id, a username or a nick, however calls   *)
(* race and however late their statements come.                            *)
THEOREM AccountsAlwaysUnique == Spec => []AccountsUnique
  BY Invariance, PTL DEF IInv

(* A registration reported done stays done.                                *)
THEOREM RegistrationsStay == Spec => []RegisteredStays
  BY Invariance, PTL DEF IInv

(* A call let in acts on the account whose credentials it presented.       *)
THEOREM LetInAlwaysOwner == Spec => []LetInAsOwner
  BY Invariance, PTL DEF IInv, CallsOK

(* Only a call with the owner's credentials has a nick changed.            *)
LEMMA StepRenames ==
  ASSUME IInv, [Next]_vars, NEW r \in users
  PROVE  \E s \in users' :
           /\ s = [r EXCEPT !.nick = s.nick]
           /\ \/ s = r
              \/ \E c \in Calls : /\ calls[c].at = "update"
                                  /\ calls[c].nick = s.nick
                                  /\ calls[c].username = r.username
                                  /\ calls[c].password = r.password
<1> DEFINE Goal == \E s \in users' :
                     /\ s = [r EXCEPT !.nick = s.nick]
                     /\ \/ s = r
                        \/ \E c \in Calls : /\ calls[c].at = "update"
                                            /\ calls[c].nick = s.nick
                                            /\ calls[c].username = r.username
                                            /\ calls[c].password = r.password
<1>1. r \in Row /\ r = [r EXCEPT !.nick = r.nick]
  BY DEF IInv, TypeOK, Row
<1>2. CASE r \in users'
  BY <1>1, <1>2
<1>3. ASSUME NEW c \in Calls, calls[c].at \in {"insert", "update"}, Execute(calls[c]),
             r \notin users'
      PROVE  Goal
  <2>1. calls[c].at = "update" /\ Result(calls[c]) = "row"
    BY <1>3, InsertRow DEF Execute, IInv, CallsOK
  <2>2. users' = Renamed(calls[c])
    BY <2>1, UpdateRow, <1>3 DEF IInv, CallsOK
  <2>3. r.id = calls[c].id
    BY <1>3, <2>2 DEF Renamed
  <2>4. r.username = calls[c].username /\ r.password = calls[c].password
    BY <2>1, <2>3 DEF IInv, CallsOK, LetInAsOwner, AccountsUnique
  <2>5. [r EXCEPT !.nick = calls[c].nick] \in users'
    BY <2>2, <2>3 DEF Renamed
  <2>6. [r EXCEPT !.nick = calls[c].nick].nick = calls[c].nick
    BY <1>1 DEF Row
  <2> QED BY <2>1, <2>4, <2>5, <2>6
<1>4. users' = users \/ \E c \in Calls : calls[c].at \in {"insert", "update"} /\ Execute(calls[c])
  BY DEF Next, vars, HandleRegister, Login, GetByUsername, Finish, Fail, Late, Crash, IInv,
     CallsOK, LeftIsWrite
<1> QED BY <1>2, <1>3, <1>4

(* Nicks change at their owner's request only, and no account goes.        *)
THEOREM OwnersRename == Spec => OnlyOwnerRenames
<1>1. IInv /\ [Next]_vars =>
        [\A r \in users : \E s \in users' :
           /\ s = [r EXCEPT !.nick = s.nick]
           /\ \/ s = r
              \/ \E c \in Calls : /\ calls[c].at = "update"
                                  /\ calls[c].nick = s.nick
                                  /\ calls[c].username = r.username
                                  /\ calls[c].password = r.password]_vars
  BY StepRenames
<1> QED BY <1>1, Invariance, PTL DEF Spec, OnlyOwnerRenames

-----------------------------------------------------------------------------
(* Replies.                                                                *)

(* A call that waits in GetByUsername has not been answered.               *)
SelectsUnanswered == \A c \in Calls : calls[c].at = "select" => calls[c].reply = "none"

LEMMA InitUnanswered == Init => SelectsUnanswered
  BY EndedCall DEF Init, SelectsUnanswered, Replies

LEMMA StepUnanswered ==
  ASSUME IInv, SelectsUnanswered, [Next]_vars
  PROVE  SelectsUnanswered'
<1> SUFFICES ASSUME NEW c \in Calls, calls'[c].at = "select" PROVE calls'[c].reply = "none"
  BY DEF SelectsUnanswered
<1>1. CallStep(c) /\ calls[c] \in Call
  BY CallSteps DEF IInv, TypeOK
<1>2. CASE calls'[c] = calls[c]
  BY <1>2 DEF SelectsUnanswered
<1>3. CASE \E r \in Replies : calls'[c] = Ended(r)
  BY <1>3, EndedCall
<1>4. CASE \E r \in Replies : /\ calls[c].at \in {"insert", "update"}
                              /\ calls'[c] = [calls[c] EXCEPT !.left = TRUE, !.reply = r]
  BY <1>1, <1>4 DEF Call
<1>5. CASE \E r \in users :
             /\ calls[c].at = "select"
             /\ r.username = calls[c].username /\ r.password = calls[c].password
             /\ calls'[c] = [calls[c] EXCEPT !.at = "update", !.id = r.id, !.known = FALSE]
  BY <1>1, <1>5 DEF Call
<1>6. CASE \E at \in {"insert", "select"}, api \in Apis, u \in Text, p \in Keys,
              n \in Nicks, k \in BOOLEAN :
             /\ at = "insert" => u \in Usernames /\ p \in Hashes
             /\ calls'[c] = [at |-> at, left |-> FALSE, api |-> api, id |-> NoId, username |-> u,
                             password |-> p, nick |-> n, known |-> k, reply |-> "none"]
             /\ k => \E a \in told : a.username = u /\ a.password = p
  BY <1>6
<1> QED BY <1>1, <1>2, <1>3, <1>4, <1>5, <1>6 DEF CallStep

(* Only its own steps and a crash change a call.                           *)
LEMMA OwnStep ==
  ASSUME IInv, [Next]_vars, NEW c \in Calls, calls'[c] # calls[c]
  PROVE  \/ HandleRegister(c) \/ Login(c) \/ GetByUsername(c) \/ Finish(c) \/ Fail(c) \/ Late(c)
         \/ Crash
<1>1. ASSUME NEW d \in Calls,
             \/ HandleRegister(d) \/ Login(d) \/ GetByUsername(d)
             \/ Finish(d) \/ Fail(d) \/ Late(d)
      PROVE  d = c
  BY <1>1 DEF HandleRegister, Login, GetByUsername, Finish, Fail, Late, Answer, Open, Reply, IInv, TypeOK
<1> QED BY <1>1 DEF Next, vars

LEMMA StepDone ==
  ASSUME IInv, [Next]_vars, NEW c \in Calls,
         calls[c].at = "update", calls'[c].at = "idle", calls'[c].reply = "ok"
  PROVE  Done(calls[c], users')
<1>1. calls[c] \in Call /\ calls \in [Calls -> Call]
  BY DEF IInv, TypeOK
<1>2. ~HandleRegister(c) /\ ~Login(c) /\ ~GetByUsername(c)
  BY DEF HandleRegister, Login, GetByUsername
<1>3. ~Late(c)
  BY <1>1, EndedCall DEF Late, Answer, Replies
<1>4. ~Crash
  <2>1. Crash => calls'[c] = [calls[c] EXCEPT !.left = TRUE, !.reply = "none"]
    BY DEF Crash
  <2> QED BY <1>1, <2>1 DEF Call
<1>5. ASSUME Fail(c) PROVE FALSE
  <2>1. PICK res \in {"pgerror", "lost"} : Reply(c, res)
    BY <1>5 DEF Fail
  <2>2. CASE res = "lost"
    BY <1>1, <2>1, <2>2 DEF Reply, Call
  <2>3. CASE res = "pgerror"
    <3>1. StatementReply(calls[c], res) = "internal"
      BY <2>3 DEF StatementReply, UpdateReply
    <3>2. calls'[c] = Ended("internal")
      BY <1>1, <2>1, <2>3, <3>1 DEF Reply
    <3> QED BY <3>2, EndedCall DEF Replies
  <2> QED BY <2>2, <2>3
<1>6. CASE Finish(c)
  <2>1. Execute(calls[c]) /\ Reply(c, Result(calls[c])) /\ Result(calls[c]) \in {"row", "unique", "none"}
    BY <1>6 DEF Finish, Result
  <2>2. calls'[c] = Ended(StatementReply(calls[c], Result(calls[c])))
    BY <1>1, <2>1 DEF Reply
  <2>3. StatementReply(calls[c], Result(calls[c])) = "ok"
    BY <2>2, ReplyType, EndedCall
  <2>4. Result(calls[c]) = "row"
    BY <2>1, <2>3 DEF StatementReply, UpdateReply
  <2> QED BY <2>1, <2>4, UpdateRow DEF IInv, CallsOK
<1> QED BY <1>2, <1>3, <1>4, <1>5, <1>6, OwnStep

(* An update that Postgres answered and that is reported done, is done.    *)
THEOREM AnsweredUpdatesDone == Spec => AnsweredUpdateDone
<1>1. IInv /\ [Next]_vars =>
        [\A c \in Calls :
           calls[c].at = "update" /\ calls'[c].at = "idle" /\ calls'[c].reply = "ok"
           => Done(calls[c], users')]_vars
  BY StepDone
<1> QED BY <1>1, Invariance, PTL DEF Spec, AnsweredUpdateDone

LEMMA StepRefusal ==
  ASSUME IInv, SelectsUnanswered, [Next]_vars, NEW c \in Calls,
         calls[c].at = "select", calls[c].api = "grpc", calls'[c].reply = "refused"
  PROVE  ~calls[c].known
<1> DEFINE q == calls[c]
<1>1. q \in Call /\ calls \in [Calls -> Call] /\ q.reply = "none"
  BY DEF IInv, TypeOK, SelectsUnanswered
<1>2. ~HandleRegister(c) /\ ~Login(c) /\ ~Finish(c)
  BY DEF HandleRegister, Login, Finish
<1>3. ~Late(c) /\ ~Crash
  BY <1>1, EndedCall DEF Late, Answer, Crash, Replies
<1>4. ASSUME Fail(c) PROVE FALSE
  <2>1. PICK res \in {"pgerror", "lost"} : Reply(c, res)
    BY <1>4 DEF Fail
  <2>2. StatementReply(q, res) = "internal"
    BY <2>1 DEF StatementReply, LoginReply
  <2>3. calls'[c] = Ended("internal")
    BY <1>1, <2>1, <2>2 DEF Reply
  <2> QED BY <2>3, EndedCall DEF Replies
<1>5. ASSUME GetByUsername(c), q.known PROVE FALSE
  <2>1. PICK s \in users : s.username = q.username /\ s.password = q.password
    BY <1>5 DEF IInv, CallsOK, KnownIsAccount
  <2>2. Result(q) # "none"
    BY <2>1 DEF Result
  <2>3. PICK r \in users :
          /\ r.username = q.username
          /\ IF PasswordOk(q, r)
             THEN \/ q.api = "http" /\ Answer(c, "invalid")
                  \/ calls' = [calls EXCEPT ![c].at = "update", ![c].id = r.id,
                                            ![c].known = FALSE]
             ELSE Answer(c, LoginReply(q.api, "wrong"))
    BY <1>5, <2>2 DEF GetByUsername
  <2>4. r = s
    BY <2>1, <2>3 DEF IInv, AccountsUnique
  <2>5. calls' = [calls EXCEPT ![c].at = "update", ![c].id = r.id, ![c].known = FALSE]
    BY <2>1, <2>3, <2>4 DEF PasswordOk
  <2>6. calls'[c].reply = "none"
    BY <1>1, <2>5 DEF Call
  <2> QED BY <2>6
<1> QED BY <1>1, <1>2, <1>3, <1>4, <1>5, OwnStep

(* gRPC refuses only credentials that were not known: an error of the      *)
(* database is told from a wrong password.                                 *)
THEOREM GrpcRefusalsTrue == Spec => GrpcRefusalIsTrue
<1>1. IInv /\ SelectsUnanswered /\ [Next]_vars => SelectsUnanswered'
  BY StepUnanswered
<1>2. Spec => []SelectsUnanswered
  BY <1>1, InitUnanswered, Invariance, PTL DEF Spec
<1>3. IInv /\ SelectsUnanswered /\ [Next]_vars =>
        [\A c \in Calls :
           calls[c].at = "select" /\ calls[c].api = "grpc" /\ calls'[c].reply = "refused"
           => ~calls[c].known]_vars
  BY StepRefusal
<1> QED BY <1>2, <1>3, Invariance, PTL DEF Spec, GrpcRefusalIsTrue

-----------------------------------------------------------------------------
(* Accounts.                                                               *)

(* The wishes stay as they are when the same calls wait for the same       *)
(* updates.                                                                *)
LEMMA WishesKept ==
  ASSUME \A c \in Calls : /\ calls'[c].at = "update" <=> calls[c].at = "update"
                          /\ calls[c].at = "update" => WishOf(calls'[c]) = WishOf(calls[c])
  PROVE  Wishes' = Wishes
<1>1. ASSUME NEW w PROVE w \in Wishes' <=> w \in Wishes
  <2>1. w \in Wishes <=> \E c \in Calls : calls[c].at = "update" /\ w = WishOf(calls[c])
    BY DEF Wishes
  <2>2. w \in Wishes' <=> \E c \in Calls : calls'[c].at = "update" /\ w = WishOf(calls'[c])
    BY DEF Wishes, WishOf
  <2> QED BY <2>1, <2>2
<1> QED BY <1>1

(* When a call's update ends its wish goes, unless another call has the    *)
(* same.                                                                   *)
LEMMA WishEnded ==
  ASSUME NEW c \in Calls, calls[c].at = "update", calls'[c].at # "update",
         \A d \in Calls \ {c} : calls'[d] = calls[d]
  PROVE  /\ WishOf(calls[c]) \in Wishes
         /\ Wishes' \in {Wishes, Wishes \ {WishOf(calls[c])}}
<1>1. \A w : w \in Wishes <=> \E d \in Calls : calls[d].at = "update" /\ w = WishOf(calls[d])
  BY DEF Wishes
<1>2. \A w : w \in Wishes' <=> \E d \in Calls : calls'[d].at = "update" /\ w = WishOf(calls'[d])
  BY DEF Wishes, WishOf
<1>3. \A w : w \in Wishes' <=>
        \E d \in Calls \ {c} : calls[d].at = "update" /\ w = WishOf(calls[d])
  BY <1>2 DEF WishOf
<1>4. CASE WishOf(calls[c]) \in Wishes'
  <2>1. \A w : w \in Wishes' <=> w \in Wishes
    BY <1>1, <1>3, <1>4
  <2> QED BY <1>1, <2>1
<1>5. CASE WishOf(calls[c]) \notin Wishes'
  <2>1. \A w : w \in Wishes' <=> w \in Wishes \ {WishOf(calls[c])}
    BY <1>1, <1>3, <1>5
  <2> QED BY <1>1, <2>1
<1> QED BY <1>4, <1>5

(* A call that comes to its update adds its wish.                          *)
LEMMA WishMade ==
  ASSUME NEW c \in Calls, calls[c].at # "update", calls'[c].at = "update",
         \A d \in Calls \ {c} : calls'[d] = calls[d]
  PROVE  Wishes' = Wishes \cup {WishOf(calls'[c])}
<1>1. \A w : w \in Wishes <=> \E d \in Calls : calls[d].at = "update" /\ w = WishOf(calls[d])
  BY DEF Wishes
<1>2. \A w : w \in Wishes' <=> \E d \in Calls : calls'[d].at = "update" /\ w = WishOf(calls'[d])
  BY DEF Wishes, WishOf
<1>3. \A w : w \in Wishes' <=>
        \/ w = WishOf(calls'[c])
        \/ \E d \in Calls \ {c} : calls[d].at = "update" /\ w = WishOf(calls[d])
  BY <1>2 DEF WishOf
<1>4. \A w : w \in Wishes' <=> w \in Wishes \cup {WishOf(calls'[c])}
  BY <1>1, <1>3
<1> QED BY <1>4

(* A call that is answered and forgotten.                                  *)
LEMMA AnsweredWish ==
  ASSUME IInv, NEW c \in Calls, NEW r \in Replies, calls' = [calls EXCEPT ![c] = Ended(r)]
  PROVE  IF calls[c].at = "update"
         THEN /\ WishOf(calls[c]) \in Wishes
              /\ Wishes' \in {Wishes, Wishes \ {WishOf(calls[c])}}
         ELSE Wishes' = Wishes
<1>1. /\ calls'[c].at = "idle"
      /\ \A d \in Calls \ {c} : calls'[d] = calls[d]
  BY EndedCall DEF IInv, TypeOK
<1>2. CASE calls[c].at = "update"
  BY <1>1, <1>2, WishEnded
<1>3. CASE calls[c].at # "update"
  BY <1>1, <1>3, WishesKept
<1> QED BY <1>2, <1>3

(* A wish may go at any time.                                              *)
LEMMA WishDropped ==
  ASSUME IInv, NEW c \in Calls, NEW r \in Replies, calls' = [calls EXCEPT ![c] = Ended(r)],
         UNCHANGED <<users, told>>
  PROVE  Promise!Next \/ UNCHANGED Promise!vars
<1>1. CASE calls[c].at = "update"
  BY <1>1, AnsweredWish DEF Promise!Next, Promise!Drop, Promise!vars
<1>2. CASE calls[c].at # "update"
  BY <1>2, AnsweredWish DEF Promise!vars
<1> QED BY <1>1, <1>2

(* INSERT, answered or left behind, is a registration.                     *)
LEMMA InsertRegisters ==
  ASSUME IInv, NEW c \in Calls, calls[c].at = "insert", Result(calls[c]) = "row",
         Execute(calls[c]), Wishes' = Wishes,
         told' \in {told, told \cup {[username |-> calls[c].username,
                                      password |-> calls[c].password]}}
  PROVE  Promise!Next
<1>1. PICK i \in Ids \ {r.id : r \in users} :
        users' = users \cup {[id |-> i, username |-> calls[c].username,
                              password |-> calls[c].password, nick |-> calls[c].nick]}
  BY DEF Execute, Inserted
<1> DEFINE x == [id |-> i, username |-> calls[c].username,
                 password |-> calls[c].password, nick |-> calls[c].nick]
<1>2. x \in Promise!Account
  BY DEF IInv, CallsOK, Filled, Promise!Account
<1>3. \A r \in users : r.id # x.id /\ r.username # x.username /\ r.nick # x.nick
  BY <1>1 DEF Result, InsertSucceeds, Clashes
<1>4. Promise!Login(x) = [username |-> calls[c].username, password |-> calls[c].password]
  BY DEF Promise!Login
<1>5. users' = users \cup {x}
  BY <1>1
<1> HIDE DEF x
<1>6. Promise!Register(x)
  BY <1>3, <1>4, <1>5 DEF Promise!Register
<1> QED BY <1>2, <1>6 DEF Promise!Next

(* UPDATE, answered or left behind, makes a wish true.                     *)
LEMMA UpdateRenames ==
  ASSUME IInv, NEW c \in Calls, calls[c].at = "update", Result(calls[c]) = "row",
         Execute(calls[c]), UNCHANGED told, WishOf(calls[c]) \in Wishes,
         Wishes' \in {Wishes, Wishes \ {WishOf(calls[c])}}
  PROVE  Promise!Next
<1> DEFINE n == calls[c].nick
<1>1. PICK r \in users : r.id = calls[c].id /\ r.username = calls[c].username
                         /\ r.password = calls[c].password
  BY DEF IInv, CallsOK, LetInAsOwner
<1>2. \A s \in users : s.id = calls[c].id => s = r
  BY <1>1 DEF IInv, AccountsUnique
<1>3. n \in Nicks
  BY DEF IInv, CallsOK, Filled
<1>4. \A s \in users \ {r} : s.nick # n
  BY <1>2 DEF Result
<1>5. users' = (users \ {r}) \cup {[r EXCEPT !.nick = n]}
  <2>1. users' = {IF s.id = calls[c].id THEN [s EXCEPT !.nick = n] ELSE s : s \in users}
    BY DEF Execute, Renamed
  <2>2. \A s \in users : s.id = calls[c].id <=> s = r
    BY <1>1, <1>2
  <2>3. users' = {IF s = r THEN [s EXCEPT !.nick = n] ELSE s : s \in users}
    BY <2>1, <2>2
  <2> QED BY <2>3
<1>6. Promise!Wish(r, n) = WishOf(calls[c])
  BY <1>1 DEF Promise!Wish, WishOf
<1> HIDE DEF n
<1>7. Promise!Rename(r, n)
  BY <1>4, <1>5, <1>6 DEF Promise!Rename
<1> QED BY <1>3, <1>7 DEF Promise!Next

(* A statement that Postgres carries out, now or late, with the wish and   *)
(* the report it leads to.                                                 *)
LEMMA ExecutePromise ==
  ASSUME IInv, NEW c \in Calls, calls[c].at \in {"insert", "update"}, Execute(calls[c]),
         NEW r \in Replies, calls' = [calls EXCEPT ![c] = Ended(r)],
         \/ UNCHANGED told
         \/ /\ calls[c].at = "insert" /\ Result(calls[c]) = "row"
            /\ told' = told \cup {[username |-> calls[c].username,
                                   password |-> calls[c].password]}
  PROVE  Promise!Next \/ UNCHANGED Promise!vars
<1>1. CASE Result(calls[c]) # "row"
  BY <1>1, WishDropped DEF Execute
<1>2. CASE Result(calls[c]) = "row" /\ calls[c].at = "insert"
  BY <1>2, AnsweredWish, InsertRegisters
<1>3. CASE Result(calls[c]) = "row" /\ calls[c].at = "update"
  BY <1>3, AnsweredWish, UpdateRenames
<1> QED BY <1>1, <1>2, <1>3

(* Every step is one of Accounts, or none.                                 *)
LEMMA StepPromise ==
  ASSUME IInv, [Next]_vars
  PROVE  Promise!Next \/ UNCHANGED Promise!vars
<1> DEFINE Goal == Promise!Next \/ UNCHANGED Promise!vars
<1>0. calls \in [Calls -> Call]
  BY DEF IInv, TypeOK
<1>1. CASE UNCHANGED vars
  <2>1. Wishes' = Wishes
    BY <1>1, WishesKept DEF vars
  <2> QED BY <1>1, <2>1 DEF vars, Promise!vars
<1>2. CASE Crash
  <2>1. ASSUME NEW d \in Calls
        PROVE  /\ calls'[d].at = "update" <=> calls[d].at = "update"
               /\ calls[d].at = "update" => WishOf(calls'[d]) = WishOf(calls[d])
    <3>1. CASE calls[d].at \in {"insert", "update"}
      <4>1. calls'[d] = [calls[d] EXCEPT !.left = TRUE, !.reply = "none"]
        BY <1>2, <3>1 DEF Crash
      <4> QED BY <1>0, <4>1 DEF Call, WishOf
    <3>2. CASE calls[d].at \notin {"insert", "update"}
      <4>1. calls'[d] = Ended("none")
        BY <1>2, <3>2 DEF Crash
      <4> QED BY <3>2, <4>1, EndedCall DEF Replies
    <3> QED BY <3>1, <3>2
  <2>2. Wishes' = Wishes
    BY <2>1, WishesKept
  <2> QED BY <1>2, <2>2 DEF Crash, Promise!vars
<1>3. ASSUME NEW c \in Calls, HandleRegister(c) \/ Login(c) PROVE Goal
  <2>1. /\ calls[c].at = "idle" /\ calls'[c].at # "update"
        /\ \A d \in Calls \ {c} : calls'[d] = calls[d]
    <3>1. ASSUME NEW r \in Replies, Answer(c, r)
          PROVE  calls'[c].at # "update" /\ \A d \in Calls \ {c} : calls'[d] = calls[d]
      BY <1>0, <3>1, EndedCall DEF Answer
    <3>2. ASSUME NEW at \in {"insert", "select"}, NEW api, NEW u, NEW p, NEW n, NEW k,
                 Open(c, at, api, u, p, n, k)
          PROVE  calls'[c].at # "update" /\ \A d \in Calls \ {c} : calls'[d] = calls[d]
      BY <1>0, <3>2 DEF Open
    <3>3. CASE HandleRegister(c)
      BY <3>1, <3>2, <3>3 DEF HandleRegister, Replies
    <3>4. CASE Login(c)
      BY <3>1, <3>2, <3>4 DEF Login, Replies
    <3> QED BY <1>3, <3>3, <3>4 DEF HandleRegister, Login
  <2>2. Wishes' = Wishes
    BY <2>1, WishesKept
  <2> QED BY <1>3, <2>2 DEF HandleRegister, Login, Promise!vars
<1>4. ASSUME NEW c \in Calls, GetByUsername(c) PROVE Goal
  <2>1. calls[c].at = "select" /\ UNCHANGED <<users, told>>
    BY <1>4 DEF GetByUsername
  <2>2. ASSUME NEW r \in Replies, Answer(c, r) PROVE Goal
    BY <2>1, <2>2, WishDropped DEF Answer
  <2>3. ASSUME NEW r \in users, r.username = calls[c].username, r.password = calls[c].password,
               calls' = [calls EXCEPT ![c].at = "update", ![c].id = r.id, ![c].known = FALSE]
        PROVE  Goal
    <3>1. /\ calls'[c] = [calls[c] EXCEPT !.at = "update", !.id = r.id, !.known = FALSE]
          /\ \A d \in Calls \ {c} : calls'[d] = calls[d]
      BY <1>0, <2>3
    <3>2. /\ calls'[c].at = "update" /\ calls'[c].nick = calls[c].nick
          /\ calls'[c].username = r.username /\ calls'[c].password = r.password
      BY <1>0, <2>3, <3>1 DEF Call
    <3>3. Wishes' = Wishes \cup {WishOf(calls'[c])}
      BY <2>1, <3>1, <3>2, WishMade
    <3>4. WishOf(calls'[c]) = Promise!Wish(r, calls[c].nick)
      BY <3>2 DEF WishOf, Promise!Wish
    <3>5. calls[c].nick \in Nicks
      BY <2>1 DEF IInv, CallsOK, Filled
    <3>6. Promise!Ask(r, calls[c].nick)
      BY <2>1, <3>3, <3>4 DEF Promise!Ask
    <3> QED BY <3>5, <3>6 DEF Promise!Next
  <2>4. LoginReply(calls[c].api, "none") \in Replies /\ LoginReply(calls[c].api, "wrong") \in Replies
    BY DEF LoginReply, Replies
  <2> QED BY <1>4, <2>2, <2>3, <2>4 DEF GetByUsername, PasswordOk, Replies
<1>5. ASSUME NEW c \in Calls, Finish(c) PROVE Goal
  <2>1. /\ calls[c].at \in {"insert", "update"} /\ Execute(calls[c])
        /\ Reply(c, Result(calls[c]))
    BY <1>5 DEF Finish
  <2>2. PICK r \in Replies : r = StatementReply(calls[c], Result(calls[c]))
    BY ReplyType
  <2>3. calls' = [calls EXCEPT ![c] = Ended(r)]
    BY <2>1, <2>2 DEF Reply, Result
  <2>4. calls[c].at = "insert" /\ r = "ok" => Result(calls[c]) = "row"
    BY <2>2 DEF StatementReply, CreateReply
  <2>5. \/ UNCHANGED told
        \/ /\ calls[c].at = "insert" /\ Result(calls[c]) = "row"
           /\ told' = told \cup {[username |-> calls[c].username,
                                  password |-> calls[c].password]}
    BY <2>1, <2>2, <2>4 DEF Reply
  <2> QED BY <2>1, <2>3, <2>5, ExecutePromise
<1>6. ASSUME NEW c \in Calls, Fail(c) PROVE Goal
  <2>1. PICK res \in {"pgerror", "lost"} : Reply(c, res)
    BY <1>6 DEF Fail
  <2>2. PICK r \in Replies : r = StatementReply(calls[c], res)
    BY ReplyType
  <2>3. UNCHANGED <<users, told>>
    BY <1>6, <2>1 DEF Fail, Reply, StatementReply, CreateReply
  <2>4. CASE calls' = [calls EXCEPT ![c] = Ended(r)]
    BY <2>3, <2>4, WishDropped
  <2>5. CASE calls' = [calls EXCEPT ![c] = [calls[c] EXCEPT !.left = TRUE, !.reply = r]]
    <3>1. /\ calls'[c] = [calls[c] EXCEPT !.left = TRUE, !.reply = r]
          /\ \A d \in Calls \ {c} : calls'[d] = calls[d]
      BY <1>0, <2>5
    <3>2. calls'[c].at = calls[c].at /\ WishOf(calls'[c]) = WishOf(calls[c])
      BY <1>0, <3>1 DEF Call, WishOf
    <3>3. Wishes' = Wishes
      BY <3>1, <3>2, WishesKept
    <3> QED BY <2>3, <3>3 DEF Promise!vars
  <2> QED BY <2>1, <2>2, <2>4, <2>5 DEF Reply
<1>7. ASSUME NEW c \in Calls, Late(c) PROVE Goal
  <2>1. /\ calls[c].at \in {"insert", "update"}
        /\ Execute(calls[c]) \/ UNCHANGED users
        /\ calls' = [calls EXCEPT ![c] = Ended("none")] /\ UNCHANGED told
    BY <1>7 DEF Late, Answer, IInv, CallsOK, LeftIsWrite
  <2>2. "none" \in Replies
    BY DEF Replies
  <2> QED BY <2>1, <2>2, ExecutePromise, WishDropped
<1> QED BY <1>1, <1>2, <1>3, <1>4, <1>5, <1>6, <1>7 DEF Next

(* Calls, statements and crashes keep the promise of Accounts, for every   *)
(* number of calls and accounts.                                           *)
THEOREM ImplementsAccounts == Spec => KeepsAccounts
<1>1. Init => Promise!Init
  <2>1. ASSUME Init PROVE Wishes = {}
    BY <2>1, EndedCall DEF Init, Wishes, Replies
  <2> QED BY <2>1 DEF Init, Promise!Init
<1>2. IInv /\ [Next]_vars => [Promise!Next]_(Promise!vars)
  BY StepPromise
<1> QED BY <1>1, <1>2, Invariance, PTL DEF Spec, KeepsAccounts, Promise!SafeSpec

=============================================================================
