----------------------------- MODULE MCHistory -----------------------------
(* Small instances of History for TLC.                                     *)
EXTENDS History, TLC

CONSTANTS m1, m2, u1, u2, a, o1, o2

TwoMessages == {m1, m2}
TwoUsers == {u1, u2}
TwoChannels == {a, EmptyName}
TwoObjects == {o1, o2}

(* Two messages of one channel by two users.                               *)
Authors == (m1 :> u1) @@ (m2 :> u2)
OneChannel == (m1 :> a) @@ (m2 :> a)
Times == (m1 :> 1) @@ (m2 :> 2)
OneOrTwo == {1, 2}
Both == {<<u1, a>>, <<u2, a>>, <<u1, EmptyName>>}

Ask(api, ch, author) == [api |-> api, user |-> u1, channel |-> ch, author |-> author]

(* What u1 asks: everything, by author, of the channel without a name.     *)
AskedByU1 ==
  {Ask("http", a, NoAuthor), Ask("http", EmptyName, NoAuthor), Ask("grpc", a, u2),
   Ask("grpc", EmptyName, NoAuthor), Ask("stats", a, u1)}
=============================================================================
