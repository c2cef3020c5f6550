------------------------------ MODULE MCServer ------------------------------
(* Small instances of Server for TLC.                                      *)
EXTENDS Server, TLC

CONSTANTS c1, c2, u1, u2, a, b

OneUser == {u1}
TwoUsers == {u1, u2}
TwoClients == {c1, c2}
OneChannel == {a}
TwoChannels == {a, b}

(* Every user's credentials, and a token that is refused.                  *)
GoodAndBad == Users \cup {BadToken}
(* ... and one that is too short to hold the scheme.                       *)
AnyToken == GoodAndBad \cup {ShortToken}

(* Connections, users and channels are interchangeable.                    *)
Interchangeable == Permutations(Clients) \cup Permutations(Users)
                   \cup Permutations(Channels)
=============================================================================
