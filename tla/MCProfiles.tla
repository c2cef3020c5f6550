---------------------------- MODULE MCProfiles ----------------------------
(* Small instances of Profiles for TLC.                                    *)
EXTENDS Profiles, TLC

CONSTANTS c1, c2, i1, i2, n1, n2, ch1, ch2, colon

TwoCalls == {c1, c2}
TwoIds == {i1, i2}
ThreeCharacters == {ch1, ch2, colon}
OneUsername == {<<ch1>>}
OnePassword == {<<ch2>>}

(* "a" and "a:", "b" and ":b": what the one makes with a colon in the      *)
(* password, the other makes with a colon in the name.  bcrypt takes two   *)
(* characters: it refuses ":ba" at registration, and takes it for ":b" at  *)
(* login.                                                                  *)
TwoUsernames == {<<ch1>>, <<ch1, colon>>}
ThreePasswords == {<<ch2>>, <<colon, ch2>>, <<colon, ch2, ch1>>}
TwoNicks == {n1, n2}

(* Calls, ids and nicks are interchangeable.                               *)
Interchangeable == Permutations(Calls) \cup Permutations(Ids) \cup Permutations(Nicks)
=============================================================================
