----------------------------- MODULE MCDelivery -----------------------------
(* Small instances of Delivery for TLC.                                    *)
EXTENDS Delivery, TLC

CONSTANTS c1, c2, u1, u2

TwoClients == {c1, c2}

(* Two connections of one user, or of two.                                 *)
OneOrTwoUsers == {c1 :> u1 @@ c2 :> u1, c1 :> u1 @@ c2 :> u2}

(* Of three requests all, or two, are one connection's: c1's, as well as   *)
(* anybody's.                                                              *)
MostOfOne == c1 :> 3 @@ c2 :> 1

(* The one that asks most may break.                                       *)
Breaking == {c1}
=============================================================================
