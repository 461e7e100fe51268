--------------------------- MODULE MCSubscription ---------------------------
(***************************************************************************)
(* Small instances of Subscription: two subscriptions at most, s1 of the   *)
(* user u1 and s2 of the user u1, of which some may be unlabelled.         *)
(***************************************************************************)
EXTENDS Subscription, TLC

CONSTANTS u1

MCOwner == [s \in Subs |-> u1]
Symmetry == Permutations(Workers)
=============================================================================
