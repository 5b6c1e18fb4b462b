---------------------------- MODULE MCMembership ----------------------------
(* Membership for TLC.  Ids and tokens are random, and calls are all alike. *)
EXTENDS Membership, TLC

Symmetry ==
    Permutations(Guests) \cup Permutations(Calls) \cup Permutations(Devices) \cup Permutations(Tokens)
=============================================================================
