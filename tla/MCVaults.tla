------------------------------ MODULE MCVaults ------------------------------
(* Three browsers: one of each member, and one that both use and that is    *)
(* signed in as the first (with a synced passkey), so that a member has two *)
(* set-up pages; one pairing code, two keys; two verifies at once, one of   *)
(* which may overlap the other or die half way.                             *)
EXTENDS Vaults, TLC

CONSTANTS b1, b2, b3, ann, bob, k1, k2

UsersOf    == (b1 :> {ann}) @@ (b2 :> {bob}) @@ (b3 :> {ann, bob})
SignedInAs == (b1 :> ann) @@ (b2 :> bob) @@ (b3 :> ann)
AlikeCalls == Permutations({k1, k2})

\* Two browsers at most are in a ceremony at once, besides one that shows its
\* code; while a verify is under way the others are at home or wrap a key.
Busy == {b \in Browsers : page[b].at \notin {"home", "showing"}}
Apart ==
    /\ Cardinality(Busy) <= 2
    /\ \A c \in Calls : call[c] # NoCall =>
          \A b \in Browsers \ {call[c].by} :
              page[b].at \in {"home", "wrap", "wrap.write", "approved"}
=============================================================================
