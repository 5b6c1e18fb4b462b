------------------------------- MODULE Ledger -------------------------------
(***************************************************************************)
(* What the storage accounting of meownow promises, with nothing of how it *)
(* is kept: every member has a bill, a set of lines <<blob, bytes>>, and a *)
(* figure, users.storage_used_bytes, that is charged with each line before *)
(* the line counts and may lag behind when lines are struck off, so that   *)
(* it is never below what the bill adds up to nor above what an admin may  *)
(* grant.  BlobStore implements this (BlobStore!Billing).                  *)
(***************************************************************************)
EXTENDS Bills

VARIABLES
    bill,   \* bill[u]: the lines u's figure stands for
    used    \* used[u]: the figure

vars == <<bill, used>>

Init ==
    /\ bill = [u \in Users |-> {}]
    /\ used = [u \in Users |-> 0]

\* A line goes on the bill together with its charge, and only under the grant.
Charge(u, l) ==
    /\ l \notin bill[u]
    /\ used[u] + Bytes({l}) <= MaxGrant
    /\ bill' = [bill EXCEPT ![u] = @ \cup {l}]
    /\ used' = [used EXCEPT ![u] = @ + Bytes({l})]

\* Lines come off any bills at once; a figure gives back at most their bytes.
Strike ==
    /\ bill' \in [Users -> SUBSET Lines]
    /\ used' \in [Users -> Nat]
    /\ \A u \in Users :
           /\ bill'[u] \subseteq bill[u]
           /\ used[u] - Bytes(bill[u] \ bill'[u]) <= used'[u]
           /\ used'[u] <= used[u]

\* An account is closed with everything on it.
Close(u) ==
    /\ bill' = [bill EXCEPT ![u] = {}]
    /\ used' = [used EXCEPT ![u] = 0]

Next ==
    \/ \E u \in Users, l \in Lines : Charge(u, l)
    \/ Strike
    \/ \E u \in Users : Close(u)

Spec == Init /\ [][Next]_vars

TypeOK ==
    /\ bill \in [Users -> SUBSET Lines]
    /\ used \in [Users -> Nat]

\* The promise: a figure covers its bill and stays under the largest grant.
Solvent ==
    \A u \in Users : Bytes(bill[u]) <= used[u] /\ used[u] <= MaxGrant
=============================================================================
