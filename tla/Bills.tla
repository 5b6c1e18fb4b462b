------------------------------- MODULE Bills -------------------------------
(***************************************************************************)
(* The vocabulary of storage accounting.  A line <<blob, bytes>> says that *)
(* a stored file takes so many bytes; a bill is a set of lines; Bytes adds *)
(* one up.  Bytes is a parameter known by what makes it a sum, so that     *)
(* what is proved with it holds for any files of any size.                 *)
(***************************************************************************)
EXTENDS Integers

CONSTANTS
    Users,      \* members
    Blobs,      \* blob ids
    Parts,      \* the most one file may take
    MaxGrant,   \* the largest quota an admin grants
    Bytes(_)    \* what a bill adds up to

Lines == Blobs \X (1 .. Parts)

\* A bill is additive over disjoint parts (so an empty one is 0), and a line
\* counts for its bytes.
ASSUME BytesAssumption ==
    /\ \A A \in SUBSET Lines : Bytes(A) \in Nat
    /\ \A A, B \in SUBSET Lines :
           A \cap B = {} => Bytes(A \cup B) = Bytes(A) + Bytes(B)
    /\ \A l \in Lines : Bytes({l}) = l[2]

ASSUME LimitsAssumption == Parts \in Nat \ {0} /\ MaxGrant \in Nat
=============================================================================
