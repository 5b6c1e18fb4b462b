------------------------------- MODULE MCMesh -------------------------------
(* Two devices; one of them loses its socket once, or its page, and the    *)
(* page of one is left once.                                               *)
EXTENDS Mesh, TLC

CONSTANTS low, high, s1, s2, s3

LowOffers == (low :> {high}) @@ (high :> {})

\* A behaviour is followed until two devices have blurred: nothing is claimed
\* of what comes after.
Clear == ~blurred

\* Which of the free sockets a page gets makes no difference: it gets the first.
Row == (s1 :> 1) @@ (s2 :> 2) @@ (s3 :> 3)
FirstFree ==
    \A s, t \in Sockets :
        room[s] = Absent /\ room[t] = Absent /\ room'[t] # Absent => Row[t] <= Row[s]
=============================================================================
