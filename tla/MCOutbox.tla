----------------------------- MODULE MCOutbox -----------------------------
(* Outbox for TLC: one note, and at most two handlers under way at a time. *)
EXTENDS Outbox

CONSTANT n1

Alone == {{p} : p \in Handlers}

\* A flush together with any other handler.
BesideFlush == Alone \cup {{p, "flush"} : p \in Handlers}

\* The pairs that write the same rows.
Races ==
    Alone \cup {{p, "flush"} : p \in {"composer", "account", "forget"}}
          \cup {{p, "refresh"} : p \in {"composer", "forget"}}

=============================================================================
