------------------------------- MODULE Rows --------------------------------
(***************************************************************************)
(* The rows that the two stores of the web app keep, and the rules on rows *)
(* that both share: the state of an invite and the plan of a prune.  A     *)
(* table is a function from the ids it holds to their rows.  A method of a *)
(* store is an operator that returns the store it leaves and the answer.   *)
(***************************************************************************)
EXTENDS Naturals, FiniteSets, FiniteSetsExt

CONSTANTS
    Admin,      \* the seeded admin
    NoOne,      \* null
    Users, Handles, Invites, Asks, Devices, Tokens,
    Pairings, Codes, Items, Blobs, Uploads, Endpoints,
    Sizes,      \* bytes of a file, a note or a quota
    Times       \* the clock, and the deadlines

NoRows == [x \in {} |-> NoOne]
With(table, id, row) ==
    [x \in DOMAIN table \cup {id} |-> IF x = id THEN row ELSE table[x]]
Without(table, ids) == [x \in DOMAIN table \ ids |-> table[x]]
Where(table, Test(_)) == {x \in DOMAIN table : Test(table[x])}
Set(table, ids, New(_)) ==
    [x \in DOMAIN table |-> IF x \in ids THEN New(table[x]) ELSE table[x]]
Seek(table, x) == IF x \in DOMAIN table THEN table[x] ELSE NoOne

Answer(store, words) == [to |-> store, says |-> words]

InviteRow(r) == /\ r.by \in Users /\ r.expires \in Times
                /\ r.redeemedBy \in Users \cup {NoOne}
                /\ {r.redeemed, r.revoked} \subseteq BOOLEAN
DeviceRow(r) == r.user \in Users /\ r.revoked \in BOOLEAN
SessionRow(r) == r.device \in Devices /\ r.expires \in Times
StoredItem(r) == /\ r.owner \in Users /\ r.kind \in {"text", "link", "file"}
                 /\ r.blob \in Blobs \cup {NoOne} /\ r.size \in Sizes
                 /\ r.pinned \in BOOLEAN /\ r.expires \in Times
BlobRow(r) == /\ r.owner \in Users /\ r.state \in {"pending", "committed"}
              /\ r.size \in Sizes /\ r.created \in Times
UploadRow(r) == /\ r.user \in Users
                /\ r.status \in {"pending", "approved", "denied"}
                /\ r.decidedBy \in Users \cup {NoOne}
                /\ r.granted \in Sizes \cup {NoOne}

All(table, ids, Row(_)) ==
    DOMAIN table \subseteq ids /\ \A x \in DOMAIN table : Row(table[x])

InviteState(row, now) ==
    CASE row = NoOne -> "missing"
      [] row.revoked -> "revoked"
      [] row.redeemed -> "redeemed"
      [] row.expires <= now -> "expired"
      [] OTHER -> "ok"

Bytes(blobs, ids) == MapThenSumSet(LAMBDA b : blobs[b].size, ids)

\* PENDING_BLOB_MAX_AGE_MS is one tick here.
PlanPrune(now, items, blobs, pairings, sessions) ==
    LET Late(row) == row.expires <= now
        dead == Where(items, LAMBDA row : ~row.pinned /\ Late(row))
        live == {items[x].blob : x \in DOMAIN items \ dead}
        stale == Where(blobs, LAMBDA row : row.state = "pending" /\ now - row.created >= 1)
        orphans == Where(blobs, LAMBDA row : row.state = "committed") \ live
        gone == stale \cup orphans
    IN  [items |-> dead,
         pairings |-> Where(pairings, Late),
         sessions |-> Where(sessions, Late),
         blobs |-> gone,
         keep |-> DOMAIN blobs \ gone,
         refund |-> [u \in {blobs[b].owner : b \in orphans} |->
                        Bytes(blobs, {b \in orphans : blobs[b].owner = u})]]

Refunded(users, refund) ==
    [u \in DOMAIN users |->
        IF u \notin DOMAIN refund THEN users[u]
        ELSE [users[u] EXCEPT !.used = IF @ > refund[u] THEN @ - refund[u] ELSE 0]]
=============================================================================
