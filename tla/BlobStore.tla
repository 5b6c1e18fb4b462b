----------------------------- MODULE BlobStore -----------------------------
(***************************************************************************)
(* Files of meownow: the browser's upload, the app's intent, ticket and    *)
(* commit handlers on Postgres, the Worker's PUT and stat on R2, and the   *)
(* nightly cron that prunes rows and then sweeps the bucket.               *)
(*                                                                         *)
(* A file's bytes are counted in parts (its chunks and the trailer), each  *)
(* one object of the bucket.  A browser sends each file once, so the item  *)
(* that a commit inserts is named by its blob.                             *)
(***************************************************************************)
EXTENDS Bills, FiniteSets

CONSTANTS
    Admins,         \* members with role admin
    Owner,          \* Owner[b]: the member whose upload b is
    Size,           \* Size[b]: its objects, the chunks and the trailer
    Grants,         \* quotas an admin may grant
    PendingMaxAge,  \* PENDING_BLOB_MAX_AGE_MS
    BlobTTL,        \* BLOB_TTL_MS: deadline of a committed file
    ResetTTL,       \* TEXT_TTL_MS: deadline that resetItemExpiry sets
    MaxTime         \* bound: the clock stops there

ASSUME ConstantsAssumption ==
    /\ Admins \subseteq Users
    /\ Owner \in [Blobs -> Users]
    /\ Size \in [Blobs -> 1 .. Parts]
    /\ Grants \subseteq 1 .. MaxGrant
    /\ {PendingMaxAge, BlobTTL, ResetTTL, MaxTime} \subseteq Nat

VARIABLES
    now,        \* the clock
    member,     \* ids of the rows of users
    quota,      \* users.storage_quota_bytes; can_upload is set with it
    used,       \* users.storage_used_bytes
    preserve,   \* members with users.preserve_notes
    pinning,    \* "on" or "off" between the two statements of setPreserveNotes
    state,      \* blobs.state, "none" when there is no row
    createdAt,  \* blobs.created_at
    byteSize,   \* blobs.byte_size
    item,       \* the blob's item: not yet inserted, in the table, or deleted
    expiresAt,  \* items.expires_at; before the insert, as the request carries it
    pinned,     \* blobs with items.pinned; before the insert, as the request has it
    r2,         \* objects of the bucket: <<blob, part>>
    pc,         \* where the upload of a blob stands
    part,       \* the part it sends next
    sized,      \* what the commit's stat counted
    cron,       \* where the cron stands
    cronNow,    \* the clock when its prune began
    doomed,     \* items the prune read as expired
    linked,     \* blobs of the other items the prune read
    drop,       \* blobs the prune deletes
    refund,     \* the lines it gives back
    keep,       \* keepR2Keys
    todo,       \* objects the sweep has listed and will delete
    exposed     \* history: blobs whose upload and a cron run overlapped

userVars == <<member, quota, used, preserve, pinning>>
blobVars == <<state, createdAt, byteSize>>
itemVars == <<item, expiresAt, pinned>>
clientVars == <<pc, part, sized>>
pruneVars == <<cronNow, doomed, linked, drop, refund, keep>>
vars == <<now, userVars, blobVars, itemVars, r2, clientVars,
          cron, pruneVars, todo, exposed>>

Sending == {"ticket", "put", "commit"}    \* phases the browser drives
Committing == {"stat", "tx"}              \* phases inside the commit handler

Init ==
    /\ now = 0
    /\ member = Users
    /\ quota = [u \in Users |-> 0]
    /\ used = [u \in Users |-> 0]
    /\ preserve = {}
    /\ pinning = [u \in Users |-> "no"]
    /\ state = [b \in Blobs |-> "none"]
    /\ createdAt = [b \in Blobs |-> 0]
    /\ byteSize = [b \in Blobs |-> 0]
    /\ item = [b \in Blobs |-> "none"]
    /\ expiresAt = [b \in Blobs |-> 0]
    /\ pinned = {}
    /\ r2 = {}
    /\ pc = [b \in Blobs |-> "new"]
    /\ part = [b \in Blobs |-> 1]
    /\ sized = [b \in Blobs |-> 0]
    /\ cron = "idle"
    /\ cronNow = 0
    /\ doomed = {} /\ linked = {} /\ drop = {} /\ refund = {} /\ keep = {}
    /\ todo = {}
    /\ exposed = {}

-----------------------------------------------------------------------------
(* Reading the tables. *)

Owned(u) == {b \in Blobs : Owner[b] = u}
Live(b) == item[b] = "live"
Objects(b) == {o \in r2 : o[1] = b}
Rows == {b \in Blobs : state[b] # "none"}
Uploading == {b \in Blobs : pc[b] \in Sending \cup Committing}

\* The committed rows of u as lines of a bill.
Bill(u) == {<<b, byteSize[b]>> : b \in {c \in Owned(u) : state[c] = "committed"}}

\* Rows of blobs, and of items, are deleted.
DropBlobs(B) ==
    /\ state' = [b \in Blobs |-> IF b \in B THEN "none" ELSE state[b]]
    /\ createdAt' = [b \in Blobs |-> IF b \in B THEN 0 ELSE createdAt[b]]
    /\ byteSize' = [b \in Blobs |-> IF b \in B THEN 0 ELSE byteSize[b]]

DropItems(B) ==
    /\ item' = [b \in Blobs |-> IF b \in B /\ Live(b) THEN "gone" ELSE item[b]]
    /\ expiresAt' = [b \in Blobs |-> IF b \in B /\ Live(b) THEN 0 ELSE expiresAt[b]]
    /\ pinned' = pinned \ {b \in B : Live(b)}

\* An upload ends, and so do its local values.
Finish(b, how) ==
    /\ pc' = [pc EXCEPT ![b] = how]
    /\ part' = [part EXCEPT ![b] = 1]
    /\ sized' = [sized EXCEPT ![b] = 0]

\* requireUser and can_upload.
MayUpload(u) == u \in member /\ quota[u] > 0

\* What commitUpload accepts of the stat.
StatAccepted(b, n) == n > 0 /\ n <= byteSize[b]

\* Mutation of QuotaAllows: the intent's check is taken to be enough.
QuotaCheckedAtIntent(u, n) == u \in member /\ n > 0

\* The re-check under the row lock of commitBlobAndItem.
QuotaAllows(u, n) == u \in member /\ used[u] + n <= quota[u]

-----------------------------------------------------------------------------
(* The browser's upload and the handlers it calls. *)

\* uploadIntent: a pending row with a server-chosen key, if the quota has room.
Intent(b) ==
    /\ pc[b] = "new"
    /\ MayUpload(Owner[b])
    /\ used[Owner[b]] + Size[b] <= quota[Owner[b]]
    /\ now + PendingMaxAge <= MaxTime
    /\ state' = [state EXCEPT ![b] = "pending"]
    /\ createdAt' = [createdAt EXCEPT ![b] = now]
    /\ byteSize' = [byteSize EXCEPT ![b] = Size[b]]
    /\ pc' = [pc EXCEPT ![b] = "ticket"]
    /\ exposed' = IF cron = "idle" THEN exposed ELSE exposed \cup {b}
    /\ UNCHANGED <<now, userVars, itemVars, r2, part, sized, cron, pruneVars, todo>>

\* uploadTicket for the next part: only while the row is pending.
Ticket(b) ==
    /\ pc[b] = "ticket"
    /\ IF MayUpload(Owner[b]) /\ state[b] = "pending"
       THEN pc' = [pc EXCEPT ![b] = "put"] /\ UNCHANGED <<part, sized>>
       ELSE Finish(b, "failed")
    /\ UNCHANGED <<now, userVars, blobVars, itemVars, r2, cron, pruneVars, todo, exposed>>

\* Mutations of LastPart: the trailer is not waited for; one part too many.
TrailerForgotten(b) == part[b] + 1 >= Size[b]
OnePartTooMany(b) == part[b] > Size[b]

\* sendBlobFile: the chunks in order, and then the trailer.
LastPart(b) == part[b] = Size[b]

\* The Worker's PUT: it verifies the ticket alone and asks the app nothing.
Put(b) ==
    /\ pc[b] = "put"
    /\ r2' = r2 \cup {<<b, part[b]>>}
    /\ IF LastPart(b)
       THEN pc' = [pc EXCEPT ![b] = "commit"] /\ UNCHANGED part
       ELSE /\ pc' = [pc EXCEPT ![b] = "ticket"]
            /\ part' = [part EXCEPT ![b] = @ + 1]
    /\ UNCHANGED <<now, userVars, blobVars, itemVars, sized,
                   cron, pruneVars, todo, exposed>>

\* The tab closes, a request is lost, a ticket expires before its PUT, or the
\* commit handler stops half way.
GiveUp(b) ==
    /\ b \in Uploading
    /\ Finish(b, "failed")
    /\ UNCHANGED <<now, userVars, blobVars, itemVars, r2, cron, pruneVars, todo, exposed>>

\* commitUpload up to its stat: the row is pending and the body is taken in.
CommitCheck(b) ==
    /\ pc[b] = "commit"
    /\ IF MayUpload(Owner[b]) /\ state[b] = "pending"
       THEN /\ pc' = [pc EXCEPT ![b] = "stat"]
            /\ expiresAt' = [expiresAt EXCEPT ![b] = now + BlobTTL]
            /\ pinned' = IF Owner[b] \in preserve THEN pinned \cup {b} ELSE pinned
            /\ UNCHANGED <<part, sized>>
       ELSE Finish(b, "failed") /\ UNCHANGED <<expiresAt, pinned>>
    /\ UNCHANGED <<now, userVars, blobVars, item, r2, cron, pruneVars, todo, exposed>>

\* The stat, which again needs a pending row: what the bucket holds under the key.
Stat(b) ==
    /\ pc[b] = "stat"
    /\ LET n == Cardinality(Objects(b))
       IN  IF MayUpload(Owner[b]) /\ state[b] = "pending" /\ StatAccepted(b, n)
           THEN /\ pc' = [pc EXCEPT ![b] = "tx"]
                /\ sized' = [sized EXCEPT ![b] = n]
                /\ UNCHANGED part
           ELSE Finish(b, "failed")
    /\ UNCHANGED <<now, userVars, blobVars, itemVars, r2, cron, pruneVars, todo, exposed>>

\* commitBlobAndItem.  Without a row the item's foreign key fails and all is
\* rolled back; the row's state is not looked at again.
CommitTx(b) ==
    /\ pc[b] = "tx"
    /\ IF QuotaAllows(Owner[b], sized[b]) /\ state[b] # "none"
       THEN /\ state' = [state EXCEPT ![b] = "committed"]
            /\ byteSize' = [byteSize EXCEPT ![b] = sized[b]]
            /\ item' = [item EXCEPT ![b] = "live"]
            /\ used' = [used EXCEPT ![Owner[b]] = @ + sized[b]]
            /\ Finish(b, "done")
       ELSE /\ Finish(b, "failed")
            /\ UNCHANGED <<state, byteSize, item, used>>
    /\ UNCHANGED <<now, member, quota, preserve, pinning, createdAt, expiresAt, pinned,
                   r2, cron, pruneVars, todo, exposed>>

-----------------------------------------------------------------------------
(* What else changes the rows: members, admins, Forget, Reset deadlines. *)

\* decideUploadRequest, approved: the grant replaces the quota, below used or not.
Grant(u, g) ==
    /\ u \in member
    /\ quota' = [quota EXCEPT ![u] = g]
    /\ UNCHANGED <<now, member, used, preserve, pinning, blobVars, itemVars, r2,
                   clientVars, cron, pruneVars, todo, exposed>>

\* deleteItem: the item goes; its blob and its bytes wait for the prune.
Forget(b) ==
    /\ Live(b) /\ Owner[b] \in member
    /\ DropItems({b})
    /\ UNCHANGED <<now, userVars, blobVars, r2, clientVars, cron, pruneVars, todo, exposed>>

\* resetItemExpiry: every row of the owner, those past their deadline too.
ResetExpiry(u) ==
    /\ u \in member
    /\ expiresAt' = [b \in Blobs |->
           IF Owner[b] = u /\ Live(b) THEN now + ResetTTL ELSE expiresAt[b]]
    /\ UNCHANGED <<now, userVars, blobVars, item, pinned, r2, clientVars,
                   cron, pruneVars, todo, exposed>>

\* setPreserveNotes, first statement: the flag of the user.
PreserveUser(u, on) ==
    /\ u \in member \cap Admins
    /\ pinning[u] = "no"
    /\ preserve' = IF on THEN preserve \cup {u} ELSE preserve \ {u}
    /\ pinning' = [pinning EXCEPT ![u] = IF on THEN "on" ELSE "off"]
    /\ UNCHANGED <<now, member, quota, used, blobVars, itemVars, r2, clientVars,
                   cron, pruneVars, todo, exposed>>

\* setPreserveNotes, second statement: the rows; it may fail on its own.
PreserveItems(u, ok) ==
    /\ pinning[u] # "no"
    /\ pinning' = [pinning EXCEPT ![u] = "no"]
    /\ LET rows == {b \in Owned(u) : ok /\ Live(b)}
       IN  pinned' = IF pinning[u] = "on" THEN pinned \cup rows ELSE pinned \ rows
    /\ UNCHANGED <<now, member, quota, used, preserve, blobVars, item, expiresAt, r2,
                   clientVars, cron, pruneVars, todo, exposed>>

\* removeUser: the row and, by cascade, its blobs and items; never the last admin.
RemoveUser(u) ==
    /\ u \in member
    /\ u \in Admins => (member \cap Admins) \ {u} # {}
    /\ member' = member \ {u}
    /\ quota' = [quota EXCEPT ![u] = 0]
    /\ used' = [used EXCEPT ![u] = 0]
    /\ preserve' = preserve \ {u}
    /\ pinning' = [pinning EXCEPT ![u] = "no"]
    /\ DropBlobs(Owned(u))
    /\ DropItems(Owned(u))
    /\ UNCHANGED <<now, r2, clientVars, cron, pruneVars, todo, exposed>>

Tick ==
    /\ now < MaxTime
    /\ now' = now + 1
    /\ UNCHANGED <<userVars, blobVars, itemVars, r2, clientVars,
                   cron, pruneVars, todo, exposed>>

-----------------------------------------------------------------------------
(* The cron: one transaction of the app, whose statements each read their  *)
(* own snapshot (READ COMMITTED), then a sweep with the keys it answered.  *)

\* planPrune: which items are past their deadline.
Expired(b) == b \notin pinned /\ expiresAt[b] <= now

\* planPrune: which pending rows were abandoned.
PendingExpired(b) == state[b] = "pending" /\ cronNow - createdAt[b] >= PendingMaxAge

\* Mutation of OrphanedCommitted: only the files of items that this prune deletes.
OrphanedByThisPrune(b) == state[b] = "committed" /\ b \in doomed

\* planPrune: which committed rows no item it read refers to.
OrphanedCommitted(b) == state[b] = "committed" /\ b \notin linked

\* Mutation of Refunded: every row it deletes, charged or not.
RefundAll(b) == PendingExpired(b) \/ OrphanedCommitted(b)

\* planPrune: decrementUsage, the rows that were charged.
Refunded(b) == OrphanedCommitted(b)

\* The sweep's test: a prefix that the prune did not answer to keep.
Unkept(o) == o[1] \notin keep

\* prune, first select: the items.
PruneReadItems ==
    /\ cron = "idle"
    /\ cron' = "blobs"
    /\ cronNow' = now
    /\ doomed' = {b \in Blobs : Live(b) /\ Expired(b)}
    /\ linked' = {b \in Blobs : Live(b)} \ doomed'
    /\ exposed' = exposed \cup Uploading
    /\ UNCHANGED <<now, userVars, blobVars, itemVars, r2, clientVars,
                   drop, refund, keep, todo>>

\* prune, second select: the blobs, and with them the plan.
PruneReadBlobs ==
    /\ cron = "blobs"
    /\ cron' = "write"
    /\ drop' = {b \in Blobs : PendingExpired(b) \/ OrphanedCommitted(b)}
    /\ refund' = {<<b, byteSize[b]>> : b \in {c \in Blobs : Refunded(c)}}
    /\ keep' = Rows \ drop'
    /\ cronNow' = 0 /\ linked' = {}
    /\ UNCHANGED <<now, userVars, blobVars, itemVars, r2, clientVars,
                   doomed, todo, exposed>>

\* prune's writes and COMMIT: deletes by id, whatever the rows hold by now;
\* the decrements, each greatest(0, used - bytes), amount to one per owner.
PruneWrite ==
    /\ cron = "write"
    /\ cron' = "reply"
    /\ DropItems(doomed)
    /\ DropBlobs(drop)
    /\ used' = [u \in Users |->
           LET back == Bytes({l \in refund : Owner[l[1]] = u})
           IN  IF u \notin member THEN used[u]
               ELSE IF used[u] > back THEN used[u] - back ELSE 0]
    /\ doomed' = {} /\ drop' = {} /\ refund' = {}
    /\ UNCHANGED <<now, member, quota, preserve, pinning, r2, clientVars,
                   cronNow, linked, keep, todo, exposed>>

\* runCron has the answer: sweepOrphans lists the bucket.
SweepList ==
    /\ cron = "reply"
    /\ cron' = "sweep"
    /\ todo' = {o \in r2 : Unkept(o)}
    /\ keep' = {}
    /\ UNCHANGED <<now, userVars, blobVars, itemVars, r2, clientVars,
                   cronNow, doomed, linked, drop, refund, exposed>>

\* sweepOrphans deletes the objects of the page one by one.
SweepDelete(o) ==
    /\ cron = "sweep" /\ o \in todo
    /\ r2' = r2 \ {o}
    /\ todo' = todo \ {o}
    /\ UNCHANGED <<now, userVars, blobVars, itemVars, clientVars, cron, pruneVars, exposed>>

Sweep == \E o \in todo : SweepDelete(o)

\* The run is over: the page is done, or (failed) the transaction was rolled
\* back, its answer was lost, or the Worker died in the sweep.
EndCron ==
    /\ cron' = "idle"
    /\ cronNow' = 0
    /\ doomed' = {} /\ linked' = {} /\ drop' = {} /\ refund' = {} /\ keep' = {}
    /\ todo' = {}
    /\ UNCHANGED <<now, userVars, blobVars, itemVars, r2, clientVars, exposed>>

SweepDone == cron = "sweep" /\ todo = {} /\ EndCron

CronFails == cron # "idle" /\ EndCron

-----------------------------------------------------------------------------

Upload(b) ==
    \/ Intent(b) \/ Ticket(b) \/ Put(b) \/ GiveUp(b)
    \/ CommitCheck(b) \/ Stat(b) \/ CommitTx(b)

Account(u) ==
    \/ \E g \in Grants : Grant(u, g)
    \/ ResetExpiry(u)
    \/ \E on \in BOOLEAN : PreserveUser(u, on) \/ PreserveItems(u, on)
    \/ RemoveUser(u)

Cron ==
    \/ PruneReadItems \/ PruneReadBlobs \/ PruneWrite
    \/ SweepList \/ Sweep \/ SweepDone \/ CronFails

Next ==
    \/ \E b \in Blobs : Upload(b) \/ Forget(b)
    \/ \E u \in Users : Account(u)
    \/ Cron
    \/ Tick

\* Time passes and the cron runs every night; a prune, a listing or a delete
\* that is tried night after night does not fail every time.
Fairness ==
    /\ WF_vars(Tick)
    /\ WF_vars(PruneReadItems) /\ SF_vars(PruneReadBlobs)
    /\ SF_vars(PruneWrite) /\ SF_vars(SweepList)
    /\ SF_vars(Sweep) /\ WF_vars(SweepDone)

Spec == Init /\ [][Next]_vars

FairSpec == Spec /\ Fairness

-----------------------------------------------------------------------------
(* Properties. *)

TypeOK ==
    /\ now \in 0 .. MaxTime
    /\ member \subseteq Users
    /\ quota \in [Users -> {0} \cup Grants]
    /\ used \in [Users -> Nat]
    /\ preserve \subseteq Users
    /\ pinning \in [Users -> {"no", "on", "off"}]
    /\ state \in [Blobs -> {"none", "pending", "committed"}]
    /\ createdAt \in [Blobs -> 0 .. MaxTime]
    /\ byteSize \in [Blobs -> 0 .. Parts]
    /\ item \in [Blobs -> {"none", "live", "gone"}]
    /\ expiresAt \in [Blobs -> Nat]
    /\ pinned \subseteq Blobs
    /\ r2 \subseteq Lines
    /\ pc \in [Blobs -> {"new", "done", "failed"} \cup Sending \cup Committing]
    /\ part \in [Blobs -> 1 .. Parts]
    /\ \A b \in Blobs : part[b] <= Size[b]
    /\ sized \in [Blobs -> 0 .. Parts]
    /\ cron \in {"idle", "blobs", "write", "reply", "sweep"}
    /\ cronNow \in 0 .. MaxTime
    /\ doomed \subseteq Blobs /\ linked \subseteq Blobs
    /\ drop \subseteq Blobs /\ keep \subseteq Blobs /\ exposed \subseteq Blobs
    /\ refund \subseteq Lines
    /\ todo \subseteq Lines

\* The accounting of BlobStore, as the ledger it implements.
Billing == INSTANCE Ledger WITH
    bill <- [u \in Users |-> Bill(u)],
    used <- used

\* commitBlobAndItem charges a file with the row it commits and prune gives
\* back at most what it deletes, however commits, prunes, removals of members
\* and lowered quotas interleave: every step is one of the ledger's.
ImplementsLedger == Billing!Spec

\* The committed files of a member never take more than storage_used_bytes
\* says, nor that more than an admin can grant: the bucket stays in its tier.
UsedCoversFiles == Billing!Solvent

\* Why it holds: only a finished upload has a committed row, no row outlives
\* its owner, and what a prune has read to give back is a row that is still on
\* its owner's bill for as many bytes, and that the prune is about to drop.
ChargedOnce ==
    /\ \A b \in Blobs : pc[b] = "tx" => sized[b] > 0
    /\ \A b \in Blobs : state[b] = "committed" => pc[b] = "done" /\ byteSize[b] > 0
    /\ \A b \in Blobs : state[b] # "none" => Owner[b] \in member
    /\ \A l \in refund :
           /\ l[1] \in drop /\ pc[l[1]] = "done"
           /\ Owner[l[1]] \in member =>
                  state[l[1]] = "committed" /\ byteSize[l[1]] = l[2]

\* A file whose upload met no cron run stays whole while its item is stored:
\* the row is committed and every part is in the bucket, through any number of
\* prunes, expiries and resets of deadlines.
QuietFilesIntact ==
    \A b \in Blobs \ exposed :
        Live(b) => state[b] = "committed" /\ {b} \X (1 .. Size[b]) \subseteq r2

\* Why it holds: a quiet upload has put each part in the bucket and nothing
\* took one out; and every stage of a cron run that began after the commit has
\* the file's item among those it read, its row among those it keeps, and no
\* object of it among those it deletes.
Kept(b) ==
    /\ cron = "blobs" => b \in linked \cup doomed
    /\ cron = "write" => b \in doomed \cup (keep \ drop)
    /\ cron = "reply" => b \in keep
    /\ cron = "sweep" => \A o \in todo : o[1] # b

SentParts(b) ==
    {p \in 1 .. Size[b] : \/ pc[b] \in {"ticket", "put"} /\ p < part[b]
                          \/ pc[b] \in {"commit", "stat", "tx"}}

QuietKept ==
    /\ \A b \in Blobs : pc[b] = "new" => part[b] = 1
    /\ \A b \in Blobs : Live(b) => pc[b] = "done"
    /\ cron # "idle" => Uploading \subseteq exposed
    /\ \A b \in Blobs \ exposed : {b} \X SentParts(b) \subseteq r2
    /\ \A b \in Blobs \ exposed : Live(b) => Kept(b)

\* What is left of a file nobody can reach goes away: a forgotten or expired
\* item's, an abandoned upload's or a removed member's row and objects.
Unreachable(b) ==
    item[b] = "gone" \/ pc[b] = "failed" \/ (pc[b] # "new" /\ state[b] = "none")

GarbageReclaimed ==
    \A b \in Blobs : Unreachable(b) ~> (state[b] = "none" /\ Objects(b) = {})
=============================================================================
