---------------------------- MODULE DrizzleStore ---------------------------
(***************************************************************************)
(* DrizzleAuthStore on Postgres: the statements of each method, and what   *)
(* the foreign keys of the schema do behind them.  An insert that names a  *)
(* missing row, or a delete of a row that a key without ON DELETE still    *)
(* names, throws and the statements of its transaction are undone.  A      *)
(* user's vault columns are NULL or set together (vault), the code of a    *)
(* pairing is a unique column of its row, and items.sender_id, which no    *)
(* method sets, is left out.                                               *)
(***************************************************************************)
EXTENDS Rows

StoreOK(d) ==
    /\ All(d.users, Users, LAMBDA r :
           /\ r.handle \in Handles
           /\ {r.admin, r.canUpload, r.vault, r.preserve} \subseteq BOOLEAN
           /\ {r.quota, r.used} \subseteq Nat)
    /\ All(d.invites, Invites, InviteRow)
    /\ All(d.asks, Asks, LAMBDA r : r \in [dismissed : BOOLEAN])
    /\ All(d.devices, Devices, DeviceRow)
    /\ All(d.sessions, Tokens, SessionRow)
    /\ d.audit \subseteq Users \cup {NoOne}
    /\ All(d.pairings, Pairings, LAMBDA r :
           /\ r.user \in Users \cup {NoOne} /\ r.code \in Codes
           /\ r.wrap \in BOOLEAN /\ r.expires \in Times)
    /\ All(d.items, Items, StoredItem)
    /\ All(d.pushes, Endpoints, LAMBDA e : e \in Devices)
    /\ All(d.uploads, Uploads, UploadRow)
    /\ All(d.blobs, Blobs, BlobRow)

\* A row of users with the columns an insert leaves to their defaults.
NewUser(handle, admin) ==
    [handle |-> handle, admin |-> admin, canUpload |-> admin, vault |-> FALSE,
     quota |-> IF admin THEN Max(Sizes) ELSE 0, used |-> 0, preserve |-> FALSE]

Fresh(handle) ==
    [users |-> With(NoRows, Admin, NewUser(handle, TRUE)), invites |-> NoRows, asks |-> NoRows,
     devices |-> NoRows, sessions |-> NoRows, audit |-> {}, pairings |-> NoRows,
     items |-> NoRows, pushes |-> NoRows, uploads |-> NoRows, blobs |-> NoRows]

Rolled(d) == Answer(d, <<"throws">>)
Commit(d, holds, done) == IF holds THEN done ELSE Rolled(d)

----------------------------------------------------------------------------
(* Reading.                                                                *)

MapUser(row) ==
    [handle |-> row.handle, admin |-> row.admin, canUpload |-> row.canUpload,
     hasVault |-> row.vault, quota |-> row.quota, used |-> row.used,
     preserve |-> row.preserve]

ByHandle(d, handle) ==
    LET rows == Where(d.users, LAMBDA r : r.handle = handle)
    IN  IF rows = {} THEN NoOne ELSE CHOOSE u \in rows : TRUE

GetInvite(d, id) == Seek(d.invites, id)

ListInvites(d) == d.invites

GetUser(d, id) == IF id \in DOMAIN d.users THEN MapUser(d.users[id]) ELSE NoOne

\* The inner join of devices and users.
DeviceByCredential(d, id) ==
    IF id \notin DOMAIN d.devices THEN NoOne
    ELSE IF d.devices[id].user \notin DOMAIN d.users THEN NoOne
    ELSE [row |-> d.devices[id], user |-> GetUser(d, d.devices[id].user)]

CountDevices(d, user) == Cardinality(Where(d.devices, LAMBDA r : r.user = user))

\* The inner joins of sessions, devices and users: none when a row is missing.
SessionOf(d, token) ==
    IF \/ token \notin DOMAIN d.sessions
       \/ d.sessions[token].device \notin DOMAIN d.devices
       \/ d.devices[d.sessions[token].device].user \notin DOMAIN d.users
    THEN NoOne
    ELSE LET device == d.sessions[token].device
             user == d.devices[device].user
         IN  [session |-> d.sessions[token], device |-> d.devices[device],
              user |-> MapUser(d.users[user]), deviceId |-> device, userId |-> user]

OpenAsks(d) == Where(d.asks, LAMBDA r : ~r.dismissed)

ListOpenAsks(d) == [a \in OpenAsks(d) |-> d.asks[a]]

ListDirectory(d) ==
    [u \in DOMAIN d.users |->
        [row |-> MapUser(d.users[u]),
         devices |-> [v \in Where(d.devices, LAMBDA r : r.user = u) |-> d.devices[v]]]]

ListAudit(d) == d.audit

\* A vault is named by whose it is: none while its columns are NULL.
VaultFromUser(d, id) == IF d.users[id].vault THEN id ELSE NoOne

GetVault(d, id) == IF id \in DOMAIN d.users THEN VaultFromUser(d, id) ELSE NoOne

VaultByHandle(d, handle) ==
    LET u == ByHandle(d, handle) IN IF u = NoOne THEN NoOne ELSE VaultFromUser(d, u)

Record(row) == [user |-> row.user, wrap |-> row.wrap, expires |-> row.expires]

GetPairing(d, id) == IF id \in DOMAIN d.pairings THEN Record(d.pairings[id]) ELSE NoOne

PairingByCode(d, code) ==
    LET ids == Where(d.pairings, LAMBDA r : r.code = code)
    IN  IF ids = {} THEN NoOne ELSE Record(d.pairings[CHOOSE p \in ids : TRUE])

ListItems(d, owner) ==
    [x \in Where(d.items, LAMBDA r : r.owner = owner) |-> d.items[x]]

PushTargets(d, user, except) ==
    {e \in DOMAIN d.pushes :
        \E v \in DOMAIN d.devices \ {except} :
            d.pushes[e] = v /\ d.devices[v].user = user /\ ~d.devices[v].revoked}

ListUploads(d) ==
    [x \in Where(d.uploads, LAMBDA r : r.user \in DOMAIN d.users) |->
        LET row == d.uploads[x]
        IN  [user |-> row.user, handle |-> d.users[row.user].handle, status |-> row.status,
             decidedBy |-> row.decidedBy, granted |-> row.granted]]

GetBlob(d, id) == Seek(d.blobs, id)

UsageSnapshot(d) ==
    LET committed == Where(d.blobs, LAMBDA r : r.state = "committed")
    IN  <<Bytes(d.blobs, committed), Bytes(d.blobs, DOMAIN d.blobs \ committed)>>

----------------------------------------------------------------------------
(* Members.                                                                *)

InsertAudit(d, actor) ==
    Commit(d, actor \in DOMAIN d.users \cup {NoOne},
           Answer([d EXCEPT !.audit = @ \cup {actor}], <<"ok">>))

CreateInvite(d, id, by, expires) ==
    Commit(d, by \in DOMAIN d.users,
           Answer([d EXCEPT !.invites = With(@, id,
                      [by |-> by, expires |-> expires, redeemedBy |-> NoOne,
                       redeemed |-> FALSE, revoked |-> FALSE])],
                  <<"ok">>))

RevokeInvite(d, id) ==
    IF id \notin DOMAIN d.invites \/ d.invites[id].redeemed
    THEN Answer(d, <<"invite_invalid">>)
    ELSE Answer([d EXCEPT !.invites[id].revoked = TRUE], <<"ok">>)

CreateAsk(d, id) ==
    Answer([d EXCEPT !.asks = With(@, id, [dismissed |-> FALSE])], <<"ok">>)

DismissAsk(d, id) ==
    IF id \notin DOMAIN d.asks \/ d.asks[id].dismissed
    THEN Answer(d, <<"not_found">>)
    ELSE Answer([d EXCEPT !.asks[id].dismissed = TRUE], <<"ok">>)

InsertDevice(d, device, user) ==
    [d EXCEPT !.devices = With(@, device, [user |-> user, revoked |-> FALSE])]

InsertSession(d, token, device, expires) ==
    [d EXCEPT !.sessions = With(@, token, [device |-> device, expires |-> expires])]

AddDeviceAndSession(d, user, device, token, expires) ==
    Commit(d, user \in DOMAIN d.users /\ device \notin DOMAIN d.devices,
           Answer(InsertSession(InsertDevice(d, device, user), token, device, expires),
                  <<"ok">>))

CompleteRegistration(d, invite, user, handle, device, token, expires, now) ==
    IF InviteState(Seek(d.invites, invite), now) # "ok"
    THEN Answer(d, <<"invite_invalid">>)
    ELSE IF ByHandle(d, handle) # NoOne THEN Answer(d, <<"handle_taken">>)
    ELSE LET inserted == [d EXCEPT !.users = With(@, user, NewUser(handle, FALSE))]
             redeemed == [inserted EXCEPT !.invites[invite] =
                             [@ EXCEPT !.redeemedBy = user, !.redeemed = TRUE]]
         IN  AddDeviceAndSession(redeemed, user, device, token, expires)

CompleteAdminEnroll(d, user, device, token, expires) ==
    IF CountDevices(d, user) > 0 THEN Answer(d, <<"admin_enrolled">>)
    ELSE AddDeviceAndSession(d, user, device, token, expires)

CompleteLogin(d, device, token, expires) ==
    Commit(d, device \in DOMAIN d.devices,
           Answer(InsertSession(d, token, device, expires), <<"ok">>))

DeleteSession(d, token) == Answer([d EXCEPT !.sessions = Without(@, {token})], <<"ok">>)

TouchSession(d, token, expires) ==
    Answer([d EXCEPT !.sessions =
               Set(@, {token}, LAMBDA r : [r EXCEPT !.expires = expires])],
           <<"ok">>)

RevokeDevice(d, id) ==
    IF id \notin DOMAIN d.devices THEN Answer(d, <<"missing">>)
    ELSE IF d.devices[id].revoked THEN Answer(d, <<"already">>)
    ELSE Answer([d EXCEPT !.devices[id].revoked = TRUE,
                          !.sessions = Without(@, Where(@, LAMBDA r : r.device = id))],
                <<"ok", d.devices[id].user>>)

\* Mutant of Cascade: the schema declares devices.user_id without a key.
CascadeButDevices(d, id) ==
    LET Of(table) == Where(table, LAMBDA r : r.user = id)
    IN  [d EXCEPT !.users = Without(@, {id}),
                  !.items = Without(@, Where(@, LAMBDA r : r.owner = id)),
                  !.blobs = Without(@, Where(@, LAMBDA r : r.owner = id)),
                  !.uploads = Without(@, Of(@)),
                  !.pairings = Without(@, Of(@))]

\* The keys onto users with ON DELETE CASCADE, and onto devices and blobs.
Cascade(d, id) ==
    LET own == Where(d.devices, LAMBDA r : r.user = id)
        files == Where(d.blobs, LAMBDA r : r.owner = id)
        Of(table) == Where(table, LAMBDA r : r.user = id)
        items == Without(d.items, Where(d.items, LAMBDA r : r.owner = id))
    IN  [d EXCEPT !.users = Without(@, {id}),
                  !.devices = Without(@, own),
                  !.sessions = Without(@, Where(@, LAMBDA r : r.device \in own)),
                  !.pushes = Without(@, Where(@, LAMBDA v : v \in own)),
                  !.blobs = Without(@, files),
                  !.items = Set(items, Where(items, LAMBDA r : r.blob \in files),
                                LAMBDA r : [r EXCEPT !.blob = NoOne]),
                  !.uploads = Without(@, Of(@)),
                  !.pairings = Without(@, Of(@))]

\* The keys onto users that have no ON DELETE.
Referenced(d, id) ==
    \/ id \in d.audit
    \/ \E x \in DOMAIN d.invites : id \in {d.invites[x].by, d.invites[x].redeemedBy}
    \/ \E x \in DOMAIN d.uploads : d.uploads[x].decidedBy = id

\* Mutant of Detached: the log is left to name the user.
DetachedButLog(d, id) ==
    LET cleared == Set(d.invites, Where(d.invites, LAMBDA r : r.redeemedBy = id),
                       LAMBDA r : [r EXCEPT !.redeemedBy = NoOne])
    IN  [d EXCEPT !.uploads = Set(@, Where(@, LAMBDA r : r.decidedBy = id),
                                  LAMBDA r : [r EXCEPT !.decidedBy = NoOne]),
                  !.invites = Without(cleared, Where(cleared, LAMBDA r : r.by = id))]

\* The updates removeUser makes before it deletes the row.
Detached(d, id) ==
    LET cleared == Set(d.invites, Where(d.invites, LAMBDA r : r.redeemedBy = id),
                       LAMBDA r : [r EXCEPT !.redeemedBy = NoOne])
    IN  [d EXCEPT !.audit = {IF a = id THEN NoOne ELSE a : a \in @},
                  !.uploads = Set(@, Where(@, LAMBDA r : r.decidedBy = id),
                                  LAMBDA r : [r EXCEPT !.decidedBy = NoOne]),
                  !.invites = Without(cleared, Where(cleared, LAMBDA r : r.by = id))]

RemoveUser(d, id) ==
    IF id \notin DOMAIN d.users THEN Answer(d, <<"missing">>)
    ELSE IF d.users[id].admin /\ Where(d.users, LAMBDA r : r.admin) = {id}
    THEN Answer(d, <<"last_admin">>)
    ELSE LET deleted == Cascade(Detached(d, id), id)
         IN  Commit(d, ~Referenced(deleted, id), Answer(deleted, <<"ok">>))

----------------------------------------------------------------------------
(* Vaults and pairings.                                                    *)

SaveVault(d, user) ==
    IF user \notin DOMAIN d.users THEN Rolled(d)
    ELSE IF d.users[user].vault THEN Answer(d, <<"vault_exists">>)
    ELSE Answer([d EXCEPT !.users[user].vault = TRUE], <<"ok">>)

CreatePairing(d, id, code, expires) ==
    Commit(d, Where(d.pairings, LAMBDA r : r.code = code) = {},
           Answer([d EXCEPT !.pairings = With(@, id,
                      [user |-> NoOne, code |-> code, wrap |-> FALSE, expires |-> expires])],
                  <<"ok">>))

SavePairingWrap(d, id, user) ==
    IF id \notin DOMAIN d.pairings THEN Answer(d, <<"missing">>)
    ELSE IF d.pairings[id].wrap THEN Answer(d, <<"complete">>)
    ELSE Answer([d EXCEPT !.pairings[id] = [@ EXCEPT !.user = user, !.wrap = TRUE]], <<"ok">>)

DeletePairing(d, id) == Answer([d EXCEPT !.pairings = Without(@, {id})], <<"ok">>)

----------------------------------------------------------------------------
(* Items, subscriptions, requests, files.                                  *)

CreateItem(d, owner, id, row) ==
    IF id \notin DOMAIN d.items
    THEN Commit(d, owner \in DOMAIN d.users,
                Answer([d EXCEPT !.items = With(@, id, row)], <<"ok">>))
    ELSE Answer(d, <<IF d.items[id].owner # owner THEN "forbidden" ELSE "ok">>)

SetPreserveNotes(d, owner, enabled) ==
    Answer([d EXCEPT
               !.users = Set(@, {owner}, LAMBDA r : [r EXCEPT !.preserve = enabled]),
               !.items = Set(@, Where(@, LAMBDA r : r.owner = owner),
                             LAMBDA r : [r EXCEPT !.pinned = enabled])],
           <<"ok">>)

UpdateTextItem(d, owner, id, kind, size, now) ==
    IF Seek(ListItems(d, owner), id) = NoOne THEN Answer(d, <<"missing">>)
    ELSE LET row == d.items[id]
             updated == [row EXCEPT !.kind = kind, !.size = size]
         IN  IF row.kind \notin {"text", "link"} THEN Answer(d, <<"not_text">>)
             ELSE IF ~row.pinned /\ row.expires <= now THEN Answer(d, <<"expired">>)
             ELSE Answer([d EXCEPT !.items[id] = updated], <<"ok", updated>>)

ResetItemExpiry(d, owner, expires) ==
    LET mine == Where(d.items, LAMBDA r : r.owner = owner)
    IN  Answer([d EXCEPT !.items =
                   Set(@, mine, LAMBDA r : [r EXCEPT !.expires = expires])],
               <<"ok", Cardinality(mine)>>)

DeleteItem(d, owner, id) ==
    LET hit == Where(d.items, LAMBDA r : r.owner = owner) \cap {id}
    IN  Answer([d EXCEPT !.items = Without(@, hit)], <<hit # {}>>)

SavePush(d, endpoint, device) ==
    Commit(d, device \in DOMAIN d.devices,
           Answer([d EXCEPT !.pushes = With(@, endpoint, device)], <<"ok">>))

DeletePush(d, endpoint) ==
    Answer([d EXCEPT !.pushes = Without(@, {endpoint})], <<"ok">>)

CreateUpload(d, id, user) ==
    IF Where(d.uploads, LAMBDA r : r.user = user /\ r.status = "pending") # {}
    THEN Answer(d, <<"pending">>)
    ELSE Commit(d, user \in DOMAIN d.users,
                Answer([d EXCEPT !.uploads = With(@, id,
                           [user |-> user, status |-> "pending", decidedBy |-> NoOne,
                            granted |-> NoOne])],
                       <<"ok">>))

DecideUpload(d, id, by, status, granted) ==
    IF id \notin DOMAIN d.uploads THEN Answer(d, <<"missing">>)
    ELSE IF d.uploads[id].status # "pending" THEN Answer(d, <<"decided">>)
    ELSE LET user == d.uploads[id].user
             decided == [d EXCEPT !.uploads[id] = [@ EXCEPT !.status = status, !.decidedBy = by,
                                                       !.granted = granted]]
         IN  Commit(d, by \in DOMAIN d.users,
                    Answer(IF status = "approved"
                           THEN [decided EXCEPT !.users[user] =
                                    [@ EXCEPT !.canUpload = TRUE, !.quota = granted]]
                           ELSE decided,
                           <<"ok">>))

CreatePendingBlob(d, id, owner, size, now) ==
    Commit(d, owner \in DOMAIN d.users,
           Answer([d EXCEPT !.blobs = With(@, id,
                      [owner |-> owner, state |-> "pending", size |-> size, created |-> now])],
                  <<"ok">>))

\* The update of the blob has no condition on its state.
CommitBlobAndItem(d, blob, owner, bytes, id, expires, pinned) ==
    IF \/ owner \notin DOMAIN d.users
       \/ d.users[owner].used + bytes > d.users[owner].quota
    THEN Answer(d, <<"quota">>)
    ELSE LET updated == Set(d.blobs, {blob},
                            LAMBDA r : [r EXCEPT !.state = "committed", !.size = bytes])
             row == [owner |-> owner, kind |-> "file", blob |-> blob, size |-> bytes,
                     pinned |-> pinned, expires |-> expires]
         IN  Commit(d, blob \in DOMAIN d.blobs /\ id \notin DOMAIN d.items,
                    Answer([d EXCEPT !.blobs = updated,
                                     !.users[owner].used = @ + bytes,
                                     !.items = With(@, id, row)],
                           <<"ok">>))

\* items.blob_id is SET NULL when its blob goes.
Prune(d, now) ==
    LET plan == PlanPrune(now, d.items, d.blobs, d.pairings, d.sessions)
        items == Without(d.items, plan.items)
    IN  Answer([d EXCEPT !.items = Set(items, Where(items, LAMBDA r : r.blob \in plan.blobs),
                                       LAMBDA r : [r EXCEPT !.blob = NoOne]),
                         !.pairings = Without(@, plan.pairings),
                         !.sessions = Without(@, plan.sessions),
                         !.blobs = Without(@, plan.blobs),
                         !.users = Refunded(@, plan.refund)],
               <<plan.keep, plan.blobs>>)
=============================================================================
