---------------------------- MODULE MemoryStore ----------------------------
(***************************************************************************)
(* MemoryAuthStore, the store the tests of the web app run on: maps and    *)
(* arrays, and a cascade spelled out by removeUser.  Each operator is one  *)
(* method on the store m; m.codes is pairingCodes, from a code to the id   *)
(* of its pairing, m.audit holds whom the log names, and m.vaults whose    *)
(* recovery record is kept beside the user's hasVault flag.                *)
(***************************************************************************)
EXTENDS Rows

StoreOK(m) ==
    /\ All(m.users, Users, LAMBDA r :
           /\ r.handle \in Handles
           /\ {r.admin, r.canUpload, r.hasVault, r.preserve} \subseteq BOOLEAN
           /\ {r.quota, r.used} \subseteq Nat)
    /\ All(m.invites, Invites, InviteRow)
    /\ All(m.asks, Asks, LAMBDA r : r \in [dismissed : BOOLEAN])
    /\ All(m.devices, Devices, DeviceRow)
    /\ All(m.sessions, Tokens, SessionRow)
    /\ m.audit \subseteq Users \cup {NoOne}
    /\ m.vaults \subseteq Users
    /\ All(m.pairings, Pairings, LAMBDA r :
           r.user \in Users \cup {NoOne} /\ r.wrap \in BOOLEAN /\ r.expires \in Times)
    /\ All(m.codes, Codes, LAMBDA p : p \in Pairings)
    /\ All(m.items, Items, StoredItem)
    /\ All(m.pushes, Endpoints, LAMBDA d : d \in Devices)
    /\ All(m.uploads, Uploads, LAMBDA r : UploadRow(r) /\ r.handle \in Handles)
    /\ All(m.blobs, Blobs, BlobRow)

NewUser(handle, admin) ==
    [handle |-> handle, admin |-> admin, canUpload |-> admin, hasVault |-> FALSE,
     quota |-> IF admin THEN Max(Sizes) ELSE 0, used |-> 0, preserve |-> FALSE]

Fresh(handle) ==
    [users |-> With(NoRows, Admin, NewUser(handle, TRUE)), invites |-> NoRows, asks |-> NoRows,
     devices |-> NoRows, sessions |-> NoRows, audit |-> {}, vaults |-> {},
     pairings |-> NoRows, codes |-> NoRows, items |-> NoRows, pushes |-> NoRows,
     uploads |-> NoRows, blobs |-> NoRows]

----------------------------------------------------------------------------
(* Reading.                                                                *)

ByHandle(m, handle) ==
    LET found == Where(m.users, LAMBDA r : r.handle = handle)
    IN  IF found = {} THEN NoOne ELSE CHOOSE u \in found : TRUE

GetInvite(m, id) == Seek(m.invites, id)

ListInvites(m) == m.invites

GetUser(m, id) == Seek(m.users, id)

DeviceByCredential(m, id) ==
    IF id \notin DOMAIN m.devices THEN NoOne
    ELSE IF m.devices[id].user \notin DOMAIN m.users THEN NoOne
    ELSE [row |-> m.devices[id], user |-> m.users[m.devices[id].user]]

CountDevices(m, user) == Cardinality(Where(m.devices, LAMBDA r : r.user = user))

SessionOf(m, token) ==
    IF \/ token \notin DOMAIN m.sessions
       \/ m.sessions[token].device \notin DOMAIN m.devices
       \/ m.devices[m.sessions[token].device].user \notin DOMAIN m.users
    THEN NoOne
    ELSE LET device == m.sessions[token].device
             user == m.devices[device].user
         IN  [session |-> m.sessions[token], device |-> m.devices[device],
              user |-> m.users[user], deviceId |-> device, userId |-> user]

OpenAsks(m) == Where(m.asks, LAMBDA r : ~r.dismissed)

ListOpenAsks(m) == [a \in OpenAsks(m) |-> m.asks[a]]

ListDirectory(m) ==
    [u \in DOMAIN m.users |->
        [row |-> m.users[u],
         devices |-> [d \in Where(m.devices, LAMBDA r : r.user = u) |-> m.devices[d]]]]

ListAudit(m) == m.audit

GetVault(m, id) == IF id \in m.vaults THEN id ELSE NoOne

VaultByHandle(m, handle) ==
    IF ByHandle(m, handle) \in m.vaults THEN ByHandle(m, handle) ELSE NoOne

GetPairing(m, id) == Seek(m.pairings, id)

PairingByCode(m, code) ==
    IF code \in DOMAIN m.codes THEN Seek(m.pairings, m.codes[code]) ELSE NoOne

ListItems(m, owner) ==
    [x \in Where(m.items, LAMBDA r : r.owner = owner) |-> m.items[x]]

PushTargets(m, user, except) ==
    {e \in DOMAIN m.pushes :
        /\ m.pushes[e] \in DOMAIN m.devices
        /\ m.pushes[e] # except
        /\ m.devices[m.pushes[e]].user = user
        /\ ~m.devices[m.pushes[e]].revoked}

ListUploads(m) == m.uploads

GetBlob(m, id) == Seek(m.blobs, id)

UsageSnapshot(m) ==
    LET committed == Where(m.blobs, LAMBDA r : r.state = "committed")
    IN  <<Bytes(m.blobs, committed), Bytes(m.blobs, DOMAIN m.blobs \ committed)>>

----------------------------------------------------------------------------
(* Members.                                                                *)

InsertAudit(m, actor) == Answer([m EXCEPT !.audit = @ \cup {actor}], <<"ok">>)

CreateInvite(m, id, by, expires) ==
    Answer([m EXCEPT !.invites = With(@, id,
               [by |-> by, expires |-> expires, redeemedBy |-> NoOne,
                redeemed |-> FALSE, revoked |-> FALSE])],
           <<"ok">>)

RevokeInvite(m, id) ==
    IF id \notin DOMAIN m.invites \/ m.invites[id].redeemed
    THEN Answer(m, <<"invite_invalid">>)
    ELSE Answer([m EXCEPT !.invites[id].revoked = TRUE], <<"ok">>)

CreateAsk(m, id) ==
    Answer([m EXCEPT !.asks = With(@, id, [dismissed |-> FALSE])], <<"ok">>)

DismissAsk(m, id) ==
    IF id \notin DOMAIN m.asks \/ m.asks[id].dismissed
    THEN Answer(m, <<"not_found">>)
    ELSE Answer([m EXCEPT !.asks[id].dismissed = TRUE], <<"ok">>)

AddDevice(m, device, user) ==
    [m EXCEPT !.devices = With(@, device, [user |-> user, revoked |-> FALSE])]

AddSession(m, token, device, expires) ==
    [m EXCEPT !.sessions = With(@, token, [device |-> device, expires |-> expires])]

AddDeviceAndSession(m, user, device, token, expires) ==
    Answer(AddSession(AddDevice(m, device, user), token, device, expires), <<"ok">>)

CompleteRegistration(m, invite, user, handle, device, token, expires, now) ==
    IF InviteState(Seek(m.invites, invite), now) # "ok"
    THEN Answer(m, <<"invite_invalid">>)
    ELSE IF ByHandle(m, handle) # NoOne THEN Answer(m, <<"handle_taken">>)
    ELSE AddDeviceAndSession(
             [m EXCEPT !.users = With(@, user, NewUser(handle, FALSE)),
                       !.invites[invite] = [@ EXCEPT !.redeemedBy = user, !.redeemed = TRUE]],
             user, device, token, expires)

CompleteAdminEnroll(m, user, device, token, expires) ==
    IF CountDevices(m, user) > 0 THEN Answer(m, <<"admin_enrolled">>)
    ELSE AddDeviceAndSession(m, user, device, token, expires)

CompleteLogin(m, device, token, expires) ==
    Answer(IF device \in DOMAIN m.devices THEN AddSession(m, token, device, expires) ELSE m,
           <<"ok">>)

DeleteSession(m, token) == Answer([m EXCEPT !.sessions = Without(@, {token})], <<"ok">>)

TouchSession(m, token, expires) ==
    Answer([m EXCEPT !.sessions =
               Set(@, {token}, LAMBDA r : [r EXCEPT !.expires = expires])],
           <<"ok">>)

\* Mutant of RevokeDevice: the sessions of the device stay.
RevokeDeviceOnly(m, id) ==
    IF id \notin DOMAIN m.devices THEN Answer(m, <<"missing">>)
    ELSE IF m.devices[id].revoked THEN Answer(m, <<"already">>)
    ELSE Answer([m EXCEPT !.devices[id].revoked = TRUE], <<"ok", m.devices[id].user>>)

RevokeDevice(m, id) ==
    IF id \notin DOMAIN m.devices THEN Answer(m, <<"missing">>)
    ELSE IF m.devices[id].revoked THEN Answer(m, <<"already">>)
    ELSE Answer([m EXCEPT !.devices[id].revoked = TRUE,
                          !.sessions = Without(@, Where(@, LAMBDA r : r.device = id))],
                <<"ok", m.devices[id].user>>)

\* removeUser leaves the member's pairings and push subscriptions.
RemoveUser(m, id) ==
    LET own == Where(m.devices, LAMBDA r : r.user = id)
        Owned(table) == Where(table, LAMBDA r : r.owner = id)
        others == Without(m.uploads, Where(m.uploads, LAMBDA r : r.user = id))
        invites == Without(m.invites, Where(m.invites, LAMBDA r : r.by = id))
    IN  IF id \notin DOMAIN m.users THEN Answer(m, <<"missing">>)
        ELSE IF m.users[id].admin /\ Where(m.users, LAMBDA r : r.admin) = {id}
        THEN Answer(m, <<"last_admin">>)
        ELSE Answer([m EXCEPT
                 !.users = Without(@, {id}),
                 !.vaults = @ \ {id},
                 !.devices = Without(@, own),
                 !.sessions = Without(@, Where(@, LAMBDA r : r.device \in own)),
                 !.items = Without(@, Owned(@)),
                 !.blobs = Without(@, Owned(@)),
                 !.uploads = Set(others, Where(others, LAMBDA r : r.decidedBy = id),
                                 LAMBDA r : [r EXCEPT !.decidedBy = NoOne]),
                 !.invites = Set(invites, Where(invites, LAMBDA r : r.redeemedBy = id),
                                 LAMBDA r : [r EXCEPT !.redeemedBy = NoOne]),
                 !.audit = {IF a = id THEN NoOne ELSE a : a \in @}],
                 <<"ok">>)

----------------------------------------------------------------------------
(* Vaults and pairings.                                                    *)

SaveVault(m, user) ==
    IF user \in m.vaults THEN Answer(m, <<"vault_exists">>)
    ELSE Answer([m EXCEPT !.vaults = @ \cup {user},
                          !.users = Set(@, {user}, LAMBDA r : [r EXCEPT !.hasVault = TRUE])],
                <<"ok">>)

CreatePairing(m, id, code, expires) ==
    Answer([m EXCEPT !.pairings = With(@, id, [user |-> NoOne, wrap |-> FALSE, expires |-> expires]),
                     !.codes = With(@, code, id)],
           <<"ok">>)

SavePairingWrap(m, id, user) ==
    IF id \notin DOMAIN m.pairings THEN Answer(m, <<"missing">>)
    ELSE IF m.pairings[id].wrap THEN Answer(m, <<"complete">>)
    ELSE Answer([m EXCEPT !.pairings[id] = [@ EXCEPT !.user = user, !.wrap = TRUE]], <<"ok">>)

DeletePairing(m, id) ==
    Answer([m EXCEPT !.pairings = Without(@, {id}),
                     !.codes = Without(@, Where(@, LAMBDA p : p = id))],
           <<"ok">>)

----------------------------------------------------------------------------
(* Items, subscriptions, requests, files.                                  *)

CreateItem(m, owner, id, row) ==
    IF id \in DOMAIN m.items
    THEN Answer(m, <<IF m.items[id].owner = owner THEN "ok" ELSE "forbidden">>)
    ELSE Answer([m EXCEPT !.items = With(@, id, row)], <<"ok">>)

SetPreserveNotes(m, owner, enabled) ==
    Answer([m EXCEPT
               !.users = Set(@, {owner}, LAMBDA r : [r EXCEPT !.preserve = enabled]),
               !.items = Set(@, Where(@, LAMBDA r : r.owner = owner),
                             LAMBDA r : [r EXCEPT !.pinned = enabled])],
           <<"ok">>)

UpdateTextItem(m, owner, id, kind, size, now) ==
    IF id \notin DOMAIN m.items \/ Seek(ListItems(m, owner), id) = NoOne
    THEN Answer(m, <<"missing">>)
    ELSE IF m.items[id].kind = "file" THEN Answer(m, <<"not_text">>)
    ELSE IF ~m.items[id].pinned /\ m.items[id].expires <= now
    THEN Answer(m, <<"expired">>)
    ELSE LET row == [m.items[id] EXCEPT !.kind = kind, !.size = size]
         IN  Answer([m EXCEPT !.items[id] = row], <<"ok", row>>)

ResetItemExpiry(m, owner, expires) ==
    LET mine == Where(m.items, LAMBDA r : r.owner = owner)
    IN  Answer([m EXCEPT !.items =
                   Set(@, mine, LAMBDA r : [r EXCEPT !.expires = expires])],
               <<"ok", Cardinality(mine)>>)

DeleteItem(m, owner, id) ==
    LET hit == {id} \cap DOMAIN ListItems(m, owner)
    IN  Answer([m EXCEPT !.items = Without(@, hit)], <<hit # {}>>)

SavePush(m, endpoint, device) ==
    Answer([m EXCEPT !.pushes = With(@, endpoint, device)], <<"ok">>)

DeletePush(m, endpoint) ==
    Answer([m EXCEPT !.pushes = Without(@, {endpoint})], <<"ok">>)

CreateUpload(m, id, user) ==
    IF Where(m.uploads, LAMBDA r : r.user = user /\ r.status = "pending") # {}
    THEN Answer(m, <<"pending">>)
    ELSE Answer([m EXCEPT !.uploads = With(@, id,
                    [user |-> user, handle |-> m.users[user].handle, status |-> "pending",
                     decidedBy |-> NoOne, granted |-> NoOne])],
                <<"ok">>)

DecideUpload(m, id, by, status, granted) ==
    IF id \notin DOMAIN m.uploads THEN Answer(m, <<"missing">>)
    ELSE IF m.uploads[id].status # "pending" THEN Answer(m, <<"decided">>)
    ELSE Answer([m EXCEPT
             !.uploads = Set(@, {id}, LAMBDA r : [r EXCEPT !.status = status, !.decidedBy = by,
                                                            !.granted = granted]),
             !.users = Set(@, IF status = "approved" THEN {m.uploads[id].user} ELSE {},
                           LAMBDA r : [r EXCEPT !.canUpload = TRUE, !.quota = granted])],
             <<"ok">>)

CreatePendingBlob(m, id, owner, size, now) ==
    Answer([m EXCEPT !.blobs = With(@, id,
               [owner |-> owner, state |-> "pending", size |-> size, created |-> now])],
           <<"ok">>)

CommitBlobAndItem(m, blob, owner, bytes, id, expires, pinned) ==
    IF \/ owner \notin DOMAIN m.users
       \/ m.users[owner].used + bytes > m.users[owner].quota
       \/ blob \notin DOMAIN m.blobs \/ m.blobs[blob].state # "pending"
    THEN Answer(m, <<"quota">>)
    ELSE Answer([m EXCEPT
             !.blobs[blob] = [@ EXCEPT !.state = "committed", !.size = bytes],
             !.users[owner].used = @ + bytes,
             !.items = With(@, id,
                 [owner |-> owner, kind |-> "file", blob |-> blob, size |-> bytes,
                  pinned |-> pinned, expires |-> expires])],
             <<"ok">>)

Prune(m, now) ==
    LET plan == PlanPrune(now, m.items, m.blobs, m.pairings, m.sessions)
    IN  Answer([m EXCEPT !.items = Without(@, plan.items),
                         !.pairings = Without(@, plan.pairings),
                         !.sessions = Without(@, plan.sessions),
                         !.blobs = Without(@, plan.blobs),
                         !.users = Refunded(@, plan.refund)],
               <<plan.keep, plan.blobs>>)
=============================================================================
