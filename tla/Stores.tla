------------------------------- MODULE Stores ------------------------------
(***************************************************************************)
(* The two implementations of AuthStore and VaultStore side by side.  The  *)
(* web app's tests run its services on MemoryAuthStore; production runs    *)
(* them on DrizzleAuthStore.  Every step is one request a service answers, *)
(* with the store calls it makes in their order, made on both stores one   *)
(* request at a time (how requests interleave is Membership's, Requests'   *)
(* and BlobStore's subject).  What a signed-in caller may ask is read from *)
(* the session on Postgres.                                                *)
(***************************************************************************)
EXTENDS Rows

CONSTANTS
    MaxAsks,    \* ASK_OPEN_MAX
    MaxCalls,   \* bound: calls after the start that change a store
    MaxClock,   \* bound: the clock stops there
    Starts      \* which of the histories below a run starts from

\* Rows and bounds: every row fits its column, and NoOne is none of them.
ASSUME RowsAssumption ==
    /\ Admin \in Users /\ NoOne \notin Users \cup Blobs
    /\ NoOne \notin [user : Users \cup {NoOne}, wrap : BOOLEAN, expires : Times]
    /\ NoOne \notin [by : Users, expires : Times, redeemedBy : Users \cup {NoOne},
                     redeemed : BOOLEAN, revoked : BOOLEAN]
    /\ IsFiniteSet(Blobs)
    /\ Sizes \subseteq Nat /\ 1 \in Sizes /\ \E top \in Sizes : \A s \in Sizes : s <= top
    /\ MaxCalls \in Nat /\ MaxClock \in Nat
    /\ Times \subseteq Nat /\ 0 .. MaxClock + 2 \subseteq Times

\* Ids are random: no two tables share one.
ASSUME IdsAssumption ==
    LET pools == <<Users, Invites, Asks, Devices, Tokens, Pairings, Items, Blobs, Uploads>>
    IN  \A i, j \in DOMAIN pools : i # j => pools[i] \cap pools[j] = {}

\* A run that starts settled has an id left for each row it starts with.
ASSUME StartsAssumption ==
    /\ Starts \subseteq {"seeded", "settled"} /\ Handles # {}
    /\ "settled" \in Starts =>
          /\ \A pool \in {Handles, Devices, Tokens, Invites} : \E x, y \in pool : x # y
          /\ {} \notin {Users \ {Admin}, Items, Pairings, Codes, Uploads, Blobs}

M == INSTANCE MemoryStore
D == INSTANCE DrizzleStore

VARIABLES
    mem,    \* the MemoryAuthStore
    db,     \* the tables on Postgres
    clock,
    spent,  \* ids that have been given to a row
    known,  \* ids that a row of Postgres has had: a caller may name them
    sealed, \* members for whom a recovery challenge may have been sealed
    calls,  \* calls after the start that changed a store
    said    \* the answers of the last call, when the stores gave different ones

vars == <<mem, db, clock, spent, known, sealed, calls, said>>

Soon == clock + 1   \* invites, pairings, notes
Later == clock + 2  \* sessions

\* Ids are random and never given twice; which one is next does not matter.
Ids(pool) ==
    IF pool \subseteq spent THEN {} ELSE {CHOOSE x \in pool \ spent : TRUE}

Named(d) ==
    UNION {DOMAIN d.users, DOMAIN d.invites, DOMAIN d.asks, DOMAIN d.devices,
           DOMAIN d.sessions, DOMAIN d.pairings, DOMAIN d.items, DOMAIN d.uploads}

Both(m, d, user) ==
    /\ calls < MaxCalls
    /\ calls' = IF m.to = mem /\ d.to = db THEN calls ELSE calls + 1
    /\ mem' = m.to
    /\ db' = d.to
    /\ said' = IF m.says = d.says THEN {} ELSE {[mem |-> m.says, db |-> d.says, about |-> user]}
    /\ known' = known \cup Named(d.to)
    /\ sealed' = sealed \cup Where(d.to.users, LAMBDA r : r.vault)

\* A service writes to the log after a call that succeeded.
MLogged(m, actor) ==
    IF m.says[1] = "ok" THEN Answer(M!InsertAudit(m.to, actor).to, m.says) ELSE m
DLogged(d, actor) ==
    IF d.says[1] # "ok" THEN d
    ELSE LET logged == D!InsertAudit(d.to, actor)
         IN  Answer(logged.to, IF logged.says[1] = "ok" THEN d.says ELSE logged.says)
Logged(m, d, actor, user) == Both(MLogged(m, actor), DLogged(d, actor), user)

Keeps == UNCHANGED <<clock, spent>>
Takes(ids) ==
    IF mem' = mem /\ db' = db THEN Keeps
    ELSE /\ spent' = spent \cup ids
         /\ UNCHANGED clock

\* requireSession and requireCtx: no user is ever suspended.
Signed ==
    {c \in {D!SessionOf(db, t) : t \in DOMAIN db.sessions} \ {NoOne} :
        c.session.expires > clock /\ ~c.device.revoked}
Callers == {c.userId : c \in Signed}
AdminCallers == {u \in Callers : db.users[u].admin}

----------------------------------------------------------------------------
(* AuthService.                                                            *)

CreateInvite ==
    \E a \in AdminCallers, i \in Ids(Invites) :
        /\ Logged(M!CreateInvite(mem, i, a, Soon), D!CreateInvite(db, i, a, Soon), a, a)
        /\ Takes({i})

RevokeInvite ==
    \E a \in AdminCallers, i \in Invites \cap known :
        /\ Logged(M!RevokeInvite(mem, i), D!RevokeInvite(db, i), a, a)
        /\ Keeps

CreateAsk ==
    \E i \in Ids(Asks) :
        /\ Cardinality(D!OpenAsks(db)) < MaxAsks
        /\ Logged(M!CreateAsk(mem, i), D!CreateAsk(db, i), NoOne, NoOne)
        /\ Takes({i})

DismissAsk ==
    \E a \in AdminCallers, i \in Asks \cap known :
        /\ Logged(M!DismissAsk(mem, i), D!DismissAsk(db, i), a, a)
        /\ Keeps

\* registerVerify: the invite was good when the challenge was sealed.
RegisterVerify ==
    \E i \in Invites \cap known, h \in Handles, u \in Ids(Users), v \in Ids(Devices),
       t \in Ids(Tokens) :
        /\ Logged(M!CompleteRegistration(mem, i, u, h, v, t, Later, clock),
                  D!CompleteRegistration(db, i, u, h, v, t, Later, clock), u, u)
        /\ Takes({u, v, t})

AdminEnrollVerify ==
    \E v \in Ids(Devices), t \in Ids(Tokens) :
        /\ Logged(M!CompleteAdminEnroll(mem, Admin, v, t, Later),
                  D!CompleteAdminEnroll(db, Admin, v, t, Later), Admin, Admin)
        /\ Takes({v, t})

LoginVerify ==
    \E v \in DOMAIN db.devices, t \in Ids(Tokens) :
        /\ ~D!DeviceByCredential(db, v).row.revoked
        /\ Logged(M!CompleteLogin(mem, v, t, Later), D!CompleteLogin(db, v, t, Later),
                  db.devices[v].user, db.devices[v].user)
        /\ Takes({t})

Logout ==
    \E t \in Tokens \cap known :
        /\ Both(M!DeleteSession(mem, t), D!DeleteSession(db, t), NoOne)
        /\ Keeps

Me ==
    \E t \in DOMAIN db.sessions :
        /\ D!SessionOf(db, t) \in Signed
        /\ Both(M!TouchSession(mem, t, Later), D!TouchSession(db, t, Later), NoOne)
        /\ Keeps

RevokeDevice ==
    \E a \in AdminCallers, v \in Devices \cap known :
        /\ Logged(M!RevokeDevice(mem, v), D!RevokeDevice(db, v), a, a)
        /\ Keeps

RemoveUser ==
    \E a \in AdminCallers, u \in Users \cap known :
        /\ Logged(M!RemoveUser(mem, u), D!RemoveUser(db, u), a, a)
        /\ Keeps

DeleteAccount ==
    \E u \in Callers :
        /\ Logged(M!RemoveUser(mem, u), D!RemoveUser(db, u), NoOne, NoOne)
        /\ Keeps

----------------------------------------------------------------------------
(* VaultService.                                                           *)

PutVault ==
    \E u \in Callers :
        /\ Both(M!SaveVault(mem, u), D!SaveVault(db, u), u)
        /\ Keeps

\* mintUnusedPairingCode
Unused(code) == D!PairingByCode(db, code) = NoOne

StartPairing ==
    \E p \in Ids(Pairings), c \in Codes :
        /\ Unused(c)
        /\ Both(M!CreatePairing(mem, p, c, Soon), D!CreatePairing(db, p, c, Soon), NoOne)
        /\ Takes({p})

\* A pairing of a member who was removed stays in memory: whose it was.
Whose(p) == IF p \in DOMAIN mem.pairings THEN mem.pairings[p].user ELSE NoOne

PostWrap ==
    \E u \in Callers, p \in Pairings \cap known :
        /\ p \in DOMAIN db.pairings => db.pairings[p].expires > clock
        /\ Both(M!SavePairingWrap(mem, p, u), D!SavePairingWrap(db, p, u), Whose(p))
        /\ Keeps

\* pairingRegisterVerify: the challenge was sealed while p held u's wrap.
PairingRegisterVerify ==
    \E p \in Pairings \cap known, v \in Ids(Devices), t \in Ids(Tokens) :
        LET u == Whose(p)
            stored == M!AddDeviceAndSession(mem, u, v, t, Later)
            inserted == D!AddDeviceAndSession(db, u, v, t, Later)
        IN  /\ u # NoOne
            /\ mem.pairings[p].expires > clock
            /\ Both(Answer(M!DeletePairing(stored.to, p).to, stored.says),
                    IF p \notin DOMAIN db.pairings THEN Answer(db, <<"missing">>)
                    ELSE Answer(D!DeletePairing(inserted.to, p).to, inserted.says), u)
            /\ Takes({v, t})

\* recoveryRegisterVerify: u had a vault when the challenge was sealed.
RecoveryRegisterVerify ==
    \E u \in sealed, v \in Ids(Devices), t \in Ids(Tokens) :
        /\ Both(M!AddDeviceAndSession(mem, u, v, t, Later),
                D!AddDeviceAndSession(db, u, v, t, Later), u)
        /\ Takes({v, t})

\* keepStored
Keep(u) == db.users[u].admin /\ db.users[u].preserve

\* A client names its note; a queued note is sent again under the same name.
CreateItem ==
    \E u \in Callers, x \in Ids(Items) \cup (Items \cap known) :
        LET row == [owner |-> u, kind |-> "text", blob |-> NoOne, size |-> 1,
                    pinned |-> Keep(u), expires |-> Soon]
        IN  /\ db.users[u].vault
            /\ Both(M!CreateItem(mem, u, x, row), D!CreateItem(db, u, x, row), u)
            /\ IF x \in known THEN Keeps ELSE Takes({x})

UpdateItem ==
    \E u \in Callers, x \in Items \cap known, s \in Sizes :
        /\ db.users[u].vault
        /\ Both(M!UpdateTextItem(mem, u, x, "link", s, clock),
                D!UpdateTextItem(db, u, x, "link", s, clock), u)
        /\ Keeps

DeleteItem ==
    \E u \in Callers, x \in Items \cap known :
        /\ Both(M!DeleteItem(mem, u, x), D!DeleteItem(db, u, x), u)
        /\ Keeps

SetPreserveNotes ==
    \E u \in AdminCallers, on \in BOOLEAN :
        /\ Both(M!SetPreserveNotes(mem, u, on), D!SetPreserveNotes(db, u, on), u)
        /\ Keeps

ResetItemExpiry ==
    \E u \in Callers :
        /\ Both(M!ResetItemExpiry(mem, u, Soon), D!ResetItemExpiry(db, u, Soon), u)
        /\ Keeps

SubscribePush ==
    \E c \in Signed, e \in Endpoints :
        /\ Both(M!SavePush(mem, e, c.deviceId), D!SavePush(db, e, c.deviceId), c.userId)
        /\ Keeps

\* The push service answered 404 or 410.
EndpointGone ==
    \E e \in DOMAIN db.pushes :
        /\ Both(M!DeletePush(mem, e), D!DeletePush(db, e), NoOne)
        /\ Keeps

RequestUpload ==
    \E u \in Callers, r \in Ids(Uploads) :
        /\ Logged(M!CreateUpload(mem, r, u), D!CreateUpload(db, r, u), u, u)
        /\ Takes({r})

DecideUpload ==
    \E a \in AdminCallers, r \in Uploads \cap known,
       verdict \in ({"approved"} \X Sizes) \cup {<<"denied", NoOne>>} :
        /\ Logged(M!DecideUpload(mem, r, a, verdict[1], verdict[2]),
                  D!DecideUpload(db, r, a, verdict[1], verdict[2]), a, a)
        /\ Keeps

UploadIntent ==
    \E u \in Callers, b \in Ids(Blobs), s \in Sizes :
        /\ db.users[u].canUpload
        /\ db.users[u].used + s <= db.users[u].quota
        /\ Both(M!CreatePendingBlob(mem, b, u, s, clock),
                D!CreatePendingBlob(db, b, u, s, clock), u)
        /\ Takes({b})

CommitUpload ==
    \E u \in Callers, b \in DOMAIN db.blobs, x \in Ids(Items), s \in Sizes :
        /\ db.users[u].canUpload
        /\ D!GetBlob(db, b).owner = u
        /\ D!GetBlob(db, b).state = "pending"
        /\ s <= D!GetBlob(db, b).size
        /\ Both(M!CommitBlobAndItem(mem, b, u, s, x, Soon, Keep(u)),
                D!CommitBlobAndItem(db, b, u, s, x, Soon, Keep(u)), u)
        /\ Takes({x})

Prune ==
    /\ Both(M!Prune(mem, clock), D!Prune(db, clock), NoOne)
    /\ Keeps

Tick ==
    /\ clock < MaxClock
    /\ clock' = clock + 1
    /\ UNCHANGED <<mem, db, spent, known, sealed, calls, said>>

----------------------------------------------------------------------------
(* What the services show of what a store answers.                         *)

InviteList(rows) ==
    [i \in DOMAIN rows |-> [expires |-> rows[i].expires, redeemed |-> rows[i].redeemed,
                            revoked |-> rows[i].revoked]]

AskList(asks) == DOMAIN asks

\* listAudit: who acted, NoOne where the member is gone.
AuditList(log) == {[actor |-> entry] : entry \in log}

\* getRecovery
Recovery(vault) == IF vault = NoOne THEN "vault_missing" ELSE vault

UserList(directory) ==
    [users |-> [u \in DOMAIN directory |->
         LET row == directory[u].row
         IN  [handle |-> row.handle, admin |-> row.admin, canUpload |-> row.canUpload,
              quota |-> row.quota, used |-> row.used,
              devices |-> [v \in DOMAIN directory[u].devices |->
                              directory[u].devices[v].revoked]]],
     seatsClaimed |-> Cardinality(DOMAIN directory)]

AdminUsage(snapshot, directory) ==
    [committed |-> snapshot[1], pending |-> snapshot[2],
     seatsClaimed |-> Cardinality(DOMAIN directory),
     users |-> {<<directory[u].row.handle, directory[u].row.used, directory[u].row.quota>> :
                    u \in DOMAIN directory}]

\* listItems
LiveItems(rows) ==
    {[id |-> x, kind |-> rows[x].kind, size |-> rows[x].size, blob |-> rows[x].blob,
      expires |-> rows[x].expires] :
        x \in Where(rows, LAMBDA r : r.pinned \/ r.expires > clock)}

OwnerOf(row) == IF row = NoOne THEN NoOne ELSE row.user

PairingView(row, owner) ==
    [expires |-> row.expires, wrap |-> row.wrap,
     handle |-> IF owner = NoOne THEN NoOne ELSE owner.handle]

\* requireLivePairing, and the same checks of lookupPairing.
Polled(row, owner) ==
    IF row = NoOne THEN "pairing_missing"
    ELSE IF row.expires <= clock THEN "pairing_expired"
    ELSE PairingView(row, owner)

----------------------------------------------------------------------------
(* Where a run starts: the seeded admin and what is done before the run.   *)

Nth(pool) == CHOOSE x \in pool : TRUE
Second(pool) == CHOOSE x \in pool : x # Nth(pool)
Member == Nth(Users \ {Admin})
Handle == Nth(Handles)
Other == Second(Handles)
dev1 == Nth(Devices)
dev2 == Second(Devices)
tok1 == Nth(Tokens)
tok2 == Second(Tokens)
inv1 == Nth(Invites)
inv2 == Second(Invites)
note == Nth(Items)
pair == Nth(Pairings)
req == Nth(Uploads)
file == Nth(Blobs)
FirstNote == [owner |-> Member, kind |-> "text", blob |-> NoOne, size |-> 1,
              pinned |-> FALSE, expires |-> 1]

\* "seeded" is what the migration leaves.  "settled" is some use later: the
\* admin has invited twice and one invite is taken, the member has a vault, a
\* note, a wrap for a second device, a request approved and a file under way.
MSeeded == M!Fresh(Handle)
MJoined ==
    LET a == M!CompleteAdminEnroll(MSeeded, Admin, dev1, tok1, 2).to
        i == M!CreateInvite(M!CreateInvite(a, inv1, Admin, 1).to, inv2, Admin, 1).to
        r == M!CompleteRegistration(i, inv1, Member, Other, dev2, tok2, 2, 0).to
    IN  M!InsertAudit(M!InsertAudit(M!SaveVault(r, Member).to, Admin).to, Member).to
MSettled ==
    LET noted == M!CreateItem(MJoined, Member, note, FirstNote).to
        shown == M!CreatePairing(noted, pair, Nth(Codes), 1).to
        asked == M!CreateUpload(M!SavePairingWrap(shown, pair, Member).to, req, Member).to
        given == M!DecideUpload(asked, req, Admin, "approved", Max(Sizes)).to
    IN  M!CreatePendingBlob(given, file, Member, Max(Sizes), 0).to

DSeeded == D!Fresh(Handle)
DJoined ==
    LET a == D!CompleteAdminEnroll(DSeeded, Admin, dev1, tok1, 2).to
        i == D!CreateInvite(D!CreateInvite(a, inv1, Admin, 1).to, inv2, Admin, 1).to
        r == D!CompleteRegistration(i, inv1, Member, Other, dev2, tok2, 2, 0).to
    IN  D!InsertAudit(D!InsertAudit(D!SaveVault(r, Member).to, Admin).to, Member).to
DSettled ==
    LET noted == D!CreateItem(DJoined, Member, note, FirstNote).to
        shown == D!CreatePairing(noted, pair, Nth(Codes), 1).to
        asked == D!CreateUpload(D!SavePairingWrap(shown, pair, Member).to, req, Member).to
        given == D!DecideUpload(asked, req, Admin, "approved", Max(Sizes)).to
    IN  D!CreatePendingBlob(given, file, Member, Max(Sizes), 0).to

Given(start) ==
    CASE start = "seeded" -> [mem |-> MSeeded, db |-> DSeeded, ids |-> {Admin}]
      [] start = "settled" ->
            [mem |-> MSettled, db |-> DSettled,
             ids |-> {Admin, Member, dev1, dev2, tok1, tok2, inv1, inv2,
                      note, pair, req, file}]

Init ==
    \E start \in Starts :
        /\ mem = Given(start).mem
        /\ db = Given(start).db
        /\ spent = Given(start).ids
        /\ clock = 0
        /\ calls = 0
        /\ known = Named(Given(start).db)
        /\ sealed = Where(Given(start).db.users, LAMBDA r : r.vault)
        /\ said = {}

Next ==
    \/ CreateInvite \/ RevokeInvite \/ CreateAsk \/ DismissAsk
    \/ RegisterVerify \/ AdminEnrollVerify \/ LoginVerify \/ Logout \/ Me
    \/ RevokeDevice \/ RemoveUser \/ DeleteAccount
    \/ PutVault \/ StartPairing \/ PostWrap
    \/ PairingRegisterVerify \/ RecoveryRegisterVerify
    \/ CreateItem \/ UpdateItem \/ DeleteItem \/ SetPreserveNotes \/ ResetItemExpiry
    \/ SubscribePush \/ EndpointGone
    \/ RequestUpload \/ DecideUpload \/ UploadIntent \/ CommitUpload
    \/ Prune \/ Tick

Spec == Init /\ [][Next]_vars

----------------------------------------------------------------------------

\* Both stores hold rows of the shapes the two interfaces declare, and every
\* row of Postgres names rows that exist: the schema's keys, which removeUser
\* and prune have to satisfy in the order they write.
TypeOK ==
    /\ M!StoreOK(mem)
    /\ D!StoreOK(db)
    /\ clock \in 0 .. MaxClock /\ calls \in 0 .. MaxCalls
    /\ \A t \in DOMAIN db.sessions : db.sessions[t].device \in DOMAIN db.devices
    /\ \A v \in DOMAIN db.devices : db.devices[v].user \in DOMAIN db.users
    /\ \A x \in DOMAIN db.items : db.items[x].blob \in DOMAIN db.blobs \cup {NoOne}
    /\ \A i \in DOMAIN db.invites : db.invites[i].redeemedBy \in DOMAIN db.users \cup {NoOne}

\* A request gets the same answer from a service on the store the tests use
\* as from the same service on Postgres, whatever came before it, as long as
\* the member it is about still exists: no check, early return, cascade or
\* key is missing from one of the two.
SameAnswers ==
    \A s \in said : s.about \notin DOMAIN db.users \cup {NoOne}

Standing(row) ==
    IF row = NoOne THEN NoOne
    ELSE IF row.user \in DOMAIN db.users \cup {NoOne} THEN row ELSE NoOne

\* A store of the tests and Postgres, asked the same.
SameReads ==
    /\ \A t \in Tokens : M!SessionOf(mem, t) = D!SessionOf(db, t)
    /\ \A i \in Invites : M!GetInvite(mem, i) = D!GetInvite(db, i)
    /\ \A v \in Devices : M!DeviceByCredential(mem, v) = D!DeviceByCredential(db, v)
    /\ \A u \in Users : /\ M!GetUser(mem, u) = D!GetUser(db, u)
                        /\ M!GetVault(mem, u) = D!GetVault(db, u)
    /\ \A u \in DOMAIN db.users :
           /\ M!ListItems(mem, u) = D!ListItems(db, u)
           /\ \A v \in DOMAIN db.devices : M!PushTargets(mem, u, v) = D!PushTargets(db, u, v)
    /\ \A b \in Blobs : M!GetBlob(mem, b) = D!GetBlob(db, b)

\* A member or an admin, shown the same page.
SameViews ==
    /\ InviteList(M!ListInvites(mem)) = InviteList(D!ListInvites(db))
    /\ AskList(M!ListOpenAsks(mem)) = AskList(D!ListOpenAsks(db))
    /\ UserList(M!ListDirectory(mem)) = UserList(D!ListDirectory(db))
    /\ AuditList(M!ListAudit(mem)) = AuditList(D!ListAudit(db))
    /\ M!ListUploads(mem) = D!ListUploads(db)
    /\ AdminUsage(M!UsageSnapshot(mem), M!ListDirectory(mem)) =
           AdminUsage(D!UsageSnapshot(db), D!ListDirectory(db))
    /\ \A u \in DOMAIN db.users :
           LiveItems(M!ListItems(mem, u)) = LiveItems(D!ListItems(db, u))
    /\ \A h \in Handles : Recovery(M!VaultByHandle(mem, h)) = Recovery(D!VaultByHandle(db, h))
    /\ \A p \in Pairings :
           LET here == Standing(M!GetPairing(mem, p))
               there == D!GetPairing(db, p)
           IN  Polled(here, M!GetUser(mem, OwnerOf(here))) =
                   Polled(there, D!GetUser(db, OwnerOf(there)))
    /\ \A c \in Codes :
           LET here == Standing(M!PairingByCode(mem, c))
               there == D!PairingByCode(db, c)
           IN  Polled(here, M!GetUser(mem, OwnerOf(here))) =
                   Polled(there, D!GetUser(db, OwnerOf(there)))

\* Whatever the stores are asked next they show the same: sessions, members
\* and their devices, invites, asks, the log, vaults, items, requests, files,
\* whom a push reaches, and the pairings of members who exist.  What removing
\* a member leaves behind in memory is seen by nobody who is still there.
SameRows == SameReads /\ SameViews
=============================================================================
