--------------------------- MODULE StoresProofs -----------------------------
(***************************************************************************)
(* Theorems about Stores: the two implementations of the stores answer     *)
(* alike and show the same, for any number of members, rows and calls.     *)
(*                                                                         *)
(* Memory and Postgres are related table by table.  What memory holds more *)
(* belongs to members who are gone: pairings and subscriptions that        *)
(* removeUser leaves, and passkeys that a late verify adds for them.  No   *)
(* id is given twice, so nothing that is left over comes to life again.    *)
(***************************************************************************)
EXTENDS Stores, FiniteSetTheorems, WellFoundedInduction, TLAPS

MemFields == {"users", "invites", "asks", "devices", "sessions", "audit", "vaults",
              "pairings", "codes", "items", "pushes", "uploads", "blobs"}
DbFields == MemFields \ {"vaults", "codes"}

\* A store is a record of its tables.
MemShape(m) ==
    m = [users |-> m.users, invites |-> m.invites, asks |-> m.asks, devices |-> m.devices,
         sessions |-> m.sessions, audit |-> m.audit, vaults |-> m.vaults,
         pairings |-> m.pairings, codes |-> m.codes, items |-> m.items,
         pushes |-> m.pushes, uploads |-> m.uploads, blobs |-> m.blobs]
DbShape(d) ==
    d = [users |-> d.users, invites |-> d.invites, asks |-> d.asks, devices |-> d.devices,
         sessions |-> d.sessions, audit |-> d.audit, pairings |-> d.pairings,
         items |-> d.items, pushes |-> d.pushes, uploads |-> d.uploads, blobs |-> d.blobs]

\* r differs from m, or from d, in these tables at most.
MemBut(r, m, tables) == MemShape(r) /\ \A f \in MemFields \ tables : r[f] = m[f]
DbBut(r, d, tables) == DbShape(r) /\ \A f \in DbFields \ tables : r[f] = d[f]

-----------------------------------------------------------------------------
(* The rows.                                                               *)

Tab(table, ids, rows) == DOMAIN table \subseteq ids /\ table \in [DOMAIN table -> rows]

MemUsers ==
    [handle : Handles, admin : BOOLEAN, canUpload : BOOLEAN, hasVault : BOOLEAN,
     quota : Nat, used : Nat, preserve : BOOLEAN]
DbUsers ==
    [handle : Handles, admin : BOOLEAN, canUpload : BOOLEAN, vault : BOOLEAN,
     quota : Nat, used : Nat, preserve : BOOLEAN]
InviteRows ==
    [by : Users, expires : Times, redeemedBy : Users \cup {NoOne},
     redeemed : BOOLEAN, revoked : BOOLEAN]
AskRows == [dismissed : BOOLEAN]
DeviceRows == [user : Users, revoked : BOOLEAN]
SessionRows == [device : Devices, expires : Times]
MemPairings == [user : Users \cup {NoOne}, wrap : BOOLEAN, expires : Times]
DbPairings == [user : Users \cup {NoOne}, code : Codes, wrap : BOOLEAN, expires : Times]
ItemRows ==
    [owner : Users, kind : {"text", "link", "file"}, blob : Blobs \cup {NoOne},
     size : Sizes, pinned : BOOLEAN, expires : Times]
BlobRows ==
    [owner : Users, state : {"pending", "committed"}, size : Sizes, created : Times]
Statuses == {"pending", "approved", "denied"}
MemUploads ==
    [user : Users, handle : Handles, status : Statuses, decidedBy : Users \cup {NoOne},
     granted : Sizes \cup {NoOne}]
DbUploads ==
    [user : Users, status : Statuses, decidedBy : Users \cup {NoOne},
     granted : Sizes \cup {NoOne}]

-----------------------------------------------------------------------------
(* Table by table: what memory holds is what Postgres holds, and rows of   *)
(* members who are gone.  ids have been given to rows; none is given again.*)

UsersAlike(mu, vaults, du, ids) ==
    /\ Tab(du, Users, DbUsers) /\ DOMAIN du \subseteq ids
    /\ mu \in [DOMAIN du -> MemUsers]
    /\ \A u \in DOMAIN du : mu[u] = D!MapUser(du[u])
    /\ vaults = {u \in DOMAIN du : du[u].vault}
    /\ Admin \in DOMAIN du /\ \A u \in DOMAIN du : du[u].admin <=> u = Admin

InvitesAlike(mi, di, users, ids) ==
    /\ mi = di /\ Tab(di, Invites, InviteRows) /\ DOMAIN di \subseteq ids
    /\ \A i \in DOMAIN di : di[i].redeemedBy \in users \cup {NoOne}

AsksAlike(ma, da, ids) == ma = da /\ Tab(da, Asks, AskRows) /\ DOMAIN da \subseteq ids

DevicesAlike(md, dd, users, ids) ==
    /\ Tab(md, Devices, DeviceRows) /\ Tab(dd, Devices, DeviceRows)
    /\ DOMAIN md \subseteq ids
    /\ \A v \in DOMAIN dd : v \in DOMAIN md /\ md[v] = dd[v] /\ dd[v].user \in users
    /\ \A v \in DOMAIN md \ DOMAIN dd : md[v].user \in ids \ users

SessionsAlike(ms, ds, devices, ids) ==
    /\ Tab(ms, Tokens, SessionRows) /\ Tab(ds, Tokens, SessionRows)
    /\ DOMAIN ms \subseteq ids
    /\ \A t \in DOMAIN ds : t \in DOMAIN ms /\ ms[t] = ds[t] /\ ds[t].device \in devices
    /\ \A t \in DOMAIN ms \ DOMAIN ds : ms[t].device \in ids \ devices

AuditAlike(ma, da) == ma = da /\ da \subseteq Users \cup {NoOne}

PairingsAlike(mp, dp, users, ids) ==
    /\ Tab(mp, Pairings, MemPairings) /\ Tab(dp, Pairings, DbPairings)
    /\ DOMAIN mp \subseteq ids
    /\ \A p \in DOMAIN dp :
          /\ p \in DOMAIN mp /\ mp[p] = D!Record(dp[p])
          /\ dp[p].user \in users \cup {NoOne} /\ (dp[p].user # NoOne => dp[p].wrap)
    /\ \A p \in DOMAIN mp \ DOMAIN dp : mp[p].wrap /\ mp[p].user \in (Users \cap ids) \ users

CodesAlike(codes, dp, ids) ==
    /\ Tab(codes, Codes, Pairings)
    /\ \A p \in DOMAIN dp : dp[p].code \in DOMAIN codes /\ codes[dp[p].code] = p
    /\ \A c \in DOMAIN codes :
          codes[c] \in ids /\ (codes[c] \in DOMAIN dp => dp[codes[c]].code = c)

ItemsAlike(mi, di, ids) == mi = di /\ Tab(di, Items, ItemRows) /\ DOMAIN di \subseteq ids

BlobsAlike(mb, db_, ids) == mb = db_ /\ Tab(db_, Blobs, BlobRows) /\ DOMAIN db_ \subseteq ids

\* A file's row is of one member, and committed once an item names it.
Filed(items, blobs) ==
    \A x \in DOMAIN items :
        LET b == items[x].blob
        IN  b # NoOne => /\ b \in DOMAIN blobs
                         /\ blobs[b].owner = items[x].owner /\ blobs[b].state = "committed"

PushesAlike(mp, dp, devices, ids) ==
    /\ Tab(mp, Endpoints, Devices) /\ Tab(dp, Endpoints, Devices)
    /\ \A e \in DOMAIN dp : e \in DOMAIN mp /\ mp[e] = dp[e] /\ dp[e] \in devices
    /\ \A e \in DOMAIN mp \ DOMAIN dp : mp[e] \in ids \ devices

Joined(row, du) ==
    [user |-> row.user, handle |-> du[row.user].handle, status |-> row.status,
     decidedBy |-> row.decidedBy, granted |-> row.granted]

UploadsAlike(mr, dr, du, ids) ==
    /\ Tab(dr, Uploads, DbUploads) /\ DOMAIN dr \subseteq ids
    /\ \A x \in DOMAIN dr : dr[x].user \in DOMAIN du
    /\ mr = [x \in DOMAIN dr |-> Joined(dr[x], du)]

Alike(m, d, ids) ==
    /\ MemShape(m) /\ DbShape(d)
    /\ UsersAlike(m.users, m.vaults, d.users, ids)
    /\ InvitesAlike(m.invites, d.invites, DOMAIN d.users, ids)
    /\ AsksAlike(m.asks, d.asks, ids)
    /\ DevicesAlike(m.devices, d.devices, DOMAIN d.users, ids)
    /\ SessionsAlike(m.sessions, d.sessions, DOMAIN d.devices, ids)
    /\ AuditAlike(m.audit, d.audit)
    /\ PairingsAlike(m.pairings, d.pairings, DOMAIN d.users, ids)
    /\ CodesAlike(m.codes, d.pairings, ids)
    /\ ItemsAlike(m.items, d.items, ids)
    /\ BlobsAlike(m.blobs, d.blobs, ids)
    /\ Filed(d.items, d.blobs)
    /\ PushesAlike(m.pushes, d.pushes, DOMAIN d.devices, ids)
    /\ UploadsAlike(m.uploads, d.uploads, d.users, ids)

\* Devices that only memory holds: of members who are gone.
Left(m, d) == DOMAIN m.devices \ DOMAIN d.devices

Sound ==
    /\ Alike(mem, db, spent)
    /\ clock \in 0 .. MaxClock /\ calls \in 0 .. MaxCalls
    /\ Named(db) \subseteq known /\ known \subseteq spent
    /\ known \cap Left(mem, db) = {}
    /\ sealed \subseteq Users \cap spent
    /\ SameAnswers

\* How m and d went on to m1 and d1: alike again, and with no row on Postgres
\* and no passkey left over in memory but old ones and those of new.
Goes(m, d, m1, d1, ids, new) ==
    /\ Alike(m1, d1, ids \cup new)
    /\ Named(d1) \subseteq Named(d) \cup new
    /\ Left(m1, d1) \subseteq Left(m, d)

-----------------------------------------------------------------------------
(* Tables.                                                                 *)

\* The rules on rows are the same in each store.
LEMMA Shared ==
    /\ \A t, i, r : M!With(t, i, r) = With(t, i, r) /\ D!With(t, i, r) = With(t, i, r)
    /\ \A t, s : M!Without(t, s) = Without(t, s) /\ D!Without(t, s) = Without(t, s)
    /\ \A t, x : M!Seek(t, x) = Seek(t, x) /\ D!Seek(t, x) = Seek(t, x)
    /\ \A a, w : M!Answer(a, w) = Answer(a, w) /\ D!Answer(a, w) = Answer(a, w)
    /\ \A r, n : M!InviteState(r, n) = InviteState(r, n) /\ D!InviteState(r, n) = InviteState(r, n)
    /\ \A u, f : M!Refunded(u, f) = Refunded(u, f) /\ D!Refunded(u, f) = Refunded(u, f)
<1>1. \A t, i, r : M!With(t, i, r) = With(t, i, r) /\ D!With(t, i, r) = With(t, i, r)
  BY DEF With, M!With, D!With
<1>2. \A t, s : M!Without(t, s) = Without(t, s) /\ D!Without(t, s) = Without(t, s)
  BY DEF Without, M!Without, D!Without
<1>3. \A t, x : M!Seek(t, x) = Seek(t, x) /\ D!Seek(t, x) = Seek(t, x)
  BY DEF Seek, M!Seek, D!Seek
<1>4. \A a, w : M!Answer(a, w) = Answer(a, w) /\ D!Answer(a, w) = Answer(a, w)
  BY DEF Answer, M!Answer, D!Answer
<1>5. \A r, n : M!InviteState(r, n) = InviteState(r, n) /\ D!InviteState(r, n) = InviteState(r, n)
  BY DEF InviteState, M!InviteState, D!InviteState
<1>6. \A u, f : M!Refunded(u, f) = Refunded(u, f) /\ D!Refunded(u, f) = Refunded(u, f)
  BY DEF Refunded, M!Refunded, D!Refunded
<1> QED
  BY <1>1, <1>2, <1>3, <1>4, <1>5, <1>6

\* A row more, rows fewer, a row changed.
LEMMA WithTab ==
    ASSUME NEW t, NEW K, NEW S, Tab(t, K, S), NEW i \in K, NEW r \in S
    PROVE  Tab(With(t, i, r), K, S)
  BY DEF Tab, With

LEMMA WithoutTab ==
    ASSUME NEW t, NEW K, NEW S, Tab(t, K, S), NEW gone
    PROVE  Tab(Without(t, gone), K, S)
  BY DEF Tab, Without

LEMMA ExceptTab ==
    ASSUME NEW t, NEW K, NEW S, Tab(t, K, S), NEW i, NEW r \in S
    PROVE  Tab([t EXCEPT ![i] = r], K, S)
  BY DEF Tab

-----------------------------------------------------------------------------
(* Counting and sums are the same operators in both stores.                *)

LEMMA SharedCounts ==
    /\ \A S : M!Cardinality(S) = Cardinality(S) /\ D!Cardinality(S) = Cardinality(S)
    /\ M!Max(Sizes) = Max(Sizes) /\ D!Max(Sizes) = Max(Sizes)
    /\ \A b, S : M!Bytes(b, S) = Bytes(b, S) /\ D!Bytes(b, S) = Bytes(b, S)
<1>1. \A S : M!Cardinality(S) = Cardinality(S) /\ D!Cardinality(S) = Cardinality(S)
  BY DEF Cardinality, M!Cardinality, D!Cardinality
<1>2. M!Max(Sizes) = Max(Sizes) /\ D!Max(Sizes) = Max(Sizes)
  BY DEF Max, M!Max, D!Max
<1>3. \A b, S : M!Bytes(b, S) = Bytes(b, S) /\ D!Bytes(b, S) = Bytes(b, S)
  BY DEF Bytes, M!Bytes, D!Bytes, MapThenSumSet, M!MapThenSumSet, D!MapThenSumSet,
         MapThenFoldSet, M!MapThenFoldSet, D!MapThenFoldSet
<1> QED
  BY <1>1, <1>2, <1>3


-----------------------------------------------------------------------------
(* One table after another.                                                *)

LEMMA DeviceAdded ==
    ASSUME NEW md, NEW dd, NEW users, NEW ids, DevicesAlike(md, dd, users, ids),
           NEW v \in Devices, v \notin ids, NEW dev \in DeviceRows, dev.user \in users,
           NEW more, ids \subseteq more, v \in more
    PROVE  DevicesAlike(With(md, v, dev), With(dd, v, dev), users, more)
<1>1. Tab(With(md, v, dev), Devices, DeviceRows) /\ Tab(With(dd, v, dev), Devices, DeviceRows)
  BY WithTab DEF DevicesAlike
<1> QED
  BY <1>1 DEF DevicesAlike, With

\* The other store knows the same of a passkey whose row it has.
LEMMA DeviceChanged ==
    ASSUME NEW md, NEW dd, NEW users, NEW ids, DevicesAlike(md, dd, users, ids),
           NEW v \in DOMAIN dd, NEW dev \in DeviceRows, dev.user = dd[v].user
    PROVE  DevicesAlike([md EXCEPT ![v] = dev], [dd EXCEPT ![v] = dev], users, ids)
<1>1. Tab([md EXCEPT ![v] = dev], Devices, DeviceRows) /\
      Tab([dd EXCEPT ![v] = dev], Devices, DeviceRows)
  BY ExceptTab DEF DevicesAlike
<1> QED
  BY <1>1 DEF DevicesAlike

LEMMA SessionAdded ==
    ASSUME NEW ms, NEW ds, NEW devices, NEW ids, SessionsAlike(ms, ds, devices, ids),
           NEW now, devices \subseteq now, now \cap ids \subseteq devices,
           NEW t \in Tokens, t \notin ids, NEW ses \in SessionRows, ses.device \in now,
           NEW more, ids \subseteq more, t \in more
    PROVE  SessionsAlike(With(ms, t, ses), With(ds, t, ses), now, more)
<1>1. Tab(With(ms, t, ses), Tokens, SessionRows) /\ Tab(With(ds, t, ses), Tokens, SessionRows)
  BY WithTab DEF SessionsAlike
<1> QED
  BY <1>1 DEF SessionsAlike, With

\* Sessions go from both stores, or were left over in memory.
LEMMA SessionsGone ==
    ASSUME NEW ms, NEW ds, NEW devices, NEW ids, SessionsAlike(ms, ds, devices, ids),
           NEW mine, NEW theirs, \A t \in DOMAIN ds : t \in mine <=> t \in theirs,
           NEW now, now \subseteq devices,
           \A t \in DOMAIN ds \ theirs : ds[t].device \in now
    PROVE  SessionsAlike(Without(ms, mine), Without(ds, theirs), now, ids)
<1>1. Tab(Without(ms, mine), Tokens, SessionRows) /\ Tab(Without(ds, theirs), Tokens, SessionRows)
  BY WithoutTab DEF SessionsAlike
<1> QED
  BY <1>1 DEF SessionsAlike, Without

\* What an answer alone leaves.
LEMMA Wider ==
    ASSUME NEW m, NEW d, NEW ids, NEW new, Alike(m, d, ids)
    PROVE  Alike(m, d, ids \cup new)
<1>1. UsersAlike(m.users, m.vaults, d.users, ids \cup new)
  BY DEF Alike, UsersAlike
<1>2. InvitesAlike(m.invites, d.invites, DOMAIN d.users, ids \cup new)
  BY DEF Alike, InvitesAlike
<1>3. AsksAlike(m.asks, d.asks, ids \cup new)
  BY DEF Alike, AsksAlike
<1>4. DevicesAlike(m.devices, d.devices, DOMAIN d.users, ids \cup new)
  BY DEF Alike, DevicesAlike
<1>5. SessionsAlike(m.sessions, d.sessions, DOMAIN d.devices, ids \cup new)
  BY DEF Alike, SessionsAlike
<1>6. PairingsAlike(m.pairings, d.pairings, DOMAIN d.users, ids \cup new)
  BY DEF Alike, PairingsAlike
<1>7. CodesAlike(m.codes, d.pairings, ids \cup new)
  BY DEF Alike, CodesAlike
<1>8. ItemsAlike(m.items, d.items, ids \cup new) /\ BlobsAlike(m.blobs, d.blobs, ids \cup new)
  BY DEF Alike, ItemsAlike, BlobsAlike
<1>9. PushesAlike(m.pushes, d.pushes, DOMAIN d.devices, ids \cup new)
  BY DEF Alike, PushesAlike
<1>10. UploadsAlike(m.uploads, d.uploads, d.users, ids \cup new)
  BY DEF Alike, UploadsAlike
<1> QED
  BY <1>1, <1>2, <1>3, <1>4, <1>5, <1>6, <1>7, <1>8, <1>9, <1>10 DEF Alike

LEMMA GoesNowhere ==
    ASSUME NEW m, NEW d, NEW ids, NEW new, Alike(m, d, ids)
    PROVE  Goes(m, d, m, d, ids, new)
  BY Wider DEF Goes

\* A service writes to the log on both stores or on none.
LEMMA LoggedGoes ==
    ASSUME NEW m, NEW d, NEW m1, NEW d1, NEW ids, NEW new, NEW actor \in Users \cup {NoOne},
           Goes(m, d, m1.to, d1.to, ids, new), m1.says = d1.says,
           m1.says[1] = "ok" => actor \in DOMAIN d1.to.users \cup {NoOne}
    PROVE  /\ Goes(m, d, MLogged(m1, actor).to, DLogged(d1, actor).to, ids, new)
           /\ MLogged(m1, actor).says = DLogged(d1, actor).says
<1>1. CASE m1.says[1] # "ok"
  BY <1>1 DEF MLogged, DLogged
<1>2. CASE m1.says[1] = "ok"
  <2> DEFINE r == MLogged(m1, actor)
             s == DLogged(d1, actor)
  <2>1. MemBut(r.to, m1.to, {"audit"}) /\ r.to.audit = m1.to.audit \cup {actor} /\ r.says = m1.says
    <3>1. MemShape(m1.to)
      BY DEF Goes, Alike
    <3> QED
      BY <1>2, <3>1 DEF MLogged, M!InsertAudit, M!Answer, Answer, MemShape, MemBut, MemFields
  <2>2. DbBut(s.to, d1.to, {"audit"}) /\ s.to.audit = d1.to.audit \cup {actor} /\ s.says = d1.says
    <3>1. DbShape(d1.to)
      BY DEF Goes, Alike
    <3> QED
      BY <1>2, <3>1
         DEF DLogged, D!InsertAudit, D!Commit, D!Answer, Answer, DbShape, DbBut, DbFields, MemFields
  <2> HIDE DEF r, s
  <2>3. AuditAlike(r.to.audit, s.to.audit)
    BY <2>1, <2>2 DEF Goes, Alike, AuditAlike
  <2>4. Alike(r.to, s.to, ids \cup new)
    BY <2>1, <2>2, <2>3 DEF Goes, Alike, MemBut, DbBut, MemFields, DbFields
  <2>5. Named(s.to) = Named(d1.to) /\ Left(r.to, s.to) = Left(m1.to, d1.to)
    BY <2>1, <2>2 DEF Named, Left, MemBut, DbBut, MemFields, DbFields
  <2>6. Goes(m, d, r.to, s.to, ids, new) /\ r.says = s.says
    BY <2>1, <2>2, <2>4, <2>5 DEF Goes
  <2> QED
    BY <2>6 DEF r, s
<1> QED
  BY <1>1, <1>2

-----------------------------------------------------------------------------
(* Invites, asks.                                                          *)

LEMMA CreateInviteGoes ==
    ASSUME NEW m, NEW d, NEW ids, Alike(m, d, ids),
           NEW i \in Invites, NEW a \in DOMAIN d.users, NEW t \in Times
    PROVE  /\ Goes(m, d, M!CreateInvite(m, i, a, t).to, D!CreateInvite(d, i, a, t).to, ids, {i})
           /\ M!CreateInvite(m, i, a, t).says = D!CreateInvite(d, i, a, t).says
<1> DEFINE row == [by |-> a, expires |-> t, redeemedBy |-> NoOne,
                   redeemed |-> FALSE, revoked |-> FALSE]
           r == M!CreateInvite(m, i, a, t)
           s == D!CreateInvite(d, i, a, t)
<1>1. MemBut(r.to, m, {"invites"}) /\ r.to.invites = With(m.invites, i, row) /\ r.says = <<"ok">>
  BY Shared DEF Alike, M!CreateInvite, M!Answer, M!With, With, MemShape, MemBut, MemFields
<1>2. DbBut(s.to, d, {"invites"}) /\ s.to.invites = With(d.invites, i, row) /\ s.says = <<"ok">>
  BY Shared DEF Alike, D!CreateInvite, D!Commit, D!Answer, D!With, With, DbShape, DbBut, DbFields, MemFields
<1>3. row \in InviteRows /\ row.redeemedBy = NoOne
  BY DEF InviteRows, Alike, UsersAlike, Tab
<1> HIDE DEF r, s, row
<1>4. Alike(m, d, ids \cup {i})
  BY Wider
<1>5. InvitesAlike(r.to.invites, s.to.invites, DOMAIN d.users, ids \cup {i}) /\
      DOMAIN s.to.invites = DOMAIN d.invites \cup {i}
  <2>1. Tab(With(d.invites, i, row), Invites, InviteRows)
    BY <1>3, WithTab DEF Alike, InvitesAlike
  <2> QED
    BY <1>1, <1>2, <1>3, <1>4, <2>1 DEF Alike, InvitesAlike, With
<1>6. Goes(m, d, r.to, s.to, ids, {i}) /\ r.says = s.says
  <2>1. Alike(r.to, s.to, ids \cup {i})
    BY <1>1, <1>2, <1>4, <1>5 DEF Alike, MemBut, DbBut, MemFields, DbFields
  <2>2. Named(s.to) \subseteq Named(d) \cup {i} /\ Left(r.to, s.to) = Left(m, d)
    BY <1>1, <1>2, <1>5 DEF Named, Left, MemBut, DbBut, MemFields, DbFields
  <2> QED
    BY <1>1, <1>2, <2>1, <2>2 DEF Goes
<1> QED
  BY <1>6 DEF r, s
\* revokeInvite
LEMMA RevokeInviteGoes ==
    ASSUME NEW m, NEW d, NEW ids, Alike(m, d, ids), NEW i
    PROVE  /\ Goes(m, d, M!RevokeInvite(m, i).to, D!RevokeInvite(d, i).to, ids, {})
           /\ M!RevokeInvite(m, i).says = D!RevokeInvite(d, i).says
<1> DEFINE r == M!RevokeInvite(m, i)
           s == D!RevokeInvite(d, i)
           row == [d.invites[i] EXCEPT !.revoked = TRUE]
<1>1. CASE i \notin DOMAIN m.invites \/ m.invites[i].redeemed
  <2>1. r.to = m /\ s.to = d /\ r.says = s.says
    BY <1>1, Shared DEF Alike, InvitesAlike, M!RevokeInvite, D!RevokeInvite, M!Answer, D!Answer
  <2> QED
    BY <2>1, GoesNowhere
<1>2. CASE ~(i \notin DOMAIN m.invites \/ m.invites[i].redeemed)
  <2>1. MemBut(r.to, m, {"invites"}) /\
        r.to.invites = [m.invites EXCEPT ![i] = row]
    BY <1>2, Shared DEF Alike, InvitesAlike, M!RevokeInvite, M!Answer, Answer, MemShape, MemBut,
       MemFields
  <2>2. DbBut(s.to, d, {"invites"}) /\
        s.to.invites = [d.invites EXCEPT ![i] = row]
    BY <1>2, Shared DEF Alike, InvitesAlike, D!RevokeInvite, D!Answer, Answer, DbShape, DbBut,
       DbFields, MemFields
  <2>3. r.says = s.says
    BY <1>2, Shared DEF Alike, InvitesAlike, InvitesAlike, M!RevokeInvite, D!RevokeInvite,
       M!Answer, D!Answer
  <2> HIDE DEF r, s, row
  <2>4. Alike(m, d, ids \cup {})
    BY Wider
  <2>5. row \in InviteRows /\ row.redeemedBy = d.invites[i].redeemedBy /\ i \in DOMAIN d.invites
    BY <1>2 DEF row, Alike, InvitesAlike, InviteRows, Tab
  <2>6. InvitesAlike(r.to.invites, s.to.invites, DOMAIN d.users, ids \cup {}) /\
        DOMAIN s.to.invites = DOMAIN d.invites
    BY <2>1, <2>2, <2>4, <2>5, ExceptTab DEF Alike, InvitesAlike, Tab
  <2>7. Alike(r.to, s.to, ids \cup {})
    BY <2>1, <2>2, <2>4, <2>5, <2>6 DEF Alike, MemBut, DbBut, MemFields, DbFields
  <2>8. Named(s.to) \subseteq Named(d) \cup {} /\ Left(r.to, s.to) = Left(m, d)
    BY <2>1, <2>2, <2>5, <2>6 DEF Named, Left, MemBut, DbBut, MemFields, DbFields
  <2>9. Goes(m, d, r.to, s.to, ids, {}) /\ r.says = s.says
    BY <2>3, <2>7, <2>8 DEF Goes
  <2> QED
    BY <2>9 DEF r, s
<1> QED
  BY <1>1, <1>2

\* insertAsk
LEMMA CreateAskGoes ==
    ASSUME NEW m, NEW d, NEW ids, Alike(m, d, ids), NEW i \in Asks
    PROVE  /\ Goes(m, d, M!CreateAsk(m, i).to, D!CreateAsk(d, i).to, ids, {i})
           /\ M!CreateAsk(m, i).says = D!CreateAsk(d, i).says
<1> DEFINE r == M!CreateAsk(m, i)
           s == D!CreateAsk(d, i)
           row == [dismissed |-> FALSE]
<1>1. MemBut(r.to, m, {"asks"}) /\
      r.to.asks = With(m.asks, i, row)
  BY Shared DEF Alike, M!CreateAsk, M!Answer, Answer, MemShape, MemBut, MemFields
<1>2. DbBut(s.to, d, {"asks"}) /\
      s.to.asks = With(d.asks, i, row)
  BY Shared DEF Alike, D!CreateAsk, D!Answer, Answer, DbShape, DbBut, DbFields, MemFields
<1>3. r.says = s.says
  BY Shared DEF Alike, M!CreateAsk, D!CreateAsk, M!Answer, D!Answer
<1> HIDE DEF r, s, row
<1>4. Alike(m, d, ids \cup {i})
  BY Wider
<1>5. row \in AskRows
  BY DEF row, AskRows
<1>6. AsksAlike(r.to.asks, s.to.asks, ids \cup {i}) /\ DOMAIN s.to.asks = DOMAIN d.asks \cup {i}
  <2>1. Tab(With(d.asks, i, row), Asks, AskRows)
    BY <1>5, WithTab DEF Alike, AsksAlike
  <2>2. DOMAIN With(d.asks, i, row) = DOMAIN d.asks \cup {i}
    BY DEF With
  <2> QED
    BY <1>1, <1>2, <1>4, <2>1, <2>2 DEF Alike, AsksAlike
<1>7. Alike(r.to, s.to, ids \cup {i})
  BY <1>1, <1>2, <1>4, <1>5, <1>6 DEF Alike, MemBut, DbBut, MemFields, DbFields
<1>8. Named(s.to) \subseteq Named(d) \cup {i} /\ Left(r.to, s.to) = Left(m, d)
  BY <1>1, <1>2, <1>5, <1>6 DEF Named, Left, MemBut, DbBut, MemFields, DbFields
<1>9. Goes(m, d, r.to, s.to, ids, {i}) /\ r.says = s.says
  BY <1>3, <1>7, <1>8 DEF Goes
<1> QED
  BY <1>9 DEF r, s

\* dismissAsk
LEMMA DismissAskGoes ==
    ASSUME NEW m, NEW d, NEW ids, Alike(m, d, ids), NEW i
    PROVE  /\ Goes(m, d, M!DismissAsk(m, i).to, D!DismissAsk(d, i).to, ids, {})
           /\ M!DismissAsk(m, i).says = D!DismissAsk(d, i).says
<1> DEFINE r == M!DismissAsk(m, i)
           s == D!DismissAsk(d, i)
<1>1. CASE i \notin DOMAIN m.asks \/ m.asks[i].dismissed
  <2>1. r.to = m /\ s.to = d /\ r.says = s.says
    BY <1>1, Shared DEF Alike, AsksAlike, M!DismissAsk, D!DismissAsk, M!Answer, D!Answer
  <2> QED
    BY <2>1, GoesNowhere
<1>2. CASE ~(i \notin DOMAIN m.asks \/ m.asks[i].dismissed)
  <2>1. MemBut(r.to, m, {"asks"}) /\
        r.to.asks = [m.asks EXCEPT ![i].dismissed = TRUE]
    BY <1>2, Shared DEF Alike, AsksAlike, M!DismissAsk, M!Answer, Answer, MemShape, MemBut,
       MemFields
  <2>2. DbBut(s.to, d, {"asks"}) /\
        s.to.asks = [d.asks EXCEPT ![i].dismissed = TRUE]
    BY <1>2, Shared DEF Alike, AsksAlike, D!DismissAsk, D!Answer, Answer, DbShape, DbBut,
       DbFields, MemFields
  <2>3. r.says = s.says
    BY <1>2, Shared DEF Alike, AsksAlike, AsksAlike, M!DismissAsk, D!DismissAsk, M!Answer,
       D!Answer
  <2> HIDE DEF r, s
  <2>4. Alike(m, d, ids \cup {})
    BY Wider
  <2>5. AsksAlike(r.to.asks, s.to.asks, ids \cup {}) /\ DOMAIN s.to.asks = DOMAIN d.asks
    BY <1>2, <2>1, <2>2, <2>4 DEF Alike, AsksAlike, AskRows, Tab
  <2>6. Alike(r.to, s.to, ids \cup {})
    BY <2>1, <2>2, <2>4, <2>5 DEF Alike, MemBut, DbBut, MemFields, DbFields
  <2>7. Named(s.to) \subseteq Named(d) \cup {} /\ Left(r.to, s.to) = Left(m, d)
    BY <2>1, <2>2, <2>5 DEF Named, Left, MemBut, DbBut, MemFields, DbFields
  <2>8. Goes(m, d, r.to, s.to, ids, {}) /\ r.says = s.says
    BY <2>3, <2>6, <2>7 DEF Goes
  <2> QED
    BY <2>8 DEF r, s
<1> QED
  BY <1>1, <1>2
-----------------------------------------------------------------------------
(* Members, devices, sessions.                                             *)

LEMMA GoesThen ==
    ASSUME NEW m, NEW d, NEW m0, NEW d0, NEW m1, NEW d1, NEW ids, NEW A, NEW B,
           Goes(m, d, m0, d0, ids, A), Goes(m0, d0, m1, d1, ids \cup A, B)
    PROVE  Goes(m, d, m1, d1, ids, A \cup B)
<1>1. (ids \cup A) \cup B = ids \cup (A \cup B)
  OBVIOUS
<1> QED
  BY <1>1 DEF Goes

\* The passkeys of a member who exists are the same on both.
LEMMA OwnDevices ==
    ASSUME NEW m, NEW d, NEW ids, Alike(m, d, ids), NEW u \in DOMAIN d.users
    PROVE  {v \in DOMAIN m.devices : m.devices[v].user = u} =
               {v \in DOMAIN d.devices : d.devices[v].user = u}
  BY DEF Alike, DevicesAlike

\* addDeviceAndSession of a member who exists.
LEMMA AddDeviceAndSessionGoes ==
    ASSUME NEW m, NEW d, NEW ids, Alike(m, d, ids), NEW u \in DOMAIN d.users, NEW v \in Devices,
           NEW t \in Tokens, v \notin ids, t \notin ids, NEW e \in Times
    PROVE  /\ Goes(m, d, M!AddDeviceAndSession(m, u, v, t, e).to, D!AddDeviceAndSession(d, u, v, t, e).to, ids, {v, t})
           /\ M!AddDeviceAndSession(m, u, v, t, e).says = D!AddDeviceAndSession(d, u, v, t, e).says
<1> DEFINE r == M!AddDeviceAndSession(m, u, v, t, e)
           s == D!AddDeviceAndSession(d, u, v, t, e)
           dev == [user |-> u, revoked |-> FALSE]
           ses == [device |-> v, expires |-> e]
<1>0. /\ DevicesAlike(m.devices, d.devices, DOMAIN d.users, ids)
      /\ SessionsAlike(m.sessions, d.sessions, DOMAIN d.devices, ids)
      /\ v \notin DOMAIN d.devices /\ v \notin DOMAIN m.devices
  BY DEF Alike, DevicesAlike
<1>1. MemBut(r.to, m, {"devices", "sessions"}) /\
      r.to.devices = With(m.devices, v, dev) /\
      r.to.sessions = With(m.sessions, t, ses)
  BY <1>0, Shared DEF Alike, M!AddDevice, M!AddSession, M!AddDeviceAndSession, M!Answer, Answer,
     MemShape, MemBut, MemFields
<1>2. DbBut(s.to, d, {"devices", "sessions"}) /\
      s.to.devices = With(d.devices, v, dev) /\
      s.to.sessions = With(d.sessions, t, ses)
  BY <1>0, Shared DEF Alike, D!InsertDevice, D!InsertSession, D!Commit, D!AddDeviceAndSession,
     D!Answer, Answer, DbShape, DbBut, DbFields, MemFields
<1>3. r.says = s.says
  BY <1>0, Shared DEF Alike, M!AddDevice, M!AddSession, D!InsertDevice, D!InsertSession,
     D!Commit, M!AddDeviceAndSession, D!AddDeviceAndSession, M!Answer, D!Answer
<1> HIDE DEF r, s, dev, ses
<1>4. Alike(m, d, ids \cup {v, t})
  BY Wider
<1>5. dev \in DeviceRows /\ dev.user \in DOMAIN d.users /\ ses \in SessionRows /\ ses.device = v
  BY DEF dev, ses, DeviceRows, SessionRows, Alike, UsersAlike, Tab
<1>6. DOMAIN s.to.devices = DOMAIN d.devices \cup {v} /\ DOMAIN r.to.devices = DOMAIN m.devices \cup {v}
  BY <1>1, <1>2 DEF With
<1>7. DOMAIN s.to.sessions = DOMAIN d.sessions \cup {t}
  BY <1>2 DEF With
<1>8. DevicesAlike(r.to.devices, s.to.devices, DOMAIN d.users, ids \cup {v, t})
  <2>1. v \notin ids /\ v \in ids \cup {v, t} /\ ids \subseteq ids \cup {v, t}
    OBVIOUS
  <2>2. DevicesAlike(With(m.devices, v, dev), With(d.devices, v, dev), DOMAIN d.users, ids \cup {v, t})
    BY <1>0, <1>5, <2>1, DeviceAdded
  <2> QED
    BY <1>1, <1>2, <2>2
<1>9. SessionsAlike(r.to.sessions, s.to.sessions, DOMAIN s.to.devices, ids \cup {v, t})
  <2>1. t \notin ids /\ t \in ids \cup {v, t} /\ ids \subseteq ids \cup {v, t}
    OBVIOUS
  <2>2. /\ DOMAIN d.devices \subseteq DOMAIN s.to.devices
       /\ DOMAIN s.to.devices \cap ids \subseteq DOMAIN d.devices
       /\ ses.device \in DOMAIN s.to.devices
    BY <1>0, <1>5, <1>6
  <2>3. SessionsAlike(With(m.sessions, t, ses), With(d.sessions, t, ses),
                     DOMAIN s.to.devices, ids \cup {v, t})
    BY <1>0, <1>5, <2>1, <2>2, SessionAdded
  <2> QED
    BY <1>1, <1>2, <2>3
<1>10. PushesAlike(m.pushes, d.pushes, DOMAIN s.to.devices, ids \cup {v, t})
  BY <1>0, <1>4, <1>6 DEF Alike, PushesAlike
<1>11. Alike(r.to, s.to, ids \cup {v, t})
  BY <1>1, <1>2, <1>4, <1>5, <1>6, <1>7, <1>8, <1>9, <1>10 DEF Alike, MemBut, DbBut, MemFields, DbFields
<1>12. Named(s.to) \subseteq Named(d) \cup {v, t} /\ Left(r.to, s.to) = Left(m, d)
  BY <1>1, <1>2, <1>5, <1>6, <1>7, <1>8, <1>9, <1>10, <1>0 DEF Named, Left, MemBut, DbBut, MemFields, DbFields
<1>13. Goes(m, d, r.to, s.to, ids, {v, t}) /\ r.says = s.says
  BY <1>3, <1>11, <1>12 DEF Goes
<1> QED
  BY <1>13 DEF r, s

\* completeLogin
LEMMA CompleteLoginGoes ==
    ASSUME NEW m, NEW d, NEW ids, Alike(m, d, ids), NEW v \in DOMAIN d.devices,
           NEW t \in Tokens, t \notin ids, NEW e \in Times
    PROVE  /\ Goes(m, d, M!CompleteLogin(m, v, t, e).to, D!CompleteLogin(d, v, t, e).to, ids, {t})
           /\ M!CompleteLogin(m, v, t, e).says = D!CompleteLogin(d, v, t, e).says
<1> DEFINE r == M!CompleteLogin(m, v, t, e)
           s == D!CompleteLogin(d, v, t, e)
           ses == [device |-> v, expires |-> e]
<1>1. MemBut(r.to, m, {"sessions"}) /\
      r.to.sessions = With(m.sessions, t, ses)
  BY Shared DEF Alike, DevicesAlike, M!AddSession, M!CompleteLogin, M!Answer, Answer, MemShape,
     MemBut, MemFields
<1>2. DbBut(s.to, d, {"sessions"}) /\
      s.to.sessions = With(d.sessions, t, ses)
  BY Shared DEF Alike, D!InsertSession, D!Commit, D!CompleteLogin, D!Answer, Answer, DbShape,
     DbBut, DbFields, MemFields
<1>3. r.says = s.says
  BY Shared DEF Alike, DevicesAlike, M!AddSession, D!InsertSession, D!Commit, M!CompleteLogin,
     D!CompleteLogin, M!Answer, D!Answer
<1> HIDE DEF r, s, ses
<1>4. Alike(m, d, ids \cup {t})
  BY Wider
<1>5. ses \in SessionRows /\ ses.device \in DOMAIN d.devices
  BY DEF ses, SessionRows, Alike, DevicesAlike, Tab
<1>6. DOMAIN s.to.sessions = DOMAIN d.sessions \cup {t}
  BY <1>2 DEF With
<1>7. SessionsAlike(r.to.sessions, s.to.sessions, DOMAIN d.devices, ids \cup {t})
  <2>1. t \in ids \cup {t} /\ ids \subseteq ids \cup {t} /\ DOMAIN d.devices \cap ids \subseteq DOMAIN d.devices
    OBVIOUS
  <2>2. SessionsAlike(m.sessions, d.sessions, DOMAIN d.devices, ids)
    BY DEF Alike
  <2>3. SessionsAlike(With(m.sessions, t, ses), With(d.sessions, t, ses), DOMAIN d.devices, ids \cup {t})
    BY <1>5, <2>1, <2>2, SessionAdded
  <2> QED
    BY <1>1, <1>2, <2>3
<1>8. Alike(r.to, s.to, ids \cup {t})
  BY <1>1, <1>2, <1>4, <1>5, <1>6, <1>7 DEF Alike, MemBut, DbBut, MemFields, DbFields
<1>9. Named(s.to) \subseteq Named(d) \cup {t} /\ Left(r.to, s.to) = Left(m, d)
  BY <1>1, <1>2, <1>5, <1>6, <1>7 DEF Named, Left, MemBut, DbBut, MemFields, DbFields
<1>10. Goes(m, d, r.to, s.to, ids, {t}) /\ r.says = s.says
  BY <1>3, <1>8, <1>9 DEF Goes
<1> QED
  BY <1>10 DEF r, s

\* deleteSession
LEMMA DeleteSessionGoes ==
    ASSUME NEW m, NEW d, NEW ids, Alike(m, d, ids), NEW t
    PROVE  /\ Goes(m, d, M!DeleteSession(m, t).to, D!DeleteSession(d, t).to, ids, {})
           /\ M!DeleteSession(m, t).says = D!DeleteSession(d, t).says
<1> DEFINE r == M!DeleteSession(m, t)
           s == D!DeleteSession(d, t)
<1>1. MemBut(r.to, m, {"sessions"}) /\
      r.to.sessions = Without(m.sessions, {t})
  BY Shared DEF Alike, M!DeleteSession, M!Answer, Answer, MemShape, MemBut, MemFields
<1>2. DbBut(s.to, d, {"sessions"}) /\
      s.to.sessions = Without(d.sessions, {t})
  BY Shared DEF Alike, D!DeleteSession, D!Answer, Answer, DbShape, DbBut, DbFields, MemFields
<1>3. r.says = s.says
  BY Shared DEF Alike, M!DeleteSession, D!DeleteSession, M!Answer, D!Answer
<1> HIDE DEF r, s
<1>4. Alike(m, d, ids \cup {})
  BY Wider
<1>5. DOMAIN s.to.sessions \subseteq DOMAIN d.sessions
  BY <1>2 DEF Without
<1>6. SessionsAlike(r.to.sessions, s.to.sessions, DOMAIN d.devices, ids \cup {})
  <2>1. SessionsAlike(m.sessions, d.sessions, DOMAIN d.devices, ids \cup {}) /\
       \A x \in DOMAIN d.sessions : d.sessions[x].device \in DOMAIN d.devices
    BY <1>4 DEF Alike, SessionsAlike
  <2>2. SessionsAlike(Without(m.sessions, {t}), Without(d.sessions, {t}), DOMAIN d.devices, ids \cup {})
    BY <2>1, SessionsGone
  <2> QED
    BY <1>1, <1>2, <2>2
<1>7. Alike(r.to, s.to, ids \cup {})
  BY <1>1, <1>2, <1>4, <1>5, <1>6 DEF Alike, MemBut, DbBut, MemFields, DbFields
<1>8. Named(s.to) \subseteq Named(d) \cup {} /\ Left(r.to, s.to) = Left(m, d)
  BY <1>1, <1>2, <1>5, <1>6 DEF Named, Left, MemBut, DbBut, MemFields, DbFields
<1>9. Goes(m, d, r.to, s.to, ids, {}) /\ r.says = s.says
  BY <1>3, <1>7, <1>8 DEF Goes
<1> QED
  BY <1>9 DEF r, s

\* touchSession
LEMMA TouchSessionGoes ==
    ASSUME NEW m, NEW d, NEW ids, Alike(m, d, ids), NEW t, NEW e \in Times
    PROVE  /\ Goes(m, d, M!TouchSession(m, t, e).to, D!TouchSession(d, t, e).to, ids, {})
           /\ M!TouchSession(m, t, e).says = D!TouchSession(d, t, e).says
<1> DEFINE r == M!TouchSession(m, t, e)
           s == D!TouchSession(d, t, e)
           Longer(rows) == [x \in DOMAIN rows |-> IF x \in {t} THEN [rows[x] EXCEPT !.expires = e] ELSE rows[x]]
<1>1. MemBut(r.to, m, {"sessions"}) /\
      r.to.sessions = Longer(m.sessions)
  BY Shared DEF Alike, M!Set, M!TouchSession, M!Answer, Answer, MemShape, MemBut, MemFields
<1>2. DbBut(s.to, d, {"sessions"}) /\
      s.to.sessions = Longer(d.sessions)
  BY Shared DEF Alike, D!Set, D!TouchSession, D!Answer, Answer, DbShape, DbBut, DbFields,
     MemFields
<1>3. r.says = s.says
  BY Shared DEF Alike, M!Set, D!Set, M!TouchSession, D!TouchSession, M!Answer, D!Answer
<1> HIDE DEF r, s
<1>4. Alike(m, d, ids \cup {})
  BY Wider
<1>5. Tab(r.to.sessions, Tokens, SessionRows) /\ Tab(s.to.sessions, Tokens, SessionRows)
  BY <1>1, <1>2 DEF Alike, SessionsAlike, SessionRows, Tab
<1>6. SessionsAlike(r.to.sessions, s.to.sessions, DOMAIN d.devices, ids \cup {}) /\
      DOMAIN s.to.sessions = DOMAIN d.sessions
  BY <1>1, <1>2, <1>4, <1>5 DEF Alike, SessionsAlike, SessionRows, Tab
<1>7. Alike(r.to, s.to, ids \cup {})
  BY <1>1, <1>2, <1>4, <1>5, <1>6 DEF Alike, MemBut, DbBut, MemFields, DbFields
<1>8. Named(s.to) \subseteq Named(d) \cup {} /\ Left(r.to, s.to) = Left(m, d)
  BY <1>1, <1>2, <1>5, <1>6 DEF Named, Left, MemBut, DbBut, MemFields, DbFields
<1>9. Goes(m, d, r.to, s.to, ids, {}) /\ r.says = s.says
  BY <1>3, <1>7, <1>8 DEF Goes
<1> QED
  BY <1>9 DEF r, s

\* revokeDevice of a passkey that is not left over.
LEMMA RevokeDeviceGoes ==
    ASSUME NEW m, NEW d, NEW ids, Alike(m, d, ids), NEW v, v \notin Left(m, d)
    PROVE  /\ Goes(m, d, M!RevokeDevice(m, v).to, D!RevokeDevice(d, v).to, ids, {})
           /\ M!RevokeDevice(m, v).says = D!RevokeDevice(d, v).says
<1> DEFINE r == M!RevokeDevice(m, v)
           s == D!RevokeDevice(d, v)
           dev == [m.devices[v] EXCEPT !.revoked = TRUE]
           Its(rows) == {x \in DOMAIN rows : rows[x].device = v}
<1>1. CASE v \notin DOMAIN m.devices \/ m.devices[v].revoked
  <2>1. r.to = m /\ s.to = d /\ r.says = s.says
    BY <1>1, Shared DEF Left, Alike, DevicesAlike, M!RevokeDevice, D!RevokeDevice, M!Answer, D!Answer
  <2> QED
    BY <2>1, GoesNowhere
<1>2. CASE ~(v \notin DOMAIN m.devices \/ m.devices[v].revoked)
  <2>0. /\ v \in DOMAIN m.devices /\ v \in DOMAIN d.devices /\ m.devices[v] = d.devices[v]
        /\ DevicesAlike(m.devices, d.devices, DOMAIN d.users, ids \cup {})
        /\ SessionsAlike(m.sessions, d.sessions, DOMAIN d.devices, ids \cup {}) /\ ~m.devices[v].revoked
    BY <1>2, Wider DEF Left, Alike, DevicesAlike, SessionsAlike
  <2>1. MemBut(r.to, m, {"devices", "sessions"}) /\
        r.to.devices = [m.devices EXCEPT ![v] = dev] /\
        r.to.sessions = Without(m.sessions, Its(m.sessions))
    BY <1>2, <2>0, Shared DEF Alike, M!Where, M!Without, Without, M!RevokeDevice, M!Answer,
       Answer, MemShape, MemBut, MemFields
  <2>2. DbBut(s.to, d, {"devices", "sessions"}) /\
        s.to.devices = [d.devices EXCEPT ![v] = [d.devices[v] EXCEPT !.revoked = TRUE]] /\
        s.to.sessions = Without(d.sessions, Its(d.sessions))
    BY <1>2, <2>0, Shared DEF Alike, D!Where, D!Without, Without, D!RevokeDevice, D!Answer,
       Answer, DbShape, DbBut, DbFields, MemFields
  <2>3. r.says = s.says
    BY <1>2, <2>0, Shared DEF Alike, M!Where, M!Without, Without, D!Where, D!Without, Without,
       M!RevokeDevice, D!RevokeDevice, M!Answer, D!Answer
  <2> HIDE DEF r, s, dev
  <2>4. Alike(m, d, ids \cup {})
    BY Wider
  <2>5. dev \in DeviceRows /\ dev.user = d.devices[v].user /\ dev = [d.devices[v] EXCEPT !.revoked = TRUE]
    BY <2>0 DEF dev, DevicesAlike, DeviceRows, Tab
  <2>6. DOMAIN s.to.devices = DOMAIN d.devices /\ DOMAIN r.to.devices = DOMAIN m.devices
    BY <2>1, <2>2
  <2>7. DOMAIN s.to.sessions \subseteq DOMAIN d.sessions
    BY <2>2 DEF Without
  <2>8. DevicesAlike(r.to.devices, s.to.devices, DOMAIN d.users, ids \cup {})
    <3>1. DevicesAlike([m.devices EXCEPT ![v] = dev], [d.devices EXCEPT ![v] = dev], DOMAIN d.users, ids \cup {})
      BY <2>0, <2>5, DeviceChanged
    <3> QED
      BY <2>1, <2>2, <2>5, <3>1
  <2>9. SessionsAlike(r.to.sessions, s.to.sessions, DOMAIN d.devices, ids \cup {})
    <3>1. (\A x \in DOMAIN d.sessions : x \in Its(m.sessions) <=> x \in Its(d.sessions)) /\
         \A x \in DOMAIN d.sessions : d.sessions[x].device \in DOMAIN d.devices
      BY <2>0 DEF SessionsAlike
    <3> HIDE DEF Its
    <3>2. SessionsAlike(Without(m.sessions, Its(m.sessions)), Without(d.sessions, Its(d.sessions)),
                       DOMAIN d.devices, ids \cup {})
      BY <2>0, <3>1, SessionsGone
    <3> QED
      BY <2>1, <2>2, <3>2 DEF Its
  <2>10. Alike(r.to, s.to, ids \cup {})
    BY <2>1, <2>2, <2>4, <2>5, <2>6, <2>7, <2>8, <2>9 DEF Alike, MemBut, DbBut, MemFields, DbFields
  <2>11. Named(s.to) \subseteq Named(d) \cup {} /\ Left(r.to, s.to) = Left(m, d)
    BY <2>1, <2>2, <2>5, <2>6, <2>7, <2>8, <2>9 DEF Named, Left, MemBut, DbBut, MemFields, DbFields
  <2>12. Goes(m, d, r.to, s.to, ids, {}) /\ r.says = s.says
    BY <2>3, <2>10, <2>11 DEF Goes
  <2> QED
    BY <2>12 DEF r, s
<1> QED
  BY <1>1, <1>2
-----------------------------------------------------------------------------
(* Members who join.                                                       *)

\* Both stores find the same member by a handle.
LEMMA SameHandle ==
    ASSUME NEW m, NEW d, NEW ids, Alike(m, d, ids), NEW h
    PROVE  M!ByHandle(m, h) = D!ByHandle(d, h)
<1> DEFINE here == {u \in DOMAIN m.users : m.users[u].handle = h}
           there == {u \in DOMAIN d.users : d.users[u].handle = h}
<1>1. M!ByHandle(m, h) = IF here = {} THEN NoOne ELSE CHOOSE u \in here : TRUE
  BY DEF M!ByHandle, M!Where
<1>2. D!ByHandle(d, h) = IF there = {} THEN NoOne ELSE CHOOSE u \in there : TRUE
  BY DEF D!ByHandle, D!Where
<1>3. here = there
  <2>1. \A u \in DOMAIN d.users : D!MapUser(d.users[u]).handle = d.users[u].handle
    BY DEF D!MapUser
  <2> QED
    BY <2>1 DEF Alike, UsersAlike
<1> HIDE DEF here, there
<1> QED
  BY <1>1, <1>2, <1>3

\* An invite that is good is there.
LEMMA GoodInvite ==
    ASSUME NEW rows, NEW i, NEW now, InviteState(Seek(rows, i), now) = "ok"
    PROVE  i \in DOMAIN rows
  BY DEF InviteState, Seek

\* A member more, by an invite that is now redeemed.
Joins(m, d, m0, d0, i, u, h, inv) ==
    /\ MemBut(m0, m, {"users", "invites"}) /\ DbBut(d0, d, {"users", "invites"})
    /\ m0.users = With(m.users, u, M!NewUser(h, FALSE))
    /\ d0.users = With(d.users, u, D!NewUser(h, FALSE))
    /\ inv = [d.invites[i] EXCEPT !.redeemedBy = u, !.redeemed = TRUE]
    /\ m0.invites = [m.invites EXCEPT ![i] = inv] /\ d0.invites = [d.invites EXCEPT ![i] = inv]

LEMMA JoinGoes ==
    ASSUME NEW m, NEW d, NEW ids, Alike(m, d, ids), NEW u \in Users, u \notin ids,
           NEW h \in Handles, NEW i \in DOMAIN d.invites, NEW m0, NEW d0,
           NEW inv, Joins(m, d, m0, d0, i, u, h, inv)
    PROVE  Goes(m, d, m0, d0, ids, {u})
<1>0. /\ MemBut(m0, m, {"users", "invites"}) /\ DbBut(d0, d, {"users", "invites"})
      /\ m0.users = With(m.users, u, M!NewUser(h, FALSE))
      /\ d0.users = With(d.users, u, D!NewUser(h, FALSE))
      /\ inv = [d.invites[i] EXCEPT !.redeemedBy = u, !.redeemed = TRUE]
      /\ m0.invites = [m.invites EXCEPT ![i] = inv] /\ d0.invites = [d.invites EXCEPT ![i] = inv]
  BY DEF Joins
<1> DEFINE more == ids \cup {u}
           row == D!NewUser(h, FALSE)
<1>1. Alike(m, d, more)
  BY Wider
<1>2. row \in DbUsers /\ row.admin = FALSE /\ row.vault = FALSE /\
      M!NewUser(h, FALSE) \in MemUsers /\ M!NewUser(h, FALSE) = D!MapUser(row)
  BY DEF row, DbUsers, MemUsers, D!NewUser, M!NewUser, D!MapUser
<1> HIDE DEF row, more
<1>3. DOMAIN d0.users = DOMAIN d.users \cup {u} /\ u \notin DOMAIN d.users /\ u # Admin
  BY <1>0 DEF With, Alike, UsersAlike
<1>4. UsersAlike(m0.users, m.vaults, d0.users, more)
  <2>1. Tab(d0.users, Users, DbUsers)
    <3>1. Tab(d.users, Users, DbUsers) /\ row \in DbUsers
      BY <1>2 DEF Alike, UsersAlike
    <3>2. Tab(With(d.users, u, row), Users, DbUsers)
      BY <3>1, WithTab
    <3> QED
      BY <1>0, <3>2 DEF row
  <2>2. m0.users \in [DOMAIN d0.users -> MemUsers]
    BY <1>0, <1>2, <1>3 DEF Alike, UsersAlike, With
  <2>3. \A x \in DOMAIN d0.users : m0.users[x] = D!MapUser(d0.users[x])
    <3>1. m0.users[u] = D!MapUser(d0.users[u])
      BY <1>0, <1>2 DEF With, row
    <3>2. \A x \in DOMAIN d.users : d0.users[x] = d.users[x]
      BY <1>0, <1>3 DEF With
    <3>3. \A x \in DOMAIN d.users : m0.users[x] = m.users[x]
      <4>1. DOMAIN m.users = DOMAIN d.users
        BY DEF Alike, UsersAlike
      <4> QED
        BY <1>0, <1>3, <4>1 DEF With
    <3> QED
      BY <1>3, <3>1, <3>2, <3>3 DEF Alike, UsersAlike
  <2>4. m.vaults = {x \in DOMAIN d0.users : d0.users[x].vault}
    BY <1>0, <1>2, <1>3 DEF Alike, UsersAlike, With, row
  <2>5. \A x \in DOMAIN d0.users : d0.users[x].admin <=> x = Admin
    BY <1>0, <1>2, <1>3 DEF Alike, UsersAlike, With, row
  <2> QED
    BY <1>0, <1>1, <1>3, <2>1, <2>2, <2>3, <2>4, <2>5 DEF Alike, UsersAlike, more
<1>5. InvitesAlike(m0.invites, d0.invites, DOMAIN d0.users, more)
  <2>1. InvitesAlike(m.invites, d.invites, DOMAIN d.users, more)
    BY <1>1 DEF Alike
  <2>2. inv \in InviteRows /\ inv.redeemedBy = u
    <3>1. d.invites[i] \in InviteRows
      BY <2>1 DEF InvitesAlike, Tab
    <3> QED
      BY <1>0, <3>1 DEF InviteRows
  <2>3. Tab(d0.invites, Invites, InviteRows)
    BY <1>0, <2>1, <2>2, ExceptTab DEF InvitesAlike
  <2> QED
    BY <1>0, <1>3, <2>1, <2>2, <2>3 DEF InvitesAlike
<1>6. DevicesAlike(m.devices, d.devices, DOMAIN d0.users, more)
  BY <1>3 DEF Alike, DevicesAlike, more
<1>7. PairingsAlike(m.pairings, d.pairings, DOMAIN d0.users, more)
  BY <1>3 DEF Alike, PairingsAlike, more
<1>8. UploadsAlike(m.uploads, d.uploads, d0.users, more)
  <2>1. \A x \in DOMAIN d.uploads : Joined(d.uploads[x], d0.users) = Joined(d.uploads[x], d.users)
    BY <1>0, <1>3 DEF Alike, UploadsAlike, Joined, With
  <2> QED
    BY <1>1, <1>3, <2>1 DEF Alike, UploadsAlike
<1>9. Alike(m0, d0, more)
  BY <1>0, <1>1, <1>4, <1>5, <1>6, <1>7, <1>8 DEF Alike, MemBut, DbBut, MemFields, DbFields
<1>10. Named(d0) \subseteq Named(d) \cup {u} /\ Left(m0, d0) = Left(m, d)
  BY <1>0, <1>3 DEF Named, Left, MemBut, DbBut, MemFields, DbFields
<1> QED
  BY <1>9, <1>10 DEF Goes, more

\* Ids that no row has had, and that u is not given.
Spare(pool, ids, u) == {x \in pool \ ids : x # u}

\* The stores go on alike, and answer the same.
GoesSame(m, d, r, s, ids, new) == Goes(m, d, r.to, s.to, ids, new) /\ r.says = s.says

LEMMA CompleteRegistrationGoes ==
    ASSUME NEW m, NEW d, NEW ids, Alike(m, d, ids), NEW i, NEW u \in Users, u \notin ids,
           NEW h \in Handles, NEW v \in Spare(Devices, ids, u), NEW t \in Spare(Tokens, ids, u),
           NEW e \in Times, NEW now
    PROVE  GoesSame(m, d, M!CompleteRegistration(m, i, u, h, v, t, e, now),
                    D!CompleteRegistration(d, i, u, h, v, t, e, now), ids, {u} \cup {v, t})
<1> DEFINE r == M!CompleteRegistration(m, i, u, h, v, t, e, now)
           s == D!CompleteRegistration(d, i, u, h, v, t, e, now)
           state == InviteState(Seek(d.invites, i), now)
<1>0. M!InviteState(M!Seek(m.invites, i), now) = state /\
      D!InviteState(D!Seek(d.invites, i), now) = state /\ M!ByHandle(m, h) = D!ByHandle(d, h)
  BY Shared, SameHandle DEF Alike, InvitesAlike
<1>1. CASE state # "ok" \/ D!ByHandle(d, h) # NoOne
  <2>1. r.to = m /\ s.to = d /\ r.says = s.says
    BY <1>0, <1>1, Shared DEF M!CompleteRegistration, D!CompleteRegistration, Answer
  <2>2. Goes(m, d, r.to, s.to, ids, {u} \cup {v, t})
    BY <2>1, GoesNowhere
  <2> HIDE DEF r, s
  <2>3. GoesSame(m, d, r, s, ids, {u} \cup {v, t})
    BY <2>1, <2>2 DEF GoesSame
  <2> QED
    BY <2>3 DEF r, s
<1>2. CASE state = "ok" /\ D!ByHandle(d, h) = NoOne
  <2>a. PICK m0 : m0 = [m EXCEPT !.users = M!With(@, u, M!NewUser(h, FALSE)),
                                  !.invites[i] = [@ EXCEPT !.redeemedBy = u, !.redeemed = TRUE]]
    OBVIOUS
  <2>b. PICK d0 : d0 = [[d EXCEPT !.users = D!With(@, u, D!NewUser(h, FALSE))]
                          EXCEPT !.invites[i] = [@ EXCEPT !.redeemedBy = u, !.redeemed = TRUE]]
    OBVIOUS
  <2> DEFINE inv == [d.invites[i] EXCEPT !.redeemedBy = u, !.redeemed = TRUE]
  <2>1. r = M!AddDeviceAndSession(m0, u, v, t, e) /\ s = D!AddDeviceAndSession(d0, u, v, t, e)
    BY <1>0, <1>2, <2>a, <2>b DEF M!CompleteRegistration, D!CompleteRegistration
  <2>2. i \in DOMAIN d.invites /\ i \in DOMAIN m.invites
    BY <1>2, GoodInvite DEF Alike, InvitesAlike
  <2>3. m0.users = M!With(m.users, u, M!NewUser(h, FALSE)) /\ d0.users = D!With(d.users, u, D!NewUser(h, FALSE))
    BY <2>a, <2>b DEF Alike, MemShape, DbShape
  <2>4. m0.invites = [m.invites EXCEPT ![i] = inv] /\ d0.invites = [d.invites EXCEPT ![i] = inv]
    BY <2>a, <2>b, <2>2 DEF Alike, InvitesAlike, MemShape, DbShape
  <2> HIDE DEF r, s, inv
  <2>5. MemBut(m0, m, {"users", "invites"}) /\ DbBut(d0, d, {"users", "invites"})
    <3>1. MemShape(m) /\ DbShape(d)
      BY DEF Alike
    <3>2. MemBut(m0, m, {"users", "invites"})
      BY <2>a, <3>1 DEF MemShape, MemBut, MemFields
    <3>3. DbBut(d0, d, {"users", "invites"})
      BY <2>b, <3>1 DEF DbShape, DbBut, DbFields, MemFields
    <3> QED
      BY <3>2, <3>3
  <2>6. Goes(m, d, m0, d0, ids, {u})
    <3>1. u \notin ids /\ inv = [d.invites[i] EXCEPT !.redeemedBy = u, !.redeemed = TRUE]
      BY DEF inv
    <3>2. m0.users = With(m.users, u, M!NewUser(h, FALSE)) /\ d0.users = With(d.users, u, D!NewUser(h, FALSE))
      BY <2>3, Shared
    <3>3. Joins(m, d, m0, d0, i, u, h, inv)
      BY <2>4, <2>5, <3>1, <3>2 DEF Joins
    <3> QED
      BY <2>2, <3>3, JoinGoes
  <2>7. Goes(m0, d0, r.to, s.to, ids \cup {u}, {v, t}) /\ r.says = s.says
    <3> DEFINE more == ids \cup {u}
    <3>1. /\ Alike(m0, d0, more) /\ u \in DOMAIN d0.users
          /\ v \in Devices /\ t \in Tokens /\ v \notin more /\ t \notin more
      BY <2>3, <2>6, Shared DEF Goes, With, Spare
    <3> HIDE DEF more
    <3>2. /\ Goes(m0, d0, M!AddDeviceAndSession(m0, u, v, t, e).to,
                  D!AddDeviceAndSession(d0, u, v, t, e).to, more, {v, t})
          /\ M!AddDeviceAndSession(m0, u, v, t, e).says = D!AddDeviceAndSession(d0, u, v, t, e).says
      BY <3>1, AddDeviceAndSessionGoes
    <3> QED
      BY <2>1, <3>2 DEF more
  <2>9. Goes(m, d, r.to, s.to, ids, {u} \cup {v, t})
    BY <2>6, <2>7, GoesThen
  <2>10. GoesSame(m, d, r, s, ids, {u} \cup {v, t})
    BY <2>7, <2>9 DEF GoesSame
  <2> QED
    BY <2>10 DEF r, s
<1> QED
  BY <1>1, <1>2

LEMMA CompleteAdminEnrollGoes ==
    ASSUME NEW m, NEW d, NEW ids, Alike(m, d, ids), NEW u \in DOMAIN d.users,
           NEW v \in Devices, NEW t \in Tokens, v \notin ids, t \notin ids, NEW e \in Times
    PROVE  /\ Goes(m, d, M!CompleteAdminEnroll(m, u, v, t, e).to,
                   D!CompleteAdminEnroll(d, u, v, t, e).to, ids, {v, t})
           /\ M!CompleteAdminEnroll(m, u, v, t, e).says = D!CompleteAdminEnroll(d, u, v, t, e).says
<1> DEFINE r == M!CompleteAdminEnroll(m, u, v, t, e)
           s == D!CompleteAdminEnroll(d, u, v, t, e)
<1>1. M!CountDevices(m, u) = D!CountDevices(d, u)
  <2> DEFINE here == {x \in DOMAIN m.devices : m.devices[x].user = u}
             there == {x \in DOMAIN d.devices : d.devices[x].user = u}
  <2>1. M!CountDevices(m, u) = Cardinality(here)
    BY DEF M!CountDevices, M!Where, M!Cardinality, Cardinality
  <2>2. D!CountDevices(d, u) = Cardinality(there)
    BY DEF D!CountDevices, D!Where, D!Cardinality, Cardinality
  <2>3. here = there
    BY OwnDevices
  <2> HIDE DEF here, there
  <2> QED
    BY <2>1, <2>2, <2>3
<1>2. CASE D!CountDevices(d, u) > 0
  <2>1. r.to = m /\ s.to = d /\ r.says = s.says
    BY <1>1, <1>2, Shared DEF M!CompleteAdminEnroll, D!CompleteAdminEnroll, Answer
  <2> QED
    BY <2>1, GoesNowhere
<1>3. CASE ~(D!CountDevices(d, u) > 0)
  <2>1. r = M!AddDeviceAndSession(m, u, v, t, e) /\ s = D!AddDeviceAndSession(d, u, v, t, e)
    BY <1>1, <1>3 DEF M!CompleteAdminEnroll, D!CompleteAdminEnroll
  <2> HIDE DEF r, s
  <2>2. Goes(m, d, M!AddDeviceAndSession(m, u, v, t, e).to, D!AddDeviceAndSession(d, u, v, t, e).to,
             ids, {v, t}) /\
        M!AddDeviceAndSession(m, u, v, t, e).says = D!AddDeviceAndSession(d, u, v, t, e).says
    BY AddDeviceAndSessionGoes
  <2>3. Goes(m, d, r.to, s.to, ids, {v, t}) /\ r.says = s.says
    BY <2>1, <2>2
  <2> QED
    BY <2>3 DEF r, s
<1> QED
  BY <1>2, <1>3

-----------------------------------------------------------------------------
(* A member goes.                                                          *)

\* What removeUser makes of the tables that name users by more than one key.
Cleared(log, u) == {IF a = u THEN NoOne ELSE a : a \in log}
Invited(invites, u) ==
    [x \in {y \in DOMAIN invites : invites[y].by # u} |->
        IF invites[x].redeemedBy = u THEN [invites[x] EXCEPT !.redeemedBy = NoOne]
        ELSE invites[x]]
Undecided(uploads, u) ==
    [x \in {y \in DOMAIN uploads : uploads[y].user # u} |->
        IF uploads[x].decidedBy = u THEN [uploads[x] EXCEPT !.decidedBy = NoOne]
        ELSE uploads[x]]


\* The tables after removeUser, and after the deletes that ON DELETE CASCADE
\* and SET NULL make behind a user's.
Of(rows, u) == {x \in DOMAIN rows : rows[x].user = u}
Owned(rows, u) == {x \in DOMAIN rows : rows[x].owner = u}
On(rows, own) == {t \in DOMAIN rows : rows[t].device \in own}

MemGone(m, m1, u) ==
    /\ MemBut(m1, m, {"users", "vaults", "devices", "sessions", "items", "blobs",
                      "uploads", "invites", "audit"})
    /\ m1.users = Without(m.users, {u}) /\ m1.vaults = m.vaults \ {u}
    /\ m1.devices = Without(m.devices, Of(m.devices, u))
    /\ m1.sessions = Without(m.sessions, On(m.sessions, Of(m.devices, u)))
    /\ m1.items = Without(m.items, Owned(m.items, u))
    /\ m1.blobs = Without(m.blobs, Owned(m.blobs, u))
    /\ m1.uploads = Undecided(m.uploads, u) /\ m1.invites = Invited(m.invites, u)
    /\ m1.audit = Cleared(m.audit, u)

DbCascaded(d, d1, u) ==
    /\ DbBut(d1, d, {"users", "devices", "sessions", "items", "blobs", "uploads",
                     "pairings", "pushes"})
    /\ d1.users = Without(d.users, {u})
    /\ d1.devices = Without(d.devices, Of(d.devices, u))
    /\ d1.sessions = Without(d.sessions, On(d.sessions, Of(d.devices, u)))
    /\ d1.items = Without(d.items, Owned(d.items, u))
    /\ d1.blobs = Without(d.blobs, Owned(d.blobs, u))
    /\ d1.pairings = Without(d.pairings, Of(d.pairings, u))
    /\ d1.pushes = Without(d.pushes, {e \in DOMAIN d.pushes : d.pushes[e] \in Of(d.devices, u)})
    /\ d1.uploads = Without(d.uploads, Of(d.uploads, u))

DbGone(d, d1, u) ==
    /\ DbBut(d1, d, {"users", "devices", "sessions", "items", "blobs", "uploads",
                     "invites", "audit", "pairings", "pushes"})
    /\ d1.users = Without(d.users, {u})
    /\ d1.devices = Without(d.devices, Of(d.devices, u))
    /\ d1.sessions = Without(d.sessions, On(d.sessions, Of(d.devices, u)))
    /\ d1.items = Without(d.items, Owned(d.items, u))
    /\ d1.blobs = Without(d.blobs, Owned(d.blobs, u))
    /\ d1.pairings = Without(d.pairings, Of(d.pairings, u))
    /\ d1.pushes = Without(d.pushes, {e \in DOMAIN d.pushes : d.pushes[e] \in Of(d.devices, u)})
    /\ d1.uploads = Undecided(d.uploads, u) /\ d1.invites = Invited(d.invites, u)
    /\ d1.audit = Cleared(d.audit, u)

LEMMA MemRemoved ==
    ASSUME NEW m, MemShape(m), NEW u \in DOMAIN m.users,
           ~(m.users[u].admin /\ {x \in DOMAIN m.users : m.users[x].admin} = {u})
    PROVE  \E m1 : M!RemoveUser(m, u) = Answer(m1, <<"ok">>) /\ MemGone(m, m1, u)
<1> DEFINE Set1(rows) == [x \in DOMAIN rows |-> IF x \in {y \in DOMAIN rows : rows[y].decidedBy = u}
                                                THEN [rows[x] EXCEPT !.decidedBy = NoOne] ELSE rows[x]]
           Set2(rows) == [x \in DOMAIN rows |-> IF x \in {y \in DOMAIN rows : rows[y].redeemedBy = u}
                                                THEN [rows[x] EXCEPT !.redeemedBy = NoOne] ELSE rows[x]]
           own == {v \in DOMAIN m.devices : m.devices[v].user = u}
           users == M!Without(m.users, {u})
           devices == M!Without(m.devices, own)
           sessions == M!Without(m.sessions, {t \in DOMAIN m.sessions : m.sessions[t].device \in own})
           items == M!Without(m.items, {x \in DOMAIN m.items : m.items[x].owner = u})
           blobs == M!Without(m.blobs, {x \in DOMAIN m.blobs : m.blobs[x].owner = u})
           uploads == Set1(M!Without(m.uploads, {x \in DOMAIN m.uploads : m.uploads[x].user = u}))
           invites == Set2(M!Without(m.invites, {x \in DOMAIN m.invites : m.invites[x].by = u}))
           log == Cleared(m.audit, u)
<1>1. PICK m1 : m1 = [m EXCEPT !.users = users, !.vaults = @ \ {u}, !.devices = devices,
                               !.sessions = sessions, !.items = items, !.blobs = blobs,
                               !.uploads = uploads, !.invites = invites, !.audit = log]
  OBVIOUS
<1>2. M!RemoveUser(m, u) = M!Answer(m1, <<"ok">>)
  BY <1>1 DEF M!RemoveUser, M!Where, M!Set, Cleared
<1>3. uploads = Undecided(m.uploads, u)
  BY Shared DEF Undecided, Without
<1>4. invites = Invited(m.invites, u)
  BY Shared DEF Invited, Without
<1>5. /\ users = Without(m.users, {u}) /\ devices = Without(m.devices, own)
      /\ sessions = Without(m.sessions, {t \in DOMAIN m.sessions : m.sessions[t].device \in own})
      /\ items = Without(m.items, {x \in DOMAIN m.items : m.items[x].owner = u})
      /\ blobs = Without(m.blobs, {x \in DOMAIN m.blobs : m.blobs[x].owner = u})
  BY Shared
<1> HIDE DEF users, devices, sessions, items, blobs, uploads, invites, log
<1>6. MemBut(m1, m, {"users", "vaults", "devices", "sessions", "items", "blobs",
                     "uploads", "invites", "audit"})
  BY <1>1 DEF MemShape, MemBut, MemFields
<1>7. /\ m1.users = users /\ m1.vaults = m.vaults \ {u} /\ m1.devices = devices
      /\ m1.sessions = sessions /\ m1.items = items /\ m1.blobs = blobs
      /\ m1.uploads = uploads /\ m1.invites = invites /\ m1.audit = log
  BY <1>1 DEF MemShape
<1>8. M!RemoveUser(m, u) = Answer(m1, <<"ok">>) /\ log = Cleared(m.audit, u)
  BY <1>2, Shared DEF log
<1> QED
  BY <1>3, <1>4, <1>5, <1>6, <1>7, <1>8 DEF MemGone, Of, Owned, On

LEMMA Cascaded ==
    ASSUME NEW d, DbShape(d), NEW u,
           \A x \in DOMAIN d.items : d.items[x].owner # u => d.items[x].blob \notin Owned(d.blobs, u)
    PROVE  DbCascaded(d, D!Cascade(d, u), u)
<1> DEFINE Set3(rows, files) == [x \in DOMAIN rows |-> IF x \in {y \in DOMAIN rows : rows[y].blob \in files}
                                                THEN [rows[x] EXCEPT !.blob = NoOne] ELSE rows[x]]
           files == {x \in DOMAIN d.blobs : d.blobs[x].owner = u}
           own == {v \in DOMAIN d.devices : d.devices[v].user = u}
           users == D!Without(d.users, {u})
           devices == D!Without(d.devices, own)
           sessions == D!Without(d.sessions, {t \in DOMAIN d.sessions : d.sessions[t].device \in own})
           pushes == D!Without(d.pushes, {e \in DOMAIN d.pushes : d.pushes[e] \in own})
           blobs == D!Without(d.blobs, files)
           theirs == D!Without(d.items, {x \in DOMAIN d.items : d.items[x].owner = u})
           items == Set3(theirs, files)
           uploads == D!Without(d.uploads, {x \in DOMAIN d.uploads : d.uploads[x].user = u})
           pairings == D!Without(d.pairings, {p \in DOMAIN d.pairings : d.pairings[p].user = u})
<1>1. PICK d1 : d1 = [d EXCEPT !.users = users, !.devices = devices, !.sessions = sessions,
                               !.pushes = pushes, !.blobs = blobs, !.items = items,
                               !.uploads = uploads, !.pairings = pairings]
  OBVIOUS
<1>2. D!Cascade(d, u) = d1
  BY <1>1 DEF D!Cascade, D!Where, D!Set
<1>3. items = Without(d.items, {x \in DOMAIN d.items : d.items[x].owner = u})
  BY Shared DEF Without, Owned
<1>4. /\ users = Without(d.users, {u}) /\ devices = Without(d.devices, own)
      /\ sessions = Without(d.sessions, {t \in DOMAIN d.sessions : d.sessions[t].device \in own})
      /\ pushes = Without(d.pushes, {e \in DOMAIN d.pushes : d.pushes[e] \in own})
      /\ blobs = Without(d.blobs, {x \in DOMAIN d.blobs : d.blobs[x].owner = u})
      /\ uploads = Without(d.uploads, {x \in DOMAIN d.uploads : d.uploads[x].user = u})
      /\ pairings = Without(d.pairings, {p \in DOMAIN d.pairings : d.pairings[p].user = u})
  BY Shared
<1> HIDE DEF users, devices, sessions, pushes, blobs, items, uploads, pairings
<1>5. DbBut(d1, d, {"users", "devices", "sessions", "items", "blobs", "uploads", "pairings", "pushes"})
  BY <1>1 DEF DbShape, DbBut, DbFields, MemFields
<1>6. /\ d1.users = users /\ d1.devices = devices /\ d1.sessions = sessions
      /\ d1.pushes = pushes /\ d1.blobs = blobs /\ d1.items = items
      /\ d1.uploads = uploads /\ d1.pairings = pairings
  BY <1>1 DEF DbShape
<1> QED
  BY <1>2, <1>3, <1>4, <1>5, <1>6 DEF DbCascaded, Of, Owned, On

\* The tables of Postgres: no key that has no ON DELETE still names u, and no
\* note of another member names a file of u's.
LEMMA DbRemoved ==
    ASSUME NEW d, DbShape(d), NEW u \in DOMAIN d.users, u # NoOne,
           ~(d.users[u].admin /\ {x \in DOMAIN d.users : d.users[x].admin} = {u}),
           Filed(d.items, d.blobs), \A x \in DOMAIN d.blobs : x # NoOne,
           Tab(d.uploads, Uploads, DbUploads), Tab(d.invites, Invites, InviteRows)
    PROVE  \E d1 : D!RemoveUser(d, u) = Answer(d1, <<"ok">>) /\ DbGone(d, d1, u)
<1> DEFINE Set1(rows) == [x \in DOMAIN rows |-> IF x \in {y \in DOMAIN rows : rows[y].decidedBy = u}
                                                THEN [rows[x] EXCEPT !.decidedBy = NoOne] ELSE rows[x]]
           Set2(rows) == [x \in DOMAIN rows |-> IF x \in {y \in DOMAIN rows : rows[y].redeemedBy = u}
                                                THEN [rows[x] EXCEPT !.redeemedBy = NoOne] ELSE rows[x]]
           Set3(rows, files) == [x \in DOMAIN rows |-> IF x \in {y \in DOMAIN rows : rows[y].blob \in files}
                                                THEN [rows[x] EXCEPT !.blob = NoOne] ELSE rows[x]]
           decided == Set1(d.uploads)
           cleared == Set2(d.invites)
           invites == D!Without(cleared, {x \in DOMAIN cleared : cleared[x].by = u})
           log == Cleared(d.audit, u)
<1>1. PICK d0 : d0 = [d EXCEPT !.audit = log, !.uploads = decided, !.invites = invites]
  OBVIOUS
<1>2. D!Detached(d, u) = d0
  BY <1>1 DEF D!Detached, D!Where, D!Set, Cleared
<1>3. DbBut(d0, d, {"audit", "uploads", "invites"}) /\ d0.audit = log /\
      d0.uploads = decided /\ d0.invites = invites
  <2> HIDE DEF decided, invites, log
  <2>1. DbBut(d0, d, {"audit", "uploads", "invites"})
    BY <1>1 DEF DbShape, DbBut, DbFields, MemFields
  <2> QED
    BY <1>1, <2>1 DEF DbShape
<1>4. d0.uploads = decided /\ DbShape(d0) /\ d0.items = d.items /\ d0.blobs = d.blobs /\
      d0.devices = d.devices
  BY <1>3 DEF DbBut, DbFields, MemFields
<1>5. PICK d1 : d1 = D!Cascade(d0, u) /\ DbCascaded(d0, d1, u)
  <2>1. \A x \in DOMAIN d0.items : d0.items[x].owner # u => d0.items[x].blob \notin Owned(d0.blobs, u)
    BY <1>4 DEF Filed, Owned
  <2> QED
    BY <1>4, <2>1, Cascaded
<1>6. d1.uploads = Undecided(d.uploads, u)
  <2>1. \A x \in DOMAIN d.uploads : d.uploads[x] \in DbUploads /\ decided[x].user = d.uploads[x].user
    BY DEF Tab, DbUploads
  <2>2. d1.uploads = Without(decided, Of(decided, u))
    BY <1>4, <1>5 DEF DbCascaded
  <2>3. DOMAIN decided = DOMAIN d.uploads /\ Of(decided, u) = Of(d.uploads, u)
    BY <2>1 DEF Of
  <2> QED
    BY <2>2, <2>3 DEF Undecided, Without, Of
<1>7. invites = Invited(d.invites, u)
  <2>1. \A x \in DOMAIN d.invites : d.invites[x] \in InviteRows /\ cleared[x].by = d.invites[x].by
    BY DEF Tab, InviteRows
  <2> QED
    BY <2>1, Shared DEF Invited, Without
<1>8. /\ d0.users = d.users /\ d0.devices = d.devices /\ d0.sessions = d.sessions
      /\ d0.pushes = d.pushes /\ d0.blobs = d.blobs /\ d0.items = d.items /\ d0.pairings = d.pairings
  BY <1>3 DEF DbBut, DbFields, MemFields
<1> HIDE DEF decided, invites, log
<1>9. DbBut(d1, d, {"users", "devices", "sessions", "items", "blobs", "uploads",
                    "invites", "audit", "pairings", "pushes"}) /\
      d1.audit = log /\ d1.invites = invites
  BY <1>3, <1>5 DEF DbCascaded, DbBut, DbFields, MemFields
<1>10. ~D!Referenced(d1, u)
  <2>1. u \notin d1.audit
    BY <1>9 DEF log, Cleared
  <2>2. \A x \in DOMAIN d1.invites : u \notin {d1.invites[x].by, d1.invites[x].redeemedBy}
    <3>1. \A x \in DOMAIN d.invites : d.invites[x] \in InviteRows
      BY DEF Tab
    <3> QED
      BY <1>7, <1>9, <3>1 DEF Invited, InviteRows
  <2>3. \A x \in DOMAIN d1.uploads : d1.uploads[x].decidedBy # u
    <3>1. \A x \in DOMAIN d.uploads : d.uploads[x] \in DbUploads
      BY DEF Tab
    <3> QED
      BY <1>6, <3>1 DEF Undecided, DbUploads
  <2> QED
    BY <2>1, <2>2, <2>3 DEF D!Referenced
<1>11. D!RemoveUser(d, u) = Answer(d1, <<"ok">>)
  BY <1>2, <1>5, <1>10, Shared DEF D!RemoveUser, D!Commit, D!Where
<1> QED
  <2>1. DbGone(d, d1, u)
    BY <1>5, <1>6, <1>7, <1>8, <1>9 DEF log, DbGone, DbCascaded
  <2> QED
    BY <1>11, <2>1

\* removeUser: what memory keeps is left over by the member who goes.
LEMMA RemoveUserGoes ==
    ASSUME NEW m, NEW d, NEW ids, Alike(m, d, ids), NEW u
    PROVE  /\ Goes(m, d, M!RemoveUser(m, u).to, D!RemoveUser(d, u).to, ids, {})
           /\ M!RemoveUser(m, u).says = D!RemoveUser(d, u).says
<1> DEFINE r == M!RemoveUser(m, u)
           s == D!RemoveUser(d, u)
           chiefs == {x \in DOMAIN d.users : d.users[x].admin}
<1>1. UsersAlike(m.users, m.vaults, d.users, ids) /\ DOMAIN m.users = DOMAIN d.users
  BY DEF Alike, UsersAlike
<1>2. \A x \in DOMAIN d.users : m.users[x].admin = d.users[x].admin /\ (d.users[x].admin <=> x = Admin)
  <2>1. \A x \in DOMAIN d.users : D!MapUser(d.users[x]).admin = d.users[x].admin
    BY DEF D!MapUser
  <2> QED
    BY <1>1, <2>1 DEF UsersAlike
<1>3. chiefs = {Admin} /\ {x \in DOMAIN m.users : m.users[x].admin} = chiefs
  BY <1>1, <1>2 DEF UsersAlike
<1>4. CASE u \notin DOMAIN d.users \/ (d.users[u].admin /\ chiefs = {u})
  <2>1. r.to = m /\ s.to = d /\ r.says = s.says
    BY <1>1, <1>2, <1>3, <1>4, Shared DEF M!RemoveUser, D!RemoveUser, M!Where, D!Where, Answer
  <2> QED
    BY <2>1, GoesNowhere
<1>5. CASE ~(u \notin DOMAIN d.users \/ (d.users[u].admin /\ chiefs = {u}))
  <2>1. u \in DOMAIN d.users /\ u # Admin /\ u \in Users /\ u # NoOne /\ u \in ids
    BY <1>1, <1>2, <1>3, <1>5, RowsAssumption DEF UsersAlike, Tab
  <2>2. PICK m1 : r = Answer(m1, <<"ok">>) /\ MemGone(m, m1, u)
    <3>1. MemShape(m) /\ u \in DOMAIN m.users
      BY <1>1, <2>1 DEF Alike
    <3>2. ~(m.users[u].admin /\ {x \in DOMAIN m.users : m.users[x].admin} = {u})
      BY <1>2, <1>3, <2>1
    <3> QED
      BY <3>1, <3>2, MemRemoved
  <2>3. PICK d1 : s = Answer(d1, <<"ok">>) /\ DbGone(d, d1, u)
    <3>1. DbShape(d) /\ Filed(d.items, d.blobs)
      BY DEF Alike
    <3>2. ~(d.users[u].admin /\ {x \in DOMAIN d.users : d.users[x].admin} = {u})
      BY <1>5
    <3>3. Tab(d.uploads, Uploads, DbUploads) /\ Tab(d.invites, Invites, InviteRows)
      BY DEF Alike, UploadsAlike, InvitesAlike
    <3>4. \A x \in DOMAIN d.blobs : x # NoOne
      BY RowsAssumption DEF Alike, BlobsAlike, Tab
    <3> QED
      BY <2>1, <3>1, <3>2, <3>3, <3>4, DbRemoved
  <2>4. r.to = m1 /\ s.to = d1 /\ r.says = s.says
    BY <2>2, <2>3 DEF Answer
  <2> HIDE DEF r, s, chiefs
  <2>5. DOMAIN d1.users = DOMAIN d.users \ {u}
    BY <2>3 DEF DbGone, Without
  <2>6. UsersAlike(m1.users, m1.vaults, d1.users, ids)
    <3>1. Tab(d1.users, Users, DbUsers)
      BY <1>1, <2>3, WithoutTab DEF UsersAlike, DbGone
    <3>2. \A x \in DOMAIN d1.users : d1.users[x] = d.users[x] /\ m1.users[x] = m.users[x]
      BY <1>1, <2>2, <2>3, <2>5 DEF MemGone, DbGone, Without
    <3>3. m1.users \in [DOMAIN d1.users -> MemUsers]
      BY <1>1, <2>2, <2>5 DEF UsersAlike, MemGone, Without
    <3>4. m1.vaults = {x \in DOMAIN d1.users : d1.users[x].vault}
      BY <1>1, <2>2, <2>5, <3>2 DEF UsersAlike, MemGone
    <3> QED
      BY <1>1, <2>1, <2>5, <3>1, <3>2, <3>3, <3>4 DEF UsersAlike
  <2>7. InvitesAlike(m1.invites, d1.invites, DOMAIN d1.users, ids) /\ DOMAIN d1.invites \subseteq DOMAIN d.invites
    <3>1. InvitesAlike(m.invites, d.invites, DOMAIN d.users, ids)
      BY DEF Alike
    <3>2. m1.invites = Invited(d.invites, u) /\ d1.invites = Invited(d.invites, u)
      BY <2>2, <2>3, <3>1 DEF MemGone, DbGone, InvitesAlike
    <3>3. \A x \in DOMAIN d.invites : d.invites[x] \in InviteRows
      BY <3>1 DEF InvitesAlike, Tab
    <3>4. \A x \in DOMAIN Invited(d.invites, u) :
              /\ x \in DOMAIN d.invites
              /\ Invited(d.invites, u)[x] \in InviteRows
              /\ Invited(d.invites, u)[x].redeemedBy \in (DOMAIN d.users \ {u}) \cup {NoOne}
      BY <2>1, <3>1, <3>3 DEF Invited, InviteRows, InvitesAlike
    <3>5. Tab(Invited(d.invites, u), Invites, InviteRows)
      <4>1. Invited(d.invites, u) = [x \in DOMAIN Invited(d.invites, u) |-> Invited(d.invites, u)[x]]
        BY DEF Invited
      <4> QED
        BY <3>1, <3>4, <4>1 DEF InvitesAlike, Tab
    <3> QED
      BY <2>5, <3>1, <3>2, <3>4, <3>5 DEF InvitesAlike
  <2>8. DOMAIN d1.devices = DOMAIN d.devices \ Of(d.devices, u) /\ Of(m.devices, u) = Of(d.devices, u)
    BY <2>1, <2>3, OwnDevices DEF DbGone, Of, Without
  <2>9. DevicesAlike(m1.devices, d1.devices, DOMAIN d1.users, ids)
    <3>1. DevicesAlike(m.devices, d.devices, DOMAIN d.users, ids)
      BY DEF Alike
    <3>2. Tab(m1.devices, Devices, DeviceRows) /\ Tab(d1.devices, Devices, DeviceRows)
      BY <2>2, <2>3, <3>1, WithoutTab DEF MemGone, DbGone, DevicesAlike
    <3>3. /\ DOMAIN m1.devices = DOMAIN m.devices \ Of(d.devices, u)
          /\ \A v \in DOMAIN m1.devices : m1.devices[v] = m.devices[v]
          /\ \A v \in DOMAIN d1.devices : d1.devices[v] = d.devices[v]
      BY <2>2, <2>3, <2>8 DEF MemGone, DbGone, Without
    <3> QED
      BY <2>5, <2>8, <3>1, <3>2, <3>3 DEF DevicesAlike, Of
  <2>10. SessionsAlike(m1.sessions, d1.sessions, DOMAIN d1.devices, ids) /\
         DOMAIN d1.sessions \subseteq DOMAIN d.sessions
    <3> DEFINE mine == On(m.sessions, Of(m.devices, u))
               theirs == On(d.sessions, Of(d.devices, u))
    <3>1. SessionsAlike(m.sessions, d.sessions, DOMAIN d.devices, ids)
      BY DEF Alike
    <3>2. \A t \in DOMAIN d.sessions : t \in mine <=> t \in theirs
      BY <2>8, <3>1 DEF SessionsAlike, On
    <3>3. DOMAIN d1.devices \subseteq DOMAIN d.devices /\
          \A t \in DOMAIN d.sessions \ theirs : d.sessions[t].device \in DOMAIN d1.devices
      BY <2>8, <3>1 DEF SessionsAlike, On
    <3> HIDE DEF mine, theirs
    <3>4. SessionsAlike(Without(m.sessions, mine), Without(d.sessions, theirs), DOMAIN d1.devices, ids)
      BY <3>1, <3>2, <3>3, SessionsGone
    <3>5. m1.sessions = Without(m.sessions, mine) /\ d1.sessions = Without(d.sessions, theirs)
      BY <2>2, <2>3 DEF mine, theirs, MemGone, DbGone
    <3> QED
      BY <3>4, <3>5 DEF Without
  <2>11. PairingsAlike(m1.pairings, d1.pairings, DOMAIN d1.users, ids) /\
         DOMAIN d1.pairings \subseteq DOMAIN d.pairings
    <3>1. PairingsAlike(m.pairings, d.pairings, DOMAIN d.users, ids)
      BY DEF Alike
    <3>2. m1.pairings = m.pairings
      BY <2>2 DEF MemGone, MemBut, MemFields
    <3>3. Tab(d1.pairings, Pairings, DbPairings)
      BY <2>3, <3>1, WithoutTab DEF DbGone, PairingsAlike
    <3>4. /\ DOMAIN d1.pairings = DOMAIN d.pairings \ Of(d.pairings, u)
          /\ \A p \in DOMAIN d1.pairings : d1.pairings[p] = d.pairings[p]
      BY <2>3 DEF DbGone, Without
    <3>5. \A p \in DOMAIN d1.pairings :
              /\ p \in DOMAIN m.pairings /\ m.pairings[p] = D!Record(d1.pairings[p])
              /\ d1.pairings[p].user \in DOMAIN d1.users \cup {NoOne}
              /\ d1.pairings[p].user # NoOne => d1.pairings[p].wrap
      BY <2>5, <3>1, <3>4 DEF PairingsAlike, Of
    <3>6. \A p \in DOMAIN m.pairings \ DOMAIN d1.pairings :
              m.pairings[p].wrap /\ m.pairings[p].user \in (Users \cap ids) \ DOMAIN d1.users
      <4>1. \A p \in Of(d.pairings, u) : m.pairings[p].wrap /\ m.pairings[p].user = u
        <5>1. \A p \in DOMAIN d.pairings : /\ D!Record(d.pairings[p]).wrap = d.pairings[p].wrap
                                           /\ D!Record(d.pairings[p]).user = d.pairings[p].user
          BY DEF D!Record
        <5> QED
          BY <2>1, <3>1, <5>1 DEF PairingsAlike, Of
      <4> QED
        BY <2>1, <2>5, <3>1, <3>4, <4>1 DEF PairingsAlike
    <3> QED
      BY <3>1, <3>2, <3>3, <3>4, <3>5, <3>6 DEF PairingsAlike
  <2>12. CodesAlike(m1.codes, d1.pairings, ids)
    <3>1. CodesAlike(m.codes, d.pairings, ids) /\ m1.codes = m.codes
      BY <2>2 DEF Alike, MemGone, MemBut, MemFields
    <3>2. /\ DOMAIN d1.pairings \subseteq DOMAIN d.pairings
          /\ \A p \in DOMAIN d1.pairings : d1.pairings[p] = d.pairings[p]
      BY <2>3 DEF DbGone, Without
    <3> QED
      BY <3>1, <3>2 DEF CodesAlike
  <2>13. ItemsAlike(m1.items, d1.items, ids) /\ DOMAIN d1.items \subseteq DOMAIN d.items
    <3>1. Tab(d1.items, Items, ItemRows)
      BY <2>3, WithoutTab DEF DbGone, Alike, ItemsAlike
    <3> QED
      BY <2>2, <2>3, <3>1 DEF MemGone, DbGone, Alike, ItemsAlike, Without
  <2>14. BlobsAlike(m1.blobs, d1.blobs, ids)
    <3>1. Tab(d1.blobs, Blobs, BlobRows)
      BY <2>3, WithoutTab DEF DbGone, Alike, BlobsAlike
    <3> QED
      BY <2>2, <2>3, <3>1 DEF MemGone, DbGone, Alike, BlobsAlike, Without
  <2>15. Filed(d1.items, d1.blobs)
    <3>1. /\ DOMAIN d1.items = {x \in DOMAIN d.items : d.items[x].owner # u}
          /\ \A x \in DOMAIN d1.items : d1.items[x] = d.items[x]
      BY <2>3 DEF DbGone, Owned, Without
    <3>2. /\ DOMAIN d1.blobs = {x \in DOMAIN d.blobs : d.blobs[x].owner # u}
          /\ \A x \in DOMAIN d1.blobs : d1.blobs[x] = d.blobs[x]
      BY <2>3 DEF DbGone, Owned, Without
    <3>3. Filed(d.items, d.blobs)
      BY DEF Alike
    <3> QED
      BY <3>1, <3>2, <3>3 DEF Filed
  <2>16. PushesAlike(m1.pushes, d1.pushes, DOMAIN d1.devices, ids)
    <3>1. PushesAlike(m.pushes, d.pushes, DOMAIN d.devices, ids) /\ m1.pushes = m.pushes
      BY <2>2 DEF Alike, MemGone, MemBut, MemFields
    <3>2. Tab(d1.pushes, Endpoints, Devices)
      BY <2>3, <3>1, WithoutTab DEF DbGone, PushesAlike
    <3>3. DOMAIN d.devices \subseteq ids
      BY DEF Alike, DevicesAlike
    <3>4. /\ DOMAIN d1.pushes = {e \in DOMAIN d.pushes : d.pushes[e] \notin Of(d.devices, u)}
          /\ \A e \in DOMAIN d1.pushes : d1.pushes[e] = d.pushes[e]
      BY <2>3 DEF DbGone, Without
    <3> QED
      BY <2>8, <3>1, <3>2, <3>3, <3>4 DEF PushesAlike
  <2>17. UploadsAlike(m1.uploads, d1.uploads, d1.users, ids) /\ DOMAIN d1.uploads \subseteq DOMAIN d.uploads
    <3>1. UploadsAlike(m.uploads, d.uploads, d.users, ids)
      BY DEF Alike
    <3>2. m1.uploads = Undecided(m.uploads, u) /\ d1.uploads = Undecided(d.uploads, u)
      BY <2>2, <2>3 DEF MemGone, DbGone
    <3>3. \A x \in DOMAIN d.uploads : d.uploads[x] \in DbUploads
      BY <3>1 DEF UploadsAlike, Tab
    <3>4. \A x \in DOMAIN d1.uploads : /\ x \in DOMAIN d.uploads /\ d1.uploads[x] \in DbUploads
                                       /\ d1.uploads[x].user = d.uploads[x].user
                                       /\ d.uploads[x].user \in DOMAIN d1.users
      <4> TAKE x \in DOMAIN d1.uploads
      <4>1. x \in DOMAIN d.uploads /\ d.uploads[x].user # u /\
            d1.uploads[x] = IF d.uploads[x].decidedBy = u THEN [d.uploads[x] EXCEPT !.decidedBy = NoOne]
                            ELSE d.uploads[x]
        BY <3>2 DEF Undecided
      <4>2. d1.uploads[x] \in DbUploads /\ d1.uploads[x].user = d.uploads[x].user
        BY <3>3, <4>1 DEF DbUploads
      <4> QED
        BY <2>5, <3>1, <4>1, <4>2 DEF UploadsAlike
    <3>5. Tab(d1.uploads, Uploads, DbUploads)
      <4>1. d1.uploads = [x \in DOMAIN d1.uploads |-> d1.uploads[x]]
        BY <3>2 DEF Undecided
      <4> QED
        BY <3>1, <3>4, <4>1 DEF UploadsAlike, Tab
    <3>6. m1.uploads = [x \in DOMAIN d1.uploads |-> Joined(d1.uploads[x], d1.users)]
      <4>1. \A x \in DOMAIN d.uploads : /\ m.uploads[x] = Joined(d.uploads[x], d.users)
                                        /\ m.uploads[x].user = d.uploads[x].user
                                        /\ m.uploads[x].decidedBy = d.uploads[x].decidedBy
        BY <3>1 DEF UploadsAlike, Joined
      <4>2. DOMAIN m1.uploads = DOMAIN d1.uploads
        BY <3>1, <3>2, <4>1 DEF UploadsAlike, Undecided
      <4>3. \A x \in DOMAIN d1.uploads : m1.uploads[x] = Joined(d1.uploads[x], d1.users)
        <5> TAKE x \in DOMAIN d1.uploads
        <5>1. d1.users[d.uploads[x].user] = d.users[d.uploads[x].user]
          BY <2>3, <2>5, <3>4 DEF DbGone, Without
        <5>2. x \in DOMAIN d.uploads /\ x \in DOMAIN m.uploads /\ d.uploads[x].user # u
          BY <2>5, <3>1, <3>4 DEF UploadsAlike
        <5>3. d1.uploads[x] = IF d.uploads[x].decidedBy = u
                              THEN [d.uploads[x] EXCEPT !.decidedBy = NoOne] ELSE d.uploads[x]
          BY <3>2, <5>2 DEF Undecided
        <5>4. m1.uploads[x] = IF m.uploads[x].decidedBy = u
                              THEN [m.uploads[x] EXCEPT !.decidedBy = NoOne] ELSE m.uploads[x]
          BY <3>2, <4>1, <5>2 DEF Undecided
        <5>5. m.uploads[x] = Joined(d.uploads[x], d.users) /\ d.uploads[x] \in DbUploads
          BY <3>3, <4>1, <5>2
        <5> QED
          BY <5>1, <5>3, <5>4, <5>5 DEF Joined, DbUploads
      <4> QED
        BY <3>2, <4>2, <4>3 DEF Undecided
    <3> QED
      BY <3>1, <3>4, <3>5, <3>6 DEF UploadsAlike
  <2>18. AuditAlike(m1.audit, d1.audit)
    BY <2>2, <2>3 DEF MemGone, DbGone, Alike, AuditAlike, Cleared
  <2>19. /\ AsksAlike(m1.asks, d1.asks, ids) /\ MemShape(m1) /\ DbShape(d1) /\ d1.asks = d.asks
    BY <2>2, <2>3 DEF Alike, MemGone, DbGone, MemBut, DbBut, MemFields, DbFields
  <2>20. Alike(m1, d1, ids)
    BY <2>6, <2>7, <2>9, <2>10, <2>11, <2>12, <2>13, <2>14, <2>15, <2>16, <2>17, <2>18, <2>19 DEF Alike
  <2>21. Alike(m1, d1, ids \cup {})
    BY <2>20, Wider
  <2>22. Named(d1) \subseteq Named(d) \cup {}
    BY <2>5, <2>7, <2>8, <2>10, <2>11, <2>13, <2>17, <2>19 DEF Named
  <2>23. Left(m1, d1) \subseteq Left(m, d)
    BY <2>2, <2>8 DEF MemGone, Left, Without
  <2>24. Goes(m, d, r.to, s.to, ids, {}) /\ r.says = s.says
    BY <2>4, <2>21, <2>22, <2>23 DEF Goes
  <2> QED
    BY <2>24 DEF r, s
<1> QED
  BY <1>4, <1>5

-----------------------------------------------------------------------------
(* Vaults and pairings.                                                    *)

\* A row of users that changes keeps its handle and its role.
LEMMA UserChanged ==
    ASSUME NEW mu, NEW vaults, NEW du, NEW ids, UsersAlike(mu, vaults, du, ids),
           NEW u \in DOMAIN du, NEW row \in DbUsers, row.admin = du[u].admin,
           NEW vaults1, vaults1 = IF row.vault THEN vaults \cup {u} ELSE vaults \ {u}
    PROVE  UsersAlike([mu EXCEPT ![u] = D!MapUser(row)], vaults1, [du EXCEPT ![u] = row], ids)
<1>1. Tab([du EXCEPT ![u] = row], Users, DbUsers)
  BY ExceptTab DEF UsersAlike
<1>2. D!MapUser(row) \in MemUsers
  BY DEF D!MapUser, DbUsers, MemUsers
<1>3. [mu EXCEPT ![u] = D!MapUser(row)] \in [DOMAIN du -> MemUsers]
  BY <1>2 DEF UsersAlike
<1>4. vaults1 = {x \in DOMAIN du : [du EXCEPT ![u] = row][x].vault}
  BY DEF UsersAlike
<1> QED
  BY <1>1, <1>3, <1>4 DEF UsersAlike

LEMMA VaultSeen ==
    ASSUME NEW x \in DbUsers
    PROVE  [D!MapUser(x) EXCEPT !.hasVault = TRUE] = D!MapUser([x EXCEPT !.vault = TRUE])
<1>1. PICK y : y = [x EXCEPT !.vault = TRUE]
  OBVIOUS
<1>2. /\ y.handle = x.handle /\ y.admin = x.admin /\ y.canUpload = x.canUpload /\ y.vault = TRUE
      /\ y.quota = x.quota /\ y.used = x.used /\ y.preserve = x.preserve
  BY <1>1 DEF DbUsers
<1>3. PICK z : z = D!MapUser(x)
  OBVIOUS
<1>4. PICK w : w = [z EXCEPT !.hasVault = TRUE]
  OBVIOUS
<1>5. w = [handle |-> w.handle, admin |-> w.admin, canUpload |-> w.canUpload,
           hasVault |-> w.hasVault, quota |-> w.quota, used |-> w.used, preserve |-> w.preserve]
  BY <1>3, <1>4 DEF D!MapUser
<1>6. /\ w.handle = x.handle /\ w.admin = x.admin /\ w.canUpload = x.canUpload /\ w.hasVault = TRUE
      /\ w.quota = x.quota /\ w.used = x.used /\ w.preserve = x.preserve
  BY <1>3, <1>4 DEF D!MapUser
<1>7. w = D!MapUser(y)
  BY <1>2, <1>5, <1>6 DEF D!MapUser
<1> QED
  BY <1>1, <1>3, <1>4, <1>7

\* Requests are shown under the handle of their member.
LEMMA HandlesKept ==
    ASSUME NEW mr, NEW dr, NEW du, NEW ids, UploadsAlike(mr, dr, du, ids),
           NEW u \in DOMAIN du, NEW row, row.handle = du[u].handle
    PROVE  UploadsAlike(mr, dr, [du EXCEPT ![u] = row], ids)
<1>1. \A x \in DOMAIN dr : Joined(dr[x], [du EXCEPT ![u] = row]) = Joined(dr[x], du)
  BY DEF UploadsAlike, Joined
<1> QED
  BY <1>1 DEF UploadsAlike

\* putVault
LEMMA SaveVaultGoes ==
    ASSUME NEW m, NEW d, NEW ids, Alike(m, d, ids), NEW u \in DOMAIN d.users
    PROVE  /\ Goes(m, d, M!SaveVault(m, u).to, D!SaveVault(d, u).to, ids, {})
           /\ M!SaveVault(m, u).says = D!SaveVault(d, u).says
<1> DEFINE r == M!SaveVault(m, u)
           s == D!SaveVault(d, u)
           row == [d.users[u] EXCEPT !.vault = TRUE]
<1>1. CASE d.users[u].vault
  <2>1. r.to = m /\ s.to = d /\ r.says = s.says
    BY <1>1, Shared DEF Alike, UsersAlike, M!SaveVault, D!SaveVault, M!Answer, D!Answer
  <2> QED
    BY <2>1, GoesNowhere
<1>2. CASE ~(d.users[u].vault)
  <2>0. /\ UsersAlike(m.users, m.vaults, d.users, ids \cup {})
        /\ DOMAIN m.users = DOMAIN d.users /\ d.users[u] \in DbUsers /\ ~d.users[u].vault
        /\ m.users[u] = D!MapUser(d.users[u]) /\ u \notin m.vaults
    BY <1>2, Wider DEF Alike, UsersAlike, Tab
  <2>1. MemBut(r.to, m, {"users", "vaults"}) /\
        r.to.users = [x \in DOMAIN m.users |-> IF x \in {u} THEN [m.users[x] EXCEPT !.hasVault = TRUE] ELSE m.users[x]] /\
        r.to.vaults = m.vaults \cup {u}
    BY <1>2, <2>0, Shared DEF Alike, UsersAlike, M!Set, M!SaveVault, M!Answer, Answer, MemShape,
       MemBut, MemFields
  <2>2. DbBut(s.to, d, {"users"}) /\
        s.to.users = [d.users EXCEPT ![u] = row]
    BY <1>2, <2>0, Shared DEF Alike, UsersAlike, D!SaveVault, D!Answer, Answer, DbShape, DbBut,
       DbFields, MemFields
  <2>3. r.says = s.says
    BY <1>2, <2>0, Shared DEF Alike, UsersAlike, M!Set, UsersAlike, M!SaveVault, D!SaveVault,
       M!Answer, D!Answer
  <2> HIDE DEF r, s, row
  <2>4. Alike(m, d, ids \cup {})
    BY Wider
  <2>5. row \in DbUsers /\ row.admin = d.users[u].admin /\ row.handle = d.users[u].handle /\ row.vault
    BY <2>0 DEF row, DbUsers
  <2>6. r.to.users = [m.users EXCEPT ![u] = D!MapUser(row)]
    <3>1. [m.users[u] EXCEPT !.hasVault = TRUE] = D!MapUser(row)
      BY <2>0, VaultSeen DEF row
    <3> QED
      BY <2>0, <2>1, <3>1
  <2>7. UsersAlike(r.to.users, r.to.vaults, s.to.users, ids \cup {})
    <3>1. UsersAlike([m.users EXCEPT ![u] = D!MapUser(row)], m.vaults \cup {u}, [d.users EXCEPT ![u] = row], ids \cup {})
      <4>1. m.vaults \cup {u} = IF row.vault THEN m.vaults \cup {u} ELSE m.vaults \ {u}
        BY <2>5
      <4> QED
        BY <2>0, <2>5, <4>1, UserChanged
    <3> QED
      BY <2>1, <2>2, <2>6, <3>1
  <2>8. UploadsAlike(m.uploads, d.uploads, s.to.users, ids \cup {}) /\ DOMAIN s.to.users = DOMAIN d.users
    <3>1. UploadsAlike(m.uploads, d.uploads, d.users, ids \cup {})
      BY <2>4 DEF Alike
    <3> QED
      BY <2>2, <2>5, <3>1, HandlesKept
  <2>9. Alike(r.to, s.to, ids \cup {})
    BY <2>1, <2>2, <2>4, <2>5, <2>6, <2>7, <2>8 DEF Alike, MemBut, DbBut, MemFields, DbFields
  <2>10. Named(s.to) \subseteq Named(d) \cup {} /\ Left(r.to, s.to) = Left(m, d)
    BY <2>1, <2>2, <2>5, <2>6, <2>7, <2>8 DEF Named, Left, MemBut, DbBut, MemFields, DbFields
  <2>11. Goes(m, d, r.to, s.to, ids, {}) /\ r.says = s.says
    BY <2>3, <2>9, <2>10 DEF Goes
  <2> QED
    BY <2>11 DEF r, s
<1> QED
  BY <1>1, <1>2

\* createPairing under a code that no pairing on Postgres has.
LEMMA CreatePairingGoes ==
    ASSUME NEW m, NEW d, NEW ids, Alike(m, d, ids), NEW p \in Pairings, p \notin ids,
           NEW c \in Codes, \A x \in DOMAIN d.pairings : d.pairings[x].code # c, NEW e \in Times
    PROVE  /\ Goes(m, d, M!CreatePairing(m, p, c, e).to, D!CreatePairing(d, p, c, e).to, ids, {p})
           /\ M!CreatePairing(m, p, c, e).says = D!CreatePairing(d, p, c, e).says
<1> DEFINE r == M!CreatePairing(m, p, c, e)
           s == D!CreatePairing(d, p, c, e)
           mrow == [user |-> NoOne, wrap |-> FALSE, expires |-> e]
           drow == [user |-> NoOne, code |-> c, wrap |-> FALSE, expires |-> e]
<1>1. MemBut(r.to, m, {"pairings", "codes"}) /\
      r.to.pairings = With(m.pairings, p, mrow) /\
      r.to.codes = With(m.codes, c, p)
  BY Shared DEF Alike, M!CreatePairing, M!Answer, Answer, MemShape, MemBut, MemFields
<1>2. DbBut(s.to, d, {"pairings"}) /\
      s.to.pairings = With(d.pairings, p, drow)
  BY Shared DEF Alike, D!Where, D!Commit, D!CreatePairing, D!Answer, Answer, DbShape, DbBut,
     DbFields, MemFields
<1>3. r.says = s.says
  BY Shared DEF Alike, D!Where, D!Commit, M!CreatePairing, D!CreatePairing, M!Answer, D!Answer
<1> HIDE DEF r, s, mrow, drow
<1>4. Alike(m, d, ids \cup {p})
  BY Wider
<1>5. /\ mrow \in MemPairings /\ drow \in DbPairings /\ mrow = D!Record(drow)
      /\ drow.user = NoOne /\ drow.code = c
  BY DEF mrow, drow, MemPairings, DbPairings, D!Record
<1>6. DOMAIN s.to.pairings = DOMAIN d.pairings \cup {p} /\ p \notin DOMAIN d.pairings /\ p \notin DOMAIN m.pairings
  BY <1>2 DEF With, Alike, PairingsAlike
<1>7. PairingsAlike(r.to.pairings, s.to.pairings, DOMAIN d.users, ids \cup {p})
  <2>1. PairingsAlike(m.pairings, d.pairings, DOMAIN d.users, ids \cup {p})
    BY <1>4 DEF Alike
  <2>2. Tab(r.to.pairings, Pairings, MemPairings) /\ Tab(s.to.pairings, Pairings, DbPairings)
    BY <1>1, <1>2, <1>5, <2>1, WithTab DEF PairingsAlike
  <2> QED
    BY <1>1, <1>2, <1>5, <1>6, <2>1, <2>2 DEF PairingsAlike, With
<1>8. CodesAlike(r.to.codes, s.to.pairings, ids \cup {p})
  <2>1. CodesAlike(m.codes, d.pairings, ids)
    BY DEF Alike
  <2>2. Tab(r.to.codes, Codes, Pairings)
    BY <1>1, <2>1, WithTab DEF CodesAlike
  <2> QED
    BY <1>1, <1>2, <1>5, <1>6, <2>1, <2>2 DEF CodesAlike, With
<1>9. Alike(r.to, s.to, ids \cup {p})
  BY <1>1, <1>2, <1>4, <1>5, <1>6, <1>7, <1>8 DEF Alike, MemBut, DbBut, MemFields, DbFields
<1>10. Named(s.to) \subseteq Named(d) \cup {p} /\ Left(r.to, s.to) = Left(m, d)
  BY <1>1, <1>2, <1>5, <1>6, <1>7, <1>8 DEF Named, Left, MemBut, DbBut, MemFields, DbFields
<1>11. Goes(m, d, r.to, s.to, ids, {p}) /\ r.says = s.says
  BY <1>3, <1>9, <1>10 DEF Goes
<1> QED
  BY <1>11 DEF r, s

\* deletePairing
LEMMA DeletePairingGoes ==
    ASSUME NEW m, NEW d, NEW ids, Alike(m, d, ids), NEW p
    PROVE  /\ Goes(m, d, M!DeletePairing(m, p).to, D!DeletePairing(d, p).to, ids, {})
           /\ M!DeletePairing(m, p).says = D!DeletePairing(d, p).says
<1> DEFINE r == M!DeletePairing(m, p)
           s == D!DeletePairing(d, p)
           stale == {c \in DOMAIN m.codes : m.codes[c] = p}
<1>1. MemBut(r.to, m, {"pairings", "codes"}) /\
      r.to.pairings = Without(m.pairings, {p}) /\
      r.to.codes = Without(m.codes, stale)
  BY Shared DEF Alike, M!Where, M!DeletePairing, M!Answer, Answer, MemShape, MemBut, MemFields
<1>2. DbBut(s.to, d, {"pairings"}) /\
      s.to.pairings = Without(d.pairings, {p})
  BY Shared DEF Alike, D!DeletePairing, D!Answer, Answer, DbShape, DbBut, DbFields, MemFields
<1>3. r.says = s.says
  BY Shared DEF Alike, M!Where, M!DeletePairing, D!DeletePairing, M!Answer, D!Answer
<1> HIDE DEF r, s, stale
<1>4. Alike(m, d, ids \cup {})
  BY Wider
<1>5. DOMAIN s.to.pairings = DOMAIN d.pairings \ {p} /\ DOMAIN r.to.pairings = DOMAIN m.pairings \ {p}
  BY <1>1, <1>2 DEF Without
<1>6. PairingsAlike(r.to.pairings, s.to.pairings, DOMAIN d.users, ids \cup {})
  <2>1. PairingsAlike(m.pairings, d.pairings, DOMAIN d.users, ids \cup {})
    BY <1>4 DEF Alike
  <2>2. Tab(r.to.pairings, Pairings, MemPairings) /\ Tab(s.to.pairings, Pairings, DbPairings)
    BY <1>1, <1>2, <2>1, WithoutTab DEF PairingsAlike
  <2> QED
    BY <1>1, <1>2, <1>5, <2>1, <2>2 DEF PairingsAlike, Without
<1>7. CodesAlike(r.to.codes, s.to.pairings, ids \cup {})
  <2>1. CodesAlike(m.codes, d.pairings, ids \cup {})
    BY <1>4 DEF Alike
  <2>2. Tab(r.to.codes, Codes, Pairings)
    BY <1>1, <2>1, WithoutTab DEF CodesAlike
  <2> QED
    BY <1>1, <1>2, <1>5, <2>1, <2>2 DEF CodesAlike, Without, stale
<1>8. Alike(r.to, s.to, ids \cup {})
  BY <1>1, <1>2, <1>4, <1>5, <1>6, <1>7 DEF Alike, MemBut, DbBut, MemFields, DbFields
<1>9. Named(s.to) \subseteq Named(d) \cup {} /\ Left(r.to, s.to) = Left(m, d)
  BY <1>1, <1>2, <1>5, <1>6, <1>7 DEF Named, Left, MemBut, DbBut, MemFields, DbFields
<1>10. Goes(m, d, r.to, s.to, ids, {}) /\ r.says = s.says
  BY <1>3, <1>8, <1>9 DEF Goes
<1> QED
  BY <1>10 DEF r, s
\* The wrap of a pairing on both.
LEMMA WrapSeen ==
    ASSUME NEW x \in DbPairings, NEW u
    PROVE  [D!Record(x) EXCEPT !.user = u, !.wrap = TRUE] = D!Record([x EXCEPT !.user = u, !.wrap = TRUE])
<1>1. PICK y : y = [x EXCEPT !.user = u, !.wrap = TRUE]
  OBVIOUS
<1>2. y.user = u /\ y.wrap = TRUE /\ y.expires = x.expires
  BY <1>1 DEF DbPairings
<1>3. PICK z : z = D!Record(x)
  OBVIOUS
<1>4. PICK w : w = [z EXCEPT !.user = u, !.wrap = TRUE]
  OBVIOUS
<1>5. w = [user |-> w.user, wrap |-> w.wrap, expires |-> w.expires]
  BY <1>3, <1>4 DEF D!Record
<1>6. w.user = u /\ w.wrap = TRUE /\ w.expires = x.expires
  BY <1>3, <1>4 DEF D!Record
<1>7. w = D!Record(y)
  BY <1>2, <1>5, <1>6 DEF D!Record
<1> QED
  BY <1>1, <1>3, <1>4, <1>7

\* postWrap, to a pairing that is not left over.
LEMMA SavePairingWrapGoes ==
    ASSUME NEW m, NEW d, NEW ids, Alike(m, d, ids), NEW u \in DOMAIN d.users, NEW p,
           p \in DOMAIN m.pairings => p \in DOMAIN d.pairings
    PROVE  /\ Goes(m, d, M!SavePairingWrap(m, p, u).to, D!SavePairingWrap(d, p, u).to, ids, {})
           /\ M!SavePairingWrap(m, p, u).says = D!SavePairingWrap(d, p, u).says
<1> DEFINE r == M!SavePairingWrap(m, p, u)
           s == D!SavePairingWrap(d, p, u)
           mrow == [m.pairings[p] EXCEPT !.user = u, !.wrap = TRUE]
           drow == [d.pairings[p] EXCEPT !.user = u, !.wrap = TRUE]
<1>0. p \in DOMAIN d.pairings => p \in DOMAIN m.pairings /\ m.pairings[p].wrap = d.pairings[p].wrap
  <2>1. p \in DOMAIN d.pairings => p \in DOMAIN m.pairings /\ m.pairings[p] = D!Record(d.pairings[p])
    BY DEF Alike, PairingsAlike
  <2> QED
    BY <2>1 DEF D!Record
<1>1. CASE p \notin DOMAIN d.pairings \/ d.pairings[p].wrap
  <2>1. r.to = m /\ s.to = d /\ r.says = s.says
    BY <1>1, <1>0, Shared DEF M!SavePairingWrap, D!SavePairingWrap, M!Answer, D!Answer
  <2> QED
    BY <2>1, GoesNowhere
<1>2. CASE ~(p \notin DOMAIN d.pairings \/ d.pairings[p].wrap)
  <2>0. /\ p \in DOMAIN d.pairings /\ p \in DOMAIN m.pairings /\ m.pairings[p] = D!Record(d.pairings[p])
        /\ d.pairings[p] \in DbPairings /\ ~d.pairings[p].wrap /\ ~m.pairings[p].wrap
    <3>1. p \in DOMAIN d.pairings /\ p \in DOMAIN m.pairings /\ m.pairings[p] = D!Record(d.pairings[p]) /\
         d.pairings[p] \in DbPairings
      BY <1>2, Wider DEF Alike, PairingsAlike, Tab
    <3> QED
      BY <1>2, <3>1 DEF D!Record
  <2>1. MemBut(r.to, m, {"pairings"}) /\
        r.to.pairings = [m.pairings EXCEPT ![p] = mrow]
    BY <1>2, <2>0, Shared DEF Alike, M!SavePairingWrap, M!Answer, Answer, MemShape, MemBut,
       MemFields
  <2>2. DbBut(s.to, d, {"pairings"}) /\
        s.to.pairings = [d.pairings EXCEPT ![p] = drow]
    BY <1>2, <2>0, Shared DEF Alike, D!SavePairingWrap, D!Answer, Answer, DbShape, DbBut,
       DbFields, MemFields
  <2>3. r.says = s.says
    BY <1>2, <2>0, Shared DEF Alike, M!SavePairingWrap, D!SavePairingWrap, M!Answer, D!Answer
  <2> HIDE DEF r, s, mrow, drow
  <2>4. Alike(m, d, ids \cup {})
    BY Wider
  <2>5. /\ mrow \in MemPairings /\ drow \in DbPairings /\ mrow = D!Record(drow)
        /\ drow.user = u /\ drow.wrap /\ drow.code = d.pairings[p].code
    <3>1. u \in Users
      BY DEF Alike, UsersAlike, Tab
    <3>2. /\ drow \in DbPairings /\ drow.user = u /\ drow.wrap = TRUE /\ drow.code = d.pairings[p].code
         /\ drow.expires = d.pairings[p].expires
      BY <2>0, <3>1 DEF drow, DbPairings
    <3>3. d.pairings[p].expires \in Times
      BY <2>0 DEF DbPairings
    <3>4. mrow = D!Record(drow)
      BY <2>0, WrapSeen DEF mrow, drow
    <3>5. mrow \in MemPairings
      BY <3>1, <3>2, <3>3, <3>4 DEF D!Record, MemPairings
    <3> QED
      BY <3>2, <3>4, <3>5
  <2>6. PairingsAlike(r.to.pairings, s.to.pairings, DOMAIN d.users, ids \cup {}) /\
        DOMAIN s.to.pairings = DOMAIN d.pairings
    <3>1. PairingsAlike(m.pairings, d.pairings, DOMAIN d.users, ids \cup {})
      BY <2>4 DEF Alike
    <3>a. Tab(m.pairings, Pairings, MemPairings) /\ Tab(d.pairings, Pairings, DbPairings)
      BY <3>1 DEF PairingsAlike
    <3>b. Tab([m.pairings EXCEPT ![p] = mrow], Pairings, MemPairings)
      BY <2>5, <3>a, ExceptTab
    <3>c. Tab([d.pairings EXCEPT ![p] = drow], Pairings, DbPairings)
      BY <2>5, <3>a, ExceptTab
    <3>2. Tab(r.to.pairings, Pairings, MemPairings) /\ Tab(s.to.pairings, Pairings, DbPairings)
      BY <2>1, <2>2, <3>b, <3>c
    <3> QED
      BY <2>0, <2>1, <2>2, <2>5, <3>1, <3>2 DEF PairingsAlike
  <2>7. CodesAlike(m.codes, s.to.pairings, ids \cup {})
    <3>1. CodesAlike(m.codes, d.pairings, ids \cup {})
      BY <2>4 DEF Alike
    <3> QED
      BY <2>0, <2>2, <2>5, <3>1 DEF CodesAlike
  <2>8. Alike(r.to, s.to, ids \cup {})
    BY <2>1, <2>2, <2>4, <2>5, <2>6, <2>7 DEF Alike, MemBut, DbBut, MemFields, DbFields
  <2>9. Named(s.to) \subseteq Named(d) \cup {} /\ Left(r.to, s.to) = Left(m, d)
    BY <2>1, <2>2, <2>5, <2>6, <2>7 DEF Named, Left, MemBut, DbBut, MemFields, DbFields
  <2>10. Goes(m, d, r.to, s.to, ids, {}) /\ r.says = s.says
    BY <2>3, <2>8, <2>9 DEF Goes
  <2> QED
    BY <2>10 DEF r, s
<1> QED
  BY <1>1, <1>2

\* A pairing that is left over has its wrap.
LEMMA SavePairingWrapLeft ==
    ASSUME NEW m, NEW d, NEW ids, Alike(m, d, ids), NEW u,
           NEW p \in DOMAIN m.pairings \ DOMAIN d.pairings
    PROVE  /\ Goes(m, d, M!SavePairingWrap(m, p, u).to, D!SavePairingWrap(d, p, u).to, ids, {})
           /\ m.pairings[p].user \notin DOMAIN d.users \cup {NoOne}
<1>1. m.pairings[p].wrap /\ m.pairings[p].user \in Users \ DOMAIN d.users
  BY DEF Alike, PairingsAlike
<1>2. M!SavePairingWrap(m, p, u).to = m /\ D!SavePairingWrap(d, p, u).to = d
  BY <1>1, Shared DEF M!SavePairingWrap, D!SavePairingWrap, Answer
<1> QED
  BY <1>1, <1>2, GoesNowhere, RowsAssumption

-----------------------------------------------------------------------------
(* Notes and files.                                                        *)

\* createItem, or the same note again.
LEMMA CreateItemGoes ==
    ASSUME NEW m, NEW d, NEW ids, Alike(m, d, ids), NEW u \in DOMAIN d.users, NEW x \in Items,
           NEW row \in ItemRows, row.blob = NoOne
    PROVE  /\ Goes(m, d, M!CreateItem(m, u, x, row).to, D!CreateItem(d, u, x, row).to, ids, {x})
           /\ M!CreateItem(m, u, x, row).says = D!CreateItem(d, u, x, row).says
<1> DEFINE r == M!CreateItem(m, u, x, row)
           s == D!CreateItem(d, u, x, row)
<1>1. CASE x \in DOMAIN d.items
  <2>1. r.to = m /\ s.to = d /\ r.says = s.says
    BY <1>1, Shared DEF Alike, ItemsAlike, M!CreateItem, D!CreateItem, M!Answer, D!Answer
  <2> QED
    BY <2>1, GoesNowhere
<1>2. CASE ~(x \in DOMAIN d.items)
  <2>1. MemBut(r.to, m, {"items"}) /\
        r.to.items = With(m.items, x, row)
    BY <1>2, Shared DEF Alike, ItemsAlike, M!CreateItem, M!Answer, Answer, MemShape, MemBut,
       MemFields
  <2>2. DbBut(s.to, d, {"items"}) /\
        s.to.items = With(d.items, x, row)
    BY <1>2, Shared DEF Alike, D!Commit, D!CreateItem, D!Answer, Answer, DbShape, DbBut, DbFields,
       MemFields
  <2>3. r.says = s.says
    BY <1>2, Shared DEF Alike, ItemsAlike, D!Commit, M!CreateItem, D!CreateItem, M!Answer,
       D!Answer
  <2> HIDE DEF r, s
  <2>4. Alike(m, d, ids \cup {x})
    BY Wider
  <2>5. Tab(s.to.items, Items, ItemRows)
    BY <2>2, WithTab DEF Alike, ItemsAlike
  <2>6. DOMAIN s.to.items = DOMAIN d.items \cup {x}
    BY <2>2 DEF With
  <2>7. ItemsAlike(r.to.items, s.to.items, ids \cup {x})
    BY <2>1, <2>2, <2>5, <2>6 DEF Alike, ItemsAlike
  <2>8. Filed(s.to.items, d.blobs)
    BY <1>2, <2>2 DEF Alike, Filed, With
  <2>9. Alike(r.to, s.to, ids \cup {x})
    BY <2>1, <2>2, <2>4, <2>5, <2>6, <2>7, <2>8 DEF Alike, MemBut, DbBut, MemFields, DbFields
  <2>10. Named(s.to) \subseteq Named(d) \cup {x} /\ Left(r.to, s.to) = Left(m, d)
    BY <2>1, <2>2, <2>5, <2>6, <2>7, <2>8 DEF Named, Left, MemBut, DbBut, MemFields, DbFields
  <2>11. Goes(m, d, r.to, s.to, ids, {x}) /\ r.says = s.says
    BY <2>3, <2>9, <2>10 DEF Goes
  <2> QED
    BY <2>11 DEF r, s
<1> QED
  BY <1>1, <1>2

\* updateTextItem
LEMMA UpdateTextItemGoes ==
    ASSUME NEW m, NEW d, NEW ids, Alike(m, d, ids), NEW u, NEW x, NEW size \in Sizes, NEW now
    PROVE  /\ Goes(m, d, M!UpdateTextItem(m, u, x, "link", size, now).to, D!UpdateTextItem(d, u, x, "link", size, now).to, ids, {})
           /\ M!UpdateTextItem(m, u, x, "link", size, now).says = D!UpdateTextItem(d, u, x, "link", size, now).says
<1> DEFINE r == M!UpdateTextItem(m, u, x, "link", size, now)
           s == D!UpdateTextItem(d, u, x, "link", size, now)
           row == [d.items[x] EXCEPT !.kind = "link", !.size = size]
           mine == {y \in DOMAIN d.items : d.items[y].owner = u}
           found == x \in mine /\ d.items[x] # NoOne
<1>0. /\ m.items = d.items /\ \A y \in DOMAIN d.items : d.items[y] \in ItemRows
      /\ M!Seek(M!ListItems(m, u), x) = IF x \in mine THEN d.items[x] ELSE NoOne
      /\ D!Seek(D!ListItems(d, u), x) = IF x \in mine THEN d.items[x] ELSE NoOne
      /\ \A y \in DOMAIN d.items : d.items[y].kind \in {"text", "link", "file"}
  <2>1. m.items = d.items /\ \A y \in DOMAIN d.items : d.items[y] \in ItemRows
    BY DEF Alike, ItemsAlike, Tab
  <2>2. M!Seek(M!ListItems(m, u), x) = IF x \in mine THEN d.items[x] ELSE NoOne
    BY <2>1, Shared DEF M!ListItems, M!Where, Seek
  <2>3. D!Seek(D!ListItems(d, u), x) = IF x \in mine THEN d.items[x] ELSE NoOne
    BY Shared DEF D!ListItems, D!Where, Seek
  <2>4. \A y \in DOMAIN d.items : d.items[y].kind \in {"text", "link", "file"}
    BY <2>1 DEF ItemRows
  <2> QED
    BY <2>1, <2>2, <2>3, <2>4
<1>1. CASE ~(found /\ d.items[x].kind # "file" /\ (d.items[x].pinned \/ ~(d.items[x].expires <= now)))
  <2>1. r.to = m /\ s.to = d /\ r.says = s.says
    BY <1>1, <1>0, Shared DEF M!UpdateTextItem, D!UpdateTextItem, M!Answer, D!Answer
  <2> QED
    BY <2>1, GoesNowhere
<1>2. CASE ~(~(found /\ d.items[x].kind # "file" /\ (d.items[x].pinned \/ ~(d.items[x].expires <= now))))
  <2>0. /\ x \in DOMAIN d.items /\ d.items[x] \in ItemRows /\ d.items[x].owner = u /\ m.items = d.items
        /\ d.items[x].kind \in {"text", "link"} /\ d.items[x] # NoOne
        /\ d.items[x].pinned \/ ~(d.items[x].expires <= now)
    BY <1>0, <1>2
  <2>1. MemBut(r.to, m, {"items"}) /\
        r.to.items = [m.items EXCEPT ![x] = row]
    BY <1>2, <2>0, <1>0, Shared DEF Alike, M!UpdateTextItem, M!Answer, Answer, MemShape, MemBut,
       MemFields
  <2>2. DbBut(s.to, d, {"items"}) /\
        s.to.items = [d.items EXCEPT ![x] = row]
    BY <1>2, <2>0, <1>0, Shared DEF Alike, D!UpdateTextItem, D!Answer, Answer, DbShape, DbBut,
       DbFields, MemFields
  <2>3. r.says = s.says
    BY <1>2, <2>0, <1>0, Shared DEF Alike, M!UpdateTextItem, D!UpdateTextItem, M!Answer, D!Answer
  <2> HIDE DEF r, s, row, mine
  <2>4. Alike(m, d, ids \cup {})
    BY Wider
  <2>5. row \in ItemRows /\ row.blob = d.items[x].blob /\ row.owner = d.items[x].owner
    BY <2>0 DEF row, ItemRows
  <2>6. Tab(s.to.items, Items, ItemRows)
    <3>1. Tab(d.items, Items, ItemRows)
      BY DEF Alike, ItemsAlike
    <3>2. Tab([d.items EXCEPT ![x] = row], Items, ItemRows)
      BY <2>5, <3>1, ExceptTab
    <3> QED
      BY <2>2, <3>2
  <2>7. ItemsAlike(r.to.items, s.to.items, ids \cup {}) /\ DOMAIN s.to.items = DOMAIN d.items
    BY <2>1, <2>2, <2>4, <2>6 DEF Alike, ItemsAlike
  <2>8. Filed(s.to.items, d.blobs)
    BY <2>2, <2>5 DEF Alike, Filed
  <2>9. Alike(r.to, s.to, ids \cup {})
    BY <2>1, <2>2, <2>4, <2>5, <2>6, <2>7, <2>8 DEF Alike, MemBut, DbBut, MemFields, DbFields
  <2>10. Named(s.to) \subseteq Named(d) \cup {} /\ Left(r.to, s.to) = Left(m, d)
    BY <2>1, <2>2, <2>5, <2>6, <2>7, <2>8 DEF Named, Left, MemBut, DbBut, MemFields, DbFields
  <2>11. Goes(m, d, r.to, s.to, ids, {}) /\ r.says = s.says
    BY <2>3, <2>9, <2>10 DEF Goes
  <2> QED
    BY <2>11 DEF r, s
<1> QED
  BY <1>1, <1>2

\* deleteItem
LEMMA DeleteItemGoes ==
    ASSUME NEW m, NEW d, NEW ids, Alike(m, d, ids), NEW u, NEW x
    PROVE  /\ Goes(m, d, M!DeleteItem(m, u, x).to, D!DeleteItem(d, u, x).to, ids, {})
           /\ M!DeleteItem(m, u, x).says = D!DeleteItem(d, u, x).says
<1> DEFINE r == M!DeleteItem(m, u, x)
           s == D!DeleteItem(d, u, x)
           hit == {y \in DOMAIN d.items : d.items[y].owner = u} \cap {x}
<1>0. m.items = d.items
  BY DEF Alike, ItemsAlike
<1>1. MemBut(r.to, m, {"items"}) /\
      r.to.items = Without(m.items, hit)
  BY <1>0, Shared DEF Alike, M!ListItems, M!Where, M!DeleteItem, M!Answer, Answer, MemShape,
     MemBut, MemFields
<1>2. DbBut(s.to, d, {"items"}) /\
      s.to.items = Without(d.items, hit)
  BY <1>0, Shared DEF Alike, D!Where, D!DeleteItem, D!Answer, Answer, DbShape, DbBut, DbFields,
     MemFields
<1>3. r.says = s.says
  BY <1>0, Shared DEF Alike, M!ListItems, M!Where, D!Where, M!DeleteItem, D!DeleteItem,
     M!Answer, D!Answer
<1> HIDE DEF r, s, hit
<1>4. Alike(m, d, ids \cup {})
  BY Wider
<1>5. Tab(s.to.items, Items, ItemRows)
  BY <1>2, WithoutTab DEF Alike, ItemsAlike
<1>6. DOMAIN s.to.items \subseteq DOMAIN d.items
  BY <1>2 DEF Without
<1>7. ItemsAlike(r.to.items, s.to.items, ids \cup {})
  BY <1>0, <1>1, <1>2, <1>4, <1>5, <1>6 DEF Alike, ItemsAlike
<1>8. Filed(s.to.items, d.blobs)
  BY <1>2 DEF Alike, Filed, Without
<1>9. Alike(r.to, s.to, ids \cup {})
  BY <1>1, <1>2, <1>4, <1>5, <1>6, <1>7, <1>8 DEF Alike, MemBut, DbBut, MemFields, DbFields
<1>10. Named(s.to) \subseteq Named(d) \cup {} /\ Left(r.to, s.to) = Left(m, d)
  BY <1>1, <1>2, <1>5, <1>6, <1>7, <1>8 DEF Named, Left, MemBut, DbBut, MemFields, DbFields
<1>11. Goes(m, d, r.to, s.to, ids, {}) /\ r.says = s.says
  BY <1>3, <1>9, <1>10 DEF Goes
<1> QED
  BY <1>11 DEF r, s

\* resetItemExpiry
LEMMA ResetItemExpiryGoes ==
    ASSUME NEW m, NEW d, NEW ids, Alike(m, d, ids), NEW u, NEW e \in Times
    PROVE  /\ Goes(m, d, M!ResetItemExpiry(m, u, e).to, D!ResetItemExpiry(d, u, e).to, ids, {})
           /\ M!ResetItemExpiry(m, u, e).says = D!ResetItemExpiry(d, u, e).says
<1> DEFINE r == M!ResetItemExpiry(m, u, e)
           s == D!ResetItemExpiry(d, u, e)
           mine == {y \in DOMAIN d.items : d.items[y].owner = u}
           items == [y \in DOMAIN d.items |-> IF y \in mine THEN [d.items[y] EXCEPT !.expires = e] ELSE d.items[y]]
<1>0. m.items = d.items
  BY DEF Alike, ItemsAlike
<1>1. MemBut(r.to, m, {"items"}) /\
      r.to.items = items
  BY <1>0, Shared, SharedCounts DEF Alike, M!Where, M!Set, M!ResetItemExpiry, M!Answer, Answer,
     MemShape, MemBut, MemFields
<1>2. DbBut(s.to, d, {"items"}) /\
      s.to.items = items
  BY <1>0, Shared DEF Alike, D!Where, D!Set, D!ResetItemExpiry, D!Answer, Answer, DbShape,
     DbBut, DbFields, MemFields
<1>3. r.says = s.says
  BY <1>0, Shared, SharedCounts DEF Alike, M!Where, M!Set, D!Where, D!Set, M!ResetItemExpiry,
     D!ResetItemExpiry, M!Answer, D!Answer
<1> HIDE DEF r, s, items, mine
<1>4. Alike(m, d, ids \cup {})
  BY Wider
<1>5. /\ Tab(items, Items, ItemRows) /\ DOMAIN items = DOMAIN d.items
      /\ \A y \in DOMAIN d.items : items[y].owner = d.items[y].owner /\ items[y].blob = d.items[y].blob
  <2>1. \A y \in DOMAIN d.items : d.items[y] \in ItemRows
    BY DEF Alike, ItemsAlike, Tab
  <2>2. \A y \in DOMAIN d.items : /\ items[y] \in ItemRows /\ items[y].owner = d.items[y].owner
                                 /\ items[y].blob = d.items[y].blob
    BY <2>1 DEF items, ItemRows
  <2> QED
    BY <2>2 DEF items, Alike, ItemsAlike, Tab
<1>6. ItemsAlike(r.to.items, s.to.items, ids \cup {})
  BY <1>1, <1>2, <1>4, <1>5 DEF Alike, ItemsAlike
<1>7. Filed(s.to.items, d.blobs)
  BY <1>2, <1>5 DEF Alike, Filed
<1>8. Alike(r.to, s.to, ids \cup {})
  BY <1>1, <1>2, <1>4, <1>5, <1>6, <1>7 DEF Alike, MemBut, DbBut, MemFields, DbFields
<1>9. Named(s.to) \subseteq Named(d) \cup {} /\ Left(r.to, s.to) = Left(m, d)
  BY <1>1, <1>2, <1>5, <1>6, <1>7 DEF Named, Left, MemBut, DbBut, MemFields, DbFields
<1>10. Goes(m, d, r.to, s.to, ids, {}) /\ r.says = s.says
  BY <1>3, <1>8, <1>9 DEF Goes
<1> QED
  BY <1>10 DEF r, s
\* A row of users reads the same after the same change.
LEMMA PreserveSeen ==
    ASSUME NEW x \in DbUsers, NEW v
    PROVE  [D!MapUser(x) EXCEPT !.preserve = v] = D!MapUser([x EXCEPT !.preserve = v])
<1>1. PICK y : y = [x EXCEPT !.preserve = v]
  OBVIOUS
<1>2. /\ y.handle = x.handle /\ y.admin = x.admin /\ y.canUpload = x.canUpload /\ y.quota = x.quota /\ y.used = x.used /\ y.preserve = v
      /\ y.vault = x.vault
  BY <1>1 DEF DbUsers
<1>3. PICK z : z = D!MapUser(x)
  OBVIOUS
<1>4. PICK w : w = [z EXCEPT !.preserve = v]
  OBVIOUS
<1>5. w = [handle |-> w.handle, admin |-> w.admin, canUpload |-> w.canUpload,
           hasVault |-> w.hasVault, quota |-> w.quota, used |-> w.used, preserve |-> w.preserve]
  BY <1>3, <1>4 DEF D!MapUser
<1>6. /\ w.handle = x.handle /\ w.admin = x.admin /\ w.canUpload = x.canUpload /\ w.quota = x.quota /\ w.used = x.used /\ w.preserve = v
      /\ w.hasVault = x.vault
  BY <1>3, <1>4 DEF D!MapUser
<1>7. w = D!MapUser(y)
  BY <1>2, <1>5, <1>6 DEF D!MapUser
<1> QED
  BY <1>1, <1>3, <1>4, <1>7

LEMMA SpaceSeen ==
    ASSUME NEW x \in DbUsers, NEW v
    PROVE  [D!MapUser(x) EXCEPT !.canUpload = TRUE, !.quota = v] = D!MapUser([x EXCEPT !.canUpload = TRUE, !.quota = v])
<1>1. PICK y : y = [x EXCEPT !.canUpload = TRUE, !.quota = v]
  OBVIOUS
<1>2. /\ y.handle = x.handle /\ y.admin = x.admin /\ y.canUpload = TRUE /\ y.quota = v /\ y.used = x.used /\ y.preserve = x.preserve
      /\ y.vault = x.vault
  BY <1>1 DEF DbUsers
<1>3. PICK z : z = D!MapUser(x)
  OBVIOUS
<1>4. PICK w : w = [z EXCEPT !.canUpload = TRUE, !.quota = v]
  OBVIOUS
<1>5. w = [handle |-> w.handle, admin |-> w.admin, canUpload |-> w.canUpload,
           hasVault |-> w.hasVault, quota |-> w.quota, used |-> w.used, preserve |-> w.preserve]
  BY <1>3, <1>4 DEF D!MapUser
<1>6. /\ w.handle = x.handle /\ w.admin = x.admin /\ w.canUpload = TRUE /\ w.quota = v /\ w.used = x.used /\ w.preserve = x.preserve
      /\ w.hasVault = x.vault
  BY <1>3, <1>4 DEF D!MapUser
<1>7. w = D!MapUser(y)
  BY <1>2, <1>5, <1>6 DEF D!MapUser
<1> QED
  BY <1>1, <1>3, <1>4, <1>7

LEMMA UsedSeen ==
    ASSUME NEW x \in DbUsers, NEW v
    PROVE  [D!MapUser(x) EXCEPT !.used = v] = D!MapUser([x EXCEPT !.used = v])
<1>1. PICK y : y = [x EXCEPT !.used = v]
  OBVIOUS
<1>2. /\ y.handle = x.handle /\ y.admin = x.admin /\ y.canUpload = x.canUpload /\ y.quota = x.quota /\ y.used = v /\ y.preserve = x.preserve
      /\ y.vault = x.vault
  BY <1>1 DEF DbUsers
<1>3. PICK z : z = D!MapUser(x)
  OBVIOUS
<1>4. PICK w : w = [z EXCEPT !.used = v]
  OBVIOUS
<1>5. w = [handle |-> w.handle, admin |-> w.admin, canUpload |-> w.canUpload,
           hasVault |-> w.hasVault, quota |-> w.quota, used |-> w.used, preserve |-> w.preserve]
  BY <1>3, <1>4 DEF D!MapUser
<1>6. /\ w.handle = x.handle /\ w.admin = x.admin /\ w.canUpload = x.canUpload /\ w.quota = x.quota /\ w.used = v /\ w.preserve = x.preserve
      /\ w.hasVault = x.vault
  BY <1>3, <1>4 DEF D!MapUser
<1>7. w = D!MapUser(y)
  BY <1>2, <1>5, <1>6 DEF D!MapUser
<1> QED
  BY <1>1, <1>3, <1>4, <1>7

\* The tables of users after one row changed.
LEMMA UsersChanged ==
    ASSUME NEW m, NEW d, NEW ids, Alike(m, d, ids),
           NEW u \in DOMAIN d.users, NEW row \in DbUsers, row.admin = d.users[u].admin,
           row.handle = d.users[u].handle, row.vault = d.users[u].vault,
           NEW new
    PROVE  /\ UsersAlike([m.users EXCEPT ![u] = D!MapUser(row)], m.vaults,
                          [d.users EXCEPT ![u] = row], ids \cup new)
           /\ UploadsAlike(m.uploads, d.uploads, [d.users EXCEPT ![u] = row], ids \cup new)
<1>1. UsersAlike(m.users, m.vaults, d.users, ids \cup new) /\
      UploadsAlike(m.uploads, d.uploads, d.users, ids \cup new)
  BY Wider DEF Alike
<1>2. m.vaults = IF row.vault THEN m.vaults \cup {u} ELSE m.vaults \ {u}
  BY DEF Alike, UsersAlike
<1>3. UsersAlike([m.users EXCEPT ![u] = D!MapUser(row)], m.vaults, [d.users EXCEPT ![u] = row], ids \cup new)
  BY <1>1, <1>2, UserChanged
<1>4. UploadsAlike(m.uploads, d.uploads, [d.users EXCEPT ![u] = row], ids \cup new)
  BY <1>1, HandlesKept
<1> QED
  BY <1>3, <1>4

\* setPreserveNotes
LEMMA SetPreserveNotesGoes ==
    ASSUME NEW m, NEW d, NEW ids, Alike(m, d, ids), NEW u \in DOMAIN d.users, NEW on \in BOOLEAN
    PROVE  /\ Goes(m, d, M!SetPreserveNotes(m, u, on).to, D!SetPreserveNotes(d, u, on).to, ids, {})
           /\ M!SetPreserveNotes(m, u, on).says = D!SetPreserveNotes(d, u, on).says
<1> DEFINE r == M!SetPreserveNotes(m, u, on)
           s == D!SetPreserveNotes(d, u, on)
           row == [d.users[u] EXCEPT !.preserve = on]
           mine == {y \in DOMAIN d.items : d.items[y].owner = u}
           items == [y \in DOMAIN d.items |-> IF y \in mine THEN [d.items[y] EXCEPT !.pinned = on] ELSE d.items[y]]
           Kept(rows) == [x \in DOMAIN rows |-> IF x \in {u} THEN [rows[x] EXCEPT !.preserve = on] ELSE rows[x]]
<1>0. /\ DOMAIN m.users = DOMAIN d.users /\ d.users[u] \in DbUsers
      /\ m.users[u] = D!MapUser(d.users[u]) /\ m.items = d.items
  BY DEF Alike, UsersAlike, ItemsAlike, Tab
<1>1. MemBut(r.to, m, {"users", "items"}) /\
      r.to.users = Kept(m.users) /\
      r.to.items = items
  BY <1>0, Shared DEF Alike, M!Set, M!Where, M!SetPreserveNotes, M!Answer, Answer, MemShape,
     MemBut, MemFields
<1>2. DbBut(s.to, d, {"users", "items"}) /\
      s.to.users = Kept(d.users) /\
      s.to.items = items
  BY <1>0, Shared DEF Alike, D!Set, D!Where, D!SetPreserveNotes, D!Answer, Answer, DbShape,
     DbBut, DbFields, MemFields
<1>3. r.says = s.says
  BY <1>0, Shared DEF Alike, M!Set, M!Where, D!Set, D!Where, M!SetPreserveNotes,
     D!SetPreserveNotes, M!Answer, D!Answer
<1> HIDE DEF r, s, row, items, mine
<1>4. Alike(m, d, ids \cup {})
  BY Wider
<1>5. /\ Tab(items, Items, ItemRows) /\ DOMAIN items = DOMAIN d.items
      /\ \A y \in DOMAIN d.items : items[y].owner = d.items[y].owner /\ items[y].blob = d.items[y].blob
  <2>1. \A y \in DOMAIN d.items : d.items[y] \in ItemRows
    BY DEF Alike, ItemsAlike, Tab
  <2>2. \A y \in DOMAIN d.items : /\ items[y] \in ItemRows /\ items[y].owner = d.items[y].owner
                                 /\ items[y].blob = d.items[y].blob
    BY <2>1 DEF items, ItemRows
  <2> QED
    BY <2>2 DEF items, Alike, ItemsAlike, Tab
<1>6. ItemsAlike(r.to.items, s.to.items, ids \cup {})
  BY <1>1, <1>2, <1>4, <1>5 DEF Alike, ItemsAlike
<1>7. Filed(s.to.items, d.blobs)
  BY <1>2, <1>5 DEF Alike, Filed
<1>8. row \in DbUsers /\ row.admin = d.users[u].admin /\ row.handle = d.users[u].handle /\
      row.vault = d.users[u].vault
  BY <1>0 DEF row, DbUsers
<1>9. r.to.users = [m.users EXCEPT ![u] = D!MapUser(row)] /\ s.to.users = [d.users EXCEPT ![u] = row]
  <2>1. [m.users[u] EXCEPT !.preserve = on] = D!MapUser(row)
    BY <1>0, PreserveSeen DEF row
  <2> QED
    BY <1>0, <1>1, <1>2, <2>1 DEF row
<1>10. /\ UsersAlike(r.to.users, m.vaults, s.to.users, ids \cup {})
      /\ UploadsAlike(m.uploads, d.uploads, s.to.users, ids \cup {})
  <2>1. /\ UsersAlike([m.users EXCEPT ![u] = D!MapUser(row)], m.vaults,
                     [d.users EXCEPT ![u] = row], ids \cup {})
       /\ UploadsAlike(m.uploads, d.uploads, [d.users EXCEPT ![u] = row], ids \cup {})
    BY <1>8, UsersChanged
  <2> QED
    BY <1>9, <2>1
<1>11. DOMAIN s.to.users = DOMAIN d.users
  BY <1>9
<1>12. Alike(r.to, s.to, ids \cup {})
  BY <1>1, <1>2, <1>4, <1>5, <1>6, <1>7, <1>8, <1>9, <1>10, <1>11 DEF Alike, MemBut, DbBut, MemFields, DbFields
<1>13. Named(s.to) \subseteq Named(d) \cup {} /\ Left(r.to, s.to) = Left(m, d)
  BY <1>1, <1>2, <1>5, <1>6, <1>7, <1>8, <1>9, <1>10, <1>11 DEF Named, Left, MemBut, DbBut, MemFields, DbFields
<1>14. Goes(m, d, r.to, s.to, ids, {}) /\ r.says = s.says
  BY <1>3, <1>12, <1>13 DEF Goes
<1> QED
  BY <1>14 DEF r, s

\* savePushSubscription
LEMMA SavePushGoes ==
    ASSUME NEW m, NEW d, NEW ids, Alike(m, d, ids), NEW e \in Endpoints,
           NEW v \in DOMAIN d.devices
    PROVE  /\ Goes(m, d, M!SavePush(m, e, v).to, D!SavePush(d, e, v).to, ids, {})
           /\ M!SavePush(m, e, v).says = D!SavePush(d, e, v).says
<1> DEFINE r == M!SavePush(m, e, v)
           s == D!SavePush(d, e, v)
<1>1. MemBut(r.to, m, {"pushes"}) /\
      r.to.pushes = With(m.pushes, e, v)
  BY Shared DEF Alike, M!SavePush, M!Answer, Answer, MemShape, MemBut, MemFields
<1>2. DbBut(s.to, d, {"pushes"}) /\
      s.to.pushes = With(d.pushes, e, v)
  BY Shared DEF Alike, D!Commit, D!SavePush, D!Answer, Answer, DbShape, DbBut, DbFields,
     MemFields
<1>3. r.says = s.says
  BY Shared DEF Alike, D!Commit, M!SavePush, D!SavePush, M!Answer, D!Answer
<1> HIDE DEF r, s
<1>4. Alike(m, d, ids \cup {})
  BY Wider
<1>5. PushesAlike(r.to.pushes, s.to.pushes, DOMAIN d.devices, ids \cup {})
  <2>1. PushesAlike(m.pushes, d.pushes, DOMAIN d.devices, ids \cup {}) /\ v \in Devices
    BY <1>4 DEF Alike, DevicesAlike, Tab
  <2>2. Tab(r.to.pushes, Endpoints, Devices) /\ Tab(s.to.pushes, Endpoints, Devices)
    BY <1>1, <1>2, <2>1, WithTab DEF PushesAlike
  <2> QED
    BY <1>1, <1>2, <2>1, <2>2 DEF PushesAlike, With
<1>6. Alike(r.to, s.to, ids \cup {})
  BY <1>1, <1>2, <1>4, <1>5 DEF Alike, MemBut, DbBut, MemFields, DbFields
<1>7. Named(s.to) \subseteq Named(d) \cup {} /\ Left(r.to, s.to) = Left(m, d)
  BY <1>1, <1>2, <1>5 DEF Named, Left, MemBut, DbBut, MemFields, DbFields
<1>8. Goes(m, d, r.to, s.to, ids, {}) /\ r.says = s.says
  BY <1>3, <1>6, <1>7 DEF Goes
<1> QED
  BY <1>8 DEF r, s

\* deletePushSubscription
LEMMA DeletePushGoes ==
    ASSUME NEW m, NEW d, NEW ids, Alike(m, d, ids), NEW e
    PROVE  /\ Goes(m, d, M!DeletePush(m, e).to, D!DeletePush(d, e).to, ids, {})
           /\ M!DeletePush(m, e).says = D!DeletePush(d, e).says
<1> DEFINE r == M!DeletePush(m, e)
           s == D!DeletePush(d, e)
<1>1. MemBut(r.to, m, {"pushes"}) /\
      r.to.pushes = Without(m.pushes, {e})
  BY Shared DEF Alike, M!DeletePush, M!Answer, Answer, MemShape, MemBut, MemFields
<1>2. DbBut(s.to, d, {"pushes"}) /\
      s.to.pushes = Without(d.pushes, {e})
  BY Shared DEF Alike, D!DeletePush, D!Answer, Answer, DbShape, DbBut, DbFields, MemFields
<1>3. r.says = s.says
  BY Shared DEF Alike, M!DeletePush, D!DeletePush, M!Answer, D!Answer
<1> HIDE DEF r, s
<1>4. Alike(m, d, ids \cup {})
  BY Wider
<1>5. PushesAlike(r.to.pushes, s.to.pushes, DOMAIN d.devices, ids \cup {})
  <2>1. PushesAlike(m.pushes, d.pushes, DOMAIN d.devices, ids \cup {})
    BY <1>4 DEF Alike
  <2>2. Tab(r.to.pushes, Endpoints, Devices) /\ Tab(s.to.pushes, Endpoints, Devices)
    BY <1>1, <1>2, <2>1, WithoutTab DEF PushesAlike
  <2> QED
    BY <1>1, <1>2, <2>1, <2>2 DEF PushesAlike, Without
<1>6. Alike(r.to, s.to, ids \cup {})
  BY <1>1, <1>2, <1>4, <1>5 DEF Alike, MemBut, DbBut, MemFields, DbFields
<1>7. Named(s.to) \subseteq Named(d) \cup {} /\ Left(r.to, s.to) = Left(m, d)
  BY <1>1, <1>2, <1>5 DEF Named, Left, MemBut, DbBut, MemFields, DbFields
<1>8. Goes(m, d, r.to, s.to, ids, {}) /\ r.says = s.says
  BY <1>3, <1>6, <1>7 DEF Goes
<1> QED
  BY <1>8 DEF r, s

\* createUploadRequest
LEMMA CreateUploadGoes ==
    ASSUME NEW m, NEW d, NEW ids, Alike(m, d, ids), NEW x \in Uploads, NEW u \in DOMAIN d.users
    PROVE  /\ Goes(m, d, M!CreateUpload(m, x, u).to, D!CreateUpload(d, x, u).to, ids, {x})
           /\ M!CreateUpload(m, x, u).says = D!CreateUpload(d, x, u).says
<1> DEFINE r == M!CreateUpload(m, x, u)
           s == D!CreateUpload(d, x, u)
           mrow == [user |-> u, handle |-> m.users[u].handle, status |-> "pending",
                    decidedBy |-> NoOne, granted |-> NoOne]
           drow == [user |-> u, status |-> "pending", decidedBy |-> NoOne, granted |-> NoOne]
           open == {y \in DOMAIN d.uploads : d.uploads[y].user = u /\ d.uploads[y].status = "pending"}
<1>0. {y \in DOMAIN m.uploads : m.uploads[y].user = u /\ m.uploads[y].status = "pending"} = open
  BY DEF Alike, UploadsAlike, Joined
<1>1. CASE open # {}
  <2>1. r.to = m /\ s.to = d /\ r.says = s.says
    BY <1>1, <1>0, Shared DEF M!CreateUpload, D!CreateUpload, M!Where, D!Where, Answer
  <2> QED
    BY <2>1, GoesNowhere
<1>2. CASE ~(open # {})
  <2>1. MemBut(r.to, m, {"uploads"}) /\
        r.to.uploads = With(m.uploads, x, mrow)
    BY <1>2, <1>0, Shared DEF Alike, M!Where, M!CreateUpload, M!Answer, Answer, MemShape, MemBut,
       MemFields
  <2>2. DbBut(s.to, d, {"uploads"}) /\
        s.to.uploads = With(d.uploads, x, drow)
    BY <1>2, <1>0, Shared DEF Alike, D!Where, D!Commit, D!CreateUpload, D!Answer, Answer, DbShape,
       DbBut, DbFields, MemFields
  <2>3. r.says = s.says
    BY <1>2, <1>0, Shared DEF Alike, M!Where, D!Where, D!Commit, M!CreateUpload, D!CreateUpload,
       M!Answer, D!Answer
  <2> HIDE DEF r, s, mrow, drow
  <2>4. Alike(m, d, ids \cup {x})
    BY Wider
  <2>5. drow \in DbUploads /\ mrow = Joined(drow, d.users) /\ drow.user = u
    <3>1. u \in Users /\ m.users[u].handle = d.users[u].handle
      <4>1. u \in Users /\ m.users[u] = D!MapUser(d.users[u])
        BY DEF Alike, UsersAlike, Tab
      <4> QED
        BY <4>1 DEF D!MapUser
    <3> QED
      BY <3>1 DEF mrow, drow, DbUploads, Statuses, Joined
  <2>6. DOMAIN s.to.uploads = DOMAIN d.uploads \cup {x}
    BY <2>2 DEF With
  <2>7. UploadsAlike(r.to.uploads, s.to.uploads, d.users, ids \cup {x})
    <3>1. UploadsAlike(m.uploads, d.uploads, d.users, ids \cup {x})
      BY <2>4 DEF Alike
    <3>2. Tab(s.to.uploads, Uploads, DbUploads)
      BY <2>2, <2>5, <3>1, WithTab DEF UploadsAlike
    <3>3. \A y \in DOMAIN s.to.uploads : s.to.uploads[y].user \in DOMAIN d.users
      BY <2>2, <2>5, <3>1 DEF UploadsAlike, With
    <3>4. r.to.uploads = [y \in DOMAIN s.to.uploads |-> Joined(s.to.uploads[y], d.users)]
      BY <2>1, <2>2, <2>5, <3>1 DEF UploadsAlike, With
    <3> QED
      BY <2>6, <3>1, <3>2, <3>3, <3>4 DEF UploadsAlike
  <2>8. Alike(r.to, s.to, ids \cup {x})
    BY <2>1, <2>2, <2>4, <2>5, <2>6, <2>7 DEF Alike, MemBut, DbBut, MemFields, DbFields
  <2>9. Named(s.to) \subseteq Named(d) \cup {x} /\ Left(r.to, s.to) = Left(m, d)
    BY <2>1, <2>2, <2>5, <2>6, <2>7 DEF Named, Left, MemBut, DbBut, MemFields, DbFields
  <2>10. Goes(m, d, r.to, s.to, ids, {x}) /\ r.says = s.says
    BY <2>3, <2>8, <2>9 DEF Goes
  <2> QED
    BY <2>10 DEF r, s
<1> QED
  BY <1>1, <1>2

\* createPendingBlob
LEMMA CreatePendingBlobGoes ==
    ASSUME NEW m, NEW d, NEW ids, Alike(m, d, ids), NEW b \in Blobs, b \notin ids,
           NEW u \in DOMAIN d.users, NEW size \in Sizes, NEW now \in Times
    PROVE  /\ Goes(m, d, M!CreatePendingBlob(m, b, u, size, now).to, D!CreatePendingBlob(d, b, u, size, now).to, ids, {b})
           /\ M!CreatePendingBlob(m, b, u, size, now).says = D!CreatePendingBlob(d, b, u, size, now).says
<1> DEFINE r == M!CreatePendingBlob(m, b, u, size, now)
           s == D!CreatePendingBlob(d, b, u, size, now)
           row == [owner |-> u, state |-> "pending", size |-> size, created |-> now]
<1>1. MemBut(r.to, m, {"blobs"}) /\
      r.to.blobs = With(m.blobs, b, row)
  BY Shared DEF Alike, M!CreatePendingBlob, M!Answer, Answer, MemShape, MemBut, MemFields
<1>2. DbBut(s.to, d, {"blobs"}) /\
      s.to.blobs = With(d.blobs, b, row)
  BY Shared DEF Alike, D!Commit, D!CreatePendingBlob, D!Answer, Answer, DbShape, DbBut,
     DbFields, MemFields
<1>3. r.says = s.says
  BY Shared DEF Alike, D!Commit, M!CreatePendingBlob, D!CreatePendingBlob, M!Answer, D!Answer
<1> HIDE DEF r, s, row
<1>4. Alike(m, d, ids \cup {b})
  BY Wider
<1>5. row \in BlobRows /\ b \notin DOMAIN d.blobs
  BY DEF row, BlobRows, Alike, UsersAlike, BlobsAlike, Tab
<1>6. Tab(s.to.blobs, Blobs, BlobRows)
  BY <1>2, <1>5, WithTab DEF Alike, BlobsAlike
<1>7. DOMAIN s.to.blobs = DOMAIN d.blobs \cup {b}
  BY <1>2 DEF With
<1>8. BlobsAlike(r.to.blobs, s.to.blobs, ids \cup {b})
  BY <1>1, <1>2, <1>4, <1>6, <1>7 DEF Alike, BlobsAlike
<1>9. Filed(d.items, s.to.blobs)
  BY <1>2, <1>5 DEF Alike, Filed, With
<1>10. Alike(r.to, s.to, ids \cup {b})
  BY <1>1, <1>2, <1>4, <1>5, <1>6, <1>7, <1>8, <1>9 DEF Alike, MemBut, DbBut, MemFields, DbFields
<1>11. Named(s.to) \subseteq Named(d) \cup {b} /\ Left(r.to, s.to) = Left(m, d)
  BY <1>1, <1>2, <1>5, <1>6, <1>7, <1>8, <1>9 DEF Named, Left, MemBut, DbBut, MemFields, DbFields
<1>12. Goes(m, d, r.to, s.to, ids, {b}) /\ r.says = s.says
  BY <1>3, <1>10, <1>11 DEF Goes
<1> QED
  BY <1>12 DEF r, s
\* decideUploadRequest
LEMMA DecideUploadGoes ==
    ASSUME NEW m, NEW d, NEW ids, Alike(m, d, ids), NEW x, NEW a \in DOMAIN d.users,
           NEW v \in {"approved", "denied"}, NEW g \in Sizes \cup {NoOne}, v = "approved" => g \in Sizes
    PROVE  /\ Goes(m, d, M!DecideUpload(m, x, a, v, g).to, D!DecideUpload(d, x, a, v, g).to, ids, {})
           /\ M!DecideUpload(m, x, a, v, g).says = D!DecideUpload(d, x, a, v, g).says
<1> DEFINE r == M!DecideUpload(m, x, a, v, g)
           s == D!DecideUpload(d, x, a, v, g)
           w == d.uploads[x].user
           drow == [d.uploads[x] EXCEPT !.status = v, !.decidedBy = a, !.granted = g]
           row == IF v = "approved" THEN [d.users[w] EXCEPT !.canUpload = TRUE, !.quota = g]
                  ELSE d.users[w]
<1>1. UploadsAlike(m.uploads, d.uploads, d.users, ids \cup {}) /\ UsersAlike(m.users, m.vaults, d.users, ids)
  BY Wider DEF Alike
<1>2. DOMAIN m.uploads = DOMAIN d.uploads /\ DOMAIN m.users = DOMAIN d.users
  BY <1>1 DEF UploadsAlike, UsersAlike
<1>3. x \in DOMAIN d.uploads =>
          /\ m.uploads[x] = Joined(d.uploads[x], d.users) /\ d.uploads[x] \in DbUploads
          /\ m.uploads[x].user = w /\ m.uploads[x].status = d.uploads[x].status
          /\ w \in DOMAIN d.users /\ m.users[w] = D!MapUser(d.users[w]) /\ d.users[w] \in DbUsers
  <2>1. x \in DOMAIN d.uploads =>
            /\ m.uploads[x] = Joined(d.uploads[x], d.users) /\ d.uploads[x] \in DbUploads
            /\ w \in DOMAIN d.users /\ m.users[w] = D!MapUser(d.users[w]) /\ d.users[w] \in DbUsers
    BY <1>1 DEF UploadsAlike, UsersAlike, Tab
  <2> QED
    BY <2>1 DEF Joined
<1>4. CASE x \notin DOMAIN d.uploads \/ d.uploads[x].status # "pending"
  <2>1. r.to = m /\ s.to = d /\ r.says = s.says
    BY <1>2, <1>3, <1>4, Shared DEF M!DecideUpload, D!DecideUpload, Answer
  <2> QED
    BY <2>1, GoesNowhere
<1>5. CASE ~(x \notin DOMAIN d.uploads \/ d.uploads[x].status # "pending")
  <2> DEFINE decided == [y \in DOMAIN m.uploads |-> IF y \in {x}
                            THEN [m.uploads[y] EXCEPT !.status = v, !.decidedBy = a, !.granted = g]
                            ELSE m.uploads[y]]
             given == IF v = "approved" THEN {m.uploads[x].user} ELSE {}
             members == [y \in DOMAIN m.users |-> IF y \in given
                            THEN [m.users[y] EXCEPT !.canUpload = TRUE, !.quota = g]
                            ELSE m.users[y]]
  <2>1. PICK m1 : m1 = [m EXCEPT !.uploads = decided, !.users = members]
    OBVIOUS
  <2>2. PICK d0 : d0 = [d EXCEPT !.uploads[x] = [@ EXCEPT !.status = v, !.decidedBy = a, !.granted = g]]
    OBVIOUS
  <2>3. PICK d2 : d2 = [d0 EXCEPT !.users[w] = [@ EXCEPT !.canUpload = TRUE, !.quota = g]]
    OBVIOUS
  <2>4. PICK d1 : d1 = IF v = "approved" THEN d2 ELSE d0
    OBVIOUS
  <2>5. r = M!Answer(m1, <<"ok">>)
    BY <1>2, <1>3, <1>5, <2>1 DEF M!DecideUpload, M!Set
  <2>6. s = D!Answer(d1, <<"ok">>)
    BY <1>5, <2>2, <2>3, <2>4 DEF D!DecideUpload, D!Commit
  <2>7. r.to = m1 /\ s.to = d1 /\ r.says = s.says
    BY <2>5, <2>6, Shared DEF Answer
  <2>8. drow \in DbUploads /\ drow.user = w
    <3>1. a \in Users
      BY <1>1 DEF UsersAlike, Tab
    <3> QED
      BY <1>3, <1>5, <3>1 DEF DbUploads, Statuses
  <2>9. row \in DbUsers /\ row.admin = d.users[w].admin /\ row.handle = d.users[w].handle /\
        row.vault = d.users[w].vault
    BY <1>3, <1>5, RowsAssumption DEF DbUsers
  <2>10. decided = [m.uploads EXCEPT ![x] = Joined(drow, d.users)]
    <3>1. [m.uploads[x] EXCEPT !.status = v, !.decidedBy = a, !.granted = g] = Joined(drow, d.users)
      <4>1. m.uploads[x] = Joined(d.uploads[x], d.users) /\ d.uploads[x] \in DbUploads
        BY <1>3, <1>5
      <4>2. [Joined(d.uploads[x], d.users) EXCEPT !.status = v, !.decidedBy = a, !.granted = g] =
                Joined(drow, d.users)
        <5>1. PICK q : q = d.uploads[x]
          OBVIOUS
        <5>2. PICK y : y = [q EXCEPT !.status = v, !.decidedBy = a, !.granted = g]
          OBVIOUS
        <5>3. PICK z : z = [Joined(q, d.users) EXCEPT !.status = v, !.decidedBy = a, !.granted = g]
          OBVIOUS
        <5>4. z = Joined(y, d.users)
          <6>1. y.user = q.user /\ y.status = v /\ y.decidedBy = a /\ y.granted = g
            BY <4>1, <5>1, <5>2 DEF DbUploads
          <6>2. z = [user |-> z.user, handle |-> z.handle, status |-> z.status,
                     decidedBy |-> z.decidedBy, granted |-> z.granted]
            BY <5>3 DEF Joined
          <6>3. /\ z.user = q.user /\ z.handle = d.users[q.user].handle /\ z.status = v
                /\ z.decidedBy = a /\ z.granted = g
            BY <5>3 DEF Joined
          <6> QED
            BY <6>1, <6>2, <6>3 DEF Joined
        <5> QED
          BY <5>1, <5>2, <5>3, <5>4, Zenon
      <4> QED
        BY <4>1, <4>2
    <3> QED
      BY <1>1, <3>1 DEF UploadsAlike
  <2>11. members = [m.users EXCEPT ![w] = D!MapUser(row)]
    <3>1. CASE v = "approved"
      <4>1. [m.users[w] EXCEPT !.canUpload = TRUE, !.quota = g] = D!MapUser(row)
        BY <1>3, <1>5, <3>1, SpaceSeen
      <4> QED
        BY <1>1, <1>3, <1>5, <3>1, <4>1 DEF UsersAlike
    <3>2. CASE v # "approved"
      BY <1>1, <1>3, <1>5, <3>2 DEF UsersAlike
    <3> QED
      BY <3>1, <3>2
  <2>12. m1.uploads = decided /\ m1.users = members
    BY <2>1 DEF Alike, MemShape
  <2> HIDE DEF r, s, decided, members, given
  <2>13. MemBut(m1, m, {"uploads", "users"})
    BY <2>1 DEF Alike, MemShape, MemBut, MemFields
  <2>14. DbBut(d0, d, {"uploads", "users"}) /\ d0.users = d.users
    <3>1. DbShape(d)
      BY DEF Alike
    <3>2. DbBut(d0, d, {"uploads"})
      BY <2>2, <3>1 DEF DbShape, DbBut, DbFields, MemFields
    <3> QED
      BY <3>2 DEF DbBut, DbFields, MemFields
  <2>15. d0.uploads = [d.uploads EXCEPT ![x] = drow]
    BY <1>5, <2>2 DEF Alike, DbShape
  <2> HIDE DEF drow
  <2>16. DbBut(d2, d0, {"users"}) /\ d2.users = [d0.users EXCEPT ![w] = [@ EXCEPT !.canUpload = TRUE, !.quota = g]]
    <3>1. DbShape(d0)
      BY <2>14 DEF DbBut
    <3>2. DbBut(d2, d0, {"users"})
      BY <2>3, <3>1 DEF DbShape, DbBut, DbFields, MemFields
    <3> QED
      BY <2>3, <3>1, <3>2 DEF DbShape
  <2>17. DbBut(d1, d, {"uploads", "users"}) /\ d1.uploads = [d.uploads EXCEPT ![x] = drow]
    BY <2>4, <2>14, <2>15, <2>16 DEF DbBut, DbFields, MemFields
  <2>18. d1.users = [d.users EXCEPT ![w] = row]
    <3>1. CASE v = "approved"
      BY <2>4, <2>14, <2>16, <3>1
    <3>2. CASE v # "approved"
      BY <1>1, <1>3, <1>5, <2>4, <2>14, <3>2 DEF UsersAlike, Tab
    <3> QED
      BY <3>1, <3>2
  <2> HIDE DEF row
  <2>19. UsersAlike(m1.users, m.vaults, d1.users, ids \cup {})
    <3>1. w \in DOMAIN d.users
      BY <1>3, <1>5
    <3>2. UsersAlike([m.users EXCEPT ![w] = D!MapUser(row)], m.vaults, [d.users EXCEPT ![w] = row], ids \cup {})
      BY <2>9, <3>1, UsersChanged
    <3> QED
      BY <2>11, <2>12, <2>18, <3>2
  <2>20. UploadsAlike(m1.uploads, d1.uploads, d1.users, ids \cup {}) /\ DOMAIN d1.uploads = DOMAIN d.uploads
    <3>1. Tab(d.uploads, Uploads, DbUploads)
      BY <1>1 DEF UploadsAlike
    <3>2. Tab([d.uploads EXCEPT ![x] = drow], Uploads, DbUploads)
      BY <2>8, <3>1, ExceptTab
    <3>3. \A y \in DOMAIN d1.uploads : d1.uploads[y].user \in DOMAIN d.users
      BY <1>1, <1>3, <1>5, <2>8, <2>17 DEF UploadsAlike
    <3>4. m1.uploads = [y \in DOMAIN d1.uploads |-> Joined(d1.uploads[y], d.users)]
      BY <1>1, <1>5, <2>10, <2>12, <2>17 DEF UploadsAlike
    <3>5. UploadsAlike(m1.uploads, d1.uploads, d.users, ids \cup {})
      BY <1>1, <2>17, <3>2, <3>3, <3>4 DEF UploadsAlike
    <3>6. w \in DOMAIN d.users /\ row.handle = d.users[w].handle
      BY <1>3, <1>5, <2>9
    <3>7. UploadsAlike(m1.uploads, d1.uploads, [d.users EXCEPT ![w] = row], ids \cup {})
      BY <3>5, <3>6, HandlesKept
    <3> QED
      BY <2>17, <2>18, <3>7
  <2>21. Alike(m, d, ids \cup {}) /\ DOMAIN d1.users = DOMAIN d.users
    BY <2>18, Wider
  <2>22. Alike(m1, d1, ids \cup {})
    BY <2>13, <2>17, <2>19, <2>20, <2>21 DEF Alike, MemBut, DbBut, MemFields, DbFields
  <2>23. Named(d1) \subseteq Named(d) \cup {} /\ Left(m1, d1) = Left(m, d)
    BY <2>13, <2>17, <2>20, <2>21 DEF Named, Left, MemBut, DbBut, MemFields, DbFields
  <2>24. Goes(m, d, r.to, s.to, ids, {}) /\ r.says = s.says
    BY <2>7, <2>22, <2>23 DEF Goes
  <2> QED
    BY <2>24 DEF r, s
<1> QED
  BY <1>4, <1>5


\* The files of u that are under way.
Waiting(d, u) == {b \in DOMAIN d.blobs : d.blobs[b].owner = u /\ d.blobs[b].state = "pending"}

\* commitBlobAndItem of a file that waits.
LEMMA CommitBlobAndItemGoes ==
    ASSUME NEW m, NEW d, NEW ids, Alike(m, d, ids), NEW u \in DOMAIN d.users,
           NEW b \in Waiting(d, u), NEW bytes \in Sizes, NEW x \in Items, x \notin ids,
           NEW e \in Times, NEW pinned \in BOOLEAN
    PROVE  /\ Goes(m, d, M!CommitBlobAndItem(m, b, u, bytes, x, e, pinned).to,
                   D!CommitBlobAndItem(d, b, u, bytes, x, e, pinned).to, ids, {x})
           /\ M!CommitBlobAndItem(m, b, u, bytes, x, e, pinned).says =
                  D!CommitBlobAndItem(d, b, u, bytes, x, e, pinned).says
<1> DEFINE r == M!CommitBlobAndItem(m, b, u, bytes, x, e, pinned)
           s == D!CommitBlobAndItem(d, b, u, bytes, x, e, pinned)
           whole == [d.blobs[b] EXCEPT !.state = "committed", !.size = bytes]
           user == [d.users[u] EXCEPT !.used = @ + bytes]
           row == [owner |-> u, kind |-> "file", blob |-> b, size |-> bytes,
                   pinned |-> pinned, expires |-> e]
           files == [y \in DOMAIN d.blobs |-> IF y \in {b}
                        THEN [d.blobs[y] EXCEPT !.state = "committed", !.size = bytes]
                        ELSE d.blobs[y]]
<1>0. b \in DOMAIN d.blobs /\ d.blobs[b].owner = u /\ d.blobs[b].state = "pending"
  BY DEF Waiting
<1>1. /\ UsersAlike(m.users, m.vaults, d.users, ids) /\ ItemsAlike(m.items, d.items, ids)
      /\ BlobsAlike(m.blobs, d.blobs, ids) /\ Filed(d.items, d.blobs)
      /\ MemShape(m) /\ DbShape(d)
  BY DEF Alike
<1>2. /\ DOMAIN m.users = DOMAIN d.users /\ m.users[u] = D!MapUser(d.users[u])
      /\ d.users[u] \in DbUsers /\ u \in Users
      /\ m.blobs = d.blobs /\ d.blobs[b] \in BlobRows /\ b \in Blobs
      /\ m.items = d.items /\ x \notin DOMAIN d.items
  BY <1>0, <1>1 DEF UsersAlike, ItemsAlike, BlobsAlike, Tab
<1>3. m.users[u].used = d.users[u].used /\ m.users[u].quota = d.users[u].quota
  BY <1>0, <1>2 DEF D!MapUser
<1>4. CASE d.users[u].used + bytes > d.users[u].quota
  <2>1. r.to = m /\ s.to = d /\ r.says = s.says
    BY <1>0, <1>2, <1>3, <1>4, Shared DEF M!CommitBlobAndItem, D!CommitBlobAndItem, Answer
  <2> QED
    BY <2>1, GoesNowhere
<1>5. CASE ~(d.users[u].used + bytes > d.users[u].quota)
  <2>1. PICK m1 : m1 = [m EXCEPT !.blobs[b] = [@ EXCEPT !.state = "committed", !.size = bytes],
                                 !.users[u].used = @ + bytes,
                                 !.items = With(@, x, row)]
    OBVIOUS
  <2>2. PICK d1 : d1 = [d EXCEPT !.blobs = files,
                                 !.users[u].used = @ + bytes,
                                 !.items = With(@, x, row)]
    OBVIOUS
  <2>3. r = M!Answer(m1, <<"ok">>)
    BY <1>0, <1>2, <1>3, <1>5, <2>1, Shared DEF M!CommitBlobAndItem
  <2>4. s = D!Answer(d1, <<"ok">>)
    BY <1>0, <1>2, <1>5, <2>2, Shared DEF D!CommitBlobAndItem, D!Commit, D!Set
  <2>5. r.to = m1 /\ s.to = d1 /\ r.says = s.says
    BY <2>3, <2>4, Shared DEF Answer
  <2>6. whole \in BlobRows /\ whole.owner = u /\ whole.state = "committed"
    BY <1>0, <1>2 DEF BlobRows
  <2>7. /\ user \in DbUsers /\ user.admin = d.users[u].admin /\ user.handle = d.users[u].handle
        /\ user.vault = d.users[u].vault
    BY <1>0, <1>2, RowsAssumption DEF DbUsers
  <2>8. row \in ItemRows /\ row.blob = b /\ row.owner = u
    BY <1>0, <1>2 DEF ItemRows
  <2>9. files = [d.blobs EXCEPT ![b] = whole]
    BY <1>1 DEF BlobsAlike, Tab
  <2>10. /\ m1.users = [m.users EXCEPT ![u] = [m.users[u] EXCEPT !.used = m.users[u].used + bytes]]
         /\ m1.items = With(m.items, x, row)
    <3>1. m1.users = [m.users EXCEPT ![u] = [m.users[u] EXCEPT !.used = m.users[u].used + bytes]]
      BY <1>0, <1>1, <1>2, <2>1 DEF MemShape
    <3>2. m1.items = With(m.items, x, row)
      BY <1>0, <1>1, <1>2, <2>1 DEF MemShape
    <3> QED
      BY <3>1, <3>2
  <2>11. m1.blobs = [d.blobs EXCEPT ![b] = whole]
    BY <1>0, <1>1, <1>2, <2>1 DEF MemShape
  <2>12. /\ d1.users = [d.users EXCEPT ![u] = user] /\ d1.items = With(d.items, x, row)
         /\ d1.blobs = files
    BY <1>0, <1>1, <2>2 DEF DbShape
  <2>13. [m.users[u] EXCEPT !.used = m.users[u].used + bytes] = D!MapUser(user)
    BY <1>0, <1>2, <1>3, UsedSeen
  <2>14. m1.users = [m.users EXCEPT ![u] = D!MapUser(user)]
    BY <2>10, <2>13, Zenon
  <2> HIDE DEF r, s, whole, files, user, row
  <2>15. MemBut(m1, m, {"blobs", "users", "items"})
    BY <1>0, <1>1, <2>1 DEF MemShape, MemBut, MemFields
  <2>16. DbBut(d1, d, {"blobs", "users", "items"})
    BY <1>0, <1>1, <2>2 DEF DbShape, DbBut, DbFields, MemFields
  <2>17. Alike(m, d, ids \cup {x})
    BY Wider
  <2>18. /\ UsersAlike(m1.users, m.vaults, d1.users, ids \cup {x})
         /\ UploadsAlike(m.uploads, d.uploads, d1.users, ids \cup {x})
    <3>1. /\ UsersAlike([m.users EXCEPT ![u] = D!MapUser(user)], m.vaults,
                        [d.users EXCEPT ![u] = user], ids \cup {x})
          /\ UploadsAlike(m.uploads, d.uploads, [d.users EXCEPT ![u] = user], ids \cup {x})
      BY <2>7, UsersChanged
    <3> QED
      BY <2>12, <2>14, <3>1
  <2>19. DOMAIN d1.users = DOMAIN d.users /\ DOMAIN d1.items = DOMAIN d.items \cup {x}
    BY <2>12 DEF With
  <2>20. BlobsAlike(m1.blobs, d1.blobs, ids \cup {x})
    <3>1. Tab([d.blobs EXCEPT ![b] = whole], Blobs, BlobRows)
      BY <1>0, <1>1, <2>6, ExceptTab DEF BlobsAlike
    <3> QED
      BY <1>0, <1>1, <2>9, <2>11, <2>12, <3>1 DEF BlobsAlike
  <2>21. ItemsAlike(m1.items, d1.items, ids \cup {x})
    <3>1. Tab(With(d.items, x, row), Items, ItemRows)
      BY <1>0, <1>1, <2>8, WithTab DEF ItemsAlike
    <3> QED
      BY <1>0, <1>1, <1>2, <2>10, <2>12, <2>19, <3>1 DEF ItemsAlike
  <2>22. Filed(d1.items, d1.blobs)
    BY <1>0, <1>1, <1>2, <2>6, <2>8, <2>9, <2>12 DEF Filed, With
  <2>23. Alike(m1, d1, ids \cup {x})
    BY <2>15, <2>16, <2>17, <2>18, <2>19, <2>20, <2>21, <2>22
       DEF Alike, MemBut, DbBut, MemFields, DbFields
  <2>24. Named(d1) \subseteq Named(d) \cup {x} /\ Left(m1, d1) = Left(m, d)
    BY <2>15, <2>16, <2>19 DEF Named, Left, MemBut, DbBut, MemFields, DbFields
  <2>25. Goes(m, d, r.to, s.to, ids, {x}) /\ r.says = s.says
    BY <2>5, <2>23, <2>24 DEF Goes
  <2> QED
    BY <2>25 DEF r, s
<1> QED
  BY <1>4, <1>5

-----------------------------------------------------------------------------
(* What a prune hands back is a number of bytes.                           *)

\* A set of naturals that is not empty has a least one.
LEMMA LeastNatural ==
    ASSUME NEW T \in SUBSET Nat, T # {}
    PROVE  \E n \in T : \A m \in T : ~ (m < n)
<1> DEFINE R == OpToRel(<, Nat)
<1>1. IsWellFoundedOn(R, Nat)
  BY NatLessThanWellFounded DEF OpToRel
<1>2. \A m, n \in Nat : m < n => <<m, n>> \in R
  BY DEF OpToRel
<1> HIDE DEF R
<1>3. \E n \in T : \A m \in T : ~ (<<m, n>> \in R)
  BY <1>1, WFMin
<1> QED
  BY <1>2, <1>3

\* Induction over the naturals, on the set of those that have the property.
LEMMA Induction ==
    ASSUME NEW T, 0 \in T, \A n \in Nat : n \in T => n + 1 \in T
    PROVE  Nat \subseteq T
<1> SUFFICES ASSUME Nat \ T # {}
             PROVE  FALSE
  OBVIOUS
<1>1. PICK n \in Nat \ T : \A m \in Nat \ T : ~ (m < n)
  BY LeastNatural
<1>2. n # 0 /\ n - 1 \in Nat /\ n - 1 < n
  BY <1>1
<1>3. n - 1 \in T
  BY <1>1, <1>2
<1>4. (n - 1) + 1 \in T
  BY <1>2, <1>3
<1> QED
  BY <1>1, <1>4

First(s) == CHOOSE x \in s : TRUE

\* The function that Bytes chooses: the bytes of the files of a set.
Total(blobs, S, f) ==
    f = [s \in SUBSET S |->
            IF s = {} THEN 0 ELSE blobs[First(s)].size + f[s \ {First(s)}]]

\* A set with one element taken out.
LEMMA OneLess ==
    ASSUME NEW S, IsFiniteSet(S), NEW s \in SUBSET S
    PROVE  /\ Cardinality(s) \in Nat /\ (Cardinality(s) = 0 => s = {})
           /\ s # {} => /\ First(s) \in s /\ s \ {First(s)} \in SUBSET S
                        /\ Cardinality(s \ {First(s)}) = Cardinality(s) - 1
<1>1. IsFiniteSet(s)
  BY FS_Subset
<1>2. Cardinality(s) \in Nat /\ (Cardinality(s) = 0 => s = {})
  BY <1>1, FS_CardinalityType, FS_EmptySet
<1>3. ASSUME s # {}
      PROVE  First(s) \in s
  BY <1>3 DEF First
<1>4. ASSUME NEW x \in s
      PROVE  Cardinality(s \ {x}) = Cardinality(s) - 1
  BY <1>1, FS_RemoveElement
<1> QED
  BY <1>2, <1>3, <1>4

\* That function is there: by induction over the size of the set.
LEMMA TotalExists ==
    ASSUME NEW S, IsFiniteSet(S), NEW blobs
    PROVE  \E f : Total(blobs, S, f)
<1> DEFINE Sum(s, f) == IF s = {} THEN 0 ELSE blobs[First(s)].size + f[s \ {First(s)}]
           Upto(k, f) == \A s \in SUBSET S : Cardinality(s) <= k => f[s] = Sum(s, f)
           T == {k \in Nat : \E f : Upto(k, f)}
<1>1. \A k \in Nat : k \in T <=> \E f : Upto(k, f)
  OBVIOUS
<1> HIDE DEF T
<1>2. 0 \in T
  <2> DEFINE f == [s \in SUBSET S |-> 0]
  <2>1. ASSUME NEW s \in SUBSET S, Cardinality(s) <= 0
        PROVE  s = {}
    <3>1. Cardinality(s) \in Nat /\ (Cardinality(s) = 0 => s = {})
      BY OneLess
    <3> QED
      BY <2>1, <3>1
  <2>2. Upto(0, f)
    BY <2>1
  <2> HIDE DEF f, Upto
  <2> QED
    BY <1>1, <2>2
<1>3. ASSUME NEW k \in Nat, k \in T
      PROVE  k + 1 \in T
  <2>1. PICK f : Upto(k, f)
    BY <1>1, <1>3
  <2> DEFINE g == [s \in SUBSET S |-> Sum(s, f)]
  <2>2. ASSUME NEW s \in SUBSET S, Cardinality(s) <= k + 1
        PROVE  g[s] = Sum(s, g)
    <3>1. CASE s = {}
      BY <3>1
    <3>2. CASE s # {}
      <4> DEFINE rest == s \ {First(s)}
      <4>1. rest \in SUBSET S /\ Cardinality(rest) = Cardinality(s) - 1 /\ Cardinality(s) \in Nat
        BY <3>2, OneLess
      <4>2. Cardinality(rest) <= k
        BY <2>2, <4>1
      <4> HIDE DEF rest
      <4>3. g[rest] = f[rest]
        BY <2>1, <4>1, <4>2
      <4> QED
        BY <3>2, <4>3 DEF rest
    <3> QED
      BY <3>1, <3>2
  <2>3. Upto(k + 1, g)
    BY <2>2
  <2> HIDE DEF g, Upto
  <2> QED
    BY <1>1, <2>3
<1>4. Nat \subseteq T
  BY <1>2, <1>3, Induction
<1>5. Cardinality(S) \in Nat
  BY FS_CardinalityType
<1> HIDE DEF Upto
<1>6. PICK f : Upto(Cardinality(S), f)
  BY <1>1, <1>4, <1>5
<1>7. \A s \in SUBSET S : Cardinality(s) <= Cardinality(S)
  BY FS_Subset
<1> DEFINE h == [s \in SUBSET S |-> f[s]]
<1>8. \A s \in SUBSET S : h[s] = Sum(s, h)
  <2>1. \A s \in SUBSET S : f[s] = Sum(s, f)
    BY <1>6, <1>7 DEF Upto
  <2>2. \A s \in SUBSET S : s \ {First(s)} \in SUBSET S
    OBVIOUS
  <2> QED
    BY <2>1, <2>2
<1>9. Total(blobs, S, h)
  BY <1>8 DEF Total
<1> QED
  BY <1>9

\* Bytes adds up sizes.
LEMMA BytesAreNat ==
    ASSUME NEW S, IsFiniteSet(S), NEW blobs, \A b \in S : blobs[b].size \in Nat
    PROVE  Bytes(blobs, S) \in Nat
<1> DEFINE f == CHOOSE h : Total(blobs, S, h)
<1>1. Total(blobs, S, f)
  BY TotalExists
<1>2. Bytes(blobs, S) = f[S]
  BY DEF Bytes, MapThenSumSet, MapThenFoldSet, Total, First
<1> HIDE DEF f
<1> DEFINE T == {k \in Nat : \A s \in SUBSET S : Cardinality(s) <= k => f[s] \in Nat}
<1>3. \A k \in Nat : k \in T <=> \A s \in SUBSET S : Cardinality(s) <= k => f[s] \in Nat
  OBVIOUS
<1> HIDE DEF T
<1>4. \A s \in SUBSET S : f[s] = IF s = {} THEN 0 ELSE blobs[First(s)].size + f[s \ {First(s)}]
  BY <1>1 DEF Total
<1>5. 0 \in T
  <2>1. ASSUME NEW s \in SUBSET S, Cardinality(s) <= 0
        PROVE  s = {}
    <3>1. Cardinality(s) \in Nat /\ (Cardinality(s) = 0 => s = {})
      BY OneLess
    <3> QED
      BY <2>1, <3>1
  <2>2. \A s \in SUBSET S : Cardinality(s) <= 0 => f[s] \in Nat
    BY <1>4, <2>1
  <2> QED
    BY <1>3, <2>2
<1>6. ASSUME NEW k \in Nat, k \in T
      PROVE  k + 1 \in T
  <2>1. ASSUME NEW s \in SUBSET S, Cardinality(s) <= k + 1
        PROVE  f[s] \in Nat
    <3>1. CASE s = {}
      BY <1>4, <3>1
    <3>2. CASE s # {}
      <4>1. /\ First(s) \in s /\ s \ {First(s)} \in SUBSET S
            /\ Cardinality(s \ {First(s)}) = Cardinality(s) - 1
        BY <3>2, OneLess
      <4>2. Cardinality(s \ {First(s)}) <= k
        <5>1. Cardinality(s) \in Nat
          BY OneLess
        <5> QED
          BY <2>1, <4>1, <5>1
      <4>3. f[s \ {First(s)}] \in Nat
        BY <1>3, <1>6, <4>1, <4>2
      <4>4. blobs[First(s)].size \in Nat
        BY <4>1
      <4>5. f[s] = blobs[First(s)].size + f[s \ {First(s)}]
        BY <1>4, <3>2
      <4> QED
        BY <4>3, <4>4, <4>5
    <3> QED
      BY <3>1, <3>2
  <2> QED
    BY <1>3, <2>1
<1>7. Nat \subseteq T
  BY <1>5, <1>6, Induction
<1>8. Cardinality(S) \in Nat
  BY FS_CardinalityType
<1>9. S \in SUBSET S /\ Cardinality(S) <= Cardinality(S)
  BY <1>8
<1>10. f[S] \in Nat
  BY <1>3, <1>7, <1>8, <1>9
<1> QED
  BY <1>2, <1>10

-----------------------------------------------------------------------------
(* What a prune takes.                                                     *)

\* Both stores plan alike.
LEMMA Plans ==
    \A now, items, blobs, pairings, sessions :
        /\ M!PlanPrune(now, items, blobs, pairings, sessions) =
               PlanPrune(now, items, blobs, pairings, sessions)
        /\ D!PlanPrune(now, items, blobs, pairings, sessions) =
               PlanPrune(now, items, blobs, pairings, sessions)
  BY DEF PlanPrune, M!PlanPrune, D!PlanPrune, Where, M!Where, D!Where, Bytes, M!Bytes, D!Bytes,
         MapThenSumSet, M!MapThenSumSet, D!MapThenSumSet,
         MapThenFoldSet, M!MapThenFoldSet, D!MapThenFoldSet

Late(rows, now) == {x \in DOMAIN rows : rows[x].expires <= now}
Dead(items, now) == {x \in DOMAIN items : ~items[x].pinned /\ items[x].expires <= now}
Orphans(items, blobs, now) ==
    {b \in DOMAIN blobs : blobs[b].state = "committed"} \
        {items[x].blob : x \in DOMAIN items \ Dead(items, now)}
Stale(blobs, now) == {b \in DOMAIN blobs : blobs[b].state = "pending" /\ now - blobs[b].created >= 1}
Refund(items, blobs, now) ==
    [u \in {blobs[b].owner : b \in Orphans(items, blobs, now)} |->
        Bytes(blobs, {b \in Orphans(items, blobs, now) : blobs[b].owner = u})]

\* The plan, field by field.
LEMMA Planned ==
    ASSUME NEW now, NEW items, NEW blobs, NEW pairings, NEW sessions,
           NEW plan, plan = PlanPrune(now, items, blobs, pairings, sessions)
    PROVE  /\ plan.items = Dead(items, now) /\ plan.pairings = Late(pairings, now)
           /\ plan.sessions = Late(sessions, now)
           /\ plan.blobs = Stale(blobs, now) \cup Orphans(items, blobs, now)
           /\ plan.keep = DOMAIN blobs \ (Stale(blobs, now) \cup Orphans(items, blobs, now))
           /\ plan.refund = Refund(items, blobs, now)
  BY DEF PlanPrune, Where, Dead, Late, Stale, Orphans, Refund

\* What a member gets back is a number of bytes.
LEMMA RefundsAreNat ==
    ASSUME NEW items, NEW blobs, Tab(blobs, Blobs, BlobRows), NEW now,
           NEW u \in DOMAIN Refund(items, blobs, now)
    PROVE  Refund(items, blobs, now)[u] \in Nat
<1> DEFINE mine == {b \in Orphans(items, blobs, now) : blobs[b].owner = u}
<1>1. mine \subseteq DOMAIN blobs /\ DOMAIN blobs \subseteq Blobs
  BY DEF Orphans, Tab
<1>2. \A b \in DOMAIN blobs : blobs[b].size \in Nat
  BY RowsAssumption DEF Tab, BlobRows
<1>3. IsFiniteSet(mine)
  <2>1. IsFiniteSet(Blobs) /\ mine \in SUBSET Blobs
    BY <1>1, RowsAssumption
  <2> QED
    BY <2>1, FS_Subset
<1>4. Refund(items, blobs, now)[u] = Bytes(blobs, mine)
  BY DEF Refund
<1> HIDE DEF mine
<1>5. \A b \in mine : blobs[b].size \in Nat
  BY <1>1, <1>2
<1> QED
  BY <1>3, <1>4, <1>5, BytesAreNat

\* The members, after some got bytes back.
LEMMA RefundedAlike ==
    ASSUME NEW mu, NEW vaults, NEW du, NEW ids, UsersAlike(mu, vaults, du, ids),
           NEW f, \A u \in DOMAIN f : f[u] \in Nat,
           NEW mu1, NEW du1, mu1 = Refunded(mu, f), du1 = Refunded(du, f)
    PROVE  /\ UsersAlike(mu1, vaults, du1, ids) /\ DOMAIN du1 = DOMAIN du
           /\ \A u \in DOMAIN du : du1[u].handle = du[u].handle
<1>1. DOMAIN du1 = DOMAIN du /\ DOMAIN mu1 = DOMAIN du
  BY DEF UsersAlike, Refunded
<1>2. ASSUME NEW u \in DOMAIN du
      PROVE  /\ du1[u] \in DbUsers /\ mu1[u] = D!MapUser(du1[u])
             /\ du1[u].handle = du[u].handle /\ du1[u].admin = du[u].admin
             /\ du1[u].vault = du[u].vault
  <2>1. du[u] \in DbUsers /\ mu[u] = D!MapUser(du[u]) /\ DOMAIN mu = DOMAIN du
    BY DEF UsersAlike, Tab
  <2>2. mu[u].used = du[u].used /\ du[u].used \in Nat
    BY <2>1 DEF D!MapUser, DbUsers
  <2>3. CASE u \notin DOMAIN f
    <3>1. du1[u] = du[u] /\ mu1[u] = mu[u]
      BY <2>1, <2>3 DEF Refunded
    <3> QED
      BY <2>1, <3>1
  <2>4. CASE u \in DOMAIN f
    <3>1. PICK n : n = IF du[u].used > f[u] THEN du[u].used - f[u] ELSE 0
      OBVIOUS
    <3>2. n \in Nat
      BY <2>2, <2>4, <3>1
    <3>3. du1[u] = [du[u] EXCEPT !.used = n]
      BY <2>4, <3>1 DEF Refunded
    <3>4. mu1[u] = [mu[u] EXCEPT !.used = n]
      BY <2>1, <2>2, <2>4, <3>1 DEF Refunded
    <3>5. PICK x : x = du[u]
      OBVIOUS
    <3>6. [D!MapUser(x) EXCEPT !.used = n] = D!MapUser([x EXCEPT !.used = n])
      BY <2>1, <3>5, UsedSeen
    <3>7. mu1[u] = D!MapUser(du1[u])
      BY <2>1, <3>3, <3>4, <3>5, <3>6
    <3>8. /\ [x EXCEPT !.used = n] \in DbUsers /\ [x EXCEPT !.used = n].handle = x.handle
          /\ [x EXCEPT !.used = n].admin = x.admin /\ [x EXCEPT !.used = n].vault = x.vault
      BY <2>1, <3>2, <3>5 DEF DbUsers
    <3> QED
      BY <3>3, <3>5, <3>7, <3>8
  <2> QED
    BY <2>3, <2>4
<1>3. \A u \in DOMAIN du : du1[u] \in DbUsers /\ mu1[u] \in MemUsers
  <2>1. \A x \in DbUsers : D!MapUser(x) \in MemUsers
    BY DEF D!MapUser, DbUsers, MemUsers
  <2> QED
    BY <1>2, <2>1
<1>4. Tab(du1, Users, DbUsers) /\ mu1 \in [DOMAIN du1 -> MemUsers]
  <2>1. du1 = [u \in DOMAIN du |-> du1[u]] /\ mu1 = [u \in DOMAIN du |-> mu1[u]]
    BY <1>1 DEF Refunded
  <2> QED
    BY <1>1, <1>3, <2>1 DEF UsersAlike, Tab
<1>5. vaults = {u \in DOMAIN du1 : du1[u].vault}
  BY <1>1, <1>2 DEF UsersAlike
<1> QED
  BY <1>1, <1>2, <1>4, <1>5 DEF UsersAlike

\* No item that stays names a file that goes.
LEMMA NoneTornOff ==
    ASSUME NEW items, NEW blobs, Filed(items, blobs), Tab(blobs, Blobs, BlobRows), NEW now,
           NEW x \in DOMAIN items \ Dead(items, now)
    PROVE  items[x].blob \notin Stale(blobs, now) \cup Orphans(items, blobs, now)
<1>1. CASE items[x].blob = NoOne
  BY <1>1, RowsAssumption DEF Stale, Orphans, Tab
<1>2. CASE items[x].blob # NoOne
  BY <1>2 DEF Filed, Stale, Orphans
<1> QED
  BY <1>1, <1>2

\* prune
LEMMA PruneGoes ==
    ASSUME NEW m, NEW d, NEW ids, Alike(m, d, ids), NEW now
    PROVE  /\ Goes(m, d, M!Prune(m, now).to, D!Prune(d, now).to, ids, {})
           /\ M!Prune(m, now).says = D!Prune(d, now).says
<1> DEFINE r == M!Prune(m, now)
           s == D!Prune(d, now)
           f == Refund(d.items, d.blobs, now)
           gone == Stale(d.blobs, now) \cup Orphans(d.items, d.blobs, now)
           dead == Dead(d.items, now)
           left == Without(d.items, dead)
           kept == [x \in DOMAIN left |-> IF x \in {y \in DOMAIN left : left[y].blob \in gone}
                                          THEN [left[x] EXCEPT !.blob = NoOne] ELSE left[x]]
<1>1. /\ UsersAlike(m.users, m.vaults, d.users, ids) /\ ItemsAlike(m.items, d.items, ids)
      /\ BlobsAlike(m.blobs, d.blobs, ids) /\ Filed(d.items, d.blobs)
      /\ MemShape(m) /\ DbShape(d)
      /\ SessionsAlike(m.sessions, d.sessions, DOMAIN d.devices, ids)
      /\ PairingsAlike(m.pairings, d.pairings, DOMAIN d.users, ids)
      /\ CodesAlike(m.codes, d.pairings, ids)
      /\ UploadsAlike(m.uploads, d.uploads, d.users, ids)
  BY DEF Alike
<1>2. m.items = d.items /\ m.blobs = d.blobs
  BY <1>1 DEF ItemsAlike, BlobsAlike
<1>3. PICK mp : mp = PlanPrune(now, m.items, m.blobs, m.pairings, m.sessions)
  OBVIOUS
<1>4. PICK dp : dp = PlanPrune(now, d.items, d.blobs, d.pairings, d.sessions)
  OBVIOUS
<1>5. /\ mp.items = dead /\ mp.pairings = Late(m.pairings, now)
      /\ mp.sessions = Late(m.sessions, now)
      /\ mp.blobs = gone /\ mp.keep = DOMAIN d.blobs \ gone /\ mp.refund = f
  BY <1>2, <1>3, Planned
<1>6. /\ dp.items = dead /\ dp.pairings = Late(d.pairings, now)
      /\ dp.sessions = Late(d.sessions, now)
      /\ dp.blobs = gone /\ dp.keep = DOMAIN d.blobs \ gone /\ dp.refund = f
  BY <1>4, Planned
<1>7. mp = M!PlanPrune(now, m.items, m.blobs, m.pairings, m.sessions) /\
      dp = D!PlanPrune(now, d.items, d.blobs, d.pairings, d.sessions)
  BY <1>3, <1>4, Plans
<1> HIDE DEF f, gone, dead
<1>8. PICK m1 : m1 = [m EXCEPT !.items = Without(@, dead),
                               !.pairings = Without(@, Late(m.pairings, now)),
                               !.sessions = Without(@, Late(m.sessions, now)),
                               !.blobs = Without(@, gone), !.users = Refunded(@, f)]
  OBVIOUS
<1>9. PICK d1 : d1 = [d EXCEPT !.items = kept,
                               !.pairings = Without(@, Late(d.pairings, now)),
                               !.sessions = Without(@, Late(d.sessions, now)),
                               !.blobs = Without(@, gone), !.users = Refunded(@, f)]
  OBVIOUS
<1>10. r = M!Answer(m1, <<DOMAIN d.blobs \ gone, gone>>)
  BY <1>5, <1>7, <1>8, Shared DEF M!Prune
<1>11. s = D!Answer(d1, <<DOMAIN d.blobs \ gone, gone>>)
  BY <1>6, <1>7, <1>9, Shared DEF D!Prune, D!Set, D!Where
<1>12. r.to = m1 /\ s.to = d1 /\ r.says = s.says
  BY <1>10, <1>11, Shared DEF Answer
<1>13. kept = left
  <2>1. Tab(d.blobs, Blobs, BlobRows)
    BY <1>1 DEF BlobsAlike
  <2>2. \A x \in DOMAIN left : left[x] = d.items[x] /\ x \in DOMAIN d.items \ dead
    BY DEF Without
  <2>3. \A x \in DOMAIN left : left[x].blob \notin gone
    BY <1>1, <2>1, <2>2, NoneTornOff DEF gone, dead
  <2>4. kept = [x \in DOMAIN left |-> left[x]]
    BY <2>3
  <2> QED
    BY <2>4 DEF Without
<1> HIDE DEF r, s, kept, left
<1>14. /\ MemBut(m1, m, {"items", "pairings", "sessions", "blobs", "users"})
       /\ m1.items = Without(m.items, dead) /\ m1.blobs = Without(m.blobs, gone)
       /\ m1.pairings = Without(m.pairings, Late(m.pairings, now))
       /\ m1.sessions = Without(m.sessions, Late(m.sessions, now))
       /\ m1.users = Refunded(m.users, f)
  BY <1>1, <1>8 DEF MemShape, MemBut, MemFields
<1>15. /\ DbBut(d1, d, {"items", "pairings", "sessions", "blobs", "users"})
       /\ d1.items = left /\ d1.blobs = Without(d.blobs, gone)
       /\ d1.pairings = Without(d.pairings, Late(d.pairings, now))
       /\ d1.sessions = Without(d.sessions, Late(d.sessions, now))
       /\ d1.users = Refunded(d.users, f)
  BY <1>1, <1>9, <1>13 DEF DbShape, DbBut, DbFields, MemFields
<1>16. /\ UsersAlike(m1.users, m.vaults, d1.users, ids) /\ DOMAIN d1.users = DOMAIN d.users
       /\ \A u \in DOMAIN d.users : d1.users[u].handle = d.users[u].handle
  <2>1. Tab(d.blobs, Blobs, BlobRows)
    BY <1>1 DEF BlobsAlike
  <2>2. \A u \in DOMAIN f : f[u] \in Nat
    BY <2>1, RefundsAreNat DEF f
  <2> QED
    BY <1>1, <1>14, <1>15, <2>2, RefundedAlike
<1>17. UploadsAlike(m.uploads, d.uploads, d1.users, ids)
  <2>1. \A x \in DOMAIN d.uploads : Joined(d.uploads[x], d1.users) = Joined(d.uploads[x], d.users)
    BY <1>1, <1>16 DEF UploadsAlike, Joined
  <2> QED
    BY <1>1, <1>16, <2>1 DEF UploadsAlike
<1>18. ItemsAlike(m1.items, d1.items, ids) /\ DOMAIN d1.items \subseteq DOMAIN d.items
  <2>1. Tab(Without(d.items, dead), Items, ItemRows)
    BY <1>1, WithoutTab DEF ItemsAlike
  <2>2. DOMAIN Without(d.items, dead) \subseteq DOMAIN d.items
    BY DEF Without
  <2> QED
    BY <1>1, <1>2, <1>14, <1>15, <2>1, <2>2 DEF ItemsAlike, left
<1>19. BlobsAlike(m1.blobs, d1.blobs, ids)
  <2>1. Tab(Without(d.blobs, gone), Blobs, BlobRows)
    BY <1>1, WithoutTab DEF BlobsAlike
  <2>2. DOMAIN Without(d.blobs, gone) \subseteq DOMAIN d.blobs
    BY DEF Without
  <2> QED
    BY <1>1, <1>2, <1>14, <1>15, <2>1, <2>2 DEF BlobsAlike
<1>20. Filed(d1.items, d1.blobs)
  <2>1. Tab(d.blobs, Blobs, BlobRows)
    BY <1>1 DEF BlobsAlike
  <2>2. \A x \in DOMAIN d.items \ dead : d.items[x].blob \notin gone
    BY <1>1, <2>1, NoneTornOff DEF gone, dead
  <2> QED
    BY <1>1, <1>15, <2>2 DEF Filed, left, Without
<1>21. /\ PairingsAlike(m1.pairings, d1.pairings, DOMAIN d.users, ids)
       /\ CodesAlike(m.codes, d1.pairings, ids) /\ DOMAIN d1.pairings \subseteq DOMAIN d.pairings
  <2>1. Tab(m1.pairings, Pairings, MemPairings) /\ Tab(d1.pairings, Pairings, DbPairings)
    BY <1>1, <1>14, <1>15, WithoutTab DEF PairingsAlike
  <2>2. \A p \in DOMAIN d.pairings : p \in Late(d.pairings, now) <=> p \in Late(m.pairings, now)
    <3>1. \A p \in DOMAIN d.pairings :
              p \in DOMAIN m.pairings /\ m.pairings[p] = D!Record(d.pairings[p])
      BY <1>1 DEF PairingsAlike
    <3>2. ASSUME NEW p \in DOMAIN d.pairings
          PROVE  m.pairings[p].expires = d.pairings[p].expires
      <4>1. m.pairings[p] = D!Record(d.pairings[p])
        BY <3>1
      <4> QED
        BY <4>1 DEF D!Record
    <3> QED
      BY <3>1, <3>2 DEF Late
  <2>3. DOMAIN d1.pairings \subseteq DOMAIN d.pairings /\ DOMAIN m1.pairings \subseteq DOMAIN m.pairings
    BY <1>14, <1>15 DEF Without
  <2>4. PairingsAlike(m1.pairings, d1.pairings, DOMAIN d.users, ids)
    BY <1>1, <1>14, <1>15, <2>1, <2>2, <2>3 DEF PairingsAlike, Without
  <2>5. CodesAlike(m.codes, d1.pairings, ids)
    BY <1>1, <1>15, <2>3 DEF CodesAlike, Without
  <2> QED
    BY <2>3, <2>4, <2>5
<1>22. SessionsAlike(m1.sessions, d1.sessions, DOMAIN d.devices, ids) /\
       DOMAIN d1.sessions \subseteq DOMAIN d.sessions
  <2>1. \A t \in DOMAIN d.sessions : t \in Late(m.sessions, now) <=> t \in Late(d.sessions, now)
    BY <1>1 DEF SessionsAlike, Late
  <2>2. \A t \in DOMAIN d.sessions : d.sessions[t].device \in DOMAIN d.devices
    BY <1>1 DEF SessionsAlike
  <2>3. SessionsAlike(m1.sessions, d1.sessions, DOMAIN d.devices, ids)
    BY <1>1, <1>14, <1>15, <2>1, <2>2, SessionsGone
  <2> QED
    BY <1>15, <2>3 DEF Without
<1>23. Alike(m1, d1, ids \cup {})
  <2>1. Alike(m1, d1, ids)
    BY <1>14, <1>15, <1>16, <1>17, <1>18, <1>19, <1>20, <1>21, <1>22
       DEF Alike, MemBut, DbBut, MemFields, DbFields
  <2> QED
    BY <2>1, Wider
<1>24. Named(d1) \subseteq Named(d) \cup {} /\ Left(m1, d1) = Left(m, d)
  BY <1>14, <1>15, <1>16, <1>18, <1>21, <1>22 DEF Named, Left, MemBut, DbBut, MemFields, DbFields
<1>25. Goes(m, d, r.to, s.to, ids, {}) /\ r.says = s.says
  BY <1>12, <1>23, <1>24 DEF Goes
<1> QED
  BY <1>25 DEF r, s

-----------------------------------------------------------------------------
(* Both stores at once.                                                    *)

\* What a request leaves is sound: with the ids it took, nothing that memory
\* has left over is known to a caller, and the answers differ for those only
\* who are gone.
LEMMA StaysSound ==
    ASSUME Sound, NEW m1, NEW d1, NEW new, NEW user,
           Both(m1, d1, user), Takes(new), \A x \in new : x \notin spent,
           Alike(m1.to, d1.to, spent \cup new), Named(d1.to) \subseteq known \cup new,
           Left(m1.to, d1.to) \subseteq Left(mem, db) \cup (new \ Named(d1.to)),
           m1.says = d1.says \/ user \notin DOMAIN d1.to.users \cup {NoOne}
    PROVE  Sound'
<1>1. mem' = m1.to /\ db' = d1.to /\ clock' = clock
  BY DEF Both, Takes, Keeps
<1>2. Alike(mem', db', spent') /\ known' = known \cup Named(db') /\ known' \subseteq spent'
  <2>1. CASE mem' = mem /\ db' = db
    <3>1. spent' = spent
      BY <2>1 DEF Takes, Keeps
    <3>2. Alike(mem', db', spent')
      BY <2>1, <3>1 DEF Sound
    <3> QED
      BY <1>1, <2>1, <3>1, <3>2 DEF Both, Sound
  <2>2. CASE ~(mem' = mem /\ db' = db)
    <3>1. spent' = spent \cup new
      BY <2>2 DEF Takes
    <3>2. Alike(mem', db', spent')
      BY <1>1, <3>1
    <3> QED
      BY <1>1, <3>1, <3>2 DEF Both, Sound
  <2> QED
    BY <2>1, <2>2
<1>3. calls' \in 0 .. MaxCalls
  BY RowsAssumption DEF Both, Sound
<1>4. known' \cap Left(mem', db') = {}
  <2>1. Left(mem', db') \subseteq Left(mem, db) \cup (new \ Named(db'))
    BY <1>1
  <2>2. Left(mem, db) \subseteq spent
    BY DEF Sound, Alike, DevicesAlike, Left
  <2>3. Named(db') \subseteq known \cup new
    BY <1>1
  <2> QED
    BY <1>2, <2>1, <2>2, <2>3 DEF Sound
<1>5. sealed' \subseteq Users \cap spent'
  <2>1. sealed' \subseteq sealed \cup DOMAIN db'.users
    BY <1>1 DEF Both, Where
  <2>2. DOMAIN db'.users \subseteq Users \cap spent'
    BY <1>2 DEF Alike, UsersAlike, Tab
  <2>3. spent \subseteq spent'
    BY DEF Takes, Keeps
  <2> QED
    BY <2>1, <2>2, <2>3 DEF Sound
<1>6. SameAnswers'
  <2>1. CASE m1.says = d1.says
    BY <2>1 DEF Both, SameAnswers
  <2>2. CASE m1.says # d1.says
    <3>1. said' = {[mem |-> m1.says, db |-> d1.says, about |-> user]}
      BY <2>2 DEF Both
    <3>2. user \notin DOMAIN db'.users \cup {NoOne}
      BY <1>1, <2>2
    <3> QED
      BY <3>1, <3>2 DEF SameAnswers
  <2> QED
    BY <2>1, <2>2
<1> QED
  BY <1>1, <1>2, <1>3, <1>4, <1>5, <1>6 DEF Sound

\* A request that takes both stores from alike to alike.
LEMMA GoesOn ==
    ASSUME Sound, NEW m1, NEW d1, NEW new, NEW user,
           Goes(mem, db, m1.to, d1.to, spent, new),
           Both(m1, d1, user), Takes(new), \A x \in new : x \notin spent,
           m1.says = d1.says \/ user \notin DOMAIN d1.to.users \cup {NoOne}
    PROVE  Sound'
<1>1. Alike(m1.to, d1.to, spent \cup new) /\ Named(d1.to) \subseteq known \cup new
  BY DEF Goes, Sound
<1>2. Left(m1.to, d1.to) \subseteq Left(mem, db) \cup (new \ Named(d1.to))
  BY DEF Goes
<1> QED
  BY <1>1, <1>2, StaysSound

\* The same, and the service writes the log.
LEMMA LoggedOn ==
    ASSUME Sound, NEW m1, NEW d1, NEW new, NEW actor \in Users \cup {NoOne}, NEW user,
           Goes(mem, db, m1.to, d1.to, spent, new), m1.says = d1.says,
           m1.says[1] = "ok" => actor \in DOMAIN d1.to.users \cup {NoOne},
           Logged(m1, d1, actor, user), Takes(new), \A x \in new : x \notin spent
    PROVE  Sound'
<1> DEFINE r == MLogged(m1, actor)
           s == DLogged(d1, actor)
<1>1. Goes(mem, db, r.to, s.to, spent, new) /\ r.says = s.says
  BY LoggedGoes
<1>2. Both(r, s, user)
  BY DEF Logged
<1> HIDE DEF r, s
<1> QED
  BY <1>1, <1>2, GoesOn

LEMMA KeepsTakesNone == Keeps => Takes({})
  BY DEF Keeps, Takes

\* A random id is new.
LEMMA FreshId ==
    ASSUME NEW pool, NEW x \in Ids(pool)
    PROVE  x \in pool /\ x \notin spent
  BY DEF Ids

LEMMA Deadlines ==
    ASSUME Sound
    PROVE  /\ Alike(mem, db, spent) /\ clock \in Times /\ Soon \in Times /\ Later \in Times
           /\ Admin \in DOMAIN db.users /\ Admin \in Users
<1>1. clock \in 0 .. MaxClock + 2 /\ clock + 1 \in 0 .. MaxClock + 2 /\ clock + 2 \in 0 .. MaxClock + 2
  BY RowsAssumption DEF Sound
<1> QED
  BY <1>1, RowsAssumption DEF Sound, Alike, UsersAlike, Soon, Later

\* Whoever is signed in exists, and is the admin if one.
LEMMA SignedExist ==
    ASSUME Sound
    PROVE  /\ \A c \in Signed : c.userId \in DOMAIN db.users /\ c.deviceId \in DOMAIN db.devices
           /\ \A u \in Callers : u \in DOMAIN db.users
           /\ \A a \in AdminCallers : a = Admin
<1>1. ASSUME NEW c \in Signed
      PROVE  c.userId \in DOMAIN db.users /\ c.deviceId \in DOMAIN db.devices
  <2>1. PICK t \in DOMAIN db.sessions : c = D!SessionOf(db, t) /\ c # NoOne
    BY DEF Signed
  <2> QED
    BY <2>1 DEF D!SessionOf
<1>2. \A u \in Callers : u \in DOMAIN db.users
  BY <1>1 DEF Callers
<1>3. \A a \in AdminCallers : a = Admin
  BY <1>2 DEF AdminCallers, Sound, Alike, UsersAlike
<1> QED
  BY <1>1, <1>2, <1>3

-----------------------------------------------------------------------------
(* Each action keeps the stores alike.                                     *)

\* A code that no pairing has.
LEMMA UnusedCode ==
    ASSUME NEW c, Unused(c), Alike(mem, db, spent)
    PROVE  \A x \in DOMAIN db.pairings : db.pairings[x].code # c
<1> DEFINE ids == {x \in DOMAIN db.pairings : db.pairings[x].code = c}
<1>1. SUFFICES ASSUME ids # {}
               PROVE  FALSE
  OBVIOUS
<1>2. PICK q : q = CHOOSE p \in ids : TRUE
  OBVIOUS
<1>3. D!PairingByCode(db, c) = D!Record(db.pairings[q])
  BY <1>1, <1>2 DEF D!PairingByCode, D!Where
<1>4. q \in ids
  BY <1>1, <1>2
<1>5. db.pairings[q] \in DbPairings
  BY <1>4 DEF Alike, PairingsAlike, Tab
<1>6. D!Record(db.pairings[q]) \in [user : Users \cup {NoOne}, wrap : BOOLEAN, expires : Times]
  BY <1>5 DEF DbPairings, D!Record
<1> QED
  BY <1>3, <1>6, RowsAssumption DEF Unused

LEMMA KeepIsFlag ==
    ASSUME Alike(mem, db, spent), NEW u \in DOMAIN db.users
    PROVE  Keep(u) \in BOOLEAN
<1>1. db.users[u] \in DbUsers
  BY DEF Alike, UsersAlike, Tab
<1> QED
  BY <1>1 DEF Keep, DbUsers

\* No member goes at a login or a request.
LEMMA LoginUsers ==
    ASSUME NEW m, NEW d, NEW ids, Alike(m, d, ids), NEW v, NEW t, NEW e
    PROVE  D!CompleteLogin(d, v, t, e).to.users = d.users
<1>1. DbShape(d)
  BY DEF Alike
<1> QED
  BY <1>1 DEF D!CompleteLogin, D!Commit, D!Rolled, D!Answer, D!InsertSession, DbShape

LEMMA AskedUsers ==
    ASSUME NEW m, NEW d, NEW ids, Alike(m, d, ids), NEW x, NEW u
    PROVE  D!CreateUpload(d, x, u).to.users = d.users
<1>1. DbShape(d)
  BY DEF Alike
<1> QED
  BY <1>1 DEF D!CreateUpload, D!Commit, D!Rolled, D!Answer, DbShape

LEMMA CreateInviteKeeps ==
    ASSUME Sound, CreateInvite
    PROVE  Sound'
<1>1. PICK a \in AdminCallers, i \in Ids(Invites) :
          /\ Logged(M!CreateInvite(mem, i, a, Soon), D!CreateInvite(db, i, a, Soon), a, a)
          /\ Takes({i})
  BY DEF CreateInvite
<1>2. /\ Alike(mem, db, spent) /\ clock \in Times /\ Soon \in Times /\ Later \in Times
      /\ Admin \in DOMAIN db.users /\ Admin \in Users
  BY Deadlines
<1>3. a = Admin
  BY <1>1, SignedExist
<1>4. i \in Invites /\ i \notin spent
  BY <1>1, FreshId
<1> DEFINE r == M!CreateInvite(mem, i, Admin, Soon)
           s == D!CreateInvite(db, i, Admin, Soon)
<1>5. Goes(mem, db, r.to, s.to, spent, {i}) /\ r.says = s.says
  BY <1>1, <1>2, <1>3, <1>4, CreateInviteGoes
<1>6. Logged(r, s, Admin, Admin) /\ Takes({i})
  BY <1>1, <1>3
<1>7. Admin \in DOMAIN s.to.users
  BY <1>5 DEF Goes, Alike, UsersAlike
<1> HIDE DEF r, s
<1>8. \A x \in {i} : x \notin spent
  BY <1>1, FreshId
<1> QED
  BY <1>5, <1>6, <1>7, <1>2, <1>8, LoggedOn

LEMMA RevokeInviteKeeps ==
    ASSUME Sound, RevokeInvite
    PROVE  Sound'
<1>1. PICK a \in AdminCallers, i \in Invites \cap known :
          /\ Logged(M!RevokeInvite(mem, i), D!RevokeInvite(db, i), a, a)
          /\ Keeps
  BY DEF RevokeInvite
<1>2. /\ Alike(mem, db, spent) /\ clock \in Times /\ Soon \in Times /\ Later \in Times
      /\ Admin \in DOMAIN db.users /\ Admin \in Users
  BY Deadlines
<1>3. a = Admin
  BY <1>1, SignedExist
<1> DEFINE r == M!RevokeInvite(mem, i)
           s == D!RevokeInvite(db, i)
<1>4. Goes(mem, db, r.to, s.to, spent, {}) /\ r.says = s.says
  BY <1>1, <1>2, <1>3, RevokeInviteGoes
<1>5. Logged(r, s, Admin, Admin) /\ Takes({})
  BY <1>1, KeepsTakesNone, <1>3
<1>6. Admin \in DOMAIN s.to.users
  BY <1>4 DEF Goes, Alike, UsersAlike
<1> HIDE DEF r, s
<1> QED
  BY <1>4, <1>5, <1>6, <1>2, LoggedOn

LEMMA CreateAskKeeps ==
    ASSUME Sound, CreateAsk
    PROVE  Sound'
<1>1. PICK i \in Ids(Asks) :
          /\ Logged(M!CreateAsk(mem, i), D!CreateAsk(db, i), NoOne, NoOne)
          /\ Takes({i})
  BY DEF CreateAsk
<1>2. /\ Alike(mem, db, spent) /\ clock \in Times /\ Soon \in Times /\ Later \in Times
      /\ Admin \in DOMAIN db.users /\ Admin \in Users
  BY Deadlines
<1>3. i \in Asks /\ i \notin spent
  BY <1>1, FreshId
<1> DEFINE r == M!CreateAsk(mem, i)
           s == D!CreateAsk(db, i)
<1>4. Goes(mem, db, r.to, s.to, spent, {i}) /\ r.says = s.says
  BY <1>1, <1>2, <1>3, CreateAskGoes
<1>5. Logged(r, s, NoOne, NoOne) /\ Takes({i})
  BY <1>1
<1> HIDE DEF r, s
<1>6. \A x \in {i} : x \notin spent
  BY <1>1, FreshId
<1> QED
  BY <1>4, <1>5, <1>6, LoggedOn

LEMMA DismissAskKeeps ==
    ASSUME Sound, DismissAsk
    PROVE  Sound'
<1>1. PICK a \in AdminCallers, i \in Asks \cap known :
          /\ Logged(M!DismissAsk(mem, i), D!DismissAsk(db, i), a, a)
          /\ Keeps
  BY DEF DismissAsk
<1>2. /\ Alike(mem, db, spent) /\ clock \in Times /\ Soon \in Times /\ Later \in Times
      /\ Admin \in DOMAIN db.users /\ Admin \in Users
  BY Deadlines
<1>3. a = Admin
  BY <1>1, SignedExist
<1> DEFINE r == M!DismissAsk(mem, i)
           s == D!DismissAsk(db, i)
<1>4. Goes(mem, db, r.to, s.to, spent, {}) /\ r.says = s.says
  BY <1>1, <1>2, <1>3, DismissAskGoes
<1>5. Logged(r, s, Admin, Admin) /\ Takes({})
  BY <1>1, KeepsTakesNone, <1>3
<1>6. Admin \in DOMAIN s.to.users
  BY <1>4 DEF Goes, Alike, UsersAlike
<1> HIDE DEF r, s
<1> QED
  BY <1>4, <1>5, <1>6, <1>2, LoggedOn

LEMMA AdminEnrollVerifyKeeps ==
    ASSUME Sound, AdminEnrollVerify
    PROVE  Sound'
<1>1. PICK v \in Ids(Devices), t \in Ids(Tokens) :
          /\ Logged(M!CompleteAdminEnroll(mem, Admin, v, t, Later),
                    D!CompleteAdminEnroll(db, Admin, v, t, Later), Admin, Admin)
          /\ Takes({v, t})
  BY DEF AdminEnrollVerify
<1>2. /\ Alike(mem, db, spent) /\ clock \in Times /\ Soon \in Times /\ Later \in Times
      /\ Admin \in DOMAIN db.users /\ Admin \in Users
  BY Deadlines
<1>3. v \in Devices /\ v \notin spent /\ t \in Tokens /\ t \notin spent
  BY <1>1, FreshId
<1> DEFINE r == M!CompleteAdminEnroll(mem, Admin, v, t, Later)
           s == D!CompleteAdminEnroll(db, Admin, v, t, Later)
<1>4. Goes(mem, db, r.to, s.to, spent, {v, t}) /\ r.says = s.says
  BY <1>1, <1>2, <1>3, CompleteAdminEnrollGoes
<1>5. Logged(r, s, Admin, Admin) /\ Takes({v, t})
  BY <1>1
<1>6. Admin \in DOMAIN s.to.users
  BY <1>4 DEF Goes, Alike, UsersAlike
<1> HIDE DEF r, s
<1>7. \A x \in {v, t} : x \notin spent
  BY <1>1, FreshId
<1> QED
  BY <1>4, <1>5, <1>6, <1>2, <1>7, LoggedOn

LEMMA LoginVerifyKeeps ==
    ASSUME Sound, LoginVerify
    PROVE  Sound'
<1>1. PICK v \in DOMAIN db.devices, t \in Ids(Tokens) :
          /\ Logged(M!CompleteLogin(mem, v, t, Later), D!CompleteLogin(db, v, t, Later),
                    db.devices[v].user, db.devices[v].user)
          /\ Takes({t})
  BY DEF LoginVerify
<1>2. /\ Alike(mem, db, spent) /\ clock \in Times /\ Soon \in Times /\ Later \in Times
      /\ Admin \in DOMAIN db.users /\ Admin \in Users
  BY Deadlines
<1>3. t \in Tokens /\ t \notin spent
  BY <1>1, FreshId
<1>4. db.devices[v].user \in DOMAIN db.users /\ db.devices[v].user \in Users
  BY <1>2 DEF Alike, DevicesAlike, UsersAlike, Tab
<1> DEFINE r == M!CompleteLogin(mem, v, t, Later)
           s == D!CompleteLogin(db, v, t, Later)
<1>5. Goes(mem, db, r.to, s.to, spent, {t}) /\ r.says = s.says
  BY <1>1, <1>2, <1>3, <1>4, CompleteLoginGoes
<1>6. Logged(r, s, db.devices[v].user, db.devices[v].user) /\ Takes({t})
  BY <1>1
<1>7. db.devices[v].user \in DOMAIN s.to.users /\ db.devices[v].user \in Users
  BY <1>1, <1>2, <1>3, <1>4, LoginUsers
<1> HIDE DEF r, s
<1>8. \A x \in {t} : x \notin spent
  BY <1>1, FreshId
<1> QED
  BY <1>5, <1>6, <1>7, <1>8, LoggedOn

LEMMA LogoutKeeps ==
    ASSUME Sound, Logout
    PROVE  Sound'
<1>1. PICK t \in Tokens \cap known :
          /\ Both(M!DeleteSession(mem, t), D!DeleteSession(db, t), NoOne)
          /\ Keeps
  BY DEF Logout
<1>2. /\ Alike(mem, db, spent) /\ clock \in Times /\ Soon \in Times /\ Later \in Times
      /\ Admin \in DOMAIN db.users /\ Admin \in Users
  BY Deadlines
<1> DEFINE r == M!DeleteSession(mem, t)
           s == D!DeleteSession(db, t)
<1>3. Goes(mem, db, r.to, s.to, spent, {}) /\ r.says = s.says
  BY <1>1, <1>2, DeleteSessionGoes
<1>4. Both(r, s, NoOne) /\ Takes({})
  BY <1>1, KeepsTakesNone
<1> HIDE DEF r, s
<1> QED
  BY <1>3, <1>4, GoesOn

LEMMA MeKeeps ==
    ASSUME Sound, Me
    PROVE  Sound'
<1>1. PICK t \in DOMAIN db.sessions :
          /\ Both(M!TouchSession(mem, t, Later), D!TouchSession(db, t, Later), NoOne)
          /\ Keeps
  BY DEF Me
<1>2. /\ Alike(mem, db, spent) /\ clock \in Times /\ Soon \in Times /\ Later \in Times
      /\ Admin \in DOMAIN db.users /\ Admin \in Users
  BY Deadlines
<1> DEFINE r == M!TouchSession(mem, t, Later)
           s == D!TouchSession(db, t, Later)
<1>3. Goes(mem, db, r.to, s.to, spent, {}) /\ r.says = s.says
  BY <1>1, <1>2, TouchSessionGoes
<1>4. Both(r, s, NoOne) /\ Takes({})
  BY <1>1, KeepsTakesNone
<1> HIDE DEF r, s
<1> QED
  BY <1>3, <1>4, GoesOn

LEMMA RevokeDeviceKeeps ==
    ASSUME Sound, RevokeDevice
    PROVE  Sound'
<1>1. PICK a \in AdminCallers, v \in Devices \cap known :
          /\ Logged(M!RevokeDevice(mem, v), D!RevokeDevice(db, v), a, a)
          /\ Keeps
  BY DEF RevokeDevice
<1>2. /\ Alike(mem, db, spent) /\ clock \in Times /\ Soon \in Times /\ Later \in Times
      /\ Admin \in DOMAIN db.users /\ Admin \in Users
  BY Deadlines
<1>3. a = Admin
  BY <1>1, SignedExist
<1>4. v \notin Left(mem, db)
  BY <1>1 DEF Sound
<1> DEFINE r == M!RevokeDevice(mem, v)
           s == D!RevokeDevice(db, v)
<1>5. Goes(mem, db, r.to, s.to, spent, {}) /\ r.says = s.says
  BY <1>1, <1>2, <1>3, <1>4, RevokeDeviceGoes
<1>6. Logged(r, s, Admin, Admin) /\ Takes({})
  BY <1>1, KeepsTakesNone, <1>3
<1>7. Admin \in DOMAIN s.to.users
  BY <1>5 DEF Goes, Alike, UsersAlike
<1> HIDE DEF r, s
<1> QED
  BY <1>5, <1>6, <1>7, <1>2, LoggedOn

LEMMA RemoveUserKeeps ==
    ASSUME Sound, RemoveUser
    PROVE  Sound'
<1>1. PICK a \in AdminCallers, u \in Users \cap known :
          /\ Logged(M!RemoveUser(mem, u), D!RemoveUser(db, u), a, a)
          /\ Keeps
  BY DEF RemoveUser
<1>2. /\ Alike(mem, db, spent) /\ clock \in Times /\ Soon \in Times /\ Later \in Times
      /\ Admin \in DOMAIN db.users /\ Admin \in Users
  BY Deadlines
<1>3. a = Admin
  BY <1>1, SignedExist
<1> DEFINE r == M!RemoveUser(mem, u)
           s == D!RemoveUser(db, u)
<1>4. Goes(mem, db, r.to, s.to, spent, {}) /\ r.says = s.says
  BY <1>1, <1>2, <1>3, RemoveUserGoes
<1>5. Logged(r, s, Admin, Admin) /\ Takes({})
  BY <1>1, KeepsTakesNone, <1>3
<1>6. Admin \in DOMAIN s.to.users
  BY <1>4 DEF Goes, Alike, UsersAlike
<1> HIDE DEF r, s
<1> QED
  BY <1>4, <1>5, <1>6, <1>2, LoggedOn

LEMMA DeleteAccountKeeps ==
    ASSUME Sound, DeleteAccount
    PROVE  Sound'
<1>1. PICK u \in Callers :
          /\ Logged(M!RemoveUser(mem, u), D!RemoveUser(db, u), NoOne, NoOne)
          /\ Keeps
  BY DEF DeleteAccount
<1>2. /\ Alike(mem, db, spent) /\ clock \in Times /\ Soon \in Times /\ Later \in Times
      /\ Admin \in DOMAIN db.users /\ Admin \in Users
  BY Deadlines
<1>3. u \in DOMAIN db.users
  BY <1>1, SignedExist
<1> DEFINE r == M!RemoveUser(mem, u)
           s == D!RemoveUser(db, u)
<1>4. Goes(mem, db, r.to, s.to, spent, {}) /\ r.says = s.says
  BY <1>1, <1>2, <1>3, RemoveUserGoes
<1>5. Logged(r, s, NoOne, NoOne) /\ Takes({})
  BY <1>1, KeepsTakesNone
<1> HIDE DEF r, s
<1> QED
  BY <1>4, <1>5, LoggedOn

LEMMA PutVaultKeeps ==
    ASSUME Sound, PutVault
    PROVE  Sound'
<1>1. PICK u \in Callers :
          /\ Both(M!SaveVault(mem, u), D!SaveVault(db, u), u)
          /\ Keeps
  BY DEF PutVault
<1>2. /\ Alike(mem, db, spent) /\ clock \in Times /\ Soon \in Times /\ Later \in Times
      /\ Admin \in DOMAIN db.users /\ Admin \in Users
  BY Deadlines
<1>3. u \in DOMAIN db.users
  BY <1>1, SignedExist
<1> DEFINE r == M!SaveVault(mem, u)
           s == D!SaveVault(db, u)
<1>4. Goes(mem, db, r.to, s.to, spent, {}) /\ r.says = s.says
  BY <1>1, <1>2, <1>3, SaveVaultGoes
<1>5. Both(r, s, u) /\ Takes({})
  BY <1>1, KeepsTakesNone
<1> HIDE DEF r, s
<1> QED
  BY <1>4, <1>5, GoesOn

LEMMA StartPairingKeeps ==
    ASSUME Sound, StartPairing
    PROVE  Sound'
<1>1. PICK p \in Ids(Pairings), c \in Codes :
          /\ Unused(c)
          /\ Both(M!CreatePairing(mem, p, c, Soon), D!CreatePairing(db, p, c, Soon), NoOne)
          /\ Takes({p})
  BY DEF StartPairing
<1>2. /\ Alike(mem, db, spent) /\ clock \in Times /\ Soon \in Times /\ Later \in Times
      /\ Admin \in DOMAIN db.users /\ Admin \in Users
  BY Deadlines
<1>3. p \in Pairings /\ p \notin spent
  BY <1>1, FreshId
<1>4. \A x \in DOMAIN db.pairings : db.pairings[x].code # c
  BY <1>1, <1>2, UnusedCode
<1> DEFINE r == M!CreatePairing(mem, p, c, Soon)
           s == D!CreatePairing(db, p, c, Soon)
<1>5. Goes(mem, db, r.to, s.to, spent, {p}) /\ r.says = s.says
  BY <1>1, <1>2, <1>3, <1>4, CreatePairingGoes
<1>6. Both(r, s, NoOne) /\ Takes({p})
  BY <1>1
<1> HIDE DEF r, s
<1>7. \A x \in {p} : x \notin spent
  BY <1>1, FreshId
<1> QED
  BY <1>5, <1>6, <1>7, GoesOn

LEMMA UpdateItemKeeps ==
    ASSUME Sound, UpdateItem
    PROVE  Sound'
<1>1. PICK u \in Callers, x \in Items \cap known, n \in Sizes :
          /\ Both(M!UpdateTextItem(mem, u, x, "link", n, clock),
                  D!UpdateTextItem(db, u, x, "link", n, clock), u)
          /\ Keeps
  BY DEF UpdateItem
<1>2. /\ Alike(mem, db, spent) /\ clock \in Times /\ Soon \in Times /\ Later \in Times
      /\ Admin \in DOMAIN db.users /\ Admin \in Users
  BY Deadlines
<1> DEFINE r == M!UpdateTextItem(mem, u, x, "link", n, clock)
           s == D!UpdateTextItem(db, u, x, "link", n, clock)
<1>3. Goes(mem, db, r.to, s.to, spent, {}) /\ r.says = s.says
  BY <1>1, <1>2, UpdateTextItemGoes
<1>4. Both(r, s, u) /\ Takes({})
  BY <1>1, KeepsTakesNone
<1> HIDE DEF r, s
<1> QED
  BY <1>3, <1>4, GoesOn

LEMMA DeleteItemKeeps ==
    ASSUME Sound, DeleteItem
    PROVE  Sound'
<1>1. PICK u \in Callers, x \in Items \cap known :
          /\ Both(M!DeleteItem(mem, u, x), D!DeleteItem(db, u, x), u)
          /\ Keeps
  BY DEF DeleteItem
<1>2. /\ Alike(mem, db, spent) /\ clock \in Times /\ Soon \in Times /\ Later \in Times
      /\ Admin \in DOMAIN db.users /\ Admin \in Users
  BY Deadlines
<1> DEFINE r == M!DeleteItem(mem, u, x)
           s == D!DeleteItem(db, u, x)
<1>3. Goes(mem, db, r.to, s.to, spent, {}) /\ r.says = s.says
  BY <1>1, <1>2, DeleteItemGoes
<1>4. Both(r, s, u) /\ Takes({})
  BY <1>1, KeepsTakesNone
<1> HIDE DEF r, s
<1> QED
  BY <1>3, <1>4, GoesOn

LEMMA SetPreserveNotesKeeps ==
    ASSUME Sound, SetPreserveNotes
    PROVE  Sound'
<1>1. PICK u \in AdminCallers, on \in BOOLEAN :
          /\ Both(M!SetPreserveNotes(mem, u, on), D!SetPreserveNotes(db, u, on), u)
          /\ Keeps
  BY DEF SetPreserveNotes
<1>2. /\ Alike(mem, db, spent) /\ clock \in Times /\ Soon \in Times /\ Later \in Times
      /\ Admin \in DOMAIN db.users /\ Admin \in Users
  BY Deadlines
<1>3. u = Admin
  BY <1>1, SignedExist
<1> DEFINE r == M!SetPreserveNotes(mem, u, on)
           s == D!SetPreserveNotes(db, u, on)
<1>4. Goes(mem, db, r.to, s.to, spent, {}) /\ r.says = s.says
  BY <1>1, <1>2, <1>3, SetPreserveNotesGoes
<1>5. Both(r, s, u) /\ Takes({})
  BY <1>1, KeepsTakesNone
<1> HIDE DEF r, s
<1> QED
  BY <1>4, <1>5, GoesOn

LEMMA ResetItemExpiryKeeps ==
    ASSUME Sound, ResetItemExpiry
    PROVE  Sound'
<1>1. PICK u \in Callers :
          /\ Both(M!ResetItemExpiry(mem, u, Soon), D!ResetItemExpiry(db, u, Soon), u)
          /\ Keeps
  BY DEF ResetItemExpiry
<1>2. /\ Alike(mem, db, spent) /\ clock \in Times /\ Soon \in Times /\ Later \in Times
      /\ Admin \in DOMAIN db.users /\ Admin \in Users
  BY Deadlines
<1> DEFINE r == M!ResetItemExpiry(mem, u, Soon)
           s == D!ResetItemExpiry(db, u, Soon)
<1>3. Goes(mem, db, r.to, s.to, spent, {}) /\ r.says = s.says
  BY <1>1, <1>2, ResetItemExpiryGoes
<1>4. Both(r, s, u) /\ Takes({})
  BY <1>1, KeepsTakesNone
<1> HIDE DEF r, s
<1> QED
  BY <1>3, <1>4, GoesOn

LEMMA SubscribePushKeeps ==
    ASSUME Sound, SubscribePush
    PROVE  Sound'
<1>1. PICK c \in Signed, e \in Endpoints :
          /\ Both(M!SavePush(mem, e, c.deviceId), D!SavePush(db, e, c.deviceId), c.userId)
          /\ Keeps
  BY DEF SubscribePush
<1>2. /\ Alike(mem, db, spent) /\ clock \in Times /\ Soon \in Times /\ Later \in Times
      /\ Admin \in DOMAIN db.users /\ Admin \in Users
  BY Deadlines
<1>3. c.deviceId \in DOMAIN db.devices
  BY <1>1, SignedExist
<1> DEFINE r == M!SavePush(mem, e, c.deviceId)
           s == D!SavePush(db, e, c.deviceId)
<1>4. Goes(mem, db, r.to, s.to, spent, {}) /\ r.says = s.says
  BY <1>1, <1>2, <1>3, SavePushGoes
<1>5. Both(r, s, c.userId) /\ Takes({})
  BY <1>1, KeepsTakesNone
<1> HIDE DEF r, s
<1> QED
  BY <1>4, <1>5, GoesOn

LEMMA EndpointGoneKeeps ==
    ASSUME Sound, EndpointGone
    PROVE  Sound'
<1>1. PICK e \in DOMAIN db.pushes :
          /\ Both(M!DeletePush(mem, e), D!DeletePush(db, e), NoOne)
          /\ Keeps
  BY DEF EndpointGone
<1>2. /\ Alike(mem, db, spent) /\ clock \in Times /\ Soon \in Times /\ Later \in Times
      /\ Admin \in DOMAIN db.users /\ Admin \in Users
  BY Deadlines
<1> DEFINE r == M!DeletePush(mem, e)
           s == D!DeletePush(db, e)
<1>3. Goes(mem, db, r.to, s.to, spent, {}) /\ r.says = s.says
  BY <1>1, <1>2, DeletePushGoes
<1>4. Both(r, s, NoOne) /\ Takes({})
  BY <1>1, KeepsTakesNone
<1> HIDE DEF r, s
<1> QED
  BY <1>3, <1>4, GoesOn

LEMMA RequestUploadKeeps ==
    ASSUME Sound, RequestUpload
    PROVE  Sound'
<1>1. PICK u \in Callers, x \in Ids(Uploads) :
          /\ Logged(M!CreateUpload(mem, x, u), D!CreateUpload(db, x, u), u, u)
          /\ Takes({x})
  BY DEF RequestUpload
<1>2. /\ Alike(mem, db, spent) /\ clock \in Times /\ Soon \in Times /\ Later \in Times
      /\ Admin \in DOMAIN db.users /\ Admin \in Users
  BY Deadlines
<1>3. u \in DOMAIN db.users
  BY <1>1, SignedExist
<1>4. x \in Uploads /\ x \notin spent
  BY <1>1, FreshId
<1>5. u \in Users
  BY <1>2, <1>3 DEF Alike, UsersAlike, Tab
<1> DEFINE r == M!CreateUpload(mem, x, u)
           s == D!CreateUpload(db, x, u)
<1>6. Goes(mem, db, r.to, s.to, spent, {x}) /\ r.says = s.says
  BY <1>1, <1>2, <1>3, <1>4, <1>5, CreateUploadGoes
<1>7. Logged(r, s, u, u) /\ Takes({x})
  BY <1>1
<1>8. u \in DOMAIN s.to.users /\ u \in Users
  BY <1>1, <1>2, <1>3, <1>4, <1>5, AskedUsers
<1> HIDE DEF r, s
<1>9. \A y \in {x} : y \notin spent
  BY <1>1, FreshId
<1> QED
  BY <1>6, <1>7, <1>8, <1>9, LoggedOn

LEMMA DecideUploadKeeps ==
    ASSUME Sound, DecideUpload
    PROVE  Sound'
<1>1. PICK a \in AdminCallers, x \in Uploads \cap known,
          verdict \in ({"approved"} \X Sizes) \cup {<<"denied", NoOne>>} :
          /\ Logged(M!DecideUpload(mem, x, a, verdict[1], verdict[2]),
                    D!DecideUpload(db, x, a, verdict[1], verdict[2]), a, a)
          /\ Keeps
  BY DEF DecideUpload
<1>2. /\ Alike(mem, db, spent) /\ clock \in Times /\ Soon \in Times /\ Later \in Times
      /\ Admin \in DOMAIN db.users /\ Admin \in Users
  BY Deadlines
<1>3. a = Admin
  BY <1>1, SignedExist
<1>4. /\ verdict[1] \in {"approved", "denied"} /\ verdict[2] \in Sizes \cup {NoOne}
      /\ verdict[1] = "approved" => verdict[2] \in Sizes
  BY <1>1
<1> DEFINE r == M!DecideUpload(mem, x, Admin, verdict[1], verdict[2])
           s == D!DecideUpload(db, x, Admin, verdict[1], verdict[2])
<1>5. Goes(mem, db, r.to, s.to, spent, {}) /\ r.says = s.says
  BY <1>1, <1>2, <1>3, <1>4, DecideUploadGoes
<1>6. Logged(r, s, Admin, Admin) /\ Takes({})
  BY <1>1, KeepsTakesNone, <1>3
<1>7. Admin \in DOMAIN s.to.users
  BY <1>5 DEF Goes, Alike, UsersAlike
<1> HIDE DEF r, s
<1> QED
  BY <1>5, <1>6, <1>7, <1>2, LoggedOn

LEMMA UploadIntentKeeps ==
    ASSUME Sound, UploadIntent
    PROVE  Sound'
<1>1. PICK u \in Callers, b \in Ids(Blobs), n \in Sizes :
          /\ Both(M!CreatePendingBlob(mem, b, u, n, clock),
                  D!CreatePendingBlob(db, b, u, n, clock), u)
          /\ Takes({b})
  BY DEF UploadIntent
<1>2. /\ Alike(mem, db, spent) /\ clock \in Times /\ Soon \in Times /\ Later \in Times
      /\ Admin \in DOMAIN db.users /\ Admin \in Users
  BY Deadlines
<1>3. u \in DOMAIN db.users
  BY <1>1, SignedExist
<1>4. b \in Blobs /\ b \notin spent
  BY <1>1, FreshId
<1> DEFINE r == M!CreatePendingBlob(mem, b, u, n, clock)
           s == D!CreatePendingBlob(db, b, u, n, clock)
<1>5. Goes(mem, db, r.to, s.to, spent, {b}) /\ r.says = s.says
  BY <1>1, <1>2, <1>3, <1>4, CreatePendingBlobGoes
<1>6. Both(r, s, u) /\ Takes({b})
  BY <1>1
<1> HIDE DEF r, s
<1>7. \A x \in {b} : x \notin spent
  BY <1>1, FreshId
<1> QED
  BY <1>5, <1>6, <1>7, GoesOn

LEMMA CommitUploadKeeps ==
    ASSUME Sound, CommitUpload
    PROVE  Sound'
<1>1. PICK u \in Callers, b \in DOMAIN db.blobs, x \in Ids(Items), n \in Sizes :
          /\ D!GetBlob(db, b).owner = u /\ D!GetBlob(db, b).state = "pending"
          /\ Both(M!CommitBlobAndItem(mem, b, u, n, x, Soon, Keep(u)),
                  D!CommitBlobAndItem(db, b, u, n, x, Soon, Keep(u)), u)
          /\ Takes({x})
  BY DEF CommitUpload
<1>2. /\ Alike(mem, db, spent) /\ clock \in Times /\ Soon \in Times /\ Later \in Times
      /\ Admin \in DOMAIN db.users /\ Admin \in Users
  BY Deadlines
<1>3. u \in DOMAIN db.users
  BY <1>1, SignedExist
<1>4. x \in Items /\ x \notin spent
  BY <1>1, FreshId
<1>5. Keep(u) \in BOOLEAN
  BY <1>2, <1>3, KeepIsFlag
<1>6. PICK pinned \in BOOLEAN : pinned = Keep(u)
  BY <1>5
<1>7. b \in Waiting(db, u)
  BY <1>1 DEF D!GetBlob, D!Seek, Waiting
<1> DEFINE r == M!CommitBlobAndItem(mem, b, u, n, x, Soon, pinned)
           s == D!CommitBlobAndItem(db, b, u, n, x, Soon, pinned)
<1>8. Goes(mem, db, r.to, s.to, spent, {x}) /\ r.says = s.says
  BY <1>2, <1>3, <1>4, <1>7, CommitBlobAndItemGoes
<1>9. Both(r, s, u) /\ Takes({x})
  BY <1>1, <1>6
<1> HIDE DEF r, s
<1>10. \A y \in {x} : y \notin spent
  BY <1>4
<1> QED
  BY <1>8, <1>9, <1>10, GoesOn

LEMMA PruneKeeps ==
    ASSUME Sound, Prune
    PROVE  Sound'
<1>1. Both(M!Prune(mem, clock), D!Prune(db, clock), NoOne) /\ Keeps
  BY DEF Prune
<1>2. /\ Alike(mem, db, spent) /\ clock \in Times /\ Soon \in Times /\ Later \in Times
      /\ Admin \in DOMAIN db.users /\ Admin \in Users
  BY Deadlines
<1> DEFINE r == M!Prune(mem, clock)
           s == D!Prune(db, clock)
<1>3. Goes(mem, db, r.to, s.to, spent, {}) /\ r.says = s.says
  BY <1>1, <1>2, PruneGoes
<1>4. Both(r, s, NoOne) /\ Takes({})
  BY <1>1, KeepsTakesNone
<1> HIDE DEF r, s
<1> QED
  BY <1>3, <1>4, GoesOn

\* Ids of one table are not ids of another.
LEMMA Apart ==
    /\ \A x \in Users : x \notin Devices /\ x \notin Tokens
    /\ \A x \in Devices : x \notin Tokens
<1>1. Users \cap Devices = {}
  BY IdsAssumption
<1>2. Users \cap Tokens = {}
  BY IdsAssumption
<1>3. Devices \cap Tokens = {}
  BY IdsAssumption
<1> QED
  BY <1>1, <1>2, <1>3

\* Whoever registered is there.
LEMMA RegisteredUsers ==
    ASSUME NEW m, NEW d, NEW ids, Alike(m, d, ids), NEW i, NEW u, NEW h, NEW v, NEW t, NEW e, NEW now,
           D!CompleteRegistration(d, i, u, h, v, t, e, now).says[1] = "ok"
    PROVE  u \in DOMAIN D!CompleteRegistration(d, i, u, h, v, t, e, now).to.users
<1> DEFINE s == D!CompleteRegistration(d, i, u, h, v, t, e, now)
<1>1. PICK d0 : d0 = [[d EXCEPT !.users = D!With(@, u, D!NewUser(h, FALSE))]
                        EXCEPT !.invites[i] = [@ EXCEPT !.redeemedBy = u, !.redeemed = TRUE]]
  OBVIOUS
<1>2. s = D!AddDeviceAndSession(d0, u, v, t, e)
  BY <1>1, Shared DEF D!CompleteRegistration, Answer
<1>3. s.says[1] = "ok"
  OBVIOUS
<1> HIDE DEF s
<1>4. d0.users = D!With(d.users, u, D!NewUser(h, FALSE)) /\ DbShape(d0)
  <2>1. DbShape(d)
    BY DEF Alike
  <2> QED
    BY <1>1, <2>1 DEF DbShape
<1>5. u \in DOMAIN d0.users
  BY <1>4, Shared DEF With
<1>6. D!AddDeviceAndSession(d0, u, v, t, e).to.users = d0.users
  BY <1>4, Shared DEF D!AddDeviceAndSession, D!Commit, D!Rolled, D!Answer, Answer,
     D!InsertSession, D!InsertDevice, DbShape
<1> QED
  BY <1>2, <1>5, <1>6 DEF s

LEMMA RegisterVerifyKeeps ==
    ASSUME Sound, RegisterVerify
    PROVE  Sound'
<1>1. PICK i \in Invites \cap known, h \in Handles, u \in Ids(Users), v \in Ids(Devices),
           t \in Ids(Tokens) :
          /\ Logged(M!CompleteRegistration(mem, i, u, h, v, t, Later, clock),
                    D!CompleteRegistration(db, i, u, h, v, t, Later, clock), u, u)
          /\ Takes({u, v, t})
  BY DEF RegisterVerify
<1>2. Alike(mem, db, spent) /\ Later \in Times
  BY Deadlines
<1>3. /\ u \in Users /\ v \in Devices /\ t \in Tokens /\ h \in Handles
      /\ u \notin spent /\ v \notin spent /\ t \notin spent
  BY <1>1, FreshId
<1>4. v # u /\ t # u
  BY <1>3, Apart
<1> DEFINE r == M!CompleteRegistration(mem, i, u, h, v, t, Later, clock)
           s == D!CompleteRegistration(db, i, u, h, v, t, Later, clock)
<1>5. Goes(mem, db, r.to, s.to, spent, {u, v, t}) /\ r.says = s.says
  <2>1. Alike(mem, db, spent) /\ Later \in Times
    BY <1>2
  <2>2. u \in Users /\ v \in Devices /\ t \in Tokens /\ h \in Handles
    BY <1>3
  <2>3. u \notin spent /\ v \in Spare(Devices, spent, u) /\ t \in Spare(Tokens, spent, u)
    BY <1>3, <1>4 DEF Spare
  <2>4. GoesSame(mem, db, r, s, spent, {u} \cup {v, t})
    BY <2>1, <2>2, <2>3, CompleteRegistrationGoes
  <2>5. {u} \cup {v, t} = {u, v, t}
    OBVIOUS
  <2> QED
    BY <2>4, <2>5 DEF GoesSame
<1>6. Logged(r, s, u, u) /\ Takes({u, v, t})
  BY <1>1
<1>7. s.says[1] = "ok" => u \in DOMAIN s.to.users
  BY <1>2, RegisteredUsers
<1> HIDE DEF r, s
<1>8. \A x \in {u, v, t} : x \notin spent
  BY <1>3
<1>9. u \in Users \cup {NoOne} /\ (r.says[1] = "ok" => u \in DOMAIN s.to.users \cup {NoOne})
  BY <1>3, <1>5, <1>7
<1> QED
  BY <1>5, <1>6, <1>8, <1>9, LoggedOn

LEMMA PostWrapKeeps ==
    ASSUME Sound, PostWrap
    PROVE  Sound'
<1>1. PICK u \in Callers, p \in Pairings \cap known :
          /\ Both(M!SavePairingWrap(mem, p, u), D!SavePairingWrap(db, p, u), Whose(p))
          /\ Keeps
  BY DEF PostWrap
<1>2. Alike(mem, db, spent) /\ u \in DOMAIN db.users
  BY <1>1, Deadlines, SignedExist
<1> DEFINE r == M!SavePairingWrap(mem, p, u)
           s == D!SavePairingWrap(db, p, u)
<1>3. Both(r, s, Whose(p)) /\ Takes({})
  BY <1>1, KeepsTakesNone
<1>4. CASE p \in DOMAIN mem.pairings => p \in DOMAIN db.pairings
  <2>1. Goes(mem, db, r.to, s.to, spent, {}) /\ r.says = s.says
    BY <1>2, <1>4, SavePairingWrapGoes
  <2> HIDE DEF r, s
  <2> QED
    BY <1>3, <2>1, GoesOn
<1>5. CASE p \in DOMAIN mem.pairings /\ p \notin DOMAIN db.pairings
  <2>1. p \in DOMAIN mem.pairings \ DOMAIN db.pairings
    BY <1>5
  <2>2. /\ Goes(mem, db, r.to, s.to, spent, {})
        /\ mem.pairings[p].user \notin DOMAIN db.users \cup {NoOne}
    BY <1>2, <2>1, SavePairingWrapLeft
  <2>3. s.to = db
    BY <1>5, Shared DEF D!SavePairingWrap, Answer
  <2>4. Whose(p) \notin DOMAIN s.to.users \cup {NoOne}
    BY <1>5, <2>2, <2>3 DEF Whose
  <2> HIDE DEF r, s
  <2> QED
    BY <1>3, <2>2, <2>4, GoesOn
<1> QED
  BY <1>4, <1>5

\* A passkey that comes for a member who is gone: memory keeps it, apart.
LEMMA LateDevice ==
    ASSUME NEW m, NEW d, NEW ids, Alike(m, d, ids), NEW u \in (Users \cap ids) \ DOMAIN d.users,
           NEW v \in Devices, NEW t \in Tokens, v \notin ids, t \notin ids, NEW e \in Times
    PROVE  /\ Alike(M!AddDeviceAndSession(m, u, v, t, e).to, d, ids \cup {v, t})
           /\ Left(M!AddDeviceAndSession(m, u, v, t, e).to, d) \subseteq Left(m, d) \cup {v}
<1> DEFINE r == M!AddDeviceAndSession(m, u, v, t, e)
           dev == [user |-> u, revoked |-> FALSE]
           ses == [device |-> v, expires |-> e]
<1>1. MemBut(r.to, m, {"devices", "sessions"}) /\
      r.to.devices = With(m.devices, v, dev) /\
      r.to.sessions = With(m.sessions, t, ses)
  BY Shared DEF Alike, M!AddDevice, M!AddSession, M!AddDeviceAndSession, M!Answer, Answer,
     MemShape, MemBut, MemFields
<1> HIDE DEF r
<1>2. dev \in DeviceRows /\ dev.user = u /\ ses \in SessionRows /\ ses.device = v
  BY DEF DeviceRows, SessionRows
<1> HIDE DEF dev, ses
<1>3. Alike(m, d, ids \cup {v, t})
  BY Wider
<1>4. DevicesAlike(r.to.devices, d.devices, DOMAIN d.users, ids \cup {v, t})
  <2>1. DevicesAlike(m.devices, d.devices, DOMAIN d.users, ids)
    BY DEF Alike
  <2>2. Tab(r.to.devices, Devices, DeviceRows)
    BY <1>1, <1>2, <2>1, WithTab DEF DevicesAlike
  <2> QED
    BY <1>1, <1>2, <2>1, <2>2 DEF DevicesAlike, With
<1>5. SessionsAlike(r.to.sessions, d.sessions, DOMAIN d.devices, ids \cup {v, t})
  <2>1. SessionsAlike(m.sessions, d.sessions, DOMAIN d.devices, ids) /\ v \notin DOMAIN d.devices
    BY DEF Alike, DevicesAlike
  <2>2. Tab(r.to.sessions, Tokens, SessionRows)
    BY <1>1, <1>2, <2>1, WithTab DEF SessionsAlike
  <2> QED
    BY <1>1, <1>2, <2>1, <2>2 DEF SessionsAlike, With
<1>6. Alike(r.to, d, ids \cup {v, t})
  BY <1>1, <1>3, <1>4, <1>5 DEF Alike, MemBut, MemFields
<1>7. Left(r.to, d) \subseteq Left(m, d) \cup {v}
  BY <1>1 DEF Left, With
<1> QED
  BY <1>6, <1>7 DEF r

LEMMA RecoveryRegisterVerifyKeeps ==
    ASSUME Sound, RecoveryRegisterVerify
    PROVE  Sound'
<1>1. PICK u \in sealed, v \in Ids(Devices), t \in Ids(Tokens) :
          /\ Both(M!AddDeviceAndSession(mem, u, v, t, Later),
                  D!AddDeviceAndSession(db, u, v, t, Later), u)
          /\ Takes({v, t})
  BY DEF RecoveryRegisterVerify
<1>2. Alike(mem, db, spent) /\ Later \in Times
  BY Deadlines
<1>3. v \in Devices /\ t \in Tokens /\ v \notin spent /\ t \notin spent
  BY <1>1, FreshId
<1> DEFINE r == M!AddDeviceAndSession(mem, u, v, t, Later)
           s == D!AddDeviceAndSession(db, u, v, t, Later)
<1>4. Both(r, s, u) /\ Takes({v, t})
  BY <1>1
<1>5. \A x \in {v, t} : x \notin spent
  BY <1>3
<1>6. CASE u \in DOMAIN db.users
  <2>1. Goes(mem, db, r.to, s.to, spent, {v, t}) /\ r.says = s.says
    BY <1>2, <1>3, <1>6, AddDeviceAndSessionGoes
  <2> HIDE DEF r, s
  <2> QED
    BY <1>4, <1>5, <2>1, GoesOn
<1>7. CASE u \notin DOMAIN db.users
  <2>1. u \in (Users \cap spent) \ DOMAIN db.users /\ u # NoOne
    BY <1>7, RowsAssumption DEF Sound
  <2>2. s.to = db
    BY <1>7, Shared DEF D!AddDeviceAndSession, D!Commit, D!Rolled, Answer
  <2>3. Alike(r.to, db, spent \cup {v, t}) /\ Left(r.to, db) \subseteq Left(mem, db) \cup {v}
    BY <1>2, <1>3, <2>1, LateDevice
  <2> HIDE DEF r, s
  <2>4. v \notin Named(db) /\ Named(db) \subseteq known \cup {v, t}
    BY <1>3 DEF Sound
  <2>5. Left(r.to, s.to) \subseteq Left(mem, db) \cup ({v, t} \ Named(s.to))
    BY <2>2, <2>3, <2>4
  <2>6. Alike(r.to, s.to, spent \cup {v, t}) /\ Named(s.to) \subseteq known \cup {v, t}
    BY <2>2, <2>3, <2>4
  <2>7. u \notin DOMAIN s.to.users \cup {NoOne}
    BY <2>1, <2>2
  <2> QED
    BY <1>4, <1>5, <2>5, <2>6, <2>7, StaysSound
<1> QED
  BY <1>6, <1>7

LEMMA PairingRegisterVerifyKeeps ==
    ASSUME Sound, PairingRegisterVerify
    PROVE  Sound'
<1>1. PICK p \in Pairings \cap known, v \in Ids(Devices), t \in Ids(Tokens) :
          LET u == Whose(p)
              stored == M!AddDeviceAndSession(mem, u, v, t, Later)
              inserted == D!AddDeviceAndSession(db, u, v, t, Later)
          IN  /\ u # NoOne
              /\ Both(Answer(M!DeletePairing(stored.to, p).to, stored.says),
                      IF p \notin DOMAIN db.pairings THEN Answer(db, <<"missing">>)
                      ELSE Answer(D!DeletePairing(inserted.to, p).to, inserted.says), u)
              /\ Takes({v, t})
  BY DEF PairingRegisterVerify
<1>2. Alike(mem, db, spent) /\ Later \in Times
  BY Deadlines
<1>3. v \in Devices /\ t \in Tokens /\ v \notin spent /\ t \notin spent
  BY <1>1, FreshId
<1> DEFINE u == Whose(p)
           stored == M!AddDeviceAndSession(mem, u, v, t, Later)
           inserted == D!AddDeviceAndSession(db, u, v, t, Later)
           r == Answer(M!DeletePairing(stored.to, p).to, stored.says)
           s == Answer(D!DeletePairing(inserted.to, p).to, inserted.says)
<1>4. u # NoOne /\ Takes({v, t}) /\
      Both(r, IF p \notin DOMAIN db.pairings THEN Answer(db, <<"missing">>) ELSE s, u)
  BY <1>1
<1>5. \A x \in {v, t} : x \notin spent
  BY <1>3
<1>6. p \in DOMAIN mem.pairings /\ u = mem.pairings[p].user
  BY <1>4 DEF Whose
<1> HIDE DEF u
<1>7. CASE p \in DOMAIN db.pairings
  <2>1. u \in DOMAIN db.users
    <3>1. mem.pairings[p] = D!Record(db.pairings[p]) /\ db.pairings[p].user \in DOMAIN db.users \cup {NoOne}
      BY <1>2, <1>7 DEF Alike, PairingsAlike
    <3> QED
      BY <1>4, <1>6, <3>1 DEF D!Record
  <2>2. Goes(mem, db, stored.to, inserted.to, spent, {v, t}) /\ stored.says = inserted.says
    BY <1>2, <1>3, <2>1, AddDeviceAndSessionGoes
  <2> HIDE DEF stored, inserted
  <2>3. Goes(stored.to, inserted.to, M!DeletePairing(stored.to, p).to,
             D!DeletePairing(inserted.to, p).to, spent \cup {v, t}, {})
    BY <2>2, DeletePairingGoes DEF Goes
  <2>4. Goes(mem, db, r.to, s.to, spent, {v, t} \cup {})
    BY <2>2, <2>3, GoesThen DEF Answer
  <2>5. r.says = s.says
    BY <2>2 DEF Answer
  <2>6. Both(r, s, u)
    BY <1>4, <1>7
  <2>7. Goes(mem, db, r.to, s.to, spent, {v, t})
    BY <2>4
  <2> HIDE DEF r, s
  <2> QED
    BY <1>4, <1>5, <2>5, <2>6, <2>7, GoesOn
<1>8. CASE p \notin DOMAIN db.pairings
  <2> DEFINE miss == Answer(db, <<"missing">>)
  <2>1. u \in (Users \cap spent) \ DOMAIN db.users
    BY <1>2, <1>6, <1>8 DEF Alike, PairingsAlike
  <2>2. Alike(stored.to, db, spent \cup {v, t}) /\ Left(stored.to, db) \subseteq Left(mem, db) \cup {v}
    BY <1>2, <1>3, <2>1, LateDevice
  <2> HIDE DEF stored
  <2>3. Goes(stored.to, db, M!DeletePairing(stored.to, p).to, D!DeletePairing(db, p).to, spent \cup {v, t}, {})
    BY <2>2, DeletePairingGoes
  <2>4. D!DeletePairing(db, p).to = db
    <3>1. DbShape(db) /\ db.pairings = [x \in DOMAIN db.pairings |-> db.pairings[x]]
      BY <1>2 DEF Alike, PairingsAlike, Tab
    <3>2. D!Without(db.pairings, {p}) = db.pairings
      BY <1>8, <3>1 DEF D!Without
    <3> QED
      BY <3>1, <3>2 DEF D!DeletePairing, D!Answer, DbShape
  <2>5. Alike(r.to, db, spent \cup {v, t}) /\ Left(r.to, db) \subseteq Left(mem, db) \cup {v}
    <3>1. (spent \cup {v, t}) \cup {} = spent \cup {v, t} /\ r.to = M!DeletePairing(stored.to, p).to
      BY DEF Answer
    <3> QED
      BY <2>2, <2>3, <2>4, <3>1 DEF Goes
  <2>6. Both(r, miss, u) /\ miss.to = db
    BY <1>4, <1>8 DEF Answer
  <2> HIDE DEF r, miss
  <2>7. v \notin Named(db) /\ Named(db) \subseteq known \cup {v, t}
    BY <1>3 DEF Sound
  <2>8. Left(r.to, miss.to) \subseteq Left(mem, db) \cup ({v, t} \ Named(miss.to))
    BY <2>5, <2>6, <2>7
  <2>9. Alike(r.to, miss.to, spent \cup {v, t}) /\ Named(miss.to) \subseteq known \cup {v, t}
    BY <2>5, <2>6, <2>7
  <2>10. u \notin DOMAIN miss.to.users \cup {NoOne}
    BY <1>4, <2>1, <2>6
  <2> QED
    BY <1>4, <1>5, <2>6, <2>8, <2>9, <2>10, StaysSound
<1> QED
  BY <1>7, <1>8

LEMMA CreateItemKeeps ==
    ASSUME Sound, CreateItem
    PROVE  Sound'
<1> DEFINE Row(u) == [owner |-> u, kind |-> "text", blob |-> NoOne, size |-> 1,
                      pinned |-> Keep(u), expires |-> Soon]
<1>1. PICK u \in Callers, x \in Ids(Items) \cup (Items \cap known) :
          /\ Both(M!CreateItem(mem, u, x, Row(u)), D!CreateItem(db, u, x, Row(u)), u)
          /\ IF x \in known THEN Keeps ELSE Takes({x})
  BY DEF CreateItem
<1>2. Alike(mem, db, spent) /\ Soon \in Times /\ u \in DOMAIN db.users /\ x \in Items
  BY <1>1, Deadlines, SignedExist, FreshId
<1>3. PICK row : row = Row(u)
  OBVIOUS
<1>4. row \in ItemRows /\ row.blob = NoOne
  <2>1. u \in Users
    BY <1>2 DEF Alike, UsersAlike, Tab
  <2>2. Keep(u) \in BOOLEAN
    BY <1>2, KeepIsFlag
  <2> QED
    BY <1>2, <1>3, <2>1, <2>2, RowsAssumption DEF ItemRows
<1> DEFINE r == M!CreateItem(mem, u, x, row)
           s == D!CreateItem(db, u, x, row)
<1>5. Both(r, s, u) /\ IF x \in known THEN Keeps ELSE Takes({x})
  BY <1>1, <1>3
<1> HIDE DEF Row
<1>6. Goes(mem, db, r.to, s.to, spent, {x}) /\ r.says = s.says
  BY <1>2, <1>4, CreateItemGoes
<1> HIDE DEF r, s
<1>7. CASE x \in known
  <2>1. spent \cup {x} = spent \cup {} /\ Named(db) \cup {x} \subseteq known \cup {}
    BY <1>7 DEF Sound
  <2>2. Alike(r.to, s.to, spent \cup {}) /\ Named(s.to) \subseteq known \cup {}
    BY <1>6, <2>1 DEF Goes
  <2>3. Left(r.to, s.to) \subseteq Left(mem, db) \cup ({} \ Named(s.to))
    BY <1>6 DEF Goes
  <2>4. Both(r, s, u) /\ Takes({})
    BY <1>5, <1>7, KeepsTakesNone
  <2> QED
    BY <1>6, <2>2, <2>3, <2>4, StaysSound
<1>8. CASE x \notin known
  <2>1. \A y \in {x} : y \notin spent
    BY <1>1, <1>8, FreshId
  <2>2. Both(r, s, u) /\ Takes({x})
    BY <1>5, <1>8
  <2> QED
    BY <1>6, <2>1, <2>2, GoesOn
<1> QED
  BY <1>7, <1>8

-----------------------------------------------------------------------------
(* Where a run starts.                                                     *)

LEMMA FirstIds ==
    ASSUME "settled" \in Starts
    PROVE  /\ Handle \in Handles /\ Other \in Handles /\ Handle # Other
           /\ Member \in Users /\ Member # Admin
           /\ dev1 \in Devices /\ dev2 \in Devices /\ dev1 # dev2
           /\ tok1 \in Tokens /\ tok2 \in Tokens /\ tok1 # tok2
           /\ inv1 \in Invites /\ inv2 \in Invites /\ inv1 # inv2
           /\ note \in Items /\ pair \in Pairings /\ req \in Uploads /\ file \in Blobs
           /\ Nth(Codes) \in Codes
<1>1. ASSUME NEW pool, \E x, y \in pool : x # y
      PROVE  Nth(pool) \in pool /\ Second(pool) \in pool /\ Nth(pool) # Second(pool)
  <2>1. Nth(pool) \in pool
    BY <1>1 DEF Nth
  <2>2. \E x \in pool : x # Nth(pool)
    BY <1>1
  <2> QED
    BY <2>1, <2>2 DEF Second
<1>2. \A pool \in {Handles, Devices, Tokens, Invites} : \E x, y \in pool : x # y
  BY StartsAssumption
<1>3. ASSUME NEW pool, pool # {}
      PROVE  Nth(pool) \in pool
  BY <1>3 DEF Nth
<1>4. Handle \in Handles /\ Other \in Handles /\ Handle # Other
  BY <1>1, <1>2 DEF Handle, Other
<1>5. dev1 \in Devices /\ dev2 \in Devices /\ dev1 # dev2
  BY <1>1, <1>2 DEF dev1, dev2
<1>6. tok1 \in Tokens /\ tok2 \in Tokens /\ tok1 # tok2
  BY <1>1, <1>2 DEF tok1, tok2
<1>7. inv1 \in Invites /\ inv2 \in Invites /\ inv1 # inv2
  BY <1>1, <1>2 DEF inv1, inv2
<1>8. /\ Users \ {Admin} # {} /\ Items # {} /\ Pairings # {} /\ Codes # {}
      /\ Uploads # {} /\ Blobs # {}
  BY StartsAssumption
<1>9. Member \in Users \ {Admin}
  BY <1>3, <1>8 DEF Member
<1>10. note \in Items /\ pair \in Pairings /\ req \in Uploads /\ file \in Blobs /\ Nth(Codes) \in Codes
  BY <1>3, <1>8 DEF note, pair, req, file
<1> QED
  BY <1>4, <1>5, <1>6, <1>7, <1>9, <1>10

\* Ids of two tables are never the same.
LEMMA Disjoint ==
    /\ \A x \in Users : /\ x \notin Invites /\ x \notin Devices /\ x \notin Tokens
                        /\ x \notin Pairings /\ x \notin Blobs
    /\ \A x \in Invites : /\ x \notin Devices /\ x \notin Tokens
                          /\ x \notin Pairings /\ x \notin Blobs
    /\ \A x \in Devices : x \notin Tokens /\ x \notin Pairings /\ x \notin Blobs
    /\ \A x \in Tokens : x \notin Pairings /\ x \notin Blobs
    /\ \A x \in Items : x \notin Pairings /\ x \notin Blobs
    /\ \A x \in Pairings : x \notin Blobs
    /\ \A x \in Uploads : x \notin Blobs
<1>1. /\ Users \cap Invites = {} /\ Users \cap Devices = {} /\ Users \cap Tokens = {}
      /\ Users \cap Pairings = {} /\ Users \cap Blobs = {}
  BY IdsAssumption
<1>2. /\ Invites \cap Devices = {} /\ Invites \cap Tokens = {}
      /\ Invites \cap Pairings = {} /\ Invites \cap Blobs = {}
  BY IdsAssumption
<1>3. /\ Devices \cap Tokens = {} /\ Devices \cap Pairings = {} /\ Devices \cap Blobs = {}
      /\ Tokens \cap Pairings = {} /\ Tokens \cap Blobs = {}
  BY IdsAssumption
<1>4. /\ Items \cap Pairings = {} /\ Pairings \cap Items = {} /\ Items \cap Blobs = {}
      /\ Pairings \cap Blobs = {} /\ Uploads \cap Blobs = {} /\ Blobs \cap Uploads = {}
  BY IdsAssumption
<1> QED
  BY <1>1, <1>2, <1>3, <1>4

\* Alike, with nothing left over, and every row has one of ids.
Settling(m, d, ids) == Alike(m, d, ids) /\ Named(d) \subseteq ids /\ Left(m, d) = {}

LEMMA SettlingOn ==
    ASSUME NEW m, NEW d, NEW ids, NEW m1, NEW d1, NEW new,
           Settling(m, d, ids), Goes(m, d, m1, d1, ids, new)
    PROVE  Settling(m1, d1, ids \cup new)
  BY DEF Settling, Goes

LEMMA SettlingStays ==
    ASSUME NEW m, NEW d, NEW ids, NEW m1, NEW d1,
           Settling(m, d, ids), Goes(m, d, m1, d1, ids, {})
    PROVE  Settling(m1, d1, ids)
<1>1. ids \cup {} = ids
  OBVIOUS
<1> QED
  BY <1>1, SettlingOn

\* The log is written on both stores.
LEMMA AuditGoes ==
    ASSUME NEW m, NEW d, NEW ids, Alike(m, d, ids), NEW u \in DOMAIN d.users
    PROVE  Goes(m, d, M!InsertAudit(m, u).to, D!InsertAudit(d, u).to, ids, {})
<1> DEFINE r == Answer(m, <<"ok">>)
           s == Answer(d, <<"ok">>)
<1>1. r.to = m /\ s.to = d /\ r.says = s.says /\ r.says[1] = "ok" /\ s.says[1] = "ok"
  BY DEF Answer
<1>2. MLogged(r, u).to = M!InsertAudit(m, u).to /\ DLogged(s, u).to = D!InsertAudit(d, u).to
  BY <1>1 DEF MLogged, DLogged, Answer
<1>3. u \in Users \cup {NoOne} /\ u \in DOMAIN s.to.users \cup {NoOne}
  BY <1>1 DEF Alike, UsersAlike, Tab
<1> HIDE DEF r, s
<1>4. Goes(m, d, r.to, s.to, ids, {})
  BY <1>1, GoesNowhere
<1>5. Goes(m, d, MLogged(r, u).to, DLogged(s, u).to, ids, {})
  BY <1>1, <1>3, <1>4, LoggedGoes
<1> QED
  BY <1>2, <1>5

\* What the migration leaves.
LEMMA SeededAlike == Settling(MSeeded, DSeeded, {Admin})
<1> DEFINE m == MSeeded
           d == DSeeded
           mrow == M!NewUser(Handle, TRUE)
           drow == D!NewUser(Handle, TRUE)
<1>1. Max(Sizes) \in Nat
  <2>1. PICK top \in Sizes : \A s \in Sizes : s <= top
    BY RowsAssumption
  <2>2. Max(Sizes) \in Sizes
    BY <2>1 DEF Max
  <2> QED
    BY <2>2, RowsAssumption
<1>2. Handle \in Handles
  BY StartsAssumption DEF Handle, Nth
<1>3. drow \in DbUsers /\ drow.admin = TRUE /\ drow.vault = FALSE /\
      mrow \in MemUsers /\ mrow = D!MapUser(drow)
  BY <1>1, <1>2, SharedCounts DEF D!NewUser, M!NewUser, D!MapUser, DbUsers, MemUsers
<1>4. /\ m.users = [x \in {Admin} |-> mrow] /\ d.users = [x \in {Admin} |-> drow]
      /\ MemShape(m) /\ DbShape(d) /\ m.vaults = {}
  BY DEF MSeeded, DSeeded, M!Fresh, D!Fresh, MemShape, DbShape, M!With, D!With, M!NoRows, D!NoRows
<1>5. \A f \in MemFields \ {"users", "vaults", "audit"} : DOMAIN m[f] = {} /\ m[f] = NoRows
  BY DEF MSeeded, M!Fresh, M!NoRows, NoRows, MemFields
<1>6. \A f \in DbFields \ {"users", "audit"} : DOMAIN d[f] = {} /\ d[f] = NoRows
  BY DEF DSeeded, D!Fresh, D!NoRows, NoRows, MemFields, DbFields
<1>7. m.audit = {} /\ d.audit = {}
  BY DEF MSeeded, DSeeded, M!Fresh, D!Fresh
<1> HIDE DEF m, d, mrow, drow
<1>8. UsersAlike(m.users, m.vaults, d.users, {Admin})
  BY <1>3, <1>4, RowsAssumption DEF UsersAlike, Tab
<1>9. \A K, S : Tab(NoRows, K, S) /\ DOMAIN NoRows = {}
  BY DEF Tab, NoRows
<1>10. InvitesAlike(m.invites, d.invites, DOMAIN d.users, {Admin}) /\ AsksAlike(m.asks, d.asks, {Admin})
  BY <1>5, <1>6, <1>9 DEF InvitesAlike, AsksAlike, MemFields, DbFields
<1>11. /\ DevicesAlike(m.devices, d.devices, DOMAIN d.users, {Admin})
       /\ SessionsAlike(m.sessions, d.sessions, DOMAIN d.devices, {Admin})
       /\ PushesAlike(m.pushes, d.pushes, DOMAIN d.devices, {Admin})
  BY <1>5, <1>6, <1>9 DEF DevicesAlike, SessionsAlike, PushesAlike, MemFields, DbFields
<1>12. /\ PairingsAlike(m.pairings, d.pairings, DOMAIN d.users, {Admin})
       /\ CodesAlike(m.codes, d.pairings, {Admin})
  BY <1>5, <1>6, <1>9 DEF PairingsAlike, CodesAlike, MemFields, DbFields
<1>13. /\ ItemsAlike(m.items, d.items, {Admin}) /\ BlobsAlike(m.blobs, d.blobs, {Admin})
       /\ Filed(d.items, d.blobs)
  BY <1>5, <1>6, <1>9 DEF ItemsAlike, BlobsAlike, Filed, MemFields, DbFields
<1>14. UploadsAlike(m.uploads, d.uploads, d.users, {Admin})
  <2>1. m.uploads = NoRows /\ d.uploads = NoRows
    BY <1>5, <1>6 DEF MemFields, DbFields
  <2>2. NoRows = [x \in DOMAIN NoRows |-> Joined(NoRows[x], d.users)]
    BY DEF NoRows
  <2> QED
    BY <1>9, <2>1, <2>2 DEF UploadsAlike
<1>15. AuditAlike(m.audit, d.audit)
  BY <1>7 DEF AuditAlike
<1>16. Alike(m, d, {Admin})
  BY <1>4, <1>8, <1>10, <1>11, <1>12, <1>13, <1>14, <1>15 DEF Alike
<1>17. Named(d) \subseteq {Admin} /\ Left(m, d) = {}
  BY <1>4, <1>5, <1>6 DEF Named, Left, MemFields, DbFields
<1> QED
  BY <1>16, <1>17 DEF Settling, m, d

\* What registering twice, inviting and writing the log lead to.
LEMMA JoinedAlike ==
    ASSUME "settled" \in Starts
    PROVE  /\ Settling(MJoined, DJoined, {Admin, Member, dev1, dev2, tok1, tok2, inv1, inv2})
           /\ Admin \in DOMAIN DJoined.users /\ Member \in DOMAIN DJoined.users
           /\ DOMAIN DJoined.pairings = {}
<1>1. PICK m0, d0 : m0 = MSeeded /\ d0 = DSeeded
  OBVIOUS
<1>2. PICK m1, d1 : /\ m1 = M!CompleteAdminEnroll(m0, Admin, dev1, tok1, 2).to
                    /\ d1 = D!CompleteAdminEnroll(d0, Admin, dev1, tok1, 2).to
  OBVIOUS
<1>3. PICK m2, d2 : /\ m2 = M!CreateInvite(m1, inv1, Admin, 1).to
                    /\ d2 = D!CreateInvite(d1, inv1, Admin, 1).to
  OBVIOUS
<1>4. PICK m3, d3 : /\ m3 = M!CreateInvite(m2, inv2, Admin, 1).to
                    /\ d3 = D!CreateInvite(d2, inv2, Admin, 1).to
  OBVIOUS
<1>5. PICK m4, d4 : /\ m4 = M!CompleteRegistration(m3, inv1, Member, Other, dev2, tok2, 2, 0).to
                    /\ d4 = D!CompleteRegistration(d3, inv1, Member, Other, dev2, tok2, 2, 0).to
  OBVIOUS
<1>6. PICK m5, d5 : m5 = M!SaveVault(m4, Member).to /\ d5 = D!SaveVault(d4, Member).to
  OBVIOUS
<1>7. PICK m6, d6 : m6 = M!InsertAudit(m5, Admin).to /\ d6 = D!InsertAudit(d5, Admin).to
  OBVIOUS
<1>8. MJoined = M!InsertAudit(m6, Member).to /\ DJoined = D!InsertAudit(d6, Member).to
  BY <1>1, <1>2, <1>3, <1>4, <1>5, <1>6, <1>7 DEF MJoined, DJoined
<1>9. 0 \in Times /\ 1 \in Times /\ 2 \in Times
  <2>1. 0 \in 0 .. MaxClock + 2 /\ 1 \in 0 .. MaxClock + 2 /\ 2 \in 0 .. MaxClock + 2
    BY RowsAssumption
  <2> QED
    BY <2>1, RowsAssumption
<1>10. /\ Handle \in Handles /\ Other \in Handles /\ Handle # Other
       /\ Member \in Users /\ Member # Admin /\ Admin \in Users
       /\ dev1 \in Devices /\ dev2 \in Devices /\ dev1 # dev2
       /\ tok1 \in Tokens /\ tok2 \in Tokens /\ tok1 # tok2
       /\ inv1 \in Invites /\ inv2 \in Invites /\ inv1 # inv2
  BY FirstIds, RowsAssumption
<1>20. /\ Settling(m0, d0, {Admin}) /\ DOMAIN d0.users = {Admin} /\ Admin \in DOMAIN d0.users
       /\ d0.users[Admin].handle = Handle /\ DOMAIN d0.pairings = {}
  <2>1. Settling(m0, d0, {Admin})
    BY <1>1, SeededAlike
  <2>2. d0.users = [x \in {Admin} |-> D!NewUser(Handle, TRUE)] /\ DOMAIN d0.pairings = {}
    BY <1>1 DEF DSeeded, D!Fresh, D!With, D!NoRows
  <2>3. D!NewUser(Handle, TRUE).handle = Handle
    BY DEF D!NewUser
  <2> QED
    BY <2>1, <2>2, <2>3
<1>21. Settling(m1, d1, {Admin} \cup {dev1, tok1}) /\ d1.users = d0.users /\ d1.pairings = d0.pairings
  <2>1. Alike(m0, d0, {Admin}) /\ DbShape(d0) /\ dev1 \notin {Admin} /\ tok1 \notin {Admin}
    BY <1>10, <1>20, Disjoint DEF Settling, Alike
  <2>2. Goes(m0, d0, m1, d1, {Admin}, {dev1, tok1})
    BY <1>2, <1>9, <1>10, <1>20, <2>1, CompleteAdminEnrollGoes
  <2>3. d1.users = d0.users /\ d1.pairings = d0.pairings
    BY <1>2, <2>1 DEF D!CompleteAdminEnroll, D!AddDeviceAndSession, D!Commit, D!Rolled, D!Answer,
       D!InsertSession, D!InsertDevice, DbShape
  <2> QED
    BY <1>20, <2>2, <2>3, SettlingOn
<1>22. /\ Settling(m2, d2, ({Admin} \cup {dev1, tok1}) \cup {inv1})
       /\ d2.users = d0.users /\ d2.pairings = d0.pairings
       /\ inv1 \in DOMAIN d2.invites /\ d2.invites[inv1].expires = 1
       /\ ~d2.invites[inv1].redeemed /\ ~d2.invites[inv1].revoked
       /\ d2.invites[inv1].by = Admin
  <2>1. Alike(m1, d1, {Admin} \cup {dev1, tok1}) /\ DbShape(d1) /\ Admin \in DOMAIN d1.users
    BY <1>20, <1>21 DEF Settling, Alike
  <2>2. Goes(m1, d1, m2, d2, {Admin} \cup {dev1, tok1}, {inv1})
    BY <1>3, <1>9, <1>10, <2>1, CreateInviteGoes
  <2> DEFINE row == [by |-> Admin, expires |-> 1, redeemedBy |-> NoOne,
                     redeemed |-> FALSE, revoked |-> FALSE]
  <2>3. /\ d2.users = d0.users /\ d2.pairings = d0.pairings
        /\ d2.invites = D!With(d1.invites, inv1, row)
    BY <1>3, <1>21, <2>1 DEF D!CreateInvite, D!Commit, D!Answer, DbShape
  <2> QED
    BY <1>21, <2>2, <2>3, SettlingOn DEF D!With
<1>23. /\ Settling(m3, d3, (({Admin} \cup {dev1, tok1}) \cup {inv1}) \cup {inv2})
       /\ d3.users = d0.users /\ d3.pairings = d0.pairings
       /\ inv1 \in DOMAIN d3.invites /\ d3.invites[inv1].expires = 1
       /\ ~d3.invites[inv1].redeemed /\ ~d3.invites[inv1].revoked
  <2> DEFINE ids == ({Admin} \cup {dev1, tok1}) \cup {inv1}
  <2>1. Alike(m2, d2, ids) /\ DbShape(d2) /\ Admin \in DOMAIN d2.users
    BY <1>20, <1>22 DEF Settling, Alike
  <2>4. Settling(m2, d2, ids)
    BY <1>22
  <2> HIDE DEF ids
  <2>2. Goes(m2, d2, m3, d3, ids, {inv2})
    BY <1>4, <1>9, <1>10, <2>1, CreateInviteGoes
  <2>5. Settling(m3, d3, ids \cup {inv2})
    BY <2>2, <2>4, SettlingOn
  <2> DEFINE row == [by |-> Admin, expires |-> 1, redeemedBy |-> NoOne,
                     redeemed |-> FALSE, revoked |-> FALSE]
  <2>3. /\ d3.users = d0.users /\ d3.pairings = d0.pairings
        /\ d3.invites = D!With(d2.invites, inv2, row)
    BY <1>4, <1>22, <2>1 DEF D!CreateInvite, D!Commit, D!Answer, DbShape
  <2> HIDE DEF row
  <2>6. inv1 \in DOMAIN d3.invites /\ d3.invites[inv1] = d2.invites[inv1]
    BY <1>10, <1>22, <2>3 DEF D!With
  <2> QED
    BY <1>22, <2>3, <2>5, <2>6 DEF ids
<1> DEFINE old == (({Admin} \cup {dev1, tok1}) \cup {inv1}) \cup {inv2}
<1>24. /\ Settling(m4, d4, old \cup ({Member} \cup {dev2, tok2}))
       /\ Admin \in DOMAIN d4.users /\ Member \in DOMAIN d4.users /\ DOMAIN d4.pairings = {}
  <2> DEFINE s == D!CompleteRegistration(d3, inv1, Member, Other, dev2, tok2, 2, 0)
             d3a == [[d3 EXCEPT !.users = D!With(@, Member, D!NewUser(Other, FALSE))]
                        EXCEPT !.invites[inv1] = [@ EXCEPT !.redeemedBy = Member, !.redeemed = TRUE]]
  <2>1. /\ Member \notin old /\ dev2 \in Spare(Devices, old, Member)
        /\ tok2 \in Spare(Tokens, old, Member)
    BY <1>10, Disjoint DEF Spare
  <2>2. Settling(m3, d3, old) /\ Alike(m3, d3, old) /\ DbShape(d3)
    BY <1>23 DEF Settling, Alike
  <2> HIDE DEF old
  <2>3. GoesSame(m3, d3, M!CompleteRegistration(m3, inv1, Member, Other, dev2, tok2, 2, 0),
                 D!CompleteRegistration(d3, inv1, Member, Other, dev2, tok2, 2, 0),
                 old, {Member} \cup {dev2, tok2})
    BY <1>9, <1>10, <2>1, <2>2, CompleteRegistrationGoes
  <2>4. Settling(m4, d4, old \cup ({Member} \cup {dev2, tok2}))
    <3>1. Goes(m3, d3, m4, d4, old, {Member} \cup {dev2, tok2})
      BY <1>5, <2>3 DEF GoesSame
    <3> QED
      BY <2>2, <3>1, SettlingOn
  <2>5. InviteState(Seek(d3.invites, inv1), 0) = "ok"
    <3>1. Seek(d3.invites, inv1) = d3.invites[inv1] /\ d3.invites[inv1] \in InviteRows
      BY <1>23, <2>2 DEF Seek, Alike, InvitesAlike, Tab
    <3>2. d3.invites[inv1] # NoOne
      BY <3>1, RowsAssumption DEF InviteRows
    <3> QED
      BY <1>23, <3>1, <3>2 DEF InviteState
  <2>6. D!ByHandle(d3, Other) = NoOne
    <3>1. {x \in DOMAIN d3.users : d3.users[x].handle = Other} = {}
      BY <1>10, <1>20, <1>23
    <3> QED
      BY <3>1 DEF D!ByHandle, D!Where
  <2>7. s = D!AddDeviceAndSession(d3a, Member, dev2, tok2, 2)
    BY <2>5, <2>6, Shared DEF D!CompleteRegistration
  <2>8. PICK da : da = d3a
    OBVIOUS
  <2>9. /\ DbShape(da) /\ da.pairings = d3.pairings
        /\ da.users = D!With(d3.users, Member, D!NewUser(Other, FALSE))
    BY <2>2, <2>8 DEF DbShape
  <2>10. D!AddDeviceAndSession(da, Member, dev2, tok2, 2).to.users = da.users /\
         D!AddDeviceAndSession(da, Member, dev2, tok2, 2).to.pairings = da.pairings
    BY <2>9 DEF D!AddDeviceAndSession, D!Commit, D!Rolled, D!Answer, D!InsertSession,
       D!InsertDevice, DbShape
  <2>11. d4.users = da.users /\ d4.pairings = da.pairings
    BY <1>5, <2>7, <2>8, <2>10
  <2>12. Admin \in DOMAIN d4.users /\ Member \in DOMAIN d4.users
    BY <1>20, <1>23, <2>9, <2>11 DEF D!With
  <2> QED
    BY <1>20, <1>23, <2>4, <2>9, <2>11, <2>12
<1>25. old \cup ({Member} \cup {dev2, tok2}) = {Admin, Member, dev1, dev2, tok1, tok2, inv1, inv2}
  OBVIOUS
<1> DEFINE now == {Admin, Member, dev1, dev2, tok1, tok2, inv1, inv2}
<1>26. Settling(m4, d4, now)
  BY <1>24, <1>25
<1> HIDE DEF now, old
<1>27. /\ Settling(m5, d5, now) /\ DOMAIN d5.users = DOMAIN d4.users
       /\ d5.pairings = d4.pairings
  <2>1. Alike(m4, d4, now) /\ DbShape(d4)
    BY <1>26 DEF Settling, Alike
  <2>2. Goes(m4, d4, m5, d5, now, {})
    BY <1>6, <1>24, <2>1, SaveVaultGoes
  <2>3. DOMAIN d5.users = DOMAIN d4.users /\ d5.pairings = d4.pairings
    BY <1>6, <2>1 DEF D!SaveVault, D!Rolled, D!Answer, DbShape
  <2> QED
    BY <1>26, <2>2, <2>3, SettlingStays
<1>28. Settling(m6, d6, now) /\ d6.users = d5.users /\ d6.pairings = d5.pairings
  <2>1. Alike(m5, d5, now) /\ DbShape(d5)
    BY <1>27 DEF Settling, Alike
  <2>2. Goes(m5, d5, m6, d6, now, {})
    BY <1>7, <1>24, <1>27, <2>1, AuditGoes
  <2>3. d6.users = d5.users /\ d6.pairings = d5.pairings
    BY <1>7, <2>1 DEF D!InsertAudit, D!Commit, D!Rolled, D!Answer, DbShape
  <2> QED
    BY <1>27, <2>2, <2>3, SettlingStays
<1>29. Settling(MJoined, DJoined, now) /\ DJoined.users = d6.users /\ DJoined.pairings = d6.pairings
  <2>1. Alike(m6, d6, now) /\ DbShape(d6)
    BY <1>28 DEF Settling, Alike
  <2>2. Goes(m6, d6, MJoined, DJoined, now, {})
    BY <1>8, <1>24, <1>27, <1>28, <2>1, AuditGoes
  <2>3. DJoined.users = d6.users /\ DJoined.pairings = d6.pairings
    BY <1>8, <2>1 DEF D!InsertAudit, D!Commit, D!Rolled, D!Answer, DbShape
  <2> QED
    BY <1>28, <2>2, <2>3, SettlingStays
<1> QED
  BY <1>24, <1>27, <1>28, <1>29 DEF now

\* What a note, a wrap, an approval and a file under way lead to.
LEMMA SettledAlike ==
    ASSUME "settled" \in Starts
    PROVE  Settling(MSettled, DSettled,
                    {Admin, Member, dev1, dev2, tok1, tok2, inv1, inv2, note, pair, req, file})
<1>1. PICK m0, d0 : m0 = MJoined /\ d0 = DJoined
  OBVIOUS
<1>2. PICK m1, d1 : /\ m1 = M!CreateItem(m0, Member, note, FirstNote).to
                    /\ d1 = D!CreateItem(d0, Member, note, FirstNote).to
  OBVIOUS
<1>3. PICK m2, d2 : /\ m2 = M!CreatePairing(m1, pair, Nth(Codes), 1).to
                    /\ d2 = D!CreatePairing(d1, pair, Nth(Codes), 1).to
  OBVIOUS
<1>4. PICK m3, d3 : /\ m3 = M!SavePairingWrap(m2, pair, Member).to
                    /\ d3 = D!SavePairingWrap(d2, pair, Member).to
  OBVIOUS
<1>5. PICK m4, d4 : /\ m4 = M!CreateUpload(m3, req, Member).to
                    /\ d4 = D!CreateUpload(d3, req, Member).to
  OBVIOUS
<1>6. PICK m5, d5 : /\ m5 = M!DecideUpload(m4, req, Admin, "approved", Max(Sizes)).to
                    /\ d5 = D!DecideUpload(d4, req, Admin, "approved", Max(Sizes)).to
  OBVIOUS
<1>7. MSettled = M!CreatePendingBlob(m5, file, Member, Max(Sizes), 0).to /\
      DSettled = D!CreatePendingBlob(d5, file, Member, Max(Sizes), 0).to
  BY <1>1, <1>2, <1>3, <1>4, <1>5, <1>6 DEF MSettled, DSettled
<1>8. 0 \in Times /\ 1 \in Times /\ Max(Sizes) \in Sizes
  <2>1. 0 \in 0 .. MaxClock + 2 /\ 1 \in 0 .. MaxClock + 2
    BY RowsAssumption
  <2>2. PICK top \in Sizes : \A s \in Sizes : s <= top
    BY RowsAssumption
  <2>3. Max(Sizes) \in Sizes
    BY <2>2 DEF Max
  <2> QED
    BY <2>1, <2>3, RowsAssumption
<1>9. /\ Member \in Users /\ Member # Admin /\ Admin \in Users
      /\ dev1 \in Devices /\ dev2 \in Devices /\ tok1 \in Tokens /\ tok2 \in Tokens
      /\ inv1 \in Invites /\ inv2 \in Invites
      /\ note \in Items /\ pair \in Pairings /\ req \in Uploads /\ file \in Blobs
      /\ Nth(Codes) \in Codes
  BY FirstIds, RowsAssumption
<1> DEFINE old == {Admin, Member, dev1, dev2, tok1, tok2, inv1, inv2}
<1>10. /\ Settling(m0, d0, old) /\ Admin \in DOMAIN d0.users /\ Member \in DOMAIN d0.users
       /\ DOMAIN d0.pairings = {}
  BY <1>1, JoinedAlike
<1>11. pair \notin old \cup {note} /\ file \notin ((old \cup {note}) \cup {pair}) \cup {req}
  BY <1>9, Disjoint
<1> HIDE DEF old
<1>12. /\ Settling(m1, d1, old \cup {note}) /\ d1.users = d0.users /\ d1.pairings = d0.pairings
  <2>1. Alike(m0, d0, old) /\ DbShape(d0)
    BY <1>10 DEF Settling, Alike
  <2>2. PICK row : row = FirstNote
    OBVIOUS
  <2>3. row \in ItemRows /\ row.blob = NoOne
    BY <1>8, <1>9, <2>2, RowsAssumption DEF FirstNote, ItemRows
  <2>4. Goes(m0, d0, m1, d1, old, {note})
    <3>1. /\ Goes(m0, d0, M!CreateItem(m0, Member, note, row).to,
                  D!CreateItem(d0, Member, note, row).to, old, {note})
      BY <1>9, <1>10, <2>1, <2>3, CreateItemGoes
    <3> QED
      BY <1>2, <2>2, <3>1
  <2>5. d1.users = d0.users /\ d1.pairings = d0.pairings
    BY <1>2, <2>1 DEF D!CreateItem, D!Commit, D!Rolled, D!Answer, DbShape
  <2> QED
    BY <1>10, <2>4, <2>5, SettlingOn
<1>13. /\ Settling(m2, d2, (old \cup {note}) \cup {pair}) /\ d2.users = d0.users
       /\ pair \in DOMAIN d2.pairings
  <2> DEFINE ids == old \cup {note}
  <2>1. Settling(m1, d1, ids) /\ Alike(m1, d1, ids) /\ DbShape(d1) /\ pair \notin ids
    BY <1>11, <1>12 DEF Settling, Alike
  <2> HIDE DEF ids
  <2>2. \A x \in DOMAIN d1.pairings : d1.pairings[x].code # Nth(Codes)
    BY <1>10, <1>12
  <2>3. Goes(m1, d1, m2, d2, ids, {pair})
    BY <1>3, <1>8, <1>9, <2>1, <2>2, CreatePairingGoes
  <2>4. Settling(m2, d2, ids \cup {pair})
    BY <2>1, <2>3, SettlingOn
  <2>5. D!Where(d1.pairings, LAMBDA r : r.code = Nth(Codes)) = {}
    BY <2>2 DEF D!Where
  <2>6. d2.users = d1.users /\ pair \in DOMAIN d2.pairings
    BY <1>3, <2>1, <2>2 DEF D!CreatePairing, D!Where, D!Commit, D!Rolled, D!Answer, D!With, DbShape
  <2> QED
    BY <1>12, <2>4, <2>6 DEF ids
<1> DEFINE more == (old \cup {note}) \cup {pair}
<1>14. Settling(m2, d2, more)
  BY <1>13
<1> HIDE DEF more
<1>15. Settling(m3, d3, more) /\ d3.users = d0.users
  <2>1. Alike(m2, d2, more) /\ DbShape(d2) /\ Member \in DOMAIN d2.users
    BY <1>10, <1>13, <1>14 DEF Settling, Alike
  <2>2. Goes(m2, d2, m3, d3, more, {})
    BY <1>4, <1>13, <2>1, SavePairingWrapGoes
  <2>3. d3.users = d2.users
    BY <1>4, <2>1 DEF D!SavePairingWrap, D!Answer, DbShape
  <2> QED
    BY <1>13, <1>14, <2>2, <2>3, SettlingStays
<1>16. Settling(m4, d4, more \cup {req}) /\ d4.users = d0.users
  <2>1. Alike(m3, d3, more) /\ DbShape(d3) /\ Member \in DOMAIN d3.users
    BY <1>10, <1>15 DEF Settling, Alike
  <2>2. Goes(m3, d3, m4, d4, more, {req})
    BY <1>5, <1>9, <2>1, CreateUploadGoes
  <2>3. d4.users = d3.users
    BY <1>5, <2>1 DEF D!CreateUpload, D!Commit, D!Rolled, D!Answer, DbShape
  <2> QED
    BY <1>15, <2>2, <2>3, SettlingOn
<1> DEFINE most == more \cup {req}
<1>17. Settling(m4, d4, most) /\ file \notin most
  BY <1>11, <1>16 DEF more
<1> HIDE DEF most
<1>18. Settling(m5, d5, most) /\ DOMAIN d5.users = DOMAIN d0.users
  <2>1. Alike(m4, d4, most) /\ DbShape(d4) /\ Admin \in DOMAIN d4.users
    BY <1>10, <1>16, <1>17 DEF Settling, Alike
  <2>2. PICK verdict : verdict = "approved"
    OBVIOUS
  <2>3. verdict \in {"approved", "denied"} /\ Max(Sizes) \in Sizes \cup {NoOne} /\
        (verdict = "approved" => Max(Sizes) \in Sizes)
    BY <1>8, <2>2
  <2>4. Goes(m4, d4, M!DecideUpload(m4, req, Admin, verdict, Max(Sizes)).to,
             D!DecideUpload(d4, req, Admin, verdict, Max(Sizes)).to, most, {})
    BY <2>1, <2>3, DecideUploadGoes
  <2>5. Goes(m4, d4, m5, d5, most, {})
    BY <1>6, <2>2, <2>4
  <2>6. DOMAIN d5.users = DOMAIN d4.users
    BY <1>6, <2>1 DEF D!DecideUpload, D!Commit, D!Rolled, D!Answer, DbShape
  <2> QED
    BY <1>16, <1>17, <2>5, <2>6, SettlingStays
<1>19. Settling(MSettled, DSettled, most \cup {file})
  <2>1. Alike(m5, d5, most) /\ Member \in DOMAIN d5.users
    BY <1>10, <1>18 DEF Settling
  <2>2. Goes(m5, d5, MSettled, DSettled, most, {file})
    BY <1>7, <1>8, <1>9, <1>17, <2>1, CreatePendingBlobGoes
  <2> QED
    BY <1>18, <2>2, SettlingOn
<1>20. most \cup {file} = {Admin, Member, dev1, dev2, tok1, tok2, inv1, inv2, note, pair, req, file}
  BY DEF most, more, old
<1> QED
  BY <1>19, <1>20

LEMMA InitSound == Init => Sound
<1> SUFFICES ASSUME Init
             PROVE  Sound
  OBVIOUS
<1>1. PICK start \in Starts :
          /\ mem = Given(start).mem /\ db = Given(start).db /\ spent = Given(start).ids
          /\ clock = 0 /\ calls = 0 /\ known = Named(Given(start).db)
          /\ sealed = Where(Given(start).db.users, LAMBDA r : r.vault) /\ said = {}
  BY DEF Init
<1>2. Settling(mem, db, spent)
  <2>1. CASE start = "seeded"
    BY <1>1, <2>1, SeededAlike DEF Given
  <2>2. CASE start = "settled"
    BY <1>1, <2>2, SettledAlike DEF Given
  <2> QED
    BY <1>1, <2>1, <2>2, StartsAssumption
<1>3. Alike(mem, db, spent) /\ known \subseteq spent /\ Left(mem, db) = {}
  BY <1>1, <1>2 DEF Settling
<1>4. sealed \subseteq Users \cap spent
  BY <1>1, <1>3 DEF Alike, UsersAlike, Tab, Where
<1>5. clock \in 0 .. MaxClock /\ calls \in 0 .. MaxCalls
  BY <1>1, RowsAssumption
<1>6. SameAnswers
  BY <1>1 DEF SameAnswers
<1> QED
  BY <1>1, <1>3, <1>4, <1>5, <1>6 DEF Sound

LEMMA TickKeeps ==
    ASSUME Sound, Tick
    PROVE  Sound'
<1>1. clock' \in 0 .. MaxClock
  BY RowsAssumption DEF Sound, Tick
<1>2. mem' = mem /\ db' = db /\ spent' = spent /\ known' = known /\ sealed' = sealed /\
      calls' = calls /\ said' = said
  BY DEF Tick
<1>3. Alike(mem', db', spent') /\ Named(db') \subseteq known' /\ Left(mem', db') = Left(mem, db) /\ SameAnswers'
  BY <1>2 DEF Sound, SameAnswers
<1> QED
  BY <1>1, <1>2, <1>3 DEF Sound

LEMMA StutterKeeps ==
    ASSUME Sound, UNCHANGED vars
    PROVE  Sound'
<1>1. mem' = mem /\ db' = db /\ spent' = spent /\ known' = known /\ sealed' = sealed /\
      calls' = calls /\ said' = said /\ clock' = clock
  BY DEF vars
<1>2. Alike(mem', db', spent') /\ Named(db') \subseteq known' /\ Left(mem', db') = Left(mem, db) /\ SameAnswers'
  BY <1>1 DEF Sound, SameAnswers
<1> QED
  BY <1>1, <1>2 DEF Sound

LEMMA NextSound ==
    ASSUME Sound, [Next]_vars
    PROVE  Sound'
<1>1. CASE CreateInvite \/ RevokeInvite \/ CreateAsk \/ DismissAsk
  BY <1>1, CreateInviteKeeps, RevokeInviteKeeps, CreateAskKeeps, DismissAskKeeps
<1>2. CASE RegisterVerify \/ AdminEnrollVerify \/ LoginVerify \/ Logout \/ Me
  BY <1>2, RegisterVerifyKeeps, AdminEnrollVerifyKeeps, LoginVerifyKeeps, LogoutKeeps, MeKeeps
<1>3. CASE RevokeDevice \/ RemoveUser \/ DeleteAccount
  BY <1>3, RevokeDeviceKeeps, RemoveUserKeeps, DeleteAccountKeeps
<1>4. CASE PutVault \/ StartPairing \/ PostWrap \/ PairingRegisterVerify \/ RecoveryRegisterVerify
  BY <1>4, PutVaultKeeps, StartPairingKeeps, PostWrapKeeps, PairingRegisterVerifyKeeps,
     RecoveryRegisterVerifyKeeps
<1>5. CASE CreateItem \/ UpdateItem \/ DeleteItem \/ SetPreserveNotes \/ ResetItemExpiry
  BY <1>5, CreateItemKeeps, UpdateItemKeeps, DeleteItemKeeps, SetPreserveNotesKeeps,
     ResetItemExpiryKeeps
<1>6. CASE SubscribePush \/ EndpointGone
  BY <1>6, SubscribePushKeeps, EndpointGoneKeeps
<1>7. CASE RequestUpload \/ DecideUpload \/ UploadIntent \/ CommitUpload
  BY <1>7, RequestUploadKeeps, DecideUploadKeeps, UploadIntentKeeps, CommitUploadKeeps
<1>8. CASE Prune \/ Tick
  BY <1>8, PruneKeeps, TickKeeps
<1>9. CASE UNCHANGED vars
  BY <1>9, StutterKeeps
<1> QED
  BY <1>1, <1>2, <1>3, <1>4, <1>5, <1>6, <1>7, <1>8, <1>9 DEF Next

LEMMA AlwaysSound == Spec => []Sound
<1>1. Init => Sound
  BY InitSound
<1>2. Sound /\ [Next]_vars => Sound'
  BY NextSound
<1> QED
  BY <1>1, <1>2, PTL DEF Spec

-----------------------------------------------------------------------------
(* What the services see.                                                  *)

LEMMA MemTyped ==
    ASSUME Alike(mem, db, spent)
    PROVE  M!StoreOK(mem)
<1>1. UsersAlike(mem.users, mem.vaults, db.users, spent)
  BY DEF Alike
<1>2. \A u \in DOMAIN mem.users : u \in Users /\ mem.users[u] \in MemUsers
  BY <1>1 DEF UsersAlike, Tab
<1>3. M!All(mem.users, Users, LAMBDA r :
          /\ r.handle \in Handles
          /\ {r.admin, r.canUpload, r.hasVault, r.preserve} \subseteq BOOLEAN
          /\ {r.quota, r.used} \subseteq Nat) /\ mem.vaults \subseteq Users
  BY <1>1, <1>2 DEF M!All, MemUsers, UsersAlike, Tab
<1>4. M!All(mem.invites, Invites, M!InviteRow)
  BY DEF M!All, M!InviteRow, Alike, InvitesAlike, Tab, InviteRows
<1>5. M!All(mem.asks, Asks, LAMBDA r : r \in [dismissed : BOOLEAN])
  BY DEF M!All, Alike, AsksAlike, Tab, AskRows
<1>6. M!All(mem.devices, Devices, M!DeviceRow) /\ M!All(mem.sessions, Tokens, M!SessionRow)
  BY DEF M!All, M!DeviceRow, M!SessionRow, Alike, DevicesAlike, SessionsAlike, Tab,
     DeviceRows, SessionRows
<1>7. mem.audit \subseteq Users \cup {NoOne}
  BY DEF Alike, AuditAlike
<1>8. M!All(mem.pairings, Pairings, LAMBDA r :
          r.user \in Users \cup {NoOne} /\ r.wrap \in BOOLEAN /\ r.expires \in Times)
  BY DEF M!All, Alike, PairingsAlike, Tab, MemPairings
<1>9. M!All(mem.codes, Codes, LAMBDA p : p \in Pairings) /\
      M!All(mem.pushes, Endpoints, LAMBDA d : d \in Devices)
  BY DEF M!All, Alike, CodesAlike, PushesAlike, Tab
<1>10. M!All(mem.items, Items, M!StoredItem)
  BY DEF M!All, M!StoredItem, Alike, ItemsAlike, Tab, ItemRows
<1>11. M!All(mem.blobs, Blobs, M!BlobRow)
  BY DEF M!All, M!BlobRow, Alike, BlobsAlike, Tab, BlobRows
<1>12. M!All(mem.uploads, Uploads, LAMBDA r : M!UploadRow(r) /\ r.handle \in Handles)
  <2>1. UploadsAlike(mem.uploads, db.uploads, db.users, spent)
    BY DEF Alike
  <2>2. ASSUME NEW x \in DOMAIN mem.uploads
        PROVE  /\ x \in Uploads /\ M!UploadRow(mem.uploads[x])
               /\ mem.uploads[x].handle \in Handles
    <3>1. /\ x \in Uploads /\ db.uploads[x] \in DbUploads /\ db.uploads[x].user \in DOMAIN db.users
          /\ mem.uploads[x] = Joined(db.uploads[x], db.users)
      BY <2>1 DEF UploadsAlike, Tab
    <3>2. db.users[db.uploads[x].user] \in DbUsers
      BY <1>1, <3>1 DEF UsersAlike, Tab
    <3> QED
      BY <3>1, <3>2 DEF DbUploads, Statuses, DbUsers, Joined, M!UploadRow
  <2> QED
    BY <2>2 DEF M!All
<1> QED
  BY <1>3, <1>4, <1>5, <1>6, <1>7, <1>8, <1>9, <1>10, <1>11, <1>12 DEF M!StoreOK

LEMMA DbTyped ==
    ASSUME Alike(mem, db, spent)
    PROVE  D!StoreOK(db)
<1>1. UsersAlike(mem.users, mem.vaults, db.users, spent)
  BY DEF Alike
<1>2. \A u \in DOMAIN db.users : u \in Users /\ db.users[u] \in DbUsers
  BY <1>1 DEF UsersAlike, Tab
<1>3. D!All(db.users, Users, LAMBDA r :
          /\ r.handle \in Handles
          /\ {r.admin, r.canUpload, r.vault, r.preserve} \subseteq BOOLEAN
          /\ {r.quota, r.used} \subseteq Nat)
  BY <1>1, <1>2 DEF D!All, DbUsers, UsersAlike, Tab
<1>4. D!All(db.invites, Invites, D!InviteRow)
  BY DEF D!All, D!InviteRow, Alike, InvitesAlike, Tab, InviteRows
<1>5. D!All(db.asks, Asks, LAMBDA r : r \in [dismissed : BOOLEAN])
  BY DEF D!All, Alike, AsksAlike, Tab, AskRows
<1>6. D!All(db.devices, Devices, D!DeviceRow) /\ D!All(db.sessions, Tokens, D!SessionRow)
  BY DEF D!All, D!DeviceRow, D!SessionRow, Alike, DevicesAlike, SessionsAlike, Tab,
     DeviceRows, SessionRows
<1>7. db.audit \subseteq Users \cup {NoOne}
  BY DEF Alike, AuditAlike
<1>8. D!All(db.pairings, Pairings, LAMBDA r :
          /\ r.user \in Users \cup {NoOne} /\ r.code \in Codes
          /\ r.wrap \in BOOLEAN /\ r.expires \in Times)
  BY DEF D!All, Alike, PairingsAlike, Tab, DbPairings
<1>9. D!All(db.pushes, Endpoints, LAMBDA e : e \in Devices)
  BY DEF D!All, Alike, PushesAlike, Tab
<1>10. D!All(db.items, Items, D!StoredItem)
  BY DEF D!All, D!StoredItem, Alike, ItemsAlike, Tab, ItemRows
<1>11. D!All(db.blobs, Blobs, D!BlobRow)
  BY DEF D!All, D!BlobRow, Alike, BlobsAlike, Tab, BlobRows
<1>12. D!All(db.uploads, Uploads, D!UploadRow)
  BY DEF D!All, D!UploadRow, Alike, UploadsAlike, Tab, DbUploads, Statuses
<1> QED
  BY <1>3, <1>4, <1>5, <1>6, <1>7, <1>8, <1>9, <1>10, <1>11, <1>12 DEF D!StoreOK

LEMMA SoundTyped == Sound => TypeOK
<1> SUFFICES ASSUME Sound
             PROVE  TypeOK
  OBVIOUS
<1>1. Alike(mem, db, spent)
  BY DEF Sound
<1>2. /\ \A t \in DOMAIN db.sessions : db.sessions[t].device \in DOMAIN db.devices
      /\ \A v \in DOMAIN db.devices : db.devices[v].user \in DOMAIN db.users
  BY <1>1 DEF Alike, SessionsAlike, DevicesAlike
<1>3. \A x \in DOMAIN db.items : db.items[x].blob \in DOMAIN db.blobs \cup {NoOne}
  BY <1>1 DEF Alike, Filed
<1>4. \A i \in DOMAIN db.invites : db.invites[i].redeemedBy \in DOMAIN db.users \cup {NoOne}
  BY <1>1 DEF Alike, InvitesAlike
<1> QED
  BY <1>1, <1>2, <1>3, <1>4, MemTyped, DbTyped DEF Sound, TypeOK

\* A session reads the same, for what is left over names none of Postgres.
LEMMA SessionsSame ==
    ASSUME Alike(mem, db, spent), NEW t
    PROVE  M!SessionOf(mem, t) = D!SessionOf(db, t)
<1>1. /\ SessionsAlike(mem.sessions, db.sessions, DOMAIN db.devices, spent)
      /\ DevicesAlike(mem.devices, db.devices, DOMAIN db.users, spent)
      /\ UsersAlike(mem.users, mem.vaults, db.users, spent)
  BY DEF Alike
<1>2. CASE t \in DOMAIN db.sessions
  <2>1. /\ t \in DOMAIN mem.sessions /\ mem.sessions[t] = db.sessions[t]
        /\ db.sessions[t].device \in DOMAIN db.devices
    BY <1>1, <1>2 DEF SessionsAlike
  <2>2. PICK v : v = db.sessions[t].device
    OBVIOUS
  <2>3. v \in DOMAIN db.devices /\ v \in DOMAIN mem.devices /\ mem.devices[v] = db.devices[v] /\
        db.devices[v].user \in DOMAIN db.users
    BY <1>1, <2>1, <2>2 DEF DevicesAlike
  <2>4. PICK u : u = db.devices[v].user
    OBVIOUS
  <2>5. u \in DOMAIN db.users /\ u \in DOMAIN mem.users /\ mem.users[u] = D!MapUser(db.users[u])
    BY <1>1, <2>3, <2>4 DEF UsersAlike
  <2> QED
    BY <1>2, <2>1, <2>2, <2>3, <2>4, <2>5 DEF M!SessionOf, D!SessionOf
<1>3. CASE t \notin DOMAIN db.sessions
  <2>1. D!SessionOf(db, t) = NoOne
    BY <1>3 DEF D!SessionOf
  <2>2. t \in DOMAIN mem.sessions => mem.sessions[t].device \notin DOMAIN db.devices
    BY <1>1, <1>3 DEF SessionsAlike
  <2>3. ASSUME NEW v \in DOMAIN mem.devices, v \notin DOMAIN db.devices
        PROVE  mem.devices[v].user \notin DOMAIN mem.users
    BY <1>1, <2>3 DEF DevicesAlike, UsersAlike
  <2> QED
    BY <2>1, <2>2, <2>3 DEF M!SessionOf
<1> QED
  BY <1>2, <1>3

LEMMA DevicesSame ==
    ASSUME Alike(mem, db, spent), NEW v
    PROVE  M!DeviceByCredential(mem, v) = D!DeviceByCredential(db, v)
<1>1. /\ DevicesAlike(mem.devices, db.devices, DOMAIN db.users, spent)
      /\ UsersAlike(mem.users, mem.vaults, db.users, spent)
  BY DEF Alike
<1>2. CASE v \in DOMAIN db.devices
  <2>1. v \in DOMAIN mem.devices /\ mem.devices[v] = db.devices[v] /\
        db.devices[v].user \in DOMAIN db.users
    BY <1>1, <1>2 DEF DevicesAlike
  <2>2. PICK u : u = db.devices[v].user
    OBVIOUS
  <2>3. u \in DOMAIN db.users /\ u \in DOMAIN mem.users /\ mem.users[u] = D!MapUser(db.users[u])
    BY <1>1, <2>1, <2>2 DEF UsersAlike
  <2> QED
    BY <1>2, <2>1, <2>2, <2>3 DEF M!DeviceByCredential, D!DeviceByCredential, D!GetUser
<1>3. CASE v \notin DOMAIN db.devices
  <2>1. v \in DOMAIN mem.devices => mem.devices[v].user \notin DOMAIN mem.users
    BY <1>1, <1>3 DEF DevicesAlike, UsersAlike
  <2> QED
    BY <1>3, <2>1 DEF M!DeviceByCredential, D!DeviceByCredential
<1> QED
  BY <1>2, <1>3

LEMMA UsersSame ==
    ASSUME Alike(mem, db, spent), NEW u
    PROVE  M!GetUser(mem, u) = D!GetUser(db, u) /\ M!GetVault(mem, u) = D!GetVault(db, u)
<1>1. UsersAlike(mem.users, mem.vaults, db.users, spent)
  BY DEF Alike
<1>2. M!GetUser(mem, u) = D!GetUser(db, u)
  BY <1>1 DEF M!GetUser, M!Seek, D!GetUser, UsersAlike
<1>3. M!GetVault(mem, u) = D!GetVault(db, u)
  BY <1>1 DEF M!GetVault, D!GetVault, D!VaultFromUser, UsersAlike
<1> QED
  BY <1>2, <1>3

LEMMA PushSame ==
    ASSUME Alike(mem, db, spent), NEW u \in DOMAIN db.users, NEW v
    PROVE  M!PushTargets(mem, u, v) = D!PushTargets(db, u, v)
<1>1. /\ DevicesAlike(mem.devices, db.devices, DOMAIN db.users, spent)
      /\ PushesAlike(mem.pushes, db.pushes, DOMAIN db.devices, spent)
  BY DEF Alike
<1>2. ASSUME NEW e
      PROVE  e \in M!PushTargets(mem, u, v) => e \in D!PushTargets(db, u, v)
  <2>1. SUFFICES ASSUME e \in M!PushTargets(mem, u, v)
                 PROVE  e \in D!PushTargets(db, u, v)
    OBVIOUS
  <2>2. /\ e \in DOMAIN mem.pushes /\ mem.pushes[e] \in DOMAIN mem.devices /\ mem.pushes[e] # v
        /\ mem.devices[mem.pushes[e]].user = u /\ ~mem.devices[mem.pushes[e]].revoked
    BY <2>1 DEF M!PushTargets
  <2>3. mem.pushes[e] \in DOMAIN db.devices
    BY <1>1, <2>2 DEF DevicesAlike
  <2>4. e \in DOMAIN db.pushes
    BY <1>1, <2>2, <2>3 DEF PushesAlike
  <2>5. mem.pushes[e] = db.pushes[e] /\ mem.devices[mem.pushes[e]] = db.devices[mem.pushes[e]]
    BY <1>1, <2>3, <2>4 DEF PushesAlike, DevicesAlike
  <2> QED
    BY <2>2, <2>3, <2>4, <2>5 DEF D!PushTargets
<1>3. ASSUME NEW e
      PROVE  e \in D!PushTargets(db, u, v) => e \in M!PushTargets(mem, u, v)
  <2>1. SUFFICES ASSUME e \in D!PushTargets(db, u, v)
                 PROVE  e \in M!PushTargets(mem, u, v)
    OBVIOUS
  <2>2. PICK w \in DOMAIN db.devices \ {v} :
            db.pushes[e] = w /\ db.devices[w].user = u /\ ~db.devices[w].revoked
    BY <2>1 DEF D!PushTargets
  <2>3. e \in DOMAIN db.pushes
    BY <2>1 DEF D!PushTargets
  <2>4. e \in DOMAIN mem.pushes /\ mem.pushes[e] = w /\ w \in DOMAIN mem.devices /\
        mem.devices[w] = db.devices[w] /\ w # v
    BY <1>1, <2>2, <2>3 DEF PushesAlike, DevicesAlike
  <2> QED
    BY <2>2, <2>4 DEF M!PushTargets
<1> QED
  BY <1>2, <1>3 DEF M!PushTargets, D!PushTargets

LEMMA ItemsSame ==
    ASSUME Alike(mem, db, spent), NEW u
    PROVE  M!ListItems(mem, u) = D!ListItems(db, u)
  BY DEF Alike, ItemsAlike, M!ListItems, D!ListItems, M!Where, D!Where

LEMMA SoundReads == Sound => SameReads
<1> SUFFICES ASSUME Sound
             PROVE  SameReads
  OBVIOUS
<1>1. Alike(mem, db, spent)
  BY DEF Sound
<1>2. \A t \in Tokens : M!SessionOf(mem, t) = D!SessionOf(db, t)
  BY <1>1, SessionsSame
<1>3. \A i \in Invites : M!GetInvite(mem, i) = D!GetInvite(db, i)
  BY <1>1 DEF Alike, InvitesAlike, M!GetInvite, D!GetInvite, M!Seek, D!Seek
<1>4. \A v \in Devices : M!DeviceByCredential(mem, v) = D!DeviceByCredential(db, v)
  BY <1>1, DevicesSame
<1>5. \A u \in Users : /\ M!GetUser(mem, u) = D!GetUser(db, u)
                       /\ M!GetVault(mem, u) = D!GetVault(db, u)
  BY <1>1, UsersSame
<1>6. \A u \in DOMAIN db.users :
          /\ M!ListItems(mem, u) = D!ListItems(db, u)
          /\ \A v \in DOMAIN db.devices : M!PushTargets(mem, u, v) = D!PushTargets(db, u, v)
  BY <1>1, ItemsSame, PushSame
<1>7. \A b \in Blobs : M!GetBlob(mem, b) = D!GetBlob(db, b)
  BY <1>1 DEF Alike, BlobsAlike, M!GetBlob, D!GetBlob, M!Seek, D!Seek
<1> QED
  BY <1>2, <1>3, <1>4, <1>5, <1>6, <1>7 DEF SameReads

LEMMA DirectorySame ==
    ASSUME Alike(mem, db, spent)
    PROVE  M!ListDirectory(mem) = D!ListDirectory(db)
<1>1. /\ DevicesAlike(mem.devices, db.devices, DOMAIN db.users, spent)
      /\ UsersAlike(mem.users, mem.vaults, db.users, spent)
  BY DEF Alike
<1>2. DOMAIN mem.users = DOMAIN db.users
  BY <1>1 DEF UsersAlike
<1> DEFINE Mine(u) == {v \in DOMAIN mem.devices : mem.devices[v].user = u}
           Theirs(u) == {v \in DOMAIN db.devices : db.devices[v].user = u}
<1>3. ASSUME NEW u \in DOMAIN db.users
      PROVE  /\ mem.users[u] = D!MapUser(db.users[u])
             /\ [v \in Mine(u) |-> mem.devices[v]] = [v \in Theirs(u) |-> db.devices[v]]
  <2>1. mem.users[u] = D!MapUser(db.users[u])
    BY <1>1 DEF UsersAlike
  <2>2. Mine(u) = Theirs(u)
    BY <1>1 DEF DevicesAlike
  <2>3. \A v \in Theirs(u) : mem.devices[v] = db.devices[v]
    BY <1>1 DEF DevicesAlike
  <2> QED
    BY <2>1, <2>2, <2>3
<1>4. M!ListDirectory(mem) =
          [u \in DOMAIN mem.users |-> [row |-> mem.users[u], devices |-> [v \in Mine(u) |-> mem.devices[v]]]]
  BY DEF M!ListDirectory, M!Where
<1>5. D!ListDirectory(db) =
          [u \in DOMAIN db.users |->
              [row |-> D!MapUser(db.users[u]), devices |-> [v \in Theirs(u) |-> db.devices[v]]]]
  BY DEF D!ListDirectory, D!Where
<1> HIDE DEF Mine, Theirs
<1> QED
  BY <1>2, <1>3, <1>4, <1>5

LEMMA UploadsSame ==
    ASSUME Alike(mem, db, spent)
    PROVE  M!ListUploads(mem) = D!ListUploads(db)
<1>1. UploadsAlike(mem.uploads, db.uploads, db.users, spent)
  BY DEF Alike
<1>2. {x \in DOMAIN db.uploads : db.uploads[x].user \in DOMAIN db.users} = DOMAIN db.uploads
  BY <1>1 DEF UploadsAlike
<1>3. D!ListUploads(db) = [x \in DOMAIN db.uploads |-> Joined(db.uploads[x], db.users)]
  BY <1>2 DEF D!ListUploads, D!Where, Joined
<1> QED
  BY <1>1, <1>3 DEF M!ListUploads, UploadsAlike

LEMMA UsageSame ==
    ASSUME Alike(mem, db, spent)
    PROVE  M!UsageSnapshot(mem) = D!UsageSnapshot(db)
<1>1. mem.blobs = db.blobs
  BY DEF Alike, BlobsAlike
<1> DEFINE committed == {b \in DOMAIN db.blobs : db.blobs[b].state = "committed"}
<1>2. M!UsageSnapshot(mem) =
          <<M!Bytes(db.blobs, committed), M!Bytes(db.blobs, DOMAIN db.blobs \ committed)>>
  BY <1>1 DEF M!UsageSnapshot, M!Where
<1>3. D!UsageSnapshot(db) =
          <<D!Bytes(db.blobs, committed), D!Bytes(db.blobs, DOMAIN db.blobs \ committed)>>
  BY DEF D!UsageSnapshot, D!Where
<1> HIDE DEF committed
<1> QED
  BY <1>2, <1>3, SharedCounts

LEMMA RecoverySame ==
    ASSUME Alike(mem, db, spent), NEW h
    PROVE  M!VaultByHandle(mem, h) = D!VaultByHandle(db, h)
<1>1. UsersAlike(mem.users, mem.vaults, db.users, spent)
  BY DEF Alike
<1>2. M!ByHandle(mem, h) = D!ByHandle(db, h)
  BY SameHandle
<1>3. PICK u : u = D!ByHandle(db, h)
  OBVIOUS
<1>4. u = NoOne \/ u \in DOMAIN db.users
  BY <1>3 DEF D!ByHandle, D!Where
<1>5. NoOne \notin mem.vaults
  BY <1>1, RowsAssumption DEF UsersAlike, Tab
<1>6. u # NoOne => (u \in mem.vaults <=> db.users[u].vault)
  BY <1>1, <1>4 DEF UsersAlike
<1> QED
  BY <1>2, <1>3, <1>5, <1>6 DEF M!VaultByHandle, D!VaultByHandle, D!VaultFromUser

\* A pairing of a member who is gone is nobody's.
LEMMA PairingsSame ==
    ASSUME Alike(mem, db, spent), NEW p
    PROVE  Standing(M!GetPairing(mem, p)) = D!GetPairing(db, p)
<1>1. PairingsAlike(mem.pairings, db.pairings, DOMAIN db.users, spent)
  BY DEF Alike
<1>2. CASE p \in DOMAIN db.pairings
  <2>1. /\ p \in DOMAIN mem.pairings /\ mem.pairings[p] = D!Record(db.pairings[p])
        /\ db.pairings[p].user \in DOMAIN db.users \cup {NoOne}
    BY <1>1, <1>2 DEF PairingsAlike
  <2>2. D!Record(db.pairings[p]).user = db.pairings[p].user
    BY DEF D!Record
  <2>3. M!GetPairing(mem, p) = D!Record(db.pairings[p]) /\ D!GetPairing(db, p) = D!Record(db.pairings[p])
    BY <1>2, <2>1 DEF M!GetPairing, M!Seek, D!GetPairing
  <2> QED
    BY <2>1, <2>2, <2>3 DEF Standing
<1>3. CASE p \notin DOMAIN db.pairings
  <2>1. p \in DOMAIN mem.pairings => mem.pairings[p].user \notin DOMAIN db.users \cup {NoOne}
    BY <1>1, <1>3, RowsAssumption DEF PairingsAlike
  <2> QED
    BY <1>3, <2>1 DEF M!GetPairing, M!Seek, D!GetPairing, Standing
<1> QED
  BY <1>2, <1>3

LEMMA CodesSame ==
    ASSUME Alike(mem, db, spent), NEW c
    PROVE  Standing(M!PairingByCode(mem, c)) = D!PairingByCode(db, c)
<1>1. CodesAlike(mem.codes, db.pairings, spent)
  BY DEF Alike
<1> DEFINE ids == {p \in DOMAIN db.pairings : db.pairings[p].code = c}
<1>2. CASE ids = {}
  <2>1. D!PairingByCode(db, c) = NoOne
    BY <1>2 DEF D!PairingByCode, D!Where
  <2>2. CASE c \in DOMAIN mem.codes
    <3>1. mem.codes[c] \notin DOMAIN db.pairings
      BY <1>1, <1>2, <2>2 DEF CodesAlike
    <3>2. Standing(M!GetPairing(mem, mem.codes[c])) = NoOne
      BY <3>1, PairingsSame DEF D!GetPairing
    <3> QED
      BY <2>1, <2>2, <3>2 DEF M!PairingByCode, M!GetPairing
  <2>3. CASE c \notin DOMAIN mem.codes
    BY <2>1, <2>3 DEF M!PairingByCode, Standing
  <2> QED
    BY <2>2, <2>3
<1>3. CASE ids # {}
  <2>1. PICK p : p = CHOOSE q \in ids : TRUE
    OBVIOUS
  <2>2. p \in ids
    BY <1>3, <2>1
  <2>3. c \in DOMAIN mem.codes /\ mem.codes[c] = p
    BY <1>1, <2>2 DEF CodesAlike
  <2>4. D!PairingByCode(db, c) = D!Record(db.pairings[p])
    BY <1>3, <2>1 DEF D!PairingByCode, D!Where
  <2>5. Standing(M!GetPairing(mem, p)) = D!Record(db.pairings[p])
    BY <2>2, PairingsSame DEF D!GetPairing
  <2> QED
    BY <2>3, <2>4, <2>5 DEF M!PairingByCode, M!GetPairing
<1> QED
  BY <1>2, <1>3

LEMMA SoundViews == Sound => SameViews
<1> SUFFICES ASSUME Sound
             PROVE  SameViews
  OBVIOUS
<1>1. Alike(mem, db, spent)
  BY DEF Sound
<1>2. M!ListInvites(mem) = D!ListInvites(db) /\ M!ListOpenAsks(mem) = D!ListOpenAsks(db)
  BY <1>1 DEF Alike, InvitesAlike, AsksAlike, M!ListInvites, D!ListInvites, M!ListOpenAsks,
     D!ListOpenAsks, M!OpenAsks, D!OpenAsks, M!Where, D!Where
<1>3. M!ListAudit(mem) = D!ListAudit(db)
  BY <1>1 DEF Alike, AuditAlike, M!ListAudit, D!ListAudit
<1>4. M!ListDirectory(mem) = D!ListDirectory(db) /\ M!ListUploads(mem) = D!ListUploads(db) /\
      M!UsageSnapshot(mem) = D!UsageSnapshot(db)
  BY <1>1, DirectorySame, UploadsSame, UsageSame
<1>5. \A u \in DOMAIN db.users :
          LiveItems(M!ListItems(mem, u)) = LiveItems(D!ListItems(db, u))
  BY <1>1, ItemsSame
<1>6. \A h \in Handles : Recovery(M!VaultByHandle(mem, h)) = Recovery(D!VaultByHandle(db, h))
  BY <1>1, RecoverySame
<1>7. \A x : M!GetUser(mem, x) = D!GetUser(db, x)
  BY <1>1, UsersSame
<1>8. \A p \in Pairings :
          LET here == Standing(M!GetPairing(mem, p))
              there == D!GetPairing(db, p)
          IN  Polled(here, M!GetUser(mem, OwnerOf(here))) =
                  Polled(there, D!GetUser(db, OwnerOf(there)))
  BY <1>1, <1>7, PairingsSame
<1>9. \A c \in Codes :
          LET here == Standing(M!PairingByCode(mem, c))
              there == D!PairingByCode(db, c)
          IN  Polled(here, M!GetUser(mem, OwnerOf(here))) =
                  Polled(there, D!GetUser(db, OwnerOf(there)))
  BY <1>1, <1>7, CodesSame
<1>10. /\ InviteList(M!ListInvites(mem)) = InviteList(D!ListInvites(db))
       /\ AskList(M!ListOpenAsks(mem)) = AskList(D!ListOpenAsks(db))
       /\ UserList(M!ListDirectory(mem)) = UserList(D!ListDirectory(db))
       /\ AuditList(M!ListAudit(mem)) = AuditList(D!ListAudit(db))
       /\ AdminUsage(M!UsageSnapshot(mem), M!ListDirectory(mem)) =
              AdminUsage(D!UsageSnapshot(db), D!ListDirectory(db))
  BY <1>2, <1>3, <1>4
<1> QED
  BY <1>4, <1>5, <1>6, <1>8, <1>9, <1>10 DEF SameViews

-----------------------------------------------------------------------------

\* Both stores hold rows of the declared shapes, and no row of Postgres names
\* one that is gone, whatever members ask and in whatever order.
THEOREM StoresTyped == Spec => []TypeOK
<1>1. Sound => TypeOK
  BY SoundTyped
<1> QED
  BY <1>1, AlwaysSound, PTL

\* A request is answered alike by the store of the tests and by Postgres, as
\* long as the member it is about exists.
THEOREM AnswersAlike == Spec => []SameAnswers
<1>1. Sound => SameAnswers
  BY DEF Sound
<1> QED
  BY <1>1, AlwaysSound, PTL

\* Whatever is read next, the two stores show the same: what removeUser leaves
\* behind in memory, and what a late verify adds there, is never seen again.
THEOREM RowsAlike == Spec => []SameRows
<1>1. Sound => SameRows
  BY SoundReads, SoundViews DEF SameRows
<1> QED
  BY <1>1, AlwaysSound, PTL

=============================================================================
