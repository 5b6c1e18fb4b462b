# meownow in TLA+

meownow is an invite-only, end-to-end encrypted clipboard: a Next.js app on
Postgres (Neon), a Cloudflare Worker with an R2 bucket and a Durable Object per
member (the hub), and a browser client that keeps an outbox in IndexedDB and
talks to its member's other devices over the hub and over WebRTC. These modules
specify the parts of it where several actors change shared state, or where two
implementations must agree. TLC checks them on small instances, and TLAPS proves
for instances of any size what matters most of the storage accounting, the note
outbox, membership, vaults and pairing, asks and requests, the hub's live
connection, the rate limiter, and the pages that several tabs share: the sign-in
ceremonies, the share inbox, the update chip and the play board.

All paths below are relative to `src/`.

## Inventory

| part | state it keeps | operations | interacts with | hard because |
|---|---|---|---|---|
| File storage (`apps/web/lib/vault/service.ts`, `lib/auth/drizzle-store.ts`, `lib/vault/upload-client.ts`, `apps/edge/src/http.ts`) | rows of `users` (quota, used), `blobs`, `items`; objects in R2 | intent, ticket, PUT, stat, commit, Forget, reset of deadlines, preserve, grant, removal of a member | browser, Worker (capability tickets), cron | a commit spans two services and three requests, none of which locks the next |
| Cron (`apps/edge/src/cron.ts`, `prune.ts`; `lib/vault/prune.ts`, `drizzle-store.prune`) | a plan made from four selects; a set of prefixes to keep | select, plan, delete, answer, list, delete objects | the same rows and objects | reads are stale when the writes run; may die half way |
| File transfer (`lib/vault/upload-client.ts`, `blob-compress.ts`, `packages/crypto/src/chunks.ts`, `aead.ts`, `packages/protocol/src/capability.ts`) | the parts in the bucket, tickets | pack, split, seal, put, commit; list, get, open | file storage | a reader does not know how many parts there are; any request may fail |
| Outbox and tray (`apps/web/app/page.tsx`, `lib/vault/outbox.ts`, `flush.ts`, `item-cache.ts`, `persist-intent.ts`, `lib/ui/merge-items.ts`) | IndexedDB records and `syncEnabled`; React state; refs `pending`, `tombstones`, `sending`, `flushing` | send, edit, flush, Sync one / all, switch, Forget, Undo, refresh, hub envelopes | items API, hub, other devices | a dozen handlers interleave at every `await` |
| Membership (`lib/auth/service.ts`, `drizzle-store.ts`, `packages/db/src/invites.ts`, `sessions.ts`) | `invites`, `users`, `devices`, `sessions` | issue / revoke / redeem an invite, first admin enrolment, login, logout, sliding expiry, revoke a device, remove a user | passkeys (external) | check-then-act in separate statements |
| The two stores (`lib/auth/drizzle-store.ts`, `memory-store.ts`) | every table, or a map for each | the methods of `AuthStore` and `VaultStore` | all services; the tests run on the second | cascades by foreign key in one, by hand in the other |
| Sign-up and sign-in pages (`lib/auth/handlers.ts`, `lib/cookies.ts`, `lib/challenge.ts`, `app/join`, `enroll`, `login`) | a challenge cookie and a session cookie for all tabs; each page's ceremony | options, passkey prompt, verify, wait for the session, log out | membership | tabs share one cookie jar, answers come in any order |
| Asks and upload requests (`lib/auth/service.ts`, `lib/vault/service.ts`) | `invite_asks`, `upload_requests`, the quota, `audit_log` | ask, dismiss, request, decide | admin | caps and states tested before the write; the log written after the commit |
| Pairing and vault keys (`lib/vault/service.ts`, `bootstrap.ts`, `local.ts`, `app/pair`, `app/recover`) | `pairing_sessions`, the vault columns, the keys in IndexedDB | set up, start, look up, wrap, poll, compare, enrol, recover | two browsers and the app | two browsers and three stores change one after the other, and any answer may be lost |
| Hub (`apps/edge/src/index.ts`, `hub.ts`, `lib/vault/live.ts`, `hub-live.ts`) | sockets with a device id; a client's socket, timers, `live` | connect, message, close, presence, fan-out, ping, retry | mesh, outbox | half-open sockets, reconnects, late close events |
| Mesh (`lib/p2p/*`) | peers, offers being made, buffered candidates | presence, offer, answer, candidate, close | hub for signalling | signalling races presence |
| Rate limiter (`apps/edge/src/rate-limit.ts`) | tokens, time | take | auth routes and sends | clamps and fractions |
| Service worker update, share inbox, play board (`lib/pwa/*`, `lib/play/*`) | flags, one pending share, five notes | offer / reload, save / take, write | page | several tabs, one store |
| Other crypto, protocol, config, push, UI | none, or only views | | | pure functions, adapters and rendering: not modelled |

What makes each correct, in a sentence: the quota figure covers what is stored
and what is stored is whole (storage); garbage goes (cron); a file opens whole or
not at all (transfer); a note once sent is never lost and goes to the server
exactly when Sync says so (outbox); an invite makes one member, a revoked device
has no session that works, an admin remains (membership); what passes the tests
on one store does so on the other (stores); a passkey is for whom it was made,
and no tab spoils the sign-in of another (pages); the space a member has is what
was approved last, and written down (requests); the twelve words and the keys of
a browser open the vault of their account, and one browser is paired for the one
that was compared (vaults); presence and the live sign follow the sockets and a
link comes back (hub, mesh); no burst passes the limit and nobody pays for
another (limiter); a share is sent once, an update offered when there is one, the
board keeps its cap but for what is under way.

## Modules

| module | what it is |
|---|---|
| `Bills` | vocabulary of accounting: lines, and `Bytes`, a sum known by its laws |
| `Ledger` | abstract specification of the quota figure: charge, strike, close |
| `BlobStore`, `BlobStoreProofs` | upload, commit, rows, bucket, cron; implements `Ledger`; its theorems |
| `Outbox`, `OutboxProofs` | one browser's notes and the server; its theorems |
| `Membership`, `MembershipProofs` | invites, members, devices, sessions, removals; its theorems |
| `Rows`, `MemoryStore`, `DrizzleStore`, `Stores` | rows and the rules on rows; the two stores as operators; the services' calls on both |
| `StoresProofs` | theorems of `Stores` |
| `Vaults`, `VaultsProofs` | set-up, pairing, recovery, and what each browser keeps; its theorems |
| `HubRoom` | the Durable Object's sockets, as operators for the next two |
| `HubLive`, `HubLiveProofs` | tabs, their shared session, tickets, sockets; its theorems |
| `Mesh`, `MeshProofs` | meshes, peers, chains, connections; its theorems |
| `Requests` | asks, upload requests, decisions, audit entries |
| `RateLimit` | token buckets |
| `Files` | a file there and back, with abstract ciphers |
| `Ceremonies` | sign-up and sign-in of several tabs |
| `Shares`, `Updates`, `Playground` | share inbox, update chip, board |
| `Parts` | these seven, `Requests` to `Playground`, side by side |
| `PartsProofs` | theorems of each of the seven, and of `Parts` |
| `MCBlobStore`, `MCReclaim`, `MCOutbox`, `MCMembership`, `MCStores`, `MCVaults`, `MCHubLive`, `MCMesh`, `MCParts` | instances for TLC |

`HubLive` and `Mesh` are compositions with `HubRoom`, `Stores` of the two stores,
and `Parts` puts the parts that share nothing with each other side by side: a
behaviour picks one of them, `moving`, and takes that part's steps.

### BlobStore

Every variable is a column or a place in the code: `state`, `createdAt`,
`byteSize` are rows of `blobs`; `item`, `expiresAt`, `pinned` those of `items`;
`quota`, `used`, `preserve` columns of `users`; `r2` the bucket; `pc`, `part`,
`sized` the upload of each blob, in the browser (`ticket`, `put`, `commit`) and
then inside the commit handler (`stat`, `tx`). `doomed`, `linked`, `drop`,
`refund`, `keep` and `todo` are the local values of the cron at the stage that
`cron` names. A handler is one action where it makes one statement or one
transaction that locks what it reads, and several where it waits in between:

- `commitUpload` is `CommitCheck` (row pending, body taken in, with the deadline
  and the pin of that moment), `Stat` (the Worker counts the objects, and only
  for a pending row), `CommitTx` (`commitBlobAndItem`: lock of the user, quota
  once more, update, insert, charge).
- `setPreserveNotes` is two actions, as the code runs two statements without a
  transaction, and the second may fail alone.
- `prune` runs in one transaction, but under READ COMMITTED each select reads
  its own snapshot: `PruneReadItems`, `PruneReadBlobs`, `PruneWrite`. The writes
  go by id to whatever the rows hold by then. The answer (`keep`) is used by
  `SweepList` and `SweepDelete`, object by object. `CronFails` ends the run at
  any point: a rollback before the write, a crash after it.

Abstractions: bytes are counted in objects (chunks and the trailer), because
that is what tells a whole file from a part of one; a browser uploads a file
once, so its item is named by the blob; one cron runs at a time; the sweep sees
one page of the listing; a member that may preserve is an admin (the code's
`requireAdmin`); removal of a member is atomic here, its own race is left to the
membership module. `GiveUp` stands for everything that stops an upload: closed
tab, lost request, expired ticket, failed handler.

### Outbox

`cache` and `sync` are IndexedDB and survive `Reload`; `tray`, `pending`, `tomb`
and `proc` are the page and do not. `srv` is the table of items. A text is known
by its version (`next` counts them). `proc[p]` says what handler `p` is waiting
for and carries its local values: the row it read, the request's answer. A step
is what runs between two waits (`await`), and the guards that keep a handler from
running twice are the code's refs (`sendingRef`, `flushingRef`,
`refreshSeqRef`). `Serve` and `Miss` are the server's side: a request is served,
refused, lost, or served and its answer lost, at any moment. `fate` is history:
what became of a note saved here, so that a property can tell a note that is
owed to the server from one that was saved with Sync off, forgotten, brought back
by Undo or a tap, or stored. `StaysInTray` speaks of a note from its Send until the
server has stored or refused it or it is forgotten (`Fresh`): three memories must
agree on it, the tray, the pending ids and the rows, and each is rebuilt from the
others at a moment of its own. A note that came back after a Forget or a refusal may
have lost its place among the pending ids, and a refresh may take it off (below).

Abstractions: every read of `navigator.onLine` is a free choice, since it may
be wrong either way; deadlines of notes lie beyond the behaviours (or preserve
is on); ephemeral and mesh messages are not stored and are left out; hub
envelopes are an unordered set that may lose any of them; a request in flight at
`Reload` has been served or never will be; the account switch may run in another
tab, which shares the same IndexedDB. `Together` bounds which sets of handlers
may be under way at the same time.

### Membership

`users`, `invite`, `device` and `session` are the tables; `chal` is the sealed
challenge a browser holds, `now` the clock. A call of the app sits in a slot of
`call` between what it has read and what it writes: `RegisterVerify` and
`RegisterWrite` are the two halves of `completeRegistration`, `LoginVerify` and
`LoginWrite` the checks of `loginVerify` and the insert of `completeLogin`,
`RemoveUser`, `RemoveCount` and `RemoveWrite` the admin check, the count and the
deletes of a removal, and so on. Transactions are no exception: they run under
READ COMMITTED and lock only what they write. Every write states what the
database checks by itself (a unique id, a foreign key, a row that is there) and
nothing else. `Fail` ends a call at any point, with its transaction rolled back.

`joined`, `contested`, `raced` and `duel` are history: who joined with an
invite, and which pairs of calls have overlapped. They let a property say what
holds when two calls do not overlap, and `InviteAdmitsOne` what fails when they do.

Abstractions: ids and tokens are random, so one that no row and no call holds
stands for a new one; a guest's id stands for the handle too; the look at the
session and the first read of a handler are one step; a member may add a device
if there has been one (a pairing needs one that approves, a recovery a vault
that one has stored: both are in `Vaults`); the passkey ceremony always
succeeds or the call fails. The audit log is left out (it is in
`Stores` and, with its failures, in `Requests`), and so is suspension, which no
handler sets.

### Stores

A method of a store is an operator that returns the store it leaves and its
answer. `DrizzleStore` keeps rows under the schema's foreign keys: `Commit` lets
a write through only if every key it names exists, `Cascade` and `Detached` are
what `removeUser` deletes and sets to NULL. `MemoryStore` has the maps of
`MemoryAuthStore`, the codes index among them. Every step of `Stores` is one
request of a service, with its checks and the store calls in their order, made on
both; `said` keeps answers that differ. `SameReads` asks both stores the reads
services make, `SameViews` what the services' lists show.

Two differences are known and excluded where they show: `removeUser` in memory
leaves the member's pairings and push subscriptions, so that an enrolment for a
member who was removed succeeds in memory and fails on Postgres. `SameAnswers`
and `SameRows` speak of members who exist. Left out are columns no check depends
on, and that `listAudit` stops at 100 rows on Postgres only. `withConnectRetry`
runs a whole method again when the connection failed, and is left out too.

Three assumptions hold for any data the program can have: ids of different tables
never coincide (`IdsAssumption`: they are random), the value for nothing is no id
and no row, sizes are numbers (`RowsAssumption`), and what a start calls for is
there (`StartsAssumption`: two handles, passkeys, tokens and invites for the start
with two members; a handle for the other).

### Vaults

Keys are numbers: the key of a vault, the words that open its recovery wrap and
the identity made with it carry the same one. `page` is the ceremony a browser's
page is in, with what it holds between two requests; `profile` a `GET /api/auth/me`
of another tab, whose answer (`hasVault`) may be old when
`dropStaleLocalVault` uses it. `CheckWrap` and `SaveWrap`, and `MayPut` and
`PutVault`, are the two statements of their handlers; `spoilt` notes where two
calls were past the first together. A verify of a pairing is a `call` of its own,
which outlives the page that made it (`Unheard`) and may overlap a second one:
`PairingVerify` finds the row, `AddDevice` adds the device and its session,
`SpendPairing` deletes the row, and `FailEnrol` is the function that dies before
either. `enrolled` counts what a pairing has enrolled and `slips` the verifies that
overlapped another or died half way; `SpentOnce` says that these are the only ways
to a second device. The digits are compared: a page goes on only
if what the other browser wrapped for is its own ephemeral key. Answers may be
lost after every write, challenges lost, pairings expire and are pruned. A
browser starts signed in to nobody or to one of the members who use it
(`VaultsAssumption`); `OwnKey` speaks of browsers that one member uses, and holds
in the middle of a ceremony as well as after it.

### HubRoom, HubLive and Mesh

The hub's handlers do not wait, so `HubRoom` has one operator for each:
`AcceptSocket`, `CloseSocket`, `RouteSignal`. A socket delivers in order until
its link is cut, of which neither end is told. `HubLive` adds the tab: subscribers
share a session, which waits for a ticket, a socket or a retry; `Silence` is the
timer that closes a socket nothing is heard on, `Closed` the browser's late close
event, `ServerClosed` the hub's. `late` remembers tabs whose live sign was put out
by the close event of an earlier session, which the code lets happen
(`hub-live.ts` does not tell sessions apart).

`Mesh` replaces the tab by a short version of it and adds the mesh. The session
is shared with the frame around the pages (`app-frame.tsx`), so socket and mesh
do not come and go together: `LeavePage` closes and drops the mesh and leaves the
socket up, `EnterPage` subscribes to a session that may have said its hello, which
is not said again, and only `Deliver` of a hello to a page that listens makes a
mesh. `OnHello` closes a mesh (`CloseMesh`) and makes one, `OnPresence` offers and closes, and each peer has a
chain of operations, of which `Offer`/`OfferSent`, `AcceptOffer`/`AnswerSent`,
`AcceptAnswer` and `ApplyIce` are what runs between two awaits. A connection is a
number and carries its signalling state, the other's description and the
candidates taken in; what WebRTC does with them is external. `blurred` is
history: a peer came back, or went, before the other end had worked off what it
was doing. The code does not promise a link then, since nobody offers again until
the next presence. `Meshed`, in `LinkComes`, is a page on the hub that has its mesh
or has a hello on its way.

### Requests

A call is a sequence of statements, as in `Membership`: the count and the insert
of an ask, the look and the insert of a request, which the partial index
`one_pending_per_user` guards, the read and the update of a decision, and the
audit entry after its transaction. `contested` and `unlogged` tell which
decisions overlapped and which failed before their entry.

### RateLimit

A token is `Window` parts and `Capacity` parts come back at each tick, so that
the code's fractions are whole numbers; what the code's floating point rounds is
left out, and so is a clock that goes back, which the code does not guard against.
`watched` is history: what one key spent since some moment. The limit is taken on
auth routes, by address (`handlers.ts:418`), and on sends, by member
(`service.ts:162`, `:217`); a member id is not a hash, so the bucket of every
member has the name `bucket:send:invalid`, each in an object of its own
(`Name`). A limiter that cannot be reached lets calls through, so nothing here
says that every call is counted.

### Files

A ciphertext is a record of what it was sealed with (key, nonce, associated data)
and opens with nothing else. `SendFile` packs, splits and seals; `PutTicket`/`PutPart`
and `GetTicket`/`Get` are the two requests of every part; `Open` to `After` the
reader, which takes the first part that does not come for the end. Any request
may fail and any ticket expire, and the item may be deleted and its row pruned.
`Prune` starts a sweep, which keeps the prune's answer (`sweep.keep`), lists the
bucket and deletes what it listed one by one, whatever rows there are by then; it
may end or die anywhere. A file that loses a part while its row is there is
remembered in `caught`: `FileOpensWhole` claims of it only that it opens whole or
not at all. `Stat` counts what a list of the bucket
returns; a list is cut off at 1000 objects, and a file has 101 at most. The bytes of
a file, the size of a chunk, the files that are sent and the numbers of faults are
parameters; `FilesAssumption` and `NothingAssumption` ask that a file is a sequence,
that the trailer's name is no number, and that `null` is none of the values it is
compared with.

### Ceremonies

A request takes the cookies when it is sent, and its answer's cookies go into the
jar when it arrives (`Hears`); answers are a set, so they arrive in any order.
`page` is where each tab is, with the challenge it was given. The passkeys'
signature counters (`lib/auth/service.ts:493`) are left out: a cloned passkey is
refused for its counter, which no property here speaks of. A request is
answered when it is sent: how two overlap on the server is `Membership`'s
subject. `hasLocal`, the cached profile and the routes of recovery and pairing
are left out. What the properties do not claim, because the code does not do it:
a registration, unlike a login, does not post its challenge and fails when
another tab replaces the cookie; a logout takes the cookie of other tabs'
ceremonies along; a late `me` answer may bring an older, still living session back
into the jar after a second sign-in.

### Shares, Updates, Playground

`Shares`: an inbox of one place, sends in two stages because `sendPlain` looks at
`sendingRef` before it reads the vault and sets it after. A text counts as posted once
`sendPlain` is past its guards (`app/page.tsx:576`) and has an id of its own: what
becomes of it then, a tab that closes before the note is in the outbox (`640`)
included, is `Outbox`'s subject and not counted as a lost share. `lost` says why a share
will not be sent: replaced, refused, a send under way, a tab that left.
`Updates`: one worker installs, one waits, one is active; `Loaded` is what a page
knows, and `flag` lives in the tab's session storage; `took` remembers that a page
took it. An install may fail, and the version is then found again. After a Reload
whose 350 ms timer comes first, a worker that was installing at the load is missed
until the next `updatefound`. `OffersAreNew` speaks of the worker a tap was for
(the one that waited, or the one just active) on the page the tap loads; a page
loaded after that one is offered it again (below). `Playground`: a handler reads and writes in two transactions;
saving an edit brings a note back that was forgotten meanwhile, and the board is
discarded when it opens in a browser with a vault.

## Runs

| run | asks | answer |
|---|---|---|
| `storage_accounting` | do commits, prunes, sweeps, failures and removals keep the accounts and the files? | holds (538,471 states): `UsedCoversFiles`, `QuietFilesIntact`, `ImplementsLedger` |
| `storage_reclaim` | does what nobody can reach go away? | holds: `GarbageReclaimed` (liveness) |
| `outbox_races` | is a sent note kept, does Sync off hold, and does the tray go on showing it? | holds (1,260,602 states): `SentNoteKept`, `OffStaysHere`, `StaysInTray` |
| `outbox_flush` | does the queue drain? | holds: `QueueDrains` (liveness) |
| `membership_joining` | does an invite make one member, does it stay shut, and do foreign keys hold? | holds: `TypeOK`, `SingleUse`, `ShutStaysShut` |
| `membership_sessions` | does an admin remain, is a revoked device out, does a session stay gone? | holds: `AdminRemains`, `RevokedHasNoSession`, `SignedOutStaysOut` |
| `membership_invite` | is an invite single-use without any condition? | no: two registrations both find it open |
| `stores` | do the two stores answer and show the same? | holds (173,735 states): `SameAnswers`, `SameRows`, and every foreign key |
| `vaults` | what are a phrase, a pairing and a browser's keys good for? | holds (2,592,912 states): `WordsOpen`, `OwnKey`, `PairedAlike`, `SpentOnce` |
| `hub_live` | do presence and the live sign follow the sockets, and is a tab greeted again? | holds: `PresenceTrue`, `LiveFollows`, `LiveAgain` (liveness) |
| `mesh_link` | is no connection left open, and does a link come? | holds (155,318 states): `NoneLeftOpen`, `LinkComes` (liveness) |
| `parts` | the seven small parts | holds (1,205,533 states): the twelve properties that `MCParts.cfg` names |

### Known disagreements

The documents and the code disagree in more places than `membership_invite`
shows. All but the last can be reproduced on the modules by stating the document's
sentence as a property; none has a run of its own.

- A page loaded once more after the one a tap on Reload brought has no flag left to
  take, and is offered the worker of that tap again if it still waits
  (`sw-update.ts:23`, `121`; `sw-update.ts:60` "After Reload, ignore the worker we
  just asked to take over."). And once `updatefound` armed the page that did take
  the flag, the `controllerchange` of that worker lights the chip (`134`), early
  for the later version it announces.
- An item pinned between the prune's select and its delete is deleted
  (`drizzle-store.ts:1085`; `docs/THREAT-MODEL.md:71` "Pinned items are not expired.").
- The sweep takes objects of an upload that began after the prune had answered
  (`apps/edge/src/prune.ts:24`; `docs/SPEC.md:410` "deletes orphaned R2 objects"). The
  upload is then committed with a part missing and opens as nothing: `QuietFilesIntact`
  and `FileOpensWhole` except it (`exposed`, `caught`).
- A commit between the prune's two selects leaves an item without its blob
  (`drizzle-store.ts:1053`; `docs/RUNBOOK.md:54`).
- A flush writes back the row it read, over an edit saved meanwhile
  (`flush.ts:28`; `docs/plans/2026-08-25-offline-sync-design.md:33`).
- A held note that is forgotten while a Sync tap's POST is under way is stored
  (`app/page.tsx:940`; `docs/plans/2026-08-25-offline-sync.md:246`).
- A refresh that runs while Undo posts a note again drops it from the pending ids,
  since it is not on screen yet, and then, with its older list, from the tray, until
  the next refresh (`app/page.tsx:1000`, `343`; `205` "Notes this browser wrote that a
  slower GET must not drop"). `StaysInTray` speaks of notes that never came back from
  a Forget or a refusal.
- A pairing enrols a second device when its verify dies after the device was added
  and before the row is deleted, or when two verifies overlap
  (`lib/auth/service.ts:611`-`631`). No document says that a pairing is good for one
  device only; `SpentOnce` says how many there can be.
- A decision whose call fails after its transaction is in no log
  (`service.ts:317`; `docs/SPEC.md:183`): `DecisionsLogged` excepts it.
- The open asks pass `ASK_OPEN_MAX` by overlapping calls
  (`lib/auth/service.ts:118`): `AsksNearCap`, in `PartsOK`, says by how many.
- A page that is left and comes back while its session lives on (the frame is
  subscribed, `app-frame.tsx:57`) hears no hello, has no mesh, and ignores offers until
  the hub is reached again (`app/page.tsx:528`, `464`; `docs/SPEC.md:374` on when a
  data channel "stays closed even when signalling looks fine"). `LinkComes` speaks of
  pages that have a mesh or a hello on its way (`Meshed`).
- Recovery makes a new identity and keeps it in the browser only; the server goes
  on with the one of the set-up (`app/recover/page.tsx:87`; `docs/RUNBOOK.md:21`
  "recovery rotates the identity key").

### Bounds

`MCBlobStore` has two uploads of one member, one of two parts and one of one,
with a grant of two: together they do not fit, so the second check of the quota
matters, and either may be the one a prune, sweep or removal meets. Three
moments of time are enough for an age and a deadline of one to pass and for a
cron run on each side of it. `MCReclaim` gives up the second upload for a second
admin (removal and preserve) and liveness. `MCOutbox` has one note (handlers
only meet on a note; work on several rows is covered by the independence of
rows) and two versions, which is what an edit against an older text needs.
`Races` pairs the handlers that write the same rows; `BesideFlush` puts every
handler beside the flush. Three handlers at once are beyond the time the runs
have. At most one envelope is on its way (none in the liveness run).

`MCJoining` has one invite, two guests and one admin; a guest that joins, leaves
and makes room for the other is enough for two members of one invite, and two
calls for every overlap of two. `MCSessions` has two admins, which the last-admin
rule needs, no guests, and time for a session to slide once and then to meet its
hard cap. `MCSingleUse` has a third device, so that both guests stay. Ids, tokens
and calls are symmetric. Behaviours end when ids run out, hence no check of
deadlock here and in the runs below that end the same way.

`MCStores` starts twice: from the seeded admin, and from a member with a vault, a
file and a request, so that four calls (`MaxCalls`) reach the cascades of a removal
as well as the joining of a member; one tick (`MaxClock`) lets everything expire.

`MCVaults` has two members and three browsers, one of them shared by both; one
browser has a second tab (`Tabs`); one code, one pairing and two keys: one that was set up and one
that a second set-up page made, which is what a lost or overtaken `PUT` needs. Two
verifies may be under way, alike but for their names (`AlikeCalls`), and one may
overlap the other or die half way (`MaxSlips`). The constraint `Apart` stops where
three browsers are in the middle of a ceremony, or where a ceremony other than
wrapping a key runs beside a verify; the proofs have no such bound.

`MCHubLive` has two tabs on two devices and three sockets, so that a device can
hold two sockets while the first is not yet known to be dead; two messages may be
on their way on a socket (`MaxDown`), one fault happens (`MaxFaults`: a failed
ticket, a refused socket or a dead link), and in one tab subscribers come and go.
`MCMesh` has two devices and three sockets: one socket is lost, with its page or
without (`MaxFaults`), and one page is left, of the same device or the other
(`MaxLeaves`). Its constraint `Clear` stops where `blurred` holds, which stays so:
`LinkComes` has `blurred` on its right side, and `NoneLeftOpen` says nothing then.
`FirstFree` takes the first of the free sockets, which differ in their names only.

`MCParts` instantiates `Parts`, seven parts that share no variable. Each behaviour is of one part,
while the others keep their initial state, so that the state count is a sum and
not a product. Two tabs
each, which is what every race in them needs; a file of up to three chunks with its
trailer, two faults and two ticks (`MaxTicks`), so that a sweep's keep set, an upload
and a reader's ticket can be stale in turn; a cap of one note with three notes, so that two tabs can
pass it; a bucket of two tokens in a window of three ticks, so that a token is a
fraction of the window; an approval limit of one ask with two askers.

Every bound is a constant named where it is declared (`PendingMaxAge`, `BlobTTL`,
`ResetTTL`, `Max...`).

### Fairness

`BlobStore`: time passes (weak fairness of `Tick`), a cron starts every night
(weak, `PruneReadItems`), and its later stages are strongly fair: each may fail
on any night, and does not fail on every one; the Worker's schedule is what
justifies it (`apps/edge/wrangler.toml`). Uploads have no fairness at all: a
browser may stop for ever.

`Outbox`: a flush starts again and again (`hello`, `online`, `visibilitychange`)
and a request that is sent again and again is served once (strong fairness of
`Flush`, `PostCached`, `Serve` of the flush); what the page does on its own
after an answer is weakly fair. `QueueDrains` gives up when the user turns Sync
off, forgets the note, or it leaves the queue otherwise.

`HubLive`: timers fire (`Again`, `Silence`), a socket that is up delivers, and the
browser and the hub notice in the end that one is gone (`Closed`, `ServerClosed`):
weak. `Ticket` and `Accept` wait for nobody in the code; they are strongly fair
because the bounds on sockets and on messages under way disable them at times.
Nothing is assumed of the user or of the network: a link may die whenever the
bound allows, a faulty request fail.

`Mesh`: weak fairness of the reconnect, of delivery, of the close events, of the
operations on a peer's chain and of the candidates (`Trickle`), each of which the
event loop runs once it is there.

The other modules have safety properties only and assume no fairness.

## Proofs

`BlobStoreProofs` proves, from `BytesAssumption` (the sum is additive and counts
a line for its bytes), `LimitsAssumption` and `ConstantsAssumption`:

- `Typing`: `TypeOK` together with `ChargedOnce`. `TypeOK` alone is inductive
  but is not enough for the rest: `ChargedOnce` says that what a prune has read
  to give back is still on its owner's bill for as many bytes and will be dropped,
  which is why the decrement never gives back too much, although it was read in
  an earlier step.
- `Accounting`: `Spec => ImplementsLedger`. Each action is mapped to a charge
  (`CommitTx`), a strike (`PruneWrite`), a closed account (`RemoveUser`) or a
  stutter.
- `Solvency`: `Spec => []UsedCoversFiles`, from `Accounting` and the ledger's own
  invariant, that the figure covers its bill; the bill's bound needs the additivity
  of `Bytes`.
- `QuietFiles`: `Spec => []QuietFilesIntact`, with `QuietKept` as the inductive
  strengthening: at each stage of a cron run, a file that met no run half-uploaded
  is among what that run keeps.

`MembershipProofs` proves, from `ConstantsAssumption` alone (disjoint ids,
positive lifetimes):

- `Typing`: `TypeOK`, with the foreign keys and the hard cap, together with
  `CallsSound`: what a call is about to write names a row's id and not nothing.
- `AnAdminRemains`: `Spec => []AdminRemains`. By itself it is not inductive, since
  a removal deletes what it counted earlier; `LastRemoval` adds that, unless
  removals have overlapped, one removal of an admin at most is about to write and
  would leave another admin.
- `InviteIsSingleUse`: `Spec => []SingleUse`, with `SpentIsClosed` (an invite that
  made a member is redeemed or deleted) and `OneRedemption` (one call at most is
  about to redeem it, and only if it has made nobody).
- `ShutForGood`: `Spec => ShutStaysShut`. Neither `revokeInvite` nor the redemption
  asks in its update what the row has become since it was read. That no order of
  the two opens an invite again, and that no registration begins with one that is
  shut, is `RowStaysShut` (whatever is written to such a row, it is shut then) and
  `JoiningShuts`, which follows the one write that makes a member.
- `AdmittedAreFew`: `Spec => []InviteAdmitsFew`, if calls are finitely many. The race
  that `membership_invite` exhibits is bounded: an invite makes no more members
  than calls can be under way at once. `PlacesLeft` is inductive: the members it has
  made and the calls still past their look at it are together no more than that.
  No run repeats it; TLC found it to hold for three guests and two calls.
- `RevokedIsOut`: `Spec => []RevokedHasNoSession`, with `LoginsRaced`: a login that
  is about to write for a revoked device has been noticed.
- `NoSessionReturns`: `Spec => SignedOutStaysOut`: no step begins a session under
  a token that a call still holds, and the update of `touchSession` inserts nothing.

The proofs about calls rest on `Moves`, which says at which places the steps of
a group may leave a call: a step that cannot put one where an invariant speaks
of it keeps the invariant by a single lemma.

`OutboxProofs` proves, from `BoundsAssumption` (bounds are numbers, `Together`
is some family of sets of handlers, `NoNote` is no note), so for any number of
notes and versions and for any handlers under way at once, where the runs have two:

- `TypeCorrect`: `TypeOK`, by `Typed`, which adds what a handler holds at each of
  its waits and which rows it may have in hand there.
- `SentNotesKept`: `Spec => []SentNoteKept`. That the row of a note is dropped only
  once the server has it rests on whoever drops it, who acts on what it was told
  some steps ago. `StoredWhenSaid` says that whatever tells so (a row, a list, an
  answer, an envelope, a row about to be written back) tells of a note that was
  stored, and `UnwrittenUnknown` that nobody speaks of a note before it is written.
- `HushedStaysHere`: `Spec => OffStaysHere`. `HushedApart` keeps every handler that
  can post away from a note saved with Sync off, and `OpenUntilKept` says the same
  of a note whose intent the composer is about to read.
- `SentStaysInTray`: `Spec => StaysInTray`. `OnScreen` says of every fresh note what
  the tray's three memories must hold together: it is shown and pending and has no
  tombstone unless its Forget is under way, that Forget has not come to its row, and
  no envelope names it. That it is pending again after a reload rests on
  `SentNotesKept`, that no answer takes it off on `StoredWhenSaid`, and that an edit
  taken back puts back a row that was shown on `EditShown`.

`VaultsProofs` proves, from `VaultsAssumption`, for any members, browsers, codes and
bounds:

- `TypeCorrect`: `TypeOK`, with `Holds`: what a page has in memory at each stage.
- `WordsKept`: `Spec => []WordsOpen`, with `OneWriter`: past the check of `putVault`
  a member has no vault yet, unless two set-up pages of that member overlapped.
- `OwnKeyHeld`: `Spec => []OwnKey`. The key of a browser may come out of a pairing,
  so the invariant follows it there: what was wrapped, in a row or in a page, is the
  key of the account it was wrapped from (`WrapsTrue`), for a browser that member
  uses (`Rows`, `Pairs`, `AmongUsers`).
- `EnrolledForTheirs`: `Spec => PairedAlike`, with `DigitsTrue`: a row that no two
  wraps met on has one wrap for good, the one the page compared and the challenge
  was given for.
- `PairingSpentOnce`: `Spec => []SpentOnce`, for any number of verifies at once. What
  is counted is not what has been enrolled only: `Credit` adds the verifies that are
  still about to add a device, and says that a row that is still there, with no verify
  under way, has enrolled nothing but for its slips, so that the next one is paid for.

`PartsProofs` proves of `Requests`, from `RequestsAssumption` (bounds are numbers, grants
positive, calls finitely many):

- `TypeCorrect`: `AsksOK`, with `AsksNearCap`: the open asks and the calls about to
  insert one are counted together, which is what an insert cannot change.
- `SpaceIsGranted`: `[]SpaceAsApproved`. `PendingLast` says that a pending request
  is its member's newest, so that its approval is the one that counts, and
  `DecidedAlone` that a call about to decide finds what it read.
- `DecisionsStay`: `DecidedForGood`, from `DecidedAlone`; `DecisionsAreLogged`.

and of `RateLimit`, from `LimitAssumption` alone (positive limits, names that differ),
for any number of keys:

- `LimitTypes`: `TypeOK` of `RateLimit`. `KeysApart`, on which the rest leans, says
  that two keys never share a bucket.
- `BalanceHolds`: `Spec => []Balance`. At the last call of the key that is
  watched, what it spent and what its bucket holds add up, from above and from
  below, to what it had and what came back. Neither property below is inductive:
  both speak of what was spent, and the next call is decided by what is stored.
- `TheLimitHolds`: `Spec => []LimitHeld`, the half from above, and
  `RefusedWithCause`: `Spec => []RefusedForCause`, the half from below.

`HubLiveProofs` proves, from `RoomAssumption`, `LiveAssumption` and
`SocketAssumption`, for any number of devices, tabs, subscribers and sockets:

- `TypeCorrect`, with `SessionHeld`: a tab has one session at most, and its socket
  is its own.
- `PresenceHolds`: `[]PresenceTrue`. The property speaks of the moment when all has
  arrived; `Told` says it of every moment: the last presence on its way on a socket,
  or the one last seen where there is none, names the devices in the room.
- `LiveIsTrue`: `[]LiveFollows`, with `Current`: a socket that is not closing is the
  one that the session of its tab holds.

`MeshProofs` proves, from `RoomAssumption` and `MeshAssumption`, for any number of
devices, sockets, meshes and connections, and whichever of two devices offers:

- `TypeCorrect`: `TypeOK`. A link is made by what a chain holds, so `RoomFits`
  follows a signal from the page that sends it (nobody signals to itself, and the
  hub delivers to the device that is named) and `LinksFit` through the chain to the
  connection; `Numbered` says that the mesh made at a hello is a new one.
- `NoConnectionLeftOpen`: `[]NoneLeftOpen`. `OpenKnown` names the one mesh and link
  an open connection belongs to; `ChainsKnown` says that, until something was
  blurred, a mesh that is not its page's any more has nothing left to do, and so
  opens nothing that nobody would close.

`PartsProofs` also proves about five more modules, each from its own assumption
(`FilesAssumption` and `NothingAssumption`, `SharesAssumption`, `UpdatesAssumption`,
`PlayAssumption`, `CeremoniesAssumption`: bounds are numbers, tabs or slots finite where they are
counted, the value for nothing is not one of the others), for any number of tabs:

- `SharesSentOnce`: `[]SharedOnce`. `OnePlace` says that a text that is not lost is
  in the inbox, in the hands of a send, or posted, and in one of these only;
  `OneSend` that one send in all tabs has it, which is what a step of one tab needs
  to know of the others.
- `ChipsAreForNew`: `[]OffersAreNew`. `InOrder` orders the workers by age, and
  `HeardSince` says that the page a tap on Reload loads listens to nothing until it
  was told of a later version than the one that was tapped for (`StandingIs`), which
  stays so when that version fails to install.
- `CapHolds`: `[]CapNearlyHeld`. `CapOfAll` counts the notes and those that a
  handler has decided to write together, so that the put changes nothing; `OneKind`
  makes sure that an edit and the note it replaces count as one.
- `PasskeysAsMeant`: `[]EnrolledAsMeant`, and `LoginsUndisturbed`:
  `[]LoginUndisturbed`. Both speak of an answer and of the page that will hear it.
  `AnswersFit` follows every answer under way: the page waits for it at a place
  where nothing else can move it, the challenge in its cookie is of the purpose and
  for the member of that page, and a refusal for want of a challenge names one that
  ran out. `OneAnswer` says that a page waits for one answer of a kind, `PageFits`
  that a prompt shows the handle its challenge was sealed for, `KeysFit` that a
  passkey is for the member of its challenge, whatever the cookie was by then.
- `FilesOpenWhole`: `[]FileOpensWhole`, for files of any length. What the model's
  operators do with such a file comes first: joining its chunks gives the file
  (`JoinedAgain`), its sealed parts have the names the reader asks for
  (`PartsShape`), and opening some of the first parts gives the whole file or
  nothing (`OpensWhole`). `FlattenSeq` and `FoldLeft` choose a recursive function;
  that it exists is proved by induction over a set of numbers (`Induction`, from
  the well-foundedness of `<`), which needs no operator as a parameter. Then
  `FileInv`: `MadeOfSent` says that whatever there is of a file, in the bucket, in a
  list, on its way or with the reader, was made from what was sent; `PartsThere`
  that while its row is committed and no sweep has caught it no part is missing,
  which the commit learns from what the sender has put (`Progress`). A sweep deletes
  by the rows of its prune, and a file whose part it takes is either gone or caught.
  A reader that was not hurt has therefore got every part when it asks for the
  trailer (`Fetching`), and a hurt one opens all of the file or nothing.
- `FilesTyped`, `SharesTypeCorrect`, `UpdatesTypeCorrect`, `PlayTypeCorrect`,
  `CeremoniesTypeCorrect`: their type invariants.

`StoresProofs` proves, from the three assumptions of `Rows` and `Stores`, for any
number of members, rows, ids, calls and deadlines:

- `StoresTyped`: `Spec => []TypeOK`, the foreign keys of Postgres among it.
- `AnswersAlike`: `Spec => []SameAnswers`, and `RowsAlike`: `Spec => []SameRows`.

All three follow from one inductive invariant, `Sound`, that relates the two stores
table by table (`Alike`). Neither property is inductive: what a store answers next
depends on every row, also on those nobody asks for at the moment. For users,
invites, asks, items, files, requests and the log `Alike` says that the tables are the
same up to the columns each store keeps elsewhere (memory has vaults and codes in
maps of their own and writes the handle into a request). For passkeys, sessions,
pairings, codes and subscriptions memory may hold more, and `Alike` says what: rows
of members who are gone, or of passkeys that are. That these are never seen again
rests on two facts `Sound` carries along: every id in either store has been given
(`spent`) and none is given twice, so that no later member inherits them; and no
caller knows a passkey that only memory has (`known` and `Left` are disjoint).

The proof has three layers. `...Goes` says of each store method that from alike
stores it answers alike and leaves alike stores, with no key broken on Postgres, or
that it differs for a member who is gone; removal (`RemoveUserGoes`) and the cron
(`PruneGoes`, whose refunds are sums over sets of files: `BytesAreNat`,
`RefundedAlike`) are the long ones. `...Keeps` says of each request, with its checks
and its calls in order, that it keeps `Sound`. `SoundTyped`, `SoundReads` and
`SoundViews` read the three properties off it. The two starts are built of the same
store methods, so `InitSound` uses the first layer again.

`PartsProofs` ends with the composition. `PartsAreThemselves`: `PartsSpec` implies the
specification of each part, since a step of one leaves the variables of the
others alone. From it and the theorems above, `PartsTyped`: `PartsSpec => []PartsOK`,
and `PartsHold`: the other eleven properties of the run `parts`. What is proved of a
part alone is thereby proved of the very specification that TLC checks.

Every inductive invariant was checked by TLC on the instance of its run, or on a
smaller one, before it was proved.

### Only model-checked

- `GarbageReclaimed`, `QueueDrains`, `LiveAgain` and `LinkComes`: liveness under
  fairness is out of the prover's reach.

Every invariant and every other action property that a passing run checks is also
stated by a theorem. The type invariants of `Outbox`, `Vaults` and `HubLive` are
proved (`TypeCorrect`), and no run repeats them.

## Plan

Done: every module of the table, the theorems above. Next, in this order:

1. deadlines of notes in `Outbox`;
2. the failures of WebRTC calls in `Mesh`.

## Not modelled

Cryptography (pure functions over WebCrypto; how files, pairing and recovery use
them is in `Files` and `Vaults`), schemas, push delivery, the adapters of routes
that pass their body to one service call, rendering and styles; and of the
modelled parts what the sections above name. `PROJECT.json` lists every component
with its status, and under `hazards` the places where the code can go wrong in ways
a test would hardly reach, with the property that covers each or the reason why
none does.
