----------------------------- MODULE Membership -----------------------------
(***************************************************************************)
(* Who is in: invites, registrations, devices, sessions and the removal of *)
(* members.  A call of the app reads rows in one statement and writes in   *)
(* another, with other calls in between; transactions run under READ       *)
(* COMMITTED and lock nothing that they only read, so they are no          *)
(* exception.  A step here is what a call does between two such points.    *)
(*                                                                         *)
(* Ids and tokens are random, so none is drawn twice: one that no row and  *)
(* no call holds any more stands for a new one.  A registration makes up   *)
(* the id of the member before there is one: a guest stands for it.        *)
(***************************************************************************)
EXTENDS Naturals

CONSTANTS
    Admins,         \* users that seed.ts has inserted
    Guests,         \* ids that registerOptions makes up
    Invites, Devices, Tokens,
    Calls,          \* bound: calls under way at once
    InviteTTL,      \* INVITE_TTL_MS
    ChallengeTTL,   \* CHALLENGE_TTL_MS
    Sliding,        \* SESSION_SLIDING_MS
    HardCap,        \* SESSION_HARD_CAP_MS
    MaxTime,        \* bound: the clock stops there
    None            \* no user, invite, device or token

Users == Admins \cup Guests

ASSUME ConstantsAssumption ==
    /\ Admins \cap Guests = {} /\ Admins # {}
    /\ None \notin Users \cup Invites \cup Devices \cup Tokens
    /\ {InviteTTL, ChallengeTTL, Sliding, HardCap} \subseteq Nat \ {0}
    /\ MaxTime \in Nat

VARIABLES
    now,        \* the clock
    users,      \* ids of the rows of users
    invite,     \* rows of invites: not yet issued, sent, or deleted
    chal,       \* chal[u]: the sealed challenge of a ceremony for u
    device,     \* rows of devices; without an owner there is none
    session,    \* rows of sessions; without a device there is none
    call,       \* call[c]: what call c is about to write, and for whom
    joined,     \* history: joined[i], the members that invite i has made
    contested,  \* history: invites whose redemptions have overlapped
    raced,      \* history: devices revoked during a login of theirs
    duel        \* history: two removals of admins have overlapped

rows == <<users, invite, device, session>>
history == <<joined, contested, raced, duel>>
vars == <<now, rows, chal, call, history>>

Idle == [at |-> "idle", user |-> None, invite |-> None, device |-> None,
         token |-> None, time |-> 0, doomed |-> {}]

NoInvite(state) ==
    [state |-> state, by |-> None, exp |-> 0, redeemed |-> FALSE, revoked |-> FALSE]
NoDevice == [owner |-> None, revoked |-> FALSE]
NoSession == [device |-> None, created |-> 0, exp |-> 0]

Init ==
    /\ now = 0
    /\ users = Admins
    /\ invite = [i \in Invites |-> NoInvite("new")]
    /\ chal = [u \in Users |-> [invite |-> None, exp |-> 0]]
    /\ device = [d \in Devices |-> NoDevice]
    /\ session = [s \in Tokens |-> NoSession]
    /\ call = [c \in Calls |-> Idle]
    /\ joined = [i \in Invites |-> {}]
    /\ contested = {} /\ raced = {} /\ duel = FALSE

-----------------------------------------------------------------------------
(* Reading the tables. *)

\* inviteState: "ok".
Open(i) ==
    /\ invite[i].state = "sent"
    /\ ~invite[i].revoked /\ ~invite[i].redeemed
    /\ invite[i].exp > now

HasDevice(u) == \E d \in Devices : device[d].owner = u

\* requireSession, requireAdmin.
Passes(s) ==
    /\ session[s] # NoSession /\ session[s].exp > now
    /\ ~device[session[s].device].revoked

UserOf(s) == device[session[s].device].owner
SignedIn(u) == \E s \in Tokens : Passes(s) /\ UserOf(s) = u
AdminSignedIn == \E u \in Admins : SignedIn(u)

\* nextSessionExpiry, for a session that is not past its hard cap.
NextExpiry(created, time) ==
    IF time + Sliding < created + HardCap THEN time + Sliding ELSE created + HardCap

\* Call c starts, or is over: it has answered, failed or been cut off.
Start(c, what) ==
    /\ call[c] = Idle
    /\ call' = [call EXCEPT ![c] = what]

End(c) == call' = [call EXCEPT ![c] = Idle]

At(place) == {c \in Calls : call[c].at = place}

-----------------------------------------------------------------------------
(* Writing them. *)

FreeDevices == {d \in Devices : device[d] = NoDevice /\ \A c \in Calls : call[c].device # d}
FreeTokens ==
    {s \in Tokens : session[s] = NoSession
                        /\ \A c \in Calls : call[c].token # s /\ s \notin call[c].doomed}

\* A session of a device begins.
Begin(d, time) ==
    \E s \in FreeTokens :
        session' = [session EXCEPT ![s] =
                       [device |-> d, created |-> time, exp |-> NextExpiry(time, time)]]

\* A device and its first session.
Enroll(u, time) ==
    \E d \in FreeDevices :
        device' = [device EXCEPT ![d].owner = u] /\ Begin(d, time)

\* Rows of sessions are deleted.
SignOut(S) == session' = [s \in Tokens |-> IF s \in S THEN NoSession ELSE session[s]]

SessionsOf(D) == {s \in Tokens : session[s].device \in D}

-----------------------------------------------------------------------------
(* Invites and registrations. *)

\* createInvite.  Its insert may well come later than the look at the session:
\* no other step touches the new row meanwhile but the removal of its issuer,
\* and that makes the insert fail.
IssueInvite(u, i) ==
    /\ u \in Admins /\ SignedIn(u) /\ invite[i].state = "new"
    /\ invite' = [invite EXCEPT ![i] =
                      [NoInvite("sent") EXCEPT !.by = u, !.exp = now + InviteTTL]]
    /\ UNCHANGED <<now, users, chal, device, session, call, history>>

\* revokeInvite: it looks at the row, and then writes to it without a condition.
RevokeInvite(c, i) ==
    /\ AdminSignedIn
    /\ invite[i].state = "sent" /\ ~invite[i].redeemed
    /\ Start(c, [Idle EXCEPT !.at = "close", !.invite = i])
    /\ UNCHANGED <<now, rows, chal, history>>

RevokeInviteWrite(c) ==
    /\ call[c].at = "close"
    /\ LET i == call[c].invite
       IN  invite' = IF invite[i].state = "sent" THEN [invite EXCEPT ![i].revoked = TRUE]
                     ELSE invite
    /\ End(c)
    /\ UNCHANGED <<now, users, chal, device, session, history>>

\* registerOptions: a challenge that carries the invite and the new id.
RegisterOptions(g, i) ==
    /\ chal[g].exp = 0 /\ Open(i)
    /\ chal' = [chal EXCEPT ![g] = [invite |-> i, exp |-> now + ChallengeTTL]]
    /\ UNCHANGED <<now, rows, call, history>>

\* Mutation of Redeemable: the look at the invite in registerOptions is enough.
RedeemableOnce(g) == chal[g].exp > now

\* registerVerify: a challenge in time, and in the transaction an open invite.
Redeemable(g) == chal[g].exp > now /\ Open(chal[g].invite)

RegisterVerify(c, g) ==
    /\ chal[g].invite # None /\ Redeemable(g)
    /\ Start(c, [Idle EXCEPT !.at = "join", !.user = g, !.invite = chal[g].invite, !.time = now])
    /\ contested' = IF \E e \in At("join") : call[e].invite = chal[g].invite
                    THEN contested \cup {chal[g].invite} ELSE contested
    /\ UNCHANGED <<now, rows, chal, joined, raced, duel>>

\* completeRegistration, its inserts: the id must be new, the invite is marked
\* as redeemed whatever it is by now.
RegisterWrite(c) ==
    /\ call[c].at = "join" /\ call[c].user \notin users
    /\ LET i == call[c].invite
       IN  /\ invite' = IF invite[i].state = "sent" THEN [invite EXCEPT ![i].redeemed = TRUE]
                        ELSE invite
           /\ joined' = [joined EXCEPT ![i] = @ \cup {call[c].user}]
    /\ users' = users \cup {call[c].user}
    /\ Enroll(call[c].user, call[c].time)
    /\ End(c)
    /\ UNCHANGED <<now, chal, contested, raced, duel>>

-----------------------------------------------------------------------------
(* Devices. *)

\* adminEnrollOptions and adminEnrollVerify: the first device of an admin.
FirstOptions(u) ==
    /\ u \in Admins \cap users /\ ~HasDevice(u)
    /\ chal' = [chal EXCEPT ![u].exp = now + ChallengeTTL]
    /\ UNCHANGED <<now, rows, call, history>>

FirstVerify(c, u) ==
    /\ u \in Admins /\ chal[u].exp > now /\ ~HasDevice(u)
    /\ Start(c, [Idle EXCEPT !.at = "first", !.user = u, !.time = now])
    /\ UNCHANGED <<now, rows, chal, history>>

FirstWrite(c) ==
    /\ call[c].at = "first" /\ call[c].user \in users
    /\ Enroll(call[c].user, call[c].time)
    /\ End(c)
    /\ UNCHANGED <<now, users, invite, chal, history>>

\* finishDeviceEnroll: one more device, after a pairing with one that the member
\* has or by a recovery of the vault that one has stored.
AddDevice(u) ==
    /\ u \in users /\ HasDevice(u)
    /\ Enroll(u, now)
    /\ UNCHANGED <<now, users, invite, chal, call, history>>

\* revokeDevice: the device and its sessions, in one transaction.
RevokeDevice(c, d) ==
    /\ AdminSignedIn
    /\ Start(c, [Idle EXCEPT !.at = "revoke", !.device = d])
    /\ UNCHANGED <<now, rows, chal, history>>

RevokeDeviceWrite(c) ==
    /\ call[c].at = "revoke"
    /\ LET d == call[c].device
       IN  IF device[d] # NoDevice /\ ~device[d].revoked
           THEN /\ device' = [device EXCEPT ![d].revoked = TRUE]
                /\ SignOut(SessionsOf({d}))
                /\ raced' = IF \E e \in At("login") : call[e].device = d
                            THEN raced \cup {d} ELSE raced
           ELSE UNCHANGED <<device, session, raced>>
    /\ End(c)
    /\ UNCHANGED <<now, users, invite, chal, joined, contested, duel>>

-----------------------------------------------------------------------------
(* Sessions. *)

\* Mutation of MayLogIn: a revoked device may.
AnyDevice(d) == device[d] # NoDevice

\* loginVerify: what it asks of the device.
MayLogIn(d) == device[d] # NoDevice /\ ~device[d].revoked

LoginVerify(c, d) ==
    /\ MayLogIn(d)
    /\ Start(c, [Idle EXCEPT !.at = "login", !.device = d, !.time = now])
    /\ UNCHANGED <<now, rows, chal, history>>

\* Mutation of Referable: sessions have no foreign key.
ReferableAlways(d) == TRUE

\* The foreign key of a session.
Referable(d) == device[d] # NoDevice

\* completeLogin: the session needs a row of the device, and nothing more.
LoginWrite(c) ==
    /\ call[c].at = "login"
    /\ Referable(call[c].device)
    /\ Begin(call[c].device, call[c].time)
    /\ End(c)
    /\ UNCHANGED <<now, users, invite, chal, device, history>>

\* me: the session slides, or ends at its hard cap, by a second look at the
\* clock.
Me(c, s) ==
    /\ Passes(s)
    /\ Start(c, [Idle EXCEPT !.at = "me", !.token = s, !.time = now])
    /\ UNCHANGED <<now, rows, chal, history>>

\* Mutation of Touchable: a row that is gone is written again.
TouchableAlways(s) == TRUE

\* touchSession updates a row that is there.
Touchable(s) == session[s] # NoSession

MeWrite(c) ==
    /\ call[c].at = "me"
    /\ \E time \in call[c].time .. now :
           LET s == call[c].token
               created == session[s].created
           IN  IF time >= created + HardCap THEN SignOut({s})
               ELSE session' = [session EXCEPT ![s] =
                        IF Touchable(s) THEN [@ EXCEPT !.exp = NextExpiry(created, time)] ELSE @]
    /\ End(c)
    /\ UNCHANGED <<now, users, invite, chal, device, history>>

Logout(s) ==
    /\ session[s] # NoSession
    /\ SignOut({s})
    /\ UNCHANGED <<now, users, invite, chal, device, call, history>>

\* prune: expired sessions are selected, and then deleted by their hashes.
Prune(c) ==
    /\ LET doomed == {s \in Tokens : session[s] # NoSession /\ session[s].exp <= now}
       IN  doomed # {} /\ Start(c, [Idle EXCEPT !.at = "prune", !.doomed = doomed])
    /\ UNCHANGED <<now, rows, chal, history>>

PruneWrite(c) ==
    /\ call[c].at = "prune"
    /\ SignOut(call[c].doomed)
    /\ End(c)
    /\ UNCHANGED <<now, users, invite, chal, device, history>>

-----------------------------------------------------------------------------
(* Removal of a member. *)

\* removeUser by an admin, or deleteAccount by the member.
RemoveUser(c, u) ==
    /\ AdminSignedIn \/ SignedIn(u)
    /\ Start(c, [Idle EXCEPT !.at = "count", !.user = u])
    /\ UNCHANGED <<now, rows, chal, history>>

\* Mutation of OtherAdmins: the one to be removed is counted too.
AllAdmins(u) == users \cap Admins

\* The admins that would be left.
OtherAdmins(u) == (users \cap Admins) \ {u}

\* store.removeUser reads the user and, for an admin, the others.
RemoveCount(c) ==
    /\ call[c].at = "count"
    /\ LET u == call[c].user
           may == u \in users /\ (u \in Admins => OtherAdmins(u) # {})
       IN  /\ call' = [call EXCEPT ![c] = IF may THEN [@ EXCEPT !.at = "remove"] ELSE Idle]
           /\ duel' = (duel \/ (may /\ u \in Admins /\ \E e \in At("remove") : call[e].user \in Admins))
    /\ UNCHANGED <<now, rows, chal, joined, contested, raced>>

\* It then deletes the invites the user issued, and the user with, by cascade,
\* the devices and their sessions.
RemoveWrite(c) ==
    /\ call[c].at = "remove"
    /\ LET u == call[c].user
           D == {d \in Devices : device[d].owner = u}
       IN  /\ users' = users \ {u}
           /\ invite' = [i \in Invites |->
                  IF invite[i].by = u THEN NoInvite("gone") ELSE invite[i]]
           /\ device' = [d \in Devices |->
                  IF d \in D THEN NoDevice ELSE device[d]]
           /\ SignOut(SessionsOf(D))
           /\ raced' = raced \ D
    /\ End(c)
    /\ UNCHANGED <<now, chal, joined, contested, duel>>

-----------------------------------------------------------------------------

\* A call fails or is cut off; its transaction is rolled back.
Fail(c) ==
    /\ call[c].at # "idle"
    /\ End(c)
    /\ UNCHANGED <<now, rows, chal, history>>

Tick ==
    /\ now < MaxTime
    /\ now' = now + 1
    /\ UNCHANGED <<rows, chal, call, history>>

Joining ==
    \/ \E u \in Admins, i \in Invites : IssueInvite(u, i)
    \/ \E g \in Guests, i \in Invites : RegisterOptions(g, i)
    \/ \E c \in Calls :
           \/ \E i \in Invites : RevokeInvite(c, i)
           \/ \E g \in Guests : RegisterVerify(c, g)
           \/ RegisterWrite(c) \/ RevokeInviteWrite(c)

Enrolling ==
    \/ \E u \in Admins : FirstOptions(u)
    \/ \E u \in Users : AddDevice(u)
    \/ \E c \in Calls :
           \/ \E u \in Admins : FirstVerify(c, u)
           \/ \E d \in Devices : RevokeDevice(c, d)
           \/ FirstWrite(c) \/ RevokeDeviceWrite(c)

SessionSteps ==
    \/ \E s \in Tokens : Logout(s)
    \/ \E c \in Calls :
           \/ \E d \in Devices : LoginVerify(c, d)
           \/ \E s \in Tokens : Me(c, s)
           \/ LoginWrite(c) \/ MeWrite(c) \/ Prune(c) \/ PruneWrite(c)

Removing ==
    \E c \in Calls :
        \/ \E u \in Users : RemoveUser(c, u)
        \/ RemoveCount(c) \/ RemoveWrite(c) \/ Fail(c)

Next == Joining \/ Enrolling \/ SessionSteps \/ Removing \/ Tick

Spec == Init /\ [][Next]_vars

-----------------------------------------------------------------------------
(* Properties. *)

InviteRow == [state : {"new", "sent", "gone"}, by : Admins \cup {None}, exp : Nat,
              redeemed : BOOLEAN, revoked : BOOLEAN]
DeviceRow == [owner : Users \cup {None}, revoked : BOOLEAN]
SessionRow == [device : Devices \cup {None}, created : Nat, exp : Nat]
Places == {"idle", "close", "join", "first", "revoke", "login", "me", "prune", "count", "remove"}
CallState == [at : Places, user : Users \cup {None}, invite : Invites \cup {None},
              device : Devices \cup {None}, token : Tokens \cup {None},
              time : Nat, doomed : SUBSET Tokens]

\* Foreign keys lead to rows, whatever was removed meanwhile.
DeviceOwned == \A d \in Devices : device[d] # NoDevice => device[d].owner \in users
SessionOwned ==
    \A s \in Tokens : session[s] # NoSession =>
        session[s].device \in Devices /\ device[session[s].device] # NoDevice

\* No session outlasts its hard cap.
Capped == \A s \in Tokens : session[s] # NoSession =>
              session[s].exp <= session[s].created + HardCap

\* The tables hold rows of their types, foreign keys lead to rows after every
\* cascade, and however often a session slides it stays under its hard cap.
TypeOK ==
    /\ now \in 0 .. MaxTime
    /\ users \subseteq Users
    /\ invite \in [Invites -> InviteRow]
    /\ chal \in [Users -> [invite : Invites \cup {None}, exp : Nat]]
    /\ device \in [Devices -> DeviceRow]
    /\ session \in [Tokens -> SessionRow]
    /\ call \in [Calls -> CallState]
    /\ joined \in [Invites -> SUBSET Guests]
    /\ contested \subseteq Invites /\ raced \subseteq Devices /\ duel \in BOOLEAN
    /\ DeviceOwned /\ SessionOwned /\ Capped

\* An invite is good for one member: however many ceremonies were begun with it
\* while it was open, one of them at most makes a member, unless two of their
\* transactions overlap.
SingleUse == \A i \in Invites \ contested : \A g, h \in joined[i] : g = h

\* Removals, by admins of each other or of themselves, one after the other leave
\* an admin.
AdminRemains == ~duel => users \cap Admins # {}

\* "That device's sessions are deleted immediately", and no login that had not
\* yet looked at the device when it was revoked brings one back.
RevokedHasNoSession ==
    \A s \in Tokens :
        session[s] # NoSession /\ device[session[s].device].revoked
            => session[s].device \in raced

\* A session that was signed out, revoked, pruned or removed while a `me` that
\* had seen it alive was under way does not come back with its answer.
SignedOutStaysOut ==
    [][\A c \in Calls : call[c].at = "me" /\ session[call[c].token] = NoSession
                            => session'[call[c].token] = NoSession]_vars

\* An invite that was issued and is not open: revoked, redeemed, expired or gone
\* with its issuer.  JoinsOf: the calls about to make a member with it.
Shut(i) == invite[i].state # "new" /\ ~Open(i)
JoinsOf(i) == {c \in At("join") : call[c].invite = i}

\* An invite that is shut never opens again, although revokeInvite and the
\* redemption both write to its row without a condition, and no further
\* registration gets past its look at it: those under way finish, and that is all.
ShutStaysShut ==
    [][\A i \in Invites : Shut(i) => Shut(i)' /\ JoinsOf(i)' \subseteq JoinsOf(i)]_vars

\* "Single use": an invite makes one member.
InviteAdmitsOne == \A i \in Invites : \A g, h \in joined[i] : g = h
=============================================================================
