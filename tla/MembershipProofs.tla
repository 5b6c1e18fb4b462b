-------------------------- MODULE MembershipProofs --------------------------
(***************************************************************************)
(* Proofs about Membership for any number of members, invites, devices,    *)
(* sessions and calls, and for any lifetimes.                              *)
(***************************************************************************)
EXTENDS Membership, FiniteSetTheorems, TLAPS

\* What a call is about to write is what it has read: the id it needs is there.
CallsSound ==
    \A c \in Calls :
        /\ call[c].at \in {"join", "close"} => call[c].invite \in Invites
        /\ call[c].at = "join" => call[c].user \in Guests
        /\ call[c].at = "first" => call[c].user \in Admins
        /\ call[c].at \in {"count", "remove"} => call[c].user \in Users
        /\ call[c].at \in {"login", "revoke"} => call[c].device \in Devices
        /\ call[c].at = "me" => call[c].token \in Tokens

Typed == TypeOK /\ CallsSound

-----------------------------------------------------------------------------
(* Lemmas about single definitions. *)

LEMMA NoRows ==
    /\ NoDevice \in DeviceRow /\ NoSession \in SessionRow /\ Idle \in CallState
    /\ \A state \in {"new", "sent", "gone"} : NoInvite(state) \in InviteRow
BY DEF NoDevice, NoSession, Idle, NoInvite, DeviceRow, SessionRow, CallState, Places, InviteRow

\* What a step does to the row of an invite.
LEMMA InviteRows ==
    ASSUME NEW row \in InviteRow
    PROVE  /\ \A u \in Admins, exp \in Nat : [row EXCEPT !.by = u, !.exp = exp] \in InviteRow
           /\ [row EXCEPT !.revoked = TRUE] \in InviteRow
           /\ [row EXCEPT !.redeemed = TRUE] \in InviteRow
BY Zenon DEF InviteRow

LEMMA DeviceRows ==
    ASSUME NEW row \in DeviceRow
    PROVE  [row EXCEPT !.revoked = TRUE] \in DeviceRow
BY Zenon DEF DeviceRow

LEMMA Clock ==
    ASSUME now \in 0 .. MaxTime
    PROVE  now \in Nat /\ now + InviteTTL \in Nat /\ now + ChallengeTTL \in Nat
<1>1. InviteTTL \in Nat /\ ChallengeTTL \in Nat /\ MaxTime \in Nat
  BY ConstantsAssumption
<1> QED BY <1>1

\* However late it slides, a session ends at its hard cap.
LEMMA ExpiryCapped ==
    ASSUME NEW created \in Nat, NEW time \in Nat
    PROVE  /\ NextExpiry(created, time) \in Nat
           /\ NextExpiry(created, time) <= created + HardCap
BY ConstantsAssumption DEF NextExpiry

\* A call that begins has its place, and the others keep theirs.
LEMMA Started ==
    ASSUME call \in [Calls -> CallState], CallsSound,
           NEW c \in Calls, NEW what \in CallState, Start(c, what),
           what.at \in {"join", "close"} => what.invite \in Invites,
           what.at = "join" => what.user \in Guests,
           what.at = "first" => what.user \in Admins,
           what.at \in {"count", "remove"} => what.user \in Users,
           what.at \in {"login", "revoke"} => what.device \in Devices,
           what.at = "me" => what.token \in Tokens
    PROVE  call' \in [Calls -> CallState] /\ CallsSound'
BY DEF Start, CallsSound

LEMMA Ended ==
    ASSUME call \in [Calls -> CallState], CallsSound, NEW c \in Calls, End(c)
    PROVE  call' \in [Calls -> CallState] /\ CallsSound'
<1>1. call' \in [Calls -> CallState]
  BY NoRows DEF End
<1>2. \A e \in Calls : call'[e] = IF e = c THEN Idle ELSE call[e]
  BY DEF End
<1>3. Idle.at = "idle"
  BY DEF Idle
<1> QED BY <1>1, <1>2, <1>3 DEF CallsSound

\* A session that begins refers to a device that is there.
LEMMA Begun ==
    ASSUME session \in [Tokens -> SessionRow], Capped,
           NEW d \in Devices, NEW time \in Nat, Begin(d, time)
    PROVE  /\ session' \in [Tokens -> SessionRow]
           /\ Capped'
           /\ \A s \in Tokens : \/ session'[s] = session[s]
                                \/ session'[s].device = d /\ session[s] = NoSession
<1>1. PICK s \in FreeTokens :
          session' = [session EXCEPT ![s] =
              [device |-> d, created |-> time, exp |-> NextExpiry(time, time)]]
  BY DEF Begin
<1>2. s \in Tokens /\ session[s] = NoSession
  BY DEF FreeTokens
<1>3. /\ NextExpiry(time, time) \in Nat
      /\ NextExpiry(time, time) <= time + HardCap
  BY ExpiryCapped
<1>4. [device |-> d, created |-> time, exp |-> NextExpiry(time, time)] \in SessionRow
  BY <1>3 DEF SessionRow
<1> QED BY <1>1, <1>2, <1>3, <1>4 DEF Capped

\* Sessions that are deleted leave the others as they were.
LEMMA SignedOut ==
    ASSUME session \in [Tokens -> SessionRow], Capped, NEW S, SignOut(S)
    PROVE  /\ session' \in [Tokens -> SessionRow]
           /\ Capped'
           /\ \A s \in Tokens : session'[s] = IF s \in S THEN NoSession ELSE session[s]
<1>1. \A s \in Tokens : session'[s] = IF s \in S THEN NoSession ELSE session[s]
  BY DEF SignOut
<1> QED BY <1>1, NoRows DEF SignOut, Capped

\* A device that is enrolled with its first session, for a member that exists.
LEMMA Enrolled ==
    ASSUME device \in [Devices -> DeviceRow], session \in [Tokens -> SessionRow],
           Capped, DeviceOwned, SessionOwned,
           NEW u \in Users, u \in users', users \subseteq users',
           NEW time \in Nat, Enroll(u, time)
    PROVE  /\ device' \in [Devices -> DeviceRow]
           /\ session' \in [Tokens -> SessionRow]
           /\ Capped' /\ DeviceOwned' /\ SessionOwned'
           /\ \A d \in Devices :
                  \/ device'[d] = device[d]
                  \/ device[d] = NoDevice /\ ~device'[d].revoked
           /\ \A s \in Tokens :
                  \/ session'[s] = session[s]
                  \/ session[s] = NoSession /\ ~device'[session'[s].device].revoked
<1>1. PICK d \in FreeDevices :
          device' = [device EXCEPT ![d].owner = u] /\ Begin(d, time)
  BY DEF Enroll
<1>2. d \in Devices /\ device[d] = NoDevice
  BY <1>1 DEF FreeDevices
<1>3. /\ session' \in [Tokens -> SessionRow]
      /\ Capped'
      /\ \A s \in Tokens : \/ session'[s] = session[s]
                           \/ session'[s].device = d /\ session[s] = NoSession
  BY <1>1, <1>2, Begun
<1>4. device' \in [Devices -> DeviceRow]
  BY <1>1, <1>2 DEF DeviceRow
<1>5. device'[d].owner = u /\ ~device'[d].revoked /\ device'[d] # NoDevice
  BY <1>1, <1>2, ConstantsAssumption DEF NoDevice, DeviceRow
<1>6. \A e \in Devices \ {d} : device'[e] = device[e]
  BY <1>1
<1>7. DeviceOwned'
  BY <1>5, <1>6 DEF DeviceOwned
<1>8. SessionOwned'
  BY <1>2, <1>3, <1>5, <1>6 DEF SessionOwned
<1> QED BY <1>2, <1>3, <1>4, <1>5, <1>6, <1>7, <1>8

-----------------------------------------------------------------------------
(* Typing. *)

LEMMA TypingInit == Init => Typed
<1> SUFFICES ASSUME Init PROVE Typed
  OBVIOUS
<1>1. now \in 0 .. MaxTime /\ users \subseteq Users
  BY ConstantsAssumption DEF Init, Users
<1>2. /\ invite \in [Invites -> InviteRow] /\ device \in [Devices -> DeviceRow]
      /\ session \in [Tokens -> SessionRow] /\ call \in [Calls -> CallState]
  BY NoRows DEF Init
<1>3. /\ chal \in [Users -> [invite : Invites \cup {None}, exp : Nat]]
      /\ joined \in [Invites -> SUBSET Guests]
      /\ contested \subseteq Invites /\ raced \subseteq Devices /\ duel \in BOOLEAN
  BY DEF Init
<1>4. DeviceOwned /\ SessionOwned /\ Capped
  BY DEF Init, DeviceOwned, SessionOwned, Capped
<1>5. CallsSound
  BY DEF Init, CallsSound, Idle
<1> QED BY <1>1, <1>2, <1>3, <1>4, <1>5 DEF Typed, TypeOK

\* Invites and registrations keep the types.
LEMMA TypingJoining ==
    ASSUME Typed, Joining
    PROVE  Typed'
<1> USE DEF Typed, TypeOK, rows, history
<1> USE ConstantsAssumption
<1>1. ASSUME NEW u \in Admins, NEW i \in Invites, IssueInvite(u, i)
      PROVE  Typed'
  <2>1. [NoInvite("sent") EXCEPT !.by = u, !.exp = now + InviteTTL] \in InviteRow
    BY NoRows, InviteRows, Clock
  <2>2. invite' \in [Invites -> InviteRow]
    BY <1>1, <2>1 DEF IssueInvite
  <2> QED BY <1>1, <2>2 DEF IssueInvite, DeviceOwned, SessionOwned, Capped, CallsSound
<1>2. ASSUME NEW g \in Guests, NEW i \in Invites, RegisterOptions(g, i)
      PROVE  Typed'
  <2>1. chal' \in [Users -> [invite : Invites \cup {None}, exp : Nat]]
    BY <1>2 DEF RegisterOptions, Users
  <2> QED BY <1>2, <2>1 DEF RegisterOptions, DeviceOwned, SessionOwned, Capped, CallsSound
<1>3. ASSUME NEW c \in Calls, NEW i \in Invites, RevokeInvite(c, i)
      PROVE  Typed'
  <2> DEFINE what == [Idle EXCEPT !.at = "close", !.invite = i]
  <2>1. what \in CallState /\ what.at = "close" /\ what.invite = i
    BY NoRows DEF CallState, Places, Idle
  <2>2. Start(c, what)
    BY <1>3 DEF RevokeInvite
  <2>3. call' \in [Calls -> CallState] /\ CallsSound'
    <3> HIDE DEF what
    <3> QED BY <2>1, <2>2, Started
  <2> QED BY <1>3, <2>3 DEF RevokeInvite, DeviceOwned, SessionOwned, Capped
<1>4. ASSUME NEW c \in Calls, RevokeInviteWrite(c)
      PROVE  Typed'
  <2>1. call' \in [Calls -> CallState] /\ CallsSound'
    BY <1>4, Ended DEF RevokeInviteWrite
  <2>2. invite' \in [Invites -> InviteRow]
    BY <1>4, InviteRows DEF RevokeInviteWrite, CallsSound
  <2> QED BY <1>4, <2>1, <2>2 DEF RevokeInviteWrite, DeviceOwned, SessionOwned, Capped
<1>5. ASSUME NEW c \in Calls, NEW g \in Guests, RegisterVerify(c, g)
      PROVE  Typed'
  <2>1. chal[g].invite \in Invites /\ now \in Nat
    BY <1>5 DEF RegisterVerify, Users
  <2> DEFINE what == [Idle EXCEPT !.at = "join", !.user = g, !.invite = chal[g].invite,
                                  !.time = now]
  <2>2. what \in CallState
    BY <2>1, NoRows DEF CallState, Places, Users
  <2>3. what.at = "join" /\ what.user = g /\ what.invite = chal[g].invite
    BY DEF Idle
  <2>4. Start(c, what)
    BY <1>5 DEF RegisterVerify
  <2>5. call' \in [Calls -> CallState] /\ CallsSound'
    <3> HIDE DEF what
    <3> QED BY <2>1, <2>2, <2>3, <2>4, Started
  <2>6. contested' \subseteq Invites
    BY <1>5, <2>1 DEF RegisterVerify
  <2> QED BY <1>5, <2>5, <2>6 DEF RegisterVerify, DeviceOwned, SessionOwned, Capped
<1>6. ASSUME NEW c \in Calls, RegisterWrite(c)
      PROVE  Typed'
  <2>1. call[c].invite \in Invites /\ call[c].user \in Guests /\ call[c].time \in Nat
    BY <1>6 DEF RegisterWrite, CallsSound, CallState
  <2>2. call' \in [Calls -> CallState] /\ CallsSound'
    BY <1>6, Ended DEF RegisterWrite
  <2>3. invite' \in [Invites -> InviteRow] /\ joined' \in [Invites -> SUBSET Guests]
    BY <1>6, <2>1, InviteRows DEF RegisterWrite
  <2>4. users' \subseteq Users /\ users \subseteq users' /\ call[c].user \in users'
    BY <1>6, <2>1 DEF RegisterWrite, Users
  <2>5. /\ device' \in [Devices -> DeviceRow] /\ session' \in [Tokens -> SessionRow]
        /\ Capped' /\ DeviceOwned' /\ SessionOwned'
    BY <1>6, <2>1, <2>4, Enrolled DEF RegisterWrite, Users
  <2> QED BY <1>6, <2>2, <2>3, <2>4, <2>5 DEF RegisterWrite
<1> QED BY <1>1, <1>2, <1>3, <1>4, <1>5, <1>6 DEF Joining

\* Enrolments and revocations of devices keep the types.
LEMMA TypingEnrolling ==
    ASSUME Typed, Enrolling
    PROVE  Typed'
<1> USE DEF Typed, TypeOK, rows, history
<1>1. ASSUME NEW u \in Admins, FirstOptions(u)
      PROVE  Typed'
  <2>1. chal' \in [Users -> [invite : Invites \cup {None}, exp : Nat]]
    BY <1>1, Clock DEF FirstOptions, Users
  <2> QED BY <1>1, <2>1 DEF FirstOptions, DeviceOwned, SessionOwned, Capped, CallsSound
<1>2. ASSUME NEW u \in Users, AddDevice(u)
      PROVE  Typed'
  <2>1. now \in Nat
    BY Clock
  <2>2. /\ device' \in [Devices -> DeviceRow] /\ session' \in [Tokens -> SessionRow]
        /\ Capped' /\ DeviceOwned' /\ SessionOwned'
    BY <1>2, <2>1, Enrolled DEF AddDevice
  <2> QED BY <1>2, <2>2 DEF AddDevice, CallsSound
<1>3. ASSUME NEW c \in Calls, NEW u \in Admins, FirstVerify(c, u)
      PROVE  Typed'
  <2> DEFINE what == [Idle EXCEPT !.at = "first", !.user = u, !.time = now]
  <2>1. what \in CallState
    BY Clock, NoRows DEF CallState, Places, Users
  <2>2. what.at = "first" /\ what.user = u
    BY DEF Idle
  <2>3. Start(c, what)
    BY <1>3 DEF FirstVerify
  <2>4. call' \in [Calls -> CallState] /\ CallsSound'
    <3> HIDE DEF what
    <3> QED BY <2>1, <2>2, <2>3, Started
  <2> QED BY <1>3, <2>4 DEF FirstVerify, DeviceOwned, SessionOwned, Capped
<1>4. ASSUME NEW c \in Calls, NEW d \in Devices, RevokeDevice(c, d)
      PROVE  Typed'
  <2> DEFINE what == [Idle EXCEPT !.at = "revoke", !.device = d]
  <2>1. what \in CallState
    BY NoRows DEF CallState, Places
  <2>2. what.at = "revoke" /\ what.device = d
    BY DEF Idle
  <2>3. Start(c, what)
    BY <1>4 DEF RevokeDevice
  <2>4. call' \in [Calls -> CallState] /\ CallsSound'
    <3> HIDE DEF what
    <3> QED BY <2>1, <2>2, <2>3, Started
  <2> QED BY <1>4, <2>4 DEF RevokeDevice, DeviceOwned, SessionOwned, Capped
<1>5. ASSUME NEW c \in Calls, FirstWrite(c)
      PROVE  Typed'
  <2>1. call[c].user \in Users /\ call[c].time \in Nat
    BY <1>5 DEF FirstWrite, CallsSound, CallState, Users
  <2>2. call' \in [Calls -> CallState] /\ CallsSound'
    BY <1>5, Ended DEF FirstWrite
  <2>3. /\ device' \in [Devices -> DeviceRow] /\ session' \in [Tokens -> SessionRow]
        /\ Capped' /\ DeviceOwned' /\ SessionOwned'
    BY <1>5, <2>1, Enrolled DEF FirstWrite
  <2> QED BY <1>5, <2>2, <2>3 DEF FirstWrite
<1>6. ASSUME NEW c \in Calls, RevokeDeviceWrite(c)
      PROVE  Typed'
  <2> DEFINE d == call[c].device
  <2>1. d \in Devices
    BY <1>6 DEF RevokeDeviceWrite, CallsSound
  <2>2. call' \in [Calls -> CallState] /\ CallsSound'
    BY <1>6, Ended DEF RevokeDeviceWrite
  <2>3. CASE device[d] # NoDevice /\ ~device[d].revoked
    <3>1. /\ device' = [device EXCEPT ![d].revoked = TRUE]
          /\ SignOut(SessionsOf({d}))
          /\ raced' \subseteq Devices
      BY <1>6, <2>1, <2>3 DEF RevokeDeviceWrite
    <3>2. /\ session' \in [Tokens -> SessionRow]
          /\ Capped'
          /\ \A s \in Tokens :
                 session'[s] = IF s \in SessionsOf({d}) THEN NoSession ELSE session[s]
      BY <3>1, SignedOut
    <3>3. device' \in [Devices -> DeviceRow]
      BY <2>1, <3>1, DeviceRows
    <3>4. /\ device'[d].owner = device[d].owner
          /\ \A e \in Devices \ {d} : device'[e] = device[e]
      BY <2>1, <3>1 DEF DeviceRow
    <3>5. DeviceOwned'
      BY <1>6, <2>3, <3>4 DEF DeviceOwned, RevokeDeviceWrite
    <3>6. SessionOwned'
      BY <3>2, <3>4 DEF SessionOwned, SessionsOf
    <3> QED BY <1>6, <2>2, <3>1, <3>2, <3>3, <3>5, <3>6 DEF RevokeDeviceWrite
  <2>4. CASE ~(device[d] # NoDevice /\ ~device[d].revoked)
    <3>1. UNCHANGED <<device, session, raced>>
      BY <1>6, <2>4 DEF RevokeDeviceWrite
    <3> QED BY <1>6, <2>2, <3>1 DEF RevokeDeviceWrite, DeviceOwned, SessionOwned, Capped
  <2> QED BY <2>3, <2>4
<1> QED BY <1>1, <1>2, <1>3, <1>4, <1>5, <1>6 DEF Enrolling

\* Logins, sliding, sign-outs and the prune keep the types.
LEMMA TypingSessions ==
    ASSUME Typed, SessionSteps
    PROVE  Typed'
<1> USE DEF Typed, TypeOK, rows, history
<1>1. ASSUME NEW s \in Tokens, Logout(s)
      PROVE  Typed'
  <2>1. /\ session' \in [Tokens -> SessionRow] /\ Capped'
        /\ \A t \in Tokens : session'[t] = IF t \in {s} THEN NoSession ELSE session[t]
    BY <1>1, SignedOut DEF Logout
  <2> QED BY <1>1, <2>1 DEF Logout, DeviceOwned, SessionOwned, CallsSound
<1>2. ASSUME NEW c \in Calls, NEW d \in Devices, LoginVerify(c, d)
      PROVE  Typed'
  <2> DEFINE what == [Idle EXCEPT !.at = "login", !.device = d, !.time = now]
  <2>1. what \in CallState
    BY NoRows, Clock DEF CallState, Places
  <2>2. what.at = "login" /\ what.device = d
    BY DEF Idle
  <2>3. Start(c, what)
    BY <1>2 DEF LoginVerify
  <2>4. call' \in [Calls -> CallState] /\ CallsSound'
    <3> HIDE DEF what
    <3> QED BY <2>1, <2>2, <2>3, Started
  <2> QED BY <1>2, <2>4 DEF LoginVerify, DeviceOwned, SessionOwned, Capped
<1>3. ASSUME NEW c \in Calls, NEW s \in Tokens, Me(c, s)
      PROVE  Typed'
  <2> DEFINE what == [Idle EXCEPT !.at = "me", !.token = s, !.time = now]
  <2>1. what \in CallState
    BY NoRows, Clock DEF CallState, Places
  <2>2. what.at = "me" /\ what.token = s
    BY DEF Idle
  <2>3. Start(c, what)
    BY <1>3 DEF Me
  <2>4. call' \in [Calls -> CallState] /\ CallsSound'
    <3> HIDE DEF what
    <3> QED BY <2>1, <2>2, <2>3, Started
  <2> QED BY <1>3, <2>4 DEF Me, DeviceOwned, SessionOwned, Capped
<1>4. ASSUME NEW c \in Calls, LoginWrite(c)
      PROVE  Typed'
  <2>1. call[c].device \in Devices /\ call[c].time \in Nat /\ device[call[c].device] # NoDevice
    BY <1>4 DEF LoginWrite, Referable, CallsSound, CallState
  <2>2. call' \in [Calls -> CallState] /\ CallsSound'
    BY <1>4, Ended DEF LoginWrite
  <2>3. /\ session' \in [Tokens -> SessionRow]
        /\ Capped'
        /\ \A s \in Tokens : \/ session'[s] = session[s]
                             \/ session'[s].device = call[c].device /\ session[s] = NoSession
    BY <1>4, <2>1, Begun DEF LoginWrite
  <2>4. SessionOwned'
    BY <1>4, <2>1, <2>3 DEF LoginWrite, SessionOwned
  <2> QED BY <1>4, <2>2, <2>3, <2>4 DEF LoginWrite, DeviceOwned
<1>5. ASSUME NEW c \in Calls, MeWrite(c)
      PROVE  Typed'
  <2> DEFINE s == call[c].token
  <2>1. s \in Tokens /\ call[c].time \in Nat /\ now \in Nat /\ session[s].created \in Nat
    BY <1>5, Clock DEF MeWrite, CallsSound, CallState, SessionRow
  <2>2. call' \in [Calls -> CallState] /\ CallsSound'
    BY <1>5, Ended DEF MeWrite
  <2>3. PICK time \in call[c].time .. now :
            IF time >= session[s].created + HardCap THEN SignOut({s})
            ELSE session' = [session EXCEPT ![s] =
                     IF Touchable(s)
                     THEN [@ EXCEPT !.exp = NextExpiry(session[s].created, time)] ELSE @]
    BY <1>5 DEF MeWrite
  <2>4. time \in Nat
    BY <2>1
  <2>5. CASE SignOut({s})
    <3>1. /\ session' \in [Tokens -> SessionRow] /\ Capped'
          /\ \A t \in Tokens : session'[t] = IF t \in {s} THEN NoSession ELSE session[t]
      BY <2>5, SignedOut
    <3> QED BY <1>5, <2>2, <3>1 DEF MeWrite, DeviceOwned, SessionOwned
  <2>6. CASE ~Touchable(s) /\ session' = [session EXCEPT ![s] = session[s]]
    <3>1. session' = session
      BY <2>6
    <3> QED BY <1>5, <2>2, <3>1 DEF MeWrite, DeviceOwned, SessionOwned, Capped
  <2>7. CASE /\ Touchable(s)
             /\ session' = [session EXCEPT ![s].exp = NextExpiry(session[s].created, time)]
    <3> DEFINE exp == NextExpiry(session[s].created, time)
    <3>1. exp \in Nat /\ exp <= session[s].created + HardCap
      BY <2>1, <2>4, ExpiryCapped
    <3> HIDE DEF exp
    <3>2. session' \in [Tokens -> SessionRow]
      BY <2>7, <3>1 DEF SessionRow, exp
    <3>3. /\ session'[s].exp = exp
          /\ session'[s].device = session[s].device /\ session'[s].created = session[s].created
          /\ \A t \in Tokens \ {s} : session'[t] = session[t]
          /\ session[s] # NoSession
      BY <2>1, <2>7 DEF SessionRow, Touchable, exp
    <3>4. Capped' /\ SessionOwned'
      BY <1>5, <3>1, <3>3 DEF Capped, SessionOwned, MeWrite
    <3> QED BY <1>5, <2>2, <3>2, <3>4 DEF MeWrite, DeviceOwned
  <2> QED BY <2>1, <2>3, <2>5, <2>6, <2>7
<1>6. ASSUME NEW c \in Calls, Prune(c)
      PROVE  Typed'
  <2> DEFINE doomed == {s \in Tokens : session[s] # NoSession /\ session[s].exp <= now}
             what == [Idle EXCEPT !.at = "prune", !.doomed = doomed]
  <2>1. what \in CallState
    BY NoRows DEF CallState, Places
  <2>2. what.at = "prune"
    BY DEF Idle
  <2>3. Start(c, what)
    BY <1>6 DEF Prune
  <2>4. call' \in [Calls -> CallState] /\ CallsSound'
    <3> HIDE DEF what
    <3> QED BY <2>1, <2>2, <2>3, Started
  <2> QED BY <1>6, <2>4 DEF Prune, DeviceOwned, SessionOwned, Capped
<1>7. ASSUME NEW c \in Calls, PruneWrite(c)
      PROVE  Typed'
  <2>1. call' \in [Calls -> CallState] /\ CallsSound'
    BY <1>7, Ended DEF PruneWrite
  <2>2. /\ session' \in [Tokens -> SessionRow] /\ Capped'
        /\ \A t \in Tokens : session'[t] = IF t \in call[c].doomed THEN NoSession ELSE session[t]
    BY <1>7, SignedOut DEF PruneWrite
  <2> QED BY <1>7, <2>1, <2>2 DEF PruneWrite, DeviceOwned, SessionOwned
<1> QED BY <1>1, <1>2, <1>3, <1>4, <1>5, <1>6, <1>7 DEF SessionSteps

\* Removals keep the types: whatever refers to a member goes with the member.
LEMMA TypingRemoving ==
    ASSUME Typed, Removing
    PROVE  Typed'
<1> USE DEF Typed, TypeOK, rows, history
<1>1. ASSUME NEW c \in Calls, NEW u \in Users, RemoveUser(c, u)
      PROVE  Typed'
  <2> DEFINE what == [Idle EXCEPT !.at = "count", !.user = u]
  <2>1. what \in CallState
    BY NoRows DEF CallState, Places
  <2>2. what.at = "count" /\ what.user = u
    BY DEF Idle
  <2>3. Start(c, what)
    BY <1>1 DEF RemoveUser
  <2>4. call' \in [Calls -> CallState] /\ CallsSound'
    <3> HIDE DEF what
    <3> QED BY <2>1, <2>2, <2>3, Started
  <2> QED BY <1>1, <2>4 DEF RemoveUser, DeviceOwned, SessionOwned, Capped
<1>2. ASSUME NEW c \in Calls, RemoveCount(c)
      PROVE  Typed'
  <2>1. \/ call' = [call EXCEPT ![c] = [@ EXCEPT !.at = "remove"]]
        \/ call' = [call EXCEPT ![c] = Idle]
    BY <1>2 DEF RemoveCount
  <2>2. call[c] \in CallState /\ call[c].at = "count"
    BY <1>2 DEF RemoveCount
  <2>3. [call[c] EXCEPT !.at = "remove"] \in CallState
    BY <2>2 DEF CallState, Places
  <2>4. call' \in [Calls -> CallState]
    BY <2>1, <2>3, NoRows
  <2>5. CallsSound'
    BY <2>1, <2>2 DEF CallsSound, CallState, Idle
  <2>6. duel' \in BOOLEAN
    BY <1>2 DEF RemoveCount
  <2> QED BY <1>2, <2>4, <2>5, <2>6 DEF RemoveCount, DeviceOwned, SessionOwned, Capped
<1>3. ASSUME NEW c \in Calls, RemoveWrite(c)
      PROVE  Typed'
  <2> DEFINE u == call[c].user
             D == {d \in Devices : device[d].owner = u}
  <2>1. call' \in [Calls -> CallState] /\ CallsSound'
    BY <1>3, Ended DEF RemoveWrite
  <2>2. /\ session' \in [Tokens -> SessionRow] /\ Capped'
        /\ \A t \in Tokens : session'[t] = IF t \in SessionsOf(D) THEN NoSession ELSE session[t]
    BY <1>3, SignedOut DEF RemoveWrite
  <2>3. device' = [d \in Devices |-> IF d \in D THEN NoDevice ELSE device[d]]
    BY <1>3 DEF RemoveWrite
  <2>4. device' \in [Devices -> DeviceRow]
    BY <2>3, NoRows
  <2>5. invite' \in [Invites -> InviteRow]
    BY <1>3, NoRows DEF RemoveWrite
  <2>6. users' = users \ {u} /\ raced' \subseteq Devices
    BY <1>3 DEF RemoveWrite
  <2>7. DeviceOwned'
    BY <2>3, <2>6 DEF DeviceOwned
  <2>8. SessionOwned'
    BY <2>2, <2>3 DEF SessionOwned, SessionsOf
  <2> QED BY <1>3, <2>1, <2>2, <2>4, <2>5, <2>6, <2>7, <2>8 DEF RemoveWrite
<1>4. ASSUME NEW c \in Calls, Fail(c)
      PROVE  Typed'
  <2>1. call' \in [Calls -> CallState] /\ CallsSound'
    BY <1>4, Ended DEF Fail
  <2> QED BY <1>4, <2>1 DEF Fail, DeviceOwned, SessionOwned, Capped
<1> QED BY <1>1, <1>2, <1>3, <1>4 DEF Removing

LEMMA TypingStep ==
    ASSUME Typed, [Next]_vars
    PROVE  Typed'
<1>1. CASE Tick
  <2>1. now' \in 0 .. MaxTime
    BY <1>1, ConstantsAssumption DEF Tick, Typed, TypeOK
  <2> QED BY <1>1, <2>1 DEF Tick, Typed, TypeOK, rows, history, DeviceOwned, SessionOwned,
                            Capped, CallsSound
<1>2. CASE UNCHANGED vars
  BY <1>2 DEF vars, Typed, TypeOK, rows, history, DeviceOwned, SessionOwned, Capped, CallsSound
<1> QED BY <1>1, <1>2, TypingJoining, TypingEnrolling, TypingSessions, TypingRemoving DEF Next

\* The tables hold rows of their types, foreign keys lead to rows, and no
\* session outlasts its hard cap, for any number of members and devices.
THEOREM Typing == Spec => [](TypeOK /\ CallsSound)
<1>1. Init => Typed
  BY TypingInit
<1>2. Typed /\ [Next]_vars => Typed'
  BY TypingStep
<1> QED BY <1>1, <1>2, PTL DEF Spec, Typed

-----------------------------------------------------------------------------
(* An admin remains. *)

\* The places at which a step may leave a call that it moves.
Moves(places) == \A e \in Calls : call'[e] = call[e] \/ call'[e].at \in places

LEMMA StartMoves ==
    ASSUME call \in [Calls -> CallState], NEW c \in Calls, NEW what, NEW places,
           Start(c, what), what.at \in places
    PROVE  Moves(places)
BY DEF Start, Moves

LEMMA EndMoves ==
    ASSUME call \in [Calls -> CallState], NEW c \in Calls, End(c)
    PROVE  Moves({"idle"})
<1>1. Idle.at = "idle"
  BY DEF Idle
<1> QED BY <1>1 DEF End, Moves

LEMMA JoiningMoves == ASSUME Typed, Joining PROVE Moves({"idle", "close", "join"})
<1> USE DEF Typed, TypeOK
<1>1. ASSUME NEW c \in Calls, NEW i \in Invites, RevokeInvite(c, i)
      PROVE  Moves({"close"})
  BY <1>1, StartMoves DEF RevokeInvite, Idle
<1>2. ASSUME NEW c \in Calls, NEW g \in Guests, RegisterVerify(c, g)
      PROVE  Moves({"join"})
  BY <1>2, StartMoves DEF RegisterVerify, Idle
<1>3. ASSUME NEW c \in Calls, RegisterWrite(c) \/ RevokeInviteWrite(c)
      PROVE  Moves({"idle"})
  BY <1>3, EndMoves DEF RegisterWrite, RevokeInviteWrite
<1>4. ASSUME NEW i \in Invites, \/ \E u \in Admins : IssueInvite(u, i)
                                \/ \E g \in Guests : RegisterOptions(g, i)
      PROVE  call' = call
  BY <1>4 DEF IssueInvite, RegisterOptions
<1> QED BY <1>1, <1>2, <1>3, <1>4 DEF Joining, Moves

LEMMA EnrollingMoves == ASSUME Typed, Enrolling PROVE Moves({"idle", "first", "revoke"})
<1> USE DEF Typed, TypeOK
<1>1. ASSUME NEW c \in Calls, NEW u \in Admins, FirstVerify(c, u)
      PROVE  Moves({"first"})
  BY <1>1, StartMoves DEF FirstVerify, Idle
<1>2. ASSUME NEW c \in Calls, NEW d \in Devices, RevokeDevice(c, d)
      PROVE  Moves({"revoke"})
  BY <1>2, StartMoves DEF RevokeDevice, Idle
<1>3. ASSUME NEW c \in Calls, FirstWrite(c) \/ RevokeDeviceWrite(c)
      PROVE  Moves({"idle"})
  BY <1>3, EndMoves DEF FirstWrite, RevokeDeviceWrite
<1>4. ASSUME NEW u \in Users, FirstOptions(u) \/ AddDevice(u)
      PROVE  call' = call
  BY <1>4 DEF FirstOptions, AddDevice
<1> QED BY <1>1, <1>2, <1>3, <1>4 DEF Enrolling, Moves, Users

LEMMA SessionMoves == ASSUME Typed, SessionSteps PROVE Moves({"idle", "login", "me", "prune"})
<1> USE DEF Typed, TypeOK
<1>1. ASSUME NEW c \in Calls, NEW d \in Devices, LoginVerify(c, d)
      PROVE  Moves({"login"})
  BY <1>1, StartMoves DEF LoginVerify, Idle
<1>2. ASSUME NEW c \in Calls, NEW s \in Tokens, Me(c, s)
      PROVE  Moves({"me"})
  BY <1>2, StartMoves DEF Me, Idle
<1>3. ASSUME NEW c \in Calls, Prune(c)
      PROVE  Moves({"prune"})
  BY <1>3, StartMoves DEF Prune, Idle
<1>4. ASSUME NEW c \in Calls, LoginWrite(c) \/ MeWrite(c) \/ PruneWrite(c)
      PROVE  Moves({"idle"})
  BY <1>4, EndMoves DEF LoginWrite, MeWrite, PruneWrite
<1>5. ASSUME NEW s \in Tokens, Logout(s)
      PROVE  call' = call
  BY <1>5 DEF Logout
<1> QED BY <1>1, <1>2, <1>3, <1>4, <1>5 DEF SessionSteps, Moves

LEMMA RemovingMoves == ASSUME Typed, Removing PROVE Moves({"idle", "count", "remove"})
<1> USE DEF Typed, TypeOK
<1>1. ASSUME NEW c \in Calls, NEW u \in Users, RemoveUser(c, u)
      PROVE  Moves({"count"})
  BY <1>1, StartMoves DEF RemoveUser, Idle
<1>2. ASSUME NEW c \in Calls, RemoveCount(c)
      PROVE  Moves({"idle", "remove"})
  <2>1. \/ call' = [call EXCEPT ![c] = [call[c] EXCEPT !.at = "remove"]]
        \/ call' = [call EXCEPT ![c] = Idle]
    BY <1>2 DEF RemoveCount
  <2> QED BY <2>1 DEF Moves, Idle, CallState
<1>3. ASSUME NEW c \in Calls, RemoveWrite(c) \/ Fail(c)
      PROVE  Moves({"idle"})
  BY <1>3, EndMoves DEF RemoveWrite, Fail
<1> QED BY <1>1, <1>2, <1>3 DEF Removing, Moves

\* Call c is about to remove an admin.
RemovesAdmin(c) == call[c].at = "remove" /\ call[c].user \in Admins

\* Unless two removals of admins have overlapped, at most one is under way, and
\* it would leave another admin.
LastRemoval ==
    ~duel => \A c \in Calls : RemovesAdmin(c) =>
                 /\ OtherAdmins(call[c].user) # {}
                 /\ \A e \in Calls : RemovesAdmin(e) => e = c

\* A step that removes nobody and moves no call to a removal.
LEMMA StaysAdmin ==
    ASSUME Typed, AdminRemains, LastRemoval, NEW places, Moves(places),
           "remove" \notin places, users \subseteq users', duel' = duel
    PROVE  AdminRemains' /\ LastRemoval'
<1>1. AdminRemains'
  BY DEF AdminRemains
<1>2. \A c \in Calls : RemovesAdmin(c)' => RemovesAdmin(c) /\ call'[c] = call[c]
  BY DEF Moves, RemovesAdmin
<1>3. \A u \in Users : OtherAdmins(u) \subseteq OtherAdmins(u)'
  BY DEF OtherAdmins
<1>4. \A c \in Calls : RemovesAdmin(c) => call[c].user \in Users
  BY DEF RemovesAdmin, Users
<1>5. ASSUME ~duel', NEW c \in Calls, RemovesAdmin(c)'
      PROVE  OtherAdmins(call[c].user)' # {} /\ \A e \in Calls : RemovesAdmin(e)' => e = c
  <2>1. RemovesAdmin(c) /\ call'[c] = call[c] /\ OtherAdmins(call[c].user) # {}
    BY <1>2, <1>5 DEF LastRemoval
  <2>2. OtherAdmins(call[c].user)' # {}
    BY <2>1 DEF OtherAdmins
  <2> QED BY <1>2, <1>5, <2>1, <2>2 DEF LastRemoval
<1> QED BY <1>1, <1>5 DEF LastRemoval

\* Outside of Removing, nobody is removed.
LEMMA OthersStay ==
    ASSUME Typed, Joining \/ Enrolling \/ SessionSteps \/ Tick \/ UNCHANGED vars
    PROVE  /\ \E places : "remove" \notin places /\ Moves(places)
           /\ users \subseteq users' /\ duel' = duel
<1> USE DEF rows, history
<1>1. CASE Joining
  <2>1. users \subseteq users' /\ duel' = duel
    BY <1>1 DEF Joining, IssueInvite, RegisterOptions, RevokeInvite, RegisterVerify, RegisterWrite,
                RevokeInviteWrite
  <2> QED BY <1>1, <2>1, JoiningMoves
<1>2. CASE Enrolling
  <2>1. users' = users /\ duel' = duel
    BY <1>2 DEF Enrolling, FirstOptions, AddDevice, FirstVerify, RevokeDevice, FirstWrite,
                RevokeDeviceWrite
  <2> QED BY <1>2, <2>1, EnrollingMoves
<1>3. CASE SessionSteps
  <2>1. users' = users /\ duel' = duel
    BY <1>3 DEF SessionSteps, Logout, LoginVerify, Me, LoginWrite, MeWrite, Prune, PruneWrite
  <2> QED BY <1>3, <2>1, SessionMoves
<1>4. CASE Tick \/ UNCHANGED vars
  <2>1. call' = call /\ users' = users /\ duel' = duel
    BY <1>4 DEF Tick, vars
  <2>2. Moves({"idle"})
    BY <2>1 DEF Moves
  <2> QED BY <2>1, <2>2
<1> QED BY <1>1, <1>2, <1>3, <1>4

\* A removal keeps an admin, or has overlapped with another.
LEMMA RemovalKeepsAdmin ==
    ASSUME Typed, AdminRemains, LastRemoval, Removing
    PROVE  AdminRemains' /\ LastRemoval'
<1> USE DEF Typed, TypeOK
<1>1. ASSUME NEW c \in Calls, NEW u \in Users, RemoveUser(c, u)
      PROVE  AdminRemains' /\ LastRemoval'
  <2>1. Moves({"count"})
    BY <1>1, StartMoves DEF RemoveUser, Idle
  <2> QED BY <1>1, <2>1, StaysAdmin DEF RemoveUser, rows, history
<1>2. ASSUME NEW c \in Calls, Fail(c)
      PROVE  AdminRemains' /\ LastRemoval'
  <2>1. Moves({"idle"})
    BY <1>2, EndMoves DEF Fail
  <2> QED BY <1>2, <2>1, StaysAdmin DEF Fail, rows, history
<1>3. ASSUME NEW c \in Calls, RemoveCount(c)
      PROVE  AdminRemains' /\ LastRemoval'
  <2> DEFINE u == call[c].user
             may == u \in users /\ (u \in Admins => OtherAdmins(u) # {})
  <2>1. users' = users /\ \A e \in Calls \ {c} : call'[e] = call[e]
    BY <1>3 DEF RemoveCount, rows
  <2>2. AdminRemains'
    BY <1>3, <2>1 DEF AdminRemains, RemoveCount
  <2>3. \A e \in Calls \ {c} : RemovesAdmin(e)' = RemovesAdmin(e)
    BY <2>1 DEF RemovesAdmin
  <2>4. CASE may /\ u \in Admins /\ ~duel'
    <3>1. OtherAdmins(u) # {} /\ \A e \in Calls : ~RemovesAdmin(e)
      BY <1>3, <2>4 DEF RemoveCount, At, RemovesAdmin
    <3>2. call' = [call EXCEPT ![c] = [call[c] EXCEPT !.at = "remove"]]
      BY <1>3, <2>4 DEF RemoveCount
    <3>3. call'[c].user = u
      BY <3>2 DEF CallState
    <3>4. OtherAdmins(call[c].user)' # {}
      BY <2>1, <3>1, <3>3 DEF OtherAdmins
    <3>5. \A e \in Calls : RemovesAdmin(e)' => e = c
      BY <2>3, <3>1
    <3> QED BY <2>2, <3>4, <3>5 DEF LastRemoval
  <2>5. CASE ~(may /\ u \in Admins)
    <3>1. ~RemovesAdmin(c)'
      BY <1>3, <2>5 DEF RemoveCount, RemovesAdmin, Idle, CallState
    <3>2. duel' = duel
      BY <1>3, <2>5 DEF RemoveCount
    <3>3. \A e \in Calls \ {c} : OtherAdmins(call[e].user)' = OtherAdmins(call[e].user)
      BY <2>1 DEF OtherAdmins
    <3> QED BY <2>1, <2>2, <2>3, <3>1, <3>2, <3>3 DEF LastRemoval
  <2> QED BY <2>2, <2>4, <2>5 DEF LastRemoval
<1>4. ASSUME NEW c \in Calls, RemoveWrite(c)
      PROVE  AdminRemains' /\ LastRemoval'
  <2> DEFINE u == call[c].user
  <2>1. /\ users' = users \ {u} /\ duel' = duel /\ call[c].at = "remove"
        /\ Moves({"idle"})
    BY <1>4, EndMoves DEF RemoveWrite
  <2>2. CASE u \in Admins
    <3>1. AdminRemains'
      BY <2>1, <2>2 DEF AdminRemains, LastRemoval, RemovesAdmin, OtherAdmins
    <3>2. call'[c] = Idle /\ \A e \in Calls \ {c} : call'[e] = call[e]
      BY <1>4 DEF RemoveWrite, End
    <3>3. ~duel => \A e \in Calls : ~RemovesAdmin(e)'
      BY <2>1, <2>2, <3>2 DEF LastRemoval, RemovesAdmin, Idle
    <3> QED BY <2>1, <3>1, <3>3 DEF LastRemoval
  <2>3. CASE u \notin Admins
    <3>1. users' \cap Admins = users \cap Admins
      BY <2>1, <2>3
    <3>2. AdminRemains'
      BY <2>1, <3>1 DEF AdminRemains
    <3>3. \A e \in Calls : RemovesAdmin(e)' => RemovesAdmin(e) /\ call'[e] = call[e]
      BY <2>1 DEF Moves, RemovesAdmin
    <3>4. \A v : OtherAdmins(v)' = OtherAdmins(v)
      BY <3>1 DEF OtherAdmins
    <3> QED BY <2>1, <3>2, <3>3, <3>4 DEF LastRemoval, OtherAdmins
  <2> QED BY <2>2, <2>3
<1> QED BY <1>1, <1>2, <1>3, <1>4 DEF Removing

\* Removals of admins one after the other, by whomever, leave an admin: for any
\* number of admins and of calls.
THEOREM AnAdminRemains == Spec => []AdminRemains
<1> DEFINE IInv == AdminRemains /\ LastRemoval
<1>1. Init => IInv
  BY ConstantsAssumption DEF Init, AdminRemains, LastRemoval, RemovesAdmin, Idle
<1>2. Typed /\ IInv /\ [Next]_vars => IInv'
  BY OthersStay, StaysAdmin, RemovalKeepsAdmin DEF Next
<1>3. Spec => []Typed
  BY Typing DEF Typed
<1> QED BY <1>1, <1>2, <1>3, PTL DEF Spec

-----------------------------------------------------------------------------
(* An invite is good for one member. *)

\* Call c is about to make a member with invite i.
Redeems(c, i) == call[c].at = "join" /\ call[c].invite = i

\* An invite that has made a member is closed, and one that is about to has
\* been issued.
SpentIsClosed ==
    \A i \in Invites :
        /\ joined[i] # {} => \/ invite[i].state = "gone"
                             \/ invite[i].state = "sent" /\ invite[i].redeemed
        /\ \A c \in Calls : Redeems(c, i) => invite[i].state # "new"

\* Unless redemptions of it have overlapped, one call at most is about to redeem
\* an invite, and only an invite that has made no member.
OneRedemption ==
    \A i \in Invites \ contested : \A c \in Calls : Redeems(c, i) =>
        joined[i] = {} /\ \A e \in Calls : Redeems(e, i) => e = c

Redemptions == SingleUse /\ SpentIsClosed /\ OneRedemption

\* A step that begins no redemption and ends none.
LEMMA NoRedemption ==
    ASSUME Redemptions, NEW places, Moves(places), "join" \notin places,
           UNCHANGED <<joined, contested>>,
           \A i \in Invites : \/ invite'[i] = invite[i]
                              \/ invite'[i].state = "gone"
                              \/ /\ invite[i].state = "sent" /\ invite'[i].state = "sent"
                                 /\ invite'[i].redeemed = invite[i].redeemed
                              \/ invite[i].state = "new" /\ invite'[i].state = "sent"
    PROVE  Redemptions'
<1> USE DEF Redemptions
<1>1. \A c \in Calls, i \in Invites : Redeems(c, i)' => Redeems(c, i)
  BY DEF Moves, Redeems
<1>2. SingleUse'
  BY DEF SingleUse
<1>3. SpentIsClosed'
  BY <1>1 DEF SpentIsClosed
<1>4. OneRedemption'
  BY <1>1 DEF OneRedemption
<1> QED BY <1>2, <1>3, <1>4

LEMMA JoiningRedeemsOnce ==
    ASSUME Typed, Redemptions, Joining
    PROVE  Redemptions'
<1> USE DEF Typed, TypeOK
<1>1. ASSUME NEW u \in Admins, NEW i \in Invites, IssueInvite(u, i)
      PROVE  Redemptions'
  <2>1. /\ \A j \in Invites \ {i} : invite'[j] = invite[j]
        /\ invite[i].state = "new" /\ invite'[i].state = "sent"
    BY <1>1 DEF IssueInvite, NoInvite
  <2>2. Moves({})
    BY <1>1 DEF IssueInvite, Moves
  <2> QED BY <1>1, <2>1, <2>2, NoRedemption DEF IssueInvite, history
<1>2. ASSUME NEW g \in Guests, NEW i \in Invites, RegisterOptions(g, i)
      PROVE  Redemptions'
  <2>1. Moves({})
    BY <1>2 DEF RegisterOptions, Moves
  <2> QED BY <1>2, <2>1, NoRedemption DEF RegisterOptions, rows, history
<1>3. ASSUME NEW c \in Calls, NEW i \in Invites, RevokeInvite(c, i)
      PROVE  Redemptions'
  <2>1. Moves({"close"})
    BY <1>3, StartMoves DEF RevokeInvite, Idle
  <2> QED BY <1>3, <2>1, NoRedemption DEF RevokeInvite, rows, history
<1>4. ASSUME NEW c \in Calls, RevokeInviteWrite(c)
      PROVE  Redemptions'
  <2>1. Moves({"idle"})
    BY <1>4, EndMoves DEF RevokeInviteWrite
  <2>2. \A i \in Invites : invite'[i].state = invite[i].state
                              /\ invite'[i].redeemed = invite[i].redeemed
    BY <1>4 DEF RevokeInviteWrite, InviteRow
  <2>3. \A i \in Invites : invite'[i] = invite[i] \/ invite[i].state = "sent"
    BY <1>4 DEF RevokeInviteWrite
  <2> QED BY <1>4, <2>1, <2>2, <2>3, NoRedemption DEF RevokeInviteWrite, history
<1>5. ASSUME NEW c \in Calls, NEW g \in Guests, RegisterVerify(c, g)
      PROVE  Redemptions'
  <2> DEFINE i == chal[g].invite
  <2>1. i \in Invites /\ Open(i)
    BY <1>5 DEF RegisterVerify, Redeemable, Users
  <2>2. /\ invite' = invite /\ joined' = joined
        /\ contested' = IF \E e \in Calls : Redeems(e, i) THEN contested \cup {i} ELSE contested
    BY <1>5 DEF RegisterVerify, rows, At, Redeems
  <2>3. call' = [call EXCEPT ![c] = [Idle EXCEPT !.at = "join", !.user = g, !.invite = i,
                                                 !.time = now]]
    BY <1>5 DEF RegisterVerify, Start
  <2>4. /\ \A e \in Calls \ {c}, j \in Invites : Redeems(e, j)' = Redeems(e, j)
        /\ \A j \in Invites : Redeems(c, j)' => j = i
    BY <2>3 DEF Redeems, Idle
  <2>5. joined[i] = {}
    BY <2>1 DEF Redemptions, SpentIsClosed, Open
  <2>6. SingleUse'
    BY <2>2 DEF Redemptions, SingleUse
  <2>7. SpentIsClosed'
    BY <2>1, <2>2, <2>4 DEF Redemptions, SpentIsClosed, Open
  <2>8. OneRedemption'
    BY <2>2, <2>4, <2>5 DEF Redemptions, OneRedemption
  <2> QED BY <2>6, <2>7, <2>8 DEF Redemptions
<1>6. ASSUME NEW c \in Calls, RegisterWrite(c)
      PROVE  Redemptions'
  <2> DEFINE i == call[c].invite
  <2>1. i \in Invites /\ Redeems(c, i)
    BY <1>6 DEF RegisterWrite, CallsSound, Redeems
  <2>2. /\ invite' = IF invite[i].state = "sent" THEN [invite EXCEPT ![i].redeemed = TRUE]
                     ELSE invite
        /\ joined' = [joined EXCEPT ![i] = @ \cup {call[c].user}]
        /\ contested' = contested
        /\ call' = [call EXCEPT ![c] = Idle]
    BY <1>6 DEF RegisterWrite, End
  <2>3. \A e \in Calls, j \in Invites : Redeems(e, j)' => e # c /\ Redeems(e, j)
    BY <2>2 DEF Redeems, Idle
  <2>4. SingleUse'
    BY <2>1, <2>2 DEF Redemptions, SingleUse, OneRedemption
  <2>5. /\ \A j \in Invites \ {i} : invite'[j] = invite[j] /\ joined'[j] = joined[j]
        /\ invite'[i].state = invite[i].state
        /\ invite[i].state = "sent" => invite'[i].redeemed
    BY <2>1, <2>2 DEF InviteRow
  <2>6. invite[i].state \in {"sent", "gone"}
    BY <2>1 DEF Redemptions, SpentIsClosed, InviteRow
  <2>7. SpentIsClosed'
    BY <2>3, <2>5, <2>6 DEF Redemptions, SpentIsClosed
  <2>8. OneRedemption'
    BY <2>1, <2>2, <2>3, <2>5 DEF Redemptions, OneRedemption
  <2> QED BY <2>4, <2>7, <2>8 DEF Redemptions
<1> QED BY <1>1, <1>2, <1>3, <1>4, <1>5, <1>6 DEF Joining

LEMMA OthersRedeemNothing ==
    ASSUME Typed, Redemptions, Enrolling \/ SessionSteps \/ Removing \/ Tick \/ UNCHANGED vars
    PROVE  Redemptions'
<1> USE DEF rows, history
<1>1. CASE Enrolling
  <2>1. UNCHANGED <<invite, joined, contested>>
    BY <1>1 DEF Enrolling, FirstOptions, AddDevice, FirstVerify, RevokeDevice, FirstWrite,
                RevokeDeviceWrite
  <2> QED BY <1>1, <2>1, EnrollingMoves, NoRedemption
<1>2. CASE SessionSteps
  <2>1. UNCHANGED <<invite, joined, contested>>
    BY <1>2 DEF SessionSteps, Logout, LoginVerify, Me, LoginWrite, MeWrite, Prune, PruneWrite
  <2> QED BY <1>2, <2>1, SessionMoves, NoRedemption
<1>3. CASE Removing
  <2>1. UNCHANGED <<joined, contested>>
    BY <1>3 DEF Removing, RemoveUser, RemoveCount, RemoveWrite, Fail
  <2>2. \A i \in Invites : invite'[i] = invite[i] \/ invite'[i].state = "gone"
    <3>1. CASE \E c \in Calls : RemoveWrite(c)
      BY <3>1 DEF RemoveWrite, NoInvite
    <3>2. CASE ~ \E c \in Calls : RemoveWrite(c)
      BY <1>3, <3>2 DEF Removing, RemoveUser, RemoveCount, Fail
    <3> QED BY <3>1, <3>2
  <2> QED BY <1>3, <2>1, <2>2, RemovingMoves, NoRedemption
<1>4. CASE Tick \/ UNCHANGED vars
  <2>1. UNCHANGED <<call, invite, joined, contested>>
    BY <1>4 DEF Tick, vars
  <2>2. Moves({})
    BY <2>1 DEF Moves
  <2> QED BY <2>1, <2>2, NoRedemption
<1> QED BY <1>1, <1>2, <1>3, <1>4

LEMMA RedemptionsHold == Spec => []Redemptions
<1>1. Init => Redemptions
  BY DEF Init, Redemptions, SingleUse, SpentIsClosed, OneRedemption, Redeems, Idle
<1>2. Typed /\ Redemptions /\ [Next]_vars => Redemptions'
  BY JoiningRedeemsOnce, OthersRedeemNothing DEF Next
<1>3. Spec => []Typed
  BY Typing DEF Typed
<1> QED BY <1>1, <1>2, <1>3, PTL DEF Spec

\* However many ceremonies were begun with an invite and whatever becomes of it
\* meanwhile, it makes one member at most, unless two redemptions overlap.
THEOREM InviteIsSingleUse == Spec => []SingleUse
<1>1. Redemptions => SingleUse
  BY DEF Redemptions
<1> QED BY <1>1, RedemptionsHold, PTL

-----------------------------------------------------------------------------
(* An invite that is shut stays shut. *)

\* Whatever a step writes to the row of an invite that is shut, it is shut then.
LEMMA RowStaysShut ==
    ASSUME Typed, NEW i \in Invites, Shut(i), now' \in Nat, now <= now',
           \/ invite'[i] = invite[i]
           \/ invite'[i].state = "gone"
           \/ invite'[i].state = "sent" /\ invite'[i].redeemed
           \/ invite'[i].state = "sent" /\ invite'[i].revoked
    PROVE  Shut(i)'
<1>1. now \in Nat /\ invite[i].exp \in Nat
  BY Clock DEF Typed, TypeOK, InviteRow
<1> QED BY <1>1 DEF Shut, Open

\* A step that moves no call to a registration.
LEMMA NoJoinBegins ==
    ASSUME NEW places, Moves(places), "join" \notin places
    PROVE  \A i \in Invites : JoinsOf(i)' \subseteq JoinsOf(i)
BY DEF Moves, JoinsOf, At

LEMMA JoiningShuts ==
    ASSUME Typed, Joining, NEW i \in Invites
    PROVE  /\ Shut(i) => Shut(i)'
           /\ Open(i) \/ JoinsOf(i)' \subseteq JoinsOf(i)
<1> USE DEF Typed, TypeOK, rows
<1>1. now \in Nat
  BY Clock
<1>2. ASSUME NEW u \in Admins, NEW j \in Invites, IssueInvite(u, j)
      PROVE  (Shut(i) => Shut(i)') /\ JoinsOf(i)' \subseteq JoinsOf(i)
  <2>1. now' = now /\ call' = call /\ (Shut(i) => invite'[i] = invite[i])
    BY <1>2 DEF IssueInvite, Shut
  <2> QED BY <1>1, <2>1, RowStaysShut DEF JoinsOf, At
<1>3. ASSUME NEW g \in Guests, NEW j \in Invites, RegisterOptions(g, j)
      PROVE  (Shut(i) => Shut(i)') /\ JoinsOf(i)' \subseteq JoinsOf(i)
  BY <1>1, <1>3, RowStaysShut DEF RegisterOptions, JoinsOf, At
<1>4. ASSUME NEW c \in Calls, NEW j \in Invites, RevokeInvite(c, j)
      PROVE  (Shut(i) => Shut(i)') /\ JoinsOf(i)' \subseteq JoinsOf(i)
  <2>1. Moves({"close"})
    BY <1>4, StartMoves DEF RevokeInvite, Idle
  <2> QED BY <1>1, <1>4, <2>1, RowStaysShut, NoJoinBegins DEF RevokeInvite
<1>5. ASSUME NEW c \in Calls, RevokeInviteWrite(c)
      PROVE  (Shut(i) => Shut(i)') /\ JoinsOf(i)' \subseteq JoinsOf(i)
  <2>1. Moves({"idle"}) /\ now' = now
    BY <1>5, EndMoves DEF RevokeInviteWrite
  <2>2. \/ invite'[i] = invite[i]
        \/ invite'[i].state = "sent" /\ invite'[i].revoked
    BY <1>5 DEF RevokeInviteWrite, InviteRow
  <2> QED BY <1>1, <2>1, <2>2, RowStaysShut, NoJoinBegins
<1>6. ASSUME NEW c \in Calls, NEW g \in Guests, RegisterVerify(c, g)
      PROVE  /\ Shut(i) => Shut(i)'
             /\ Open(i) \/ JoinsOf(i)' \subseteq JoinsOf(i)
  <2>1. invite' = invite /\ now' = now /\ Open(chal[g].invite)
    BY <1>6 DEF RegisterVerify, Redeemable
  <2>2. call' = [call EXCEPT ![c] = [Idle EXCEPT !.at = "join", !.user = g,
                                        !.invite = chal[g].invite, !.time = now]]
    BY <1>6 DEF RegisterVerify, Start
  <2>3. chal[g].invite # i => JoinsOf(i)' \subseteq JoinsOf(i)
    BY <2>2 DEF JoinsOf, At, Idle
  <2> QED BY <1>1, <2>1, <2>3, RowStaysShut
<1>7. ASSUME NEW c \in Calls, RegisterWrite(c)
      PROVE  (Shut(i) => Shut(i)') /\ JoinsOf(i)' \subseteq JoinsOf(i)
  <2>1. Moves({"idle"}) /\ now' = now
    BY <1>7, EndMoves DEF RegisterWrite
  <2>2. \/ invite'[i] = invite[i]
        \/ invite'[i].state = "sent" /\ invite'[i].redeemed
    BY <1>7 DEF RegisterWrite, InviteRow
  <2> QED BY <1>1, <2>1, <2>2, RowStaysShut, NoJoinBegins
<1> QED BY <1>2, <1>3, <1>4, <1>5, <1>6, <1>7 DEF Joining

LEMMA OthersShut ==
    ASSUME Typed, Enrolling \/ SessionSteps \/ Removing \/ Tick \/ UNCHANGED vars,
           NEW i \in Invites
    PROVE  (Shut(i) => Shut(i)') /\ JoinsOf(i)' \subseteq JoinsOf(i)
<1> USE DEF rows
<1>1. now \in Nat
  BY Clock DEF Typed, TypeOK
<1>2. CASE Enrolling
  <2>1. UNCHANGED <<now, invite>>
    BY <1>2 DEF Enrolling, FirstOptions, AddDevice, FirstVerify, RevokeDevice, FirstWrite,
                RevokeDeviceWrite
  <2> QED BY <1>1, <1>2, <2>1, EnrollingMoves, NoJoinBegins, RowStaysShut
<1>3. CASE SessionSteps
  <2>1. UNCHANGED <<now, invite>>
    BY <1>3 DEF SessionSteps, Logout, LoginVerify, Me, LoginWrite, MeWrite, Prune, PruneWrite
  <2> QED BY <1>1, <1>3, <2>1, SessionMoves, NoJoinBegins, RowStaysShut
<1>4. CASE Removing
  <2>1. now' = now
    BY <1>4 DEF Removing, RemoveUser, RemoveCount, RemoveWrite, Fail
  <2>2. invite'[i] = invite[i] \/ invite'[i].state = "gone"
    <3>1. CASE \E c \in Calls : RemoveWrite(c)
      BY <3>1 DEF RemoveWrite, NoInvite
    <3>2. CASE ~ \E c \in Calls : RemoveWrite(c)
      BY <1>4, <3>2 DEF Removing, RemoveUser, RemoveCount, Fail
    <3> QED BY <3>1, <3>2
  <2> QED BY <1>1, <1>4, <2>1, <2>2, RemovingMoves, NoJoinBegins, RowStaysShut
<1>5. CASE Tick \/ UNCHANGED vars
  <2>1. call' = call /\ invite' = invite /\ (now' = now + 1 \/ now' = now)
    BY <1>5 DEF Tick, vars
  <2>2. now' \in Nat /\ now <= now'
    BY <1>1, <2>1
  <2> QED BY <2>1, <2>2, RowStaysShut DEF JoinsOf, At
<1> QED BY <1>2, <1>3, <1>4, <1>5

\* An invite that was revoked, redeemed, has expired or went with its issuer is
\* shut for good, and no registration begins with it any more: revocations,
\* redemptions and removals may cross in any order.
THEOREM ShutForGood == Spec => ShutStaysShut
<1>1. Typed /\ [Next]_vars
          => [\A i \in Invites : Shut(i) => Shut(i)' /\ JoinsOf(i)' \subseteq JoinsOf(i)]_vars
  BY JoiningShuts, OthersShut DEF Next, Shut
<1>2. Spec => []Typed
  BY Typing DEF Typed
<1> QED BY <1>1, <1>2, PTL DEF Spec, ShutStaysShut

-----------------------------------------------------------------------------
(* How many members an invite can make when its redemptions do overlap. *)

\* An invite makes no more members than calls can be under way at once.
InviteAdmitsFew == \A i \in Invites : Cardinality(joined[i]) <= Cardinality(Calls)

\* Every member it has made took a call that was past its look at the invite
\* when the first of them was written; the other such calls can make one each.
PlacesLeft ==
    \A i \in Invites :
        /\ IsFiniteSet(joined[i])
        /\ joined[i] # {}
               => Cardinality(joined[i]) + Cardinality(JoinsOf(i)) <= Cardinality(Calls)

\* A step that makes no member of an invite: once it has made one it is shut.
LEMMA NobodyJoins ==
    ASSUME Typed, Redemptions, PlacesLeft, IsFiniteSet(Calls), NEW i \in Invites,
           joined'[i] = joined[i], Open(i) \/ JoinsOf(i)' \subseteq JoinsOf(i),
           joined[i] # {}
    PROVE  Cardinality(joined'[i]) + Cardinality(JoinsOf(i)') <= Cardinality(Calls)
<1>1. ~Open(i)
  BY DEF Redemptions, SpentIsClosed, Open
<1>2. IsFiniteSet(JoinsOf(i))
  BY FS_Subset DEF JoinsOf, At
<1>3. /\ IsFiniteSet(JoinsOf(i)') /\ Cardinality(JoinsOf(i)') <= Cardinality(JoinsOf(i))
  BY <1>1, <1>2, FS_Subset
<1>4. /\ Cardinality(JoinsOf(i)) \in Nat /\ Cardinality(JoinsOf(i)') \in Nat
      /\ Cardinality(joined[i]) \in Nat /\ Cardinality(Calls) \in Nat
  BY <1>2, <1>3, FS_CardinalityType DEF PlacesLeft
<1> QED BY <1>3, <1>4 DEF PlacesLeft

LEMMA OneMore ==
    ASSUME NEW S, NEW x, IsFiniteSet(S), NEW T, T = S \cup {x}
    PROVE  IsFiniteSet(T) /\ Cardinality(T) <= Cardinality(S) + 1
<1>1. Cardinality(S) \in Nat
  BY FS_CardinalityType
<1>2. /\ IsFiniteSet(T)
      /\ Cardinality(T) = IF x \in S THEN Cardinality(S) ELSE Cardinality(S) + 1
  BY FS_AddElement
<1> QED BY <1>1, <1>2

LEMMA OneJoins ==
    ASSUME Typed, PlacesLeft, IsFiniteSet(Calls), NEW i \in Invites,
           NEW c \in Calls, RegisterWrite(c), call[c].invite = i
    PROVE  /\ IsFiniteSet(joined'[i])
           /\ Cardinality(joined'[i]) + Cardinality(JoinsOf(i)') <= Cardinality(Calls)
<1>1. c \in JoinsOf(i)
  BY DEF RegisterWrite, JoinsOf, At
<1>2. joined'[i] = joined[i] \cup {call[c].user} /\ call' = [call EXCEPT ![c] = Idle]
  BY <1>1 DEF RegisterWrite, End, Typed, TypeOK
<1>3. JoinsOf(i)' \subseteq JoinsOf(i) \ {c}
  BY <1>2 DEF JoinsOf, At, Idle, Typed, TypeOK
<1>4. JoinsOf(i) \subseteq Calls
  BY DEF JoinsOf, At
<1>5. IsFiniteSet(JoinsOf(i)) /\ IsFiniteSet(joined[i])
  BY <1>4, FS_Subset DEF PlacesLeft
<1>6. /\ IsFiniteSet(joined'[i])
      /\ Cardinality(joined'[i]) <= Cardinality(joined[i]) + 1
  BY <1>2, <1>5, OneMore
<1>7. /\ IsFiniteSet(JoinsOf(i) \ {c}) /\ IsFiniteSet(Calls \ {c})
      /\ Cardinality(JoinsOf(i) \ {c}) = Cardinality(JoinsOf(i)) - 1
      /\ Cardinality(Calls \ {c}) = Cardinality(Calls) - 1
  BY <1>1, <1>5, FS_RemoveElement
<1>8. /\ IsFiniteSet(JoinsOf(i)')
      /\ Cardinality(JoinsOf(i)') <= Cardinality(JoinsOf(i)) - 1
      /\ Cardinality(JoinsOf(i)') <= Cardinality(Calls) - 1
  <2>1. JoinsOf(i)' \subseteq Calls \ {c}
    BY <1>3, <1>4
  <2> QED BY <1>3, <1>7, <2>1, FS_Subset
<1>9. /\ Cardinality(JoinsOf(i)) \in Nat /\ Cardinality(JoinsOf(i)') \in Nat
      /\ Cardinality(joined[i]) \in Nat /\ Cardinality(joined'[i]) \in Nat
      /\ Cardinality(Calls) \in Nat
  BY <1>5, <1>6, <1>8, FS_CardinalityType
<1>10. CASE joined[i] # {}
  <2>1. Cardinality(joined[i]) + Cardinality(JoinsOf(i)) <= Cardinality(Calls)
    BY <1>10 DEF PlacesLeft
  <2> QED BY <1>6, <1>8, <1>9, <2>1
<1>11. CASE joined[i] = {}
  <2>1. Cardinality(joined[i]) = 0
    BY <1>11, FS_EmptySet
  <2> QED BY <1>6, <1>8, <1>9, <2>1
<1> QED BY <1>10, <1>11

\* The race that InviteAdmitsOne is violated by is bounded: however many
\* ceremonies were begun with an invite, it makes no more members than calls of
\* the app run side by side.
THEOREM AdmittedAreFew == ASSUME IsFiniteSet(Calls) PROVE Spec => []InviteAdmitsFew
<1>1. Init => PlacesLeft
  BY FS_EmptySet DEF Init, PlacesLeft
<1>2. Typed /\ Redemptions /\ PlacesLeft /\ [Next]_vars => PlacesLeft'
  <2> SUFFICES ASSUME Typed, Redemptions, PlacesLeft, [Next]_vars, NEW i \in Invites
               PROVE  /\ IsFiniteSet(joined'[i])
                      /\ joined'[i] # {} =>
                             Cardinality(joined'[i]) + Cardinality(JoinsOf(i)')
                                 <= Cardinality(Calls)
    BY DEF PlacesLeft
  <2>1. Open(i) \/ JoinsOf(i)' \subseteq JoinsOf(i)
    BY JoiningShuts, OthersShut DEF Next
  <2>2. CASE \E c \in Calls : RegisterWrite(c) /\ call[c].invite = i
    BY <2>2, OneJoins
  <2>3. CASE ~ \E c \in Calls : RegisterWrite(c) /\ call[c].invite = i
    <3>1. joined'[i] = joined[i]
      BY <2>3 DEF Next, Joining, IssueInvite, RegisterOptions, RevokeInvite, RevokeInviteWrite,
                  RegisterVerify, RegisterWrite, Enrolling, FirstOptions, AddDevice, FirstVerify,
                  RevokeDevice, FirstWrite, RevokeDeviceWrite, SessionSteps, Logout,
                  LoginVerify, Me, LoginWrite, MeWrite, Prune, PruneWrite, Removing, RemoveUser,
                  RemoveCount, RemoveWrite, Fail, Tick, vars, rows, history, Typed, TypeOK
    <3> QED BY <2>1, <3>1, NobodyJoins DEF PlacesLeft
  <2> QED BY <2>2, <2>3
<1>3. Typed /\ PlacesLeft => InviteAdmitsFew
  <2> SUFFICES ASSUME PlacesLeft, NEW i \in Invites
               PROVE  Cardinality(joined[i]) <= Cardinality(Calls)
    BY DEF InviteAdmitsFew
  <2>1. JoinsOf(i) \subseteq Calls
    BY DEF JoinsOf, At
  <2>2. /\ Cardinality(JoinsOf(i)) \in Nat /\ Cardinality(Calls) \in Nat
        /\ Cardinality(joined[i]) \in Nat
    BY <2>1, FS_Subset, FS_CardinalityType DEF PlacesLeft
  <2>3. CASE joined[i] = {}
    BY <2>2, <2>3, FS_EmptySet
  <2>4. CASE joined[i] # {}
    BY <2>2, <2>4 DEF PlacesLeft
  <2> QED BY <2>3, <2>4
<1>4. Spec => []Typed
  BY Typing DEF Typed
<1> QED BY <1>1, <1>2, <1>3, <1>4, RedemptionsHold, PTL DEF Spec

-----------------------------------------------------------------------------
(* A revoked device has no session, and a session that is gone stays away. *)

\* A login whose device was revoked since it looked has been noticed.
LoginsRaced ==
    \A c \in Calls : call[c].at = "login" /\ device[call[c].device].revoked
                         => call[c].device \in raced

Revocations == RevokedHasNoSession /\ LoginsRaced

\* The answer of a `me` writes to a row that is there, or to none.
LEMMA MeSlides ==
    ASSUME Typed, NEW c \in Calls, MeWrite(c)
    PROVE  \A t \in Tokens : \/ session'[t] = NoSession
                             \/ session[t] # NoSession /\ session'[t].device = session[t].device
                             \/ session'[t] = session[t]
<1> DEFINE s == call[c].token
<1>1. PICK time \in call[c].time .. now :
          IF time >= session[s].created + HardCap THEN SignOut({s})
          ELSE session' = [session EXCEPT ![s] =
                   IF Touchable(s)
                   THEN [@ EXCEPT !.exp = NextExpiry(session[s].created, time)] ELSE @]
  BY DEF MeWrite
<1>2. CASE SignOut({s})
  BY <1>2 DEF SignOut
<1>3. CASE ~Touchable(s) /\ session' = [session EXCEPT ![s] = session[s]]
  BY <1>3
<1>4. CASE /\ Touchable(s)
           /\ session' = [session EXCEPT ![s].exp = NextExpiry(session[s].created, time)]
  BY <1>4 DEF Touchable, Typed, TypeOK, SessionRow
<1> QED BY <1>1, <1>2, <1>3, <1>4

\* A step that begins no session and no login, and revokes no device.
LEMMA NoSessionBegins ==
    ASSUME Typed, Revocations, NEW places, Moves(places), "login" \notin places,
           UNCHANGED <<device, raced>>,
           \A s \in Tokens : \/ session'[s] = NoSession
                             \/ session[s] # NoSession /\ session'[s].device = session[s].device
                             \/ session'[s] = session[s]
    PROVE  Revocations'
<1>1. RevokedHasNoSession'
  BY DEF Revocations, RevokedHasNoSession
<1>2. LoginsRaced'
  BY DEF Revocations, LoginsRaced, Moves
<1> QED BY <1>1, <1>2 DEF Revocations

\* A step that enrols a device with a session.
LEMMA EnrolledUnrevoked ==
    ASSUME Typed, Revocations, NEW places, Moves(places), "login" \notin places,
           raced' = raced,
           NEW u \in Users, u \in users', users \subseteq users',
           NEW time \in Nat, Enroll(u, time)
    PROVE  Revocations'
<1>1. /\ \A d \in Devices :
             \/ device'[d] = device[d]
             \/ device[d] = NoDevice /\ ~device'[d].revoked
      /\ \A s \in Tokens :
             \/ session'[s] = session[s]
             \/ session[s] = NoSession /\ ~device'[session'[s].device].revoked
  BY Enrolled DEF Typed, TypeOK
<1>2. RevokedHasNoSession'
  BY <1>1 DEF Revocations, RevokedHasNoSession, Typed, TypeOK, SessionOwned
<1>3. \A c \in Calls : call[c].at = "login" => call[c].device \in Devices
  BY DEF Typed, CallsSound
<1>4. LoginsRaced'
  BY <1>1, <1>3 DEF Revocations, LoginsRaced, Moves
<1> QED BY <1>2, <1>4 DEF Revocations

LEMMA JoiningRevocations ==
    ASSUME Typed, Revocations, Joining
    PROVE  Revocations'
<1>1. ASSUME NEW c \in Calls, RegisterWrite(c)
      PROVE  Revocations'
  <2>1. call[c].user \in Users /\ call[c].time \in Nat
    BY <1>1 DEF Typed, TypeOK, CallsSound, CallState, RegisterWrite, Users
  <2>2. /\ call[c].user \in users' /\ users \subseteq users' /\ raced' = raced
        /\ Enroll(call[c].user, call[c].time)
    BY <1>1 DEF RegisterWrite
  <2> QED BY <1>1, <2>1, <2>2, JoiningMoves, EnrolledUnrevoked
<1>2. CASE ~ \E c \in Calls : RegisterWrite(c)
  <2>1. UNCHANGED <<device, session, raced>>
    BY <1>2 DEF Joining, IssueInvite, RegisterOptions, RevokeInvite, RegisterVerify,
                RevokeInviteWrite, rows, history
  <2> QED BY <2>1, JoiningMoves, NoSessionBegins
<1> QED BY <1>1, <1>2

LEMMA EnrollingRevocations ==
    ASSUME Typed, Revocations, Enrolling
    PROVE  Revocations'
<1> USE DEF rows, history
<1>1. ASSUME NEW c \in Calls, FirstWrite(c)
      PROVE  Revocations'
  <2>1. call[c].user \in Users /\ call[c].time \in Nat
    BY <1>1 DEF Typed, TypeOK, CallsSound, CallState, FirstWrite, Users
  <2>2. /\ call[c].user \in users' /\ users \subseteq users' /\ raced' = raced
        /\ Enroll(call[c].user, call[c].time)
    BY <1>1 DEF FirstWrite
  <2> QED BY <1>1, <2>1, <2>2, EnrollingMoves, EnrolledUnrevoked
<1>2. ASSUME NEW u \in Users, AddDevice(u)
      PROVE  Revocations'
  <2>1. now \in Nat
    BY Clock DEF Typed, TypeOK
  <2>2. u \in users' /\ users \subseteq users' /\ raced' = raced /\ Enroll(u, now)
    BY <1>2 DEF AddDevice
  <2> QED BY <1>2, <2>1, <2>2, EnrollingMoves, EnrolledUnrevoked
<1>3. ASSUME NEW c \in Calls, RevokeDeviceWrite(c)
      PROVE  Revocations'
  <2> DEFINE d == call[c].device
  <2>1. d \in Devices /\ call[c].at = "revoke"
    BY <1>3 DEF RevokeDeviceWrite, Typed, CallsSound
  <2>2. CASE device[d] # NoDevice /\ ~device[d].revoked
    <3>1. /\ device' = [device EXCEPT ![d].revoked = TRUE]
          /\ SignOut(SessionsOf({d}))
          /\ raced' = IF \E e \in At("login") : call[e].device = d THEN raced \cup {d} ELSE raced
      BY <1>3, <2>2 DEF RevokeDeviceWrite
    <3>2. \A e \in Devices \ {d} : device'[e] = device[e]
      BY <2>1, <3>1 DEF Typed, TypeOK
    <3>3. \A s \in Tokens : session'[s] = IF s \in SessionsOf({d}) THEN NoSession ELSE session[s]
      BY <3>1 DEF SignOut
    <3>4. RevokedHasNoSession'
      BY <3>1, <3>2, <3>3
         DEF Revocations, RevokedHasNoSession, SessionsOf, Typed, TypeOK, SessionOwned
    <3>5. \A e \in Calls : call[e].at = "login" /\ call[e].device = d => d \in raced'
      BY <3>1 DEF At
    <3>6. \A e \in Calls : call[e].at = "login" => call[e].device \in Devices
      BY DEF Typed, CallsSound
    <3>7. LoginsRaced'
      BY <3>1, <3>2, <3>5, <3>6, EnrollingMoves DEF Revocations, LoginsRaced, Moves
    <3> QED BY <3>4, <3>7 DEF Revocations
  <2>3. CASE ~(device[d] # NoDevice /\ ~device[d].revoked)
    <3>1. UNCHANGED <<device, session, raced>>
      BY <1>3, <2>3 DEF RevokeDeviceWrite
    <3> QED BY <3>1, EnrollingMoves, NoSessionBegins
  <2> QED BY <2>2, <2>3
<1>4. CASE ~ \/ \E c \in Calls : FirstWrite(c) \/ RevokeDeviceWrite(c)
             \/ \E u \in Users : AddDevice(u)
  <2>1. UNCHANGED <<device, session, raced>>
    BY <1>4 DEF Enrolling, FirstOptions, FirstVerify, RevokeDevice
  <2> QED BY <2>1, EnrollingMoves, NoSessionBegins
<1> QED BY <1>1, <1>2, <1>3, <1>4

LEMMA SessionRevocations ==
    ASSUME Typed, Revocations, SessionSteps
    PROVE  Revocations'
<1> USE DEF rows, history
<1>1. ASSUME NEW s \in Tokens, Logout(s)
      PROVE  Revocations'
  <2>1. Moves({})
    BY <1>1 DEF Logout, Moves
  <2>2. \A t \in Tokens : session'[t] = NoSession \/ session'[t] = session[t]
    BY <1>1 DEF Logout, SignOut
  <2> QED BY <1>1, <2>1, <2>2, NoSessionBegins DEF Logout
<1>2. ASSUME NEW c \in Calls, NEW d \in Devices, LoginVerify(c, d)
      PROVE  Revocations'
  <2>1. call' = [call EXCEPT ![c] = [Idle EXCEPT !.at = "login", !.device = d, !.time = now]]
        /\ UNCHANGED <<device, session, raced>> /\ ~device[d].revoked
    BY <1>2 DEF LoginVerify, Start, MayLogIn
  <2>2. RevokedHasNoSession'
    BY <2>1 DEF Revocations, RevokedHasNoSession
  <2>3. call'[c].device = d /\ \A e \in Calls \ {c} : call'[e] = call[e]
    BY <2>1 DEF Idle, Typed, TypeOK
  <2>4. LoginsRaced'
    BY <2>1, <2>3 DEF Revocations, LoginsRaced
  <2> QED BY <2>2, <2>4 DEF Revocations
<1>3. ASSUME NEW c \in Calls, LoginWrite(c)
      PROVE  Revocations'
  <2>1. /\ call[c].at = "login" /\ call[c].device \in Devices /\ call[c].time \in Nat
        /\ UNCHANGED <<device, raced>>
    BY <1>3 DEF LoginWrite, Typed, TypeOK, CallsSound, CallState
  <2>2. \A s \in Tokens : \/ session'[s] = session[s]
                          \/ session'[s].device = call[c].device
    BY <1>3, <2>1, Begun DEF LoginWrite, Typed, TypeOK
  <2>3. RevokedHasNoSession'
    BY <2>1, <2>2 DEF Revocations, RevokedHasNoSession, LoginsRaced
  <2>4. Moves({"idle"})
    BY <1>3, EndMoves DEF LoginWrite, Typed, TypeOK
  <2>5. LoginsRaced'
    BY <2>1, <2>4 DEF Revocations, LoginsRaced, Moves
  <2> QED BY <2>3, <2>5 DEF Revocations
<1>4. ASSUME NEW c \in Calls, NEW s \in Tokens, Me(c, s)
      PROVE  Revocations'
  <2>1. Moves({"me"})
    BY <1>4, StartMoves DEF Me, Typed, TypeOK, Idle
  <2> QED BY <1>4, <2>1, NoSessionBegins DEF Me
<1>5. ASSUME NEW c \in Calls, MeWrite(c)
      PROVE  Revocations'
  <2>1. Moves({"idle"})
    BY <1>5, EndMoves DEF MeWrite, Typed, TypeOK
  <2>2. \A t \in Tokens : \/ session'[t] = NoSession
                          \/ session[t] # NoSession /\ session'[t].device = session[t].device
                          \/ session'[t] = session[t]
    BY <1>5, MeSlides
  <2> QED BY <1>5, <2>1, <2>2, NoSessionBegins DEF MeWrite
<1>6. ASSUME NEW c \in Calls, Prune(c)
      PROVE  Revocations'
  <2>1. Moves({"prune"})
    BY <1>6, StartMoves DEF Prune, Typed, TypeOK, Idle
  <2> QED BY <1>6, <2>1, NoSessionBegins DEF Prune
<1>7. ASSUME NEW c \in Calls, PruneWrite(c)
      PROVE  Revocations'
  <2>1. Moves({"idle"})
    BY <1>7, EndMoves DEF PruneWrite, Typed, TypeOK
  <2>2. \A t \in Tokens : session'[t] = NoSession \/ session'[t] = session[t]
    BY <1>7 DEF PruneWrite, SignOut
  <2> QED BY <1>7, <2>1, <2>2, NoSessionBegins DEF PruneWrite
<1> QED BY <1>1, <1>2, <1>3, <1>4, <1>5, <1>6, <1>7 DEF SessionSteps

LEMMA RemovingRevocations ==
    ASSUME Typed, Revocations, Removing
    PROVE  Revocations'
<1> USE DEF rows, history
<1>1. ASSUME NEW c \in Calls, RemoveWrite(c)
      PROVE  Revocations'
  <2> DEFINE D == {d \in Devices : device[d].owner = call[c].user}
  <2>1. /\ device' = [d \in Devices |-> IF d \in D THEN NoDevice ELSE device[d]]
        /\ SignOut(SessionsOf(D))
        /\ raced' = raced \ D
        /\ Moves({"idle"})
    BY <1>1, EndMoves DEF RemoveWrite, Typed, TypeOK
  <2>2. \A d \in Devices : device'[d] = IF d \in D THEN NoDevice ELSE device[d]
    BY <2>1
  <2>3. \A s \in Tokens : session'[s] = IF s \in SessionsOf(D) THEN NoSession ELSE session[s]
    BY <2>1 DEF SignOut
  <2>4. RevokedHasNoSession'
    BY <2>1, <2>2, <2>3
       DEF Revocations, RevokedHasNoSession, SessionsOf, Typed, TypeOK, SessionOwned
  <2>5. \A e \in Calls : call[e].at = "login" => call[e].device \in Devices
    BY DEF Typed, CallsSound
  <2>6. \A d \in Devices : device'[d].revoked => d \notin D /\ device'[d] = device[d]
    BY <2>2 DEF NoDevice
  <2>7. LoginsRaced'
    BY <2>1, <2>5, <2>6 DEF Revocations, LoginsRaced, Moves
  <2> QED BY <2>4, <2>7 DEF Revocations
<1>2. CASE ~ \E c \in Calls : RemoveWrite(c)
  <2>1. UNCHANGED <<device, session, raced>>
    BY <1>2 DEF Removing, RemoveUser, RemoveCount, Fail
  <2> QED BY <2>1, RemovingMoves, NoSessionBegins
<1> QED BY <1>1, <1>2

\* A revoked device has no session, unless a login of its was under way when it
\* was revoked: for any number of devices, calls and admins.
THEOREM RevokedIsOut == Spec => []RevokedHasNoSession
<1>1. Init => Revocations
  BY DEF Init, Revocations, RevokedHasNoSession, LoginsRaced, Idle
<1>2. Typed /\ Revocations /\ [Next]_vars => Revocations'
  <2>1. ASSUME Typed, Revocations, Tick \/ UNCHANGED vars
        PROVE  Revocations'
    <3>1. UNCHANGED <<call, device, session, raced>>
      BY <2>1 DEF Tick, vars, rows, history
    <3> QED BY <2>1, <3>1 DEF Revocations, RevokedHasNoSession, LoginsRaced
  <2> QED BY <2>1, JoiningRevocations, EnrollingRevocations, SessionRevocations,
             RemovingRevocations DEF Next
<1>3. Revocations => RevokedHasNoSession
  BY DEF Revocations
<1>4. Spec => []Typed
  BY Typing DEF Typed
<1> QED BY <1>1, <1>2, <1>3, <1>4, PTL DEF Spec

\* A token that a call holds is not drawn again.
LEMMA HeldStays ==
    ASSUME Typed, NEW d \in Devices, NEW time, Begin(d, time), NEW c \in Calls,
           call[c].token \in Tokens
    PROVE  session'[call[c].token] = session[call[c].token]
BY DEF Begin, FreeTokens, Typed, TypeOK

\* What was signed out, revoked, pruned or removed under a `me` stays out.
LEMMA StaysOut ==
    ASSUME Typed, [Next]_vars, NEW c \in Calls,
           call[c].at = "me", session[call[c].token] = NoSession
    PROVE  session'[call[c].token] = NoSession
<1> DEFINE s == call[c].token
<1>1. s \in Tokens
  BY DEF Typed, CallsSound
<1>2. ASSUME NEW u, NEW time, Enroll(u, time)
      PROVE  session'[s] = NoSession
  <2>1. PICK d \in Devices : Begin(d, time)
    BY <1>2 DEF Enroll, FreeDevices
  <2> QED BY <1>1, <2>1, HeldStays
<1>3. ASSUME NEW S, SignOut(S)
      PROVE  session'[s] = NoSession
  BY <1>1, <1>3 DEF SignOut
<1>4. CASE session' = session
  BY <1>4
<1>5. CASE Joining
  BY <1>2, <1>4, <1>5 DEF Joining, IssueInvite, RegisterOptions, RevokeInvite, RegisterVerify,
                          RegisterWrite, RevokeInviteWrite, rows
<1>6. CASE Enrolling
  <2>1. ASSUME NEW e \in Calls, RevokeDeviceWrite(e)
        PROVE  session'[s] = NoSession
    BY <1>3, <1>4, <2>1 DEF RevokeDeviceWrite
  <2> QED BY <1>2, <1>4, <1>6, <2>1 DEF Enrolling, FirstOptions, AddDevice, FirstVerify,
                                        RevokeDevice, FirstWrite, rows
<1>7. CASE SessionSteps
  <2>1. ASSUME NEW e \in Calls, LoginWrite(e)
        PROVE  session'[s] = NoSession
    BY <1>1, <2>1, HeldStays DEF LoginWrite, Typed, CallsSound
  <2>2. ASSUME NEW e \in Calls, MeWrite(e)
        PROVE  session'[s] = NoSession
    BY <1>1, <2>2, MeSlides
  <2> QED BY <1>3, <1>4, <1>7, <2>1, <2>2 DEF SessionSteps, Logout, LoginVerify, Me, Prune,
                                              PruneWrite, rows
<1>8. CASE Removing
  BY <1>3, <1>4, <1>8 DEF Removing, RemoveUser, RemoveCount, RemoveWrite, Fail, rows
<1> QED BY <1>4, <1>5, <1>6, <1>7, <1>8 DEF Next, Tick, vars, rows

\* The answer of a `me` never brings a session back.
THEOREM NoSessionReturns == Spec => SignedOutStaysOut
<1>1. Typed /\ [Next]_vars
          => [\A c \in Calls : call[c].at = "me" /\ session[call[c].token] = NoSession
                  => session'[call[c].token] = NoSession]_vars
  BY StaysOut
<1>2. Spec => []Typed
  BY Typing DEF Typed
<1> QED BY <1>1, <1>2, PTL DEF Spec, SignedOutStaysOut
=============================================================================
