--------------------------- MODULE HubLiveProofs ----------------------------
(***************************************************************************)
(* Theorems about HubLive: its types, presence and the live sign, for any  *)
(* number of devices, tabs, subscribers and sockets.                       *)
(*                                                                         *)
(* Both properties speak of what is on its way.  The last presence on a    *)
(* socket is followed through every send and every delivery, and a socket  *)
(* that was not closed is the one its tab's session holds.                 *)
(***************************************************************************)
EXTENDS HubLive, TLAPS

\* What travels to a browser.
Messages == {Hello(d) : d \in Devices} \cup {Presence(D) : D \in SUBSET Devices}

RoomTyped ==
    /\ room \in [Sockets -> Devices \cup {Absent}]
    /\ down \in [Sockets -> Seq(Messages)]
    /\ \A s \in Sockets : Len(down[s]) <= MaxDown + 1
    /\ cut \subseteq Sockets

TabsTyped ==
    /\ \A t \in Tabs : subs[t] \subseteq Subscribers[t]
    /\ DOMAIN subs = Tabs /\ subs = [t \in Tabs |-> subs[t]]
    /\ phase \in [Tabs -> {"none", "ticket", "socket", "wait"}]
    /\ live \in [Tabs -> BOOLEAN]
    /\ late \subseteq Tabs /\ faults \in 0..MaxFaults

WireTyped ==
    /\ socket \in [Tabs -> Sockets \cup {NoSocket}]
    /\ owner \in [Sockets -> Tabs \cup {NoTab}]
    /\ seen \in [Sockets -> SUBSET Devices]
    /\ asked \subseteq Sockets /\ closing \subseteq Sockets /\ greeted \subseteq Sockets
    /\ \A s \in asked \cup closing \cup greeted : owner[s] # NoTab

\* One session at most, while anyone listens; its socket is its own.
SessionHeld ==
    \A t \in Tabs :
        /\ subs[t] = {} <=> phase[t] = "none"
        /\ socket[t] # NoSocket <=> phase[t] = "socket"
        /\ socket[t] # NoSocket => owner[socket[t]] = t

Typed == RoomTyped /\ TabsTyped /\ WireTyped /\ SessionHeld

\* A socket that was not closed is the one its tab's session holds.
Current ==
    \A s \in Sockets : owner[s] # NoTab /\ s \notin closing => socket[owner[s]] = s

\* D is the last presence of q, or e where there is none.
IsPresence(q, i) == q[i].type = "presence.changed"

LastIs(q, e, D) ==
    \/ e = D /\ \A i \in 1..Len(q) : ~IsPresence(q, i)
    \/ \E i \in 1..Len(q) :
          /\ IsPresence(q, i) /\ q[i].devices = D
          /\ \A j \in 1..Len(q) : IsPresence(q, j) => j <= i

Told ==
    \A s \in InRoom \ (cut \cup closing) :
        owner[s] # NoTab => LastIs(down[s], seen[s], DevicesOf(InRoom))

\* LiveFollows, of what is a Boolean.
LiveShown == \A t \in Tabs \ late : live[t] <=> socket[t] \in greeted

Sound == Typed /\ Current /\ LiveShown /\ Told

\* The steps, by whose they are.
SubscriberStep == \E t \in Tabs : \E who \in Subscribers[t] : Subscribe(t, who) \/ Unsubscribe(t, who)
SessionStep == \E t \in Tabs : Ticket(t) \/ TicketFails(t) \/ Again(t)
HubStep == \E s \in Sockets : Accept(s) \/ Cut(s) \/ ServerClosed(s)
SocketStep == \E s \in Sockets : Refuse(s) \/ Deliver(s) \/ Silence(s) \/ Closed(s)

LEMMA Steps == Next => SubscriberStep \/ SessionStep \/ HubStep \/ SocketStep
  BY DEF Next, SubscriberStep, SessionStep, HubStep, SocketStep

-----------------------------------------------------------------------------
(* Messages under way.                                                     *)

LEMMA MessageTypes ==
    /\ \A d : Hello(d).type = "hello"
    /\ \A D : Presence(D).type = "presence.changed" /\ Presence(D).devices = D
    /\ \A D \in SUBSET Devices : Presence(D) \in Messages
    /\ \A d \in Devices : Hello(d) \in Messages
    /\ \A m \in Messages :
          m.type # "hello" => m.type = "presence.changed" /\ m.devices \subseteq Devices
  <1>1. \A d : Hello(d).type = "hello"
    BY DEF Hello
  <1>2. \A D : Presence(D).type = "presence.changed" /\ Presence(D).devices = D
    BY DEF Presence
  <1>3. \A m \in Messages :
          (\E d \in Devices : m = Hello(d)) \/ \E D \in SUBSET Devices : m = Presence(D)
    BY DEF Messages
  <1>4. \A m \in Messages :
          m.type # "hello" => m.type = "presence.changed" /\ m.devices \subseteq Devices
    <2> SUFFICES ASSUME NEW m \in Messages, m.type # "hello"
                 PROVE  m.type = "presence.changed" /\ m.devices \subseteq Devices
      OBVIOUS
    <2>1. PICK D \in SUBSET Devices : m = Presence(D)
      BY <1>1, <1>3
    <2>2. QED
      BY <1>2, <2>1
  <1>5. QED
    BY <1>1, <1>2, <1>4 DEF Messages

\* What was sent last is the last presence.
LEMMA LastSent ==
    ASSUME NEW q \in Seq(Messages), NEW e, NEW D
    PROVE  LastIs(Append(q, Presence(D)), e, D)
  <1> DEFINE n == Len(q) + 1
             p == Append(q, Presence(D))
  <1>1. Len(p) = n /\ n \in Nat /\ n \in 1..Len(p) /\ p[n] = Presence(D)
    OBVIOUS
  <1>2. IsPresence(p, n) /\ p[n].devices = D
    BY <1>1, MessageTypes DEF IsPresence
  <1>3. \A j \in 1..Len(p) : j <= n
    BY <1>1
  <1> HIDE DEF p, n
  <1>4. LastIs(p, e, D)
    BY <1>1, <1>2, <1>3 DEF LastIs
  <1>5. QED
    BY <1>4 DEF p

LEMMA LastAfterHello ==
    ASSUME NEW d, NEW D, NEW e
    PROVE  LastIs(<<Hello(d), Presence(D)>>, e, D)
  <1> DEFINE p == <<Hello(d), Presence(D)>>
  <1>1. Len(p) = 2 /\ p[2] = Presence(D) /\ 2 \in 1..Len(p)
    OBVIOUS
  <1>2. IsPresence(p, 2) /\ p[2].devices = D
    BY <1>1, MessageTypes DEF IsPresence
  <1>3. \A j \in 1..Len(p) : j <= 2
    BY <1>1
  <1> HIDE DEF p
  <1>4. LastIs(p, e, D)
    BY <1>1, <1>2, <1>3 DEF LastIs
  <1>5. QED
    BY <1>4 DEF p

\* A delivery takes the first message; the last presence stays what it was.
LEMMA LastDelivered ==
    ASSUME NEW q \in Seq(Messages), q # <<>>, NEW e, NEW D, LastIs(q, e, D)
    PROVE  /\ Head(q).type = "hello" => LastIs(Tail(q), e, D)
           /\ Head(q).type # "hello" => LastIs(Tail(q), Head(q).devices, D)
  <1> DEFINE p == Tail(q)
  <1>1. /\ Len(q) \in Nat /\ Len(q) >= 1 /\ Len(p) = Len(q) - 1
        /\ \A i \in 1..Len(p) : p[i] = q[i + 1] /\ i + 1 \in 1..Len(q)
        /\ Head(q) = q[1] /\ 1 \in 1..Len(q) /\ Head(q) \in Messages
    OBVIOUS
  <1>2. \A i \in 1..Len(p) : IsPresence(p, i) <=> IsPresence(q, i + 1)
    BY <1>1 DEF IsPresence
  <1>3. IsPresence(q, 1) <=> Head(q).type # "hello"
    BY <1>1, MessageTypes DEF IsPresence
  <1>4. CASE e = D /\ \A i \in 1..Len(q) : ~IsPresence(q, i)
    <2>1. \A i \in 1..Len(p) : ~IsPresence(p, i)
      BY <1>1, <1>2, <1>4
    <2>2. Head(q).type = "hello"
      BY <1>1, <1>3, <1>4
    <2>3. QED
      BY <1>4, <2>1, <2>2 DEF LastIs
  <1>5. ASSUME NEW i \in 1..Len(q), IsPresence(q, i), q[i].devices = D,
               \A j \in 1..Len(q) : IsPresence(q, j) => j <= i
        PROVE  /\ Head(q).type = "hello" => LastIs(p, e, D)
               /\ Head(q).type # "hello" => LastIs(p, Head(q).devices, D)
    <2>1. CASE i = 1
      <3>1. \A j \in 1..Len(p) : ~IsPresence(p, j)
        BY <1>1, <1>2, <1>5, <2>1
      <3>2. Head(q).type # "hello" /\ Head(q).devices = D
        BY <1>1, <1>3, <1>5, <2>1
      <3>3. QED
        BY <3>1, <3>2 DEF LastIs
    <2>2. CASE i # 1
      <3>1. i - 1 \in 1..Len(p) /\ (i - 1) + 1 = i
        BY <1>1, <2>2
      <3>2. IsPresence(p, i - 1) /\ p[i - 1].devices = D
        BY <1>1, <1>2, <1>5, <3>1
      <3>3. \A j \in 1..Len(p) : IsPresence(p, j) => j <= i - 1
        BY <1>1, <1>2, <1>5
      <3> HIDE DEF p
      <3>4. \A f : LastIs(p, f, D)
        BY <3>1, <3>2, <3>3 DEF LastIs
      <3>5. QED
        BY <3>4
    <2>3. QED
      BY <2>1, <2>2
  <1>6. QED
    BY <1>4, <1>5 DEF LastIs

\* The choice that LastPresence makes is the last.
LEMMA LastIsChosen ==
    ASSUME NEW s \in Sockets, down[s] \in Seq(Messages), NEW D, LastIs(down[s], seen[s], D)
    PROVE  LastPresence(s) = D
  <1> DEFINE P == {i \in 1..Len(down[s]) : down[s][i].type = "presence.changed"}
             last == CHOOSE i \in P : \A j \in P : j <= i
  <1>1. CASE seen[s] = D /\ \A i \in 1..Len(down[s]) : ~IsPresence(down[s], i)
    <2>1. P = {}
      BY <1>1 DEF IsPresence
    <2>2. QED
      BY <1>1, <2>1 DEF LastPresence
  <1>2. ASSUME NEW i \in 1..Len(down[s]), IsPresence(down[s], i), down[s][i].devices = D,
               \A j \in 1..Len(down[s]) : IsPresence(down[s], j) => j <= i
        PROVE  LastPresence(s) = D
    <2>1. i \in P /\ \A j \in P : j <= i
      BY <1>2 DEF IsPresence
    <2>2. last \in P /\ \A j \in P : j <= last
      BY <2>1
    <2>3. last \in Nat /\ i \in Nat
      BY <2>1, <2>2
    <2>4. last = i
      BY <2>1, <2>2, <2>3
    <2>5. P # {} /\ LastPresence(s) = IF P = {} THEN seen[s] ELSE down[s][last].devices
      BY <2>1 DEF LastPresence
    <2> HIDE DEF P, last
    <2>6. QED
      BY <1>2, <2>4, <2>5
  <1>3. QED
    BY <1>1, <1>2 DEF LastIs

LEMMA ToldIsTrue ==
    ASSUME RoomTyped, Told
    PROVE  PresenceTrue
  <1> SUFFICES ASSUME NEW s \in InRoom \ (cut \cup closing), owner[s] # NoTab
               PROVE  LastPresence(s) = DevicesOf(InRoom)
    BY DEF PresenceTrue
  <1>1. s \in Sockets /\ down[s] \in Seq(Messages)
    BY DEF InRoom, RoomTyped
  <1>2. QED
    BY <1>1, LastIsChosen DEF Told

-----------------------------------------------------------------------------
(* The hub: what its operators leave.                                      *)

LEMMA Present ==
    ASSUME RoomTyped, NEW S \in SUBSET Sockets
    PROVE  DevicesOf(S) \subseteq Devices
  BY DEF RoomTyped, DevicesOf

LEMMA SentTyped ==
    ASSUME RoomTyped, NEW S \in SUBSET Sockets, NEW m \in Messages, RoomFor(1, S)
    PROVE  /\ Sent(S, m) \in [Sockets -> Seq(Messages)]
           /\ \A s \in Sockets : Len(Sent(S, m)[s]) <= MaxDown + 1
           /\ \A s \in S \ cut : Sent(S, m)[s] = Append(down[s], m)
           /\ \A s \in Sockets \ S : Sent(S, m)[s] = down[s]
  <1>1. \A s \in Sockets :
           Sent(S, m)[s] = IF s \in S \ cut THEN Append(down[s], m) ELSE down[s]
    BY DEF Sent
  <1>2. \A s \in Sockets : Append(down[s], m) \in Seq(Messages)
    BY DEF RoomTyped
  <1>3. \A s \in Sockets : Sent(S, m)[s] \in Seq(Messages)
    BY <1>1, <1>2 DEF RoomTyped
  <1>4. ASSUME NEW s \in Sockets PROVE Len(Sent(S, m)[s]) <= MaxDown + 1
    <2>1. down[s] \in Seq(Messages) /\ Len(down[s]) \in Nat /\ MaxDown \in Nat
      BY RoomAssumption DEF RoomTyped
    <2>2. CASE s \in S \ cut
      <3>1. Len(Sent(S, m)[s]) = Len(down[s]) + 1
        <4>1. Sent(S, m)[s] = Append(down[s], m)
          BY <1>1, <2>2
        <4>2. Len(Append(down[s], m)) = Len(down[s]) + 1
          BY <2>1
        <4>3. QED
          BY <4>1, <4>2
      <3>2. Len(down[s]) + 1 <= MaxDown
        BY <2>2 DEF RoomFor
      <3>3. QED
        BY <2>1, <3>1, <3>2
    <2>3. CASE s \notin S \ cut
      BY <1>1, <2>3 DEF RoomTyped
    <2>4. QED
      BY <2>2, <2>3
  <1>5. Sent(S, m) \in [Sockets -> Seq(Messages)]
    <2>1. Sent(S, m) = [s \in Sockets |-> Sent(S, m)[s]]
      BY DEF Sent
    <2>2. QED
      BY <1>3, <2>1
  <1>6. QED
    BY <1>1, <1>4, <1>5

\* A socket comes in: it is greeted, and everybody is told.
LEMMA Accepts ==
    ASSUME RoomTyped, NEW s \in Sockets, NEW d \in Devices, AcceptSocket(s, d)
    PROVE  /\ RoomTyped' /\ InRoom' = InRoom \cup {s} /\ s \notin InRoom /\ cut' = cut
           /\ DevicesOf(InRoom)' = DevicesOf(InRoom) \cup {d}
           /\ down'[s] = <<Hello(d), Presence(DevicesOf(InRoom)')>>
           /\ \A x \in InRoom \ cut :
                 down'[x] = Append(down[x], Presence(DevicesOf(InRoom)'))
  <1> DEFINE D == DevicesOf(InRoom) \cup {d}
             sent == Sent(InRoom, Presence(D))
             greeting == <<Hello(d), Presence(D)>>
  <1>1. /\ room' = [room EXCEPT ![s] = d] /\ room[s] = Absent /\ RoomFor(1, InRoom)
        /\ down' = [sent EXCEPT ![s] = greeting] /\ cut' = cut
    BY DEF AcceptSocket
  <1>2. InRoom' = InRoom \cup {s} /\ s \notin InRoom /\ InRoom \subseteq Sockets
    BY <1>1, RoomAssumption DEF InRoom, RoomTyped
  <1>3. DevicesOf(InRoom)' = D
    <2>1. \A x \in InRoom : room'[x] = room[x]
      BY <1>1, <1>2 DEF RoomTyped
    <2>2. room'[s] = d /\ d # Absent
      BY <1>1, RoomAssumption DEF RoomTyped
    <2>3. QED
      BY <1>2, <2>1, <2>2 DEF DevicesOf
  <1>4. D \subseteq Devices /\ Presence(D) \in Messages /\ Hello(d) \in Messages
    BY <1>2, Present, MessageTypes
  <1>5. /\ sent \in [Sockets -> Seq(Messages)]
        /\ \A x \in Sockets : Len(sent[x]) <= MaxDown + 1
        /\ \A x \in InRoom \ cut : sent[x] = Append(down[x], Presence(D))
    BY <1>1, <1>2, <1>4, SentTyped
  <1>6. greeting \in Seq(Messages) /\ Len(greeting) = 2
    BY <1>4
  <1> HIDE DEF D, sent, greeting
  <1>7. down' \in [Sockets -> Seq(Messages)] /\ down'[s] = greeting
        /\ \A x \in Sockets \ {s} : down'[x] = sent[x]
    BY <1>1, <1>5, <1>6
  <1>8. \A x \in Sockets : Len(down'[x]) <= MaxDown + 1
    <2>1. Len(down'[s]) = 2 /\ 2 <= MaxDown + 1
      BY <1>6, <1>7, RoomAssumption
    <2>2. \A x \in Sockets \ {s} : Len(down'[x]) <= MaxDown + 1
      BY <1>5, <1>7
    <2>3. QED
      BY <2>1, <2>2
  <1>9. room' \in [Sockets -> Devices \cup {Absent}] /\ cut' \subseteq Sockets
    BY <1>1 DEF RoomTyped
  <1>10. QED
    BY <1>1, <1>2, <1>3, <1>5, <1>7, <1>8, <1>9 DEF RoomTyped, D, greeting

\* A socket goes: the others are told.
LEMMA Closes ==
    ASSUME RoomTyped, NEW s \in Sockets, CloseSocket(s), cut' \subseteq Sockets
    PROVE  /\ RoomTyped' /\ InRoom' = InRoom \ {s}
           /\ \A x \in (InRoom \ {s}) \ cut :
                 down'[x] = Append(down[x], Presence(DevicesOf(InRoom)'))
  <1> DEFINE D == DevicesOf(Others(s))
             sent == Sent(Others(s), Presence(D))
  <1>1. /\ room' = [room EXCEPT ![s] = Absent] /\ RoomFor(1, Others(s))
        /\ down' = [sent EXCEPT ![s] = <<>>]
    BY DEF CloseSocket
  <1>2. InRoom' = Others(s) /\ Others(s) = InRoom \ {s} /\ Others(s) \subseteq Sockets
    BY <1>1 DEF InRoom, Others, RoomTyped
  <1>3. DevicesOf(InRoom)' = D
    <2>1. \A x \in Others(s) : room'[x] = room[x]
      BY <1>1, <1>2 DEF RoomTyped
    <2>2. QED
      BY <1>2, <2>1 DEF DevicesOf
  <1>4. D \subseteq Devices /\ Presence(D) \in Messages
    BY <1>2, Present, MessageTypes
  <1>5. /\ sent \in [Sockets -> Seq(Messages)]
        /\ \A x \in Sockets : Len(sent[x]) <= MaxDown + 1
        /\ \A x \in Others(s) \ cut : sent[x] = Append(down[x], Presence(D))
    BY <1>1, <1>2, <1>4, SentTyped
  <1> HIDE DEF D, sent
  <1>7. down' \in [Sockets -> Seq(Messages)] /\ down'[s] = <<>>
        /\ \A x \in Sockets \ {s} : down'[x] = sent[x]
    BY <1>1, <1>5
  <1>8. \A x \in Sockets : Len(down'[x]) <= MaxDown + 1
    BY <1>5, <1>7, RoomAssumption
  <1>9. room' \in [Sockets -> Devices \cup {Absent}]
    BY <1>1 DEF RoomTyped
  <1>10. QED
    BY <1>2, <1>3, <1>5, <1>7, <1>8, <1>9 DEF RoomTyped

\* A delivery.
LEMMA Delivers ==
    ASSUME RoomTyped, NEW s \in Sockets, down[s] # <<>>, down' = [down EXCEPT ![s] = Tail(@)],
           room' = room, cut' = cut
    PROVE  /\ RoomTyped' /\ Head(down[s]) \in Messages
           /\ down'[s] = Tail(down[s]) /\ \A x \in Sockets \ {s} : down'[x] = down[x]
  <1>1. /\ down[s] \in Seq(Messages) /\ Tail(down[s]) \in Seq(Messages)
        /\ Head(down[s]) \in Messages /\ Len(Tail(down[s])) = Len(down[s]) - 1
        /\ Len(down[s]) \in Nat
    BY DEF RoomTyped
  <1>2. /\ down' \in [Sockets -> Seq(Messages)]
        /\ down'[s] = Tail(down[s]) /\ \A x \in Sockets \ {s} : down'[x] = down[x]
    BY <1>1 DEF RoomTyped
  <1>3. \A x \in Sockets : Len(down'[x]) <= MaxDown + 1
    BY <1>1, <1>2, RoomAssumption DEF RoomTyped
  <1>4. QED
    BY <1>1, <1>2, <1>3 DEF RoomTyped

\* What was on its way on a socket is lost.
LEMMA Empties ==
    ASSUME RoomTyped, NEW s \in Sockets, down' = [down EXCEPT ![s] = <<>>],
           room' = room, cut' \subseteq Sockets
    PROVE  RoomTyped' /\ \A x \in Sockets \ {s} : down'[x] = down[x]
  <1>1. /\ down' \in [Sockets -> Seq(Messages)]
        /\ down'[s] = <<>> /\ \A x \in Sockets \ {s} : down'[x] = down[x]
    BY DEF RoomTyped
  <1>2. \A x \in Sockets : Len(down'[x]) <= MaxDown + 1
    BY <1>1, RoomAssumption DEF RoomTyped
  <1>3. QED
    BY <1>1, <1>2 DEF RoomTyped

-----------------------------------------------------------------------------
(* Types.                                                                  *)

LEMMA TypedInit == Init => Typed
  <1> SUFFICES ASSUME Init PROVE Typed
    OBVIOUS
  <1>1. RoomTyped
    BY RoomAssumption DEF Init, RoomInit, RoomTyped
  <1>2. TabsTyped
    BY LiveAssumption DEF Init, TabsTyped
  <1>3. WireTyped /\ SessionHeld
    BY DEF Init, WireTyped, SessionHeld
  <1>4. QED
    BY <1>1, <1>2, <1>3 DEF Typed

\* The socket that a ticket opens is in no use.
LEMMA NewIsFree ==
    ASSUME Free # {}
    PROVE  New \in Sockets /\ owner[New] = NoTab /\ room[New] = Absent
  BY DEF New, Free

\* No closed or closing socket is without its tab.
LEMMA ClosingOwned ==
    ASSUME Typed, NEW s \in closing
    PROVE  s \in Sockets /\ owner[s] \in Tabs
  BY DEF Typed, WireTyped

LEMMA RoomTypedKept ==
    ASSUME Typed, Next
    PROVE  RoomTyped'
  <1>0. RoomTyped
    BY DEF Typed
  <1>1. CASE SubscriberStep \/ SessionStep
    BY <1>0, <1>1 DEF SubscriberStep, SessionStep, Subscribe, Unsubscribe, Ticket, TicketFails,
       Again, hub, RoomTyped
  <1>2. ASSUME NEW s \in Sockets, Accept(s) PROVE RoomTyped'
    <2>1. owner[s] \in Tabs
      BY <1>2 DEF Typed, WireTyped, Accept
    <2>2. DeviceOf[owner[s]] \in Devices
      BY <2>1, LiveAssumption
    <2>3. QED
      BY <1>0, <1>2, <2>2, Accepts DEF Accept
  <1>3. ASSUME NEW s \in Sockets, Cut(s) PROVE RoomTyped'
    BY <1>0, <1>3, Empties DEF Cut, CutLink, RoomTyped
  <1>4. ASSUME NEW s \in Sockets, ServerClosed(s) PROVE RoomTyped'
    <2>1. cut' \subseteq Sockets /\ CloseSocket(s)
      BY <1>0, <1>4 DEF ServerClosed, RoomTyped
    <2>2. QED
      BY <1>0, <2>1, Closes
  <1>5. ASSUME NEW s \in Sockets, Refuse(s) \/ Silence(s) PROVE RoomTyped'
    BY <1>0, <1>5 DEF Refuse, Silence, hub, RoomTyped
  <1>6. ASSUME NEW s \in Sockets, Deliver(s) PROVE RoomTyped'
    BY <1>0, <1>6, Delivers DEF Deliver
  <1>7. ASSUME NEW s \in Sockets, Closed(s) PROVE RoomTyped'
    <2>1. cut' \subseteq Sockets /\ room' = room /\ down' = [down EXCEPT ![s] = <<>>]
      BY <1>0, <1>7 DEF Closed, RoomTyped
    <2>2. QED
      BY <1>0, <2>1, Empties
  <1>8. QED
    BY <1>1, <1>2, <1>3, <1>4, <1>5, <1>6, <1>7, Steps DEF HubStep, SocketStep

-----------------------------------------------------------------------------
(* A tab and its session: what each step keeps of their types, of the      *)
(* socket a session holds, and of the live sign.                           *)

TabSound == TabsTyped /\ WireTyped /\ SessionHeld /\ Current /\ LiveShown

LEMMA TabSoundInit == Init => TabSound
  <1> SUFFICES ASSUME Init PROVE TabSound
    OBVIOUS
  <1>1. TabsTyped /\ WireTyped /\ SessionHeld
    BY TypedInit DEF Typed
  <1>2. Current /\ LiveShown
    BY SocketAssumption DEF Init, Current, LiveShown
  <1>3. QED
    BY <1>1, <1>2 DEF TabSound

\* subscribeHub: nothing of a session changes, but that one starts.
LEMMA AfterSubscribe ==
    ASSUME TabSound, NEW t \in Tabs, NEW who \in Subscribers[t], Subscribe(t, who)
    PROVE  TabSound'
  <1> USE DEF wire, hub
  <1>1. /\ subs' = [subs EXCEPT ![t] = @ \cup {who}]
        /\ phase' = [phase EXCEPT ![t] = IF @ = "none" THEN "ticket" ELSE @]
        /\ socket' = socket /\ live' = live /\ late' = late /\ faults' = faults
        /\ owner' = owner /\ asked' = asked /\ closing' = closing
        /\ greeted' = greeted /\ seen' = seen
    BY DEF Subscribe
  <1>2. TabsTyped'
    BY <1>1 DEF TabSound, TabsTyped
  <1>3. WireTyped' /\ Current' /\ LiveShown'
    BY <1>1 DEF TabSound, WireTyped, Current, LiveShown
  <1>4. SessionHeld'
    BY <1>1 DEF TabSound, TabsTyped, SessionHeld
  <1>5. QED
    BY <1>2, <1>3, <1>4 DEF TabSound

\* stopIfIdle: the socket it leaves is closing, and live is put out.
LEMMA AfterUnsubscribe ==
    ASSUME TabSound, NEW t \in Tabs, NEW who \in Subscribers[t], Unsubscribe(t, who)
    PROVE  TabSound'
  <1> USE DEF hub
  <1>1. /\ subs' = [subs EXCEPT ![t] = @ \ {who}] /\ faults' = faults
        /\ owner' = owner /\ asked' = asked /\ greeted' = greeted /\ seen' = seen
    BY DEF Unsubscribe
  <1>2. CASE subs'[t] # {}
    <2>1. /\ phase' = phase /\ socket' = socket /\ closing' = closing
          /\ live' = live /\ late' = late
      BY <1>2 DEF Unsubscribe
    <2>2. subs[t] # {}
      BY <1>1, <1>2 DEF TabSound, TabsTyped
    <2>3. TabsTyped' /\ SessionHeld'
      BY <1>1, <1>2, <2>1, <2>2 DEF TabSound, TabsTyped, SessionHeld
    <2>4. WireTyped' /\ Current' /\ LiveShown'
      BY <1>1, <2>1 DEF TabSound, WireTyped, Current, LiveShown
    <2>5. QED
      BY <2>3, <2>4 DEF TabSound
  <1>3. CASE subs'[t] = {}
    <2>1. /\ phase' = [phase EXCEPT ![t] = "none"]
          /\ socket' = [socket EXCEPT ![t] = NoSocket]
          /\ closing' = closing \cup ({socket[t]} \ {NoSocket})
          /\ live' = [live EXCEPT ![t] = FALSE]
          /\ late' = late \ {t}
      BY <1>3 DEF Unsubscribe, LiveWhenIdle
    <2>2. TabsTyped'
      BY <1>1, <2>1 DEF TabSound, TabsTyped
    <2>3. WireTyped'
      BY <1>1, <2>1, SocketAssumption DEF TabSound, WireTyped, SessionHeld
    <2>4. SessionHeld'
      BY <1>1, <1>3, <2>1 DEF TabSound, TabsTyped, WireTyped, SessionHeld
    <2>5. Current'
      <3> SUFFICES ASSUME NEW s \in Sockets, owner[s] # NoTab, s \notin closing'
                   PROVE  socket'[owner[s]] = s
        BY <1>1 DEF Current
      <3>1. socket[owner[s]] = s /\ owner[s] \in Tabs /\ s # socket[t]
        BY <2>1, SocketAssumption DEF TabSound, Current, WireTyped
      <3>2. QED
        BY <2>1, <3>1 DEF TabSound, WireTyped
    <2>6. LiveShown'
      <3>1. \A u \in Tabs \ {t} : live'[u] = live[u] /\ socket'[u] = socket[u]
        BY <2>1 DEF TabSound, TabsTyped, WireTyped
      <3>2. ~live'[t] /\ socket'[t] \notin greeted'
        BY <1>1, <2>1, SocketAssumption DEF TabSound, TabsTyped, WireTyped
      <3>3. QED
        BY <1>1, <2>1, <3>1, <3>2 DEF TabSound, LiveShown
    <2>7. QED
      BY <2>2, <2>3, <2>4, <2>5, <2>6 DEF TabSound
  <1>4. QED
    BY <1>2, <1>3

\* openWithTicket: a new socket, which nobody has greeted yet.
LEMMA AfterTicket ==
    ASSUME TabSound, NEW t \in Tabs, Ticket(t)
    PROVE  TabSound'
  <1> USE DEF hub
  <1>1. /\ phase[t] = "ticket" /\ New \in Sockets /\ owner[New] = NoTab
        /\ phase' = [phase EXCEPT ![t] = "socket"]
        /\ socket' = [socket EXCEPT ![t] = New]
        /\ owner' = [owner EXCEPT ![New] = t]
        /\ asked' = asked \cup {New}
        /\ subs' = subs /\ live' = live /\ late' = late /\ closing' = closing
        /\ greeted' = greeted /\ seen' = seen /\ faults' = faults
    BY NewIsFree DEF Ticket
  <1> DEFINE s == New
  <1> HIDE DEF s
  <1>2. /\ phase[t] = "ticket" /\ s \in Sockets /\ owner[s] = NoTab
        /\ phase' = [phase EXCEPT ![t] = "socket"]
        /\ socket' = [socket EXCEPT ![t] = s]
        /\ owner' = [owner EXCEPT ![s] = t]
        /\ asked' = asked \cup {s}
    BY <1>1 DEF s
  <1>3. s \notin greeted /\ s \notin closing /\ socket[t] = NoSocket /\ t # NoTab /\ s # NoSocket
    BY <1>2, SocketAssumption DEF TabSound, WireTyped, SessionHeld
  <1>4. \A u \in Tabs \ {t} : socket[u] # s
    BY <1>2, <1>3, SocketAssumption DEF TabSound, WireTyped, SessionHeld
  <1>5. TabsTyped' /\ WireTyped'
    BY <1>1, <1>2, <1>3 DEF TabSound, TabsTyped, WireTyped
  <1>6. SessionHeld'
    BY <1>1, <1>2, <1>3, <1>4 DEF TabSound, TabsTyped, WireTyped, SessionHeld
  <1>7. Current'
    <2> SUFFICES ASSUME NEW x \in Sockets, owner'[x] # NoTab, x \notin closing
                 PROVE  socket'[owner'[x]] = x
      BY <1>1 DEF Current
    <2>1. CASE x = s
      BY <1>2, <2>1 DEF TabSound, WireTyped
    <2>2. CASE x # s
      <3>1. owner'[x] = owner[x] /\ owner[x] \in Tabs /\ socket[owner[x]] = x
        BY <1>2, <2>2 DEF TabSound, WireTyped, Current
      <3>2. owner[x] # t
        BY <1>3, <3>1, SocketAssumption
      <3>3. QED
        BY <1>2, <3>1, <3>2 DEF TabSound, WireTyped
    <2>3. QED
      BY <2>1, <2>2
  <1>8. LiveShown'
    BY <1>1, <1>2, <1>3, SocketAssumption DEF TabSound, WireTyped, LiveShown
  <1>9. QED
    BY <1>5, <1>6, <1>7, <1>8 DEF TabSound

\* Without a ticket there is no socket, and live is put out; Again only waits.
LEMMA AfterTicketFails ==
    ASSUME TabSound, NEW t \in Tabs, TicketFails(t) \/ Again(t)
    PROVE  TabSound'
  <1> USE DEF hub, wire
  <1>1. /\ phase[t] \in {"ticket", "wait"} /\ phase' \in [Tabs -> {"none", "ticket", "socket", "wait"}]
        /\ \A u \in Tabs \ {t} : phase'[u] = phase[u]
        /\ phase'[t] \in {"ticket", "wait"}
        /\ live' \in [Tabs -> BOOLEAN] /\ \A u \in Tabs \ {t} : live'[u] = live[u]
        /\ live'[t] => live[t]
        /\ subs' = subs /\ late' = late /\ socket' = socket /\ owner' = owner
        /\ asked' = asked /\ closing' = closing /\ greeted' = greeted /\ seen' = seen
    BY DEF TicketFails, Again, TabSound, TabsTyped
  <1>0. faults' \in 0..MaxFaults
    BY LiveAssumption DEF TicketFails, Again, Fault, TabSound, TabsTyped
  <1>2. socket[t] = NoSocket /\ socket[t] \notin greeted
    BY <1>1, SocketAssumption DEF TabSound, WireTyped, SessionHeld
  <1>3. TabsTyped' /\ WireTyped' /\ Current'
    BY <1>0, <1>1 DEF TabSound, TabsTyped, WireTyped, Current
  <1>4. SessionHeld'
    BY <1>1, <1>2 DEF TabSound, SessionHeld
  <1>5. LiveShown'
    BY <1>1, <1>2 DEF TabSound, TabsTyped, LiveShown
  <1>6. QED
    BY <1>3, <1>4, <1>5 DEF TabSound

\* What the hub does and what happens to the link changes nothing of a tab.
LEMMA AfterHub ==
    ASSUME TabSound, NEW s \in Sockets, Accept(s) \/ Cut(s) \/ ServerClosed(s)
    PROVE  TabSound'
  <1> USE DEF tabs, wire
  <1>1. /\ asked' \subseteq asked /\ faults' \in 0..MaxFaults
        /\ subs' = subs /\ phase' = phase /\ live' = live /\ late' = late /\ socket' = socket
        /\ owner' = owner /\ closing' = closing /\ greeted' = greeted /\ seen' = seen
    BY LiveAssumption DEF Accept, Cut, ServerClosed, Fault, TabSound, TabsTyped
  <1>2. TabsTyped' /\ WireTyped' /\ Current'
    BY <1>1 DEF TabSound, TabsTyped, WireTyped, Current
  <1>3. SessionHeld' /\ LiveShown'
    BY <1>1 DEF TabSound, SessionHeld, LiveShown
  <1>4. QED
    BY <1>2, <1>3 DEF TabSound

\* A refused socket and a silent one are closed by the browser.
LEMMA AfterRefuse ==
    ASSUME TabSound, NEW s \in Sockets, Refuse(s) \/ Silence(s)
    PROVE  TabSound'
  <1> USE DEF tabs, hub
  <1>1. /\ asked' \subseteq asked /\ faults' \in 0..MaxFaults
        /\ closing' = closing \cup {s} /\ owner[s] # NoTab
        /\ subs' = subs /\ phase' = phase /\ live' = live /\ late' = late /\ socket' = socket
        /\ owner' = owner /\ greeted' = greeted /\ seen' = seen
    BY LiveAssumption DEF Refuse, Silence, Fault, TabSound, TabsTyped, WireTyped
  <1>2. TabsTyped' /\ WireTyped' /\ Current'
    BY <1>1 DEF TabSound, TabsTyped, WireTyped, Current
  <1>3. SessionHeld' /\ LiveShown'
    BY <1>1 DEF TabSound, SessionHeld, LiveShown
  <1>4. QED
    BY <1>2, <1>3 DEF TabSound

\* fanEnvelope: hello comes on a socket that is not closed, so on the session's.
LEMMA AfterDeliver ==
    ASSUME TabSound, RoomTyped, NEW s \in Sockets, Deliver(s)
    PROVE  TabSound'
  <1> DEFINE t == owner[s]
             message == Head(down[s])
  <1>1. /\ t \in Tabs /\ s \notin closing /\ socket[t] = s
        /\ subs' = subs /\ phase' = phase /\ socket' = socket /\ owner' = owner
        /\ asked' = asked /\ closing' = closing /\ faults' = faults
    BY DEF Deliver, TabSound, WireTyped, Current
  <1>2. message \in Messages
    BY Delivers DEF Deliver
  <1>3. CASE message.type = "hello"
    <2>1. /\ greeted' = greeted \cup {s} /\ live' = [live EXCEPT ![t] = TRUE]
          /\ late' = late \ {t} /\ seen' = seen
      BY <1>3 DEF Deliver
    <2>2. TabsTyped' /\ WireTyped'
      BY <1>1, <2>1, SocketAssumption DEF TabSound, TabsTyped, WireTyped
    <2>3. SessionHeld' /\ Current'
      BY <1>1 DEF TabSound, SessionHeld, Current
    <2>4. LiveShown'
      <3>1. live'[t] /\ \A u \in Tabs \ {t} : live'[u] = live[u]
        BY <1>1, <2>1 DEF TabSound, TabsTyped
      <3>2. \A u \in Tabs \ {t} : socket[u] # s
        BY <1>1, SocketAssumption DEF TabSound, WireTyped, SessionHeld
      <3>3. QED
        BY <1>1, <2>1, <3>1, <3>2 DEF TabSound, LiveShown
    <2>5. QED
      BY <2>2, <2>3, <2>4 DEF TabSound
  <1>4. CASE message.type # "hello"
    <2>1. /\ seen' = [seen EXCEPT ![s] = message.devices]
          /\ greeted' = greeted /\ live' = live /\ late' = late
      BY <1>4 DEF Deliver
    <2>2. message.devices \subseteq Devices
      BY <1>2, <1>4, MessageTypes
    <2>3. TabsTyped' /\ WireTyped'
      BY <1>1, <2>1, <2>2 DEF TabSound, TabsTyped, WireTyped
    <2>4. SessionHeld' /\ Current' /\ LiveShown'
      BY <1>1, <2>1 DEF TabSound, SessionHeld, Current, LiveShown
    <2>5. QED
      BY <2>3, <2>4 DEF TabSound
  <1>5. QED
    BY <1>3, <1>4

\* onclose: it puts live out, whichever session the socket was of.
LEMMA AfterClosed ==
    ASSUME TabSound, NEW s \in Sockets, Closed(s)
    PROVE  TabSound'
  <1> DEFINE t == owner[s]
  <1>1. /\ s \in closing /\ t \in Tabs
        /\ owner' = [owner EXCEPT ![s] = NoTab] /\ seen' = [seen EXCEPT ![s] = {}]
        /\ closing' = closing \ {s} /\ greeted' = greeted \ {s} /\ asked' = asked \ {s}
        /\ live' = [live EXCEPT ![t] = FALSE]
        /\ phase' = [phase EXCEPT ![t] = IF socket[t] = s THEN "wait" ELSE phase[t]]
        /\ subs' = subs /\ faults' = faults
    BY DEF Closed, GoesOn, TabSound, WireTyped
  <1>2. /\ socket[t] = s => socket' = [socket EXCEPT ![t] = NoSocket] /\ late' = late
        /\ socket[t] # s =>
              /\ socket' = socket
              /\ late' = IF socket[t] \in greeted THEN late \cup {t} ELSE late
    BY DEF Closed
  <1> HIDE DEF t
  <1>3. \A u \in Tabs \ {t} : socket[u] # s
    BY <1>1, SocketAssumption DEF t, TabSound, WireTyped, SessionHeld
  <1>4. /\ \A u \in Tabs \ {t} : socket'[u] = socket[u] /\ live'[u] = live[u] /\ phase'[u] = phase[u]
        /\ socket'[t] = IF socket[t] = s THEN NoSocket ELSE socket[t]
        /\ ~live'[t]
        /\ phase'[t] = IF socket[t] = s THEN "wait" ELSE phase[t]
        /\ socket' \in [Tabs -> Sockets \cup {NoSocket}]
    BY <1>1, <1>2 DEF TabSound, TabsTyped, WireTyped
  <1>5. TabsTyped'
    BY <1>1, <1>2 DEF TabSound, TabsTyped
  <1>6. WireTyped'
    BY <1>1, <1>4 DEF TabSound, WireTyped
  <1>7. \A x \in Sockets \ {s} : owner'[x] = owner[x]
    BY <1>1 DEF TabSound, WireTyped
  <1>8. SessionHeld'
    <2>1. \A u \in Tabs : socket'[u] # NoSocket => socket'[u] = socket[u] /\ socket[u] # s
      BY <1>3, <1>4
    <2>2. \A u \in Tabs : socket'[u] # NoSocket => owner'[socket'[u]] = u
      BY <1>7, <2>1 DEF TabSound, WireTyped, SessionHeld
    <2>3. \A u \in Tabs : (socket'[u] # NoSocket <=> phase'[u] = "socket")
                          /\ (subs[u] = {} <=> phase'[u] = "none")
      BY <1>4, SocketAssumption DEF TabSound, SessionHeld
    <2>4. QED
      BY <1>1, <2>2, <2>3 DEF SessionHeld
  <1>9. Current'
    <2> SUFFICES ASSUME NEW x \in Sockets, owner'[x] # NoTab, x \notin closing'
                 PROVE  socket'[owner'[x]] = x
      BY DEF Current
    <2>1. x # s
      BY <1>1 DEF TabSound, WireTyped
    <2>2. owner'[x] = owner[x] /\ owner[x] \in Tabs /\ socket[owner[x]] = x
      BY <1>1, <1>7, <2>1 DEF TabSound, WireTyped, Current
    <2>3. QED
      BY <1>4, <2>1, <2>2
  <1>10. LiveShown'
    <2> SUFFICES ASSUME NEW u \in Tabs, u \notin late' PROVE live'[u] <=> socket'[u] \in greeted'
      BY DEF LiveShown
    <2>1. CASE u = t
      <3>1. socket'[t] \notin greeted'
        BY <1>1, <1>2, <1>4, <2>1, SocketAssumption DEF TabSound, WireTyped
      <3>2. QED
        BY <1>4, <2>1, <3>1
    <2>2. CASE u # t
      <3>1. u \notin late
        BY <1>2, <2>2
      <3>2. live[u] <=> socket[u] \in greeted
        BY <3>1 DEF TabSound, LiveShown
      <3>3. socket[u] # s
        BY <1>3, <2>2
      <3>4. QED
        BY <1>1, <1>4, <2>2, <3>2, <3>3
    <2>3. QED
      BY <2>1, <2>2
  <1>11. QED
    BY <1>5, <1>6, <1>8, <1>9, <1>10 DEF TabSound

LEMMA TabSoundKept ==
    ASSUME TabSound, RoomTyped, Next
    PROVE  TabSound'
  BY AfterSubscribe, AfterUnsubscribe, AfterTicket, AfterTicketFails, AfterHub, AfterRefuse,
     AfterDeliver, AfterClosed, Steps DEF SubscriberStep, SessionStep, HubStep, SocketStep

-----------------------------------------------------------------------------
(* Presence: the last one on its way on each socket is that of the room.   *)

LEMMA ToldInit == Init => Told
  BY DEF Init, RoomInit, Told, InRoom

\* A step that neither sends nor delivers can only take sockets out.
LEMMA ToldStays ==
    ASSUME Told, room' = room, closing \subseteq closing' \cup {s \in Sockets : owner'[s] = NoTab},
           cut \subseteq cut' \cup {s \in Sockets : owner'[s] = NoTab},
           \A s \in InRoom \ cut' : owner'[s] # NoTab =>
              owner[s] # NoTab /\ down'[s] = down[s] /\ seen'[s] = seen[s]
    PROVE  Told'
  <1>1. InRoom' = InRoom /\ DevicesOf(InRoom)' = DevicesOf(InRoom) /\ InRoom \subseteq Sockets
    BY DEF InRoom, DevicesOf
  <1> SUFFICES ASSUME NEW s \in InRoom \ (cut' \cup closing'), owner'[s] # NoTab
               PROVE  LastIs(down'[s], seen'[s], DevicesOf(InRoom))
    BY <1>1 DEF Told
  <1>2. s \notin cut \cup closing /\ owner[s] # NoTab /\ down'[s] = down[s] /\ seen'[s] = seen[s]
    OBVIOUS
  <1>3. QED
    BY <1>2 DEF Told

LEMMA ToldKept ==
    ASSUME Typed, Told, Next
    PROVE  Told'
  <1> USE DEF tabs, wire, hub
  <1>0. RoomTyped /\ WireTyped /\ InRoom \subseteq Sockets
    BY DEF Typed, InRoom
  <1>1. CASE SubscriberStep
    BY <1>1, ToldStays DEF SubscriberStep, Subscribe, Unsubscribe
  <1>2. ASSUME NEW t \in Tabs, TicketFails(t) \/ Again(t) PROVE Told'
    BY <1>2, ToldStays DEF TicketFails, Again
  <1>3. ASSUME NEW t \in Tabs, Ticket(t) PROVE Told'
    <2> DEFINE n == New
    <2>1. /\ n \in Sockets /\ room[n] = Absent /\ owner' = [owner EXCEPT ![n] = t]
          /\ room' = room /\ down' = down /\ cut' = cut /\ seen' = seen /\ closing' = closing
      BY <1>3, NewIsFree DEF Ticket
    <2> HIDE DEF n
    <2>2. \A s \in InRoom : owner'[s] = owner[s]
      BY <1>0, <2>1 DEF InRoom, WireTyped
    <2>3. QED
      BY <2>1, <2>2, ToldStays
  \* Everybody is told of the one that comes, and that one of everybody.
  <1>4. ASSUME NEW s \in Sockets, Accept(s) PROVE Told'
    <2> DEFINE d == DeviceOf[owner[s]]
               D == DevicesOf(InRoom)'
    <2>1. d \in Devices /\ AcceptSocket(s, d)
      BY <1>0, <1>4, LiveAssumption DEF Accept, WireTyped
    <2>2. /\ InRoom' = InRoom \cup {s} /\ cut' = cut /\ closing' = closing /\ owner' = owner
          /\ seen' = seen /\ down'[s] = <<Hello(d), Presence(D)>>
          /\ \A x \in InRoom \ cut : down'[x] = Append(down[x], Presence(D))
      BY <1>0, <1>4, <2>1, Accepts DEF Accept
    <2> SUFFICES ASSUME NEW x \in InRoom' \ (cut \cup closing)
                 PROVE  LastIs(down'[x], seen[x], D)
      BY <2>2 DEF Told
    <2> HIDE DEF d, D
    <2>3. CASE x = s
      BY <2>2, <2>3, LastAfterHello
    <2>4. CASE x # s
      <3>1. x \in InRoom \ cut /\ down[x] \in Seq(Messages)
        BY <1>0, <2>2, <2>4 DEF RoomTyped
      <3>2. down'[x] = Append(down[x], Presence(D))
        BY <2>2, <3>1
      <3>3. QED
        BY <3>1, <3>2, LastSent
    <2>5. QED
      BY <2>3, <2>4
  <1>5. ASSUME NEW s \in Sockets, Cut(s) PROVE Told'
    <2>1. /\ room' = room /\ cut' = cut \cup {s} /\ closing' = closing /\ owner' = owner
          /\ seen' = seen /\ \A x \in Sockets \ {s} : down'[x] = down[x]
      BY <1>0, <1>5 DEF Cut, CutLink, RoomTyped
    <2>2. QED
      BY <1>0, <2>1, ToldStays
  \* The others are told of the one that goes.
  <1>6. ASSUME NEW s \in Sockets, ServerClosed(s) PROVE Told'
    <2> DEFINE D == DevicesOf(InRoom)'
    <2>1. /\ CloseSocket(s) /\ cut' \subseteq Sockets /\ cut \subseteq cut' \cup {s}
          /\ closing' = closing /\ owner' = owner /\ seen' = seen
      BY <1>0, <1>6 DEF ServerClosed, RoomTyped
    <2>2. /\ InRoom' = InRoom \ {s}
          /\ \A x \in (InRoom \ {s}) \ cut : down'[x] = Append(down[x], Presence(D))
      BY <1>0, <2>1, Closes
    <2> SUFFICES ASSUME NEW x \in InRoom' \ (cut' \cup closing)
                 PROVE  LastIs(down'[x], seen[x], D)
      BY <2>1 DEF Told
    <2> HIDE DEF D
    <2>3. x \in (InRoom \ {s}) \ cut /\ down[x] \in Seq(Messages)
      BY <1>0, <2>1, <2>2 DEF RoomTyped
    <2>4. down'[x] = Append(down[x], Presence(D))
      BY <2>2, <2>3
    <2>5. QED
      BY <2>3, <2>4, LastSent
  <1>7. ASSUME NEW s \in Sockets, Refuse(s) \/ Silence(s) PROVE Told'
    <2>1. /\ room' = room /\ cut' = cut /\ closing \subseteq closing' /\ owner' = owner
          /\ seen' = seen /\ down' = down
      BY <1>7 DEF Refuse, Silence
    <2>2. QED
      BY <2>1, ToldStays
  \* The last presence has arrived, or is still on its way.
  <1>8. ASSUME NEW s \in Sockets, Deliver(s) PROVE Told'
    <2>1. /\ down[s] # <<>> /\ down' = [down EXCEPT ![s] = Tail(@)] /\ room' = room /\ cut' = cut
          /\ closing' = closing /\ owner' = owner
          /\ Head(down[s]).type = "hello" => seen' = seen
          /\ Head(down[s]).type # "hello" => seen' = [seen EXCEPT ![s] = Head(down[s]).devices]
      BY <1>8 DEF Deliver
    <2>2. down'[s] = Tail(down[s]) /\ \A x \in Sockets \ {s} : down'[x] = down[x]
      BY <1>0, <2>1, Delivers
    <2>3. InRoom' = InRoom /\ DevicesOf(InRoom)' = DevicesOf(InRoom)
      BY <2>1 DEF InRoom, DevicesOf
    <2>4. \A x \in Sockets \ {s} : seen'[x] = seen[x]
      BY <1>0, <2>1 DEF WireTyped
    <2> SUFFICES ASSUME NEW x \in InRoom \ (cut \cup closing), owner[x] # NoTab
                 PROVE  LastIs(down'[x], seen'[x], DevicesOf(InRoom))
      BY <2>1, <2>3 DEF Told
    <2>5. LastIs(down[x], seen[x], DevicesOf(InRoom)) /\ down[x] \in Seq(Messages)
      BY <1>0 DEF Told, RoomTyped
    <2>6. CASE x # s
      BY <1>0, <2>2, <2>4, <2>5, <2>6
    <2>7. CASE x = s
      <3>1. /\ Head(down[s]).type = "hello" => seen'[s] = seen[s]
            /\ Head(down[s]).type # "hello" => seen'[s] = Head(down[s]).devices
        BY <1>0, <2>1 DEF WireTyped
      <3>2. QED
        BY <2>1, <2>2, <2>5, <2>7, <3>1, LastDelivered
    <2>8. QED
      BY <2>6, <2>7
  <1>9. ASSUME NEW s \in Sockets, Closed(s) PROVE Told'
    <2>1. /\ room' = room /\ owner' = [owner EXCEPT ![s] = NoTab] /\ closing' = closing \ {s}
          /\ seen' = [seen EXCEPT ![s] = {}] /\ down' = [down EXCEPT ![s] = <<>>]
          /\ cut \subseteq cut' \cup {s}
      BY <1>9 DEF Closed
    <2>2. /\ owner'[s] = NoTab
          /\ \A x \in Sockets \ {s} :
                owner'[x] = owner[x] /\ seen'[x] = seen[x] /\ down'[x] = down[x]
      BY <1>0, <2>1 DEF RoomTyped, WireTyped
    <2>3. QED
      BY <1>0, <2>1, <2>2, ToldStays DEF RoomTyped, WireTyped
  <1>10. QED
    BY <1>1, <1>2, <1>3, <1>4, <1>5, <1>6, <1>7, <1>8, <1>9, Steps
       DEF SessionStep, HubStep, SocketStep

-----------------------------------------------------------------------------
(* The theorems.                                                           *)

LEMMA SoundInit == Init => Sound
  BY TypedInit, TabSoundInit, ToldInit DEF Sound, TabSound

LEMMA SoundKept == Sound /\ [Next]_vars => Sound'
  <1> SUFFICES ASSUME Sound, [Next]_vars PROVE Sound'
    OBVIOUS
  <1>1. CASE Next
    <2>1. Typed /\ RoomTyped /\ Told /\ TabSound
      BY DEF Sound, Typed, TabSound
    <2>2. RoomTyped' /\ Told' /\ TabSound'
      BY <1>1, <2>1, RoomTypedKept, ToldKept, TabSoundKept
    <2>3. QED
      BY <2>2 DEF Sound, Typed, TabSound
  <1>2. CASE UNCHANGED vars
    <2>1. /\ subs' = subs /\ phase' = phase /\ live' = live /\ late' = late /\ socket' = socket
          /\ owner' = owner /\ asked' = asked /\ closing' = closing /\ greeted' = greeted
          /\ seen' = seen /\ room' = room /\ down' = down /\ cut' = cut /\ faults' = faults
      BY <1>2 DEF vars, tabs, wire, hub
    <2>2. RoomTyped' /\ TabsTyped' /\ WireTyped' /\ SessionHeld'
      BY <2>1 DEF Sound, Typed, RoomTyped, TabsTyped, WireTyped, SessionHeld
    <2>3. Current' /\ LiveShown' /\ Told'
      BY <2>1 DEF Sound, Current, LiveShown, Told, InRoom, DevicesOf
    <2>4. QED
      BY <2>2, <2>3 DEF Sound, Typed
  <1>3. QED
    BY <1>1, <1>2

LEMMA Soundness == Spec => []Sound
  BY SoundInit, SoundKept, PTL DEF Spec

\* Sockets, sessions and messages are typed; a tab has one session at most, while
\* anyone listens, and the socket of a session is that session's own.
THEOREM TypeCorrect == Spec => []TypeOK
  <1>1. Sound => TypeOK
    BY DEF Sound, Typed, RoomTyped, TabsTyped, WireTyped, SessionHeld, TypeOK
  <1>2. QED
    BY Soundness, <1>1, PTL

\* broadcastPresence leaves out a socket and not a device: once everything on its
\* way has arrived, every socket with a link knows the devices that hold one,
\* however many sockets a device holds and in whatever order they are closed.
THEOREM PresenceHolds == Spec => []PresenceTrue
  <1>1. Sound => PresenceTrue
    BY ToldIsTrue DEF Sound, Typed
  <1>2. QED
    BY Soundness, <1>1, PTL

\* live of hub-live.ts follows the session's socket through every reconnect,
\* except after the late close event of an earlier session.
THEOREM LiveIsTrue == Spec => []LiveFollows
  <1>1. Sound => LiveFollows
    BY DEF Sound, Typed, TabsTyped, LiveShown, LiveFollows
  <1>2. QED
    BY Soundness, <1>1, PTL
=============================================================================
