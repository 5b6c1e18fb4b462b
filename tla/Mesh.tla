-------------------------------- MODULE Mesh --------------------------------
(***************************************************************************)
(* The WebRTC mesh of a page (apps/web/lib/p2p/mesh.ts) on top of the hub. *)
(* A page makes a mesh at every hello and closes the one before; presence  *)
(* tells it whom to offer a link and whose link to close; offers, answers  *)
(* and candidates of one peer are worked off one after the other, on a     *)
(* chain of promises, and a step here is what runs between two awaits.     *)
(*                                                                         *)
(* The frame around the pages (app-frame.tsx) subscribes to the hub as     *)
(* well, so that the session outlives the page: who comes back to the page *)
(* hears what the hub says from then on, but no hello.                     *)
(*                                                                         *)
(* A connection (RTCPeerConnection) is a number; its descriptions and its  *)
(* candidate carry that number.  What the browser's WebRTC does with them  *)
(* is external and modelled as the mesh uses it.                           *)
(***************************************************************************)
EXTENDS HubRoom, Functions

CONSTANTS
    Before,      \* Before[d]: the devices whose id is greater than d's
    MaxMeshes,   \* bound: meshes ever made
    MaxPcs,      \* bound: connections ever made
    MaxFaults,   \* bound: sockets lost and pages reloaded
    MaxLeaves    \* bound: pages left

ASSUME MeshAssumption ==
    /\ Before \in [Devices -> SUBSET Devices]
    /\ \A d, e \in Devices : d # e => (e \in Before[d]) # (d \in Before[e])
    /\ MaxMeshes \in Nat /\ MaxPcs \in Nat /\ MaxFaults \in Nat /\ MaxLeaves \in Nat

VARIABLES
    socket,    \* the socket the session of each device sends and listens on
    listening, \* devices whose page is mounted and subscribed
    mesh,      \* the mesh of that page (meshRef), 0 for none
    self,      \* selfId of each mesh ever made
    peers,     \* peers: the connection a mesh has for each peer
    starting,  \* starting: peers an offer is being made for
    chain,     \* chain: what is still to do for each peer, in order
    doing,     \* the connection the first of these is under way with, or 0
    ice,       \* IceBuffer: candidates kept for each peer
    pc,        \* the connections
    pcs,       \* how many there are
    blurred,   \* a peer came back, or went, too soon for the other side
    faults,
    leaves

page == <<socket, listening, mesh, self, leaves>>
work == <<peers, starting, chain, doing, ice>>
conn == <<pc, pcs>>
hub  == <<room, down, cut>>
vars == <<page, work, conn, hub, blurred, faults>>

Meshes == 1..MaxMeshes
Pcs    == 1..MaxPcs
NoSocket == "no socket"

\* signalingState, remoteDescription and the candidates taken in; "trickled"
\* once its own candidate has been handed to the page.
Connection == [sig : {"unmade", "have-local-offer", "stable", "closed"},
               remote : 0..MaxPcs, got : SUBSET Pcs, trickled : BOOLEAN,
               at : 0..MaxMeshes, to : Devices \cup {Absent}]
Unmade == [sig |-> "unmade", remote |-> 0, got |-> {}, trickled |-> FALSE,
           at |-> 0, to |-> Absent]

Signals == {"rtc.offer", "rtc.answer", "rtc.ice"}
Rtc(kind, d, p, n) == [type |-> kind, from |-> d, to |-> p, pc |-> n]

TypeOK ==
    /\ room \in [Sockets -> Devices \cup {Absent}]
    /\ socket \in [Devices -> Sockets \cup {NoSocket}]
    /\ listening \subseteq Devices
    /\ mesh \in [Devices -> 0..MaxMeshes]
    /\ self \in [Meshes -> Devices \cup {Absent}]
    /\ peers \in [Meshes -> [Devices -> 0..MaxPcs]]
    /\ starting \in [Meshes -> SUBSET Devices]
    /\ ice \in [Meshes -> [Devices -> SUBSET Pcs]]
    /\ pc \in [Pcs -> Connection] /\ pcs \in 0..MaxPcs
    /\ blurred \in BOOLEAN /\ faults \in 0..MaxFaults /\ leaves \in 0..MaxLeaves
    \* a mesh has connections of its own, to others, and works on those
    /\ \A m \in Meshes, p \in Devices :
          /\ peers[m][p] # 0 => pc[peers[m][p]].at = m /\ pc[peers[m][p]].to = p /\ p # self[m]
          /\ doing[m][p] # 0 => chain[m][p] # <<>> /\ pc[doing[m][p]].at = m
    \* and only a page that listens has one
    /\ \A d \in Devices : mesh[d] # 0 => self[mesh[d]] = d /\ d \in listening

Init ==
    /\ RoomInit
    /\ socket = [d \in Devices |-> NoSocket]
    /\ listening = {}
    /\ mesh = [d \in Devices |-> 0]
    /\ self = [m \in Meshes |-> Absent]
    /\ peers = [m \in Meshes |-> [p \in Devices |-> 0]]
    /\ starting = [m \in Meshes |-> {}]
    /\ chain = [m \in Meshes |-> [p \in Devices |-> <<>>]]
    /\ doing = [m \in Meshes |-> [p \in Devices |-> 0]]
    /\ ice = [m \in Meshes |-> [p \in Devices |-> {}]]
    /\ pc = [n \in Pcs |-> Unmade]
    /\ pcs = 0
    /\ blurred = FALSE
    /\ faults = 0 /\ leaves = 0

-----------------------------------------------------------------------------
(* The page and its socket (HubLive, in short).                            *)

\* Of a connection that is closed only its end of it matters.
Closed(S) == [n \in Pcs |-> IF n \in S
                             THEN [Unmade EXCEPT !.sig = "closed", !.at = pc[n].at, !.to = pc[n].to]
                             ELSE pc[n]]

\* Another device has something of d, or will have: a link, work on one, a
\* message from d that is on its way.
OnItsWay(e) == IF socket[e] \in Sockets THEN Range(down[socket[e]]) ELSE {}
Remembered(d) == \E e \in Devices \ {d} :
    \/ mesh[e] # 0 /\ (peers[mesh[e]][d] # 0 \/ chain[mesh[e]][d] # <<>>)
    \/ \E message \in OnItsWay(e) : message.type \in Signals /\ message.from = d

\* A mesh has not worked off its chains.
Busy(m) == m # 0 /\ \E p \in Devices : chain[m][p] # <<>>

\* Another device has yet to be told that d was there before.
Announced(d) == \E e \in Devices \ {d} : \E message \in OnItsWay(e) :
    message.type = "presence.changed" /\ d \in message.devices

Connect(d, s) ==
    /\ socket[d] = NoSocket
    /\ AcceptSocket(s, d)
    /\ socket' = [socket EXCEPT ![d] = s]
    /\ blurred' = (blurred \/ Remembered(d) \/ Announced(d) \/ Busy(mesh[d]))
    /\ UNCHANGED <<listening, mesh, self, leaves, work, conn, faults>>

\* The page is mounted and subscribes, to a session that may be there already.
EnterPage(d) ==
    /\ d \notin listening
    /\ listening' = listening \cup {d}
    /\ UNCHANGED <<socket, mesh, self, leaves, work, conn, hub, blurred, faults>>

\* The socket is lost, with or without a reload of the page; the hub does not
\* know yet.  A reload ends the page's connections and all that it was doing.
Lose(d) ==
    /\ socket[d] # NoSocket /\ faults < MaxFaults
    /\ faults' = faults + 1
    /\ cut' = cut \cup {socket[d]}
    /\ down' = [down EXCEPT ![socket[d]] = <<>>]
    /\ socket' = [socket EXCEPT ![d] = NoSocket]
    /\ \/ UNCHANGED <<listening, mesh, work, conn>>
       \/ /\ listening' = listening \ {d}
          /\ mesh' = [mesh EXCEPT ![d] = 0]
          /\ pc' = Closed({n \in Pcs : pc[n].at # 0 /\ self[pc[n].at] = d})
          /\ chain' = [m \in Meshes |-> IF self[m] = d THEN [p \in Devices |-> <<>>] ELSE chain[m]]
          /\ doing' = [m \in Meshes |-> IF self[m] = d THEN [p \in Devices |-> 0] ELSE doing[m]]
          /\ peers' = [m \in Meshes |-> IF self[m] = d THEN [p \in Devices |-> 0] ELSE peers[m]]
          /\ UNCHANGED <<starting, ice, pcs>>
    /\ UNCHANGED <<room, self, leaves, blurred>>

ServerClosed(s) ==
    /\ s \in cut
    /\ CloseSocket(s)
    /\ cut' = cut \ {s}
    /\ UNCHANGED <<page, work, conn, blurred, faults>>

-----------------------------------------------------------------------------
(* The mesh and its peers.                                                 *)

PeersOf(m) == {p \in Devices : peers[m][p] # 0}

\* Of the meshes only the connections of S are closed; a mesh that is not
\* closed at the next hello leaves its connections open.
KeptOpen(m) == {}
Ended(m)    == {peers[m][p] : p \in PeersOf(m)}

\* Mesh.close
CloseMesh(m) ==
    IF m = 0 THEN UNCHANGED <<peers, starting, ice, pc>>
    ELSE /\ pc' = Closed(Ended(m))
         /\ peers' = [peers EXCEPT ![m] = [p \in Devices |-> 0]]
         /\ starting' = [starting EXCEPT ![m] = @ \ PeersOf(m)]
         /\ ice' = [ice EXCEPT ![m] =
                       [p \in Devices |-> IF p \in PeersOf(m) THEN {} ELSE @[p]]]

\* onEnvelope, hello: the mesh is closed, and a new one made.
OnHello(d) ==
    LET old == mesh[d]
        new == 1 + Cardinality({m \in Meshes : self[m] # Absent})
    IN  /\ new \in Meshes
        /\ self' = [self EXCEPT ![new] = d]
        /\ mesh' = [mesh EXCEPT ![d] = new]
        /\ CloseMesh(old)
        /\ blurred' = (blurred \/ (old # 0 /\ (Remembered(d) \/ Busy(old))))
        /\ UNCHANGED <<chain, doing, pcs>>

\* The page is left, or its effect runs again: the mesh is closed and dropped,
\* and the socket stays, because the frame is subscribed.
LeavePage(d) ==
    /\ d \in listening /\ leaves < MaxLeaves
    /\ leaves' = leaves + 1
    /\ listening' = listening \ {d}
    /\ mesh' = [mesh EXCEPT ![d] = 0]
    /\ CloseMesh(mesh[d])
    /\ blurred' = (blurred \/ Busy(mesh[d]))
    /\ UNCHANGED <<socket, self, chain, doing, pcs, hub, faults>>

\* Of two devices the one with the smaller id offers.
Offers(d, p) == p \in Before[d]

\* handlePresence: an offer for everyone new, and a closed link for everyone
\* who left (closePeer).
OnPresence(d, D) ==
    LET m == mesh[d]
        fresh == {p \in D \ {d} : peers[m][p] = 0 /\ p \notin starting[m] /\ Offers(d, p)}
        gone  == PeersOf(m) \ D
    IN  /\ starting' = [starting EXCEPT ![m] = (@ \cup fresh) \ gone]
        /\ chain' = [chain EXCEPT ![m] = [p \in Devices |->
                        IF p \in fresh THEN Append(@[p], Rtc("offer", d, p, 0)) ELSE @[p]]]
        /\ ice' = [ice EXCEPT ![m] = [p \in Devices |-> IF p \in gone THEN {} ELSE @[p]]]
        /\ pc' = Closed({peers[m][p] : p \in gone})
        /\ peers' = [peers EXCEPT ![m] = [p \in Devices |-> IF p \in gone THEN 0 ELSE @[p]]]
        /\ blurred' = (blurred \/ \E p \in Devices \ D : chain[m][p] # <<>>)
        /\ UNCHANGED <<self, mesh, doing, pcs>>

\* handleSignal: one more link in the chain of that peer.
OnSignal(d, message) ==
    /\ chain' = [chain EXCEPT ![mesh[d]][message.from] = Append(@, message)]
    /\ UNCHANGED <<self, mesh, peers, starting, doing, ice, conn, blurred>>

\* The hub's envelopes arrive in order.  Without a page nobody hears the hello,
\* and it is not said again; without a mesh signals are ignored.
Deliver(d) ==
    LET s == socket[d]
        message == Head(down[s])
    IN  /\ s # NoSocket /\ down[s] # <<>>
        /\ down' = [down EXCEPT ![s] = Tail(@)]
        /\ CASE message.type = "hello" /\ d \in listening -> OnHello(d)
             [] message.type = "presence.changed" /\ mesh[d] # 0 -> OnPresence(d, message.devices)
             [] message.type \in Signals /\ mesh[d] # 0 -> OnSignal(d, message)
             [] OTHER -> UNCHANGED <<self, mesh, work, conn, blurred>>
        /\ UNCHANGED <<socket, listening, leaves, room, cut, faults>>

-----------------------------------------------------------------------------
(* The operations of a chain.                                              *)

\* hubSend: on the socket the page has now, if it has one.
Signal(d, message) ==
    IF socket[d] # NoSocket /\ socket[d] \notin cut
    THEN RouteSignal(socket[d], message)
    ELSE UNCHANGED hub

First(m, p)   == Head(chain[m][p])
Todo(m, p, k) == chain[m][p] # <<>> /\ First(m, p).type = k /\ doing[m][p] = 0
Forgotten(m, p) ==
    /\ chain' = [chain EXCEPT ![m][p] = <<>>]
    /\ UNCHANGED doing
Done(m, p) ==
    /\ chain' = [chain EXCEPT ![m][p] = Tail(@)]
    /\ doing' = [doing EXCEPT ![m][p] = 0]

\* createPc; the first description it gets, and the page's wait for it.
CreatePc(m, p, first) ==
    /\ pcs < MaxPcs
    /\ pcs' = pcs + 1
    /\ pc' = [pc EXCEPT ![pcs + 1] = [first EXCEPT !.at = m, !.to = p]]
    /\ peers' = [peers EXCEPT ![m][p] = pcs + 1]
    /\ doing' = [doing EXCEPT ![m][p] = pcs + 1]

\* offer: a connection, unless there is one by now, and its own description ...
Offer(m, p) ==
    /\ Todo(m, p, "offer")
    /\ IF peers[m][p] # 0
       THEN /\ starting' = [starting EXCEPT ![m] = @ \ {p}]
            /\ Done(m, p) /\ UNCHANGED <<peers, conn>>
       ELSE /\ CreatePc(m, p, [Unmade EXCEPT !.sig = "have-local-offer"])
            /\ UNCHANGED <<starting, chain>>
    /\ UNCHANGED <<page, ice, hub, blurred, faults>>

\* The rest of an operation: its signal, if nobody closed the connection.
Answered(m, p, kind) ==
    LET n == doing[m][p]
    IN  /\ n # 0 /\ First(m, p).type = kind[1]
        /\ IF pc[n].sig = "closed" THEN UNCHANGED hub
           ELSE Signal(self[m], Rtc(kind[2], self[m], p, n))
        /\ Done(m, p)
        /\ UNCHANGED <<page, peers, ice, conn, blurred, faults>>

\* ... which is set when it is signalled.
OfferSent(m, p) ==
    /\ Answered(m, p, <<"offer", "rtc.offer">>)
    /\ starting' = [starting EXCEPT ![m] = @ \ {p}]

\* A candidate is for the connection whose description is set, or refused.
TakeIn(c, r, C) == [c EXCEPT !.remote = r, !.got = @ \cup (C \cap {r})]

\* planRtcSignal: an offer is let through in state stable only, and not the one
\* that is set already; an answer only to a connection that has offered.
OfferApplies(c, offer) == c.sig = "stable" /\ c.remote # offer
AnswerApplies(c)       == c.sig = "have-local-offer"

\* acceptOffer: the description, flushIce, and its own description ...
AcceptOffer(m, p) ==
    LET n == peers[m][p]
        offer == First(m, p).pc
        Set(c) == [TakeIn(c, offer, ice[m][p]) EXCEPT !.sig = "stable"]
    IN  /\ Todo(m, p, "rtc.offer")
        /\ IF n = 0
           THEN /\ CreatePc(m, p, Set(Unmade))
                /\ ice' = [ice EXCEPT ![m][p] = {}] /\ UNCHANGED chain
           ELSE IF OfferApplies(pc[n], offer)
           THEN /\ pc' = [pc EXCEPT ![n] = Set(@)]
                /\ ice' = [ice EXCEPT ![m][p] = {}]
                /\ doing' = [doing EXCEPT ![m][p] = n] /\ UNCHANGED <<peers, pcs, chain>>
           ELSE Done(m, p) /\ UNCHANGED <<peers, conn, ice>>
        /\ UNCHANGED <<page, starting, hub, blurred, faults>>

\* ... which is set when it is signalled.
AnswerSent(m, p) ==
    Answered(m, p, <<"rtc.offer", "rtc.answer">>) /\ UNCHANGED starting

\* acceptAnswer
AcceptAnswer(m, p) ==
    LET n == peers[m][p]
    IN  /\ Todo(m, p, "rtc.answer")
        /\ IF n # 0 /\ AnswerApplies(pc[n])
           THEN /\ pc' = [pc EXCEPT ![n] = [TakeIn(@, First(m, p).pc, ice[m][p])
                                               EXCEPT !.sig = "stable"]]
                /\ ice' = [ice EXCEPT ![m][p] = {}]
           ELSE UNCHANGED <<ice, pc>>
        /\ Done(m, p)
        /\ UNCHANGED <<page, peers, starting, pcs, hub, blurred, faults>>

\* What becomes of a candidate that is early: kept, not dropped.
Dropped(kept, n)  == kept
Buffered(kept, n) == kept \cup {n}

\* applyIce: without a remote description the candidate is kept for later.
ApplyIce(m, p) ==
    LET n == peers[m][p]
        c == First(m, p).pc
    IN  /\ Todo(m, p, "rtc.ice")
        /\ IF n = 0 \/ pc[n].remote = 0
           THEN ice' = [ice EXCEPT ![m][p] = Buffered(@, c)] /\ UNCHANGED pc
           ELSE pc' = [pc EXCEPT ![n] = TakeIn(@, @.remote, {c})] /\ UNCHANGED ice
        /\ Done(m, p)
        /\ UNCHANGED <<page, peers, starting, pcs, hub, blurred, faults>>

\* onicecandidate: from the local description on, also before the page has
\* signalled it.
Trickle(n) ==
    LET d == self[pc[n].at]
    IN  /\ pc[n].sig \in {"have-local-offer", "stable"} /\ ~pc[n].trickled
        /\ pc' = [pc EXCEPT ![n].trickled = TRUE]
        /\ Signal(d, Rtc("rtc.ice", d, pc[n].to, n))
        /\ UNCHANGED <<page, work, pcs, blurred, faults>>

Operate(m, p) ==
    \/ Offer(m, p) \/ OfferSent(m, p)
    \/ AcceptOffer(m, p) \/ AnswerSent(m, p) \/ AcceptAnswer(m, p)
    \/ ApplyIce(m, p)

Next ==
    \/ \E d \in Devices :
          \/ \E s \in Sockets : Connect(d, s)
          \/ EnterPage(d) \/ LeavePage(d) \/ Lose(d) \/ Deliver(d)
    \/ \E s \in Sockets : ServerClosed(s)
    \/ \E m \in Meshes, p \in Devices : Operate(m, p)
    \/ \E n \in Pcs : Trickle(n)

\* The hub is reached again, its envelopes arrive, promises settle, and a
\* connection with a local description finds a candidate.
Fairness ==
    /\ \A d \in Devices : WF_vars(\E s \in Sockets : Connect(d, s)) /\ WF_vars(Deliver(d))
    /\ \A s \in Sockets : WF_vars(ServerClosed(s))
    /\ \A m \in Meshes, p \in Devices : WF_vars(Operate(m, p))
    /\ \A n \in Pcs : WF_vars(Trickle(n))

Spec == Init /\ [][Next]_vars /\ Fairness

-----------------------------------------------------------------------------
(* Properties.                                                             *)

\* No connection stays open that the page does not know of, unless a peer went
\* or came back while something was under way with it.
NoneLeftOpen ==
    \A n \in Pcs : pc[n].sig \notin {"unmade", "closed"} /\ ~blurred =>
        \E d \in Devices : mesh[d] = pc[n].at /\ peers[mesh[d]][pc[n].to] = n

Mine(d, p) == IF mesh[d] = 0 THEN 0 ELSE peers[mesh[d]][p]
\* The channel between two devices can open: each end has set the other's
\* description and at least one of them knows a candidate of the other.
Linked(d, p) ==
    LET x == Mine(d, p)
        y == Mine(p, d)
    IN  /\ x # 0 /\ y # 0
        /\ pc[x].sig = "stable" /\ pc[y].sig = "stable"
        /\ pc[x].remote = y /\ pc[y].remote = x
        /\ y \in pc[x].got /\ x \in pc[y].got

Up(d) == socket[d] # NoSocket /\ socket[d] \notin cut

\* A page of d that heard the hello of its socket, or will.
Meshed(d) ==
    /\ Up(d)
    /\ \/ mesh[d] # 0
       \/ d \in listening /\ \E message \in OnItsWay(d) : message.type = "hello"

\* Two devices on the hub whose pages have a mesh, or a hello on its way, are
\* linked in the end, also after either was gone and came back, unless it was
\* back before the other end had missed it or went while something was under way:
\* nobody offers again then.  A page that comes to a session that said its hello
\* before has no mesh, and nothing is claimed of it before the next reconnect.
LinkComes ==
    \A d, p \in Devices :
        (Offers(d, p) /\ Meshed(d) /\ Meshed(p))
            ~> (Linked(d, p) \/ blurred \/ ~Meshed(d) \/ ~Meshed(p))

=============================================================================
