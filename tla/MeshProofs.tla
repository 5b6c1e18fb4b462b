----------------------------- MODULE MeshProofs -----------------------------
(***************************************************************************)
(* Theorems about Mesh: its types, and that no connection stays open which *)
(* the page does not know of, for any number of devices, sockets, meshes   *)
(* and connections.                                                        *)
(*                                                                         *)
(* Neither is inductive.  A connection is made by what a chain holds, and  *)
(* a chain by what arrives: the invariant follows a signal from the page   *)
(* that sends it to the mesh that works on it, and says of every mesh that *)
(* is not the page's any more that nothing is left for it to do.           *)
(***************************************************************************)
EXTENDS Mesh, FiniteSetTheorems, TLAPS

\* What travels to a browser of d: what the hub says, and the signals others
\* addressed to d.
FromHub == {Hello(d) : d \in Devices} \cup {Presence(D) : D \in SUBSET Devices}
For(d) == FromHub \cup [type : Signals, from : Devices \ {d}, to : {d}, pc : Pcs]

\* What a chain is made of.
Tasks == [type : {"offer"}, from : Devices, to : Devices, pc : {0}]
         \cup [type : Signals, from : Devices, to : Devices, pc : Pcs]

RoomFits ==
    /\ room \in [Sockets -> Devices \cup {Absent}]
    /\ cut \subseteq InRoom
    /\ down = [s \in Sockets |-> down[s]]
    /\ \A s \in Sockets : down[s] \in Seq(For(room[s]))

\* A page's socket is in the room as its device's; a mesh is of the device
\* whose page made it, and meshes are numbered as they are made.
PagesFit ==
    /\ socket \in [Devices -> Sockets \cup {NoSocket}]
    /\ listening \subseteq Devices
    /\ mesh \in [Devices -> 0..MaxMeshes]
    /\ self \in [Meshes -> Devices \cup {Absent}]
    /\ \A d \in Devices : socket[d] # NoSocket => room[socket[d]] = d /\ socket[d] \notin cut
    /\ \A d \in Devices : mesh[d] # 0 => self[mesh[d]] = d /\ d \in listening
    /\ blurred \in BOOLEAN /\ faults \in 0..MaxFaults /\ leaves \in 0..MaxLeaves

Numbered == \E k \in 0..MaxMeshes : \A m \in Meshes : self[m] # Absent <=> m <= k

WorkTyped ==
    /\ peers \in [Meshes -> [Devices -> 0..MaxPcs]]
    /\ starting \in [Meshes -> SUBSET Devices]
    /\ chain \in [Meshes -> [Devices -> Seq(Tasks)]]
    /\ doing \in [Meshes -> [Devices -> 0..MaxPcs]]
    /\ ice \in [Meshes -> [Devices -> SUBSET Pcs]]
    /\ pc \in [Pcs -> Connection] /\ pcs \in 0..MaxPcs

\* A mesh that was made has connections of its own, to others.
LinksFit ==
    \A m \in Meshes, p \in Devices :
        /\ peers[m][p] # 0 => pc[peers[m][p]].at = m /\ pc[peers[m][p]].to = p
        /\ doing[m][p] # 0 => chain[m][p] # <<>> /\ pc[doing[m][p]].at = m
        /\ chain[m][p] # <<>> => self[m] # Absent /\ p # self[m]

Open(n) == pc[n].sig \notin {"unmade", "closed"}

PcsFit ==
    \A n \in Pcs :
        /\ n > pcs => pc[n] = Unmade
        /\ Open(n) => pc[n].at # 0
        /\ pc[n].at # 0 => /\ self[pc[n].at] # Absent /\ pc[n].to # self[pc[n].at]
                           /\ pc[n].to \in Devices

\* Until something was blurred, only the mesh a page has is at work, and every
\* open connection is one that its mesh has for that peer.
ChainsKnown ==
    ~blurred => \A m \in Meshes, p \in Devices : chain[m][p] # <<>> => mesh[self[m]] = m
OpenKnown ==
    ~blurred => \A n \in Pcs : Open(n) =>
        /\ mesh[self[pc[n].at]] = pc[n].at
        /\ peers[pc[n].at][pc[n].to] = n

Sound == RoomFits /\ PagesFit /\ Numbered /\ WorkTyped /\ LinksFit /\ PcsFit
         /\ ChainsKnown /\ OpenKnown

-----------------------------------------------------------------------------
(* Functions and messages.                                                 *)

\* One cell of a table is written.
LEMMA CellSet ==
    ASSUME NEW T, NEW f \in [Meshes -> [Devices -> T]], NEW g,
           NEW m \in Meshes, NEW p \in Devices, NEW v \in T,
           g = [f EXCEPT ![m][p] = v]
    PROVE  /\ g \in [Meshes -> [Devices -> T]] /\ g[m][p] = v
           /\ \A x \in Meshes, y \in Devices : x # m \/ y # p => g[x][y] = f[x][y]
  OBVIOUS

\* One row of it is.
LEMMA RowSet ==
    ASSUME NEW T, NEW f \in [Meshes -> [Devices -> T]], NEW g,
           NEW m \in Meshes, NEW r \in [Devices -> T],
           g = [f EXCEPT ![m] = r]
    PROVE  /\ g \in [Meshes -> [Devices -> T]] /\ g[m] = r
           /\ \A x \in Meshes \ {m} : g[x] = f[x]
  OBVIOUS

\* The rows of one device are.
LEMMA RowsSet ==
    ASSUME NEW T, NEW f \in [Meshes -> [Devices -> T]], NEW g, NEW d, NEW v \in T,
           g = [m \in Meshes |-> IF self[m] = d THEN [p \in Devices |-> v] ELSE f[m]]
    PROVE  /\ g \in [Meshes -> [Devices -> T]]
           /\ \A m \in Meshes : self[m] = d => \A p \in Devices : g[m][p] = v
           /\ \A m \in Meshes : self[m] # d => g[m] = f[m]
  OBVIOUS

\* The first of what is queued is taken.
LEMMA Rest ==
    ASSUME NEW S, NEW q \in Seq(S), q # <<>>
    PROVE  Tail(q) \in Seq(S) /\ Head(q) \in S
  OBVIOUS

LEMMA MessageKinds ==
    /\ \A d \in Devices : Hello(d).type = "hello" /\ \A e : Hello(d) \in For(e)
    /\ \A D \in SUBSET Devices :
          Presence(D).type = "presence.changed" /\ \A e : Presence(D) \in For(e)
    /\ \A e \in Devices : \A x \in For(e) :
          /\ x.type = "presence.changed" => x.devices \subseteq Devices
          /\ x.type \in Signals =>
                /\ x \in [type : Signals, from : Devices, to : Devices, pc : Pcs]
                /\ x.from # e
  <1>1. \A d : Hello(d).type = "hello"
    BY DEF Hello
  <1>2. \A D : Presence(D).type = "presence.changed" /\ Presence(D).devices = D
    BY DEF Presence
  <1>3. "hello" \notin Signals /\ "presence.changed" \notin Signals
    BY DEF Signals
  <1>4. ASSUME NEW e \in Devices, NEW x \in For(e)
        PROVE  /\ x.type = "presence.changed" => x.devices \subseteq Devices
               /\ x.type \in Signals =>
                     /\ x \in [type : Signals, from : Devices, to : Devices, pc : Pcs]
                     /\ x.from # e
    <2>1. CASE \E d \in Devices : x = Hello(d)
      <3>1. x.type = "hello"
        BY <1>1, <2>1
      <3>2. QED
        BY <1>3, <3>1
    <2>2. CASE \E D \in SUBSET Devices : x = Presence(D)
      BY <1>2, <1>3, <2>2
    <2>3. CASE x \in [type : Signals, from : Devices \ {e}, to : {e}, pc : Pcs]
      BY <1>3, <2>3
    <2>4. QED
      BY <2>1, <2>2, <2>3 DEF For, FromHub
  <1>5. QED
    BY <1>1, <1>2, <1>4 DEF For, FromHub

-----------------------------------------------------------------------------
(* The hub: what its operators leave.                                      *)

\* A message for everyone it is sent to.
LEMMA SentFits ==
    ASSUME RoomFits, NEW S \in SUBSET Sockets, NEW x, \A s \in S : x \in For(room[s])
    PROVE  /\ Sent(S, x) = [s \in Sockets |-> Sent(S, x)[s]]
           /\ \A s \in Sockets : Sent(S, x)[s] \in Seq(For(room[s]))
           /\ \A s \in Sockets \ S : Sent(S, x)[s] = down[s]
  <1>1. \A s \in Sockets :
           Sent(S, x)[s] = IF s \in S \ cut THEN Append(down[s], x) ELSE down[s]
    BY DEF Sent
  <1>2. ASSUME NEW s \in Sockets PROVE Sent(S, x)[s] \in Seq(For(room[s]))
    <2>1. down[s] \in Seq(For(room[s]))
      BY DEF RoomFits
    <2>2. CASE s \in S \ cut
      <3>1. x \in For(room[s])
        BY <2>2
      <3>2. Append(down[s], x) \in Seq(For(room[s]))
        BY <2>1, <3>1
      <3>3. QED
        BY <1>1, <2>2, <3>2
    <2>3. CASE s \notin S \ cut
      BY <1>1, <2>1, <2>3
    <2>4. QED
      BY <2>2, <2>3
  <1>3. Sent(S, x) = [s \in Sockets |-> Sent(S, x)[s]]
    BY DEF Sent
  <1>4. QED
    BY <1>1, <1>2, <1>3

LEMMA Present ==
    ASSUME RoomFits, NEW S \in SUBSET Sockets
    PROVE  DevicesOf(S) \subseteq Devices
  BY DEF RoomFits, DevicesOf

LEMMA Accepts ==
    ASSUME RoomFits, NEW s \in Sockets, NEW d \in Devices, AcceptSocket(s, d)
    PROVE  /\ RoomFits' /\ room[s] = Absent /\ room'[s] = d /\ cut' = cut
           /\ \A x \in Sockets \ {s} : room'[x] = room[x]
  <1> DEFINE D == DevicesOf(InRoom) \cup {d}
             sent == Sent(InRoom, Presence(D))
             greeting == <<Hello(d), Presence(D)>>
  <1>1. /\ room' = [room EXCEPT ![s] = d] /\ room[s] = Absent
        /\ down' = [sent EXCEPT ![s] = greeting] /\ cut' = cut
    BY DEF AcceptSocket
  <1>2. InRoom \in SUBSET Sockets
    BY DEF InRoom
  <1>3. D \in SUBSET Devices
    BY <1>2, Present
  <1>4. /\ \A x : Presence(D) \in For(x)
        /\ \A x : Hello(d) \in For(x)
    BY <1>3, MessageKinds
  <1>5. /\ sent = [x \in Sockets |-> sent[x]]
        /\ \A x \in Sockets : sent[x] \in Seq(For(room[x]))
    BY <1>2, <1>4, SentFits
  <1>6. greeting \in Seq(For(d))
    BY <1>4
  <1> HIDE DEF D, sent, greeting
  <1>7. room' \in [Sockets -> Devices \cup {Absent}] /\ room'[s] = d
        /\ \A x \in Sockets \ {s} : room'[x] = room[x]
    BY <1>1 DEF RoomFits
  <1>8. /\ down' = [x \in Sockets |-> down'[x]] /\ down'[s] = greeting
        /\ \A x \in Sockets \ {s} : down'[x] = sent[x]
    BY <1>1, <1>5
  <1>9. \A x \in Sockets : down'[x] \in Seq(For(room'[x]))
    BY <1>5, <1>6, <1>7, <1>8
  <1>10. cut' \subseteq InRoom'
    BY <1>1, <1>7 DEF RoomFits, InRoom
  <1>11. QED
    BY <1>1, <1>7, <1>8, <1>9, <1>10 DEF RoomFits

LEMMA Closes ==
    ASSUME RoomFits, NEW s \in Sockets, CloseSocket(s), cut' = cut \ {s}
    PROVE  RoomFits' /\ \A x \in Sockets \ {s} : room'[x] = room[x]
  <1> DEFINE D == DevicesOf(Others(s))
             sent == Sent(Others(s), Presence(D))
  <1>1. /\ room' = [room EXCEPT ![s] = Absent]
        /\ down' = [sent EXCEPT ![s] = <<>>]
    BY DEF CloseSocket
  <1>2. Others(s) \in SUBSET Sockets
    BY DEF InRoom, Others
  <1>3. D \in SUBSET Devices
    BY <1>2, Present
  <1>4. \A x : Presence(D) \in For(x)
    BY <1>3, MessageKinds
  <1>5. /\ sent = [x \in Sockets |-> sent[x]]
        /\ \A x \in Sockets : sent[x] \in Seq(For(room[x]))
    BY <1>2, <1>4, SentFits
  <1> HIDE DEF D, sent
  <1>6. room' \in [Sockets -> Devices \cup {Absent}]
        /\ \A x \in Sockets \ {s} : room'[x] = room[x]
    BY <1>1 DEF RoomFits
  <1>7. /\ down' = [x \in Sockets |-> down'[x]] /\ down'[s] = <<>>
        /\ \A x \in Sockets \ {s} : down'[x] = sent[x]
    BY <1>1, <1>5
  <1>8. ASSUME NEW x \in Sockets PROVE down'[x] \in Seq(For(room'[x]))
    <2>1. CASE x = s
      BY <1>7, <2>1
    <2>2. CASE x # s
      BY <1>5, <1>6, <1>7, <2>2
    <2>3. QED
      BY <2>1, <2>2
  <1>9. cut' \subseteq InRoom'
    BY <1>6 DEF RoomFits, InRoom
  <1>10. QED
    BY <1>6, <1>7, <1>8, <1>9 DEF RoomFits

\* A signal of a device to another, if the page has a socket.
LEMMA Signalled ==
    ASSUME RoomFits, NEW d \in Devices,
           NEW x \in [type : Signals, from : Devices, to : Devices, pc : Pcs],
           x.from # x.to, Signal(d, x)
    PROVE  RoomFits' /\ room' = room /\ cut' = cut
  <1>1. CASE UNCHANGED hub
    BY <1>1 DEF hub, RoomFits, InRoom
  <1>2. CASE RouteSignal(socket[d], x)
    <2>1. room' = room /\ cut' = cut /\ down' = Sent(Reached(x.to), x)
      BY <1>2 DEF RouteSignal
    <2>2. Reached(x.to) \in SUBSET Sockets /\ \A s \in Reached(x.to) : room[s] = x.to
      BY DEF Reached, InRoom
    <2>3. x \in [type : Signals, from : Devices \ {x.to}, to : {x.to}, pc : Pcs]
      OBVIOUS
    <2>4. x \in For(x.to)
      BY <2>3 DEF For
    <2>5. \A s \in Reached(x.to) : x \in For(room[s])
      BY <2>2, <2>4
    <2>6. /\ down' = [s \in Sockets |-> down'[s]]
          /\ \A s \in Sockets : down'[s] \in Seq(For(room[s]))
      BY <2>1, <2>2, <2>5, SentFits
    <2>7. cut' \subseteq InRoom'
      BY <2>1 DEF RoomFits, InRoom
    <2>8. QED
      BY <2>1, <2>6, <2>7 DEF RoomFits
  <1>3. QED
    BY <1>1, <1>2 DEF Signal

\* The first message on a socket is taken.
LEMMA Delivers ==
    ASSUME RoomFits, NEW s \in Sockets, down[s] # <<>>, down' = [down EXCEPT ![s] = Tail(@)],
           room' = room, cut' = cut
    PROVE  RoomFits' /\ Head(down[s]) \in For(room[s])
  <1>1. down[s] \in Seq(For(room[s]))
    BY DEF RoomFits
  <1>2. Tail(down[s]) \in Seq(For(room[s])) /\ Head(down[s]) \in For(room[s])
    BY <1>1, Rest
  <1>3. /\ down' = [x \in Sockets |-> down'[x]] /\ down'[s] = Tail(down[s])
        /\ \A x \in Sockets \ {s} : down'[x] = down[x]
    BY DEF RoomFits
  <1>4. \A x \in Sockets : down'[x] \in Seq(For(room[x]))
    BY <1>2, <1>3 DEF RoomFits
  <1>5. cut' \subseteq InRoom'
    BY DEF RoomFits, InRoom
  <1>6. QED
    BY <1>2, <1>3, <1>4, <1>5 DEF RoomFits

\* What was on its way on a socket is lost.
LEMMA Empties ==
    ASSUME RoomFits, NEW s \in Sockets, down' = [down EXCEPT ![s] = <<>>],
           room' = room, cut' \subseteq InRoom
    PROVE  RoomFits'
  <1>1. /\ down' = [x \in Sockets |-> down'[x]] /\ down'[s] = <<>>
        /\ \A x \in Sockets \ {s} : down'[x] = down[x]
    BY DEF RoomFits
  <1>2. \A x \in Sockets : down'[x] \in Seq(For(room[x]))
    BY <1>1 DEF RoomFits
  <1>3. cut' \subseteq InRoom'
    BY DEF InRoom
  <1>4. QED
    BY <1>1, <1>2, <1>3 DEF RoomFits

-----------------------------------------------------------------------------
(* What a step may do and keep the invariant.                              *)

\* The page and its socket are what they were.
LEMMA PagesKept ==
    ASSUME PagesFit, Numbered, UNCHANGED <<page, room, cut, faults>>, blurred' \in BOOLEAN
    PROVE  PagesFit' /\ Numbered'
  BY DEF PagesFit, Numbered, page

\* Nothing of the meshes changes.
LEMMA Idle ==
    ASSUME Sound, UNCHANGED <<mesh, self, work, conn>>, ~blurred' => ~blurred
    PROVE  WorkTyped' /\ LinksFit' /\ PcsFit' /\ ChainsKnown' /\ OpenKnown'
  <1>1. WorkTyped'
    BY DEF Sound, WorkTyped, work, conn
  <1>2. LinksFit' /\ PcsFit'
    BY DEF Sound, LinksFit, PcsFit, Open, work, conn
  <1>3. ChainsKnown' /\ OpenKnown'
    BY DEF Sound, ChainsKnown, OpenKnown, Open, work, conn
  <1>4. QED
    BY <1>1, <1>2, <1>3

\* A connection is somewhere only when it was made.
LEMMA MadeOnly ==
    ASSUME WorkTyped, PcsFit, NEW n \in Pcs, pc[n].at # 0
    PROVE  /\ n <= pcs /\ pc[n].at \in Meshes /\ self[pc[n].at] # Absent
           /\ pc[n].to \in Devices /\ pc[n].to # self[pc[n].at]
  <1>1. pc[n] \in Connection /\ n \in Nat /\ pcs \in Nat
    BY MeshAssumption DEF WorkTyped, Pcs
  <1>2. pc[n].at \in 0..MaxMeshes
    BY <1>1 DEF Connection
  <1>3. Unmade.at = 0
    BY DEF Unmade
  <1>4. n <= pcs
    BY <1>1, <1>3 DEF PcsFit
  <1>5. pc[n].at \in Meshes
    BY <1>2, MeshAssumption DEF Meshes
  <1>6. QED
    BY <1>4, <1>5 DEF PcsFit

\* What a mesh has for a peer was made for that peer.
LEMMA PeerIs ==
    ASSUME WorkTyped, LinksFit, PcsFit, NEW m \in Meshes, NEW p \in Devices, peers[m][p] # 0
    PROVE  /\ peers[m][p] \in Pcs /\ pc[peers[m][p]].at = m /\ pc[peers[m][p]].to = p
           /\ peers[m][p] <= pcs /\ self[m] # Absent /\ p # self[m]
  <1>1. peers[m][p] \in 0..MaxPcs
    BY DEF WorkTyped
  <1>2. peers[m][p] \in Pcs
    BY <1>1, MeshAssumption DEF Pcs
  <1>3. pc[peers[m][p]].at = m /\ pc[peers[m][p]].to = p /\ m # 0
    BY DEF LinksFit, Meshes
  <1>4. QED
    BY <1>2, <1>3, MadeOnly

\* Connections stay where they are, links are kept or forgotten, and only a
\* mesh that was made has something to do, for another device.
LEMMA FitsStill ==
    ASSUME WorkTyped, LinksFit, PcsFit, pcs' = pcs,
           \A n \in Pcs :
               /\ pc'[n].at = pc[n].at /\ pc'[n].to = pc[n].to
               /\ Open(n)' => Open(n)
               /\ pc[n].at = 0 => pc'[n] = pc[n],
           \A x \in Meshes : self[x] # Absent => self'[x] = self[x],
           \A x \in Meshes, y \in Devices :
               /\ peers'[x][y] # 0 => peers'[x][y] = peers[x][y]
               /\ chain'[x][y] # <<>> => self'[x] # Absent /\ y # self'[x]
               /\ doing'[x][y] # 0 =>
                     /\ chain'[x][y] # <<>>
                     /\ doing'[x][y] = doing[x][y] \/ doing'[x][y] = peers[x][y]
    PROVE  LinksFit' /\ PcsFit'
  <1>1. LinksFit'
    <2> SUFFICES ASSUME NEW m \in Meshes, NEW p \in Devices
                 PROVE  /\ peers'[m][p] # 0 =>
                              pc'[peers'[m][p]].at = m /\ pc'[peers'[m][p]].to = p
                        /\ doing'[m][p] # 0 =>
                              chain'[m][p] # <<>> /\ pc'[doing'[m][p]].at = m
                        /\ chain'[m][p] # <<>> => self'[m] # Absent /\ p # self'[m]
      BY DEF LinksFit
    <2>1. peers[m][p] # 0 => pc'[peers[m][p]].at = m /\ pc'[peers[m][p]].to = p
      BY PeerIs
    <2>2. ASSUME doing[m][p] # 0 PROVE pc'[doing[m][p]].at = m
      <3>1. doing[m][p] \in Pcs
        <4>1. doing[m][p] \in 0..MaxPcs
          BY DEF WorkTyped
        <4>2. QED
          BY <2>2, <4>1, MeshAssumption DEF Pcs
      <3>2. QED
        BY <2>2, <3>1 DEF LinksFit
    <2>3. QED
      BY <2>1, <2>2
  <1>2. PcsFit'
    <2> SUFFICES ASSUME NEW n \in Pcs
                 PROVE  /\ n > pcs' => pc'[n] = Unmade
                        /\ Open(n)' => pc'[n].at # 0
                        /\ pc'[n].at # 0 =>
                              /\ self'[pc'[n].at] # Absent /\ pc'[n].to # self'[pc'[n].at]
                              /\ pc'[n].to \in Devices
      BY DEF PcsFit
    <2>1. n > pcs => pc'[n] = Unmade
      <3>1. Unmade.at = 0
        BY DEF Unmade
      <3>2. QED
        BY <3>1 DEF PcsFit
    <2>2. ASSUME pc[n].at # 0
          PROVE  /\ self'[pc[n].at] # Absent /\ pc[n].to # self'[pc[n].at]
                 /\ pc[n].to \in Devices
      BY <2>2, MadeOnly
    <2>3. Open(n)' => pc'[n].at # 0
      BY DEF PcsFit
    <2>4. QED
      BY <2>1, <2>2, <2>3
  <1>3. QED
    BY <1>1, <1>2

\* A step that works on what a mesh has: no link is made or forgotten, no
\* connection opened, nothing more to do.
LEMMA Worked ==
    ASSUME Sound, UNCHANGED <<page, peers, pcs, blurred>>,
           \A n \in Pcs :
               /\ pc'[n].at = pc[n].at /\ pc'[n].to = pc[n].to
               /\ Open(n)' => Open(n)
               /\ pc[n].at = 0 => pc'[n] = pc[n],
           \A x \in Meshes, y \in Devices :
               /\ chain'[x][y] # <<>> => chain[x][y] # <<>>
               /\ doing'[x][y] # 0 =>
                     /\ chain'[x][y] # <<>>
                     /\ doing'[x][y] = doing[x][y] \/ doing'[x][y] = peers[x][y]
    PROVE  LinksFit' /\ PcsFit' /\ ChainsKnown' /\ OpenKnown'
  <1>0. WorkTyped /\ LinksFit /\ PcsFit /\ ChainsKnown /\ OpenKnown
    BY DEF Sound
  <1>1. self' = self /\ mesh' = mesh /\ peers' = peers /\ pcs' = pcs /\ blurred' = blurred
    BY DEF page
  <1>2. \A x \in Meshes, y \in Devices :
           chain'[x][y] # <<>> => self'[x] # Absent /\ y # self'[x]
    BY <1>0, <1>1 DEF LinksFit
  <1>3. LinksFit' /\ PcsFit'
    BY <1>0, <1>1, <1>2, FitsStill
  <1>4. ChainsKnown'
    BY <1>0, <1>1 DEF ChainsKnown
  <1>5. OpenKnown'
    <2> SUFFICES ASSUME ~blurred', NEW n \in Pcs, Open(n)'
                 PROVE  /\ mesh'[self'[pc'[n].at]] = pc'[n].at
                        /\ peers'[pc'[n].at][pc'[n].to] = n
      BY DEF OpenKnown
    <2>1. QED
      BY <1>0, <1>1 DEF OpenKnown
  <1>6. QED
    BY <1>3, <1>4, <1>5

\* A mesh at work makes a connection for a peer it has none for.
LEMMA Created ==
    ASSUME Sound, NEW m \in Meshes, NEW p \in Devices, NEW first \in Connection,
           CreatePc(m, p, first), peers[m][p] = 0, chain[m][p] # <<>>,
           UNCHANGED <<page, chain, blurred>>
    PROVE  /\ peers' \in [Meshes -> [Devices -> 0..MaxPcs]]
           /\ doing' \in [Meshes -> [Devices -> 0..MaxPcs]]
           /\ pc' \in [Pcs -> Connection] /\ pcs' \in 0..MaxPcs
           /\ LinksFit' /\ PcsFit' /\ ChainsKnown' /\ OpenKnown'
  <1> DEFINE new == pcs + 1
             c == [first EXCEPT !.at = m, !.to = p]
  <1>0. WorkTyped /\ LinksFit /\ PcsFit /\ ChainsKnown /\ OpenKnown
    BY DEF Sound
  <1>1. /\ pcs' = new /\ pc' = [pc EXCEPT ![new] = c]
        /\ peers' = [peers EXCEPT ![m][p] = new] /\ doing' = [doing EXCEPT ![m][p] = new]
        /\ pcs < MaxPcs
    BY DEF CreatePc
  <1>2. self' = self /\ mesh' = mesh /\ chain' = chain /\ blurred' = blurred
    BY DEF page
  <1>3. pcs \in Nat /\ new \in Pcs /\ new \in 0..MaxPcs /\ new > pcs /\ new # 0
    BY <1>0, <1>1, MeshAssumption DEF WorkTyped, Pcs
  <1>4. m \in 0..MaxMeshes /\ m # 0
    BY MeshAssumption DEF Meshes
  <1>5. c \in Connection /\ c.at = m /\ c.to = p
    BY <1>4 DEF Connection
  <1>6. self[m] # Absent /\ p # self[m]
    BY <1>0 DEF LinksFit
  <1>7. pc[new].at = 0
    BY <1>0, <1>3 DEF PcsFit, Unmade
  <1> HIDE DEF new, c
  <1>8. /\ pc' \in [Pcs -> Connection] /\ pc'[new] = c
        /\ \A n \in Pcs \ {new} : pc'[n] = pc[n]
    BY <1>0, <1>1, <1>3, <1>5 DEF WorkTyped
  <1>9. /\ peers' \in [Meshes -> [Devices -> 0..MaxPcs]] /\ peers'[m][p] = new
        /\ \A x \in Meshes, y \in Devices : x # m \/ y # p => peers'[x][y] = peers[x][y]
    BY <1>0, <1>1, <1>3, CellSet DEF WorkTyped
  <1>10. /\ doing' \in [Meshes -> [Devices -> 0..MaxPcs]] /\ doing'[m][p] = new
         /\ \A x \in Meshes, y \in Devices : x # m \/ y # p => doing'[x][y] = doing[x][y]
    BY <1>0, <1>1, <1>3, CellSet DEF WorkTyped
  <1>11. LinksFit'
    <2> SUFFICES ASSUME NEW x \in Meshes, NEW y \in Devices
                 PROVE  /\ peers'[x][y] # 0 =>
                              pc'[peers'[x][y]].at = x /\ pc'[peers'[x][y]].to = y
                        /\ doing'[x][y] # 0 =>
                              chain'[x][y] # <<>> /\ pc'[doing'[x][y]].at = x
                        /\ chain'[x][y] # <<>> => self'[x] # Absent /\ y # self'[x]
      BY DEF LinksFit
    <2>1. chain'[x][y] # <<>> => self'[x] # Absent /\ y # self'[x]
      BY <1>0, <1>2 DEF LinksFit
    <2>2. CASE x = m /\ y = p
      BY <1>2, <1>5, <1>8, <1>9, <1>10, <2>1, <2>2
    <2>3. CASE x # m \/ y # p
      <3>1. peers'[x][y] = peers[x][y] /\ doing'[x][y] = doing[x][y]
        BY <1>9, <1>10, <2>3
      <3>2. peers[x][y] # 0 => pc'[peers[x][y]].at = x /\ pc'[peers[x][y]].to = y
        <4>1. SUFFICES ASSUME peers[x][y] # 0
                       PROVE  pc'[peers[x][y]].at = x /\ pc'[peers[x][y]].to = y
          OBVIOUS
        <4>2. peers[x][y] \in Pcs /\ pc[peers[x][y]].at = x /\ pc[peers[x][y]].to = y /\ x # 0
          BY <1>0, <4>1, PeerIs DEF Meshes
        <4>3. QED
          BY <1>7, <1>8, <4>2
      <3>3. doing[x][y] # 0 => chain[x][y] # <<>> /\ pc'[doing[x][y]].at = x
        <4>1. SUFFICES ASSUME doing[x][y] # 0
                       PROVE  chain[x][y] # <<>> /\ pc'[doing[x][y]].at = x
          OBVIOUS
        <4>2. doing[x][y] \in 0..MaxPcs
          BY <1>0 DEF WorkTyped
        <4>3. doing[x][y] \in Pcs
          BY <4>1, <4>2, MeshAssumption DEF Pcs
        <4>4. chain[x][y] # <<>> /\ pc[doing[x][y]].at = x /\ x # 0
          BY <1>0, <4>1 DEF LinksFit, Meshes
        <4>5. QED
          BY <1>7, <1>8, <4>3, <4>4
      <3>4. QED
        BY <1>2, <2>1, <3>1, <3>2, <3>3
    <2>4. QED
      BY <2>2, <2>3
  <1>12. PcsFit'
    <2> SUFFICES ASSUME NEW n \in Pcs
                 PROVE  /\ n > pcs' => pc'[n] = Unmade
                        /\ Open(n)' => pc'[n].at # 0
                        /\ pc'[n].at # 0 =>
                              /\ self'[pc'[n].at] # Absent /\ pc'[n].to # self'[pc'[n].at]
                              /\ pc'[n].to \in Devices
      BY DEF PcsFit
    <2>1. CASE n = new
      <3>1. ~(n > pcs')
        BY <1>1, <1>3, <2>1
      <3>2. QED
        BY <1>2, <1>4, <1>5, <1>6, <1>8, <2>1, <3>1
    <2>2. CASE n # new
      <3>1. pc'[n] = pc[n]
        BY <1>8, <2>2
      <3>2. n > pcs' => n > pcs
        BY <1>1, <1>3 DEF Pcs
      <3>3. Open(n)' => Open(n)
        BY <3>1 DEF Open
      <3>4. QED
        BY <1>0, <1>2, <3>1, <3>2, <3>3 DEF PcsFit
    <2>3. QED
      BY <2>1, <2>2
  <1>13. ChainsKnown'
    BY <1>0, <1>2 DEF ChainsKnown
  <1>14. OpenKnown'
    <2> SUFFICES ASSUME ~blurred', NEW n \in Pcs, Open(n)'
                 PROVE  /\ mesh'[self'[pc'[n].at]] = pc'[n].at
                        /\ peers'[pc'[n].at][pc'[n].to] = n
      BY DEF OpenKnown
    <2>1. CASE n = new
      <3>1. mesh[self[m]] = m
        BY <1>0, <1>2 DEF ChainsKnown
      <3>2. QED
        BY <1>2, <1>5, <1>8, <1>9, <2>1, <3>1
    <2>2. CASE n # new
      <3>1. pc'[n] = pc[n]
        BY <1>8, <2>2
      <3>2. Open(n)
        BY <3>1 DEF Open
      <3>3. mesh[self[pc[n].at]] = pc[n].at /\ peers[pc[n].at][pc[n].to] = n
        BY <1>0, <1>2, <3>2 DEF OpenKnown
      <3>4. pc[n].at \in Meshes /\ pc[n].to \in Devices
        BY <1>0, <3>2, MadeOnly DEF PcsFit
      <3>5. pc[n].at # m \/ pc[n].to # p
        BY <3>3 DEF Pcs
      <3>6. peers'[pc[n].at][pc[n].to] = n
        BY <1>9, <3>3, <3>4, <3>5
      <3>7. QED
        BY <1>2, <3>1, <3>3, <3>6
    <2>3. QED
      BY <2>1, <2>2
  <1>15. pcs' \in 0..MaxPcs
    BY <1>1, <1>3
  <1>16. QED
    BY <1>8, <1>9, <1>10, <1>11, <1>12, <1>13, <1>14, <1>15

-----------------------------------------------------------------------------
(* The operations of a chain.                                              *)

\* What is first in a chain.
LEMMA FirstIs ==
    ASSUME WorkTyped, NEW m \in Meshes, NEW p \in Devices, chain[m][p] # <<>>
    PROVE  /\ First(m, p) \in Tasks /\ Tail(chain[m][p]) \in Seq(Tasks)
           /\ First(m, p).type \in Signals => First(m, p).pc \in Pcs
  <1>1. chain[m][p] \in Seq(Tasks)
    BY DEF WorkTyped
  <1>2. First(m, p) \in Tasks /\ Tail(chain[m][p]) \in Seq(Tasks)
    BY <1>1, Rest DEF First
  <1>3. "offer" \notin Signals
    BY DEF Signals
  <1>4. First(m, p).type \in Signals => First(m, p).pc \in Pcs
    <2>1. CASE First(m, p) \in [type : {"offer"}, from : Devices, to : Devices, pc : {0}]
      BY <1>3, <2>1
    <2>2. CASE First(m, p) \in [type : Signals, from : Devices, to : Devices, pc : Pcs]
      BY <2>2
    <2>3. QED
      BY <1>2, <2>1, <2>2 DEF Tasks
  <1>5. QED
    BY <1>2, <1>4

\* An operation is over: the next one of that peer can begin.
LEMMA DoneIs ==
    ASSUME WorkTyped, LinksFit, NEW m \in Meshes, NEW p \in Devices, chain[m][p] # <<>>,
           Done(m, p)
    PROVE  /\ chain' \in [Meshes -> [Devices -> Seq(Tasks)]]
           /\ doing' \in [Meshes -> [Devices -> 0..MaxPcs]]
           /\ \A x \in Meshes, y \in Devices :
                 /\ chain'[x][y] # <<>> => chain[x][y] # <<>>
                 /\ doing'[x][y] # 0 => chain'[x][y] # <<>> /\ doing'[x][y] = doing[x][y]
  <1>1. /\ chain' = [chain EXCEPT ![m][p] = Tail(chain[m][p])]
        /\ doing' = [doing EXCEPT ![m][p] = 0]
    BY DEF Done
  <1>2. Tail(chain[m][p]) \in Seq(Tasks)
    BY FirstIs
  <1>3. /\ chain' \in [Meshes -> [Devices -> Seq(Tasks)]]
        /\ \A x \in Meshes, y \in Devices : x # m \/ y # p => chain'[x][y] = chain[x][y]
    BY <1>1, <1>2, CellSet DEF WorkTyped
  <1>4. 0 \in 0..MaxPcs
    BY MeshAssumption
  <1>5. /\ doing' \in [Meshes -> [Devices -> 0..MaxPcs]] /\ doing'[m][p] = 0
        /\ \A x \in Meshes, y \in Devices : x # m \/ y # p => doing'[x][y] = doing[x][y]
    BY <1>1, <1>4, CellSet DEF WorkTyped
  <1>6. ASSUME NEW x \in Meshes, NEW y \in Devices
        PROVE  /\ chain'[x][y] # <<>> => chain[x][y] # <<>>
               /\ doing'[x][y] # 0 => chain'[x][y] # <<>> /\ doing'[x][y] = doing[x][y]
    <2>1. CASE x = m /\ y = p
      BY <1>5, <2>1
    <2>2. CASE x # m \/ y # p
      <3>1. chain'[x][y] = chain[x][y] /\ doing'[x][y] = doing[x][y]
        BY <1>3, <1>5, <2>2
      <3>2. doing[x][y] # 0 => chain[x][y] # <<>>
        BY DEF LinksFit
      <3>3. QED
        BY <3>1, <3>2
    <2>3. QED
      BY <2>1, <2>2
  <1>7. QED
    BY <1>3, <1>5, <1>6

\* A connection is somewhere still, whatever it takes in.
LEMMA Takes ==
    ASSUME NEW c \in Connection, NEW r \in 0..MaxPcs, NEW C \in SUBSET Pcs
    PROVE  /\ TakeIn(c, r, C) \in Connection /\ TakeIn(c, r, C).at = c.at
           /\ TakeIn(c, r, C).to = c.to /\ TakeIn(c, r, C).sig = c.sig
           /\ [TakeIn(c, r, C) EXCEPT !.sig = "stable"] \in Connection
           /\ [TakeIn(c, r, C) EXCEPT !.sig = "stable"].at = c.at
           /\ [TakeIn(c, r, C) EXCEPT !.sig = "stable"].to = c.to
  BY DEF TakeIn, Connection

\* One connection is changed where it is.
LEMMA ChangedInPlace ==
    ASSUME WorkTyped, NEW n \in Pcs, NEW c \in Connection, pc' = [pc EXCEPT ![n] = c],
           pc[n].at # 0, c.at = pc[n].at, c.to = pc[n].to,
           c.sig \notin {"unmade", "closed"} => Open(n)
    PROVE  /\ pc' \in [Pcs -> Connection]
           /\ \A x \in Pcs :
                 /\ pc'[x].at = pc[x].at /\ pc'[x].to = pc[x].to
                 /\ Open(x)' => Open(x)
                 /\ pc[x].at = 0 => pc'[x] = pc[x]
  <1>1. pc' \in [Pcs -> Connection] /\ pc'[n] = c /\ \A x \in Pcs \ {n} : pc'[x] = pc[x]
    BY DEF WorkTyped
  <1>2. ASSUME NEW x \in Pcs
        PROVE  /\ pc'[x].at = pc[x].at /\ pc'[x].to = pc[x].to
               /\ Open(x)' => Open(x)
               /\ pc[x].at = 0 => pc'[x] = pc[x]
    <2>1. CASE x = n
      BY <1>1, <2>1 DEF Open
    <2>2. CASE x # n
      BY <1>1, <2>2 DEF Open
    <2>3. QED
      BY <2>1, <2>2
  <1>3. QED
    BY <1>1, <1>2

LEMMA UnmadeTyped == Unmade \in Connection /\ Unmade.at = 0
  BY MeshAssumption DEF Unmade, Connection

\* The state as a whole, after a step of a page's mesh.
LEMMA SoundAgain ==
    ASSUME Sound, RoomFits', UNCHANGED <<page, room, cut, faults, blurred>>, WorkTyped',
           LinksFit' /\ PcsFit' /\ ChainsKnown' /\ OpenKnown'
    PROVE  Sound'
  <1>1. PagesFit /\ Numbered /\ blurred' \in BOOLEAN
    BY DEF Sound, PagesFit
  <1>2. PagesFit' /\ Numbered'
    BY <1>1, PagesKept
  <1>3. QED
    BY <1>2 DEF Sound

LEMMA HubKept ==
    ASSUME RoomFits, UNCHANGED hub
    PROVE  RoomFits' /\ UNCHANGED <<room, cut>>
  BY DEF RoomFits, InRoom, hub

LEMMA OfferKeeps ==
    ASSUME Sound, NEW m \in Meshes, NEW p \in Devices, Offer(m, p)
    PROVE  Sound'
  <1>0. WorkTyped /\ LinksFit /\ PcsFit /\ RoomFits
    BY DEF Sound
  <1>1. /\ chain[m][p] # <<>> /\ UNCHANGED <<page, ice, hub, blurred, faults>>
        /\ \/ /\ peers[m][p] # 0 /\ starting' = [starting EXCEPT ![m] = @ \ {p}]
              /\ Done(m, p) /\ UNCHANGED <<peers, conn>>
           \/ /\ peers[m][p] = 0
              /\ CreatePc(m, p, [Unmade EXCEPT !.sig = "have-local-offer"])
              /\ UNCHANGED <<starting, chain>>
    BY DEF Offer, Todo
  <1>2. RoomFits' /\ UNCHANGED <<room, cut, page, faults, blurred>>
    BY <1>0, <1>1, HubKept
  <1>3. CASE /\ peers[m][p] # 0 /\ starting' = [starting EXCEPT ![m] = @ \ {p}]
             /\ Done(m, p) /\ UNCHANGED <<peers, conn>>
    <2>1. starting' \in [Meshes -> SUBSET Devices]
      BY <1>0, <1>3 DEF WorkTyped
    <2>2. peers' = peers /\ pc' = pc /\ pcs' = pcs /\ ice' = ice
      BY <1>1, <1>3 DEF conn
    <2>3. /\ chain' \in [Meshes -> [Devices -> Seq(Tasks)]]
          /\ doing' \in [Meshes -> [Devices -> 0..MaxPcs]]
          /\ \A x \in Meshes, y \in Devices :
                /\ chain'[x][y] # <<>> => chain[x][y] # <<>>
                /\ doing'[x][y] # 0 => chain'[x][y] # <<>> /\ doing'[x][y] = doing[x][y]
      BY <1>0, <1>1, <1>3, DoneIs
    <2>4. WorkTyped'
      BY <1>0, <2>1, <2>2, <2>3 DEF WorkTyped
    <2>5. \A n \in Pcs : Open(n)' => Open(n)
      BY <2>2 DEF Open
    <2>6. LinksFit' /\ PcsFit' /\ ChainsKnown' /\ OpenKnown'
      BY <1>1, <2>2, <2>3, <2>5, Worked
    <2>7. QED
      BY <1>2, <2>4, <2>6, SoundAgain
  <1>4. CASE /\ peers[m][p] = 0
             /\ CreatePc(m, p, [Unmade EXCEPT !.sig = "have-local-offer"])
             /\ UNCHANGED <<starting, chain>>
    <2>1. [Unmade EXCEPT !.sig = "have-local-offer"] \in Connection
      BY UnmadeTyped DEF Connection
    <2>2. /\ peers' \in [Meshes -> [Devices -> 0..MaxPcs]]
          /\ doing' \in [Meshes -> [Devices -> 0..MaxPcs]]
          /\ pc' \in [Pcs -> Connection] /\ pcs' \in 0..MaxPcs
          /\ LinksFit' /\ PcsFit' /\ ChainsKnown' /\ OpenKnown'
      BY <1>1, <1>4, <2>1, Created
    <2>3. WorkTyped'
      BY <1>0, <1>1, <1>4, <2>2 DEF WorkTyped
    <2>4. QED
      BY <1>2, <2>2, <2>3, SoundAgain
  <1>5. QED
    BY <1>1, <1>3, <1>4

\* The signal that ends an operation.
LEMMA AnsweredKeeps ==
    ASSUME Sound, NEW m \in Meshes, NEW p \in Devices, NEW kind, kind[2] \in Signals,
           Answered(m, p, kind), starting' \in [Meshes -> SUBSET Devices]
    PROVE  Sound'
  <1> DEFINE n == doing[m][p]
             x == Rtc(kind[2], self[m], p, n)
  <1>0. WorkTyped /\ LinksFit /\ PcsFit /\ RoomFits /\ PagesFit
    BY DEF Sound
  <1>1. /\ n # 0 /\ Done(m, p) /\ UNCHANGED <<page, peers, ice, conn, blurred, faults>>
        /\ UNCHANGED hub \/ Signal(self[m], x)
    BY DEF Answered
  <1>2. n \in Pcs /\ chain[m][p] # <<>> /\ self[m] # Absent /\ p # self[m]
    <2>1. n \in 0..MaxPcs
      BY <1>0 DEF WorkTyped
    <2>2. n \in Pcs
      BY <1>1, <2>1, MeshAssumption DEF Pcs
    <2>3. QED
      BY <1>0, <1>1, <2>2 DEF LinksFit
  <1>3. self[m] \in Devices
    BY <1>0, <1>2 DEF PagesFit
  <1>4. x \in [type : Signals, from : Devices, to : Devices, pc : Pcs] /\ x.from # x.to
    BY <1>2, <1>3 DEF Rtc
  <1> HIDE DEF x
  <1>5. RoomFits' /\ room' = room /\ cut' = cut
    BY <1>0, <1>1, <1>3, <1>4, HubKept, Signalled
  <1>6. peers' = peers /\ pc' = pc /\ pcs' = pcs /\ ice' = ice
    BY <1>1 DEF conn
  <1>7. /\ chain' \in [Meshes -> [Devices -> Seq(Tasks)]]
        /\ doing' \in [Meshes -> [Devices -> 0..MaxPcs]]
        /\ \A y \in Meshes, z \in Devices :
              /\ chain'[y][z] # <<>> => chain[y][z] # <<>>
              /\ doing'[y][z] # 0 => chain'[y][z] # <<>> /\ doing'[y][z] = doing[y][z]
    BY <1>0, <1>1, <1>2, DoneIs
  <1>8. WorkTyped'
    BY <1>0, <1>6, <1>7 DEF WorkTyped
  <1>9. \A y \in Pcs : Open(y)' => Open(y)
    BY <1>6 DEF Open
  <1>10. LinksFit' /\ PcsFit' /\ ChainsKnown' /\ OpenKnown'
    BY <1>1, <1>6, <1>7, <1>9, Worked
  <1>11. QED
    BY <1>1, <1>5, <1>8, <1>10, SoundAgain

LEMMA OfferSentKeeps ==
    ASSUME Sound, NEW m \in Meshes, NEW p \in Devices, OfferSent(m, p)
    PROVE  Sound'
  <1>1. Answered(m, p, <<"offer", "rtc.offer">>) /\ starting' = [starting EXCEPT ![m] = @ \ {p}]
    BY DEF OfferSent
  <1>2. starting' \in [Meshes -> SUBSET Devices]
    BY <1>1 DEF Sound, WorkTyped
  <1>3. <<"offer", "rtc.offer">>[2] \in Signals
    BY DEF Signals
  <1>4. QED
    BY <1>1, <1>2, <1>3, AnsweredKeeps

LEMMA AnswerSentKeeps ==
    ASSUME Sound, NEW m \in Meshes, NEW p \in Devices, AnswerSent(m, p)
    PROVE  Sound'
  <1>1. Answered(m, p, <<"rtc.offer", "rtc.answer">>) /\ starting' = starting
    BY DEF AnswerSent
  <1>2. starting' \in [Meshes -> SUBSET Devices]
    BY <1>1 DEF Sound, WorkTyped
  <1>3. <<"rtc.offer", "rtc.answer">>[2] \in Signals
    BY DEF Signals
  <1>4. QED
    BY <1>1, <1>2, <1>3, AnsweredKeeps

\* The candidates kept for a peer are used up.
LEMMA Emptied ==
    ASSUME WorkTyped, NEW m \in Meshes, NEW p \in Devices, NEW C \in SUBSET Pcs,
           ice' = [ice EXCEPT ![m][p] = C]
    PROVE  ice' \in [Meshes -> [Devices -> SUBSET Pcs]]
  BY CellSet DEF WorkTyped

LEMMA AcceptOfferKeeps ==
    ASSUME Sound, NEW m \in Meshes, NEW p \in Devices, AcceptOffer(m, p)
    PROVE  Sound'
  <1> DEFINE n == peers[m][p]
             offer == First(m, p).pc
             Set(c) == [TakeIn(c, offer, ice[m][p]) EXCEPT !.sig = "stable"]
  <1>0. WorkTyped /\ LinksFit /\ PcsFit /\ RoomFits
    BY DEF Sound
  <1>1. /\ chain[m][p] # <<>> /\ First(m, p).type = "rtc.offer"
        /\ UNCHANGED <<page, starting, hub, blurred, faults>>
        /\ \/ /\ n = 0 /\ CreatePc(m, p, Set(Unmade))
              /\ ice' = [ice EXCEPT ![m][p] = {}] /\ UNCHANGED chain
           \/ /\ n # 0 /\ OfferApplies(pc[n], offer)
              /\ pc' = [pc EXCEPT ![n] = Set(pc[n])]
              /\ ice' = [ice EXCEPT ![m][p] = {}]
              /\ doing' = [doing EXCEPT ![m][p] = n] /\ UNCHANGED <<peers, pcs, chain>>
           \/ n # 0 /\ Done(m, p) /\ UNCHANGED <<peers, conn, ice>>
    BY DEF AcceptOffer, Todo
  <1>2. RoomFits' /\ UNCHANGED <<room, cut, page, faults, blurred>>
    BY <1>0, <1>1, HubKept
  <1>3. offer \in 0..MaxPcs /\ ice[m][p] \in SUBSET Pcs
    <2>1. "rtc.offer" \in Signals
      BY DEF Signals
    <2>2. offer \in Pcs
      BY <1>0, <1>1, <2>1, FirstIs
    <2>3. QED
      BY <1>0, <2>2, MeshAssumption DEF Pcs, WorkTyped
  <1>4. \A c \in Connection :
           Set(c) \in Connection /\ Set(c).at = c.at /\ Set(c).to = c.to /\ Set(c).sig = "stable"
    <2>1. SUFFICES ASSUME NEW c \in Connection
                   PROVE  /\ Set(c) \in Connection /\ Set(c).at = c.at /\ Set(c).to = c.to
                          /\ Set(c).sig = "stable"
      OBVIOUS
    <2>2. Set(c) \in Connection /\ Set(c).at = c.at /\ Set(c).to = c.to
      BY <1>3, Takes
    <2>3. TakeIn(c, offer, ice[m][p]) \in Connection
      BY <1>3, Takes
    <2>4. Set(c).sig = "stable"
      BY <2>3 DEF Connection
    <2>5. QED
      BY <2>2, <2>4
  <1>5. ASSUME ice' = [ice EXCEPT ![m][p] = {}]
        PROVE  ice' \in [Meshes -> [Devices -> SUBSET Pcs]]
    <2>1. {} \in SUBSET Pcs
      OBVIOUS
    <2>2. QED
      BY <1>0, <1>5, <2>1, Emptied
  <1> HIDE DEF offer, Set
  <1>6. CASE /\ n = 0 /\ CreatePc(m, p, Set(Unmade))
             /\ ice' = [ice EXCEPT ![m][p] = {}] /\ UNCHANGED chain
    <2>1. Set(Unmade) \in Connection
      BY <1>4, UnmadeTyped
    <2>2. /\ peers' \in [Meshes -> [Devices -> 0..MaxPcs]]
          /\ doing' \in [Meshes -> [Devices -> 0..MaxPcs]]
          /\ pc' \in [Pcs -> Connection] /\ pcs' \in 0..MaxPcs
          /\ LinksFit' /\ PcsFit' /\ ChainsKnown' /\ OpenKnown'
      BY <1>1, <1>6, <2>1, Created
    <2>3. WorkTyped'
      BY <1>0, <1>1, <1>5, <1>6, <2>2 DEF WorkTyped
    <2>4. QED
      BY <1>2, <2>2, <2>3, SoundAgain
  <1>7. CASE /\ n # 0 /\ OfferApplies(pc[n], offer)
             /\ pc' = [pc EXCEPT ![n] = Set(pc[n])]
             /\ ice' = [ice EXCEPT ![m][p] = {}]
             /\ doing' = [doing EXCEPT ![m][p] = n] /\ UNCHANGED <<peers, pcs, chain>>
    <2>1. n \in Pcs /\ pc[n].at = m /\ m # 0 /\ pc[n] \in Connection /\ n \in 0..MaxPcs
      BY <1>0, <1>7, PeerIs DEF Meshes, WorkTyped
    <2>2. Open(n)
      BY <1>7 DEF OfferApplies, Open
    <2>3. Set(pc[n]) \in Connection /\ Set(pc[n]).at = pc[n].at /\ Set(pc[n]).to = pc[n].to
      BY <1>4, <2>1
    <2>4. /\ pc' \in [Pcs -> Connection]
          /\ \A x \in Pcs :
                /\ pc'[x].at = pc[x].at /\ pc'[x].to = pc[x].to
                /\ Open(x)' => Open(x)
                /\ pc[x].at = 0 => pc'[x] = pc[x]
      BY <1>0, <1>7, <2>1, <2>2, <2>3, ChangedInPlace
    <2>5. /\ doing' \in [Meshes -> [Devices -> 0..MaxPcs]] /\ doing'[m][p] = n
          /\ \A x \in Meshes, y \in Devices : x # m \/ y # p => doing'[x][y] = doing[x][y]
      BY <1>0, <1>7, <2>1, CellSet DEF WorkTyped
    <2>6. ASSUME NEW x \in Meshes, NEW y \in Devices
          PROVE  /\ chain'[x][y] # <<>> => chain[x][y] # <<>>
                 /\ doing'[x][y] # 0 =>
                       /\ chain'[x][y] # <<>>
                       /\ doing'[x][y] = doing[x][y] \/ doing'[x][y] = peers[x][y]
      <3>1. CASE x = m /\ y = p
        BY <1>1, <1>7, <2>5, <3>1
      <3>2. CASE x # m \/ y # p
        BY <1>0, <1>7, <2>5, <3>2 DEF LinksFit
      <3>3. QED
        BY <3>1, <3>2
    <2>7. WorkTyped'
      BY <1>0, <1>1, <1>5, <1>7, <2>4, <2>5 DEF WorkTyped
    <2>8. UNCHANGED <<page, peers, pcs, blurred>>
      BY <1>1, <1>7
    <2>9. LinksFit' /\ PcsFit' /\ ChainsKnown' /\ OpenKnown'
      BY <2>4, <2>6, <2>8, Worked
    <2>10. QED
      BY <1>2, <2>7, <2>9, SoundAgain
  <1>8. CASE n # 0 /\ Done(m, p) /\ UNCHANGED <<peers, conn, ice>>
    <2>1. peers' = peers /\ pc' = pc /\ pcs' = pcs /\ ice' = ice
      BY <1>8 DEF conn
    <2>2. /\ chain' \in [Meshes -> [Devices -> Seq(Tasks)]]
          /\ doing' \in [Meshes -> [Devices -> 0..MaxPcs]]
          /\ \A x \in Meshes, y \in Devices :
                /\ chain'[x][y] # <<>> => chain[x][y] # <<>>
                /\ doing'[x][y] # 0 => chain'[x][y] # <<>> /\ doing'[x][y] = doing[x][y]
      BY <1>0, <1>1, <1>8, DoneIs
    <2>3. WorkTyped'
      BY <1>0, <1>1, <2>1, <2>2 DEF WorkTyped
    <2>4. \A x \in Pcs : Open(x)' => Open(x)
      BY <2>1 DEF Open
    <2>5. LinksFit' /\ PcsFit' /\ ChainsKnown' /\ OpenKnown'
      BY <1>1, <2>1, <2>2, <2>4, Worked
    <2>6. QED
      BY <1>2, <2>3, <2>5, SoundAgain
  <1>9. QED
    BY <1>1, <1>6, <1>7, <1>8

\* An operation that ends at once, with or without a change of the connection.
LEMMA EndsAtOnce ==
    ASSUME Sound, NEW m \in Meshes, NEW p \in Devices, chain[m][p] # <<>>, Done(m, p),
           UNCHANGED <<page, peers, starting, pcs, hub, blurred, faults>>,
           ice' \in [Meshes -> [Devices -> SUBSET Pcs]],
           \/ pc' = pc
           \/ \E n \in Pcs, c \in Connection :
                 /\ pc' = [pc EXCEPT ![n] = c]
                 /\ pc[n].at # 0 /\ c.at = pc[n].at /\ c.to = pc[n].to
                 /\ c.sig \notin {"unmade", "closed"} => Open(n)
    PROVE  Sound'
  <1>0. WorkTyped /\ LinksFit /\ PcsFit /\ RoomFits
    BY DEF Sound
  <1>1. RoomFits' /\ UNCHANGED <<room, cut, page, faults, blurred>>
    BY <1>0, HubKept
  <1>2. /\ chain' \in [Meshes -> [Devices -> Seq(Tasks)]]
        /\ doing' \in [Meshes -> [Devices -> 0..MaxPcs]]
        /\ \A x \in Meshes, y \in Devices :
              /\ chain'[x][y] # <<>> => chain[x][y] # <<>>
              /\ doing'[x][y] # 0 => chain'[x][y] # <<>> /\ doing'[x][y] = doing[x][y]
    BY <1>0, DoneIs
  <1>3. /\ pc' \in [Pcs -> Connection]
        /\ \A x \in Pcs :
              /\ pc'[x].at = pc[x].at /\ pc'[x].to = pc[x].to
              /\ Open(x)' => Open(x)
              /\ pc[x].at = 0 => pc'[x] = pc[x]
    <2>1. CASE pc' = pc
      BY <1>0, <2>1 DEF WorkTyped, Open
    <2>2. ASSUME NEW n \in Pcs, NEW c \in Connection, pc' = [pc EXCEPT ![n] = c],
                 pc[n].at # 0, c.at = pc[n].at, c.to = pc[n].to,
                 c.sig \notin {"unmade", "closed"} => Open(n)
          PROVE  /\ pc' \in [Pcs -> Connection]
                 /\ \A x \in Pcs :
                       /\ pc'[x].at = pc[x].at /\ pc'[x].to = pc[x].to
                       /\ Open(x)' => Open(x)
                       /\ pc[x].at = 0 => pc'[x] = pc[x]
      BY <1>0, <2>2, ChangedInPlace
    <2>3. QED
      BY <2>1, <2>2
  <1>4. WorkTyped'
    BY <1>0, <1>2, <1>3 DEF WorkTyped
  <1>5. LinksFit' /\ PcsFit' /\ ChainsKnown' /\ OpenKnown'
    BY <1>2, <1>3, Worked
  <1>6. QED
    BY <1>1, <1>4, <1>5, SoundAgain

LEMMA AcceptAnswerKeeps ==
    ASSUME Sound, NEW m \in Meshes, NEW p \in Devices, AcceptAnswer(m, p)
    PROVE  Sound'
  <1> DEFINE n == peers[m][p]
             c == [TakeIn(pc[n], First(m, p).pc, ice[m][p]) EXCEPT !.sig = "stable"]
  <1>0. WorkTyped /\ LinksFit /\ PcsFit
    BY DEF Sound
  <1>1. /\ chain[m][p] # <<>> /\ First(m, p).type = "rtc.answer" /\ Done(m, p)
        /\ UNCHANGED <<page, peers, starting, pcs, hub, blurred, faults>>
        /\ \/ /\ n # 0 /\ AnswerApplies(pc[n])
              /\ pc' = [pc EXCEPT ![n] = c] /\ ice' = [ice EXCEPT ![m][p] = {}]
           \/ UNCHANGED <<ice, pc>>
    BY DEF AcceptAnswer, Todo
  <1>2. CASE /\ n # 0 /\ AnswerApplies(pc[n])
             /\ pc' = [pc EXCEPT ![n] = c] /\ ice' = [ice EXCEPT ![m][p] = {}]
    <2>1. n \in Pcs /\ pc[n].at = m /\ m # 0 /\ pc[n] \in Connection
      BY <1>0, <1>2, PeerIs DEF Meshes, WorkTyped
    <2>2. Open(n)
      BY <1>2 DEF AnswerApplies, Open
    <2>3. First(m, p).pc \in 0..MaxPcs /\ ice[m][p] \in SUBSET Pcs
      <3>1. "rtc.answer" \in Signals
        BY DEF Signals
      <3>2. First(m, p).pc \in Pcs
        BY <1>0, <1>1, <3>1, FirstIs
      <3>3. QED
        BY <1>0, <3>2, MeshAssumption DEF Pcs, WorkTyped
    <2>4. c \in Connection /\ c.at = pc[n].at /\ c.to = pc[n].to
      BY <2>1, <2>3, Takes
    <2>5. ice' \in [Meshes -> [Devices -> SUBSET Pcs]]
      <3>1. {} \in SUBSET Pcs
        OBVIOUS
      <3>2. QED
        BY <1>0, <1>2, <3>1, Emptied
    <2> HIDE DEF c, n
    <2>6. QED
      BY <1>1, <1>2, <2>1, <2>2, <2>4, <2>5, EndsAtOnce
  <1>3. CASE UNCHANGED <<ice, pc>>
    <2>1. ice' \in [Meshes -> [Devices -> SUBSET Pcs]]
      BY <1>0, <1>3 DEF WorkTyped
    <2>2. QED
      BY <1>1, <1>3, <2>1, EndsAtOnce
  <1>4. QED
    BY <1>1, <1>2, <1>3

LEMMA ApplyIceKeeps ==
    ASSUME Sound, NEW m \in Meshes, NEW p \in Devices, ApplyIce(m, p)
    PROVE  Sound'
  <1> DEFINE n == peers[m][p]
             k == First(m, p).pc
             c == TakeIn(pc[n], pc[n].remote, {k})
  <1>0. WorkTyped /\ LinksFit /\ PcsFit
    BY DEF Sound
  <1>1. /\ chain[m][p] # <<>> /\ First(m, p).type = "rtc.ice" /\ Done(m, p)
        /\ UNCHANGED <<page, peers, starting, pcs, hub, blurred, faults>>
        /\ \/ ice' = [ice EXCEPT ![m][p] = Buffered(ice[m][p], k)] /\ UNCHANGED pc
           \/ n # 0 /\ pc' = [pc EXCEPT ![n] = c] /\ UNCHANGED ice
    BY DEF ApplyIce, Todo
  <1>2. k \in Pcs /\ ice[m][p] \in SUBSET Pcs
    <2>1. "rtc.ice" \in Signals
      BY DEF Signals
    <2>2. QED
      BY <1>0, <1>1, <2>1, FirstIs DEF WorkTyped
  <1>3. CASE ice' = [ice EXCEPT ![m][p] = Buffered(ice[m][p], k)] /\ UNCHANGED pc
    <2>1. Buffered(ice[m][p], k) \in SUBSET Pcs
      BY <1>2 DEF Buffered
    <2>2. ice' \in [Meshes -> [Devices -> SUBSET Pcs]]
      BY <1>0, <1>3, <2>1, Emptied
    <2>3. QED
      BY <1>1, <1>3, <2>2, EndsAtOnce
  <1>4. CASE n # 0 /\ pc' = [pc EXCEPT ![n] = c] /\ UNCHANGED ice
    <2>1. n \in Pcs /\ pc[n].at = m /\ m # 0 /\ pc[n] \in Connection
      BY <1>0, <1>4, PeerIs DEF Meshes, WorkTyped
    <2>2. pc[n].remote \in 0..MaxPcs
      BY <2>1 DEF Connection
    <2>3. /\ c \in Connection /\ c.at = pc[n].at /\ c.to = pc[n].to
          /\ c.sig = pc[n].sig
      <3>1. {k} \in SUBSET Pcs
        BY <1>2
      <3>2. QED
        BY <2>1, <2>2, <3>1, Takes
    <2>4. c.sig \notin {"unmade", "closed"} => Open(n)
      BY <2>3 DEF Open
    <2>5. ice' \in [Meshes -> [Devices -> SUBSET Pcs]]
      BY <1>0, <1>4 DEF WorkTyped
    <2> HIDE DEF c, n
    <2>6. QED
      BY <1>1, <1>4, <2>1, <2>3, <2>4, <2>5, EndsAtOnce
  <1>5. QED
    BY <1>1, <1>3, <1>4

\* A connection finds a candidate of its own and signals it.
LEMMA TrickleKeeps ==
    ASSUME Sound, NEW n \in Pcs, Trickle(n)
    PROVE  Sound'
  <1> DEFINE d == self[pc[n].at]
             x == Rtc("rtc.ice", d, pc[n].to, n)
             c == [pc[n] EXCEPT !.trickled = TRUE]
  <1>0. WorkTyped /\ LinksFit /\ PcsFit /\ RoomFits /\ PagesFit
    BY DEF Sound
  <1>1. /\ pc[n].sig \in {"have-local-offer", "stable"} /\ Signal(d, x)
        /\ pc' = [pc EXCEPT ![n].trickled = TRUE]
        /\ UNCHANGED <<page, work, pcs, blurred, faults>>
    BY DEF Trickle
  <1>2. Open(n) /\ pc[n].at # 0 /\ pc[n] \in Connection
    BY <1>0, <1>1 DEF Open, PcsFit, WorkTyped
  <1>3. d \in Devices /\ pc[n].to \in Devices /\ pc[n].to # d
    BY <1>0, <1>2, MadeOnly DEF PagesFit
  <1>4. x \in [type : Signals, from : Devices, to : Devices, pc : Pcs] /\ x.from # x.to
    BY <1>3 DEF Rtc, Signals
  <1>5. pc' = [pc EXCEPT ![n] = c]
    BY <1>1
  <1>6. c \in Connection /\ c.at = pc[n].at /\ c.to = pc[n].to
    BY <1>2 DEF Connection
  <1> HIDE DEF c, x, d
  <1>7. RoomFits' /\ room' = room /\ cut' = cut
    BY <1>0, <1>1, <1>3, <1>4, Signalled
  <1>8. /\ pc' \in [Pcs -> Connection]
        /\ \A y \in Pcs :
              /\ pc'[y].at = pc[y].at /\ pc'[y].to = pc[y].to
              /\ Open(y)' => Open(y)
              /\ pc[y].at = 0 => pc'[y] = pc[y]
    BY <1>0, <1>2, <1>5, <1>6, ChangedInPlace
  <1>9. peers' = peers /\ chain' = chain /\ doing' = doing /\ starting' = starting /\ ice' = ice
    BY <1>1 DEF work
  <1>10. WorkTyped'
    BY <1>0, <1>1, <1>8, <1>9 DEF WorkTyped
  <1>11. \A y \in Meshes, z \in Devices : doing[y][z] # 0 => chain[y][z] # <<>>
    BY <1>0 DEF LinksFit
  <1>12. LinksFit' /\ PcsFit' /\ ChainsKnown' /\ OpenKnown'
    BY <1>1, <1>8, <1>9, <1>11, Worked
  <1>13. QED
    BY <1>1, <1>7, <1>10, <1>12, SoundAgain

LEMMA OperateKeeps ==
    ASSUME Sound, NEW m \in Meshes, NEW p \in Devices, Operate(m, p)
    PROVE  Sound'
  BY OfferKeeps, OfferSentKeeps, AcceptOfferKeeps, AnswerSentKeeps, AcceptAnswerKeeps,
     ApplyIceKeeps DEF Operate

-----------------------------------------------------------------------------
(* The page and its socket.                                                *)

LEMMA ConnectKeeps ==
    ASSUME Sound, NEW d \in Devices, NEW s \in Sockets, Connect(d, s)
    PROVE  Sound'
  <1>0. RoomFits /\ PagesFit /\ Numbered
    BY DEF Sound
  <1>1. /\ AcceptSocket(s, d) /\ socket' = [socket EXCEPT ![d] = s]
        /\ UNCHANGED <<listening, mesh, self, leaves, work, conn, faults>>
        /\ blurred' \in BOOLEAN /\ (~blurred' => ~blurred)
    BY DEF Connect
  <1>2. /\ RoomFits' /\ room[s] = Absent /\ room'[s] = d /\ cut' = cut
        /\ \A x \in Sockets \ {s} : room'[x] = room[x]
    BY <1>0, <1>1, Accepts
  <1>3. s \notin cut
    BY <1>0, <1>2 DEF RoomFits, InRoom
  <1>4. /\ socket' \in [Devices -> Sockets \cup {NoSocket}] /\ socket'[d] = s
        /\ \A e \in Devices \ {d} : socket'[e] = socket[e]
    BY <1>0, <1>1 DEF PagesFit
  <1>5. ASSUME NEW e \in Devices, socket'[e] # NoSocket
        PROVE  room'[socket'[e]] = e /\ socket'[e] \notin cut'
    <2>1. CASE e = d
      BY <1>2, <1>3, <1>4, <2>1
    <2>2. CASE e # d
      <3>1. /\ socket[e] = socket'[e] /\ socket[e] \in Sockets
            /\ room[socket[e]] = e /\ socket[e] \notin cut
        BY <1>0, <1>4, <1>5, <2>2 DEF PagesFit
      <3>2. socket[e] # s
        BY <1>2, <3>1, RoomAssumption
      <3>3. QED
        BY <1>2, <3>1, <3>2
    <2>3. QED
      BY <2>1, <2>2
  <1>6. PagesFit' /\ Numbered'
    BY <1>0, <1>1, <1>4, <1>5 DEF PagesFit, Numbered
  <1>7. QED
    BY <1>1, <1>2, <1>6, Idle DEF Sound

LEMMA ServerClosedKeeps ==
    ASSUME Sound, NEW s \in Sockets, ServerClosed(s)
    PROVE  Sound'
  <1>0. RoomFits /\ PagesFit /\ Numbered
    BY DEF Sound
  <1>1. /\ s \in cut /\ CloseSocket(s) /\ cut' = cut \ {s}
        /\ UNCHANGED <<page, work, conn, blurred, faults>>
    BY DEF ServerClosed
  <1>2. RoomFits' /\ \A x \in Sockets \ {s} : room'[x] = room[x]
    BY <1>0, <1>1, Closes
  <1>3. UNCHANGED <<socket, listening, mesh, self, leaves>>
    BY <1>1 DEF page
  <1>4. \A e \in Devices : socket[e] # NoSocket =>
           room'[socket[e]] = e /\ socket[e] \notin cut'
    BY <1>0, <1>1, <1>2 DEF PagesFit
  <1>5. PagesFit' /\ Numbered'
    BY <1>0, <1>1, <1>3, <1>4 DEF PagesFit, Numbered
  <1>6. QED
    BY <1>1, <1>2, <1>3, <1>5, Idle DEF Sound

\* Of what is closed only the place is kept.
LEMMA ClosedIs ==
    ASSUME WorkTyped, NEW S, pc' = Closed(S), \A n \in Pcs : n \in S => pc[n].at # 0
    PROVE  /\ pc' \in [Pcs -> Connection]
           /\ \A n \in Pcs :
                 /\ pc'[n].at = pc[n].at /\ pc'[n].to = pc[n].to
                 /\ Open(n)' => Open(n) /\ n \notin S
                 /\ pc[n].at = 0 => pc'[n] = pc[n]
  <1>1. ASSUME NEW n \in Pcs
        PROVE  /\ pc'[n] \in Connection
               /\ pc'[n].at = pc[n].at /\ pc'[n].to = pc[n].to
               /\ Open(n)' => Open(n) /\ n \notin S
               /\ pc[n].at = 0 => pc'[n] = pc[n]
    <2> DEFINE c == [Unmade EXCEPT !.sig = "closed", !.at = pc[n].at, !.to = pc[n].to]
    <2>1. pc[n] \in Connection /\ pc'[n] = IF n \in S THEN c ELSE pc[n]
      BY DEF WorkTyped, Closed
    <2>2. c \in Connection /\ c.at = pc[n].at /\ c.to = pc[n].to /\ c.sig = "closed"
      BY <2>1, UnmadeTyped DEF Connection
    <2> HIDE DEF c
    <2>3. QED
      BY <2>1, <2>2 DEF Open
  <1>2. pc' = [n \in Pcs |-> pc'[n]]
    BY DEF Closed
  <1>3. QED
    BY <1>1, <1>2

LEMMA LosePages ==
    ASSUME Sound, NEW d \in Devices, Lose(d)
    PROVE  RoomFits' /\ PagesFit' /\ Numbered'
  <1>0. RoomFits /\ PagesFit /\ Numbered
    BY DEF Sound
  <1>1. /\ socket[d] # NoSocket /\ faults < MaxFaults /\ faults' = faults + 1
        /\ cut' = cut \cup {socket[d]} /\ down' = [down EXCEPT ![socket[d]] = <<>>]
        /\ socket' = [socket EXCEPT ![d] = NoSocket]
        /\ \/ mesh' = mesh /\ listening' = listening
           \/ mesh' = [mesh EXCEPT ![d] = 0] /\ listening' = listening \ {d}
        /\ UNCHANGED <<room, self, leaves, blurred>>
    BY DEF Lose
  <1>2. socket[d] \in Sockets /\ room[socket[d]] = d
    BY <1>0, <1>1 DEF PagesFit
  <1>3. cut' \subseteq InRoom
    BY <1>0, <1>1, <1>2, RoomAssumption DEF RoomFits, InRoom
  <1>4. RoomFits'
    BY <1>0, <1>1, <1>2, <1>3, Empties
  <1>5. /\ socket' \in [Devices -> Sockets \cup {NoSocket}] /\ socket'[d] = NoSocket
        /\ \A e \in Devices \ {d} : socket'[e] = socket[e]
    BY <1>0, <1>1 DEF PagesFit
  <1>6. ASSUME NEW e \in Devices, socket'[e] # NoSocket
        PROVE  room'[socket'[e]] = e /\ socket'[e] \notin cut'
    <2>1. e # d /\ socket'[e] = socket[e]
      BY <1>5, <1>6
    <2>2. room[socket[e]] = e /\ socket[e] \notin cut
      BY <1>0, <1>6, <2>1 DEF PagesFit
    <2>3. socket[e] # socket[d]
      BY <1>2, <2>1, <2>2
    <2>4. QED
      BY <1>1, <2>1, <2>2, <2>3
  <1>7. mesh' \in [Devices -> 0..MaxMeshes]
    <2>1. 0 \in 0..MaxMeshes
      BY MeshAssumption
    <2>2. QED
      BY <1>0, <1>1, <2>1 DEF PagesFit
  <1>8. /\ listening' \subseteq Devices
        /\ \A e \in Devices : mesh'[e] # 0 => self'[mesh'[e]] = e /\ e \in listening'
    BY <1>0, <1>1 DEF PagesFit
  <1>9. faults' \in 0..MaxFaults
    BY <1>0, <1>1, MeshAssumption DEF PagesFit
  <1>10. PagesFit'
    BY <1>0, <1>1, <1>5, <1>6, <1>7, <1>8, <1>9 DEF PagesFit
  <1>11. QED
    BY <1>0, <1>1, <1>4, <1>10 DEF Numbered

\* A reload ends all that the page's meshes did.
LEMMA ReloadKeeps ==
    ASSUME Sound, NEW d \in Devices,
           mesh' = [mesh EXCEPT ![d] = 0],
           pc' = Closed({n \in Pcs : pc[n].at # 0 /\ self[pc[n].at] = d}),
           chain' = [m \in Meshes |-> IF self[m] = d THEN [p \in Devices |-> <<>>] ELSE chain[m]],
           doing' = [m \in Meshes |-> IF self[m] = d THEN [p \in Devices |-> 0] ELSE doing[m]],
           peers' = [m \in Meshes |-> IF self[m] = d THEN [p \in Devices |-> 0] ELSE peers[m]],
           UNCHANGED <<starting, ice, pcs, self, blurred>>
    PROVE  WorkTyped' /\ LinksFit' /\ PcsFit' /\ ChainsKnown' /\ OpenKnown'
  <1> DEFINE S == {n \in Pcs : pc[n].at # 0 /\ self[pc[n].at] = d}
  <1>0. WorkTyped /\ LinksFit /\ PcsFit /\ ChainsKnown /\ OpenKnown /\ PagesFit
    BY DEF Sound
  <1>1. /\ pc' \in [Pcs -> Connection]
        /\ \A n \in Pcs :
              /\ pc'[n].at = pc[n].at /\ pc'[n].to = pc[n].to
              /\ Open(n)' => Open(n) /\ n \notin S
              /\ pc[n].at = 0 => pc'[n] = pc[n]
    BY <1>0, ClosedIs
  <1>2. <<>> \in Seq(Tasks) /\ 0 \in 0..MaxPcs
    BY MeshAssumption
  <1>3. /\ chain' \in [Meshes -> [Devices -> Seq(Tasks)]]
        /\ \A m \in Meshes : self[m] = d => \A p \in Devices : chain'[m][p] = <<>>
        /\ \A m \in Meshes : self[m] # d => chain'[m] = chain[m]
    BY <1>0, <1>2, RowsSet DEF WorkTyped
  <1>4. /\ doing' \in [Meshes -> [Devices -> 0..MaxPcs]]
        /\ \A m \in Meshes : self[m] = d => \A p \in Devices : doing'[m][p] = 0
        /\ \A m \in Meshes : self[m] # d => doing'[m] = doing[m]
    BY <1>0, <1>2, RowsSet DEF WorkTyped
  <1>5. /\ peers' \in [Meshes -> [Devices -> 0..MaxPcs]]
        /\ \A m \in Meshes : self[m] = d => \A p \in Devices : peers'[m][p] = 0
        /\ \A m \in Meshes : self[m] # d => peers'[m] = peers[m]
    BY <1>0, <1>2, RowsSet DEF WorkTyped
  <1>6. WorkTyped'
    BY <1>0, <1>1, <1>3, <1>4, <1>5 DEF WorkTyped
  <1>7. ASSUME NEW x \in Meshes, NEW y \in Devices
        PROVE  /\ peers'[x][y] # 0 => peers'[x][y] = peers[x][y]
               /\ chain'[x][y] # <<>> => self'[x] # Absent /\ y # self'[x]
               /\ doing'[x][y] # 0 =>
                     /\ chain'[x][y] # <<>>
                     /\ doing'[x][y] = doing[x][y] \/ doing'[x][y] = peers[x][y]
    <2>1. CASE self[x] = d
      BY <1>3, <1>4, <1>5, <2>1
    <2>2. CASE self[x] # d
      BY <1>0, <1>3, <1>4, <1>5, <2>2 DEF LinksFit
    <2>3. QED
      BY <2>1, <2>2
  <1>8. LinksFit' /\ PcsFit'
    BY <1>0, <1>1, <1>7, FitsStill
  <1>9. \A e \in Devices \ {d} : mesh'[e] = mesh[e]
    BY <1>0 DEF PagesFit
  <1>10. \A x \in Meshes : self[x] # Absent => self[x] \in Devices
    BY <1>0 DEF PagesFit
  <1>11. ChainsKnown'
    <2> SUFFICES ASSUME ~blurred', NEW x \in Meshes, NEW y \in Devices, chain'[x][y] # <<>>
                 PROVE  mesh'[self'[x]] = x
      BY DEF ChainsKnown
    <2>1. self[x] # d /\ chain[x][y] # <<>>
      BY <1>3
    <2>2. mesh[self[x]] = x /\ self[x] \in Devices
      BY <1>0, <1>10, <2>1 DEF ChainsKnown, LinksFit
    <2>3. QED
      BY <1>9, <2>1, <2>2
  <1>12. OpenKnown'
    <2> SUFFICES ASSUME ~blurred', NEW n \in Pcs, Open(n)'
                 PROVE  /\ mesh'[self'[pc'[n].at]] = pc'[n].at
                        /\ peers'[pc'[n].at][pc'[n].to] = n
      BY DEF OpenKnown
    <2>1. Open(n) /\ n \notin S
      BY <1>1
    <2>2. pc[n].at # 0 /\ self[pc[n].at] # d
      BY <1>0, <2>1 DEF PcsFit
    <2>3. pc[n].at \in Meshes /\ self[pc[n].at] \in Devices
      BY <1>0, <1>10, <2>2, MadeOnly
    <2>4. mesh[self[pc[n].at]] = pc[n].at /\ peers[pc[n].at][pc[n].to] = n
      BY <1>0, <2>1 DEF OpenKnown
    <2>5. pc'[n].at = pc[n].at /\ pc'[n].to = pc[n].to /\ self' = self
      BY <1>1
    <2>6. peers'[pc[n].at] = peers[pc[n].at] /\ mesh'[self[pc[n].at]] = mesh[self[pc[n].at]]
      BY <1>5, <1>9, <2>2, <2>3
    <2>7. QED
      BY <2>4, <2>5, <2>6
  <1>13. QED
    BY <1>6, <1>8, <1>11, <1>12

LEMMA LoseKeeps ==
    ASSUME Sound, NEW d \in Devices, Lose(d)
    PROVE  Sound'
  <1>1. \/ UNCHANGED <<mesh, work, conn>>
        \/ /\ mesh' = [mesh EXCEPT ![d] = 0]
           /\ pc' = Closed({n \in Pcs : pc[n].at # 0 /\ self[pc[n].at] = d})
           /\ chain' = [m \in Meshes |->
                           IF self[m] = d THEN [p \in Devices |-> <<>>] ELSE chain[m]]
           /\ doing' = [m \in Meshes |->
                           IF self[m] = d THEN [p \in Devices |-> 0] ELSE doing[m]]
           /\ peers' = [m \in Meshes |->
                           IF self[m] = d THEN [p \in Devices |-> 0] ELSE peers[m]]
           /\ UNCHANGED <<starting, ice, pcs>>
    BY DEF Lose
  <1>2. self' = self /\ blurred' = blurred
    BY DEF Lose
  <1>3. WorkTyped' /\ LinksFit' /\ PcsFit' /\ ChainsKnown' /\ OpenKnown'
    BY <1>1, <1>2, Idle, ReloadKeeps
  <1>4. QED
    BY <1>3, LosePages DEF Sound

-----------------------------------------------------------------------------
(* What arrives.                                                           *)

\* The mesh of a page is one that its device made.
LEMMA MeshIs ==
    ASSUME PagesFit, NEW d \in Devices, mesh[d] # 0
    PROVE  mesh[d] \in Meshes /\ self[mesh[d]] = d
  <1>1. mesh[d] \in 0..MaxMeshes
    BY DEF PagesFit
  <1>2. QED
    BY <1>1, MeshAssumption DEF PagesFit, Meshes

LEMMA SignalQueued ==
    ASSUME Sound, NEW d \in Devices, mesh[d] # 0,
           NEW x \in [type : Signals, from : Devices, to : Devices, pc : Pcs], x.from # d,
           OnSignal(d, x)
    PROVE  /\ WorkTyped' /\ LinksFit' /\ PcsFit' /\ ChainsKnown' /\ OpenKnown'
           /\ mesh' = mesh /\ self' = self /\ blurred' = blurred
  <1> DEFINE m == mesh[d]
             p == x.from
             q == Append(chain[m][p], x)
  <1>0. WorkTyped /\ LinksFit /\ PcsFit /\ ChainsKnown /\ OpenKnown /\ PagesFit
    BY DEF Sound
  <1>1. /\ chain' = [chain EXCEPT ![m][p] = q]
        /\ mesh' = mesh /\ self' = self /\ peers' = peers /\ starting' = starting
        /\ doing' = doing /\ ice' = ice /\ pc' = pc /\ pcs' = pcs /\ blurred' = blurred
    BY DEF OnSignal, conn
  <1>2. m \in Meshes /\ self[m] = d /\ p \in Devices /\ p # d
    BY <1>0, MeshIs
  <1>3. q \in Seq(Tasks) /\ q # <<>>
    <2>1. chain[m][p] \in Seq(Tasks)
      BY <1>0, <1>2 DEF WorkTyped
    <2>2. x \in Tasks
      BY DEF Tasks
    <2>3. QED
      BY <2>1, <2>2
  <1> HIDE DEF q, p, m
  <1>4. /\ chain' \in [Meshes -> [Devices -> Seq(Tasks)]] /\ chain'[m][p] = q
        /\ \A y \in Meshes, z \in Devices : y # m \/ z # p => chain'[y][z] = chain[y][z]
    BY <1>0, <1>1, <1>2, <1>3, CellSet DEF WorkTyped
  <1>5. WorkTyped'
    BY <1>0, <1>1, <1>4 DEF WorkTyped
  <1>6. ASSUME NEW y \in Meshes, NEW z \in Devices
        PROVE  /\ chain'[y][z] # <<>> => self'[y] # Absent /\ z # self'[y]
               /\ doing'[y][z] # 0 => chain'[y][z] # <<>>
    <2>1. CASE y = m /\ z = p
      BY <1>1, <1>2, <1>3, <1>4, <2>1, RoomAssumption
    <2>2. CASE y # m \/ z # p
      BY <1>0, <1>1, <1>4, <2>2 DEF LinksFit
    <2>3. QED
      BY <2>1, <2>2
  <1>7. \A n \in Pcs : Open(n)' => Open(n)
    BY <1>1 DEF Open
  <1>8. LinksFit' /\ PcsFit'
    BY <1>0, <1>1, <1>6, <1>7, FitsStill
  <1>9. ChainsKnown'
    <2> SUFFICES ASSUME ~blurred', NEW y \in Meshes, NEW z \in Devices, chain'[y][z] # <<>>
                 PROVE  mesh'[self'[y]] = y
      BY DEF ChainsKnown
    <2>1. CASE y = m
      BY <1>1, <1>2, <2>1 DEF m
    <2>2. CASE y # m
      BY <1>0, <1>1, <1>4, <2>2 DEF ChainsKnown
    <2>3. QED
      BY <2>1, <2>2
  <1>10. OpenKnown'
    BY <1>0, <1>1 DEF OpenKnown, Open
  <1>11. QED
    BY <1>1, <1>5, <1>8, <1>9, <1>10

LEMMA PresenceTold ==
    ASSUME Sound, NEW d \in Devices, mesh[d] # 0, NEW D \in SUBSET Devices,
           OnPresence(d, D)
    PROVE  /\ WorkTyped' /\ LinksFit' /\ PcsFit' /\ ChainsKnown' /\ OpenKnown'
           /\ mesh' = mesh /\ self' = self /\ blurred' \in BOOLEAN
  <1> DEFINE m == mesh[d]
             fresh == {p \in D \ {d} : peers[m][p] = 0 /\ p \notin starting[m] /\ Offers(d, p)}
             gone  == PeersOf(m) \ D
             S     == {peers[m][p] : p \in gone}
             row   == [p \in Devices |-> IF p \in fresh
                                          THEN Append(chain[m][p], Rtc("offer", d, p, 0))
                                          ELSE chain[m][p]]
             left  == [p \in Devices |-> IF p \in gone THEN 0 ELSE peers[m][p]]
             kept  == [p \in Devices |-> IF p \in gone THEN {} ELSE ice[m][p]]
  <1>0. WorkTyped /\ LinksFit /\ PcsFit /\ ChainsKnown /\ OpenKnown /\ PagesFit
    BY DEF Sound
  <1>1. /\ starting' = [starting EXCEPT ![m] = (starting[m] \cup fresh) \ gone]
        /\ chain' = [chain EXCEPT ![m] = row]
        /\ ice' = [ice EXCEPT ![m] = kept]
        /\ pc' = Closed(S)
        /\ peers' = [peers EXCEPT ![m] = left]
        /\ mesh' = mesh /\ self' = self /\ doing' = doing /\ pcs' = pcs
        /\ blurred' \in BOOLEAN /\ (~blurred' => ~blurred)
    BY DEF OnPresence
  <1>2. m \in Meshes /\ self[m] = d
    BY <1>0, MeshIs
  <1>3. /\ peers[m] \in [Devices -> 0..MaxPcs] /\ starting[m] \in SUBSET Devices
        /\ chain[m] \in [Devices -> Seq(Tasks)] /\ ice[m] \in [Devices -> SUBSET Pcs]
    BY <1>0, <1>2 DEF WorkTyped
  <1>4. fresh \subseteq Devices \ {d} /\ gone \subseteq Devices
        /\ \A p \in gone : peers[m][p] # 0
    BY DEF PeersOf
  <1>5. left \in [Devices -> 0..MaxPcs] /\ kept \in [Devices -> SUBSET Pcs]
    BY <1>3, MeshAssumption
  <1>6. /\ row \in [Devices -> Seq(Tasks)]
        /\ \A p \in Devices : row[p] # <<>> => chain[m][p] # <<>> \/ p # d
        /\ \A p \in Devices : chain[m][p] # <<>> => row[p] # <<>>
    <2>1. ASSUME NEW p \in Devices
          PROVE  /\ row[p] \in Seq(Tasks)
                 /\ row[p] # <<>> => chain[m][p] # <<>> \/ p # d
                 /\ chain[m][p] # <<>> => row[p] # <<>>
      <3>1. Rtc("offer", d, p, 0) \in Tasks /\ chain[m][p] \in Seq(Tasks)
        BY <1>3 DEF Rtc, Tasks
      <3>2. /\ Append(chain[m][p], Rtc("offer", d, p, 0)) \in Seq(Tasks)
            /\ Append(chain[m][p], Rtc("offer", d, p, 0)) # <<>>
        BY <3>1
      <3>3. QED
        BY <1>4, <3>1, <3>2
    <2>2. QED
      BY <2>1
  <1>7. \A n \in Pcs : n \in S => pc[n].at # 0
    <2>1. SUFFICES ASSUME NEW p \in gone PROVE pc[peers[m][p]].at # 0
      OBVIOUS
    <2>2. pc[peers[m][p]].at = m /\ m # 0
      BY <1>0, <1>2, <1>4, PeerIs DEF Meshes
    <2>3. QED
      BY <2>2
  <1>8. (starting[m] \cup fresh) \ gone \in SUBSET Devices
    BY <1>3, <1>4
  <1> HIDE DEF row, left, kept, fresh
  <1>9. starting' \in [Meshes -> SUBSET Devices]
    BY <1>0, <1>1, <1>8 DEF WorkTyped
  <1>10. /\ chain' \in [Meshes -> [Devices -> Seq(Tasks)]] /\ chain'[m] = row
         /\ \A x \in Meshes \ {m} : chain'[x] = chain[x]
    BY <1>0, <1>1, <1>2, <1>6, RowSet DEF WorkTyped
  <1>11. ice' \in [Meshes -> [Devices -> SUBSET Pcs]]
    BY <1>0, <1>1, <1>2, <1>5, RowSet DEF WorkTyped
  <1>12. /\ peers' \in [Meshes -> [Devices -> 0..MaxPcs]] /\ peers'[m] = left
         /\ \A x \in Meshes \ {m} : peers'[x] = peers[x]
    BY <1>0, <1>1, <1>2, <1>5, RowSet DEF WorkTyped
  <1>13. /\ pc' \in [Pcs -> Connection]
         /\ \A n \in Pcs :
               /\ pc'[n].at = pc[n].at /\ pc'[n].to = pc[n].to
               /\ Open(n)' => Open(n) /\ n \notin S
               /\ pc[n].at = 0 => pc'[n] = pc[n]
    BY <1>0, <1>1, <1>7, ClosedIs
  <1>14. WorkTyped'
    BY <1>0, <1>1, <1>9, <1>10, <1>11, <1>12, <1>13 DEF WorkTyped
  <1>15. \A p \in Devices : left[p] = IF p \in gone THEN 0 ELSE peers[m][p]
    BY DEF left
  <1>16. ASSUME NEW x \in Meshes, NEW y \in Devices
         PROVE  /\ peers'[x][y] # 0 => peers'[x][y] = peers[x][y]
                /\ chain'[x][y] # <<>> => self'[x] # Absent /\ y # self'[x]
                /\ doing'[x][y] # 0 => chain'[x][y] # <<>>
    <2>1. CASE x = m
      <3>1. peers'[x][y] # 0 => peers'[x][y] = peers[x][y]
        BY <1>12, <1>15, <2>1
      <3>2. chain'[x][y] # <<>> => self'[x] # Absent /\ y # self'[x]
        BY <1>0, <1>1, <1>2, <1>6, <1>10, <2>1, RoomAssumption DEF LinksFit
      <3>3. doing'[x][y] # 0 => chain'[x][y] # <<>>
        BY <1>0, <1>1, <1>6, <1>10, <2>1 DEF LinksFit
      <3>4. QED
        BY <3>1, <3>2, <3>3
    <2>2. CASE x # m
      BY <1>0, <1>1, <1>10, <1>12, <2>2 DEF LinksFit
    <2>3. QED
      BY <2>1, <2>2
  <1>17. LinksFit' /\ PcsFit'
    BY <1>0, <1>1, <1>13, <1>16, FitsStill
  <1>18. ChainsKnown'
    <2> SUFFICES ASSUME ~blurred', NEW x \in Meshes, NEW y \in Devices, chain'[x][y] # <<>>
                 PROVE  mesh'[self'[x]] = x
      BY DEF ChainsKnown
    <2>1. CASE x = m
      BY <1>1, <1>2, <2>1
    <2>2. CASE x # m
      BY <1>0, <1>1, <1>10, <2>2 DEF ChainsKnown
    <2>3. QED
      BY <2>1, <2>2
  <1>19. OpenKnown'
    <2> SUFFICES ASSUME ~blurred', NEW n \in Pcs, Open(n)'
                 PROVE  /\ mesh'[self'[pc'[n].at]] = pc'[n].at
                        /\ peers'[pc'[n].at][pc'[n].to] = n
      BY DEF OpenKnown
    <2>1. /\ Open(n) /\ n \notin S /\ pc'[n].at = pc[n].at /\ pc'[n].to = pc[n].to
      BY <1>13
    <2>2. mesh[self[pc[n].at]] = pc[n].at /\ peers[pc[n].at][pc[n].to] = n
      BY <1>0, <1>1, <2>1 DEF OpenKnown
    <2>3. pc[n].at \in Meshes /\ pc[n].to \in Devices
      BY <1>0, <2>1, MadeOnly DEF PcsFit
    <2>4. peers'[pc[n].at][pc[n].to] = n
      <3>1. CASE pc[n].at = m
        <4>1. pc[n].to \notin gone
          BY <2>1, <2>2, <3>1
        <4>2. QED
          BY <1>12, <1>15, <2>2, <2>3, <3>1, <4>1
      <3>2. CASE pc[n].at # m
        BY <1>12, <2>2, <2>3, <3>2
      <3>3. QED
        BY <3>1, <3>2
    <2>5. QED
      BY <1>1, <2>1, <2>2, <2>4
  <1>20. QED
    BY <1>1, <1>14, <1>17, <1>18, <1>19

\* The next mesh is a new one, and the meshes are numbered still.
LEMMA NextMesh ==
    ASSUME PagesFit, Numbered, NEW d \in Devices, NEW new,
           new = 1 + Cardinality({m \in Meshes : self[m] # Absent}), new \in Meshes,
           self' = [self EXCEPT ![new] = d]
    PROVE  self[new] = Absent /\ Numbered'
  <1> DEFINE made == {m \in Meshes : self[m] # Absent}
  <1>1. PICK k \in 0..MaxMeshes : \A m \in Meshes : self[m] # Absent <=> m <= k
    BY DEF Numbered
  <1>2. k \in Nat /\ MaxMeshes \in Nat /\ k <= MaxMeshes
    BY <1>1, MeshAssumption
  <1>3. made = 1..k
    BY <1>1, <1>2 DEF Meshes
  <1>4. Cardinality(1..k) = k
    BY <1>2, FS_Interval
  <1>5. new = k + 1
    BY <1>2, <1>3, <1>4
  <1>6. new <= MaxMeshes /\ new \in 0..MaxMeshes
    BY <1>2, <1>5 DEF Meshes
  <1>7. self[new] = Absent
    BY <1>1, <1>2, <1>5
  <1>8. self'[new] # Absent /\ \A m \in Meshes \ {new} : self'[m] = self[m]
    BY RoomAssumption DEF PagesFit
  <1> HIDE DEF made
  <1>9. \A m \in Meshes : self'[m] # Absent <=> m <= new
    <2> SUFFICES ASSUME NEW m \in Meshes PROVE self'[m] # Absent <=> m <= new
      OBVIOUS
    <2>1. m \in Nat
      BY DEF Meshes
    <2>2. CASE m = new
      BY <1>5, <1>2, <1>8, <2>1, <2>2
    <2>3. CASE m # new
      <3>1. m <= new <=> m <= k
        BY <1>2, <1>5, <2>1, <2>3
      <3>2. QED
        BY <1>1, <1>8, <2>3, <3>1
    <2>4. QED
      BY <2>2, <2>3
  <1>10. QED
    BY <1>6, <1>7, <1>9 DEF Numbered

\* At hello the mesh before is closed, and there is a new one.
LEMMA HelloPages ==
    ASSUME PagesFit, NEW d \in Devices, d \in listening,
           NEW new \in Meshes, self[new] = Absent,
           self' = [self EXCEPT ![new] = d], mesh' = [mesh EXCEPT ![d] = new],
           blurred' \in BOOLEAN, UNCHANGED <<socket, listening, leaves, room, cut, faults>>
    PROVE  /\ PagesFit' /\ self'[new] = d /\ \A m \in Meshes \ {new} : self'[m] = self[m]
           /\ mesh'[d] = new /\ \A e \in Devices \ {d} : mesh'[e] = mesh[e]
  <1>1. /\ self' \in [Meshes -> Devices \cup {Absent}] /\ self'[new] = d
        /\ \A m \in Meshes \ {new} : self'[m] = self[m]
    BY DEF PagesFit
  <1>2. new \in 0..MaxMeshes
    BY MeshAssumption DEF Meshes
  <1>3. /\ mesh' \in [Devices -> 0..MaxMeshes] /\ mesh'[d] = new
        /\ \A e \in Devices \ {d} : mesh'[e] = mesh[e]
    BY <1>2 DEF PagesFit
  <1>4. ASSUME NEW e \in Devices, mesh'[e] # 0 PROVE self'[mesh'[e]] = e /\ e \in listening
    <2>1. CASE e = d
      BY <1>1, <1>3, <2>1
    <2>2. CASE e # d
      <3>1. /\ mesh'[e] = mesh[e] /\ mesh[e] \in Meshes /\ self[mesh[e]] = e
            /\ e \in listening
        BY <1>3, <1>4, <2>2, MeshIs DEF PagesFit
      <3>2. mesh[e] # new
        BY <3>1, RoomAssumption
      <3>3. QED
        BY <1>1, <3>1, <3>2
    <2>3. QED
      BY <2>1, <2>2
  <1>5. PagesFit'
    BY <1>1, <1>3, <1>4 DEF PagesFit
  <1>6. QED
    BY <1>1, <1>3, <1>5

\* The mesh of a page is closed, and is not the page's mesh any more.
LEMMA MeshClosed ==
    ASSUME Sound, NEW d \in Devices, CloseMesh(mesh[d]), UNCHANGED <<chain, doing, pcs>>,
           \A x \in Meshes : self[x] # Absent => self'[x] = self[x],
           \A e \in Devices \ {d} : mesh'[e] = mesh[e],
           ~blurred' => ~blurred /\ ~Busy(mesh[d])
    PROVE  WorkTyped' /\ LinksFit' /\ PcsFit' /\ ChainsKnown' /\ OpenKnown'
  <1> DEFINE old == mesh[d]
             S   == Ended(old)
  <1>0. /\ WorkTyped /\ LinksFit /\ PcsFit /\ ChainsKnown /\ OpenKnown
        /\ PagesFit /\ Numbered
    BY DEF Sound
  <1>1. chain' = chain /\ doing' = doing /\ pcs' = pcs
    OBVIOUS
  <1>2. \/ old = 0 /\ UNCHANGED <<peers, starting, ice, pc>>
        \/ /\ old # 0 /\ pc' = Closed(S)
           /\ peers' = [peers EXCEPT ![old] = [p \in Devices |-> 0]]
           /\ starting' = [starting EXCEPT ![old] = starting[old] \ PeersOf(old)]
           /\ ice' = [ice EXCEPT ![old] =
                         [p \in Devices |-> IF p \in PeersOf(old) THEN {} ELSE ice[old][p]]]
    BY DEF CloseMesh
  <1>3. ~blurred' => ~blurred /\ ~Busy(old)
    OBVIOUS
  <1>4. \A e \in Devices \ {d} : mesh'[e] = mesh[e]
    OBVIOUS
  <1>5. old # 0 => old \in Meshes /\ self[old] = d
    BY <1>0, MeshIs
  \* what the old mesh had is closed and forgotten
  <1>6. /\ pc' \in [Pcs -> Connection]
        /\ \A n \in Pcs :
              /\ pc'[n].at = pc[n].at /\ pc'[n].to = pc[n].to
              /\ Open(n)' => Open(n) /\ (old # 0 => n \notin S)
              /\ pc[n].at = 0 => pc'[n] = pc[n]
    <2>1. CASE old = 0
      BY <1>0, <1>2, <2>1 DEF WorkTyped, Open
    <2>2. CASE old # 0
      <3>1. \A n \in Pcs : n \in S => pc[n].at # 0
        <4>1. SUFFICES ASSUME NEW p \in PeersOf(old) PROVE pc[peers[old][p]].at # 0
          BY DEF Ended
        <4>2. p \in Devices /\ peers[old][p] # 0
          BY DEF PeersOf
        <4>3. pc[peers[old][p]].at = old
          BY <1>0, <1>5, <2>2, <4>2, PeerIs
        <4>4. QED
          BY <2>2, <4>3
      <3> HIDE DEF S
      <3>2. QED
        BY <1>0, <1>2, <2>2, <3>1, ClosedIs
    <2>3. QED
      BY <2>1, <2>2
  <1>7. /\ peers' \in [Meshes -> [Devices -> 0..MaxPcs]]
        /\ \A x \in Meshes : x # old => peers'[x] = peers[x]
        /\ \A y \in Devices : old # 0 => peers'[old][y] = 0
    <2>1. CASE old = 0
      BY <1>0, <1>2, <2>1 DEF WorkTyped
    <2>2. CASE old # 0
      <3> DEFINE none == [p \in Devices |-> 0]
      <3>1. none \in [Devices -> 0..MaxPcs] /\ \A y \in Devices : none[y] = 0
        BY MeshAssumption
      <3>2. peers' = [peers EXCEPT ![old] = none]
        BY <1>2, <2>2
      <3> HIDE DEF none
      <3>3. /\ peers' \in [Meshes -> [Devices -> 0..MaxPcs]] /\ peers'[old] = none
            /\ \A x \in Meshes \ {old} : peers'[x] = peers[x]
        BY <1>0, <1>5, <2>2, <3>1, <3>2, RowSet DEF WorkTyped
      <3>4. QED
        BY <3>1, <3>3
    <2>3. QED
      BY <2>1, <2>2
  <1>8. starting' \in [Meshes -> SUBSET Devices]
    <2>1. CASE old = 0
      BY <1>0, <1>2, <2>1 DEF WorkTyped
    <2>2. CASE old # 0
      <3>1. starting[old] \ PeersOf(old) \in SUBSET Devices
        BY <1>0, <1>5, <2>2 DEF WorkTyped
      <3>2. QED
        BY <1>0, <1>2, <2>2, <3>1 DEF WorkTyped
    <2>3. QED
      BY <2>1, <2>2
  <1>9. ice' \in [Meshes -> [Devices -> SUBSET Pcs]]
    <2>1. CASE old = 0
      BY <1>0, <1>2, <2>1 DEF WorkTyped
    <2>2. CASE old # 0
      <3> DEFINE row == [p \in Devices |-> IF p \in PeersOf(old) THEN {} ELSE ice[old][p]]
      <3>1. row \in [Devices -> SUBSET Pcs]
        BY <1>0, <1>5, <2>2 DEF WorkTyped
      <3>2. ice' = [ice EXCEPT ![old] = row]
        BY <1>2, <2>2
      <3> HIDE DEF row
      <3>3. QED
        BY <1>0, <1>5, <2>2, <3>1, <3>2, RowSet DEF WorkTyped
    <2>3. QED
      BY <2>1, <2>2
  <1>10. WorkTyped'
    BY <1>0, <1>1, <1>6, <1>7, <1>8, <1>9 DEF WorkTyped
  <1> HIDE DEF S
  <1>11. \A x \in Meshes : self[x] # Absent => self'[x] = self[x]
    OBVIOUS
  <1>12. ASSUME NEW x \in Meshes, NEW y \in Devices
         PROVE  /\ peers'[x][y] # 0 => peers'[x][y] = peers[x][y]
                /\ chain'[x][y] # <<>> => self'[x] # Absent /\ y # self'[x]
                /\ doing'[x][y] # 0 => chain'[x][y] # <<>>
    <2>1. peers'[x][y] # 0 => peers'[x][y] = peers[x][y]
      <3>1. CASE x = old
        BY <1>7, <3>1 DEF Meshes
      <3>2. CASE x # old
        BY <1>7, <3>2
      <3>3. QED
        BY <3>1, <3>2
    <2>2. chain[x][y] # <<>> => self'[x] # Absent /\ y # self'[x]
      BY <1>0, <1>11 DEF LinksFit
    <2>3. doing[x][y] # 0 => chain[x][y] # <<>>
      BY <1>0 DEF LinksFit
    <2>4. QED
      BY <1>1, <2>1, <2>2, <2>3
  <1>13. LinksFit' /\ PcsFit'
    BY <1>0, <1>1, <1>6, <1>11, <1>12, FitsStill
  \* while nothing was blurred, no mesh of d had anything to do
  <1>14. ASSUME ~blurred', NEW x \in Meshes, NEW y \in Devices, chain[x][y] # <<>>
         PROVE  self[x] # d /\ self[x] \in Devices /\ mesh[self[x]] = x
    <2>1. mesh[self[x]] = x /\ self[x] \in Devices
      BY <1>0, <1>3, <1>14 DEF ChainsKnown, LinksFit, PagesFit
    <2>2. self[x] # d
      <3>1. SUFFICES ASSUME self[x] = d PROVE FALSE
        OBVIOUS
      <3>2. x = old /\ old # 0
        BY <2>1, <3>1 DEF Meshes
      <3>3. Busy(old)
        BY <1>14, <3>2 DEF Busy
      <3>4. QED
        BY <1>3, <1>14, <3>2, <3>3
    <2>3. QED
      BY <2>1, <2>2
  <1>15. ChainsKnown'
    <2> SUFFICES ASSUME ~blurred', NEW x \in Meshes, NEW y \in Devices, chain'[x][y] # <<>>
                 PROVE  mesh'[self'[x]] = x
      BY DEF ChainsKnown
    <2>1. self[x] # d /\ self[x] \in Devices /\ mesh[self[x]] = x
      BY <1>1, <1>14
    <2>2. self'[x] = self[x]
      BY <1>11, <2>1, RoomAssumption
    <2>3. QED
      BY <1>4, <2>1, <2>2
  <1>16. OpenKnown'
    <2> SUFFICES ASSUME ~blurred', NEW n \in Pcs, Open(n)'
                 PROVE  /\ mesh'[self'[pc'[n].at]] = pc'[n].at
                        /\ peers'[pc'[n].at][pc'[n].to] = n
      BY DEF OpenKnown
    <2> DEFINE a == pc[n].at
               b == pc[n].to
    <2>1. /\ Open(n) /\ (old # 0 => n \notin S)
          /\ pc'[n].at = a /\ pc'[n].to = b
      BY <1>6
    <2>2. mesh[self[a]] = a /\ peers[a][b] = n
      BY <1>0, <1>3, <2>1 DEF OpenKnown
    <2>3. a \in Meshes /\ a # 0 /\ b \in Devices /\ self[a] # Absent /\ n # 0
      BY <1>0, <2>1, MadeOnly DEF PcsFit, Pcs
    <2>4. self[a] \in Devices /\ self'[a] = self[a]
      BY <1>0, <1>11, <2>3 DEF PagesFit
    <2> HIDE DEF a, b
    <2>5. self[a] # d
      <3>1. SUFFICES ASSUME self[a] = d PROVE FALSE
        OBVIOUS
      <3>2. a = old /\ old # 0
        BY <2>2, <2>3, <3>1
      <3>3. b \in PeersOf(old)
        BY <2>2, <2>3, <3>2 DEF PeersOf
      <3>4. n \in S
        BY <2>2, <3>2, <3>3 DEF S, Ended
      <3>5. QED
        BY <2>1, <3>2, <3>4
    <2>6. a # old
      BY <1>5, <2>3, <2>5
    <2>7. QED
      BY <1>4, <1>7, <2>1, <2>2, <2>3, <2>4, <2>5, <2>6
  <1>17. QED
    BY <1>10, <1>13, <1>15, <1>16

LEMMA HelloTold ==
    ASSUME Sound, NEW d \in Devices, d \in listening, OnHello(d),
           UNCHANGED <<socket, listening, leaves, room, cut, faults>>
    PROVE  /\ PagesFit' /\ Numbered' /\ WorkTyped'
           /\ LinksFit' /\ PcsFit' /\ ChainsKnown' /\ OpenKnown'
  <1>1. PagesFit /\ Numbered
    BY DEF Sound
  <1>2. PICK new :
           /\ new = 1 + Cardinality({m \in Meshes : self[m] # Absent}) /\ new \in Meshes
           /\ self' = [self EXCEPT ![new] = d] /\ mesh' = [mesh EXCEPT ![d] = new]
    BY DEF OnHello
  <1>3. CloseMesh(mesh[d]) /\ UNCHANGED <<chain, doing, pcs>>
    BY DEF OnHello
  <1>4. blurred' \in BOOLEAN
    BY <1>1 DEF OnHello, PagesFit
  <1>5. ~blurred' => ~blurred /\ ~Busy(mesh[d])
    BY DEF OnHello, Busy
  <1>6. self[new] = Absent /\ Numbered'
    BY <1>1, <1>2, NextMesh
  <1>7. /\ PagesFit'
        /\ \A m \in Meshes \ {new} : self'[m] = self[m]
        /\ \A e \in Devices \ {d} : mesh'[e] = mesh[e]
    BY <1>1, <1>2, <1>4, <1>6, HelloPages
  <1>8. \A x \in Meshes : self[x] # Absent => self'[x] = self[x]
    BY <1>6, <1>7
  <1>9. QED
    BY <1>3, <1>5, <1>6, <1>7, <1>8, MeshClosed

LEMMA EnterPageKeeps ==
    ASSUME Sound, NEW d \in Devices, EnterPage(d)
    PROVE  Sound'
  <1>1. /\ listening' = listening \cup {d}
        /\ UNCHANGED <<socket, mesh, self, leaves, work, conn, hub, blurred, faults>>
    BY DEF EnterPage
  <1>2. RoomFits' /\ UNCHANGED <<room, cut>>
    BY <1>1, HubKept DEF Sound
  <1>3. PagesFit' /\ Numbered'
    BY <1>1, <1>2 DEF Sound, PagesFit, Numbered
  <1>4. QED
    BY <1>1, <1>2, <1>3, Idle DEF Sound

LEMMA LeavePageKeeps ==
    ASSUME Sound, NEW d \in Devices, LeavePage(d)
    PROVE  Sound'
  <1>1. /\ leaves < MaxLeaves /\ leaves' = leaves + 1 /\ listening' = listening \ {d}
        /\ mesh' = [mesh EXCEPT ![d] = 0] /\ CloseMesh(mesh[d])
        /\ blurred' = (blurred \/ Busy(mesh[d]))
        /\ UNCHANGED <<socket, self, chain, doing, pcs, hub, faults>>
    BY DEF LeavePage
  <1>2. RoomFits' /\ UNCHANGED <<room, cut>>
    BY <1>1, HubKept DEF Sound
  <1>3. PagesFit /\ Numbered
    BY DEF Sound
  <1>4. 0 \in 0..MaxMeshes
    BY MeshAssumption
  <1>5. /\ mesh' \in [Devices -> 0..MaxMeshes] /\ mesh'[d] = 0
        /\ \A e \in Devices \ {d} : mesh'[e] = mesh[e]
    BY <1>1, <1>3, <1>4 DEF PagesFit
  <1>6. leaves' \in 0..MaxLeaves
    BY <1>1, <1>3, MeshAssumption DEF PagesFit
  <1>7. blurred' \in BOOLEAN /\ (~blurred' => ~blurred /\ ~Busy(mesh[d]))
    BY <1>1, <1>3 DEF PagesFit, Busy
  <1>8. \A e \in Devices : mesh'[e] # 0 => self[mesh'[e]] = e /\ e \in listening'
    BY <1>1, <1>3, <1>5 DEF PagesFit
  <1>9. PagesFit' /\ Numbered'
    BY <1>1, <1>2, <1>3, <1>5, <1>6, <1>7, <1>8 DEF PagesFit, Numbered
  <1>10. WorkTyped' /\ LinksFit' /\ PcsFit' /\ ChainsKnown' /\ OpenKnown'
    BY <1>1, <1>5, <1>7, MeshClosed
  <1>11. QED
    BY <1>2, <1>9, <1>10 DEF Sound

LEMMA DeliverKeeps ==
    ASSUME Sound, NEW d \in Devices, Deliver(d)
    PROVE  Sound'
  <1> DEFINE s == socket[d]
             x == Head(down[s])
  <1>0. RoomFits /\ PagesFit /\ Numbered
    BY DEF Sound
  <1>1. /\ s # NoSocket /\ down[s] # <<>> /\ down' = [down EXCEPT ![s] = Tail(@)]
        /\ UNCHANGED <<socket, listening, leaves, room, cut, faults>>
    BY DEF Deliver
  <1>2. \/ d \in listening /\ OnHello(d)
        \/ mesh[d] # 0 /\ x.type = "presence.changed" /\ OnPresence(d, x.devices)
        \/ mesh[d] # 0 /\ x.type \in Signals /\ OnSignal(d, x)
        \/ UNCHANGED <<self, mesh, work, conn, blurred>>
    BY DEF Deliver
  <1>3. s \in Sockets /\ room[s] = d
    BY <1>0, <1>1 DEF PagesFit
  <1>4. RoomFits' /\ x \in For(d)
    BY <1>0, <1>1, <1>3, Delivers
  <1>5. blurred \in BOOLEAN
    BY <1>0 DEF PagesFit
  <1> HIDE DEF x, s
  <1>6. CASE d \in listening /\ OnHello(d)
    BY <1>1, <1>4, <1>6, HelloTold DEF Sound
  <1>7. ASSUME WorkTyped' /\ LinksFit' /\ PcsFit' /\ ChainsKnown' /\ OpenKnown',
               mesh' = mesh, self' = self, blurred' \in BOOLEAN
        PROVE  Sound'
    <2>1. UNCHANGED <<page, room, cut, faults>>
      BY <1>1, <1>7 DEF page
    <2>2. QED
      BY <1>0, <1>4, <1>7, <2>1, PagesKept DEF Sound
  <1>8. CASE mesh[d] # 0 /\ x.type = "presence.changed" /\ OnPresence(d, x.devices)
    <2>1. x.devices \in SUBSET Devices
      BY <1>4, <1>8, MessageKinds
    <2>2. QED
      BY <1>7, <1>8, <2>1, PresenceTold
  <1>9. CASE mesh[d] # 0 /\ x.type \in Signals /\ OnSignal(d, x)
    <2>1. /\ x \in [type : Signals, from : Devices, to : Devices, pc : Pcs]
          /\ x.from # d
      BY <1>4, <1>9, MessageKinds
    <2>2. QED
      BY <1>5, <1>7, <1>9, <2>1, SignalQueued
  <1>10. CASE UNCHANGED <<self, mesh, work, conn, blurred>>
    BY <1>5, <1>7, <1>10, Idle
  <1>11. QED
    BY <1>2, <1>6, <1>8, <1>9, <1>10

-----------------------------------------------------------------------------
(* The theorems.                                                           *)

LEMMA SoundInit == Init => Sound
  <1> SUFFICES ASSUME Init PROVE Sound
    OBVIOUS
  <1>1. RoomFits
    BY DEF Init, RoomInit, RoomFits, InRoom
  <1>2. PagesFit
    <2>1. 0 \in 0..MaxMeshes /\ 0 \in 0..MaxFaults /\ 0 \in 0..MaxLeaves /\ FALSE \in BOOLEAN
      BY MeshAssumption
    <2>2. QED
      BY <2>1 DEF Init, PagesFit
  <1>3. Numbered
    <2>1. 0 \in 0..MaxMeshes /\ \A m \in Meshes : ~(m <= 0)
      BY MeshAssumption DEF Meshes
    <2>2. \A m \in Meshes : self[m] # Absent <=> m <= 0
      BY <2>1 DEF Init
    <2>3. QED
      BY <2>1, <2>2 DEF Numbered
  <1>4. WorkTyped
    BY MeshAssumption, UnmadeTyped DEF Init, WorkTyped
  <1>5. LinksFit /\ PcsFit /\ ChainsKnown /\ OpenKnown
    BY UnmadeTyped DEF Init, LinksFit, PcsFit, ChainsKnown, OpenKnown, Open, Unmade
  <1>6. QED
    BY <1>1, <1>2, <1>3, <1>4, <1>5 DEF Sound

LEMMA SoundNext == Sound /\ [Next]_vars => Sound'
  <1> SUFFICES ASSUME Sound, [Next]_vars PROVE Sound'
    OBVIOUS
  <1>1. ASSUME NEW d \in Devices, NEW s \in Sockets, Connect(d, s) PROVE Sound'
    BY <1>1, ConnectKeeps
  <1>2. ASSUME NEW d \in Devices, Lose(d) PROVE Sound'
    BY <1>2, LoseKeeps
  <1>3. ASSUME NEW d \in Devices, Deliver(d) PROVE Sound'
    BY <1>3, DeliverKeeps
  <1>4. ASSUME NEW s \in Sockets, ServerClosed(s) PROVE Sound'
    BY <1>4, ServerClosedKeeps
  <1>5. ASSUME NEW m \in Meshes, NEW p \in Devices, Operate(m, p) PROVE Sound'
    BY <1>5, OperateKeeps
  <1>6. ASSUME NEW n \in Pcs, Trickle(n) PROVE Sound'
    BY <1>6, TrickleKeeps
  <1>7. ASSUME NEW d \in Devices, EnterPage(d) PROVE Sound'
    BY <1>7, EnterPageKeeps
  <1>8. ASSUME NEW d \in Devices, LeavePage(d) PROVE Sound'
    BY <1>8, LeavePageKeeps
  <1>9. CASE UNCHANGED vars
    <2>1. UNCHANGED <<page, work, conn, hub, blurred, faults>>
      BY <1>9 DEF vars
    <2>2. RoomFits' /\ UNCHANGED <<room, cut, mesh, self>>
      BY <2>1, HubKept DEF Sound, page
    <2>3. blurred' \in BOOLEAN /\ PagesFit /\ Numbered
      BY <2>1 DEF Sound, PagesFit
    <2>4. PagesFit' /\ Numbered'
      BY <2>1, <2>2, <2>3, PagesKept
    <2>5. QED
      BY <2>1, <2>2, <2>4, Idle DEF Sound
  <1>10. QED
    BY <1>1, <1>2, <1>3, <1>4, <1>5, <1>6, <1>7, <1>8, <1>9 DEF Next

THEOREM SoundHolds == Spec => []Sound
  BY SoundInit, SoundNext, PTL DEF Spec

\* The types of a page, its meshes and their connections: every link leads to
\* a connection the mesh made for that peer, and to another device.
THEOREM TypeCorrect == Spec => []TypeOK
  <1>1. Sound => TypeOK
    <2> SUFFICES ASSUME Sound PROVE TypeOK
      OBVIOUS
    <2>1. RoomFits /\ PagesFit /\ WorkTyped /\ LinksFit /\ PcsFit
      BY DEF Sound
    <2>2. \A m \in Meshes, p \in Devices :
             /\ peers[m][p] # 0 =>
                   pc[peers[m][p]].at = m /\ pc[peers[m][p]].to = p /\ p # self[m]
             /\ doing[m][p] # 0 => chain[m][p] # <<>> /\ pc[doing[m][p]].at = m
      BY <2>1, PeerIs DEF LinksFit
    <2>3. QED
      BY <2>1, <2>2 DEF TypeOK, RoomFits, PagesFit, WorkTyped
  <1>2. QED
    BY <1>1, SoundHolds, PTL

\* No connection stays open that the page does not know of, unless a peer went
\* or came back while something was under way with it.
THEOREM NoConnectionLeftOpen == Spec => []NoneLeftOpen
  <1>1. Sound => NoneLeftOpen
    <2> SUFFICES ASSUME Sound, NEW n \in Pcs, Open(n), ~blurred
                 PROVE  \E d \in Devices :
                           mesh[d] = pc[n].at /\ peers[mesh[d]][pc[n].to] = n
      BY DEF NoneLeftOpen, Open
    <2>1. WorkTyped /\ PcsFit /\ OpenKnown /\ PagesFit
      BY DEF Sound
    <2>2. pc[n].at \in Meshes /\ self[pc[n].at] \in Devices
      BY <2>1, MadeOnly DEF PcsFit, PagesFit
    <2>3. QED
      BY <2>1, <2>2 DEF OpenKnown
  <1>2. QED
    BY <1>1, SoundHolds, PTL
=============================================================================
