------------------------------ MODULE HubRoom ------------------------------
(***************************************************************************)
(* The hub of one member: a Durable Object with the sockets of that        *)
(* member's devices (apps/edge/src/index.ts and hub.ts).  Its handlers do  *)
(* not wait, so each is one step; they are operators here, and the modules *)
(* that use the hub make actions of them.                                  *)
(*                                                                         *)
(* A socket delivers in order what was sent on it, until its link is cut:  *)
(* then nothing arrives either way and neither end is told.                *)
(***************************************************************************)
EXTENDS Naturals, Sequences, FiniteSets

CONSTANTS
    Devices,
    Sockets,
    Absent,    \* the device of a socket that is not in the room
    MaxDown    \* bound: messages on their way on one socket

ASSUME RoomAssumption == Absent \notin Devices /\ MaxDown \in Nat \ {0}

VARIABLES
    room,   \* the device attached to each accepted socket
    down,   \* what is on its way to the browser on each socket
    cut     \* the sockets whose link is dead

Hello(d)    == [type |-> "hello", device |-> d]
Presence(D) == [type |-> "presence.changed", devices |-> D]

InRoom     == {s \in Sockets : room[s] # Absent}
DevicesOf(S) == {room[s] : s \in S} \ {Absent}

RoomInit ==
    /\ room = [s \in Sockets |-> Absent]
    /\ down = [s \in Sockets |-> <<>>]
    /\ cut = {}

\* room(except): every accepted socket but the one that is closing.
ButThisDevice(s) == {x \in InRoom : room[x] # room[s]}
Others(s)        == InRoom \ {s}

\* send on each socket of S; nothing arrives on a dead link.
Sent(S, message) ==
    [s \in Sockets |-> IF s \in S \ cut THEN Append(down[s], message) ELSE down[s]]

\* sendTo: every socket of that device.
Reached(d) == {x \in InRoom : room[x] = d}

RoomFor(n, S) == \A s \in S : Len(down[s]) + n <= MaxDown

\* GET /connect: hello to the new socket, then everyone's presence to all.
AcceptSocket(s, d) ==
    /\ room[s] = Absent /\ RoomFor(1, InRoom)
    /\ room' = [room EXCEPT ![s] = d]
    /\ down' = [Sent(InRoom, Presence(DevicesOf(InRoom) \cup {d})) EXCEPT
                   ![s] = <<Hello(d), Presence(DevicesOf(InRoom) \cup {d})>>]
    /\ UNCHANGED cut

\* webSocketClose: the object has noticed that a socket is gone.  What then
\* becomes of the link is the business of the browser at its other end.
CloseSocket(s) ==
    /\ room[s] # Absent /\ RoomFor(1, Others(s))
    /\ room' = [room EXCEPT ![s] = Absent]
    /\ down' = [Sent(Others(s), Presence(DevicesOf(Others(s)))) EXCEPT ![s] = <<>>]

\* webSocketMessage: a signal goes to the device it names, and only when its
\* "from" is the device of the socket it came on.
RouteSignal(s, message) ==
    /\ room[s] = message.from /\ s \notin cut
    /\ down' = Sent(Reached(message.to), message)
    /\ UNCHANGED <<room, cut>>

\* A link dies and nobody is told.
CutLink(s) ==
    /\ room[s] # Absent /\ s \notin cut
    /\ cut' = cut \cup {s}
    /\ down' = [down EXCEPT ![s] = <<>>]
    /\ UNCHANGED room

=============================================================================
