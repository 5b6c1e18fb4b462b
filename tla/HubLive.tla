------------------------------ MODULE HubLive ------------------------------
(***************************************************************************)
(* The browser's end of the hub.  In each tab the page and the frame       *)
(* around it subscribe to one shared session (lib/vault/hub-live.ts); a    *)
(* session asks for a ticket, opens a socket, gives it up after a silence, *)
(* and tries again until it is closed (lib/vault/live.ts).  The hub is     *)
(* HubRoom.                                                                *)
(*                                                                         *)
(* A session that was closed does nothing any more but one thing: the      *)
(* close event of its socket is still to come.                             *)
(***************************************************************************)
EXTENDS HubRoom

CONSTANTS
    Tabs,
    DeviceOf,    \* the device each tab is signed in as
    Subscribers, \* who subscribes in each tab: the frame, the page
    Leaving,     \* bound: tabs in which subscribers come and go
    MaxFaults    \* bound: failed tickets, refused sockets and dead links

ASSUME LiveAssumption ==
    /\ DeviceOf \in [Tabs -> Devices]
    /\ MaxFaults \in Nat

NoSocket == "no socket"
NoTab    == "no tab"

ASSUME SocketAssumption == NoSocket \notin Sockets /\ NoTab \notin Tabs

VARIABLES
    subs,      \* envelopes and lives: who is subscribed
    phase,     \* the session of the tab: what it waits for
    socket,    \* the socket of that session
    owner,     \* the tab each socket was opened by, until its close event
    asked,     \* sockets whose request is on its way to the Worker
    closing,   \* sockets whose close() was called
    greeted,   \* sockets that have said hello to their tab
    seen,      \* the last presence each socket delivered
    live,      \* live of hub-live.ts
    late,      \* tabs whose live was put out by another session's socket
    faults

tabs == <<subs, phase, live, late>>
wire == <<owner, asked, closing, greeted, seen>>
hub  == <<room, down, cut>>
vars == <<tabs, socket, wire, hub, faults>>

TypeOK ==
    /\ room \in [Sockets -> Devices \cup {Absent}]
    /\ \A s \in Sockets : Len(down[s]) <= MaxDown + 1
    /\ cut \subseteq Sockets
    /\ \A t \in Tabs : subs[t] \subseteq Subscribers[t]
    /\ phase \in [Tabs -> {"none", "ticket", "socket", "wait"}]
    /\ socket \in [Tabs -> Sockets \cup {NoSocket}]
    /\ owner \in [Sockets -> Tabs \cup {NoTab}]
    /\ seen \in [Sockets -> SUBSET Devices]
    /\ live \in [Tabs -> BOOLEAN]
    /\ late \subseteq Tabs /\ faults \in 0..MaxFaults
    \* one session at most, while anyone listens; its socket is its own
    /\ \A t \in Tabs :
          /\ (subs[t] = {}) = (phase[t] = "none")
          /\ (socket[t] # NoSocket) = (phase[t] = "socket")
          /\ socket[t] # NoSocket => owner[socket[t]] = t
    /\ \A s \in asked \cup closing \cup greeted : owner[s] # NoTab

Init ==
    /\ RoomInit
    /\ subs = [t \in Tabs |-> {}]
    /\ phase = [t \in Tabs |-> "none"]
    /\ socket = [t \in Tabs |-> NoSocket]
    /\ owner = [s \in Sockets |-> NoTab]
    /\ asked = {} /\ closing = {} /\ greeted = {}
    /\ seen = [s \in Sockets |-> {}]
    /\ live = [t \in Tabs |-> FALSE]
    /\ late = {}
    /\ faults = 0

Fault == faults < MaxFaults /\ faults' = faults + 1

-----------------------------------------------------------------------------
(* Subscribers.                                                            *)

\* subscribeHub: the first one starts a session.
Subscribe(t, who) ==
    /\ who \notin subs[t]
    /\ subs' = [subs EXCEPT ![t] = @ \cup {who}]
    /\ phase' = [phase EXCEPT ![t] = IF @ = "none" THEN "ticket" ELSE @]
    /\ UNCHANGED <<socket, live, late, wire, hub, faults>>

\* What stopIfIdle leaves in live.
LiveLeft(t)     == live[t]
LiveWhenIdle(t) == FALSE

\* Unsubscribing; the last one out closes the session (stopIfIdle).
Unsubscribe(t, who) ==
    /\ t \in Leaving /\ who \in subs[t]
    /\ subs' = [subs EXCEPT ![t] = @ \ {who}]
    /\ IF subs'[t] = {}
       THEN /\ phase' = [phase EXCEPT ![t] = "none"]
            /\ socket' = [socket EXCEPT ![t] = NoSocket]
            /\ closing' = closing \cup ({socket[t]} \ {NoSocket})
            /\ live' = [live EXCEPT ![t] = LiveWhenIdle(t)]
            /\ late' = late \ {t}
       ELSE UNCHANGED <<phase, socket, closing, live, late>>
    /\ UNCHANGED <<owner, asked, greeted, seen, hub, faults>>

-----------------------------------------------------------------------------
(* The session.                                                            *)

\* One of the sockets in no use stands for a new one, whichever it is.
Free == {s \in Sockets : owner[s] = NoTab /\ room[s] = Absent}
New  == CHOOSE s \in Free : TRUE

\* The ticket came; a socket is opened.
Ticket(t) ==
    /\ phase[t] = "ticket" /\ Free # {}
    /\ phase' = [phase EXCEPT ![t] = "socket"]
    /\ socket' = [socket EXCEPT ![t] = New]
    /\ owner' = [owner EXCEPT ![New] = t]
    /\ asked' = asked \cup {New}
    /\ UNCHANGED <<subs, live, late, closing, greeted, seen, hub, faults>>

\* No ticket: retry puts live out and sets the timer.
TicketFails(t) ==
    /\ phase[t] = "ticket" /\ Fault
    /\ live' = [live EXCEPT ![t] = FALSE]
    /\ phase' = [phase EXCEPT ![t] = "wait"]
    /\ UNCHANGED <<subs, late, socket, wire, hub>>

\* Two seconds later.
Again(t) ==
    /\ phase[t] = "wait"
    /\ phase' = [phase EXCEPT ![t] = "ticket"]
    /\ UNCHANGED <<subs, live, late, socket, wire, hub, faults>>

\* connectWs: the ticket is good, and the Durable Object takes the socket.
Accept(s) ==
    /\ s \in asked
    /\ AcceptSocket(s, DeviceOf[owner[s]])
    /\ asked' = asked \ {s}
    /\ UNCHANGED <<tabs, socket, owner, closing, greeted, seen, faults>>

\* The ticket has expired, or the Worker is not reached.
Refuse(s) ==
    /\ s \in asked /\ Fault
    /\ asked' = asked \ {s}
    /\ closing' = closing \cup {s}
    /\ UNCHANGED <<tabs, socket, owner, greeted, seen, hub>>

\* onmessage, while the socket is open: fanEnvelope tells the tab.
Deliver(s) ==
    LET t == owner[s]
        message == Head(down[s])
    IN  /\ t # NoTab /\ s \notin closing /\ down[s] # <<>>
        /\ down' = [down EXCEPT ![s] = Tail(@)]
        /\ IF message.type = "hello"
           THEN /\ greeted' = greeted \cup {s}
                /\ live' = [live EXCEPT ![t] = TRUE]
                /\ late' = late \ {t}
                /\ UNCHANGED seen
           ELSE /\ seen' = [seen EXCEPT ![s] = message.devices]
                /\ UNCHANGED <<greeted, live, late>>
        /\ UNCHANGED <<subs, phase, socket, owner, asked, closing, room, cut, faults>>

Cut(s) ==
    /\ Fault /\ CutLink(s)
    /\ UNCHANGED <<tabs, socket, wire>>

\* What the two timers of a socket notice: without them, nothing.
NoTimers(s) == FALSE
Silent(s)   == s \in cut

\* A dead link is known by its silence, or by an error: the socket is closed.
Silence(s) ==
    /\ Silent(s) /\ owner[s] # NoTab /\ s \notin closing
    /\ closing' = closing \cup {s}
    /\ UNCHANGED <<tabs, socket, owner, asked, greeted, seen, hub, faults>>

\* retry after a close event: a closed session does not go on.
GoesOn(t, s) == IF socket[t] = s THEN "wait" ELSE phase[t]

\* onclose.  The session compares the socket with its own last one, so the
\* close event of a session that was closed before still puts live out.
Closed(s) ==
    LET t == owner[s]
    IN  /\ s \in closing
        /\ owner' = [owner EXCEPT ![s] = NoTab]
        /\ seen' = [seen EXCEPT ![s] = {}]
        /\ closing' = closing \ {s}
        /\ greeted' = greeted \ {s}
        /\ asked' = asked \ {s}
        /\ live' = [live EXCEPT ![t] = FALSE]
        /\ phase' = [phase EXCEPT ![t] = GoesOn(t, s)]
        /\ IF socket[t] = s
           THEN socket' = [socket EXCEPT ![t] = NoSocket] /\ UNCHANGED late
           ELSE /\ late' = IF socket[t] \in greeted THEN late \cup {t} ELSE late
                /\ UNCHANGED socket
        /\ cut' = IF room[s] = Absent THEN cut \ {s} ELSE cut \cup {s}
        /\ down' = [down EXCEPT ![s] = <<>>]
        /\ UNCHANGED <<subs, room, faults>>

\* The Durable Object is told of a closed socket, and in the end of a dead one.
ServerClosed(s) ==
    /\ s \in closing \cup cut \/ owner[s] = NoTab
    /\ CloseSocket(s)
    /\ cut' = IF owner[s] = NoTab THEN cut \ {s} ELSE cut \cup {s}
    /\ UNCHANGED <<tabs, socket, wire, faults>>

Next ==
    \/ \E t \in Tabs :
          \/ \E who \in Subscribers[t] : Subscribe(t, who) \/ Unsubscribe(t, who)
          \/ Ticket(t) \/ TicketFails(t) \/ Again(t)
    \/ \E s \in Sockets :
          \/ Accept(s) \/ Refuse(s) \/ Deliver(s) \/ Cut(s)
          \/ Silence(s) \/ Closed(s) \/ ServerClosed(s)

\* Timers fire, and a network without further faults carries what is sent.
\* Tickets and accepted sockets wait for nobody in the code; strong fairness
\* makes up for the bounds on sockets and queues, which disable them at times.
Fairness ==
    /\ \A t \in Tabs : WF_vars(Again(t)) /\ SF_vars(Ticket(t))
    /\ \A s \in Sockets :
          /\ SF_vars(Accept(s)) /\ WF_vars(Deliver(s)) /\ WF_vars(Silence(s))
          /\ WF_vars(Closed(s)) /\ WF_vars(ServerClosed(s))

Spec == Init /\ [][Next]_vars /\ Fairness

-----------------------------------------------------------------------------
(* Properties.                                                             *)

LastPresence(s) ==
    LET P == {i \in 1..Len(down[s]) : down[s][i].type = "presence.changed"}
    IN  IF P = {} THEN seen[s]
        ELSE down[s][CHOOSE i \in P : \A j \in P : j <= i].devices

\* Once everything on its way has arrived, every socket with a link knows the
\* devices that hold one, also when a device that came back holds two and the
\* old one is closed (webSocketClose leaves out a socket, not a device).
PresenceTrue ==
    \A s \in InRoom \ (cut \cup closing) :
        owner[s] # NoTab => LastPresence(s) = DevicesOf(InRoom)

\* A tab shows itself live exactly when its session's socket has said hello
\* and is not closed, whatever sessions came before, except after the late
\* close event of an earlier session.
LiveFollows ==
    \A t \in Tabs \ late : live[t] = (socket[t] \in greeted)

\* A tab somebody is subscribed in is greeted by the hub in the end, through
\* failed tickets, refused sockets and half-open links.
LiveAgain ==
    \A t \in Tabs : subs[t] # {} ~> (socket[t] \in greeted \/ subs[t] = {})

=============================================================================
