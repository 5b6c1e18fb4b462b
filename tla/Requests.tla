------------------------------ MODULE Requests ------------------------------
(***************************************************************************)
(* What people ask of an admin: an invite (createAsk, dismissAsk in        *)
(* apps/web/lib/auth/service.ts) and file space (requestUpload and         *)
(* decideUpload in apps/web/lib/vault/service.ts).  A call is a sequence   *)
(* of statements, each a database transaction of its own or a              *)
(* transaction's part between two awaits; calls overlap, and any of them   *)
(* may fail.                                                               *)
(***************************************************************************)
EXTENDS Naturals, FiniteSets

CONSTANTS
    Askers,      \* the members
    Calls,       \* API calls that may be under way at once
    MaxAsks,     \* bound: asks ever made
    MaxRequests, \* bound: requests ever made, numbered as they come
    AskOpenMax,  \* ASK_OPEN_MAX
    Grants,      \* what an admin may grant, in bytes
    MaxFailed    \* bound: calls that fail

ASSUME RequestsAssumption ==
    /\ MaxAsks \in Nat /\ MaxRequests \in Nat /\ AskOpenMax \in Nat \ {0}
    /\ Grants \subseteq Nat \ {0} /\ MaxFailed \in Nat /\ IsFiniteSet(Calls)
    /\ "nobody" \notin Askers

VARIABLES
    call,       \* what each call is about and where it stands
    asks,       \* invite_asks: "open" or "dismissed", in the order they came
    request,    \* upload_requests, likewise
    quota,      \* storage_quota_bytes of each member, 0 without canUpload
    audit,      \* audit_log: the decisions written down
    contested,  \* history: requests that two calls decided at once
    unlogged,   \* history: requests whose decider failed before its audit
    failed

tables  == <<asks, request, quota, audit>>
history == <<contested, unlogged>>
askVars == <<call, tables, history, failed>>

Asks     == 1..MaxAsks
Requests == 1..MaxRequests
NoRow    == [by |-> "nobody", status |-> "none", granted |-> 0]
Row(by, status, granted) == [by |-> by, status |-> status, granted |-> granted]

Idle == [op |-> "none", at |-> "idle", by |-> "nobody", id |-> 0, grant |-> 0]
Ops  == {"none", "ask", "dismiss", "request", "decide"}

AskInit ==
    /\ call = [c \in Calls |-> Idle]
    /\ asks = [a \in Asks |-> "none"]
    /\ request = [r \in Requests |-> NoRow]
    /\ quota = [m \in Askers |-> 0]
    /\ audit = {} /\ contested = {} /\ unlogged = {}
    /\ failed = 0

Fault == failed < MaxFailed /\ failed' = failed + 1

Begin(c, op, at, by, id, grant) ==
    /\ call[c] = Idle
    /\ call' = [call EXCEPT ![c] = [op |-> op, at |-> at, by |-> by, id |-> id, grant |-> grant]]
Goes(c, at) == call' = [call EXCEPT ![c].at = at]
Ends(c)     == call' = [call EXCEPT ![c] = Idle]

-----------------------------------------------------------------------------
(* Invite asks.                                                            *)

OpenAsks == {a \in Asks : asks[a] = "open"}
NewAsk   == 1 + Cardinality({a \in Asks : asks[a] # "none"})

\* countOpenAsks, and what createAsk makes of it.
UnderCap == Cardinality(OpenAsks) < AskOpenMax

\* postInviteAsk
Ask(c) ==
    /\ UnderCap
    /\ Begin(c, "ask", "insert", "nobody", 0, 0)
    /\ UNCHANGED <<tables, history, failed>>

\* createAsk of the store; the audit entry of an ask is left out.
AskInserted(c) ==
    /\ call[c].op = "ask" /\ call[c].at = "insert" /\ NewAsk \in Asks
    /\ asks' = [asks EXCEPT ![NewAsk] = "open"]
    /\ Ends(c)
    /\ UNCHANGED <<request, quota, audit, history, failed>>

\* dismissAsk: it looks, and then updates what it found.
Dismiss(c, a) ==
    /\ asks[a] = "open"
    /\ Begin(c, "dismiss", "update", "nobody", a, 0)
    /\ UNCHANGED <<tables, history, failed>>

Dismissed(c) ==
    /\ call[c].op = "dismiss"
    /\ asks' = [asks EXCEPT ![call[c].id] = "dismissed"]
    /\ Ends(c)
    /\ UNCHANGED <<request, quota, audit, history, failed>>

-----------------------------------------------------------------------------
(* Requests for file space.                                                *)

PendingOf(m) == {r \in Requests : request[r].by = m /\ request[r].status = "pending"}
NewRequest   == 1 + Cardinality({r \in Requests : request[r] # NoRow})

\* createUploadRequest: none pending ...
RequestUpload(c, m) ==
    /\ PendingOf(m) = {}
    /\ Begin(c, "request", "insert", m, 0, 0)
    /\ UNCHANGED <<tables, history, failed>>

\* ... and an insert, which the index one_pending_per_user refuses otherwise.
IndexAllows(m) == PendingOf(m) = {}

RequestInserted(c) ==
    LET m == call[c].by
    IN  /\ call[c].op = "request" /\ NewRequest \in Requests
        /\ request' = IF IndexAllows(m)
                      THEN [request EXCEPT ![NewRequest] = Row(m, "pending", 0)] ELSE request
        /\ Ends(c)
        /\ UNCHANGED <<asks, quota, audit, history, failed>>

\* decideUploadRequest, in a transaction: the row has to be pending when read ...
AnyRow(r)    == request[r] # NoRow
Decidable(r) == request[r].status = "pending"

\* A grant of 0 stands for a denial.
DecideUpload(c, r, grant) ==
    /\ Decidable(r)
    /\ Begin(c, "decide", "update", "nobody", r, grant)
    /\ contested' = IF \E d \in Calls : call[d].op = "decide" /\ call[d].id = r
                                        /\ call[d].at = "update"
                    THEN contested \cup {r} ELSE contested
    /\ UNCHANGED <<tables, unlogged, failed>>

\* ... and is updated whatever it is by then, and the quota with it.
Raised(old, grant)  == IF grant > old THEN grant ELSE old
Granted(old, grant) == IF grant = 0 THEN old ELSE grant
Verdict(grant) == IF grant = 0 THEN "denied" ELSE "approved"

Decided(c) ==
    LET r == call[c].id
        m == request[r].by
        grant == call[c].grant
    IN  /\ call[c].op = "decide" /\ call[c].at = "update"
        /\ request' = [request EXCEPT ![r] = Row(m, Verdict(grant), grant)]
        /\ quota' = [quota EXCEPT ![m] = Granted(@, grant)]
        /\ Goes(c, "audit")
        /\ UNCHANGED <<asks, audit, history, failed>>

\* insertAudit, after the transaction.
ApprovalsOnly(c) == IF call[c].grant = 0 THEN {} ELSE {call[c].id}
Entry(c)         == {call[c].id}

DecisionLogged(c) ==
    /\ call[c].at = "audit"
    /\ audit' = audit \cup Entry(c)
    /\ Ends(c)
    /\ UNCHANGED <<asks, request, quota, history, failed>>

\* A call fails between two of its statements; what it committed stays.
Fails(c) ==
    /\ call[c].at # "idle" /\ Fault
    /\ unlogged' = IF call[c].at = "audit" THEN unlogged \cup {call[c].id} ELSE unlogged
    /\ Ends(c)
    /\ UNCHANGED <<tables, contested>>

AskNext ==
    \E c \in Calls :
          \/ Ask(c) \/ AskInserted(c) \/ Dismissed(c)
          \/ \E m \in Askers : RequestUpload(c, m)
          \/ \E a \in Asks : Dismiss(c, a)
          \/ \E r \in Requests, grant \in Grants \cup {0} : DecideUpload(c, r, grant)
          \/ RequestInserted(c) \/ Decided(c) \/ DecisionLogged(c)
          \/ Fails(c)

AskSpec == AskInit /\ [][AskNext]_askVars

-----------------------------------------------------------------------------
(* Properties.                                                             *)

Asking == {c \in Calls : call[c].op = "ask" /\ call[c].at = "insert"}

\* The open asks pass the cap by the calls that overlap at most, and never
\* because the cap was not looked at.
AsksNearCap ==
    Cardinality(OpenAsks) + Cardinality(Asking) <= AskOpenMax + Cardinality(Calls) - 1

AsksOK ==
    /\ \A c \in Calls : call[c].op \in Ops /\ (call[c].op = "none" <=> call[c] = Idle)
    /\ asks \in [Asks -> {"none", "open", "dismissed"}]
    /\ \A r \in Requests : request[r].status \in {"none", "pending", "approved", "denied"}
    /\ quota \in [Askers -> Grants \cup {0}]
    /\ audit \subseteq Requests /\ contested \subseteq Requests /\ unlogged \subseteq Requests
    /\ failed \in 0..MaxFailed
    \* rows are numbered without a gap; a decision is of a row, a grant approved
    /\ \A i \in 1..(MaxAsks - 1) : asks[i] = "none" => asks[i + 1] = "none"
    /\ \A r \in Requests :
          /\ r > 1 /\ request[r] # NoRow => request[r - 1] # NoRow
          /\ (request[r].granted # 0) = (request[r].status = "approved")
    /\ AsksNearCap

\* A member has the space of the newest of its requests that was approved,
\* unless two calls decided one of them at once: one request is pending at a
\* time, and what is decided stays decided.
SpaceAsApproved ==
    \A m \in Askers :
        LET R == {r \in Requests : request[r].by = m}
            approved == {r \in R : request[r].status = "approved"}
            newest   == CHOOSE r \in approved : \A q \in approved : q <= r
        IN  R \cap contested = {} =>
                quota[m] = IF approved = {} THEN 0 ELSE request[newest].granted

\* A decision is never taken back, unless two calls decided at once.
DecidedForGood ==
    [][\A r \in Requests \ contested :
          request[r].status \in {"approved", "denied"} => request'[r] = request[r]]_askVars

\* Every decision is in the audit log, or about to be, unless its call failed
\* between the two.
DecisionsLogged ==
    \A r \in Requests \ unlogged :
        request[r].status \in {"approved", "denied"} =>
            r \in audit \/ \E c \in Calls : call[c].at = "audit" /\ call[c].id = r

=============================================================================
