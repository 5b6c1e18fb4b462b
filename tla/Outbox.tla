------------------------------- MODULE Outbox -------------------------------
(***************************************************************************)
(* Notes of one browser: the composer, the outbox in IndexedDB, the flush  *)
(* that drains it, Forget and Undo, the refresh that merges the server's   *)
(* list, and the hub's envelopes, with a server that other devices of the  *)
(* member write to as well.                                                *)
(*                                                                         *)
(* Every handler is asynchronous: it reads a row, waits for a request or a *)
(* decryption, and then writes.  A step here is what runs between two such *)
(* waits.  A text is known by its version: the n-th that anybody wrote.    *)
(***************************************************************************)
EXTENDS Naturals, FiniteSets

CONSTANTS
    Notes,      \* item ids
    MaxVer,     \* bound: versions of one note
    Together,   \* bound: the sets of handlers that may be under way at once
    MaxHub,     \* bound: envelopes under way; one more is lost
    NoNote      \* stands for no item id

\* The handlers: the composer (sendPlain and saveEdit, under sendingRef), runFlush
\* (under flushingRef), the Sync buttons, the account page's switch, Forget with
\* its Undo, and refreshItems.
Handlers == {"composer", "flush", "button", "account", "forget", "refresh"}

ASSUME BoundsAssumption ==
    /\ MaxVer \in Nat \ {0} /\ MaxHub \in Nat
    /\ Together \subseteq SUBSET Handlers
    /\ NoNote \notin Notes

VARIABLES
    sync,       \* syncEnabled, in IndexedDB
    srv,        \* srv[n]: the version in the table items, 0 without a row
    next,       \* next[n]: versions written so far
    cache,      \* cache[n]: the row of n in IndexedDB
    tray,       \* tray[n]: n as shown; "synced" stands for no syncState
    pending,    \* pendingRef
    tomb,       \* tombstonesRef
    proc,       \* proc[p]: what handler p waits for, and its local values
    work,       \* work[p]: rows that p has read and not handled yet
    list,       \* what the GET under way answered
    hub,        \* envelopes on their way to this browser
    fate        \* history: fate[n] of a note written here: "sent" from the composer,
                \* then in the outbox, as "owed" to the server or "hushed" (saved with
                \* Sync off, and never asked for), or "forgotten", or "asked" (posted
                \* back by Undo); "back", owed again after an Undo or a refusal; or
                \* once "stored"

serverVars == <<srv, next>>
trayVars == <<tray, pending, tomb>>
vars == <<sync, serverVars, cache, trayVars, proc, work, list, hub, fate>>

Outboxed == {"queued", "held", "dirty"}     \* unsynced
Blank == [ver |-> 0, state |-> "none"]
Row == [ver : 1 .. MaxVer, state : {"synced"} \cup Outboxed] \cup {Blank}

Posters == {"flush", "button", "account"}

\* The fates of a note that the outbox must hold.
Owed == {"owed", "back"}
Due == Owed \cup {"hushed"}

Idle == [at |-> "idle", n |-> NoNote, ver |-> 0, was |-> Blank, ans |-> "none"]

Init ==
    /\ sync = TRUE
    /\ srv = [n \in Notes |-> 0]
    /\ next = [n \in Notes |-> 0]
    /\ cache = [n \in Notes |-> Blank]
    /\ tray = [n \in Notes |-> Blank]
    /\ pending = {} /\ tomb = {}
    /\ proc = [p \in Handlers |-> Idle]
    /\ work = [p \in Handlers |-> {}]
    /\ list = [n \in Notes |-> 0]
    /\ hub = {}
    /\ fate = [n \in Notes |-> "none"]

-----------------------------------------------------------------------------
(* Reading the browser's state. *)

Busy == {p \in Handlers : proc[p].at # "idle"}
MayStart(p) == p \notin Busy /\ Busy \cup {p} \in Together

Shown == {n \in Notes : tray[n].state # "none"}
Unsynced == {n \in Notes : cache[n].state \in Outboxed}

\* Rows of IndexedDB in some states, as a handler holds them.
Read(states) ==
    {[n |-> n, row |-> cache[n]] : n \in {m \in Notes : cache[m].state \in states}}

\* Handler p waits for the answer to a request about n.
Ask(p, verb, n, ver, was) ==
    proc' = [proc EXCEPT ![p] =
                [at |-> verb, n |-> n, ver |-> ver, was |-> was, ans |-> "wait"]]

Goto(p, place) == proc' = [proc EXCEPT ![p] = [Idle EXCEPT !.at = place]]
Stop(p) == proc' = [proc EXCEPT ![p] = Idle]

Answered(p, verb, ans) == proc[p].at = verb /\ proc[p].ans = ans

\* One row of a table changes.
Put(n, ver, state) == cache' = [cache EXCEPT ![n] = [ver |-> ver, state |-> state]]
Show(n, ver, state) == tray' = [tray EXCEPT ![n] = [ver |-> ver, state |-> state]]

Mark(n, state) == tray' = IF n \in Shown THEN [tray EXCEPT ![n].state = state] ELSE tray

\* Mutation of Adopt: writes on screen whose row is still to come are dropped.
RowsOnly == pending' = Unsynced

\* adoptPending, nextPendingIds: unsynced rows and what is pending on screen.
Adopt == pending' = Unsynced \cup (pending \cap Shown)

\* What the rows just read say of a note.
SyncState(n, rows) ==
    IF \E r \in rows : r.n = n /\ r.row.state \in Outboxed
    THEN (CHOOSE r \in rows : r.n = n).row.state
    ELSE "synced"

\* applySyncState: a row shows the state that the rows just read give it.
ApplySyncState(shown, rows) ==
    [n \in Notes |-> IF shown[n].state = "none" THEN Blank
                     ELSE [ver |-> shown[n].ver, state |-> SyncState(n, rows)]]

\* mergeRemoteItems: what was read wins over what is shown, a tombstone over
\* both; of the rest only what is pending stays.
Merge(read) ==
    [n \in Notes |->
        IF n \in tomb THEN Blank
        ELSE IF read[n] # 0 THEN [ver |-> read[n], state |-> "synced"]
        ELSE IF n \in pending THEN tray[n] ELSE Blank]

-----------------------------------------------------------------------------
(* The server, and the way to it and back. *)

Publish(kind, n, ver) ==
    hub' = IF Cardinality(hub) < MaxHub
           THEN hub \cup {[kind |-> kind, n |-> n, ver |-> ver]} ELSE hub

\* What has once been stored is owed no more.
Stored(n) == fate' = [fate EXCEPT ![n] = "stored"]

Reply(p, ans) == proc' = [proc EXCEPT ![p].ans = ans]

\* createItem: an id that is there already is left as it is, and published.
ServePost(p) ==
    /\ Answered(p, "post", "wait")
    /\ LET n == proc[p].n
           ver == proc[p].ver
       IN  /\ Reply(p, "ok")
           /\ Publish("created", n, ver)
           /\ srv' = IF srv[n] = 0 THEN [srv EXCEPT ![n] = ver] ELSE srv
           /\ Stored(n)
    /\ UNCHANGED <<sync, next, cache, trayVars, work, list>>

\* updateItem, updateTextItem: only a row that is there.
ServePatch(p) ==
    /\ Answered(p, "patch", "wait")
    /\ LET n == proc[p].n
           ver == proc[p].ver
       IN  IF srv[n] = 0
           THEN Reply(p, "error") /\ UNCHANGED <<srv, hub, fate>>
           ELSE /\ Reply(p, "ok")
                /\ Publish("updated", n, ver)
                /\ srv' = [srv EXCEPT ![n] = ver]
                /\ Stored(n)
    /\ UNCHANGED <<sync, next, cache, trayVars, work, list>>

\* deleteItem: published whether there was a row or not.
ServeDelete(p) ==
    /\ Answered(p, "delete", "wait")
    /\ Reply(p, "ok")
    /\ srv' = [srv EXCEPT ![proc[p].n] = 0]
    /\ Publish("deleted", proc[p].n, 0)
    /\ UNCHANGED <<sync, next, cache, trayVars, work, list, fate>>

\* listItems.
ServeGet(p) ==
    /\ Answered(p, "get", "wait")
    /\ Reply(p, "ok")
    /\ list' = srv
    /\ UNCHANGED <<sync, serverVars, cache, trayVars, work, hub, fate>>

Serve(p) == ServePost(p) \/ ServePatch(p) \/ ServeDelete(p) \/ ServeGet(p)

\* A request is refused (rate limit, session, a failure of the app) or lost,
\* or its answer is: the browser takes the last two for being offline.  A GET
\* and a DELETE treat all three alike.
Miss(p) ==
    /\ proc[p].at # "undo"
    /\ \/ proc[p].ans \in {"wait", "ok"} /\ Reply(p, "offline")
       \/ proc[p].ans = "wait" /\ proc[p].at \in {"post", "patch"} /\ Reply(p, "error")
    /\ UNCHANGED <<sync, serverVars, cache, trayVars, work, list, hub, fate>>

\* Another device of the member edits or forgets a stored note.
RemoteEdit(n) ==
    /\ srv[n] # 0 /\ next[n] < MaxVer
    /\ next' = [next EXCEPT ![n] = @ + 1]
    /\ srv' = [srv EXCEPT ![n] = next[n] + 1]
    /\ Publish("updated", n, next[n] + 1)
    /\ UNCHANGED <<sync, cache, trayVars, proc, work, list, fate>>

RemoteForget(n) ==
    /\ srv[n] # 0
    /\ srv' = [srv EXCEPT ![n] = 0]
    /\ Publish("deleted", n, 0)
    /\ UNCHANGED <<sync, next, cache, trayVars, proc, work, list, fate>>

-----------------------------------------------------------------------------
(* The composer. *)

Write(n) == next' = [next EXCEPT ![n] = @ + 1]

\* What becomes of a note that has not been stored.
Owe(n, how) == fate' = [fate EXCEPT ![n] = CASE @ = "sent" -> how
                                             [] @ = "none" -> "back"
                                             [] OTHER -> @]
Turn(N, from, to) ==
    fate' = [n \in Notes |-> IF n \in N /\ fate[n] \in from THEN to ELSE fate[n]]

\* sendPlain up to its send on the mesh: the note is on screen and pending.
Send(n) ==
    /\ MayStart("composer") /\ next[n] = 0
    /\ Write(n)
    /\ Show(n, 1, "synced")
    /\ pending' = pending \cup {n}
    /\ proc' = [proc EXCEPT !["composer"] =
                   [at |-> "persist", n |-> n, ver |-> 1, was |-> Blank, ans |-> "none"]]
    /\ Turn({n}, {"none"}, "sent")
    /\ UNCHANGED <<sync, srv, cache, tomb, work, list, hub>>

\* Mutation of PostAtOnce: Sync is not looked at.
WheneverOnline == TRUE

\* persistIntent: with Sync on (and online) the note is posted at once.
PostAtOnce == sync

\* persistIntent: hold, queue or post; the row is in the outbox before the POST.
Persist ==
    /\ proc["composer"].at = "persist"
    /\ LET n == proc["composer"].n
           state == IF sync THEN "queued" ELSE "held"
       IN  /\ Put(n, 1, state)
           /\ Mark(n, state)
           /\ Owe(n, IF sync THEN "owed" ELSE "hushed")
           /\ \/ PostAtOnce /\ Ask("composer", "post", n, 1, Blank)
              \/ Stop("composer")
    /\ UNCHANGED <<sync, serverVars, pending, tomb, work, list, hub>>

\* A refused note leaves the outbox and its text goes back to the draft.
Posted ==
    /\ proc["composer"].at = "post" /\ proc["composer"].ans # "wait"
    /\ LET n == proc["composer"].n
           ans == proc["composer"].ans
       IN  /\ pending' = IF ans = "offline" THEN pending ELSE pending \ {n}
           /\ CASE ans = "ok" -> /\ Put(n, 1, "synced") /\ Mark(n, "synced")
                                 /\ UNCHANGED fate
                [] ans = "error" -> /\ Put(n, 0, "none") /\ Show(n, 0, "none")
                                    /\ Turn({n}, Owed, "none")
                [] ans = "offline" -> UNCHANGED <<cache, tray, fate>>
    /\ Stop("composer")
    /\ UNCHANGED <<sync, serverVars, tomb, work, list, hub>>

\* editIntent: what the tray says of the note decides how the edit is kept.
EditIntents(n) ==
    IF tray[n].state \in {"queued", "held"} THEN {"rewrite"}
    ELSE IF sync THEN {"patch", "dirty"} ELSE {"dirty"}

\* saveEdit up to its send on the mesh.
Edit(n) ==
    /\ MayStart("composer") /\ n \in Shown /\ next[n] < MaxVer
    /\ Write(n)
    /\ Show(n, next[n] + 1, tray[n].state)
    /\ \E intent \in EditIntents(n) :
           proc' = [proc EXCEPT !["composer"] =
                       [at |-> intent, n |-> n, ver |-> next[n] + 1, was |-> tray[n],
                        ans |-> IF intent = "patch" THEN "wait" ELSE "none"]]
    /\ UNCHANGED <<sync, srv, cache, pending, tomb, work, list, hub, fate>>

\* An edit that needs no request: the row is rewritten, or it is dirty.
Keep ==
    /\ proc["composer"].at \in {"rewrite", "dirty"}
    /\ LET n == proc["composer"].n
           ver == proc["composer"].ver
           rewrite == proc["composer"].at = "rewrite"
           state == IF rewrite THEN proc["composer"].was.state ELSE "dirty"
       IN  /\ Put(n, ver, state)
           /\ Mark(n, state)
           /\ pending' = IF rewrite THEN pending ELSE pending \cup {n}
    /\ Stop("composer")
    /\ UNCHANGED <<sync, serverVars, tomb, work, list, hub, fate>>

\* Refused, the edit is taken back and its text is in the draft again.
Patched ==
    /\ proc["composer"].at = "patch" /\ proc["composer"].ans # "wait"
    /\ LET n == proc["composer"].n
           ver == proc["composer"].ver
           was == proc["composer"].was
       IN  CASE proc["composer"].ans = "ok" ->
                    /\ Put(n, ver, "synced") /\ Mark(n, "synced")
                    /\ pending' = pending \ {n}
             [] proc["composer"].ans = "offline" ->
                    /\ Put(n, ver, "dirty") /\ Mark(n, "dirty")
                    /\ pending' = pending \cup {n}
             [] proc["composer"].ans = "error" ->
                    /\ Show(n, was.ver, was.state)
                    /\ UNCHANGED <<cache, pending>>
    /\ Stop("composer")
    /\ UNCHANGED <<sync, serverVars, tomb, work, list, hub, fate>>

Composer ==
    \/ \E n \in Notes : Send(n) \/ Edit(n)
    \/ Persist \/ Posted \/ Keep \/ Patched

-----------------------------------------------------------------------------
(* The outbox is drained: by runFlush, by the Sync buttons, by the switch. *)

\* Mutation of Queue: a flush that takes up edits only.
EditsOnly == Read({"dirty"})

\* flushQueuedItems: what it takes up.
Queue == Read({"queued", "dirty"})

Take(p, rows) ==
    /\ Goto(p, "rows")
    /\ work' = [work EXCEPT ![p] = rows]

\* runFlush: on hello, on coming online, on waking up.
Flush ==
    /\ MayStart("flush") /\ sync
    /\ Take("flush", Queue)
    /\ UNCHANGED <<sync, serverVars, cache, trayVars, list, hub, fate>>

\* Sync all, or Sync on one row: whatever is unsynced, held notes too.
SyncButton(rows) ==
    /\ MayStart("button") /\ rows # {}
    /\ Take("button", rows)
    /\ fate' = [n \in Notes |->
          IF \A r \in rows : r.n # n THEN fate[n]
          ELSE CASE fate[n] = "hushed" -> "owed"
                 [] fate[n] \in {"none", "asked", "forgotten"} -> "back"
                 [] OTHER -> fate[n]]
    /\ UNCHANGED <<sync, serverVars, cache, trayVars, list, hub>>

\* postCached: a dirty row is a PATCH, any other a POST.
PostCached(p) ==
    /\ proc[p].at = "rows"
    /\ \E r \in work[p] :
           /\ Ask(p, IF r.row.state = "dirty" THEN "patch" ELSE "post", r.n, r.row.ver, Blank)
           /\ work' = [work EXCEPT ![p] = @ \ {r}]
    /\ UNCHANGED <<sync, serverVars, cache, trayVars, list, hub, fate>>

\* Its answer: ok writes the row it read, as synced; offline ends the round.
PostedCached(p) ==
    /\ proc[p].at \in {"post", "patch"} /\ proc[p].ans # "wait"
    /\ IF proc[p].ans = "ok" THEN Put(proc[p].n, proc[p].ver, "synced") ELSE UNCHANGED cache
    /\ work' = IF proc[p].ans = "offline" THEN [work EXCEPT ![p] = {}] ELSE work
    /\ Goto(p, "rows")
    /\ UNCHANGED <<sync, serverVars, trayVars, list, hub, fate>>

\* The round is over: the tray adopts what the cache says (not the switch's page).
Drained(p) ==
    /\ proc[p].at = "rows" /\ work[p] = {}
    /\ Stop(p)
    /\ IF p = "account" THEN UNCHANGED <<pending, tray>>
       ELSE Adopt /\ tray' = ApplySyncState(tray, Read(Outboxed))
    /\ UNCHANGED <<sync, serverVars, cache, tomb, work, list, hub, fate>>

\* setSyncEnabled: off is one write; on also reads all rows to release the held.
SwitchOff ==
    /\ MayStart("account") /\ sync
    /\ sync' = FALSE
    /\ UNCHANGED <<serverVars, cache, trayVars, proc, work, list, hub, fate>>

SwitchOn ==
    /\ MayStart("account") /\ ~sync
    /\ sync' = TRUE
    /\ Goto("account", "release")
    /\ work' = [work EXCEPT !["account"] = Read({"synced"} \cup Outboxed)]
    /\ Turn(Notes, {"hushed"}, "owed")
    /\ UNCHANGED <<serverVars, cache, trayVars, list, hub>>

\* releaseHeld: each row is written back as it was read, a held one as queued.
Release ==
    /\ proc["account"].at = "release"
    /\ \E r \in work["account"] :
           /\ Put(r.n, r.row.ver, IF r.row.state = "held" THEN "queued" ELSE r.row.state)
           /\ work' = [work EXCEPT !["account"] = @ \ {r}]
    /\ UNCHANGED <<sync, serverVars, trayVars, proc, list, hub, fate>>

Released ==
    /\ proc["account"].at = "release" /\ work["account"] = {}
    /\ \/ sync /\ Take("account", Queue)
       \/ Stop("account") /\ UNCHANGED work
    /\ UNCHANGED <<sync, serverVars, cache, trayVars, list, hub, fate>>

Buttons ==
    \/ SyncButton(Read(Outboxed))
    \/ \E r \in Read(Outboxed) : SyncButton({r})
    \/ SwitchOff \/ SwitchOn

Drain ==
    \/ Flush \/ Release \/ Released
    \/ \E p \in Posters : PostCached(p) \/ PostedCached(p) \/ Drained(p)

-----------------------------------------------------------------------------
(* Forget and Undo. *)

\* onForget: off the tray at once, and kept off it for a while.
Forget(n) ==
    /\ MayStart("forget") /\ n \in Shown
    /\ Show(n, 0, "none")
    /\ pending' = pending \ {n}
    /\ tomb' = tomb \cup {n}
    /\ proc' = [proc EXCEPT !["forget"] =
                   [at |-> "forgetting", n |-> n, ver |-> 0, was |-> tray[n], ans |-> "none"]]
    /\ UNCHANGED <<sync, serverVars, cache, work, list, hub, fate>>

\* commitForget: the row goes; the server is asked only if it may have the note.
ForgetRow ==
    /\ proc["forget"].at = "forgetting"
    /\ LET n == proc["forget"].n
           was == proc["forget"].was
           here == {cache[n].state, was.state}
       IN  /\ Put(n, 0, "none")
           /\ fate' = [fate EXCEPT ![n] = CASE @ \in Due -> "forgotten"
                                            [] @ = "sent" -> "none"
                                            [] OTHER -> @]
           /\ IF here \cap {"queued", "held"} = {} THEN Ask("forget", "delete", n, 0, was)
              ELSE proc' = [proc EXCEPT !["forget"].at = "undo", !["forget"].ans = "ok"]
    /\ UNCHANGED <<sync, serverVars, trayVars, work, list, hub>>

Forgotten ==
    /\ proc["forget"].at = "delete" /\ proc["forget"].ans # "wait"
    /\ proc' = [proc EXCEPT !["forget"].at = "undo"]
    /\ UNCHANGED <<sync, serverVars, cache, trayVars, work, list, hub, fate>>

\* onUndoForget: back into the outbox, or posted again with its old id.
Undo ==
    /\ proc["forget"].at = "undo"
    /\ LET n == proc["forget"].n
           was == proc["forget"].was
           back == IF n \in Shown THEN tray ELSE [tray EXCEPT ![n] = was]
       IN  /\ tomb' = tomb \ {n}
           /\ IF proc["forget"].ans # "ok"
              THEN /\ tray' = back
                   /\ fate' = [fate EXCEPT ![n] = CASE @ \in Due -> "back"
                                                    [] @ = "sent" -> "none"
                                                    [] OTHER -> @]
                   /\ Stop("forget")
                   /\ UNCHANGED <<pending, cache>>
              ELSE /\ pending' = pending \cup {n}
                   /\ IF was.state \in {"queued", "held"}
                      THEN /\ Put(n, was.ver, was.state)
                           /\ tray' = back
                           /\ Turn({n}, {"none", "sent", "forgotten"}, "back")
                           /\ Stop("forget")
                      ELSE /\ Ask("forget", "post", n, was.ver, was)
                           /\ fate' = [fate EXCEPT ![n] =
                                  CASE @ \in {"none", "sent", "forgotten"} -> "asked"
                                    [] @ \in Due -> "back"
                                    [] OTHER -> @]
                           /\ UNCHANGED <<cache, tray>>
    /\ UNCHANGED <<sync, serverVars, work, list, hub>>

Undone ==
    /\ proc["forget"].at = "post" /\ proc["forget"].ans # "wait"
    /\ LET n == proc["forget"].n
           was == proc["forget"].was
       IN  IF proc["forget"].ans = "error" THEN UNCHANGED <<tray, cache, fate>>
           ELSE /\ tray' = IF n \in Shown THEN tray ELSE [tray EXCEPT ![n] = was]
                /\ IF proc["forget"].ans = "offline"
                   THEN Put(n, was.ver, "queued") /\ Turn({n}, {"asked"}, "back")
                   ELSE UNCHANGED <<cache, fate>>
    /\ Stop("forget")
    /\ UNCHANGED <<sync, serverVars, pending, tomb, work, list, hub>>

\* The offer to undo lapses, and so does, later, the tombstone.
UndoLapses ==
    /\ proc["forget"].at = "undo"
    /\ Stop("forget")
    /\ UNCHANGED <<sync, serverVars, cache, trayVars, work, list, hub, fate>>

TombLapses(n) ==
    /\ n \in tomb /\ proc["forget"].n # n
    /\ tomb' = tomb \ {n}
    /\ UNCHANGED <<sync, serverVars, cache, tray, pending, proc, work, list, hub,
                   fate>>

Forgetting ==
    \/ \E n \in Notes : Forget(n) \/ TombLapses(n)
    \/ ForgetRow \/ Forgotten \/ Undo \/ Undone \/ UndoLapses

-----------------------------------------------------------------------------
(* refreshItems: on hello, on waking up, and by the poll. *)

Refresh ==
    /\ MayStart("refresh")
    /\ Ask("refresh", "get", NoNote, 0, Blank)
    /\ UNCHANGED <<sync, serverVars, cache, trayVars, work, list, hub, fate>>

\* Mutation of Upserts: every row that is not in the list goes.
UnlistedGo ==
    {[n |-> n, row |-> Blank] :
        n \in {m \in Notes : cache[m].state # "none" /\ list[m] = 0}} \cup
    {[n |-> n, row |-> [ver |-> list[n], state |-> "synced"]] :
        n \in {m \in Notes : list[m] # 0 /\ cache[m].state \notin Outboxed}}

\* upsertSyncedFromRemote reads the cache once and then writes row by row: what
\* is synced and not in the list goes, what is in the list and not unsynced here
\* is written.
Upserts ==
    {[n |-> n, row |-> Blank] :
        n \in {m \in Notes : cache[m].state = "synced" /\ list[m] = 0}} \cup
    {[n |-> n, row |-> [ver |-> list[n], state |-> "synced"]] :
        n \in {m \in Notes : list[m] # 0 /\ cache[m].state \notin Outboxed}}

Listed ==
    /\ Answered("refresh", "get", "ok")
    /\ Goto("refresh", "upsert")
    /\ work' = [work EXCEPT !["refresh"] = Upserts]
    /\ UNCHANGED <<sync, serverVars, cache, trayVars, list, hub, fate>>

Upsert ==
    /\ proc["refresh"].at = "upsert"
    /\ \E r \in work["refresh"] :
           /\ Put(r.n, r.row.ver, r.row.state)
           /\ work' = [work EXCEPT !["refresh"] = @ \ {r}]
    /\ UNCHANGED <<sync, serverVars, trayVars, proc, list, hub, fate>>

\* pruneExpiredCachedItems and adoptPending; the decryption of what is to be shown
\* comes between this and the tray.
Prune(place) ==
    /\ Adopt
    /\ Goto("refresh", place)
    /\ work' = [work EXCEPT !["refresh"] = Read({"synced"} \cup Outboxed)]
    /\ UNCHANGED <<sync, serverVars, cache, tray, tomb, list, hub, fate>>

Upserted ==
    /\ proc["refresh"].at = "upsert" /\ work["refresh"] = {}
    /\ Prune("show")

\* Without an answer the tray is merged with the cache instead.
ListFailed ==
    /\ proc["refresh"].at = "get" /\ proc["refresh"].ans = "offline"
    /\ Prune("show cached")

CachedVersions(rows) ==
    [n \in Notes |-> IF \E r \in rows : r.n = n
                     THEN (CHOOSE r \in rows : r.n = n).row.ver ELSE 0]

\* A refresh is over, and so are its local values.
Shut ==
    /\ work' = [work EXCEPT !["refresh"] = {}]
    /\ list' = [n \in Notes |-> 0]

ShowItems ==
    /\ proc["refresh"].at \in {"show", "show cached"}
    /\ LET rows == work["refresh"]
           read == IF proc["refresh"].at = "show cached" THEN CachedVersions(rows)
                   ELSE list
       IN  tray' = ApplySyncState(Merge(read), rows)
    /\ Stop("refresh") /\ Shut
    /\ UNCHANGED <<sync, serverVars, cache, pending, tomb, hub, fate>>

\* A later refresh has taken a number of its own: this one shows nothing.
Superseded ==
    /\ proc["refresh"].at \in {"get", "show", "show cached"}
    /\ Stop("refresh") /\ Shut
    /\ UNCHANGED <<sync, serverVars, cache, trayVars, hub, fate>>

Refreshing ==
    \/ Refresh \/ Listed \/ Upsert \/ Upserted \/ ListFailed \/ ShowItems \/ Superseded

-----------------------------------------------------------------------------
(* The hub's envelopes, and the end of the page. *)

Deliver(m) ==
    /\ hub' = hub \ {m}
    /\ CASE m.kind = "created" ->
              /\ IF m.n \in Shown THEN UNCHANGED tray ELSE Show(m.n, m.ver, "synced")
              /\ UNCHANGED <<cache, pending>>
         [] m.kind = "updated" ->
              /\ Put(m.n, m.ver, "synced")
              /\ pending' = pending \ {m.n}
              /\ Show(m.n, m.ver, "synced")
         [] m.kind = "deleted" ->
              /\ Show(m.n, 0, "none")
              /\ UNCHANGED <<cache, pending>>
    /\ UNCHANGED <<sync, serverVars, tomb, proc, work, list, fate>>

Lose(m) ==
    /\ hub' = hub \ {m}
    /\ UNCHANGED <<sync, serverVars, cache, trayVars, proc, work, list, fate>>

\* The page is closed or crashes, and is opened again on what IndexedDB holds.
Reload ==
    /\ tray' = cache
    /\ pending' = Unsynced
    /\ tomb' = {} /\ hub' = {}
    /\ proc' = [p \in Handlers |-> Idle]
    /\ work' = [p \in Handlers |-> {}]
    /\ list' = [n \in Notes |-> 0]
    /\ Turn(Notes, {"sent"}, "none")
    /\ UNCHANGED <<sync, serverVars, cache>>

-----------------------------------------------------------------------------

Browser == Composer \/ Buttons \/ Drain \/ Forgetting \/ Refreshing \/ Reload

World ==
    \/ \E p \in Handlers : Serve(p) \/ Miss(p)
    \/ \E n \in Notes : RemoteEdit(n) \/ RemoteForget(n)
    \/ \E m \in hub : Deliver(m) \/ Lose(m)

Next == Browser \/ World

\* The network comes back, the page wakes up, and a request that is sent again
\* and again is served once.
Fairness ==
    /\ SF_vars(Flush) /\ SF_vars(PostCached("flush")) /\ SF_vars(Serve("flush"))
    /\ WF_vars(PostedCached("flush")) /\ WF_vars(Drained("flush"))

Spec == Init /\ [][Next]_vars

FairSpec == Spec /\ Fairness

-----------------------------------------------------------------------------
(* Properties. *)

Places == {"idle", "persist", "rewrite", "dirty", "post", "patch", "delete", "get", "rows",
           "release", "forgetting", "undo", "upsert", "show", "show cached"}
ProcState ==
    [at : Places, n : Notes \cup {NoNote}, ver : 0 .. MaxVer, was : Row,
     ans : {"none", "wait", "ok", "error", "offline"}]
HeldRow == [n : Notes, row : Row]
Envelope == [kind : {"created", "updated", "deleted"}, n : Notes, ver : 0 .. MaxVer]
Fates == {"none", "sent", "owed", "hushed", "back", "forgotten", "asked", "stored"}

HandlersOK ==
    /\ proc \in [Handlers -> ProcState]
    /\ work \in [Handlers -> SUBSET HeldRow]

TablesOK ==
    /\ sync \in BOOLEAN
    /\ srv \in [Notes -> 0 .. MaxVer] /\ next \in [Notes -> 0 .. MaxVer]
    /\ cache \in [Notes -> Row] /\ tray \in [Notes -> Row]
    /\ pending \subseteq Notes /\ tomb \subseteq Notes
    /\ list \in [Notes -> 0 .. MaxVer]
    /\ hub \subseteq Envelope
    /\ fate \in [Notes -> Fates]

TypeOK == TablesOK /\ HandlersOK

\* A note that was sent stays in the outbox until the server has stored it or
\* the user forgets it, in whatever order flushes, refreshes, envelopes, edits
\* and reloads run.
SentNoteKept == \A n \in Notes : fate[n] \in Due => n \in Unsynced

\* "Off: nothing is written to Neon until the user says so": what was saved with
\* Sync off is stored by no flush, switch or late answer before the user turns
\* Sync on, taps it for the note, or takes its Forget back.
OffStaysHere == [][\A n \in Notes : fate[n] = "hushed" => fate'[n] # "stored"]_vars

\* "Notes this browser wrote that a slower GET must not drop": a note that was
\* sent stays on the tray, from its Send on, until the server has stored or
\* refused it or the user forgets it.  A list asked for before it was written, rows
\* read before its own was, a late answer or envelope, or a reload takes it off
\* at no moment.  (A note that came back after a Forget or a refusal may have lost
\* its place among the pending ids: of those, "back" and "asked", this says nothing.)
Fresh(n) == fate[n] \in {"sent", "owed", "hushed"}
StaysInTray ==
    [][\A n \in Notes : n \in Shown /\ Fresh(n) /\ Fresh(n)'
                        => n \in Shown' \/ proc'["forget"].n = n]_vars

\* On: a note waiting in the queue is stored in the end, without an extra tap.
QueueDrains ==
    \A n \in Notes :
        (fate[n] \in Owed /\ cache[n].state = "queued")
            ~> (fate[n] \notin Owed \/ cache[n].state # "queued" \/ ~sync)

=============================================================================
