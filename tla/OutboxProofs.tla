---------------------------- MODULE OutboxProofs ----------------------------
(***************************************************************************)
(* Proofs about Outbox for any number of notes, versions and envelopes,    *)
(* and for any handlers under way at the same time.                        *)
(***************************************************************************)
EXTENDS Outbox, TLAPS

PlacesOf(p) ==
    {"idle"} \cup
    CASE p = "composer" -> {"persist", "rewrite", "dirty", "post", "patch"}
      [] p \in {"flush", "button"} -> {"rows", "post", "patch"}
      [] p = "account" -> {"release", "rows", "post", "patch"}
      [] p = "forget" -> {"forgetting", "delete", "undo", "post"}
      [] p = "refresh" -> {"get", "upsert", "show", "show cached"}

\* What a handler waits for tells what it holds: the note it is about, a text to
\* write, a note that was shown ...
HandlerFits(p, h) ==
    /\ h.at \in PlacesOf(p)
    /\ h.at \in {"persist", "rewrite", "dirty", "post", "patch"} => h.n \in Notes /\ h.ver # 0
    /\ h.at \in {"post", "patch", "delete", "get"} => h.ans # "none"
    /\ p = "forget" /\ h.at # "idle" => h.n \in Notes /\ h.was.state # "none"
    /\ h.at = "rewrite" => h.was.state \in {"queued", "held"}

\* ... and the rows: unsynced ones to post, others to write back.
RowsFit(p, at, rows) ==
    /\ p \in Posters /\ at # "release" => \A r \in rows : r.row.state \in Outboxed
    /\ p = "account" \/ at \in {"show", "show cached"} => \A r \in rows : r.row.state # "none"
    /\ at = "upsert" => \A r \in rows : r.row.state \notin Outboxed

HandlersSound ==
    /\ HandlersOK
    /\ \A p \in Handlers : HandlerFits(p, proc[p]) /\ RowsFit(p, proc[p].at, work[p])

TablesSound ==
    /\ TablesOK
    /\ \A m \in hub : m.kind # "deleted" => m.ver # 0

Typed == TablesSound /\ HandlersSound

-----------------------------------------------------------------------------
(* Lemmas about single definitions. *)

LEMMA Rows ==
    /\ Blank \in Row
    /\ [ver |-> 0, state |-> "none"] \in Row
    /\ 1 \in 1 .. MaxVer
    /\ \A v \in 1 .. MaxVer : v \in 0 .. MaxVer /\ v # 0
    /\ \A v \in 0 .. MaxVer : v # 0 => v \in 1 .. MaxVer
    /\ \A v \in 1 .. MaxVer, s \in {"synced"} \cup Outboxed : [ver |-> v, state |-> s] \in Row
    /\ \A r \in Row : /\ r = [ver |-> r.ver, state |-> r.state]
                      /\ r.ver \in 0 .. MaxVer
                      /\ r.state \in {"none", "synced"} \cup Outboxed
                      /\ (r.ver = 0) = (r.state = "none")
BY BoundsAssumption DEF Row, Blank, Outboxed

LEMMA PlacesKnown ==
    /\ \A p \in Handlers : "idle" \in PlacesOf(p)
    /\ {"persist", "rewrite", "dirty", "post", "patch"} \subseteq PlacesOf("composer")
    /\ \A p \in Posters : {"rows", "post", "patch"} \subseteq PlacesOf(p)
    /\ "release" \in PlacesOf("account")
    /\ {"forgetting", "delete", "undo", "post"} \subseteq PlacesOf("forget")
    /\ {"get", "upsert", "show", "show cached"} \subseteq PlacesOf("refresh")
BY DEF PlacesOf, Handlers, Posters

LEMMA PutTyped ==
    ASSUME TablesOK, NEW n \in Notes, NEW ver, NEW state, [ver |-> ver, state |-> state] \in Row,
           Put(n, ver, state)
    PROVE  cache' \in [Notes -> Row]
BY DEF TablesOK, Put

LEMMA ShowTyped ==
    ASSUME TablesOK, NEW n \in Notes, NEW ver, NEW state, [ver |-> ver, state |-> state] \in Row,
           Show(n, ver, state)
    PROVE  tray' \in [Notes -> Row]
BY DEF TablesOK, Show

LEMMA MarkTyped ==
    ASSUME TablesOK, NEW n \in Notes, NEW state \in {"synced"} \cup Outboxed, Mark(n, state)
    PROVE  tray' \in [Notes -> Row]
<1>1. CASE n \notin Shown
  BY <1>1 DEF TablesOK, Mark
<1>2. CASE n \in Shown
  <2>1. tray[n].ver \in 1 .. MaxVer
    BY <1>2, Rows DEF Shown, TablesOK
  <2>2. [tray[n] EXCEPT !.state = state] = [ver |-> tray[n].ver, state |-> state]
    BY Rows DEF TablesOK
  <2> QED BY <1>2, <2>1, <2>2, Rows DEF Mark, TablesOK
<1> QED BY <1>1, <1>2

LEMMA TurnTyped ==
    ASSUME TablesOK, NEW N, NEW from, NEW to \in Fates, Turn(N, from, to)
    PROVE  fate' \in [Notes -> Fates]
BY DEF TablesOK, Turn

LEMMA PublishTyped ==
    ASSUME TablesSound, NEW kind \in {"created", "updated", "deleted"}, NEW n \in Notes,
           NEW ver \in 0 .. MaxVer, kind # "deleted" => ver # 0, Publish(kind, n, ver)
    PROVE  hub' \subseteq Envelope /\ \A m \in hub' : m.kind # "deleted" => m.ver # 0
BY DEF TablesSound, TablesOK, Publish, Envelope

LEMMA ApplyTyped ==
    ASSUME NEW shown \in [Notes -> Row], NEW rows \in SUBSET HeldRow,
           \A r \in rows : r.row.state # "none"
    PROVE  ApplySyncState(shown, rows) \in [Notes -> Row]
<1>1. ASSUME NEW n \in Notes PROVE SyncState(n, rows) \in {"synced"} \cup Outboxed
  <2>1. ASSUME NEW r \in rows, r.n = n, r.row.state \in Outboxed
        PROVE  (CHOOSE q \in rows : q.n = n).row.state \in {"synced"} \cup Outboxed
    BY <2>1, Rows DEF HeldRow
  <2> QED BY <2>1 DEF SyncState
<1> QED BY <1>1, Rows DEF ApplySyncState

LEMMA ReadTyped ==
    ASSUME TablesOK, NEW states, "none" \notin states
    PROVE  /\ Read(states) \subseteq HeldRow
           /\ \A r \in Read(states) : r.row = cache[r.n] /\ r.row.state \in states
BY DEF Read, HeldRow, TablesOK

\* One handler goes on, with the rows it has or with others.
LEMMA Moved ==
    ASSUME HandlersSound, NEW p \in Handlers, NEW h \in ProcState, NEW rows \in SUBSET HeldRow,
           HandlerFits(p, h), RowsFit(p, h.at, rows),
           proc' = [proc EXCEPT ![p] = h], work' = [work EXCEPT ![p] = rows]
    PROVE  HandlersSound'
BY DEF HandlersSound, HandlersOK

LEMMA Stepped ==
    ASSUME HandlersSound, NEW p \in Handlers, NEW h \in ProcState,
           HandlerFits(p, h), RowsFit(p, h.at, work[p]),
           proc' = [proc EXCEPT ![p] = h], work' = work
    PROVE  HandlersSound'
BY DEF HandlersSound, HandlersOK

LEMMA Waited ==
    ASSUME HandlersSound, UNCHANGED <<proc, work>>
    PROVE  HandlersSound'
BY DEF HandlersSound, HandlersOK

LEMMA IdleFits ==
    \A p \in Handlers : /\ Idle \in ProcState /\ Idle.at = "idle"
                        /\ HandlerFits(p, Idle)
BY PlacesKnown, Rows, BoundsAssumption DEF HandlerFits, Idle, ProcState, Places

\* A handler that is over keeps no row it could write.
LEMMA Stopped ==
    ASSUME HandlersSound, NEW p \in Handlers, Stop(p), work' = work, proc[p].at # "release"
    PROVE  HandlersSound'
<1>1. RowsFit(p, "idle", work[p])
  BY DEF RowsFit, HandlersSound
<1> QED BY <1>1, IdleFits, Stepped DEF Stop

\* A request, with an answer to come.
LEMMA Asked ==
    ASSUME HandlersSound, NEW p \in Handlers, NEW verb \in {"post", "patch", "delete", "get"},
           NEW n \in Notes \cup {NoNote}, NEW ver \in 0 .. MaxVer, NEW was \in Row,
           verb \in PlacesOf(p), Ask(p, verb, n, ver, was),
           verb \in {"post", "patch"} => n \in Notes /\ ver # 0,
           p = "forget" => n \in Notes /\ was.state # "none"
    PROVE  /\ work' = work /\ (p \in Posters => proc[p].at # "release") => HandlersSound'
           /\ \A rows \in SUBSET work[p] : p \in Posters /\ proc[p].at # "release"
                 /\ work' = [work EXCEPT ![p] = rows] => HandlersSound'
<1> DEFINE h == [at |-> verb, n |-> n, ver |-> ver, was |-> was, ans |-> "wait"]
<1>1. h \in ProcState /\ HandlerFits(p, h)
  BY DEF ProcState, Places, HandlerFits
<1>2. proc' = [proc EXCEPT ![p] = h]
  BY DEF Ask
<1>3. ASSUME work' = work, p \in Posters => proc[p].at # "release" PROVE HandlersSound'
  <2>1. RowsFit(p, verb, work[p])
    BY <1>3 DEF RowsFit, HandlersSound, Posters
  <2> QED BY <1>1, <1>2, <1>3, <2>1, Stepped
<1>4. ASSUME NEW rows \in SUBSET work[p], p \in Posters, proc[p].at # "release",
             work' = [work EXCEPT ![p] = rows]
      PROVE HandlersSound'
  <2>1. RowsFit(p, verb, rows) /\ rows \in SUBSET HeldRow
    BY <1>4 DEF RowsFit, HandlersSound, HandlersOK, Posters
  <2> QED BY <1>1, <1>2, <1>4, <2>1, Moved
<1> QED BY <1>3, <1>4

\* An answer changes nothing else.
LEMMA Replied ==
    ASSUME HandlersSound, NEW p \in Handlers, NEW ans \in {"ok", "error", "offline"},
           Reply(p, ans), work' = work
    PROVE  HandlersSound'
<1> DEFINE h == [proc[p] EXCEPT !.ans = ans]
<1>1. proc[p] \in ProcState /\ HandlerFits(p, proc[p]) /\ RowsFit(p, proc[p].at, work[p])
  BY DEF HandlersSound, HandlersOK
<1>2. h \in ProcState /\ h.at = proc[p].at /\ h.n = proc[p].n /\ h.ver = proc[p].ver /\ h.was = proc[p].was
  BY <1>1 DEF ProcState
<1>3. HandlerFits(p, h)
  BY <1>1, <1>2 DEF HandlerFits
<1> QED BY <1>1, <1>2, <1>3, Stepped DEF Reply

\* A handler that takes up rows, or goes on to what it does with them.
LEMMA Taken ==
    ASSUME HandlersSound, NEW p \in Handlers, NEW rows \in SUBSET HeldRow, NEW place \in Places,
           place \in PlacesOf(p), RowsFit(p, place, rows), Goto(p, place),
           place \in {"rows", "release", "upsert", "show", "show cached"}, p # "forget",
           work' = [work EXCEPT ![p] = rows]
    PROVE  HandlersSound'
<1> DEFINE h == [Idle EXCEPT !.at = place]
<1>1. h \in ProcState /\ h.at = place
  BY Rows DEF Idle, ProcState
<1>2. HandlerFits(p, h)
  BY <1>1 DEF HandlerFits
<1> QED BY <1>1, <1>2, Moved DEF Goto

-----------------------------------------------------------------------------
(* Type correctness, group by group. *)

LEMMA ComposerTyped == ASSUME Typed, Composer PROVE Typed'
<1> USE DEF Typed
<1> DEFINE c == proc["composer"]
<1>0. /\ c \in ProcState /\ HandlerFits("composer", c) /\ "composer" \in Handlers
      /\ "composer" \notin Posters
  BY DEF HandlersSound, HandlersOK, Handlers, Posters
<1>1. ASSUME NEW n \in Notes, Send(n) PROVE Typed'
  <2> DEFINE h == [at |-> "persist", n |-> n, ver |-> 1, was |-> Blank, ans |-> "none"]
  <2>1. h \in ProcState /\ HandlerFits("composer", h) /\ RowsFit("composer", "persist", work["composer"])
    BY Rows, PlacesKnown DEF ProcState, Places, HandlerFits, RowsFit, Posters
  <2>2. HandlersSound'
    BY <1>0, <1>1, <2>1, Stepped DEF Send
  <2>3. tray' \in [Notes -> Row]
    BY <1>1, Rows, ShowTyped DEF Send, TablesSound
  <2>4. next' \in [Notes -> 0 .. MaxVer]
    BY <1>1, Rows DEF Send, Write, TablesSound, TablesOK
  <2>5. fate' \in [Notes -> Fates]
    BY <1>1, TurnTyped DEF Send, TablesSound, Fates
  <2> QED BY <1>1, <2>2, <2>3, <2>4, <2>5 DEF Send, TablesSound, TablesOK
<1>2. ASSUME NEW n \in Notes, Edit(n) PROVE Typed'
  <2>1. next[n] + 1 \in 1 .. MaxVer /\ tray[n] \in Row /\ tray[n].state \in {"synced"} \cup Outboxed
    BY <1>2, Rows, BoundsAssumption DEF Edit, TablesSound, TablesOK, Shown
  <2>2. tray' \in [Notes -> Row]
    BY <1>2, <2>1, Rows, ShowTyped DEF Edit, TablesSound
  <2>3. next' \in [Notes -> 0 .. MaxVer]
    BY <1>2, <2>1, Rows DEF Edit, Write, TablesSound, TablesOK
  <2>4. HandlersSound'
    <3>1. PICK intent \in EditIntents(n) :
             proc' = [proc EXCEPT !["composer"] =
                        [at |-> intent, n |-> n, ver |-> next[n] + 1, was |-> tray[n],
                         ans |-> IF intent = "patch" THEN "wait" ELSE "none"]]
      BY <1>2 DEF Edit
    <3> DEFINE h == [at |-> intent, n |-> n, ver |-> next[n] + 1, was |-> tray[n],
                     ans |-> IF intent = "patch" THEN "wait" ELSE "none"]
    <3>2. /\ intent \in {"rewrite", "patch", "dirty"}
          /\ intent = "rewrite" => tray[n].state \in {"queued", "held"}
      BY DEF EditIntents
    <3>3. h \in ProcState
      BY <2>1, <3>2, Rows DEF ProcState, Places
    <3>4. HandlerFits("composer", h)
      BY <2>1, <3>2, PlacesKnown, Rows DEF HandlerFits
    <3>5. RowsFit("composer", h.at, work["composer"])
      BY <3>2 DEF RowsFit, Posters
    <3> QED BY <1>0, <1>2, <3>1, <3>3, <3>4, <3>5, Stepped DEF Edit
  <2> QED BY <1>2, <2>2, <2>3, <2>4 DEF Edit, TablesSound, TablesOK
<1>3. ASSUME Persist PROVE Typed'
  <2> DEFINE state == IF sync THEN "queued" ELSE "held"
  <2>1. c.n \in Notes
    BY <1>0, <1>3 DEF Persist, HandlerFits
  <2>2. cache' \in [Notes -> Row]
    BY <1>3, <2>1, Rows, PutTyped DEF Persist, TablesSound, Outboxed
  <2>3. tray' \in [Notes -> Row]
    BY <1>3, <2>1, MarkTyped DEF Persist, TablesSound, Outboxed
  <2>4. fate' \in [Notes -> Fates]
    BY <1>3, <2>1 DEF Persist, Owe, Fates, TablesSound, TablesOK
  <2>5. HandlersSound'
    <3>1. CASE Ask("composer", "post", c.n, 1, Blank)
      BY <1>0, <1>3, <2>1, <3>1, Asked, Rows, PlacesKnown DEF Persist
    <3>2. CASE Stop("composer")
      BY <1>0, <1>3, <3>2, Stopped DEF Persist
    <3> QED BY <1>3, <3>1, <3>2 DEF Persist
  <2> QED BY <1>3, <2>2, <2>3, <2>4, <2>5 DEF Persist, TablesSound, TablesOK, serverVars
<1>4. ASSUME Posted PROVE Typed'
  <2>1. c.n \in Notes
    BY <1>0, <1>4 DEF Posted, HandlerFits
  <2>2. HandlersSound'
    BY <1>0, <1>4, Stopped DEF Posted
  <2>3. /\ cache' \in [Notes -> Row] /\ tray' \in [Notes -> Row] /\ fate' \in [Notes -> Fates]
    <3>1. CASE c.ans = "ok"
      <4>1. cache' \in [Notes -> Row]
        BY <1>4, <2>1, <3>1, Rows, PutTyped DEF Posted, TablesSound
      <4>2. tray' \in [Notes -> Row]
        BY <1>4, <2>1, <3>1, MarkTyped DEF Posted, TablesSound
      <4> QED BY <1>4, <3>1, <4>1, <4>2 DEF Posted, TablesSound, TablesOK
    <3>2. CASE c.ans = "error"
      <4>1. cache' \in [Notes -> Row] /\ tray' \in [Notes -> Row]
        BY <1>4, <2>1, <3>2, Rows, PutTyped, ShowTyped DEF Posted, TablesSound
      <4>2. fate' \in [Notes -> Fates]
        BY <1>4, <3>2, TurnTyped DEF Posted, TablesSound, Fates
      <4> QED BY <4>1, <4>2
    <3>3. CASE c.ans = "offline"
      BY <1>4, <3>3 DEF Posted, TablesSound, TablesOK
    <3>4. c.ans \in {"ok", "error", "offline"}
      BY <1>0, <1>4 DEF Posted, HandlerFits, ProcState
    <3> QED BY <3>1, <3>2, <3>3, <3>4
  <2> QED BY <1>4, <2>2, <2>3 DEF Posted, TablesSound, TablesOK, serverVars
<1>5. ASSUME Keep PROVE Typed'
  <2> DEFINE state == IF c.at = "rewrite" THEN c.was.state ELSE "dirty"
  <2>1. c.n \in Notes /\ c.ver \in 1 .. MaxVer /\ state \in Outboxed
    BY <1>0, <1>5, Rows DEF Keep, HandlerFits, ProcState, Outboxed
  <2>2. cache' \in [Notes -> Row]
    BY <1>5, <2>1, Rows, PutTyped DEF Keep, TablesSound
  <2>3. tray' \in [Notes -> Row]
    BY <1>5, <2>1, MarkTyped DEF Keep, TablesSound
  <2>4. HandlersSound'
    BY <1>0, <1>5, Stopped DEF Keep
  <2> QED BY <1>5, <2>1, <2>2, <2>3, <2>4 DEF Keep, TablesSound, TablesOK, serverVars
<1>6. ASSUME Patched PROVE Typed'
  <2>1. c.n \in Notes /\ c.ver \in 1 .. MaxVer /\ c.was \in Row
    BY <1>0, <1>6, Rows DEF Patched, HandlerFits, ProcState
  <2>2. HandlersSound'
    BY <1>0, <1>6, Stopped DEF Patched
  <2>3. cache' \in [Notes -> Row] /\ tray' \in [Notes -> Row] /\ pending' \subseteq Notes
    <3>1. CASE c.ans \in {"ok", "offline"}
      <4>1. PICK state \in {"synced", "dirty"} :
               Put(c.n, c.ver, state) /\ Mark(c.n, state) /\ pending' \subseteq pending \cup {c.n}
        BY <1>6, <3>1 DEF Patched
      <4>2. state \in {"synced"} \cup Outboxed
        BY DEF Outboxed
      <4>3. cache' \in [Notes -> Row]
        BY <2>1, <4>1, <4>2, Rows, PutTyped DEF TablesSound
      <4>4. tray' \in [Notes -> Row]
        BY <2>1, <4>1, <4>2, MarkTyped DEF TablesSound
      <4> QED BY <2>1, <4>1, <4>3, <4>4 DEF TablesSound, TablesOK
    <3>2. CASE c.ans = "error"
      BY <1>6, <2>1, <3>2, Rows, ShowTyped DEF Patched, TablesSound, TablesOK
    <3> QED BY <1>0, <1>6, <3>1, <3>2 DEF Patched, HandlerFits, ProcState
  <2> QED BY <1>6, <2>2, <2>3 DEF Patched, TablesSound, TablesOK, serverVars
<1> QED BY <1>1, <1>2, <1>3, <1>4, <1>5, <1>6 DEF Composer

LEMMA ButtonsTyped == ASSUME Typed, Buttons PROVE Typed'
<1> USE DEF Typed
<1>1. ASSUME NEW rows \in SUBSET Read(Outboxed), SyncButton(rows) PROVE Typed'
  <2>1. rows \in SUBSET HeldRow /\ \A r \in rows : r.row.state \in Outboxed
    BY ReadTyped DEF TablesSound, Outboxed
  <2>2. HandlersSound'
    <3>1. "button" \in Handlers /\ RowsFit("button", "rows", rows) /\ "rows" \in Places
          /\ "button" \in Posters
      BY <2>1 DEF Handlers, RowsFit, Places, Posters, Outboxed
    <3> QED BY <1>1, <2>1, <3>1, Taken, PlacesKnown DEF SyncButton, Take
  <2>3. fate' \in [Notes -> Fates]
    BY <1>1 DEF SyncButton, TablesSound, TablesOK, Fates
  <2> QED BY <1>1, <2>2, <2>3 DEF SyncButton, TablesSound, TablesOK, serverVars, trayVars
<1>2. ASSUME SwitchOff PROVE Typed'
  <2>1. HandlersSound'
    BY <1>2, Waited DEF SwitchOff
  <2> QED BY <1>2, <2>1 DEF SwitchOff, TablesSound, TablesOK, serverVars, trayVars
<1>3. ASSUME SwitchOn PROVE Typed'
  <2> DEFINE rows == Read({"synced"} \cup Outboxed)
  <2>1. rows \in SUBSET HeldRow /\ \A r \in rows : r.row.state # "none"
    BY ReadTyped DEF TablesSound, Outboxed
  <2>2. HandlersSound'
    <3>1. "account" \in Handlers /\ RowsFit("account", "release", rows) /\ "release" \in Places
      BY <2>1 DEF Handlers, RowsFit, Places
    <3> QED BY <1>3, <2>1, <3>1, Taken, PlacesKnown DEF SwitchOn
  <2>3. fate' \in [Notes -> Fates]
    BY <1>3, TurnTyped DEF SwitchOn, TablesSound, Fates
  <2> QED BY <1>3, <2>2, <2>3 DEF SwitchOn, TablesSound, TablesOK, serverVars, trayVars
<1>4. \A r \in Read(Outboxed) : {r} \in SUBSET Read(Outboxed)
  OBVIOUS
<1> QED BY <1>1, <1>2, <1>3, <1>4 DEF Buttons

LEMMA DrainTyped == ASSUME Typed, Drain PROVE Typed'
<1> USE DEF Typed
<1>0. /\ \A p \in Handlers : /\ proc[p] \in ProcState /\ HandlerFits(p, proc[p])
                            /\ RowsFit(p, proc[p].at, work[p]) /\ work[p] \in SUBSET HeldRow
      /\ Posters \subseteq Handlers /\ "forget" \notin Posters
      /\ "flush" \in Posters /\ "account" \in Posters
  BY DEF HandlersSound, HandlersOK, Handlers, Posters
<1>1. Queue \in SUBSET HeldRow /\ \A r \in Queue : r.row.state \in Outboxed
  BY ReadTyped DEF TablesSound, Queue, Outboxed
<1>2. \A p \in Posters : RowsFit(p, "rows", Queue) /\ "rows" \in Places
  BY <1>1 DEF RowsFit, Places, Posters, Outboxed
<1>3. ASSUME Flush PROVE Typed'
  <2>1. HandlersSound'
    BY <1>0, <1>1, <1>2, <1>3, Taken, PlacesKnown DEF Flush, Take
  <2> QED BY <1>3, <2>1 DEF Flush, TablesSound, TablesOK, serverVars, trayVars
<1>4. ASSUME Released PROVE Typed'
  <2>1. CASE Take("account", Queue)
    <3>1. HandlersSound'
      BY <1>0, <1>1, <1>2, <2>1, Taken, PlacesKnown DEF Take
    <3> QED BY <1>4, <3>1 DEF Released, TablesSound, TablesOK, serverVars, trayVars
  <2>2. CASE Stop("account") /\ UNCHANGED work
    <3>1. RowsFit("account", "idle", work["account"])
      BY <1>4 DEF RowsFit, Released
    <3>2. HandlersSound'
      BY <1>0, <2>2, <3>1, IdleFits, Stepped DEF Stop
    <3> QED BY <1>4, <3>2 DEF Released, TablesSound, TablesOK, serverVars, trayVars
  <2> QED BY <1>4, <2>1, <2>2 DEF Released
<1>5. ASSUME Release PROVE Typed'
  <2>1. PICK r \in work["account"] :
           /\ Put(r.n, r.row.ver, IF r.row.state = "held" THEN "queued" ELSE r.row.state)
           /\ work' = [work EXCEPT !["account"] = @ \ {r}]
    BY <1>5 DEF Release
  <2>2. r \in HeldRow /\ r.row.state # "none"
    BY <1>0, <2>1 DEF RowsFit
  <2>3. r.n \in Notes /\ r.row.ver \in 1 .. MaxVer /\ r.row.state \in {"synced"} \cup Outboxed
    BY <2>2, Rows DEF HeldRow
  <2>4. cache' \in [Notes -> Row]
    <3> DEFINE state == IF r.row.state = "held" THEN "queued" ELSE r.row.state
    <3>1. state \in {"synced"} \cup Outboxed
      BY <2>3 DEF Outboxed
    <3>2. [ver |-> r.row.ver, state |-> state] \in Row
      BY <2>3, <3>1, Rows
    <3> QED BY <2>1, <2>3, <3>2, PutTyped DEF TablesSound
  <2>5. HandlersSound'
    <3> DEFINE rows == work["account"] \ {r}
    <3>1. RowsFit("account", proc["account"].at, rows) /\ rows \in SUBSET HeldRow
      BY <1>0 DEF RowsFit
    <3>2. proc' = [proc EXCEPT !["account"] = proc["account"]]
      BY <1>5 DEF Release, HandlersSound, HandlersOK
    <3> QED BY <1>0, <2>1, <3>1, <3>2, Moved
  <2> QED BY <1>5, <2>4, <2>5 DEF Release, TablesSound, TablesOK, serverVars, trayVars
<1>6. ASSUME NEW p \in Posters, PostCached(p) PROVE Typed'
  <2>1. PICK r \in work[p] :
           /\ Ask(p, IF r.row.state = "dirty" THEN "patch" ELSE "post", r.n, r.row.ver, Blank)
           /\ work' = [work EXCEPT ![p] = work[p] \ {r}]
    BY <1>6 DEF PostCached
  <2>2. r \in HeldRow /\ r.row.state \in Outboxed
    BY <1>0, <1>6, <2>1 DEF RowsFit, PostCached
  <2>3. r.n \in Notes /\ r.row.ver \in 1 .. MaxVer
    BY <2>2, Rows DEF HeldRow, Outboxed
  <2>4. HandlersSound'
    <3> DEFINE verb == IF r.row.state = "dirty" THEN "patch" ELSE "post"
    <3>1. verb \in {"post", "patch"}
      OBVIOUS
    <3>2. /\ verb \in PlacesOf(p) /\ p \in Handlers /\ p # "forget" /\ Blank \in Row
          /\ work[p] \ {r} \in SUBSET work[p] /\ proc[p].at # "release"
          /\ r.row.ver \in 0 .. MaxVer /\ r.row.ver # 0
      BY <1>0, <1>6, <2>3, <3>1, PlacesKnown, Rows DEF PostCached
    <3> HIDE DEF verb
    <3> QED BY <2>1, <2>3, <3>1, <3>2, Asked DEF verb
  <2> QED BY <1>6, <2>4 DEF PostCached, TablesSound, TablesOK, serverVars, trayVars
<1>7. ASSUME NEW p \in Posters, PostedCached(p) PROVE Typed'
  <2>1. proc[p].n \in Notes /\ proc[p].ver \in 1 .. MaxVer /\ p \in Handlers
    BY <1>0, <1>7, Rows DEF PostedCached, HandlerFits, ProcState
  <2>2. cache' \in [Notes -> Row]
    BY <1>7, <2>1, Rows, PutTyped DEF PostedCached, TablesSound, TablesOK
  <2>3. HandlersSound'
    <3> DEFINE rows == IF proc[p].ans = "offline" THEN {} ELSE work[p]
    <3>1. work' = [work EXCEPT ![p] = rows]
      BY <1>0, <1>7, <2>1 DEF PostedCached, HandlersSound, HandlersOK
    <3>2. RowsFit(p, "rows", rows) /\ rows \in SUBSET HeldRow /\ "rows" \in Places /\ p # "forget"
      BY <1>0, <1>7, <2>1 DEF RowsFit, Places, PostedCached, Posters
    <3> HIDE DEF rows
    <3> QED BY <1>7, <2>1, <3>1, <3>2, Taken, PlacesKnown DEF PostedCached
  <2> QED BY <1>7, <2>2, <2>3 DEF PostedCached, TablesSound, TablesOK, serverVars, trayVars
<1>8. ASSUME NEW p \in Posters, Drained(p) PROVE Typed'
  <2>1. HandlersSound'
    BY <1>0, <1>8, Stopped DEF Drained
  <2>2. tray' \in [Notes -> Row]
    <3>1. Read(Outboxed) \in SUBSET HeldRow /\ \A r \in Read(Outboxed) : r.row.state # "none"
      BY ReadTyped DEF TablesSound, Outboxed
    <3>2. tray \in [Notes -> Row]
      BY DEF TablesSound, TablesOK
    <3> QED BY <1>8, <3>1, <3>2, ApplyTyped DEF Drained
  <2>3. pending' \subseteq Notes
    BY <1>8 DEF Drained, Adopt, Unsynced, Shown, TablesSound, TablesOK
  <2> QED BY <1>8, <2>1, <2>2, <2>3 DEF Drained, TablesSound, TablesOK, serverVars
<1> QED BY <1>3, <1>4, <1>5, <1>6, <1>7, <1>8 DEF Drain

LEMMA ForgettingTyped == ASSUME Typed, Forgetting PROVE Typed'
<1> USE DEF Typed
<1> DEFINE f == proc["forget"]
<1>0. /\ f \in ProcState /\ HandlerFits("forget", f) /\ "forget" \in Handlers
      /\ "forget" \notin Posters
  BY DEF HandlersSound, HandlersOK, Handlers, Posters
<1>1. f.at # "idle" => /\ f.n \in Notes /\ f.was \in Row /\ f.was.ver \in 1 .. MaxVer
                       /\ f.was.state \in {"synced"} \cup Outboxed
  BY <1>0, Rows DEF HandlerFits, ProcState
<1>2. ASSUME NEW n \in Notes, Forget(n) PROVE Typed'
  <2> DEFINE h == [at |-> "forgetting", n |-> n, ver |-> 0, was |-> tray[n], ans |-> "none"]
  <2>1. tray[n] \in Row /\ tray[n].state # "none"
    BY <1>2 DEF Forget, Shown, TablesSound, TablesOK
  <2>2. h \in ProcState /\ HandlerFits("forget", h) /\ RowsFit("forget", h.at, work["forget"])
    <3>1. 0 \in 0 .. MaxVer
      BY BoundsAssumption
    <3>2. h \in ProcState
      BY <2>1, <3>1 DEF ProcState, Places
    <3>3. HandlerFits("forget", h)
      BY <2>1, PlacesKnown DEF HandlerFits
    <3>4. RowsFit("forget", h.at, work["forget"])
      BY DEF RowsFit, Posters
    <3> QED BY <3>2, <3>3, <3>4
  <2>3. HandlersSound'
    BY <1>0, <1>2, <2>2, Stepped DEF Forget
  <2>4. tray' \in [Notes -> Row]
    BY <1>2, Rows, ShowTyped DEF Forget, TablesSound
  <2> QED BY <1>2, <2>3, <2>4 DEF Forget, TablesSound, TablesOK, serverVars
<1>3. ASSUME NEW n \in Notes, TombLapses(n) PROVE Typed'
  <2>1. HandlersSound'
    BY <1>3, Waited DEF TombLapses
  <2> QED BY <1>3, <2>1 DEF TombLapses, TablesSound, TablesOK, serverVars
<1>4. ASSUME ForgetRow PROVE Typed'
  <2>1. f.n \in Notes /\ f.was \in Row /\ f.was.state # "none"
    BY <1>0, <1>4 DEF ForgetRow, HandlerFits, ProcState
  <2>2. cache' \in [Notes -> Row]
    BY <1>4, <2>1, Rows, PutTyped DEF ForgetRow, TablesSound
  <2>3. fate' \in [Notes -> Fates]
    BY <1>4, <2>1 DEF ForgetRow, TablesSound, TablesOK, Fates
  <2>4. HandlersSound'
    <3>1. CASE Ask("forget", "delete", f.n, 0, f.was)
      <4>1. 0 \in 0 .. MaxVer
        BY BoundsAssumption
      <4>2. "delete" \in PlacesOf("forget") /\ "forget" \notin Posters /\ work' = work
        BY <1>0, <1>4, PlacesKnown DEF ForgetRow
      <4> QED BY <1>0, <2>1, <3>1, <4>1, <4>2, Asked
    <3>2. CASE proc' = [proc EXCEPT !["forget"].at = "undo", !["forget"].ans = "ok"]
      <4> DEFINE h == [f EXCEPT !.at = "undo", !.ans = "ok"]
      <4>1. h \in ProcState /\ HandlerFits("forget", h) /\ RowsFit("forget", h.at, work["forget"])
        BY <1>0, <2>1, PlacesKnown DEF ProcState, Places, HandlerFits, RowsFit, Posters
      <4>2. proc' = [proc EXCEPT !["forget"] = h]
        BY <3>2 DEF HandlersSound, HandlersOK
      <4> QED BY <1>0, <1>4, <4>1, <4>2, Stepped DEF ForgetRow
    <3> QED BY <1>4, <3>1, <3>2 DEF ForgetRow
  <2> QED BY <1>4, <2>2, <2>3, <2>4 DEF ForgetRow, TablesSound, TablesOK, serverVars, trayVars
<1>5. ASSUME Forgotten PROVE Typed'
  <2> DEFINE h == [f EXCEPT !.at = "undo"]
  <2>1. h \in ProcState /\ HandlerFits("forget", h) /\ RowsFit("forget", h.at, work["forget"])
    BY <1>0, <1>5, PlacesKnown DEF Forgotten, ProcState, Places, HandlerFits, RowsFit, Posters
  <2>2. HandlersSound'
    BY <1>0, <1>5, <2>1, Stepped DEF Forgotten
  <2> QED BY <1>5, <2>2 DEF Forgotten, TablesSound, TablesOK, serverVars, trayVars
<1>6. ASSUME Undo PROVE Typed'
  <2> DEFINE back == IF f.n \in Shown THEN tray ELSE [tray EXCEPT ![f.n] = f.was]
  <2>0. /\ f.n \in Notes /\ f.was \in Row /\ f.was.state # "none"
        /\ f.was = [ver |-> f.was.ver, state |-> f.was.state]
        /\ f.was.ver \in 0 .. MaxVer /\ f.was.ver # 0
    BY <1>0, <1>6, Rows DEF Undo, HandlerFits, ProcState
  <2>1. back \in [Notes -> Row] /\ tray \in [Notes -> Row]
    BY <2>0 DEF TablesSound, TablesOK
  <2>2. CASE f.ans # "ok"
    <3>1. HandlersSound'
      BY <1>0, <1>6, <2>2, Stopped DEF Undo
    <3>2. fate' \in [Notes -> Fates]
      BY <1>6, <2>0, <2>2 DEF Undo, TablesSound, TablesOK, Fates
    <3> QED BY <1>6, <2>1, <2>2, <3>1, <3>2 DEF Undo, TablesSound, TablesOK, serverVars
  <2>3. CASE f.ans = "ok" /\ f.was.state \in {"queued", "held"}
    <3>1. HandlersSound'
      BY <1>0, <1>6, <2>3, Stopped DEF Undo
    <3>2. cache' \in [Notes -> Row]
      BY <1>6, <2>0, <2>3, PutTyped DEF Undo, TablesSound
    <3>3. fate' \in [Notes -> Fates]
      BY <1>6, <2>3, TurnTyped DEF Undo, TablesSound, Fates
    <3> QED BY <1>6, <2>0, <2>1, <2>3, <3>1, <3>2, <3>3 DEF Undo, TablesSound, TablesOK, serverVars
  <2>4. CASE f.ans = "ok" /\ f.was.state \notin {"queued", "held"}
    <3>1. HandlersSound'
      BY <1>0, <1>6, <2>0, <2>4, Asked, PlacesKnown DEF Undo
    <3>2. fate' \in [Notes -> Fates]
      BY <1>6, <2>0, <2>4 DEF Undo, TablesSound, TablesOK, Fates
    <3> QED BY <1>6, <2>0, <2>1, <2>4, <3>1, <3>2 DEF Undo, TablesSound, TablesOK, serverVars
  <2> QED BY <2>2, <2>3, <2>4
<1>7. ASSUME Undone PROVE Typed'
  <2>0. f.n \in Notes /\ f.was \in Row /\ f.was.ver \in 1 .. MaxVer
    BY <1>0, <1>1, <1>7 DEF Undone
  <2>1. HandlersSound'
    BY <1>0, <1>7, Stopped DEF Undone
  <2>2. tray' \in [Notes -> Row]
    BY <1>7, <2>0 DEF Undone, TablesSound, TablesOK
  <2>3. cache' \in [Notes -> Row] /\ fate' \in [Notes -> Fates]
    <3>1. CASE Put(f.n, f.was.ver, "queued") /\ Turn({f.n}, {"asked"}, "back")
      BY <2>0, <3>1, Rows, PutTyped, TurnTyped DEF TablesSound, Outboxed, Fates
    <3>2. CASE UNCHANGED <<cache, fate>>
      BY <3>2 DEF TablesSound, TablesOK
    <3> QED BY <1>7, <3>1, <3>2 DEF Undone
  <2> QED BY <1>7, <2>1, <2>2, <2>3 DEF Undone, TablesSound, TablesOK, serverVars
<1>8. ASSUME UndoLapses PROVE Typed'
  <2>1. HandlersSound'
    BY <1>0, <1>8, Stopped DEF UndoLapses
  <2> QED BY <1>8, <2>1 DEF UndoLapses, TablesSound, TablesOK, serverVars, trayVars
<1> QED BY <1>2, <1>3, <1>4, <1>5, <1>6, <1>7, <1>8 DEF Forgetting

LEMMA RefreshingTyped == ASSUME Typed, Refreshing PROVE Typed'
<1> USE DEF Typed
<1> DEFINE get == proc["refresh"]
<1>0. /\ get \in ProcState /\ HandlerFits("refresh", get) /\ "refresh" \in Handlers
      /\ RowsFit("refresh", get.at, work["refresh"]) /\ work["refresh"] \in SUBSET HeldRow
      /\ "refresh" \notin Posters /\ "refresh" # "forget" /\ "refresh" # "account"
  BY DEF HandlersSound, HandlersOK, Handlers, Posters
<1>1. ASSUME Refresh PROVE Typed'
  <2>1. /\ "get" \in PlacesOf("refresh") /\ work' = work
        /\ 0 \in 0 .. MaxVer /\ Blank \in Row
    BY <1>1, PlacesKnown, Rows, BoundsAssumption DEF Refresh
  <2>2. HandlersSound'
    BY <1>0, <1>1, <2>1, Asked DEF Refresh
  <2> QED BY <1>1, <2>2 DEF Refresh, TablesSound, TablesOK, serverVars, trayVars
<1>2. ASSUME Listed PROVE Typed'
  <2>1. /\ Upserts \in SUBSET HeldRow
        /\ \A u \in Upserts : u.row.state \notin Outboxed
    BY Rows DEF Upserts, HeldRow, Row, Blank, Outboxed, TablesSound, TablesOK
  <2>2. RowsFit("refresh", "upsert", Upserts) /\ "upsert" \in Places
    BY <2>1 DEF RowsFit, Places, Posters
  <2>3. HandlersSound'
    BY <1>0, <1>2, <2>1, <2>2, Taken, PlacesKnown DEF Listed
  <2> QED BY <1>2, <2>3 DEF Listed, TablesSound, TablesOK, serverVars, trayVars
<1>3. ASSUME Upsert PROVE Typed'
  <2>1. PICK u \in work["refresh"] :
           /\ Put(u.n, u.row.ver, u.row.state)
           /\ work' = [work EXCEPT !["refresh"] = @ \ {u}]
    BY <1>3 DEF Upsert
  <2>2. u.n \in Notes /\ [ver |-> u.row.ver, state |-> u.row.state] \in Row
    BY <1>0, <2>1, Rows DEF HeldRow
  <2>3. cache' \in [Notes -> Row]
    BY <2>1, <2>2, PutTyped DEF TablesSound
  <2>4. HandlersSound'
    <3> DEFINE rows == work["refresh"] \ {u}
    <3>1. RowsFit("refresh", get.at, rows) /\ rows \in SUBSET HeldRow
      BY <1>0 DEF RowsFit
    <3>2. proc' = [proc EXCEPT !["refresh"] = get]
      BY <1>3 DEF Upsert, HandlersSound, HandlersOK
    <3> QED BY <1>0, <2>1, <3>1, <3>2, Moved
  <2> QED BY <1>3, <2>3, <2>4 DEF Upsert, TablesSound, TablesOK, serverVars, trayVars
<1>4. ASSUME NEW place \in {"show", "show cached"}, Prune(place) PROVE Typed'
  <2> DEFINE rows == Read({"synced"} \cup Outboxed)
  <2>0. "none" \notin {"synced"} \cup Outboxed
    BY DEF Outboxed
  <2>1. rows \in SUBSET HeldRow /\ \A q \in rows : q.row.state # "none"
    BY <2>0, ReadTyped DEF TablesSound
  <2>2. RowsFit("refresh", place, rows) /\ place \in Places /\ place \in PlacesOf("refresh")
    BY <2>1, PlacesKnown DEF RowsFit, Places, Posters
  <2>3. HandlersSound'
    BY <1>0, <1>4, <2>1, <2>2, Taken DEF Prune
  <2>4. pending' \subseteq Notes
    BY <1>4 DEF Prune, Adopt, Unsynced, Shown, TablesSound, TablesOK
  <2> QED BY <1>4, <2>3, <2>4 DEF Prune, TablesSound, TablesOK, serverVars
<1>5. (Shut /\ Stop("refresh")) => HandlersSound' /\ list' \in [Notes -> 0 .. MaxVer]
  <2>1. RowsFit("refresh", "idle", {})
    BY DEF RowsFit
  <2>2. RowsFit("refresh", Idle.at, {}) /\ Idle \in ProcState /\ HandlerFits("refresh", Idle)
    BY <1>0, <2>1, IdleFits
  <2>3. Shut /\ Stop("refresh") => HandlersSound'
    BY <1>0, <2>2, Moved DEF Shut, Stop
  <2> QED BY <2>3, BoundsAssumption DEF Shut
<1>6. ASSUME ShowItems PROVE Typed'
  <2> DEFINE rows == work["refresh"]
             read == IF get.at = "show cached" THEN CachedVersions(rows) ELSE list
  <2>1. rows \in SUBSET HeldRow /\ \A q \in rows : q.row.state # "none"
    BY <1>0, <1>6 DEF ShowItems, RowsFit
  <2>2. read \in [Notes -> 0 .. MaxVer]
    <3>1. CachedVersions(rows) \in [Notes -> 0 .. MaxVer]
      <4>1. ASSUME NEW n \in Notes, NEW q \in rows, q.n = n
            PROVE  (CHOOSE x \in rows : x.n = n).row.ver \in 0 .. MaxVer
        BY <2>1, <4>1, Rows DEF HeldRow
      <4> QED BY <4>1, BoundsAssumption DEF CachedVersions
    <3> QED BY <3>1 DEF TablesSound, TablesOK
  <2>3. Merge(read) \in [Notes -> Row]
    <3> HIDE DEF read
    <3>1. \A n \in Notes : read[n] # 0 => [ver |-> read[n], state |-> "synced"] \in Row
      BY <2>2, Rows
    <3> QED BY <3>1, Rows DEF Merge, TablesSound, TablesOK
  <2>4. tray' \in [Notes -> Row]
    BY <1>6, <2>1, <2>3, ApplyTyped DEF ShowItems
  <2> QED BY <1>5, <1>6, <2>4 DEF ShowItems, TablesSound, TablesOK, serverVars
<1>7. ASSUME Superseded PROVE Typed'
  BY <1>5, <1>7 DEF Superseded, TablesSound, TablesOK, serverVars, trayVars
<1> QED BY <1>1, <1>2, <1>3, <1>4, <1>6, <1>7 DEF Refreshing, Upserted, ListFailed

LEMMA ReloadTyped == ASSUME Typed, Reload PROVE Typed'
<1> USE DEF Typed
<1>1. HandlersSound'
  BY IdleFits DEF Reload, HandlersSound, HandlersOK, RowsFit
<1>2. fate' \in [Notes -> Fates]
  BY TurnTyped DEF Reload, TablesSound, Fates
<1> QED BY <1>1, <1>2, BoundsAssumption DEF Reload, Unsynced, TablesSound, TablesOK, serverVars

LEMMA WorldTyped == ASSUME Typed, World PROVE Typed'
<1> USE DEF Typed
<1>0. \A p \in Handlers : proc[p] \in ProcState /\ HandlerFits(p, proc[p])
  BY DEF HandlersSound, HandlersOK
<1>1. ASSUME NEW p \in Handlers, ServePost(p) PROVE Typed'
  <2>1. proc[p].n \in Notes /\ proc[p].ver \in 1 .. MaxVer /\ "ok" \in {"ok", "error", "offline"}
    BY <1>0, <1>1, Rows DEF ServePost, Answered, HandlerFits, ProcState
  <2>2. HandlersSound'
    BY <1>1, <2>1, Replied DEF ServePost
  <2>3. hub' \subseteq Envelope /\ \A m \in hub' : m.kind # "deleted" => m.ver # 0
    BY <1>1, <2>1, Rows, PublishTyped DEF ServePost
  <2>4. srv' \in [Notes -> 0 .. MaxVer] /\ fate' \in [Notes -> Fates]
    BY <1>1, <2>1, Rows DEF ServePost, Stored, Fates, TablesSound, TablesOK
  <2> QED BY <1>1, <2>2, <2>3, <2>4 DEF ServePost, TablesSound, TablesOK, trayVars
<1>2. ASSUME NEW p \in Handlers, ServePatch(p) PROVE Typed'
  <2>1. proc[p].n \in Notes /\ proc[p].ver \in 1 .. MaxVer
    BY <1>0, <1>2, Rows DEF ServePatch, Answered, HandlerFits, ProcState
  <2>2. CASE srv[proc[p].n] = 0
    <3>1. HandlersSound'
      BY <1>2, <2>2, Replied DEF ServePatch
    <3> QED BY <1>2, <2>2, <3>1 DEF ServePatch, TablesSound, TablesOK, trayVars
  <2>3. CASE srv[proc[p].n] # 0
    <3>1. HandlersSound'
      BY <1>2, <2>3, Replied DEF ServePatch
    <3>2. hub' \subseteq Envelope /\ \A m \in hub' : m.kind # "deleted" => m.ver # 0
      BY <1>2, <2>1, <2>3, Rows, PublishTyped DEF ServePatch
    <3>3. srv' \in [Notes -> 0 .. MaxVer] /\ fate' \in [Notes -> Fates]
      BY <1>2, <2>1, <2>3, Rows DEF ServePatch, Stored, Fates, TablesSound, TablesOK
    <3> QED BY <1>2, <3>1, <3>2, <3>3 DEF ServePatch, TablesSound, TablesOK, trayVars
  <2> QED BY <2>2, <2>3
<1>3. ASSUME NEW p \in Handlers, ServeDelete(p) PROVE Typed'
  <2>0. proc[p].at = "delete" /\ proc[p].at \in PlacesOf(p)
    BY <1>0, <1>3 DEF ServeDelete, Answered, HandlerFits
  <2>1. p = "forget" /\ proc[p].n \in Notes /\ 0 \in 0 .. MaxVer
    <3>1. p = "forget"
      BY <2>0 DEF PlacesOf, Handlers
    <3> QED BY <1>0, <2>0, <3>1, BoundsAssumption DEF HandlerFits
  <2>2. HandlersSound'
    BY <1>3, Replied DEF ServeDelete
  <2>3. hub' \subseteq Envelope /\ \A m \in hub' : m.kind # "deleted" => m.ver # 0
    BY <1>3, <2>1, PublishTyped DEF ServeDelete
  <2>4. srv' \in [Notes -> 0 .. MaxVer]
    BY <1>3, <2>1 DEF ServeDelete, TablesSound, TablesOK
  <2> QED BY <1>3, <2>2, <2>3, <2>4 DEF ServeDelete, TablesSound, TablesOK, trayVars
<1>4. ASSUME NEW p \in Handlers, ServeGet(p) PROVE Typed'
  <2>1. HandlersSound'
    BY <1>4, Replied DEF ServeGet
  <2> QED BY <1>4, <2>1 DEF ServeGet, TablesSound, TablesOK, serverVars, trayVars
<1>5. ASSUME NEW p \in Handlers, Miss(p) PROVE Typed'
  <2>1. HandlersSound'
    BY <1>5, Replied DEF Miss
  <2> QED BY <1>5, <2>1 DEF Miss, TablesSound, TablesOK, serverVars, trayVars
<1>6. ASSUME NEW n \in Notes, RemoteEdit(n) PROVE Typed'
  <2>1. next[n] + 1 \in 1 .. MaxVer
    BY <1>6, BoundsAssumption DEF RemoteEdit, TablesSound, TablesOK
  <2>2. HandlersSound'
    BY <1>6, Waited DEF RemoteEdit
  <2>3. hub' \subseteq Envelope /\ \A m \in hub' : m.kind # "deleted" => m.ver # 0
    BY <1>6, <2>1, Rows, PublishTyped DEF RemoteEdit
  <2>4. next' \in [Notes -> 0 .. MaxVer] /\ srv' \in [Notes -> 0 .. MaxVer]
    BY <1>6, <2>1, Rows DEF RemoteEdit, TablesSound, TablesOK
  <2> QED BY <1>6, <2>2, <2>3, <2>4 DEF RemoteEdit, TablesSound, TablesOK, trayVars
<1>7. ASSUME NEW n \in Notes, RemoteForget(n) PROVE Typed'
  <2>1. HandlersSound'
    BY <1>7, Waited DEF RemoteForget
  <2>2. 0 \in 0 .. MaxVer
    BY BoundsAssumption
  <2>3. hub' \subseteq Envelope /\ \A m \in hub' : m.kind # "deleted" => m.ver # 0
    BY <1>7, <2>2, PublishTyped DEF RemoteForget
  <2>4. srv' \in [Notes -> 0 .. MaxVer]
    BY <1>7, <2>2 DEF RemoteForget, TablesSound, TablesOK
  <2> QED BY <1>7, <2>1, <2>3, <2>4 DEF RemoteForget, TablesSound, TablesOK, trayVars
<1>8. ASSUME NEW m \in hub, Deliver(m) PROVE Typed'
  <2>1. /\ m.n \in Notes /\ m.kind \in {"created", "updated", "deleted"}
        /\ m.kind # "deleted" => m.ver \in 1 .. MaxVer
    BY Rows DEF TablesSound, TablesOK, Envelope
  <2>2. HandlersSound'
    BY <1>8, Waited DEF Deliver
  <2>3. tray' \in [Notes -> Row]
    BY <1>8, <2>1, Rows, ShowTyped DEF Deliver, TablesSound, TablesOK
  <2>4. cache' \in [Notes -> Row] /\ pending' \subseteq Notes
    BY <1>8, <2>1, Rows, PutTyped DEF Deliver, TablesSound, TablesOK
  <2> QED BY <1>8, <2>2, <2>3, <2>4 DEF Deliver, TablesSound, TablesOK, serverVars
<1>9. ASSUME NEW m \in hub, Lose(m) PROVE Typed'
  <2>1. HandlersSound'
    BY <1>9, Waited DEF Lose
  <2> QED BY <1>9, <2>1 DEF Lose, TablesSound, TablesOK, serverVars, trayVars
<1> QED BY <1>1, <1>2, <1>3, <1>4, <1>5, <1>6, <1>7, <1>8, <1>9 DEF World, Serve

LEMMA TypedKept == ASSUME Typed, [Next]_vars PROVE Typed'
<1>1. ASSUME UNCHANGED vars PROVE Typed'
  BY <1>1, Waited DEF vars, serverVars, trayVars, Typed, TablesSound, TablesOK
<1> QED BY <1>1, ComposerTyped, ButtonsTyped, DrainTyped, ForgettingTyped, RefreshingTyped,
           ReloadTyped, WorldTyped DEF Next, Browser

-----------------------------------------------------------------------------
(* What a step does to the handlers: one goes on, the others stay. *)

LEMMA AskIs ==
    ASSUME Typed, NEW p \in Handlers, NEW verb, NEW n, NEW ver, NEW was, Ask(p, verb, n, ver, was)
    PROVE  /\ proc'[p].at = verb /\ proc'[p].n = n /\ proc'[p].ver = ver
           /\ proc'[p].was = was /\ proc'[p].ans = "wait"
           /\ \A q \in Handlers \ {p} : proc'[q] = proc[q]
BY DEF Typed, HandlersSound, HandlersOK, Ask

LEMMA GotoIs ==
    ASSUME Typed, NEW p \in Handlers, NEW place, Goto(p, place)
    PROVE  /\ proc'[p].at = place /\ proc'[p].n = NoNote /\ proc'[p].ans = "none"
           /\ \A q \in Handlers \ {p} : proc'[q] = proc[q]
BY DEF Typed, HandlersSound, HandlersOK, Goto, Idle

LEMMA StopIs ==
    ASSUME Typed, NEW p \in Handlers, Stop(p)
    PROVE  /\ proc'[p].at = "idle" /\ proc'[p].n = NoNote /\ proc'[p].ans = "none"
           /\ \A q \in Handlers \ {p} : proc'[q] = proc[q]
BY DEF Typed, HandlersSound, HandlersOK, Stop, Idle

LEMMA ReplyIs ==
    ASSUME Typed, NEW p \in Handlers, NEW ans, Reply(p, ans)
    PROVE  /\ proc'[p].at = proc[p].at /\ proc'[p].n = proc[p].n /\ proc'[p].ver = proc[p].ver
           /\ proc'[p].was = proc[p].was /\ proc'[p].ans = ans
           /\ \A q \in Handlers \ {p} : proc'[q] = proc[q]
<1>1. proc \in [Handlers -> ProcState]
  BY DEF Typed, HandlersSound, HandlersOK
<1>2. proc' = [proc EXCEPT ![p] = [proc[p] EXCEPT !.ans = ans]]
  BY DEF Reply
<1>3. proc'[p] = [proc[p] EXCEPT !.ans = ans] /\ \A q \in Handlers \ {p} : proc'[q] = proc[q]
  BY <1>1, <1>2
<1>4. DOMAIN proc[p] = {"at", "n", "ver", "was", "ans"}
  BY <1>1 DEF ProcState
<1> QED BY <1>3, <1>4

-----------------------------------------------------------------------------
(* A note the browser takes for stored has been stored. *)

StoredStays == \A n \in Notes : fate[n] = "stored" => fate'[n] = "stored"

\* A row says so, or a list, ...
TablesSaid ==
    \A n \in Notes : srv[n] # 0 \/ list[n] # 0 \/ cache[n].state = "synced" => fate[n] = "stored"

\* ... an answer, ...
AnswerSaid(h) == h.at \in {"post", "patch"} /\ h.ans = "ok" => fate[h.n] = "stored"
AnswersSaid == \A p \in Handlers : AnswerSaid(proc[p])

\* ... an envelope, ...
HubSaid == \A m \in hub : m.kind # "deleted" => fate[m.n] = "stored"

\* ... or a row that a handler is about to write back.
HeldSaid ==
    /\ \A r \in work["account"] : r.row.state = "synced" => fate[r.n] = "stored"
    /\ proc["refresh"].at = "upsert" => \A r \in work["refresh"] : fate[r.n] = "stored"

StoredWhenSaid == TablesSaid /\ AnswersSaid /\ HubSaid /\ HeldSaid

\* Where a fate comes from.
LEMMA FateMoves ==
    ASSUME Typed, [Next]_vars, NEW n \in Notes, fate'[n] # fate[n]
    PROVE  /\ fate[n] # "stored"
           /\ fate'[n] = "sent" => Send(n)
           /\ fate'[n] = "hushed" => Persist /\ proc["composer"].n = n /\ ~sync /\ fate[n] = "sent"
           /\ fate'[n] = "owed" => \/ Persist /\ proc["composer"].n = n /\ fate[n] = "sent"
                                   \/ fate[n] = "hushed"
           /\ fate'[n] = "stored" => \E p \in Handlers :
                                        proc[p].n = n /\ (ServePost(p) \/ ServePatch(p))
<1> USE DEF Typed, TablesSound, TablesOK
<1> DEFINE Goal ==
           /\ fate[n] # "stored"
           /\ fate'[n] = "sent" => Send(n)
           /\ fate'[n] = "hushed" => Persist /\ proc["composer"].n = n /\ ~sync /\ fate[n] = "sent"
           /\ fate'[n] = "owed" => \/ Persist /\ proc["composer"].n = n /\ fate[n] = "sent"
                                   \/ fate[n] = "hushed"
           /\ fate'[n] = "stored" => \E p \in Handlers :
                                        proc[p].n = n /\ (ServePost(p) \/ ServePatch(p))
<1>1. ~ UNCHANGED fate
  OBVIOUS
<1>2. ASSUME NEW N, NEW from, NEW to, Turn(N, from, to), "stored" \notin from,
             to \in {"none", "back"}
      PROVE  Goal
  BY <1>2 DEF Turn
<1>3. CASE Composer
  <2>1. ASSUME NEW m \in Notes, Send(m) PROVE Goal
    <3>1. m = n /\ fate[n] = "none" /\ fate'[n] = "sent"
      BY <2>1 DEF Send, Turn
    <3> QED BY <2>1, <3>1
  <2>2. ASSUME Persist PROVE Goal
    BY <2>2 DEF Persist, Owe
  <2>3. ASSUME Posted PROVE Goal
    <3>1. proc["composer"].ans \in {"ok", "error", "offline"}
      BY <2>3 DEF Posted, HandlersSound, HandlersOK, Handlers, HandlerFits, ProcState
    <3>2. Turn({proc["composer"].n}, Owed, "none")
      BY <1>1, <2>3, <3>1 DEF Posted
    <3> QED BY <1>2, <3>2 DEF Owed
  <2>4. ASSUME NEW m \in Notes, Edit(m) PROVE FALSE
    BY <1>1, <2>4 DEF Edit
  <2>5. ASSUME Keep \/ Patched PROVE FALSE
    BY <1>1, <2>5 DEF Keep, Patched
  <2> QED BY <1>3, <2>1, <2>2, <2>3, <2>4, <2>5 DEF Composer
<1>4. CASE Buttons
  <2>1. ASSUME NEW rows, SyncButton(rows) PROVE Goal
    BY <2>1 DEF SyncButton
  <2>2. ASSUME SwitchOn PROVE Goal
    BY <2>2 DEF SwitchOn, Turn
  <2> QED BY <1>1, <1>4, <2>1, <2>2 DEF Buttons, SwitchOff
<1>5. CASE Drain
  BY <1>1, <1>5 DEF Drain, Flush, Release, Released, PostCached, PostedCached, Drained
<1>6. CASE Forgetting
  <2>1. ASSUME ForgetRow PROVE Goal
    BY <2>1 DEF ForgetRow, Due, Owed
  <2>2. ASSUME Undo PROVE Goal
    <3>1. fate'[n] \in {"back", "asked", "none"} /\ fate[n] # "stored"
      BY <1>1, <2>2 DEF Undo, Turn, Due, Owed
    <3> QED BY <3>1
  <2>3. ASSUME Undone PROVE Goal
    BY <1>1, <1>2, <2>3 DEF Undone
  <2> QED BY <1>1, <1>6, <2>1, <2>2, <2>3
          DEF Forgetting, Forget, TombLapses, Forgotten, UndoLapses
<1>7. CASE Refreshing
  BY <1>1, <1>7 DEF Refreshing, Refresh, Listed, Upsert, Upserted, ListFailed, Prune, ShowItems,
                    Superseded
<1>8. CASE Reload
  BY <1>2, <1>8 DEF Reload
<1>9. CASE World
  <2>1. ASSUME NEW p \in Handlers, ServePost(p) \/ ServePatch(p) PROVE Goal
    <3>1. Stored(proc[p].n)
      BY <1>1, <2>1 DEF ServePost, ServePatch
    <3>2. proc[p].n = n /\ fate'[n] = "stored"
      BY <3>1 DEF Stored
    <3> QED BY <2>1, <3>2
  <2> QED BY <1>1, <1>9, <2>1 DEF World, Serve, ServeDelete, ServeGet, Miss, RemoteEdit,
                                 RemoteForget, Deliver, Lose
<1> QED BY <1>1, <1>3, <1>4, <1>5, <1>6, <1>7, <1>8, <1>9 DEF Next, Browser, vars

LEMMA NeverUnstored == ASSUME Typed, [Next]_vars PROVE StoredStays
BY FateMoves DEF StoredStays

LEMMA TablesSaidNext ==
    ASSUME Typed, StoredWhenSaid, StoredStays, Next
    PROVE  TablesSaid'
<1> USE DEF Typed, StoredWhenSaid, TablesSaid, StoredStays
<1> DEFINE c == proc["composer"]
           f == proc["forget"]
<1>0. /\ \A p \in Handlers : proc[p] \in ProcState /\ HandlerFits(p, proc[p])
                             /\ RowsFit(p, proc[p].at, work[p]) /\ work[p] \in SUBSET HeldRow
      /\ {"composer", "forget", "account", "refresh"} \subseteq Handlers /\ Posters \subseteq Handlers
  BY DEF HandlersSound, HandlersOK, Handlers, Posters
<1>1. ASSUME UNCHANGED <<srv, list, cache>> PROVE TablesSaid'
  BY <1>1
<1>2. ASSUME NEW n \in Notes, NEW ver, NEW state, Put(n, ver, state), UNCHANGED <<srv, list>>,
             state = "synced" => fate'[n] = "stored"
      PROVE  TablesSaid'
  BY <1>2 DEF Put, TablesSound, TablesOK
<1>3. ASSUME Composer PROVE TablesSaid'
  <2>1. ASSUME NEW n \in Notes, Send(n) \/ Edit(n) PROVE TablesSaid'
    BY <1>1, <2>1 DEF Send, Edit
  <2>2. ASSUME Persist PROVE TablesSaid'
    <3>1. c.n \in Notes
      BY <1>0, <2>2 DEF Persist, HandlerFits
    <3> QED BY <1>2, <2>2, <3>1 DEF Persist, serverVars
  <2>3. ASSUME Posted PROVE TablesSaid'
    <3>1. c.n \in Notes /\ c.ans \in {"ok", "error", "offline"}
      BY <1>0, <2>3 DEF Posted, HandlerFits, ProcState
    <3>2. c.ans = "ok" => fate'[c.n] = "stored"
      BY <1>0, <2>3, <3>1 DEF Posted, AnswersSaid, AnswerSaid
    <3> QED BY <1>1, <1>2, <2>3, <3>1, <3>2 DEF Posted, serverVars
  <2>4. ASSUME Keep PROVE TablesSaid'
    <3>1. c.n \in Notes /\ (c.at = "rewrite" => c.was.state # "synced")
      BY <1>0, <2>4 DEF Keep, HandlerFits
    <3> QED BY <1>2, <2>4, <3>1 DEF Keep, serverVars
  <2>5. ASSUME Patched PROVE TablesSaid'
    <3>1. c.n \in Notes /\ c.ans \in {"ok", "error", "offline"}
      BY <1>0, <2>5 DEF Patched, HandlerFits, ProcState
    <3>2. c.ans = "ok" => fate'[c.n] = "stored"
      BY <1>0, <2>5, <3>1 DEF Patched, AnswersSaid, AnswerSaid
    <3> QED BY <1>1, <1>2, <2>5, <3>1, <3>2 DEF Patched, serverVars
  <2> QED BY <1>3, <2>1, <2>2, <2>3, <2>4, <2>5 DEF Composer
<1>4. ASSUME Buttons PROVE TablesSaid'
  BY <1>1, <1>4 DEF Buttons, SyncButton, SwitchOff, SwitchOn, serverVars
<1>5. ASSUME Drain PROVE TablesSaid'
  <2>1. ASSUME Release PROVE TablesSaid'
    <3>1. PICK r \in work["account"] :
             Put(r.n, r.row.ver, IF r.row.state = "held" THEN "queued" ELSE r.row.state)
      BY <2>1 DEF Release
    <3>2. r.n \in Notes /\ (r.row.state = "synced" => fate'[r.n] = "stored")
      BY <1>0, <2>1, <3>1 DEF Release, HeldSaid, HeldRow
    <3> QED BY <1>2, <2>1, <3>1, <3>2 DEF Release, serverVars
  <2>2. ASSUME NEW p \in Posters, PostedCached(p) PROVE TablesSaid'
    <3>1. proc[p].n \in Notes
      BY <1>0, <2>2 DEF PostedCached, HandlerFits
    <3>2. proc[p].ans = "ok" => fate'[proc[p].n] = "stored"
      BY <1>0, <2>2, <3>1 DEF PostedCached, AnswersSaid, AnswerSaid
    <3> QED BY <1>1, <1>2, <2>2, <3>1, <3>2 DEF PostedCached, serverVars
  <2>3. ASSUME NEW p \in Posters, PostCached(p) \/ Drained(p) PROVE TablesSaid'
    BY <1>1, <2>3 DEF PostCached, Drained, serverVars
  <2> QED BY <1>1, <1>5, <2>1, <2>2, <2>3 DEF Drain, Flush, Released, serverVars
<1>6. ASSUME Forgetting PROVE TablesSaid'
  <2>1. ASSUME ForgetRow PROVE TablesSaid'
    <3>1. f.n \in Notes
      BY <1>0, <2>1 DEF ForgetRow, HandlerFits
    <3> QED BY <1>2, <2>1, <3>1 DEF ForgetRow, serverVars
  <2>2. ASSUME Undo PROVE TablesSaid'
    <3>1. f.n \in Notes
      BY <1>0, <2>2 DEF Undo, HandlerFits
    <3>2. UNCHANGED <<srv, list>> /\ (UNCHANGED cache \/ Put(f.n, f.was.ver, f.was.state))
          /\ (~ UNCHANGED cache => f.was.state \in {"queued", "held"})
      BY <2>2 DEF Undo, serverVars
    <3> QED BY <1>1, <1>2, <3>1, <3>2
  <2>3. ASSUME Undone PROVE TablesSaid'
    <3>1. f.n \in Notes
      BY <1>0, <2>3 DEF Undone, HandlerFits
    <3>2. UNCHANGED <<srv, list>> /\ (UNCHANGED cache \/ Put(f.n, f.was.ver, "queued"))
      BY <2>3 DEF Undone, serverVars
    <3> QED BY <1>1, <1>2, <3>1, <3>2
  <2> QED BY <1>1, <1>6, <2>1, <2>2, <2>3
          DEF Forgetting, Forget, TombLapses, Forgotten, UndoLapses, serverVars
<1>7. ASSUME Refreshing PROVE TablesSaid'
  <2>1. ASSUME Upsert PROVE TablesSaid'
    <3>1. PICK r \in work["refresh"] : Put(r.n, r.row.ver, r.row.state)
      BY <2>1 DEF Upsert
    <3>2. r.n \in Notes /\ fate'[r.n] = "stored"
      BY <1>0, <2>1, <3>1 DEF Upsert, HeldSaid, HeldRow
    <3> QED BY <1>2, <2>1, <3>1, <3>2 DEF Upsert, serverVars
  <2>2. ASSUME ShowItems \/ Superseded PROVE TablesSaid'
    BY <2>2 DEF ShowItems, Superseded, Shut, serverVars
  <2> QED BY <1>1, <1>7, <2>1, <2>2
          DEF Refreshing, Refresh, Listed, Upserted, ListFailed, Prune, serverVars
<1>8. ASSUME Reload PROVE TablesSaid'
  BY <1>8 DEF Reload, serverVars
<1>9. ASSUME World PROVE TablesSaid'
  <2>1. ASSUME NEW p \in Handlers, ServePost(p) \/ ServePatch(p) PROVE TablesSaid'
    <3>1. proc[p].n \in Notes
      BY <1>0, <2>1 DEF ServePost, ServePatch, Answered, HandlerFits
    <3> QED BY <1>1, <2>1, <3>1 DEF ServePost, ServePatch, Stored, TablesSound, TablesOK
  <2>2. ASSUME NEW p \in Handlers, ServeDelete(p) \/ ServeGet(p) \/ Miss(p) PROVE TablesSaid'
    BY <2>2 DEF ServeDelete, ServeGet, Miss, serverVars, TablesSound, TablesOK
  <2>3. ASSUME NEW n \in Notes, RemoteEdit(n) \/ RemoteForget(n) PROVE TablesSaid'
    BY <2>3 DEF RemoteEdit, RemoteForget, TablesSound, TablesOK
  <2>4. ASSUME NEW m \in hub, Deliver(m) PROVE TablesSaid'
    <3>1. m.n \in Notes /\ m.kind \in {"created", "updated", "deleted"}
      BY DEF TablesSound, TablesOK, Envelope
    <3>2. m.kind = "updated" => fate'[m.n] = "stored"
      BY <3>1 DEF HubSaid
    <3> QED BY <1>1, <1>2, <2>4, <3>1, <3>2 DEF Deliver, serverVars
  <2>5. ASSUME NEW m \in hub, Lose(m) PROVE TablesSaid'
    BY <1>1, <2>5 DEF Lose, serverVars
  <2> QED BY <1>9, <2>1, <2>2, <2>3, <2>4, <2>5 DEF World, Serve
<1> QED BY <1>3, <1>4, <1>5, <1>6, <1>7, <1>8, <1>9 DEF Next, Browser

LEMMA AnswersSaidNext ==
    ASSUME Typed, StoredWhenSaid, StoredStays, Next
    PROVE  AnswersSaid'
<1> USE DEF Typed, StoredWhenSaid, AnswersSaid, AnswerSaid, StoredStays
<1> DEFINE c == proc["composer"]
<1>0. /\ \A p \in Handlers : proc[p] \in ProcState /\ HandlerFits(p, proc[p])
      /\ {"composer", "forget", "account", "refresh", "flush", "button"} \subseteq Handlers
      /\ Posters \subseteq Handlers
      /\ proc \in [Handlers -> ProcState]
  BY DEF HandlersSound, HandlersOK, Handlers, Posters
<1>1. ASSUME NEW p \in Handlers, \A q \in Handlers \ {p} : proc'[q] = proc[q],
             proc'[p].at \in {"post", "patch"} /\ proc'[p].ans = "ok" => fate'[proc'[p].n] = "stored"
      PROVE  AnswersSaid'
  BY <1>0, <1>1 DEF HandlerFits
<1>2. ASSUME UNCHANGED proc PROVE AnswersSaid'
  BY <1>0, <1>2 DEF HandlerFits
<1>3. ASSUME NEW p \in Handlers, Stop(p) \/ \E place : Goto(p, place) PROVE AnswersSaid'
  BY <1>1, <1>3, StopIs, GotoIs
<1>4. ASSUME NEW p \in Handlers, NEW verb, NEW n, NEW ver, NEW was, Ask(p, verb, n, ver, was)
      PROVE  AnswersSaid'
  BY <1>1, <1>4, AskIs
<1>5. ASSUME NEW p \in Handlers, NEW ans, Reply(p, ans),
             proc[p].at \in {"post", "patch"} /\ ans = "ok" => fate'[proc[p].n] = "stored"
      PROVE  AnswersSaid'
  BY <1>1, <1>5, ReplyIs
<1>6. ASSUME NEW p \in Handlers, NEW h, proc' = [proc EXCEPT ![p] = h],
             h.at \notin {"post", "patch"} \/ h.ans # "ok"
      PROVE  AnswersSaid'
  BY <1>0, <1>1, <1>6
<1>7. ASSUME Composer PROVE AnswersSaid'
  <2>1. ASSUME NEW n \in Notes, Send(n) PROVE AnswersSaid'
    BY <1>0, <1>6, <2>1 DEF Send
  <2>2. ASSUME NEW n \in Notes, Edit(n) PROVE AnswersSaid'
    <3>1. PICK intent \in EditIntents(n) :
             proc' = [proc EXCEPT !["composer"] =
                        [at |-> intent, n |-> n, ver |-> next[n] + 1, was |-> tray[n],
                         ans |-> IF intent = "patch" THEN "wait" ELSE "none"]]
      BY <2>2 DEF Edit
    <3> DEFINE h == [at |-> intent, n |-> n, ver |-> next[n] + 1, was |-> tray[n],
                     ans |-> IF intent = "patch" THEN "wait" ELSE "none"]
    <3>2. h.ans # "ok"
      OBVIOUS
    <3> HIDE DEF h
    <3> QED BY <1>0, <1>6, <3>1, <3>2 DEF h
  <2>3. ASSUME Persist PROVE AnswersSaid'
    BY <1>0, <1>3, <1>4, <2>3 DEF Persist
  <2> QED BY <1>0, <1>3, <1>7, <2>1, <2>2, <2>3 DEF Composer, Posted, Keep, Patched
<1>8. ASSUME Buttons PROVE AnswersSaid'
  BY <1>0, <1>2, <1>3, <1>8 DEF Buttons, SyncButton, Take, SwitchOff, SwitchOn
<1>9. ASSUME Drain PROVE AnswersSaid'
  <2>1. ASSUME NEW p \in Posters, PostCached(p) PROVE AnswersSaid'
    BY <1>0, <1>4, <2>1 DEF PostCached
  <2>2. ASSUME NEW p \in Posters, PostedCached(p) \/ Drained(p) PROVE AnswersSaid'
    BY <1>0, <1>3, <2>2 DEF PostedCached, Drained
  <2> QED BY <1>0, <1>2, <1>3, <1>9, <2>1, <2>2 DEF Drain, Flush, Take, Release, Released
<1>10. ASSUME Forgetting PROVE AnswersSaid'
  <2> DEFINE f == proc["forget"]
  <2>1. ASSUME NEW n \in Notes, Forget(n) PROVE AnswersSaid'
    BY <1>0, <1>6, <2>1 DEF Forget
  <2>2. ASSUME ForgetRow PROVE AnswersSaid'
    <3>1. CASE proc' = [proc EXCEPT !["forget"].at = "undo", !["forget"].ans = "ok"]
      <4>1. proc' = [proc EXCEPT !["forget"] = [f EXCEPT !.at = "undo", !.ans = "ok"]]
        BY <1>0, <3>1
      <4>2. [f EXCEPT !.at = "undo", !.ans = "ok"].at = "undo"
        BY <1>0 DEF ProcState
      <4> QED BY <1>0, <1>6, <4>1, <4>2
    <3>2. CASE Ask("forget", "delete", f.n, 0, f.was)
      BY <1>0, <1>4, <3>2
    <3> QED BY <2>2, <3>1, <3>2 DEF ForgetRow
  <2>3. ASSUME Forgotten PROVE AnswersSaid'
    <3>1. proc' = [proc EXCEPT !["forget"] = [f EXCEPT !.at = "undo"]]
      BY <1>0, <2>3 DEF Forgotten
    <3>2. [f EXCEPT !.at = "undo"].at = "undo"
      BY <1>0 DEF ProcState
    <3> QED BY <1>0, <1>6, <3>1, <3>2
  <2>4. ASSUME Undo PROVE AnswersSaid'
    BY <1>0, <1>3, <1>4, <2>4 DEF Undo
  <2> QED BY <1>0, <1>2, <1>3, <1>10, <2>1, <2>2, <2>3, <2>4
          DEF Forgetting, TombLapses, Undone, UndoLapses
<1>11. ASSUME Refreshing PROVE AnswersSaid'
  BY <1>0, <1>2, <1>3, <1>4, <1>11
     DEF Refreshing, Refresh, Listed, Upsert, Upserted, ListFailed, Prune, ShowItems, Superseded
<1>12. ASSUME Reload PROVE AnswersSaid'
  BY <1>12 DEF Reload, Idle
<1>13. ASSUME World PROVE AnswersSaid'
  <2>1. ASSUME NEW p \in Handlers, ServePost(p) \/ ServePatch(p) PROVE AnswersSaid'
    <3>1. proc[p].n \in Notes
      BY <1>0, <2>1 DEF ServePost, ServePatch, Answered, HandlerFits
    <3>2. \/ Reply(p, "error")
          \/ Reply(p, "ok") /\ fate'[proc[p].n] = "stored"
      BY <2>1, <3>1 DEF ServePost, ServePatch, Stored, TablesSound, TablesOK
    <3> QED BY <1>5, <3>2
  <2>2. ASSUME NEW p \in Handlers, ServeDelete(p) \/ ServeGet(p) PROVE AnswersSaid'
    BY <1>5, <2>2 DEF ServeDelete, ServeGet, Answered
  <2>3. ASSUME NEW p \in Handlers, Miss(p) PROVE AnswersSaid'
    BY <1>5, <2>3 DEF Miss
  <2> QED BY <1>2, <1>13, <2>1, <2>2, <2>3 DEF World, Serve, RemoteEdit, RemoteForget, Deliver, Lose
<1> QED BY <1>7, <1>8, <1>9, <1>10, <1>11, <1>12, <1>13 DEF Next, Browser

LEMMA HubSaidNext ==
    ASSUME Typed, StoredWhenSaid, StoredStays, Next
    PROVE  HubSaid'
<1> USE DEF Typed, StoredWhenSaid, HubSaid, StoredStays
<1>1. \A m \in hub : m.n \in Notes
  BY DEF TablesSound, TablesOK, Envelope
<1>2. ASSUME hub' \subseteq hub PROVE HubSaid'
  BY <1>1, <1>2
<1>3. ASSUME NEW kind, NEW n, NEW ver, Publish(kind, n, ver),
             kind # "deleted" => fate'[n] = "stored"
      PROVE  HubSaid'
  BY <1>1, <1>3 DEF Publish
<1>4. ASSUME UNCHANGED hub PROVE HubSaid'
  BY <1>2, <1>4
<1>5. ASSUME Composer \/ Buttons PROVE HubSaid'
  BY <1>4, <1>5 DEF Composer, Send, Edit, Persist, Posted, Keep, Patched,
                    Buttons, SyncButton, SwitchOff, SwitchOn
<1>6. ASSUME Drain PROVE HubSaid'
  BY <1>4, <1>6 DEF Drain, Flush, Release, Released, PostCached, PostedCached, Drained
<1>7. ASSUME Forgetting PROVE HubSaid'
  BY <1>4, <1>7 DEF Forgetting, Forget, TombLapses, ForgetRow, Forgotten, Undo, Undone, UndoLapses
<1>8. ASSUME Refreshing PROVE HubSaid'
  BY <1>4, <1>8 DEF Refreshing, Refresh, Listed, Upsert, Upserted, ListFailed, Prune, ShowItems,
                    Superseded
<1>9. ASSUME Reload PROVE HubSaid'
  BY <1>9 DEF Reload
<1>10. ASSUME World PROVE HubSaid'
  <2>1. ASSUME NEW p \in Handlers, ServePost(p) \/ ServePatch(p) PROVE HubSaid'
    <3>1. proc[p].n \in Notes
      BY <2>1 DEF ServePost, ServePatch, Answered, HandlersSound, HandlerFits
    <3>2. \/ UNCHANGED hub
          \/ /\ \E kind : Publish(kind, proc[p].n, proc[p].ver)
             /\ fate'[proc[p].n] = "stored"
      BY <2>1, <3>1 DEF ServePost, ServePatch, Stored, TablesSound, TablesOK
    <3> QED BY <1>3, <1>4, <3>2
  <2>2. ASSUME NEW n \in Notes, RemoteEdit(n) PROVE HubSaid'
    BY <1>3, <2>2 DEF RemoteEdit, TablesSaid
  <2>3. ASSUME NEW n \in Notes, RemoteForget(n) PROVE HubSaid'
    BY <1>3, <2>3 DEF RemoteForget
  <2>4. ASSUME NEW p \in Handlers, ServeDelete(p) PROVE HubSaid'
    BY <1>3, <2>4 DEF ServeDelete
  <2>5. ASSUME NEW p \in Handlers, ServeGet(p) \/ Miss(p) PROVE HubSaid'
    BY <1>4, <2>5 DEF ServeGet, Miss
  <2>6. ASSUME NEW m \in hub, Deliver(m) \/ Lose(m) PROVE HubSaid'
    BY <1>2, <2>6 DEF Deliver, Lose
  <2> QED BY <1>10, <2>1, <2>2, <2>3, <2>4, <2>5, <2>6 DEF World, Serve
<1> QED BY <1>5, <1>6, <1>7, <1>8, <1>9, <1>10 DEF Next, Browser

LEMMA HeldSaidNext ==
    ASSUME Typed, StoredWhenSaid, StoredStays, Next
    PROVE  HeldSaid'
<1> USE DEF Typed, StoredWhenSaid, HeldSaid, StoredStays
<1>0. /\ work \in [Handlers -> SUBSET HeldRow]
      /\ \A p \in Handlers : \A r \in work[p] : r.n \in Notes
      /\ {"composer", "forget", "account", "refresh", "flush", "button"} \subseteq Handlers
      /\ Posters \subseteq Handlers /\ "refresh" \notin Posters
  BY DEF HandlersSound, HandlersOK, HeldRow, Handlers, Posters
\* Two handlers hold such rows: what a step of another leaves them, ...
<1>1. ASSUME work'["account"] \subseteq work["account"],
             proc'["refresh"].at = "upsert" =>
                proc["refresh"].at = "upsert" /\ work'["refresh"] \subseteq work["refresh"]
      PROVE  HeldSaid'
  BY <1>0, <1>1
<1>2. ASSUME NEW p \in Handlers \ {"refresh"}, \A q \in Handlers \ {p} : proc'[q] = proc[q],
             \/ UNCHANGED work
             \/ \E rows : /\ work' = [work EXCEPT ![p] = rows]
                          /\ p = "account" => rows \subseteq work[p]
      PROVE  HeldSaid'
  BY <1>0, <1>1, <1>2
<1>3. ASSUME UNCHANGED <<proc, work>> PROVE HeldSaid'
  BY <1>1, <1>3
<1>4. ASSUME NEW h, proc' = [proc EXCEPT !["refresh"] = h], h.at # "upsert",
             work'["account"] = work["account"]
      PROVE  HeldSaid'
  BY <1>0, <1>1, <1>4 DEF HandlersSound, HandlersOK
\* ... and what the two take up.
<1>5. \A r \in Queue : r.row.state # "synced"
  BY ReadTyped DEF Queue, TablesSound
<1>6. Read({"synced"} \cup Outboxed) \subseteq HeldRow
      /\ \A r \in Read({"synced"} \cup Outboxed) : r.row.state = "synced" => fate[r.n] = "stored"
  <2>1. "none" \notin {"synced"} \cup Outboxed
    BY DEF Outboxed
  <2> QED BY <2>1, ReadTyped DEF TablesSound, TablesSaid, HeldRow
<1>7. \A r \in Upserts : r.n \in Notes /\ fate[r.n] = "stored"
  BY DEF Upserts, TablesSaid
<1>8. ASSUME NEW p \in Handlers \ {"refresh"}, \A q \in Handlers \ {p} : proc'[q] = proc[q],
             NEW rows, work' = [work EXCEPT ![p] = rows],
             p = "account" => \A r \in rows : r.row.state = "synced" => fate'[r.n] = "stored"
      PROVE  HeldSaid'
  BY <1>0, <1>8
<1>9. ASSUME Composer PROVE HeldSaid'
  <2>1. \A q \in Handlers \ {"composer"} : proc'[q] = proc[q]
    <3>1. ASSUME NEW n \in Notes, Send(n) \/ Edit(n)
          PROVE  \A q \in Handlers \ {"composer"} : proc'[q] = proc[q]
      BY <3>1 DEF Send, Edit, HandlersSound, HandlersOK
    <3>2. ASSUME Persist \/ Posted \/ Keep \/ Patched
          PROVE  \A q \in Handlers \ {"composer"} : proc'[q] = proc[q]
      BY <1>0, <3>2, AskIs, StopIs DEF Persist, Posted, Keep, Patched
    <3> QED BY <1>9, <3>1, <3>2 DEF Composer
  <2>2. UNCHANGED work
    BY <1>9 DEF Composer, Send, Edit, Persist, Posted, Keep, Patched
  <2> QED BY <1>0, <1>2, <2>1, <2>2
<1>10. ASSUME Buttons PROVE HeldSaid'
  <2>1. ASSUME NEW rows, SyncButton(rows) PROVE HeldSaid'
    BY <1>0, <1>8, <2>1, GotoIs DEF SyncButton, Take
  <2>2. ASSUME SwitchOn PROVE HeldSaid'
    <3>1. \A r \in Read({"synced"} \cup Outboxed) : r.row.state = "synced" => fate'[r.n] = "stored"
      BY <1>6 DEF HeldRow
    <3> QED BY <1>0, <1>8, <2>2, <3>1, GotoIs DEF SwitchOn
  <2> QED BY <1>3, <1>10, <2>1, <2>2 DEF Buttons, SwitchOff
<1>11. ASSUME Drain PROVE HeldSaid'
  <2>1. ASSUME Flush PROVE HeldSaid'
    BY <1>0, <1>8, <2>1, GotoIs DEF Flush, Take
  <2>2. ASSUME Release PROVE HeldSaid'
    BY <1>0, <1>2, <2>2 DEF Release
  <2>3. ASSUME Released PROVE HeldSaid'
    BY <1>0, <1>2, <1>5, <1>8, <2>3, GotoIs, StopIs DEF Released, Take
  <2>4. ASSUME NEW p \in Posters, PostCached(p) PROVE HeldSaid'
    BY <1>0, <1>2, <2>4, AskIs DEF PostCached
  <2>5. ASSUME NEW p \in Posters, PostedCached(p) PROVE HeldSaid'
    BY <1>0, <1>2, <2>5, GotoIs DEF PostedCached
  <2>6. ASSUME NEW p \in Posters, Drained(p) PROVE HeldSaid'
    BY <1>0, <1>2, <2>6, StopIs DEF Drained
  <2> QED BY <1>11, <2>1, <2>2, <2>3, <2>4, <2>5, <2>6 DEF Drain
<1>12. ASSUME Forgetting PROVE HeldSaid'
  <2>1. \A q \in Handlers \ {"forget"} : proc'[q] = proc[q]
    BY <1>12 DEF Forgetting, Forget, TombLapses, ForgetRow, Forgotten, Undo, Undone, UndoLapses,
                 Ask, Stop, HandlersSound, HandlersOK
  <2>2. UNCHANGED work
    BY <1>12 DEF Forgetting, Forget, TombLapses, ForgetRow, Forgotten, Undo, Undone, UndoLapses
  <2> QED BY <1>0, <1>2, <2>1, <2>2
<1>13. ASSUME Refreshing PROVE HeldSaid'
  <2>1. ASSUME Listed PROVE HeldSaid'
    BY <1>0, <1>7, <2>1 DEF Listed
  <2>2. ASSUME Upsert PROVE HeldSaid'
    BY <1>0, <1>1, <2>2 DEF Upsert
  <2>3. ASSUME NEW place \in {"show", "show cached"}, Prune(place) PROVE HeldSaid'
    BY <1>0, <1>1, <2>3, GotoIs DEF Prune
  <2>4. ASSUME Upserted \/ ListFailed PROVE HeldSaid'
    BY <2>3, <2>4 DEF Upserted, ListFailed
  <2>5. ASSUME Refresh PROVE HeldSaid'
    BY <1>0, <1>1, <2>5, AskIs DEF Refresh
  <2>6. ASSUME Stop("refresh"), Shut PROVE HeldSaid'
    BY <1>0, <1>1, <2>6, StopIs DEF Shut
  <2> QED BY <1>13, <2>1, <2>2, <2>4, <2>5, <2>6 DEF Refreshing, ShowItems, Superseded
<1>14. ASSUME Reload PROVE HeldSaid'
  BY <1>0, <1>14 DEF Reload, Idle
<1>15. ASSUME World PROVE HeldSaid'
  <2>1. ASSUME NEW p \in Handlers, NEW ans, Reply(p, ans), UNCHANGED work PROVE HeldSaid'
    BY <1>0, <1>1, <2>1, ReplyIs
  <2>2. ASSUME NEW p \in Handlers, Serve(p) \/ Miss(p) PROVE HeldSaid'
    BY <2>1, <2>2 DEF Serve, ServePost, ServePatch, ServeDelete, ServeGet, Miss
  <2> QED BY <1>3, <1>15, <2>2 DEF World, RemoteEdit, RemoteForget, Deliver, Lose
<1> QED BY <1>9, <1>10, <1>11, <1>12, <1>13, <1>14, <1>15 DEF Next, Browser

LEMMA SaidNext == ASSUME Typed, StoredWhenSaid, [Next]_vars PROVE StoredWhenSaid'
<1>1. CASE UNCHANGED vars
  BY <1>1 DEF vars, serverVars, StoredWhenSaid, TablesSaid, AnswersSaid, AnswerSaid, HubSaid, HeldSaid
<1>2. CASE Next
  BY <1>2, NeverUnstored, TablesSaidNext, AnswersSaidNext, HubSaidNext, HeldSaidNext
     DEF StoredWhenSaid
<1> QED BY <1>1, <1>2

-----------------------------------------------------------------------------
(* Nothing names a note before it has been written. *)

Unknown(n) ==
    /\ cache[n] = Blank /\ tray[n] = Blank /\ srv[n] = 0 /\ list[n] = 0 /\ fate[n] = "none"
    /\ \A m \in hub : m.n # n
    /\ \A p \in Handlers : proc[p].n # n
    /\ \A p \in Handlers : \A r \in work[p] : r.n # n

UnwrittenUnknown == \A n \in Notes : next[n] = 0 => Unknown(n)

LEMMA WrittenStays ==
    ASSUME Typed, [Next]_vars, NEW n \in Notes, next'[n] = 0
    PROVE  next[n] = 0
<1> USE DEF Typed, TablesSound, TablesOK
<1>1. CASE UNCHANGED next
  BY <1>1
<1>2. ASSUME NEW m \in Notes, next' = [next EXCEPT ![m] = @ + 1] PROVE next[n] = 0
  BY <1>2
<1>3. CASE Composer
  <2>1. ASSUME NEW m \in Notes, Send(m) \/ Edit(m) PROVE next[n] = 0
    BY <1>2, <2>1 DEF Send, Edit, Write
  <2> QED BY <1>1, <1>3, <2>1 DEF Composer, Persist, Posted, Keep, Patched, serverVars
<1>4. CASE Buttons \/ Drain
  BY <1>1, <1>4 DEF Buttons, SyncButton, SwitchOff, SwitchOn, serverVars,
                    Drain, Flush, Release, Released, PostCached, PostedCached, Drained
<1>5. CASE Forgetting
  BY <1>1, <1>5 DEF Forgetting, Forget, TombLapses, ForgetRow, Forgotten, Undo, Undone, UndoLapses,
                    serverVars
<1>6. CASE Refreshing \/ Reload
  BY <1>1, <1>6 DEF Refreshing, Refresh, Listed, Upsert, Upserted, ListFailed, Prune, ShowItems,
                    Superseded, Reload, serverVars
<1>7. CASE World
  <2>1. ASSUME NEW m \in Notes, RemoteEdit(m) PROVE next[n] = 0
    BY <1>2, <2>1 DEF RemoteEdit
  <2> QED BY <1>1, <1>7, <2>1 DEF World, Serve, ServePost, ServePatch, ServeDelete, ServeGet, Miss,
                                 RemoteForget, Deliver, Lose, serverVars
<1> QED BY <1>1, <1>3, <1>4, <1>5, <1>6, <1>7 DEF Next, Browser, vars, serverVars

LEMMA UnknownNext ==
    ASSUME Typed, NEW n \in Notes, Unknown(n), next'[n] = 0, Next
    PROVE  Unknown(n)'
<1> USE DEF Typed, TablesSound, TablesOK
<1> DEFINE c == proc["composer"]
           f == proc["forget"]
           NoHandler == \A p \in Handlers : proc'[p].n # n
           NoRow == \A p \in Handlers : \A r \in work'[p] : r.n # n
           NoEnvelope == \A m \in hub' : m.n # n
<1>0. /\ cache[n] = Blank /\ tray[n] = Blank /\ srv[n] = 0 /\ list[n] = 0 /\ fate[n] = "none"
      /\ \A m \in hub : m.n # n
      /\ \A p \in Handlers : proc[p].n # n /\ \A r \in work[p] : r.n # n
      /\ {"composer", "forget", "account", "refresh", "flush", "button"} \subseteq Handlers
      /\ Posters \subseteq Handlers /\ NoNote # n
      /\ n \notin Shown /\ n \notin Unsynced
  BY BoundsAssumption DEF Unknown, Handlers, Posters, Shown, Unsynced, Blank, Outboxed
\* A write to another note, ...
<1>1. ASSUME NEW m, m # n, NEW ver, NEW state, Put(m, ver, state) PROVE cache'[n] = Blank
  BY <1>0, <1>1 DEF Put
<1>2. ASSUME NEW m, m # n, NEW ver, NEW state, Show(m, ver, state) \/ Mark(m, state)
      PROVE  tray'[n] = Blank
  BY <1>0, <1>2 DEF Show, Mark
<1>3. ASSUME NEW N, NEW from, NEW to, n \notin N \/ "none" \notin from, Turn(N, from, to)
      PROVE  fate'[n] = "none"
  BY <1>0, <1>3 DEF Turn
<1>4. ASSUME NEW m, m # n, NEW kind, NEW ver, Publish(kind, m, ver) PROVE NoEnvelope
  BY <1>0, <1>4 DEF Publish
\* ... a handler that goes on, ...
<1>5. ASSUME NEW p \in Handlers, NEW m, m # n, NEW verb, NEW ver, NEW was,
             Ask(p, verb, m, ver, was)
      PROVE  NoHandler
  BY <1>0, <1>5, AskIs
<1>6. ASSUME NEW p \in Handlers, Stop(p) \/ \E place : Goto(p, place) PROVE NoHandler
  BY <1>0, <1>6, StopIs, GotoIs
<1>7. ASSUME NEW p \in Handlers, NEW ans, Reply(p, ans) PROVE NoHandler
  BY <1>0, <1>7, ReplyIs
<1>8. ASSUME NEW p \in Handlers, NEW h, h.n # n, proc' = [proc EXCEPT ![p] = h] PROVE NoHandler
  BY <1>0, <1>8 DEF HandlersSound, HandlersOK
\* ... and the rows it takes up.
<1>9. ASSUME NEW p \in Handlers, NEW rows, work' = [work EXCEPT ![p] = rows],
             \A r \in rows : r.n # n
      PROVE  NoRow
  BY <1>0, <1>9 DEF HandlersSound, HandlersOK
<1>10. \A states : "none" \notin states => \A r \in Read(states) : r.n # n
  BY <1>0 DEF Read, Blank
<1>11. \A r \in Queue : r.n # n
  BY <1>10 DEF Queue
<1>12. \A r \in Upserts : r.n # n
  BY <1>0 DEF Upserts, Blank
<1>13. UNCHANGED proc => NoHandler
  BY <1>0
<1>14. UNCHANGED work => NoRow
  BY <1>0
<1>15. UNCHANGED hub => NoEnvelope
  BY <1>0
<1>16. ASSUME Composer PROVE Unknown(n)'
  <2>1. c.n # n /\ c.ans \in {"none", "wait", "ok", "error", "offline"}
    BY <1>0 DEF HandlersSound, HandlersOK, ProcState
  <2>2. ASSUME NEW m \in Notes, Send(m) PROVE Unknown(n)'
    <3>1. m # n
      BY <2>2 DEF Send, Write
    <3>2. NoHandler
      BY <1>0, <1>8, <2>2, <3>1 DEF Send
    <3>3. fate'[n] = "none"
      BY <1>3, <2>2, <3>1 DEF Send
    <3> QED BY <1>0, <1>2, <1>14, <1>15, <2>2, <3>1, <3>2, <3>3 DEF Send, Unknown
  <2>3. ASSUME NEW m \in Notes, Edit(m) PROVE Unknown(n)'
    <3>1. m # n
      BY <1>0, <2>3 DEF Edit
    <3>2. NoHandler
      BY <1>0, <1>8, <2>3, <3>1 DEF Edit
    <3> QED BY <1>0, <1>2, <1>14, <1>15, <2>3, <3>1, <3>2 DEF Edit, Unknown
  <2>4. ASSUME Persist PROVE Unknown(n)'
    <3>1. NoHandler
      BY <1>0, <1>5, <1>6, <2>1, <2>4 DEF Persist
    <3>2. fate'[n] = "none"
      BY <1>0, <2>1, <2>4 DEF Persist, Owe
    <3> QED BY <1>0, <1>1, <1>2, <1>14, <1>15, <2>1, <2>4, <3>1, <3>2 DEF Persist, Unknown, serverVars
  <2>5. ASSUME Posted PROVE Unknown(n)'
    <3>1. NoHandler
      BY <1>0, <1>6, <2>5 DEF Posted
    <3>2. c.ans \in {"ok", "error", "offline"}
      BY <1>0, <2>5 DEF Posted, HandlersSound, HandlerFits, HandlersOK, ProcState
    <3>3. cache'[n] = Blank /\ tray'[n] = Blank /\ fate'[n] = "none"
      BY <1>0, <1>1, <1>2, <1>3, <2>1, <2>5, <3>2 DEF Posted
    <3> QED BY <1>0, <1>14, <1>15, <2>5, <3>1, <3>3 DEF Posted, Unknown, serverVars
  <2>6. ASSUME Keep PROVE Unknown(n)'
    <3>1. NoHandler
      BY <1>0, <1>6, <2>6 DEF Keep
    <3> QED BY <1>0, <1>1, <1>2, <1>14, <1>15, <2>1, <2>6, <3>1 DEF Keep, Unknown, serverVars
  <2>7. ASSUME Patched PROVE Unknown(n)'
    <3>1. NoHandler
      BY <1>0, <1>6, <2>7 DEF Patched
    <3>2. c.ans \in {"ok", "error", "offline"}
      BY <1>0, <2>7 DEF Patched, HandlersSound, HandlerFits, HandlersOK, ProcState
    <3>3. cache'[n] = Blank /\ tray'[n] = Blank
      BY <1>0, <1>1, <1>2, <2>1, <2>7, <3>2 DEF Patched
    <3> QED BY <1>0, <1>14, <1>15, <2>7, <3>1, <3>3 DEF Patched, Unknown, serverVars
  <2> QED BY <1>16, <2>2, <2>3, <2>4, <2>5, <2>6, <2>7 DEF Composer
<1>17. ASSUME Buttons PROVE Unknown(n)'
  <2>1. ASSUME NEW rows \in SUBSET Read(Outboxed), SyncButton(rows) PROVE Unknown(n)'
    <3>1. \A r \in rows : r.n # n
      BY <1>10 DEF Outboxed
    <3>2. fate'[n] = "none"
      BY <1>0, <2>1, <3>1 DEF SyncButton
    <3>3. NoHandler /\ NoRow
      BY <1>0, <1>6, <1>9, <2>1, <3>1 DEF SyncButton, Take
    <3> QED BY <1>0, <1>15, <2>1, <3>2, <3>3 DEF SyncButton, Unknown, serverVars, trayVars
  <2>2. ASSUME SwitchOn PROVE Unknown(n)'
    <3>1. NoHandler /\ NoRow
      BY <1>0, <1>6, <1>9, <1>10, <2>2 DEF SwitchOn, Outboxed
    <3>2. fate'[n] = "none"
      BY <1>3, <2>2 DEF SwitchOn
    <3> QED BY <1>0, <1>15, <2>2, <3>1, <3>2 DEF SwitchOn, Unknown, serverVars, trayVars
  <2>3. ASSUME SwitchOff PROVE Unknown(n)'
    BY <1>0, <2>3 DEF SwitchOff, Unknown, serverVars, trayVars
  <2>4. \A r \in Read(Outboxed) : {r} \in SUBSET Read(Outboxed)
    OBVIOUS
  <2> QED BY <1>17, <2>1, <2>2, <2>3, <2>4 DEF Buttons
<1>18. ASSUME Drain PROVE Unknown(n)'
  <2>1. ASSUME Flush PROVE Unknown(n)'
    <3>1. NoHandler /\ NoRow
      BY <1>0, <1>6, <1>9, <1>11, <2>1 DEF Flush, Take
    <3> QED BY <1>0, <1>15, <2>1, <3>1 DEF Flush, Unknown, serverVars, trayVars
  <2>2. ASSUME Release PROVE Unknown(n)'
    <3>1. PICK r \in work["account"] :
             /\ Put(r.n, r.row.ver, IF r.row.state = "held" THEN "queued" ELSE r.row.state)
             /\ work' = [work EXCEPT !["account"] = work["account"] \ {r}]
      BY <2>2 DEF Release
    <3>2. cache'[n] = Blank /\ NoRow
      BY <1>0, <1>1, <1>9, <3>1
    <3> QED BY <1>0, <1>13, <1>15, <2>2, <3>2 DEF Release, Unknown, serverVars, trayVars
  <2>3. ASSUME Released PROVE Unknown(n)'
    <3>1. NoHandler /\ NoRow
      BY <1>0, <1>6, <1>9, <1>11, <1>14, <2>3 DEF Released, Take
    <3> QED BY <1>0, <1>15, <2>3, <3>1 DEF Released, Unknown, serverVars, trayVars
  <2>4. ASSUME NEW p \in Posters, PostCached(p) PROVE Unknown(n)'
    <3>1. NoHandler
      BY <1>0, <1>5, <2>4 DEF PostCached
    <3>2. NoRow
      BY <1>0, <1>9, <2>4 DEF PostCached
    <3> QED BY <1>0, <1>15, <2>4, <3>1, <3>2 DEF PostCached, Unknown, serverVars, trayVars
  <2>5. ASSUME NEW p \in Posters, PostedCached(p) PROVE Unknown(n)'
    <3>1. NoHandler
      BY <1>0, <1>6, <2>5 DEF PostedCached
    <3>2. NoRow
      BY <1>0, <1>9, <1>14, <2>5 DEF PostedCached
    <3>3. cache'[n] = Blank
      BY <1>0, <1>1, <2>5 DEF PostedCached
    <3> QED BY <1>0, <1>15, <2>5, <3>1, <3>2, <3>3 DEF PostedCached, Unknown, serverVars, trayVars
  <2>6. ASSUME NEW p \in Posters, Drained(p) PROVE Unknown(n)'
    <3>1. NoHandler
      BY <1>0, <1>6, <2>6 DEF Drained
    <3>2. tray'[n] = Blank
      BY <1>0, <2>6 DEF Drained, ApplySyncState, Blank
    <3> QED BY <1>0, <1>14, <1>15, <2>6, <3>1, <3>2 DEF Drained, Unknown, serverVars
  <2> QED BY <1>18, <2>1, <2>2, <2>3, <2>4, <2>5, <2>6 DEF Drain
<1>19. ASSUME Forgetting PROVE Unknown(n)'
  <2>0. f.n # n
    BY <1>0
  <2>1. ASSUME NEW m \in Notes, Forget(m) PROVE Unknown(n)'
    <3>1. m # n
      BY <1>0, <2>1 DEF Forget
    <3>2. NoHandler
      BY <1>0, <1>8, <2>1, <3>1 DEF Forget
    <3> QED BY <1>0, <1>2, <1>14, <1>15, <2>1, <3>1, <3>2 DEF Forget, Unknown, serverVars
  <2>2. ASSUME NEW m \in Notes, TombLapses(m) PROVE Unknown(n)'
    BY <1>0, <2>2 DEF TombLapses, Unknown, serverVars
  <2>3. \A at, ans : proc' = [proc EXCEPT !["forget"].at = at, !["forget"].ans = ans] => NoHandler
    BY <1>0 DEF HandlersSound, HandlersOK, ProcState
  <2>4. ASSUME ForgetRow PROVE Unknown(n)'
    <3>1. NoHandler
      BY <1>0, <1>5, <2>0, <2>3, <2>4 DEF ForgetRow
    <3>2. cache'[n] = Blank /\ fate'[n] = "none"
      BY <1>0, <1>1, <2>0, <2>4 DEF ForgetRow
    <3> QED BY <1>0, <1>14, <1>15, <2>4, <3>1, <3>2 DEF ForgetRow, Unknown, serverVars, trayVars
  <2>5. ASSUME Forgotten PROVE Unknown(n)'
    <3>1. NoHandler
      BY <1>0, <2>5 DEF Forgotten, HandlersSound, HandlersOK, ProcState
    <3> QED BY <1>0, <1>14, <1>15, <2>5, <3>1 DEF Forgotten, Unknown, serverVars, trayVars
  <2>6. ASSUME Undo PROVE Unknown(n)'
    <3>1. NoHandler
      BY <1>0, <1>5, <1>6, <2>0, <2>6 DEF Undo
    <3>2. cache'[n] = Blank
      BY <1>0, <1>1, <2>0, <2>6 DEF Undo
    <3>3. tray'[n] = Blank
      BY <1>0, <2>0, <2>6 DEF Undo
    <3>4. fate'[n] = "none"
      BY <1>0, <1>3, <2>0, <2>6 DEF Undo
    <3> QED BY <1>0, <1>14, <1>15, <2>6, <3>1, <3>2, <3>3, <3>4 DEF Undo, Unknown, serverVars
  <2>7. ASSUME Undone PROVE Unknown(n)'
    <3>1. NoHandler
      BY <1>0, <1>6, <2>7 DEF Undone
    <3>2. cache'[n] = Blank /\ fate'[n] = "none"
      BY <1>0, <1>1, <1>3, <2>0, <2>7 DEF Undone
    <3>3. tray'[n] = Blank
      BY <1>0, <2>0, <2>7 DEF Undone
    <3> QED BY <1>0, <1>14, <1>15, <2>7, <3>1, <3>2, <3>3 DEF Undone, Unknown, serverVars
  <2>8. ASSUME UndoLapses PROVE Unknown(n)'
    <3>1. NoHandler
      BY <1>0, <1>6, <2>8 DEF UndoLapses
    <3> QED BY <1>0, <1>14, <1>15, <2>8, <3>1 DEF UndoLapses, Unknown, serverVars, trayVars
  <2> QED BY <1>19, <2>1, <2>2, <2>4, <2>5, <2>6, <2>7, <2>8 DEF Forgetting
<1>20. ASSUME Refreshing PROVE Unknown(n)'
  <2>1. ASSUME Refresh PROVE Unknown(n)'
    <3>1. NoHandler
      BY <1>0, <1>5, <2>1 DEF Refresh
    <3> QED BY <1>0, <1>14, <1>15, <2>1, <3>1 DEF Refresh, Unknown, serverVars, trayVars
  <2>2. ASSUME Listed PROVE Unknown(n)'
    <3>1. NoHandler /\ NoRow
      BY <1>0, <1>6, <1>9, <1>12, <2>2 DEF Listed
    <3> QED BY <1>0, <1>15, <2>2, <3>1 DEF Listed, Unknown, serverVars, trayVars
  <2>3. ASSUME Upsert PROVE Unknown(n)'
    <3>1. PICK r \in work["refresh"] :
             /\ Put(r.n, r.row.ver, r.row.state)
             /\ work' = [work EXCEPT !["refresh"] = work["refresh"] \ {r}]
      BY <2>3 DEF Upsert
    <3>2. cache'[n] = Blank /\ NoRow
      BY <1>0, <1>1, <1>9, <3>1
    <3> QED BY <1>0, <1>13, <1>15, <2>3, <3>2 DEF Upsert, Unknown, serverVars, trayVars
  <2>4. ASSUME NEW place, Prune(place) PROVE Unknown(n)'
    <3>1. NoHandler /\ NoRow
      BY <1>0, <1>6, <1>9, <1>10, <2>4 DEF Prune, Outboxed
    <3> QED BY <1>0, <1>15, <2>4, <3>1 DEF Prune, Unknown, serverVars
  <2>5. ASSUME Stop("refresh"), Shut PROVE NoHandler /\ NoRow /\ list'[n] = 0
    BY <1>0, <1>6, <1>9, <2>5 DEF Shut
  <2>6. ASSUME ShowItems PROVE Unknown(n)'
    <3>1. CachedVersions(work["refresh"])[n] = 0
      BY <1>0 DEF CachedVersions
    <3>2. ASSUME NEW read, read[n] = 0, NEW rows PROVE ApplySyncState(Merge(read), rows)[n] = Blank
      BY <1>0, <3>2 DEF ApplySyncState, Merge, Blank
    <3>3. tray'[n] = Blank
      BY <1>0, <2>6, <3>1, <3>2 DEF ShowItems
    <3> QED BY <1>0, <1>15, <2>5, <2>6, <3>3 DEF ShowItems, Unknown, serverVars
  <2>7. ASSUME Superseded PROVE Unknown(n)'
    BY <1>0, <1>15, <2>5, <2>7 DEF Superseded, Unknown, serverVars, trayVars
  <2> QED BY <1>20, <2>1, <2>2, <2>3, <2>4, <2>6, <2>7 DEF Refreshing, Upserted, ListFailed
<1>21. ASSUME Reload PROVE Unknown(n)'
  BY <1>0, <1>3, <1>21 DEF Reload, Idle, Unknown, serverVars
<1>22. ASSUME World PROVE Unknown(n)'
  <2>1. ASSUME NEW p \in Handlers, ServePost(p) \/ ServePatch(p) \/ ServeDelete(p) PROVE Unknown(n)'
    <3>1. proc[p].n # n
      BY <1>0
    <3>2. NoHandler
      BY <1>7, <2>1 DEF ServePost, ServePatch, ServeDelete
    <3>3. NoEnvelope
      BY <1>4, <1>15, <2>1, <3>1 DEF ServePost, ServePatch, ServeDelete
    <3>4. srv'[n] = 0
      BY <1>0, <2>1, <3>1 DEF ServePost, ServePatch, ServeDelete
    <3>5. fate'[n] = "none"
      BY <1>0, <2>1, <3>1 DEF ServePost, ServePatch, ServeDelete, Stored
    <3> QED BY <1>0, <1>14, <2>1, <3>2, <3>3, <3>4, <3>5
            DEF ServePost, ServePatch, ServeDelete, Unknown, trayVars
  <2>2. ASSUME NEW p \in Handlers, ServeGet(p) \/ Miss(p) PROVE Unknown(n)'
    <3>1. NoHandler
      BY <1>7, <2>2 DEF ServeGet, Miss
    <3> QED BY <1>0, <1>14, <1>15, <2>2, <3>1 DEF ServeGet, Miss, Unknown, serverVars, trayVars
  <2>3. ASSUME NEW m \in Notes, RemoteEdit(m) \/ RemoteForget(m) PROVE Unknown(n)'
    <3>1. m # n
      BY <1>0, <2>3 DEF RemoteEdit, RemoteForget
    <3>2. NoEnvelope
      BY <1>4, <2>3, <3>1 DEF RemoteEdit, RemoteForget
    <3>3. srv'[n] = 0
      BY <1>0, <2>3, <3>1 DEF RemoteEdit, RemoteForget
    <3> QED BY <1>0, <1>13, <1>14, <2>3, <3>2, <3>3 DEF RemoteEdit, RemoteForget, Unknown, trayVars
  <2>4. ASSUME NEW m \in hub, Deliver(m) PROVE Unknown(n)'
    <3>1. m.n # n /\ m.kind \in {"created", "updated", "deleted"}
      BY <1>0 DEF Envelope
    <3>2. cache'[n] = Blank /\ tray'[n] = Blank /\ NoEnvelope
      BY <1>0, <1>1, <1>2, <2>4, <3>1 DEF Deliver
    <3> QED BY <1>0, <1>13, <1>14, <2>4, <3>2 DEF Deliver, Unknown, serverVars
  <2>5. ASSUME NEW m \in hub, Lose(m) PROVE Unknown(n)'
    BY <1>0, <2>5 DEF Lose, Unknown, serverVars, trayVars
  <2> QED BY <1>22, <2>1, <2>2, <2>3, <2>4, <2>5 DEF World, Serve
<1> QED BY <1>16, <1>17, <1>18, <1>19, <1>20, <1>21, <1>22 DEF Next, Browser

LEMMA UnknownKept == ASSUME Typed, UnwrittenUnknown, [Next]_vars PROVE UnwrittenUnknown'
<1>1. CASE UNCHANGED vars
  BY <1>1 DEF vars, serverVars, trayVars, UnwrittenUnknown, Unknown
<1>2. CASE Next
  BY <1>2, WrittenStays, UnknownNext DEF UnwrittenUnknown
<1> QED BY <1>1, <1>2

-----------------------------------------------------------------------------
(* A note whose intent is not known yet. *)

\* The composer has shown the note and not yet asked what is to become of it.
Open(n) == proc["composer"].at = "persist" /\ proc["composer"].n = n /\ fate[n] = "sent"

\* No handler but the composer's own next step can post it then.
OutOfReach(n) ==
    /\ cache[n].state \notin Outboxed
    /\ \A p \in Handlers : proc[p].n = n => proc[p].at # "post"
    /\ \A p \in Handlers : \A r \in work[p] : r.n = n => r.row.state \notin Outboxed

OpenUntilKept == \A n \in Notes : Open(n) => OutOfReach(n)

\* Only a step of the composer's own, or a reload, moves the composer.
LEMMA ComposerMoves ==
    ASSUME Typed, Next, proc'["composer"].at = "persist"
    PROVE  \/ \E n \in Notes : Send(n) /\ proc'["composer"].n = n
           \/ ~ Composer /\ /\ proc["composer"].at = "persist"
                            /\ proc'["composer"].n = proc["composer"].n
<1> USE DEF Typed
<1> DEFINE Still == /\ proc'["composer"].at = proc["composer"].at
                    /\ proc'["composer"].n = proc["composer"].n
<1>0. /\ {"composer", "forget", "account", "refresh", "flush", "button"} \subseteq Handlers
      /\ Posters \subseteq Handlers \ {"composer"} /\ proc \in [Handlers -> ProcState]
  BY DEF Handlers, Posters, HandlersSound, HandlersOK
<1>1. ASSUME NEW p \in Handlers \ {"composer"},
             \/ Stop(p) \/ \E place : Goto(p, place) \/ \E ans : Reply(p, ans)
             \/ \E verb, n, ver, was : Ask(p, verb, n, ver, was)
      PROVE  Still
  BY <1>0, <1>1, AskIs, GotoIs, StopIs, ReplyIs
<1>2. ASSUME Composer PROVE \E n \in Notes : Send(n) /\ proc'["composer"].n = n
  <2>1. ASSUME NEW n \in Notes, Send(n) PROVE proc'["composer"].n = n
    BY <1>0, <2>1 DEF Send
  <2>2. ASSUME NEW n \in Notes, Edit(n) PROVE FALSE
    BY <1>0, <2>2 DEF Edit, EditIntents
  <2>3. ASSUME Persist \/ Posted \/ Keep \/ Patched PROVE FALSE
    <3>1. Stop("composer") \/ Ask("composer", "post", proc["composer"].n, 1, Blank)
      BY <2>3 DEF Persist, Posted, Keep, Patched
    <3> QED BY <1>0, <3>1, AskIs, StopIs
  <2> QED BY <1>2, <2>1, <2>2, <2>3 DEF Composer
<1>3. ASSUME Buttons PROVE Still
  <2>1. ASSUME NEW rows, SyncButton(rows) PROVE Still
    BY <1>0, <1>1, <2>1 DEF SyncButton, Take
  <2>2. ASSUME SwitchOn PROVE Still
    BY <1>0, <1>1, <2>2 DEF SwitchOn
  <2> QED BY <1>3, <2>1, <2>2 DEF Buttons, SwitchOff
<1>4. ASSUME Drain PROVE Still
  <2>1. ASSUME NEW p \in Posters, PostCached(p) \/ PostedCached(p) \/ Drained(p) PROVE Still
    BY <1>0, <1>1, <2>1 DEF PostCached, PostedCached, Drained
  <2>2. ASSUME Flush \/ Release \/ Released PROVE Still
    BY <1>0, <1>1, <2>2 DEF Flush, Take, Release, Released
  <2> QED BY <1>4, <2>1, <2>2 DEF Drain
<1>5. ASSUME Forgetting PROVE Still
  <2>1. proc'["composer"] = proc["composer"]
    BY <1>5 DEF Forgetting, Forget, TombLapses, ForgetRow, Forgotten, Undo, Undone, UndoLapses,
                Ask, Stop, HandlersSound, HandlersOK, Handlers
  <2> QED BY <2>1
<1>6. ASSUME Refreshing PROVE Still
  <2>1. \/ UNCHANGED proc
        \/ Ask("refresh", "get", NoNote, 0, Blank)
        \/ Stop("refresh")
        \/ \E place : Goto("refresh", place)
    BY <1>6 DEF Refreshing, Refresh, Listed, Upsert, Upserted, ListFailed, Prune, ShowItems,
                Superseded
  <2> QED BY <1>0, <1>1, <2>1
<1>7. ~Reload
  BY <1>0 DEF Reload, Idle
<1>8. ASSUME World PROVE Still
  <2>1. ASSUME NEW p \in Handlers, NEW ans, Reply(p, ans) PROVE Still
    BY <1>0, <2>1, ReplyIs
  <2> QED BY <1>8, <2>1 DEF World, Serve, ServePost, ServePatch, ServeDelete, ServeGet, Miss,
                            RemoteEdit, RemoteForget, Deliver, Lose
<1> QED BY <1>2, <1>3, <1>4, <1>5, <1>6, <1>7, <1>8 DEF Next, Browser

LEMMA OpenNext ==
    ASSUME Typed, UnwrittenUnknown, OpenUntilKept, Next, NEW n \in Notes, Open(n)'
    PROVE  OutOfReach(n)'
<1> USE DEF Typed, TablesSound, TablesOK
<1> DEFINE f == proc["forget"]
           NotKept == cache'[n].state \notin Outboxed
           NotPosted == \A p \in Handlers : proc'[p].n = n => proc'[p].at # "post"
           NotHeld == \A p \in Handlers : \A r \in work'[p] : r.n = n => r.row.state \notin Outboxed
<1>1. CASE Send(n)
  <2>1. Unknown(n)
    BY <1>1 DEF Send, UnwrittenUnknown
  <2>2. NotPosted
    BY <1>1, <2>1 DEF Send, Unknown, HandlersSound, HandlersOK
  <2> QED BY <1>1, <2>1, <2>2 DEF Send, Unknown, OutOfReach, Blank, Outboxed
<1>2. CASE ~ Send(n)
  <2>0. /\ ~ Composer /\ Open(n)
        /\ {"composer", "forget", "account", "refresh", "flush", "button"} \subseteq Handlers
        /\ Posters \subseteq Handlers /\ NoNote # n
    <3>1. ~ Composer /\ proc["composer"].at = "persist" /\ proc["composer"].n = n
      BY <1>2, ComposerMoves DEF Open, Composer
    <3>2. fate[n] = "sent"
      BY <1>2, FateMoves DEF Open
    <3> QED BY <3>1, <3>2, BoundsAssumption DEF Open, Handlers, Posters
  <2>1. /\ cache[n].state \notin Outboxed
        /\ \A p \in Handlers : /\ proc[p].n = n => proc[p].at # "post"
                               /\ \A r \in work[p] : r.n = n => r.row.state \notin Outboxed
                               /\ HandlerFits(p, proc[p]) /\ RowsFit(p, proc[p].at, work[p])
    BY <2>0 DEF OpenUntilKept, OutOfReach, HandlersSound
  \* What a write, a handler that goes on, and rows taken up change.
  <2>2. ASSUME NEW m, NEW ver, NEW state, Put(m, ver, state), m # n \/ state \notin Outboxed
        PROVE  NotKept
    BY <2>1, <2>2 DEF Put
  <2>3. ASSUME NEW p \in Handlers, Stop(p) \/ (\E place : Goto(p, place)) \/ (\E ans : Reply(p, ans))
        PROVE  NotPosted
    BY <2>0, <2>1, <2>3, StopIs, GotoIs, ReplyIs
  <2>4. ASSUME NEW p \in Handlers, NEW verb, NEW m, NEW ver, NEW was, Ask(p, verb, m, ver, was),
               m # n \/ verb # "post"
        PROVE  NotPosted
    BY <2>0, <2>1, <2>4, AskIs
  <2>5. ASSUME NEW p \in Handlers, NEW rows, work' = [work EXCEPT ![p] = rows],
               \A r \in rows : r.n = n => r.row.state \notin Outboxed
        PROVE  NotHeld
    BY <2>1, <2>5 DEF HandlersSound, HandlersOK
  <2>6. /\ UNCHANGED cache => NotKept
        /\ UNCHANGED proc => NotPosted
        /\ UNCHANGED work => NotHeld
    BY <2>1
  <2>7. ASSUME NEW p \in Handlers, work' = [work EXCEPT ![p] = {}] PROVE NotHeld
    BY <2>1, <2>7 DEF HandlersSound, HandlersOK
  <2>8. \A states : "none" \notin states =>
           \A r \in Read(states) : r.n = n => r.row.state \notin Outboxed
    BY <2>1, ReadTyped
  <2>9. \A states : states \subseteq Outboxed => \A r \in Read(states) : r.n # n
    BY <2>1 DEF Read
  <2>10. ASSUME NotKept, NotPosted, NotHeld PROVE OutOfReach(n)'
    BY <2>10 DEF OutOfReach
  <2>11. ASSUME Buttons PROVE OutOfReach(n)'
    <3>1. ASSUME NEW rows \in SUBSET Read(Outboxed), SyncButton(rows) PROVE OutOfReach(n)'
      <4>1. \A r \in rows : r.n # n
        BY <2>9
      <4> QED BY <2>0, <2>3, <2>5, <2>6, <2>10, <3>1, <4>1 DEF SyncButton, Take
    <3>2. ASSUME SwitchOn PROVE OutOfReach(n)'
      BY <2>0, <2>3, <2>5, <2>6, <2>8, <2>10, <3>2 DEF SwitchOn, Outboxed
    <3>3. ASSUME SwitchOff PROVE OutOfReach(n)'
      BY <2>6, <2>10, <3>3 DEF SwitchOff
    <3>4. \A r \in Read(Outboxed) : {r} \in SUBSET Read(Outboxed)
      OBVIOUS
    <3> QED BY <2>11, <3>1, <3>2, <3>3, <3>4 DEF Buttons
  <2>12. ASSUME Drain PROVE OutOfReach(n)'
    <3>0. \A r \in Queue : r.n # n
      BY <2>9 DEF Queue, Outboxed
    <3>1. ASSUME Flush PROVE OutOfReach(n)'
      BY <2>0, <2>3, <2>5, <2>6, <2>10, <3>0, <3>1 DEF Flush, Take
    <3>2. ASSUME Release PROVE OutOfReach(n)'
      <4>1. PICK r \in work["account"] :
               /\ Put(r.n, r.row.ver, IF r.row.state = "held" THEN "queued" ELSE r.row.state)
               /\ work' = [work EXCEPT !["account"] = work["account"] \ {r}]
        BY <3>2 DEF Release
      <4>2. r.n = n => r.row.state \notin Outboxed
        BY <2>0, <2>1
      <4>3. NotKept
        BY <2>2, <4>1, <4>2 DEF Outboxed
      <4>4. NotHeld
        BY <2>0, <2>1, <2>5, <4>1
      <4> QED BY <2>6, <2>10, <3>2, <4>3, <4>4 DEF Release
    <3>3. ASSUME Released PROVE OutOfReach(n)'
      <4>1. NotPosted /\ NotHeld
        BY <2>0, <2>3, <2>5, <2>6, <3>0, <3>3 DEF Released, Take
      <4> QED BY <2>6, <2>10, <3>3, <4>1 DEF Released
    <3>4. ASSUME NEW p \in Posters, PostCached(p) PROVE OutOfReach(n)'
      <4>1. PICK r \in work[p] :
               /\ Ask(p, IF r.row.state = "dirty" THEN "patch" ELSE "post", r.n, r.row.ver, Blank)
               /\ work' = [work EXCEPT ![p] = work[p] \ {r}]
        BY <3>4 DEF PostCached
      <4>2. r.n # n
        BY <2>0, <2>1, <3>4 DEF PostCached, RowsFit
      <4>3. NotPosted
        BY <2>0, <2>4, <4>1, <4>2
      <4>4. NotHeld
        BY <2>0, <2>1, <2>5, <4>1
      <4> QED BY <2>6, <2>10, <3>4, <4>3, <4>4 DEF PostCached
    <3>5. ASSUME NEW p \in Posters, PostedCached(p) PROVE OutOfReach(n)'
      <4>1. NotKept
        <5>1. "synced" \notin Outboxed
          BY DEF Outboxed
        <5>2. UNCHANGED cache \/ Put(proc[p].n, proc[p].ver, "synced")
          BY <3>5 DEF PostedCached
        <5> QED BY <2>2, <2>6, <5>1, <5>2
      <4>2. NotHeld
        BY <2>0, <2>6, <2>7, <3>5 DEF PostedCached
      <4> QED BY <2>0, <2>3, <2>10, <3>5, <4>1, <4>2 DEF PostedCached
    <3>6. ASSUME NEW p \in Posters, Drained(p) PROVE OutOfReach(n)'
      BY <2>0, <2>3, <2>6, <2>10, <3>6 DEF Drained
    <3> QED BY <2>12, <3>1, <3>2, <3>3, <3>4, <3>5, <3>6 DEF Drain
  <2>13. ASSUME Forgetting PROVE OutOfReach(n)'
    <3>0. fate'[n] = "sent" /\ proc \in [Handlers -> ProcState]
      BY DEF Open, HandlersSound, HandlersOK
    <3>1. ASSUME NEW m \in Notes, Forget(m) PROVE OutOfReach(n)'
      <4>1. NotPosted
        BY <2>0, <2>1, <3>0, <3>1 DEF Forget
      <4> QED BY <2>6, <2>10, <3>1, <4>1 DEF Forget
    <3>2. ASSUME NEW m \in Notes, TombLapses(m) PROVE OutOfReach(n)'
      BY <2>6, <2>10, <3>2 DEF TombLapses
    <3>3. ASSUME ForgetRow PROVE OutOfReach(n)'
      <4>1. NotKept
        BY <2>2, <3>3 DEF ForgetRow, Outboxed
      <4>2. CASE Ask("forget", "delete", f.n, 0, f.was)
        BY <2>0, <2>4, <2>6, <2>10, <3>3, <4>1, <4>2 DEF ForgetRow
      <4>3. CASE proc' = [proc EXCEPT !["forget"].at = "undo", !["forget"].ans = "ok"]
        <5>1. NotPosted
          BY <2>0, <2>1, <3>0, <4>3 DEF ProcState
        <5> QED BY <2>6, <2>10, <3>3, <4>1, <5>1 DEF ForgetRow
      <4> QED BY <3>3, <4>2, <4>3 DEF ForgetRow
    <3>4. ASSUME Forgotten PROVE OutOfReach(n)'
      <4>1. NotPosted
        BY <2>0, <2>1, <3>0, <3>4 DEF Forgotten, ProcState
      <4> QED BY <2>6, <2>10, <3>4, <4>1 DEF Forgotten
    \* An Undo would settle the fate of the note it is about.
    <3>5. ASSUME Undo PROVE OutOfReach(n)'
      <4>1. f.ans = "ok" => f.n # n
        BY <2>0, <2>1, <3>0, <3>5 DEF Undo, Turn, HandlerFits
      <4>2. NotKept
        BY <2>2, <2>6, <3>5, <4>1 DEF Undo
      <4>3. NotPosted
        BY <2>0, <2>3, <2>4, <3>5, <4>1 DEF Undo
      <4> QED BY <2>6, <2>10, <3>5, <4>2, <4>3 DEF Undo
    <3>6. ASSUME Undone PROVE OutOfReach(n)'
      <4>1. f.n # n
        BY <2>0, <2>1, <3>6 DEF Undone
      <4>2. NotKept
        BY <2>2, <2>6, <3>6, <4>1 DEF Undone
      <4> QED BY <2>0, <2>3, <2>6, <2>10, <3>6, <4>2 DEF Undone
    <3>7. ASSUME UndoLapses PROVE OutOfReach(n)'
      BY <2>0, <2>3, <2>6, <2>10, <3>7 DEF UndoLapses
    <3> QED BY <2>13, <3>1, <3>2, <3>3, <3>4, <3>5, <3>6, <3>7 DEF Forgetting
  <2>14. ASSUME Refreshing PROVE OutOfReach(n)'
    <3>1. ASSUME Refresh PROVE OutOfReach(n)'
      BY <2>0, <2>4, <2>6, <2>10, <3>1 DEF Refresh
    <3>2. ASSUME Listed PROVE OutOfReach(n)'
      <4>1. \A r \in Upserts : r.row.state \notin Outboxed
        BY DEF Upserts, Blank, Outboxed
      <4> QED BY <2>0, <2>3, <2>5, <2>6, <2>10, <3>2, <4>1 DEF Listed
    <3>3. ASSUME Upsert PROVE OutOfReach(n)'
      <4>1. PICK r \in work["refresh"] :
               /\ Put(r.n, r.row.ver, r.row.state)
               /\ work' = [work EXCEPT !["refresh"] = work["refresh"] \ {r}]
        BY <3>3 DEF Upsert
      <4>2. NotKept
        BY <2>0, <2>1, <2>2, <3>3, <4>1 DEF Upsert, RowsFit
      <4>3. NotHeld
        BY <2>0, <2>1, <2>5, <4>1
      <4> QED BY <2>6, <2>10, <3>3, <4>2, <4>3 DEF Upsert
    <3>4. ASSUME NEW place, Prune(place) PROVE OutOfReach(n)'
      <4>1. NotPosted
        BY <2>0, <2>3, <3>4 DEF Prune
      <4>2. NotHeld
        BY <2>0, <2>5, <2>8, <3>4 DEF Prune, Outboxed
      <4> QED BY <2>6, <2>10, <3>4, <4>1, <4>2 DEF Prune
    <3>5. ASSUME Stop("refresh"), Shut, UNCHANGED cache PROVE OutOfReach(n)'
      <4>1. NotPosted
        BY <2>0, <2>3, <3>5
      <4>2. NotHeld
        BY <2>0, <2>7, <3>5 DEF Shut
      <4> QED BY <2>6, <2>10, <3>5, <4>1, <4>2
    <3> QED BY <2>14, <3>1, <3>2, <3>3, <3>4, <3>5
            DEF Refreshing, Upserted, ListFailed, ShowItems, Superseded
  <2>15. ~ Reload
    BY <2>0 DEF Reload, Idle, Open
  <2>16. ASSUME World PROVE OutOfReach(n)'
    <3>1. ASSUME NEW p \in Handlers, Serve(p) \/ Miss(p) PROVE OutOfReach(n)'
      <4>1. UNCHANGED <<cache, work>> /\ \E ans : Reply(p, ans)
        BY <3>1 DEF Serve, ServePost, ServePatch, ServeDelete, ServeGet, Miss
      <4> QED BY <2>3, <2>6, <2>10, <4>1
    <3>2. ASSUME NEW m \in Notes, RemoteEdit(m) \/ RemoteForget(m) PROVE OutOfReach(n)'
      BY <2>6, <2>10, <3>2 DEF RemoteEdit, RemoteForget
    <3>3. ASSUME NEW m \in hub, Deliver(m) PROVE OutOfReach(n)'
      <4>1. NotKept
        <5>1. m.kind \in {"created", "updated", "deleted"}
          BY DEF Envelope
        <5> QED BY <2>2, <2>6, <3>3, <5>1 DEF Deliver, Outboxed
      <4> QED BY <2>6, <2>10, <3>3, <4>1 DEF Deliver
    <3>4. ASSUME NEW m \in hub, Lose(m) PROVE OutOfReach(n)'
      BY <2>6, <2>10, <3>4 DEF Lose
    <3> QED BY <2>16, <3>1, <3>2, <3>3, <3>4 DEF World
  <2> QED BY <2>0, <2>11, <2>12, <2>13, <2>14, <2>15, <2>16 DEF Next, Browser
<1> QED BY <1>1, <1>2

LEMMA OpenKept ==
    ASSUME Typed, UnwrittenUnknown, OpenUntilKept, [Next]_vars
    PROVE  OpenUntilKept'
<1>1. CASE UNCHANGED vars
  BY <1>1 DEF vars, OpenUntilKept, Open, OutOfReach
<1>2. CASE Next
  BY <1>2, OpenNext DEF OpenUntilKept
<1> QED BY <1>1, <1>2

-----------------------------------------------------------------------------
(* A note that was saved with Sync off, and that nobody asked for since. *)

SyncWhileSwitching == proc["account"].at # "idle" => sync

\* No handler posts it or holds a row to post.
Apart(n) ==
    /\ ~sync
    /\ proc["composer"].n = n => proc["composer"].at # "persist"
    /\ \A p \in Handlers : proc[p].n = n => proc[p].at # "post"
    /\ \A p \in Posters : \A r \in work[p] : r.n # n

HushedApart == SyncWhileSwitching /\ \A n \in Notes : fate[n] = "hushed" => Apart(n)

LEMMA SwitchingNext ==
    ASSUME Typed, SyncWhileSwitching, Next
    PROVE  SyncWhileSwitching'
<1> USE DEF SyncWhileSwitching, Typed
<1>0. /\ {"composer", "forget", "account", "refresh", "flush", "button"} \subseteq Handlers
      /\ Posters \subseteq Handlers
  BY DEF Handlers, Posters
<1>1. ASSUME UNCHANGED sync, proc'["account"].at # "idle" => proc["account"].at # "idle"
      PROVE  SyncWhileSwitching'
  BY <1>1
<1>2. ASSUME NEW p \in Handlers, p # "account" \/ proc[p].at # "idle", UNCHANGED sync,
             \/ Stop(p) \/ (\E place : Goto(p, place)) \/ (\E ans : Reply(p, ans))
             \/ \E verb, n, ver, was : Ask(p, verb, n, ver, was)
      PROVE  SyncWhileSwitching'
  BY <1>0, <1>1, <1>2, AskIs, GotoIs, StopIs, ReplyIs
<1>3. ASSUME NEW p \in Handlers \ {"account"}, UNCHANGED sync,
             \A q \in Handlers \ {p} : proc'[q] = proc[q]
      PROVE  SyncWhileSwitching'
  BY <1>0, <1>1, <1>3
<1>4. ASSUME UNCHANGED <<sync, proc>> PROVE SyncWhileSwitching'
  BY <1>4
<1>5. CASE Composer
  <2>1. ASSUME NEW n \in Notes, Send(n) \/ Edit(n) PROVE SyncWhileSwitching'
    BY <1>0, <1>3, <2>1 DEF Send, Edit, HandlersSound, HandlersOK
  <2>2. ASSUME Persist \/ Posted \/ Keep \/ Patched PROVE SyncWhileSwitching'
    <3>1. UNCHANGED sync
          /\ (Stop("composer") \/ Ask("composer", "post", proc["composer"].n, 1, Blank))
      BY <2>2 DEF Persist, Posted, Keep, Patched
    <3> QED BY <1>0, <1>2, <3>1
  <2> QED BY <1>5, <2>1, <2>2 DEF Composer
<1>6. CASE Buttons
  <2>1. ASSUME NEW rows, SyncButton(rows) PROVE SyncWhileSwitching'
    BY <1>0, <1>2, <2>1 DEF SyncButton, Take
  <2>2. ASSUME SwitchOff PROVE SyncWhileSwitching'
    BY <1>0, <2>2 DEF SwitchOff, MayStart, Busy
  <2>3. ASSUME SwitchOn PROVE SyncWhileSwitching'
    BY <2>3 DEF SwitchOn
  <2> QED BY <1>6, <2>1, <2>2, <2>3 DEF Buttons
<1>7. CASE Drain
  <2>1. ASSUME NEW p \in Posters, PostCached(p) \/ PostedCached(p) \/ Drained(p)
        PROVE  SyncWhileSwitching'
    <3>1. UNCHANGED sync /\ proc[p].at # "idle"
      BY <2>1 DEF PostCached, PostedCached, Drained
    <3>2. \/ Stop(p) \/ (\E place : Goto(p, place))
          \/ \E verb, n, ver, was : Ask(p, verb, n, ver, was)
      BY <2>1 DEF PostCached, PostedCached, Drained
    <3> QED BY <1>0, <1>2, <3>1, <3>2
  <2>2. ASSUME Flush PROVE SyncWhileSwitching'
    BY <1>0, <1>2, <2>2 DEF Flush, Take
  <2>3. ASSUME Release PROVE SyncWhileSwitching'
    BY <1>4, <2>3 DEF Release
  <2>4. ASSUME Released PROVE SyncWhileSwitching'
    BY <1>0, <1>2, <2>4 DEF Released, Take
  <2> QED BY <1>7, <2>1, <2>2, <2>3, <2>4 DEF Drain
<1>8. CASE Forgetting
  <2>1. \A q \in Handlers \ {"forget"} : proc'[q] = proc[q]
    BY <1>8 DEF Forgetting, Forget, TombLapses, ForgetRow, Forgotten, Undo, Undone, UndoLapses,
                Ask, Stop, HandlersSound, HandlersOK
  <2>2. UNCHANGED sync
    BY <1>8 DEF Forgetting, Forget, TombLapses, ForgetRow, Forgotten, Undo, Undone, UndoLapses
  <2> QED BY <1>0, <1>3, <2>1, <2>2
<1>9. CASE Refreshing
  <2>1. UNCHANGED sync
    BY <1>9 DEF Refreshing, Refresh, Listed, Upsert, Upserted, ListFailed, Prune, ShowItems,
                Superseded
  <2>2. \/ UNCHANGED proc
        \/ Ask("refresh", "get", NoNote, 0, Blank)
        \/ Stop("refresh")
        \/ \E place : Goto("refresh", place)
    BY <1>9 DEF Refreshing, Refresh, Listed, Upsert, Upserted, ListFailed, Prune, ShowItems,
                Superseded
  <2> QED BY <1>0, <1>2, <1>4, <2>1, <2>2
<1>10. CASE Reload
  BY <1>0, <1>10 DEF Reload, Idle
<1>11. CASE World
  <2>1. ASSUME NEW p \in Handlers, Serve(p) \/ Miss(p) PROVE SyncWhileSwitching'
    <3>1. UNCHANGED sync /\ \E ans : Reply(p, ans)
      BY <2>1 DEF Serve, ServePost, ServePatch, ServeDelete, ServeGet, Miss
    <3> QED BY <1>0, <1>1, <3>1, ReplyIs
  <2> QED BY <1>4, <1>11, <2>1 DEF World, RemoteEdit, RemoteForget, Deliver, Lose
<1> QED BY <1>5, <1>6, <1>7, <1>8, <1>9, <1>10, <1>11 DEF Next, Browser

LEMMA HushedNext ==
    ASSUME Typed, UnwrittenUnknown, OpenUntilKept, HushedApart, Next,
           NEW n \in Notes, fate'[n] = "hushed"
    PROVE  Apart(n)'
<1> USE DEF Typed, TablesSound, TablesOK
<1> DEFINE c == proc["composer"]
           f == proc["forget"]
           NotPosted == \A p \in Handlers : proc'[p].n = n => proc'[p].at # "post"
           NotHeld == \A p \in Posters : \A r \in work'[p] : r.n # n
<1>0. /\ {"composer", "forget", "account", "refresh", "flush", "button"} \subseteq Handlers
      /\ Posters \subseteq Handlers /\ NoNote # n
      /\ proc \in [Handlers -> ProcState]
      /\ \A p \in Handlers : HandlerFits(p, proc[p]) /\ RowsFit(p, proc[p].at, work[p])
  BY BoundsAssumption DEF Handlers, Posters, HandlersSound, HandlersOK
<1>1. CASE fate[n] # "hushed"
  <2>1. Persist /\ c.n = n /\ ~sync /\ fate[n] = "sent"
    BY <1>1, FateMoves
  <2>2. OutOfReach(n) /\ proc["account"].at = "idle"
    BY <2>1 DEF OpenUntilKept, Open, Persist, HushedApart, SyncWhileSwitching
  <2>3. Stop("composer")
    BY <2>1 DEF Persist, PostAtOnce
  <2>4. NotPosted
    BY <1>0, <2>2, <2>3, StopIs DEF OutOfReach
  <2>5. NotHeld
    <3>1. \A p \in Posters : \A r \in work[p] : r.row.state \in Outboxed
      BY <1>0, <2>2 DEF RowsFit, HandlerFits, PlacesOf, Posters
    <3> QED BY <1>0, <2>1, <2>2, <3>1 DEF Persist, OutOfReach
  <2>6. sync' = FALSE /\ proc'["composer"].at = "idle"
    BY <1>0, <2>1, <2>3, StopIs DEF Persist
  <2> QED BY <2>4, <2>5, <2>6 DEF Apart
<1>2. CASE fate[n] = "hushed"
  <2>0. /\ ~sync /\ (c.n = n => c.at # "persist")
        /\ \A p \in Handlers : proc[p].n = n => proc[p].at # "post"
        /\ \A p \in Posters : \A r \in work[p] : r.n # n
        /\ proc["account"].at = "idle"
    BY <1>2 DEF HushedApart, SyncWhileSwitching, Apart
  \* The composer does not come to it: it has been written.
  <2>1. proc'["composer"].n = n => proc'["composer"].at # "persist"
    <3>1. ~ Send(n)
      BY <1>2 DEF Send, UnwrittenUnknown, Unknown
    <3> QED BY <2>0, <3>1, ComposerMoves
  <2>2. ASSUME NEW p \in Handlers, Stop(p) \/ (\E place : Goto(p, place)) \/ (\E ans : Reply(p, ans))
        PROVE  NotPosted
    BY <1>0, <2>0, <2>2, StopIs, GotoIs, ReplyIs
  <2>3. ASSUME NEW p \in Handlers, NEW verb, NEW m, NEW ver, NEW was, Ask(p, verb, m, ver, was),
               m # n \/ verb # "post"
        PROVE  NotPosted
    BY <1>0, <2>0, <2>3, AskIs
  <2>4. ASSUME NEW p \in Handlers, NEW rows, work' = [work EXCEPT ![p] = rows],
               p \in Posters => \A r \in rows : r.n # n
        PROVE  NotHeld
    BY <1>0, <2>0, <2>4 DEF HandlersSound, HandlersOK
  <2>5. (UNCHANGED proc => NotPosted) /\ (UNCHANGED work => NotHeld)
    BY <2>0
  <2>6. ASSUME UNCHANGED sync, NotPosted, NotHeld PROVE Apart(n)'
    BY <2>0, <2>1, <2>6 DEF Apart
  <2>7. CASE Composer
    <3>0. UNCHANGED <<sync, work>>
      BY <2>7 DEF Composer, Send, Edit, Persist, Posted, Keep, Patched
    <3>1. ASSUME NEW m \in Notes, Send(m) \/ Edit(m) PROVE NotPosted
      BY <1>0, <2>0, <3>1 DEF Send, Edit, EditIntents
    <3>2. ASSUME Persist \/ Posted \/ Keep \/ Patched PROVE NotPosted
      <4>1. Stop("composer")
        BY <2>0, <3>2 DEF Persist, PostAtOnce, Posted, Keep, Patched
      <4> QED BY <1>0, <2>2, <4>1
    <3> QED BY <2>6, <2>5, <2>7, <3>0, <3>1, <3>2 DEF Composer
  <2>8. CASE Buttons
    <3>1. ASSUME NEW rows, SyncButton(rows) PROVE Apart(n)'
      <4>1. \A r \in rows : r.n # n
        BY <1>2, <3>1 DEF SyncButton, Turn
      <4> QED BY <1>0, <2>2, <2>4, <2>6, <3>1, <4>1 DEF SyncButton, Take
    <3>2. ~ SwitchOn
      BY <1>2 DEF SwitchOn, Turn
    <3>3. ~ SwitchOff
      BY <2>0 DEF SwitchOff
    <3> QED BY <2>8, <3>1, <3>2, <3>3 DEF Buttons
  <2>9. CASE Drain
    <3>1. ~ Flush /\ ~ Released /\ ~ Release
      BY <2>0 DEF Flush, Released, Release
    <3>2. ASSUME NEW p \in Posters, PostCached(p) PROVE Apart(n)'
      <4>1. PICK r \in work[p] :
               /\ Ask(p, IF r.row.state = "dirty" THEN "patch" ELSE "post", r.n, r.row.ver, Blank)
               /\ work' = [work EXCEPT ![p] = work[p] \ {r}]
        BY <3>2 DEF PostCached
      <4>2. NotPosted
        BY <1>0, <2>0, <2>3, <4>1
      <4>3. NotHeld
        BY <1>0, <2>0, <2>4, <4>1
      <4> QED BY <2>6, <3>2, <4>2, <4>3 DEF PostCached
    <3>3. ASSUME NEW p \in Posters, PostedCached(p) PROVE Apart(n)'
      <4>1. NotHeld
        BY <1>0, <2>4, <2>5, <3>3 DEF PostedCached
      <4> QED BY <1>0, <2>2, <2>6, <3>3, <4>1 DEF PostedCached
    <3>4. ASSUME NEW p \in Posters, Drained(p) PROVE Apart(n)'
      BY <1>0, <2>2, <2>5, <2>6, <3>4 DEF Drained
    <3> QED BY <2>9, <3>1, <3>2, <3>3, <3>4 DEF Drain
  <2>10. CASE Forgetting
    <3>0. UNCHANGED <<sync, work>>
      BY <2>10 DEF Forgetting, Forget, TombLapses, ForgetRow, Forgotten, Undo, Undone, UndoLapses
    <3>1. ASSUME NEW m \in Notes, Forget(m) PROVE NotPosted
      BY <1>0, <2>0, <3>1 DEF Forget
    <3>2. ASSUME ForgetRow PROVE NotPosted
      <4>1. CASE Ask("forget", "delete", f.n, 0, f.was)
        BY <1>0, <2>3, <4>1
      <4>2. CASE proc' = [proc EXCEPT !["forget"].at = "undo", !["forget"].ans = "ok"]
        BY <1>0, <2>0, <4>2 DEF ProcState
      <4> QED BY <3>2, <4>1, <4>2 DEF ForgetRow
    <3>3. ASSUME Forgotten PROVE NotPosted
      BY <1>0, <2>0, <3>3 DEF Forgotten, ProcState
    \* To take its Forget back is to ask for it.
    <3>4. ASSUME Undo PROVE NotPosted
      <4>1. CASE Stop("forget")
        BY <1>0, <2>2, <4>1
      <4>2. CASE ~ Stop("forget")
        <5>1. /\ Ask("forget", "post", f.n, f.was.ver, f.was)
              /\ fate[f.n] # "hushed" \/ fate'[f.n] # "hushed"
          BY <1>0, <3>4, <4>2 DEF Undo, Due, Owed, HandlerFits
        <5>2. f.n # n
          BY <1>2, <5>1
        <5> QED BY <1>0, <2>3, <5>1, <5>2
      <4> QED BY <4>1, <4>2
    <3>5. ASSUME Undone \/ UndoLapses PROVE NotPosted
      <4>1. Stop("forget")
        BY <3>5 DEF Undone, UndoLapses
      <4> QED BY <1>0, <2>2, <4>1
    <3>6. ASSUME NEW m \in Notes, TombLapses(m) PROVE NotPosted
      BY <2>5, <3>6 DEF TombLapses
    <3>7. NotPosted
      BY <2>10, <3>1, <3>2, <3>3, <3>4, <3>5, <3>6 DEF Forgetting
    <3> QED BY <2>5, <2>6, <3>0, <3>7
  <2>11. CASE Refreshing
    <3>1. UNCHANGED sync
      BY <2>11 DEF Refreshing, Refresh, Listed, Upsert, Upserted, ListFailed, Prune, ShowItems,
                   Superseded
    <3>2. NotPosted
      <4>1. \/ UNCHANGED proc
            \/ Ask("refresh", "get", NoNote, 0, Blank)
            \/ Stop("refresh")
            \/ \E place : Goto("refresh", place)
        BY <2>11 DEF Refreshing, Refresh, Listed, Upsert, Upserted, ListFailed, Prune, ShowItems,
                     Superseded
      <4> QED BY <1>0, <2>2, <2>3, <2>5, <4>1
    <3>3. NotHeld
      <4>1. UNCHANGED work \/ \E rows : work' = [work EXCEPT !["refresh"] = rows]
        BY <2>11 DEF Refreshing, Refresh, Listed, Upsert, Upserted, ListFailed, Prune, ShowItems,
                     Superseded, Shut
      <4>2. "refresh" \notin Posters
        BY DEF Posters
      <4> QED BY <1>0, <2>4, <2>5, <4>1, <4>2
    <3> QED BY <2>6, <3>1, <3>2, <3>3
  <2>12. CASE Reload
    BY <1>0, <2>0, <2>1, <2>12 DEF Reload, Idle, Apart
  <2>13. CASE World
    <3>1. ASSUME NEW p \in Handlers, Serve(p) \/ Miss(p) PROVE Apart(n)'
      <4>1. UNCHANGED <<sync, work>> /\ \E ans : Reply(p, ans)
        BY <3>1 DEF Serve, ServePost, ServePatch, ServeDelete, ServeGet, Miss
      <4> QED BY <2>2, <2>5, <2>6, <4>1
    <3> QED BY <2>5, <2>6, <2>13, <3>1 DEF World, RemoteEdit, RemoteForget, Deliver, Lose
  <2> QED BY <2>7, <2>8, <2>9, <2>10, <2>11, <2>12, <2>13 DEF Next, Browser
<1> QED BY <1>1, <1>2

LEMMA HushedKept ==
    ASSUME Typed, UnwrittenUnknown, OpenUntilKept, HushedApart, [Next]_vars
    PROVE  HushedApart'
<1>1. CASE UNCHANGED vars
  BY <1>1 DEF vars, HushedApart, SyncWhileSwitching, Apart
<1>2. CASE Next
  BY <1>2, SwitchingNext, HushedNext DEF HushedApart
<1> QED BY <1>1, <1>2

-----------------------------------------------------------------------------
(* The theorems. *)

Sound ==
    /\ Typed /\ StoredWhenSaid /\ UnwrittenUnknown /\ OpenUntilKept /\ HushedApart

LEMMA Soundness == Spec => []Sound
<1>1. Init => Typed
  BY Rows, IdleFits, BoundsAssumption
     DEF Init, Typed, TablesSound, TablesOK, HandlersSound, HandlersOK, RowsFit, Fates
<1>2. Init => StoredWhenSaid /\ UnwrittenUnknown /\ OpenUntilKept /\ HushedApart
  BY BoundsAssumption
     DEF Init, StoredWhenSaid, TablesSaid, AnswersSaid, AnswerSaid, HubSaid, HeldSaid,
         UnwrittenUnknown, Unknown, OpenUntilKept, Open, HushedApart, SyncWhileSwitching,
         Idle, Blank, Handlers
<1>3. Sound /\ [Next]_vars => Sound'
  BY TypedKept, SaidNext, UnknownKept, OpenKept, HushedKept DEF Sound
<1> QED BY <1>1, <1>2, <1>3, PTL DEF Spec, Sound

\* Every table and every handler keeps its type, in whatever order the handlers'
\* steps and those of the world run.
THEOREM TypeCorrect == Spec => []TypeOK
BY Soundness, PTL DEF Sound, Typed, TablesSound, HandlersSound, TypeOK

LEMMA KeptNext ==
    ASSUME Sound, Next, NEW n \in Notes, fate[n] \in Due => cache[n].state \in Outboxed,
           fate'[n] \in Due
    PROVE  cache'[n].state \in Outboxed
<1> USE DEF Sound, Typed, TablesSound, TablesOK
<1> DEFINE c == proc["composer"]
           f == proc["forget"]
           Goal == cache'[n].state \in Outboxed
<1>0. /\ \A p \in Handlers : proc[p] \in ProcState /\ HandlerFits(p, proc[p])
      /\ \A p \in Handlers : work[p] \in SUBSET HeldRow
      /\ {"composer", "forget", "account", "refresh", "flush", "button"} \subseteq Handlers
      /\ Posters \subseteq Handlers
      /\ Outboxed = {"queued", "held", "dirty"}
  BY DEF Handlers, Posters, HandlersSound, HandlersOK, Outboxed
<1>1. fate[n] # "stored"
  BY NeverUnstored DEF StoredStays, Due, Owed
<1>2. ASSUME UNCHANGED cache, fate'[n] = fate[n] \/ fate'[n] \notin Due PROVE Goal
  BY <1>2
\* A write keeps the note in the outbox, is about another note, or is about one
\* that has been stored.
<1>3. ASSUME NEW m \in Notes, NEW ver, NEW state, Put(m, ver, state),
             m = n => state \in Outboxed,
             m # n => fate[n] \in Due
      PROVE  Goal
  BY <1>3 DEF Put
<1>4. ASSUME NEW m \in Notes, NEW ver, NEW state, Put(m, ver, state), UNCHANGED fate,
             state \in Outboxed \/ fate[m] = "stored"
      PROVE  Goal
  BY <1>1, <1>3, <1>4
<1>5. CASE Composer
  <2>1. ASSUME NEW m \in Notes, Send(m) \/ Edit(m) PROVE Goal
    BY <1>2, <2>1 DEF Send, Edit, Turn, Due, Owed
  <2>2. ASSUME Persist PROVE Goal
    <3>1. c.n \in Notes
      BY <1>0, <2>2 DEF Persist, HandlerFits
    <3>2. fate[n] \in Due \/ c.n = n
      BY <2>2 DEF Persist, Owe
    <3> QED BY <1>0, <1>3, <2>2, <3>1, <3>2 DEF Persist
  <2>3. ASSUME Posted PROVE Goal
    <3>1. c.n \in Notes /\ c.ans \in {"ok", "error", "offline"}
      BY <1>0, <2>3 DEF Posted, HandlerFits, ProcState
    <3>2. CASE c.ans = "ok"
      <4>1. fate[c.n] = "stored"
        BY <1>0, <2>3, <3>2 DEF Posted, StoredWhenSaid, AnswersSaid, AnswerSaid
      <4> QED BY <1>4, <2>3, <3>1, <3>2, <4>1 DEF Posted
    \* A refused note is in no outbox, and is owed no more.
    <3>3. CASE c.ans = "error"
      <4>1. Turn({c.n}, Owed, "none") /\ Put(c.n, 0, "none")
        BY <2>3, <3>3 DEF Posted
      <4>2. c.n = n => fate[n] # "hushed"
        BY <1>0, <2>3 DEF Posted, HushedApart, Apart
      <4>3. c.n # n /\ fate[n] \in Due
        BY <4>1, <4>2 DEF Turn, Due, Owed
      <4> QED BY <1>3, <3>1, <4>1, <4>3
    <3>4. CASE c.ans = "offline"
      BY <1>2, <2>3, <3>4 DEF Posted
    <3> QED BY <3>1, <3>2, <3>3, <3>4
  <2>4. ASSUME Keep PROVE Goal
    <3>1. c.n \in Notes /\ (c.at = "rewrite" => c.was.state \in {"queued", "held"})
      BY <1>0, <2>4 DEF Keep, HandlerFits
    <3> QED BY <1>0, <1>4, <2>4, <3>1 DEF Keep
  <2>5. ASSUME Patched PROVE Goal
    <3>1. c.n \in Notes /\ c.ans \in {"ok", "error", "offline"}
      BY <1>0, <2>5 DEF Patched, HandlerFits, ProcState
    <3>2. c.ans = "ok" => fate[c.n] = "stored"
      BY <1>0, <2>5 DEF Patched, StoredWhenSaid, AnswersSaid, AnswerSaid
    <3>3. UNCHANGED fate /\ ( \/ UNCHANGED cache
                              \/ Put(c.n, c.ver, "dirty")
                              \/ Put(c.n, c.ver, "synced") /\ c.ans = "ok")
      BY <2>5, <3>1 DEF Patched
    <3> QED BY <1>0, <1>2, <1>4, <3>1, <3>2, <3>3
  <2> QED BY <1>5, <2>1, <2>2, <2>3, <2>4, <2>5 DEF Composer
<1>6. CASE Buttons
  <2>1. ASSUME NEW rows \in SUBSET Read(Outboxed), SyncButton(rows) PROVE Goal
    <3>1. UNCHANGED cache /\ (fate'[n] = fate[n] \/ \E r \in rows : r.n = n)
      BY <2>1 DEF SyncButton
    <3>2. \A r \in rows : cache[r.n].state \in Outboxed
      BY DEF Read
    <3> QED BY <3>1, <3>2
  <2>2. ASSUME SwitchOn PROVE Goal
    BY <2>2 DEF SwitchOn, Turn, Due
  <2>3. ASSUME SwitchOff PROVE Goal
    BY <1>2, <2>3 DEF SwitchOff
  <2>4. \A r \in Read(Outboxed) : {r} \in SUBSET Read(Outboxed)
    OBVIOUS
  <2> QED BY <1>6, <2>1, <2>2, <2>3, <2>4 DEF Buttons
<1>7. CASE Drain
  <2>1. ASSUME Release PROVE Goal
    <3>1. PICK r \in work["account"] :
             Put(r.n, r.row.ver, IF r.row.state = "held" THEN "queued" ELSE r.row.state)
      BY <2>1 DEF Release
    <3>2. r.n \in Notes /\ r.row.state # "none" /\ r.row \in Row
      BY <1>0, <3>1 DEF HandlersSound, RowsFit, HeldRow
    <3>3. r.row.state \in Outboxed \/ fate[r.n] = "stored"
      BY <3>1, <3>2, Rows DEF StoredWhenSaid, HeldSaid
    <3> QED BY <1>0, <1>4, <2>1, <3>1, <3>2, <3>3 DEF Release
  <2>2. ASSUME NEW p \in Posters, PostedCached(p) PROVE Goal
    <3>1. proc[p].n \in Notes
      BY <1>0, <2>2 DEF PostedCached, HandlerFits
    <3>2. proc[p].ans = "ok" => fate[proc[p].n] = "stored"
      BY <1>0, <2>2 DEF PostedCached, StoredWhenSaid, AnswersSaid, AnswerSaid
    <3>3. UNCHANGED fate /\ ( \/ UNCHANGED cache
                              \/ Put(proc[p].n, proc[p].ver, "synced") /\ proc[p].ans = "ok")
      BY <2>2 DEF PostedCached
    <3> QED BY <1>2, <1>4, <3>1, <3>2, <3>3
  <2>3. ASSUME NEW p \in Posters, PostCached(p) \/ Drained(p) PROVE Goal
    BY <1>2, <2>3 DEF PostCached, Drained
  <2> QED BY <1>2, <1>7, <2>1, <2>2, <2>3 DEF Drain, Flush, Released
<1>8. CASE Forgetting
  <2>1. ASSUME ForgetRow PROVE Goal
    <3>1. /\ f.n \in Notes /\ Put(f.n, 0, "none")
          /\ fate'[f.n] \notin Due /\ (f.n # n => fate'[n] = fate[n])
      BY <1>0, <2>1 DEF ForgetRow, HandlerFits, Due, Owed
    <3>2. f.n # n /\ fate[n] \in Due
      BY <3>1
    <3> QED BY <1>3, <3>1, <3>2
  <2>2. ASSUME Undo PROVE Goal
    <3>1. f.n \in Notes
      BY <1>0, <2>2 DEF Undo, HandlerFits
    <3>2. CASE /\ Put(f.n, f.was.ver, f.was.state) /\ f.was.state \in {"queued", "held"}
               /\ Turn({f.n}, {"none", "sent", "forgotten"}, "back")
      <4>1. f.n # n => fate[n] \in Due
        BY <3>2 DEF Turn
      <4> QED BY <1>0, <1>3, <3>1, <3>2, <4>1
    <3>3. CASE UNCHANGED cache /\ (fate'[n] \in Due => fate[n] \in Due)
      BY <3>3
    <3> QED BY <2>2, <3>1, <3>2, <3>3 DEF Undo, Due, Owed
  <2>3. ASSUME Undone PROVE Goal
    <3>1. f.n \in Notes
      BY <1>0, <2>3 DEF Undone, HandlerFits
    <3>2. \/ UNCHANGED <<cache, fate>>
          \/ Put(f.n, f.was.ver, "queued") /\ Turn({f.n}, {"asked"}, "back")
      BY <2>3 DEF Undone
    <3>3. CASE Put(f.n, f.was.ver, "queued") /\ Turn({f.n}, {"asked"}, "back")
      <4>1. f.n # n => fate[n] \in Due
        BY <3>3 DEF Turn
      <4> QED BY <1>0, <1>3, <3>1, <3>3, <4>1
    <3> QED BY <1>2, <3>2, <3>3
  <2>4. ASSUME NEW m \in Notes, Forget(m) \/ TombLapses(m) PROVE Goal
    BY <1>2, <2>4 DEF Forget, TombLapses
  <2> QED BY <1>2, <1>8, <2>1, <2>2, <2>3, <2>4 DEF Forgetting, Forgotten, UndoLapses
<1>9. CASE Refreshing
  <2>1. ASSUME Upsert PROVE Goal
    <3>1. PICK r \in work["refresh"] : Put(r.n, r.row.ver, r.row.state)
      BY <2>1 DEF Upsert
    <3>2. r.n \in Notes /\ fate[r.n] = "stored"
      BY <1>0, <2>1, <3>1 DEF Upsert, StoredWhenSaid, HeldSaid, HeldRow
    <3> QED BY <1>4, <2>1, <3>1, <3>2 DEF Upsert
  <2> QED BY <1>2, <1>9, <2>1
          DEF Refreshing, Refresh, Listed, Upserted, ListFailed, Prune, ShowItems, Superseded
<1>10. CASE Reload
  BY <1>2, <1>10 DEF Reload, Turn, Due, Owed
<1>11. CASE World
  <2>1. ASSUME NEW p \in Handlers, Serve(p) \/ Miss(p) PROVE Goal
    <3>1. UNCHANGED cache /\ (UNCHANGED fate \/ Stored(proc[p].n))
      BY <2>1 DEF Serve, ServePost, ServePatch, ServeDelete, ServeGet, Miss
    <3> QED BY <1>2, <3>1 DEF Stored, Due, Owed
  <2>2. ASSUME NEW m \in Notes, RemoteEdit(m) \/ RemoteForget(m) PROVE Goal
    BY <1>2, <2>2 DEF RemoteEdit, RemoteForget
  <2>3. ASSUME NEW m \in hub, Deliver(m) PROVE Goal
    <3>1. m.n \in Notes /\ (m.kind = "updated" => fate[m.n] = "stored")
      BY DEF StoredWhenSaid, HubSaid, Envelope
    <3>2. UNCHANGED fate /\ ( \/ UNCHANGED cache
                              \/ Put(m.n, m.ver, "synced") /\ m.kind = "updated")
      BY <2>3 DEF Deliver, Envelope
    <3> QED BY <1>2, <1>4, <3>1, <3>2
  <2>4. ASSUME NEW m \in hub, Lose(m) PROVE Goal
    BY <1>2, <2>4 DEF Lose
  <2> QED BY <1>11, <2>1, <2>2, <2>3, <2>4 DEF World
<1> QED BY <1>5, <1>6, <1>7, <1>8, <1>9, <1>10, <1>11 DEF Next, Browser

\* A note that was sent stays in the outbox until the server has stored it or the
\* user forgets it: for any number of notes and any handlers at the same time.
THEOREM SentNotesKept == Spec => []SentNoteKept
<1>1. Init => SentNoteKept
  BY DEF Init, SentNoteKept, Due, Owed
<1>2. Sound /\ SentNoteKept /\ [Next]_vars => SentNoteKept'
  <2>1. SentNoteKept <=>
           \A n \in Notes : fate[n] \in Due => cache[n].state \in Outboxed
    BY DEF SentNoteKept, Unsynced
  <2>2. SentNoteKept' <=>
           \A n \in Notes : fate'[n] \in Due => cache'[n].state \in Outboxed
    BY DEF SentNoteKept, Unsynced
  <2>3. UNCHANGED vars /\ SentNoteKept => SentNoteKept'
    BY <2>1, <2>2 DEF vars
  <2>4. Sound /\ Next /\ SentNoteKept => SentNoteKept'
    BY <2>1, <2>2, KeptNext
  <2> QED BY <2>3, <2>4
<1> QED BY <1>1, <1>2, Soundness, PTL DEF Spec

\* What was saved with Sync off is not stored before the user asks for it: no
\* handler has it to post, and the server has no row to patch.
THEOREM HushedStaysHere == Spec => OffStaysHere
<1>1. ASSUME Sound, Next, NEW n \in Notes, fate[n] = "hushed" PROVE fate'[n] # "stored"
  <2> USE <1>1 DEF Sound, Typed, TablesSound, TablesOK
  <2>1. /\ \A p \in Handlers : proc[p].n = n => proc[p].at # "post"
        /\ srv[n] = 0
    BY DEF HushedApart, Apart, StoredWhenSaid, TablesSaid
  <2>2. ASSUME NEW p \in Handlers, proc[p].n = n, ServePost(p) \/ ServePatch(p)
        PROVE  fate'[n] # "stored"
    BY <2>1, <2>2 DEF ServePost, ServePatch, Answered
  <2> QED BY <2>2, FateMoves
<1>2. Sound /\ [Next]_vars => [\A n \in Notes : fate[n] = "hushed" => fate'[n] # "stored"]_vars
  BY <1>1
<1> QED BY <1>2, Soundness, PTL DEF Spec, OffStaysHere
-----------------------------------------------------------------------------
(* A note that was sent stays on the tray. *)

\* What has been put away was written.
TombsWritten == \A n \in tomb : next[n] # 0

\* An edit can be taken back to a row that was shown.
EditShown == proc["composer"].at = "patch" => proc["composer"].was.state # "none"

\* No envelope names the note, its Forget has not come to its row, the composer
\* has it until its intent is known, and, unless it is being forgotten, it is on
\* screen and pending.
OnScreen(n) ==
    /\ \A m \in hub : m.n # n
    /\ proc["forget"].n = n => proc["forget"].at = "forgetting"
    /\ fate[n] = "sent" => Open(n)
    /\ proc["forget"].n # n => n \in pending /\ n \in Shown /\ n \notin tomb

FreshOnScreen == \A n \in Notes : Fresh(n) => OnScreen(n)

OnTray == Sound /\ SentNoteKept /\ TombsWritten /\ EditShown /\ FreshOnScreen

LEMMA TombsNext == ASSUME Sound, TombsWritten, Next PROVE TombsWritten'
<1> USE DEF Sound, Typed, TablesSound, TablesOK
<1> SUFFICES ASSUME NEW n \in tomb' PROVE next'[n] # 0
  BY DEF TombsWritten
<1>1. n \in tomb \/ (n \in Notes /\ Forget(n))
  <2>1. CASE Composer
    BY <2>1 DEF Composer, Send, Edit, Persist, Posted, Keep, Patched
  <2>2. CASE Buttons \/ Drain
    BY <2>2 DEF Buttons, SyncButton, SwitchOff, SwitchOn, Drain, Flush, Release, Released, PostCached,
                PostedCached, Drained, trayVars
  <2>3. CASE Forgetting
    <3>1. ASSUME NEW m \in Notes, Forget(m) PROVE n \in tomb \/ n = m
      BY <3>1 DEF Forget
    <3> QED BY <2>3, <3>1 DEF Forgetting, TombLapses, ForgetRow, Forgotten, Undo, Undone,
                              UndoLapses, trayVars
  <2>4. CASE Refreshing \/ Reload
    BY <2>4 DEF Refreshing, Refresh, Listed, Upsert, Upserted, ListFailed, Prune, ShowItems,
                Superseded, Reload, trayVars
  <2>5. CASE World
    BY <2>5 DEF World, Serve, ServePost, ServePatch, ServeDelete, ServeGet, Miss, RemoteEdit,
                RemoteForget, Deliver, Lose, trayVars
  <2> QED BY <2>1, <2>2, <2>3, <2>4, <2>5 DEF Next, Browser
<1>2. n \in Notes /\ next[n] # 0
  <2>1. Forget(n) => next[n] # 0 \/ n \notin Notes
    BY DEF Forget, Shown, UnwrittenUnknown, Unknown, Blank
  <2> QED BY <1>1, <2>1 DEF TombsWritten
<1> QED BY <1>2, WrittenStays

\* A step that is not the composer's leaves it where it is, a reload apart.
LEMMA ComposerStays ==
    ASSUME Typed, Next, ~ Composer, ~ Reload
    PROVE  /\ proc'["composer"].at = proc["composer"].at
           /\ proc'["composer"].n = proc["composer"].n
           /\ proc'["composer"].was = proc["composer"].was
<1> USE DEF Typed
<1> DEFINE Still == /\ proc'["composer"].at = proc["composer"].at
                    /\ proc'["composer"].n = proc["composer"].n
                    /\ proc'["composer"].was = proc["composer"].was
<1>0. /\ {"composer", "forget", "account", "refresh", "flush", "button"} \subseteq Handlers
      /\ Posters \subseteq Handlers \ {"composer"} /\ proc \in [Handlers -> ProcState]
  BY DEF Handlers, Posters, HandlersSound, HandlersOK
<1>1. ASSUME NEW p \in Handlers \ {"composer"}, NEW h, proc' = [proc EXCEPT ![p] = h] PROVE Still
  BY <1>0, <1>1
<1>2. ASSUME NEW p \in Handlers \ {"composer"},
             \/ Stop(p) \/ (\E place : Goto(p, place))
             \/ \E verb, n, ver, was : Ask(p, verb, n, ver, was)
      PROVE  Still
  BY <1>0, <1>2 DEF Stop, Goto, Ask
<1>3. ASSUME NEW p \in Handlers, NEW ans, Reply(p, ans) PROVE Still
  BY <1>0, <1>3 DEF Reply, ProcState
<1>4. UNCHANGED proc => Still
  OBVIOUS
<1>5. ASSUME Buttons PROVE Still
  <2>1. ASSUME NEW rows, SyncButton(rows) PROVE Still
    BY <1>0, <1>2, <2>1 DEF SyncButton, Take
  <2>2. ASSUME SwitchOn PROVE Still
    BY <1>0, <1>2, <2>2 DEF SwitchOn
  <2> QED BY <1>4, <1>5, <2>1, <2>2 DEF Buttons, SwitchOff
<1>6. ASSUME Drain PROVE Still
  <2>1. ASSUME NEW p \in Posters, PostCached(p) \/ PostedCached(p) \/ Drained(p) PROVE Still
    BY <1>0, <1>2, <2>1 DEF PostCached, PostedCached, Drained
  <2> QED BY <1>0, <1>2, <1>4, <1>6, <2>1 DEF Drain, Flush, Take, Release, Released
<1>7. ASSUME Forgetting PROVE Still
  <2>1. proc'["composer"] = proc["composer"]
    BY <1>7 DEF Forgetting, Forget, TombLapses, ForgetRow, Forgotten, Undo, Undone, UndoLapses,
                Ask, Stop, HandlersSound, HandlersOK, Handlers
  <2> QED BY <2>1
<1>8. ASSUME Refreshing PROVE Still
  <2>1. \/ UNCHANGED proc
        \/ Ask("refresh", "get", NoNote, 0, Blank)
        \/ Stop("refresh")
        \/ \E place : Goto("refresh", place)
    BY <1>8 DEF Refreshing, Refresh, Listed, Upsert, Upserted, ListFailed, Prune, ShowItems,
                Superseded
  <2> QED BY <1>0, <1>2, <1>4, <2>1
<1>9. ASSUME World PROVE Still
  BY <1>3, <1>4, <1>9 DEF World, Serve, ServePost, ServePatch, ServeDelete, ServeGet, Miss,
                          RemoteEdit, RemoteForget, Deliver, Lose
<1> QED BY <1>5, <1>6, <1>7, <1>8, <1>9 DEF Next, Browser

LEMMA EditShownNext == ASSUME Sound, EditShown, Next PROVE EditShown'
<1> USE DEF Sound, Typed, EditShown
<1>0. "composer" \in Handlers /\ proc \in [Handlers -> ProcState]
  BY DEF Handlers, HandlersSound, HandlersOK
<1>1. CASE Composer
  <2>1. ASSUME NEW n \in Notes, Send(n) PROVE EditShown'
    BY <1>0, <2>1 DEF Send
  <2>2. ASSUME NEW n \in Notes, Edit(n) PROVE EditShown'
    BY <1>0, <2>2 DEF Edit, Shown
  <2>3. ASSUME Persist \/ Posted \/ Keep \/ Patched PROVE EditShown'
    <3>1. Stop("composer") \/ Ask("composer", "post", proc["composer"].n, 1, Blank)
      BY <2>3 DEF Persist, Posted, Keep, Patched
    <3> QED BY <1>0, <3>1, AskIs, StopIs
  <2> QED BY <1>1, <2>1, <2>2, <2>3 DEF Composer
<1>2. CASE Reload
  BY <1>0, <1>2 DEF Reload, Idle
<1> QED BY <1>1, <1>2, ComposerStays

\* A step that is not Forget's own leaves it where it is, a reload apart.
LEMMA ForgetStays ==
    ASSUME Typed, Next, ~ Forgetting, ~ Reload
    PROVE  /\ proc'["forget"].at = proc["forget"].at
           /\ proc'["forget"].n = proc["forget"].n
<1> USE DEF Typed
<1> DEFINE Still == /\ proc'["forget"].at = proc["forget"].at
                    /\ proc'["forget"].n = proc["forget"].n
<1>0. /\ {"composer", "forget", "account", "refresh", "flush", "button"} \subseteq Handlers
      /\ Posters \subseteq Handlers \ {"forget"} /\ proc \in [Handlers -> ProcState]
  BY DEF Handlers, Posters, HandlersSound, HandlersOK
<1>1. ASSUME NEW p \in Handlers \ {"forget"},
             \/ Stop(p) \/ (\E place : Goto(p, place)) \/ (\E h : proc' = [proc EXCEPT ![p] = h])
             \/ \E verb, n, ver, was : Ask(p, verb, n, ver, was)
      PROVE  Still
  BY <1>0, <1>1 DEF Stop, Goto, Ask
<1>2. ASSUME NEW p \in Handlers, NEW ans, Reply(p, ans) PROVE Still
  BY <1>0, <1>2 DEF Reply, ProcState
<1>3. UNCHANGED proc => Still
  OBVIOUS
<1>4. ASSUME Composer PROVE Still
  <2>1. ASSUME NEW n \in Notes, Send(n) \/ Edit(n) PROVE Still
    BY <1>0, <1>1, <2>1 DEF Send, Edit
  <2>2. ASSUME Persist \/ Posted \/ Keep \/ Patched PROVE Still
    <3>1. Stop("composer") \/ Ask("composer", "post", proc["composer"].n, 1, Blank)
      BY <2>2 DEF Persist, Posted, Keep, Patched
    <3> QED BY <1>0, <1>1, <3>1
  <2> QED BY <1>4, <2>1, <2>2 DEF Composer
<1>5. ASSUME Buttons PROVE Still
  <2>1. ASSUME NEW rows, SyncButton(rows) PROVE Still
    BY <1>0, <1>1, <2>1 DEF SyncButton, Take
  <2>2. ASSUME SwitchOn PROVE Still
    BY <1>0, <1>1, <2>2 DEF SwitchOn
  <2> QED BY <1>3, <1>5, <2>1, <2>2 DEF Buttons, SwitchOff
<1>6. ASSUME Drain PROVE Still
  <2>1. ASSUME NEW p \in Posters, PostCached(p) \/ PostedCached(p) \/ Drained(p) PROVE Still
    BY <1>0, <1>1, <2>1 DEF PostCached, PostedCached, Drained
  <2> QED BY <1>0, <1>1, <1>3, <1>6, <2>1 DEF Drain, Flush, Take, Release, Released
<1>7. ASSUME Refreshing PROVE Still
  <2>1. \/ UNCHANGED proc
        \/ Ask("refresh", "get", NoNote, 0, Blank)
        \/ Stop("refresh")
        \/ \E place : Goto("refresh", place)
    BY <1>7 DEF Refreshing, Refresh, Listed, Upsert, Upserted, ListFailed, Prune, ShowItems,
                Superseded
  <2> QED BY <1>0, <1>1, <1>3, <2>1
<1>8. ASSUME World PROVE Still
  BY <1>2, <1>3, <1>8 DEF World, Serve, ServePost, ServePatch, ServeDelete, ServeGet, Miss,
                          RemoteEdit, RemoteForget, Deliver, Lose
<1> QED BY <1>4, <1>5, <1>6, <1>7, <1>8 DEF Next, Browser

\* No step brings an envelope about a note that the server does not have.
LEMMA FreshHub ==
    ASSUME OnTray, Next, NEW n \in Notes, Fresh(n), Fresh(n)'
    PROVE  \A m \in hub' : m.n # n
<1> USE DEF OnTray, Sound, Typed, TablesSound, TablesOK
<1> DEFINE Goal == \A m \in hub' : m.n # n
<1>0. /\ \A m \in hub : m.n # n
      /\ proc["forget"].n = n => proc["forget"].at = "forgetting"
      /\ fate'[n] # "stored" /\ fate[n] # "stored"
  BY DEF FreshOnScreen, OnScreen, Fresh
<1>1. ASSUME hub' \subseteq hub PROVE Goal
  BY <1>0, <1>1
<1>2. ASSUME NEW kind, NEW k, NEW ver, Publish(kind, k, ver), k # n PROVE Goal
  BY <1>0, <1>2 DEF Publish
<1>3. CASE Browser
  <2>1. hub' \subseteq hub
    BY <1>3 DEF Browser, Composer, Send, Edit, Persist, Posted, Keep, Patched,
                Buttons, SyncButton, SwitchOff, SwitchOn, Drain, Flush, Release, Released,
                PostCached, PostedCached, Drained, Forgetting, Forget, TombLapses, ForgetRow,
                Forgotten, Undo, Undone, UndoLapses, Refreshing, Refresh, Listed, Upsert,
                Upserted, ListFailed, Prune, ShowItems, Superseded, Reload
  <2> QED BY <1>1, <2>1
<1>4. CASE World
  <2>1. ASSUME NEW p \in Handlers, ServePost(p) PROVE Goal
    <3>1. proc[p].n # n
      BY <1>0, <2>1 DEF ServePost, Stored
    <3> QED BY <1>2, <2>1, <3>1 DEF ServePost
  <2>2. ASSUME NEW p \in Handlers, ServePatch(p) PROVE Goal
    <3>1. CASE srv[proc[p].n] = 0
      BY <1>1, <2>2, <3>1 DEF ServePatch
    <3>2. CASE srv[proc[p].n] # 0
      <4>1. proc[p].n # n
        BY <1>0, <2>2, <3>2 DEF ServePatch, Stored
      <4> QED BY <1>2, <2>2, <3>2, <4>1 DEF ServePatch
    <3> QED BY <3>1, <3>2
  <2>3. ASSUME NEW p \in Handlers, ServeDelete(p) PROVE Goal
    <3>1. proc[p].at = "delete"
      BY <2>3 DEF ServeDelete, Answered
    <3>2. p = "forget"
      BY <3>1 DEF HandlersSound, HandlerFits, PlacesOf, Handlers
    <3> QED BY <1>0, <1>2, <2>3, <3>1, <3>2 DEF ServeDelete
  <2>4. ASSUME NEW k \in Notes, RemoteEdit(k) \/ RemoteForget(k) PROVE Goal
    <3>1. k # n
      BY <1>0, <2>4 DEF RemoteEdit, RemoteForget, StoredWhenSaid, TablesSaid
    <3> QED BY <1>2, <2>4, <3>1 DEF RemoteEdit, RemoteForget
  <2>5. ASSUME NEW p \in Handlers, ServeGet(p) \/ Miss(p) PROVE Goal
    BY <1>1, <2>5 DEF ServeGet, Miss
  <2>6. ASSUME NEW m \in hub, Deliver(m) \/ Lose(m) PROVE Goal
    BY <1>1, <2>6 DEF Deliver, Lose
  <2> QED BY <1>4, <2>1, <2>2, <2>3, <2>4, <2>5, <2>6 DEF World, Serve
<1> QED BY <1>3, <1>4 DEF Next

\* A note that is still due has not had its row forgotten.
LEMMA FreshForget ==
    ASSUME OnTray, Next, NEW n \in Notes, Fresh(n), Fresh(n)', proc'["forget"].n = n
    PROVE  proc'["forget"].at = "forgetting"
<1> USE DEF OnTray, Sound, Typed, TablesSound, TablesOK
<1> DEFINE f == proc["forget"]
<1>0. /\ f.n = n => f.at = "forgetting"
      /\ "forget" \in Handlers /\ proc \in [Handlers -> ProcState]
      /\ n # NoNote
  BY BoundsAssumption DEF FreshOnScreen, OnScreen, HandlersSound, HandlersOK, Handlers
<1>1. ~ Reload
  BY <1>0 DEF Reload, Idle
<1>2. CASE ~ Forgetting
  BY <1>0, <1>1, <1>2, ForgetStays
<1>3. CASE Forgetting
  <2>1. ASSUME NEW m \in Notes, Forget(m)
        PROVE  proc'["forget"].at = "forgetting"
    BY <1>0, <2>1 DEF Forget
  <2>2. ~ ForgetRow
    <3>1. ASSUME ForgetRow PROVE f.n # n
      BY <3>1 DEF ForgetRow, Fresh, Due, Owed
    <3>2. ASSUME ForgetRow PROVE proc'["forget"].n = f.n
      <4>1. \/ Ask("forget", "delete", f.n, 0, f.was)
            \/ proc' = [proc EXCEPT !["forget"].at = "undo", !["forget"].ans = "ok"]
        BY <3>2 DEF ForgetRow
      <4> QED BY <1>0, <4>1, AskIs DEF ProcState
    <3> QED BY <3>1, <3>2
  <2>3. ~ Forgotten
    BY <1>0 DEF Forgotten, ProcState
  <2>4. ~ Undo
    <3>1. Undo => Stop("forget") \/ Ask("forget", "post", f.n, f.was.ver, f.was)
      BY DEF Undo
    <3> QED BY <1>0, <3>1, AskIs, StopIs DEF Undo
  <2>5. ~ Undone /\ ~ UndoLapses
    BY <1>0, StopIs DEF Undone, UndoLapses
  <2> QED BY <1>0, <1>3, <2>1, <2>2, <2>3, <2>4, <2>5 DEF Forgetting, TombLapses
<1> QED BY <1>2, <1>3

\* Until its intent is known the composer has it.
LEMMA FreshOpen ==
    ASSUME OnTray, Next, NEW n \in Notes, Fresh(n), ~ Send(n), fate'[n] = "sent"
    PROVE  Open(n)'
<1> USE DEF OnTray, Sound, Typed, TablesSound, TablesOK
<1> DEFINE c == proc["composer"]
<1>1. fate[n] = "sent"
  BY FateMoves
<1>2. c.at = "persist" /\ c.n = n
  BY <1>1 DEF FreshOnScreen, OnScreen, Fresh, Open
<1>3. ~ Reload
  BY <1>1 DEF Reload, Turn
<1>4. ~ Composer
  <2>1. ASSUME NEW m \in Notes PROVE ~ Send(m) /\ ~ Edit(m)
    BY <1>2 DEF Send, Edit, MayStart, Busy, Handlers
  <2>2. ~ Persist
    BY <1>1, <1>2 DEF Persist, Owe
  <2> QED BY <1>2, <2>1, <2>2 DEF Composer, Posted, Keep, Patched
<1> QED BY <1>2, <1>3, <1>4, ComposerStays DEF Open

\* What is shown stays shown, with the state that the rows give it.
LEMMA ApplyShows ==
    ASSUME NEW shown, NEW rows, NEW n \in Notes, shown[n].state # "none",
           \A r \in rows : r.row.state # "none"
    PROVE  ApplySyncState(shown, rows)[n].state # "none"
<1>1. SyncState(n, rows) # "none"
  <2>1. ASSUME NEW r \in rows, r.n = n PROVE (CHOOSE q \in rows : q.n = n) \in rows
    BY <2>1
  <2> QED BY <2>1 DEF SyncState
<1> QED BY <1>1 DEF ApplySyncState

LEMMA MarkShows ==
    ASSUME Typed, NEW m \in Notes, NEW state, state # "none", Mark(m, state), NEW n \in Shown
    PROVE  n \in Shown'
BY Rows DEF Typed, TablesSound, TablesOK, Mark, Shown, Row

LEMMA ShowShows ==
    ASSUME Typed, NEW m \in Notes, NEW ver, NEW state, Show(m, ver, state), NEW n \in Shown,
           m # n \/ state # "none"
    PROVE  n \in Shown'
BY DEF Typed, TablesSound, TablesOK, Show, Shown

LEMMA AdoptShows ==
    ASSUME Adopt, NEW n \in Shown, n \in pending
    PROVE  n \in pending'
BY DEF Adopt

LEMMA FreshTray ==
    ASSUME OnTray, SentNoteKept', Next, NEW n \in Notes, Fresh(n), Fresh(n)',
           proc'["forget"].n # n
    PROVE  n \in pending' /\ n \in Shown' /\ n \notin tomb'
<1> USE DEF OnTray, Sound, Typed, TablesSound, TablesOK
<1> DEFINE c == proc["composer"]
           f == proc["forget"]
           Goal == n \in pending' /\ n \in Shown' /\ n \notin tomb'
<1>0. /\ \A m \in hub : m.n # n
      /\ f.n = n => f.at = "forgetting"
      /\ {"composer", "forget", "account", "refresh", "flush", "button"} \subseteq Handlers
      /\ proc \in [Handlers -> ProcState]
      /\ fate[n] \in {"sent", "owed", "hushed"} /\ fate'[n] \in {"sent", "owed", "hushed"}
  BY DEF FreshOnScreen, OnScreen, Fresh, HandlersSound, HandlersOK, Handlers
<1>1. CASE Reload
  <2>1. fate'[n] \in Due
    BY <1>0, <1>1 DEF Reload, Turn, Due, Owed
  <2>2. n \in Unsynced
    BY <1>1, <2>1 DEF Reload, SentNoteKept, Unsynced
  <2> QED BY <1>1, <2>2 DEF Reload, Unsynced, Shown, Outboxed
<1>2. SUFFICES ASSUME ~ Reload PROVE Goal
  BY <1>1
<1>3. f.n # n
  <2>1. ASSUME f.n = n PROVE FALSE
    <3>1. ~ Forgetting => proc'["forget"].n = n
      BY <1>2, <2>1, ForgetStays
    <3>2. ForgetRow => fate'[n] \notin {"sent", "owed", "hushed"}
      BY <1>0, <2>1 DEF ForgetRow, Due, Owed
    <3>3. ASSUME NEW m \in Notes PROVE ~ Forget(m)
      BY <1>0, <2>1 DEF Forget, MayStart, Busy
    <3>4. ASSUME NEW m \in Notes, TombLapses(m) PROVE proc'["forget"].n = n
      BY <2>1, <3>4 DEF TombLapses
    <3> QED BY <1>0, <2>1, <3>1, <3>2, <3>3, <3>4
            DEF Forgetting, Forgotten, Undo, Undone, UndoLapses
  <2> QED BY <2>1
<1>4. n \in pending /\ n \in Shown /\ n \notin tomb
  BY <1>3 DEF FreshOnScreen, OnScreen
<1>5. UNCHANGED trayVars => Goal
  BY <1>4 DEF trayVars, Shown
<1>6. CASE Composer
  <2>1. UNCHANGED tomb
    BY <1>6 DEF Composer, Send, Edit, Persist, Posted, Keep, Patched, trayVars
  <2>2. c.at \in {"persist", "rewrite", "dirty", "post", "patch"} => c.n \in Notes
    BY <1>0 DEF HandlersSound, HandlerFits
  <2>3. ASSUME NEW m \in Notes, Send(m) \/ Edit(m) PROVE n \in pending' /\ n \in Shown'
    <3>1. /\ Show(m, 1, "synced") \/ Show(m, next[m] + 1, tray[m].state)
          /\ m # n \/ Show(m, 1, "synced") \/ tray[m].state # "none"
      BY <1>4, <2>3 DEF Send, Edit, Shown
    <3>2. n \in pending'
      BY <1>4, <2>3 DEF Send, Edit
    <3> QED BY <1>4, <3>1, <3>2, ShowShows
  <2>4. ASSUME Persist PROVE n \in pending' /\ n \in Shown'
    BY <1>4, <2>2, <2>4, MarkShows DEF Persist
  <2>5. ASSUME Posted PROVE n \in pending' /\ n \in Shown'
    <3>1. c.n = n => c.ans = "offline"
      <4>1. ASSUME c.n = n, c.ans = "ok" PROVE FALSE
        BY <1>0, <2>5, <4>1 DEF Posted, StoredWhenSaid, AnswersSaid, AnswerSaid
      <4>2. ASSUME c.n = n, c.ans = "error" PROVE FALSE
        <5>1. fate[n] # "hushed"
          BY <1>0, <2>5, <4>2 DEF Posted, HushedApart, Apart
        <5>2. fate[n] # "sent"
          BY <2>5 DEF Posted, FreshOnScreen, OnScreen, Fresh, Open
        <5>3. fate[n] \in Owed
          BY <1>0, <5>1, <5>2 DEF Owed
        <5> QED BY <1>0, <2>5, <4>2, <5>3 DEF Posted, Turn
      <4>3. c.ans \in {"ok", "error", "offline"}
        BY <1>0, <2>5 DEF Posted, HandlersSound, HandlersOK, HandlerFits, ProcState
      <4> QED BY <4>1, <4>2, <4>3
    <3>2. n \in pending'
      BY <1>4, <2>5, <3>1 DEF Posted
    <3>3. \/ Mark(c.n, "synced") \/ UNCHANGED tray
          \/ Show(c.n, 0, "none") /\ c.n # n
      <4>1. c.ans \in {"ok", "error", "offline"}
        BY <1>0, <2>5 DEF Posted, HandlersSound, HandlersOK, HandlerFits, ProcState
      <4> QED BY <2>5, <3>1, <4>1 DEF Posted
    <3>4. n \in Shown'
      <4>1. c.n \in Notes
        BY <2>2, <2>5 DEF Posted
      <4>2. UNCHANGED tray => n \in Shown'
        BY <1>4 DEF Shown
      <4> QED BY <1>4, <3>3, <4>1, <4>2, MarkShows, ShowShows
    <3> QED BY <3>2, <3>4
  <2>6. ASSUME Keep PROVE n \in pending' /\ n \in Shown'
    <3>1. \E state : Mark(c.n, state) /\ state # "none"
      BY <1>0, <2>6 DEF Keep, HandlersSound, HandlerFits
    <3>2. n \in pending' /\ c.n \in Notes
      BY <1>4, <2>2, <2>6 DEF Keep
    <3> QED BY <1>4, <3>1, <3>2, MarkShows
  <2>7. ASSUME Patched PROVE n \in pending' /\ n \in Shown'
    <3>1. c.n \in Notes /\ c.at = "patch" /\ c.ans \in {"ok", "error", "offline"}
      BY <1>0, <2>2, <2>7 DEF Patched, HandlersSound, HandlersOK, HandlerFits, ProcState
    <3>2. CASE c.ans = "ok"
      <4>1. c.n # n
        BY <1>0, <3>1, <3>2 DEF StoredWhenSaid, AnswersSaid, AnswerSaid
      <4> QED BY <1>4, <2>7, <3>1, <3>2, <4>1, MarkShows DEF Patched
    <3>3. CASE c.ans = "offline"
      BY <1>4, <2>7, <3>1, <3>3, MarkShows DEF Patched
    <3>4. CASE c.ans = "error"
      <4>1. Show(c.n, c.was.ver, c.was.state) /\ UNCHANGED pending
        BY <2>7, <3>1, <3>4 DEF Patched
      <4> QED BY <1>4, <3>1, <4>1, ShowShows DEF EditShown
    <3> QED BY <3>1, <3>2, <3>3, <3>4
  <2> QED BY <1>4, <1>6, <2>1, <2>3, <2>4, <2>5, <2>6, <2>7 DEF Composer
<1>7. CASE Buttons
  BY <1>5, <1>7 DEF Buttons, SyncButton, SwitchOff, SwitchOn
<1>8. CASE Drain
  <2>1. ASSUME NEW p \in Posters, Drained(p) PROVE Goal
    <3>1. CASE p = "account"
      BY <1>4, <2>1, <3>1 DEF Drained, Shown
    <3>2. CASE p # "account"
      <4>1. Adopt /\ tray' = ApplySyncState(tray, Read(Outboxed)) /\ UNCHANGED tomb
        BY <2>1, <3>2 DEF Drained
      <4>2. \A r \in Read(Outboxed) : r.row.state # "none"
        BY DEF Read, Outboxed
      <4>3. tray'[n].state # "none"
        BY <1>4, <4>1, <4>2, ApplyShows DEF Shown
      <4> QED BY <1>4, <4>1, <4>3, AdoptShows DEF Shown
    <3> QED BY <3>1, <3>2
  <2> QED BY <1>5, <1>8, <2>1 DEF Drain, Flush, Release, Released, PostCached, PostedCached
<1>9. CASE Forgetting
  <2>1. ASSUME NEW m \in Notes, Forget(m) PROVE Goal
    <3>1. m # n
      BY <1>0, <2>1 DEF Forget
    <3> QED BY <1>4, <2>1, <3>1, ShowShows DEF Forget
  <2>2. ASSUME NEW m \in Notes, TombLapses(m) PROVE Goal
    BY <1>4, <2>2 DEF TombLapses, Shown
  <2>3. ASSUME Undo \/ Undone PROVE Goal
    <3>1. \/ UNCHANGED tray
          \/ f.n \notin Shown /\ tray' = [tray EXCEPT ![f.n] = f.was]
      BY <2>3 DEF Undo, Undone
    <3>2. n \in Shown'
      BY <1>3, <1>4, <3>1 DEF Shown
    <3>3. n \in pending' /\ n \notin tomb'
      BY <1>4, <2>3 DEF Undo, Undone
    <3> QED BY <3>2, <3>3
  <2> QED BY <1>5, <1>9, <2>1, <2>2, <2>3 DEF Forgetting, ForgetRow, Forgotten, UndoLapses
<1>10. CASE Refreshing
  <2>1. ASSUME NEW place, Prune(place) PROVE Goal
    BY <1>4, <2>1, AdoptShows DEF Prune, Shown
  <2>2. ASSUME ShowItems PROVE Goal
    <3>1. PICK read : tray' = ApplySyncState(Merge(read), work["refresh"])
      BY <2>2 DEF ShowItems
    <3>2. Merge(read)[n].state # "none"
      BY <1>4 DEF Merge, Shown
    <3>3. \A r \in work["refresh"] : r.row.state # "none"
      BY <1>0, <2>2 DEF ShowItems, HandlersSound, RowsFit
    <3>4. n \in Shown'
      BY <3>1, <3>2, <3>3, ApplyShows DEF Shown
    <3> QED BY <1>4, <2>2, <3>4 DEF ShowItems
  <2> QED BY <1>5, <1>10, <2>1, <2>2
          DEF Refreshing, Refresh, Listed, Upsert, Upserted, ListFailed, Superseded
<1>11. CASE World
  <2>1. ASSUME NEW m \in hub, Deliver(m) PROVE Goal
    <3>1. m.n \in Notes /\ m.n # n /\ m.kind \in {"created", "updated", "deleted"}
      BY <1>0 DEF Envelope
    <3>2. /\ pending' \in {pending, pending \ {m.n}} /\ UNCHANGED tomb
          /\ UNCHANGED tray \/ \E ver, state : Show(m.n, ver, state)
      BY <2>1, <3>1 DEF Deliver
    <3>3. n \in Shown'
      BY <1>4, <3>1, <3>2, ShowShows DEF Shown
    <3> QED BY <1>4, <3>1, <3>2, <3>3
  <2> QED BY <1>5, <1>11, <2>1 DEF World, Serve, ServePost, ServePatch, ServeDelete, ServeGet,
                                   Miss, RemoteEdit, RemoteForget, Lose
<1> QED BY <1>2, <1>6, <1>7, <1>8, <1>9, <1>10, <1>11 DEF Next, Browser

LEMMA FreshNext ==
    ASSUME OnTray, SentNoteKept', Next, NEW n \in Notes, Fresh(n)'
    PROVE  OnScreen(n)' /\ (Fresh(n) /\ n \in Shown => n \in Shown' \/ proc'["forget"].n = n)
<1> USE DEF OnTray, Sound, Typed, TablesSound, TablesOK
<1>1. CASE Send(n)
  <2>1. Unknown(n)
    BY <1>1 DEF Send, UnwrittenUnknown
  <2>2. n \notin tomb
    BY <1>1 DEF Send, TombsWritten
  <2>3. "forget" \in Handlers /\ "composer" \in Handlers /\ proc \in [Handlers -> ProcState]
    BY DEF Handlers, HandlersSound, HandlersOK
  <2>4. \A m \in hub' : m.n # n
    BY <1>1, <2>1 DEF Send, Unknown
  <2>5. proc'["forget"].n # n
    BY <1>1, <2>1, <2>3 DEF Send, Unknown
  <2>6. fate'[n] = "sent" /\ Open(n)'
    BY <1>1, <2>1, <2>3 DEF Send, Unknown, Turn, Open
  <2>7. n \in pending' /\ n \in Shown' /\ n \notin tomb'
    BY <1>1, <2>2 DEF Send, Show, Shown
  <2> QED BY <2>4, <2>5, <2>6, <2>7 DEF OnScreen
<1>2. CASE ~ Send(n)
  <2>1. Fresh(n)
    BY <1>2, FateMoves DEF Fresh
  <2> QED BY <1>2, <2>1, FreshHub, FreshForget, FreshOpen, FreshTray DEF OnScreen
<1> QED BY <1>1, <1>2

\* A note that was sent stays on the tray until the server has stored or refused it
\* or the user forgets it: no list asked for before it was written, no rows read
\* before its own, no late answer or envelope and no reload takes it off.
THEOREM SentStaysInTray == Spec => StaysInTray
<1>1. Init => TombsWritten /\ EditShown /\ FreshOnScreen
  BY DEF Init, TombsWritten, EditShown, FreshOnScreen, Fresh, Idle, Handlers
<1>2. OnTray /\ SentNoteKept' /\ [Next]_vars => (TombsWritten /\ EditShown /\ FreshOnScreen)'
  <2>1. CASE UNCHANGED vars
    BY <2>1 DEF OnTray, vars, trayVars, serverVars, TombsWritten, EditShown, FreshOnScreen, Fresh,
                OnScreen, Open, Shown
  <2>2. CASE OnTray /\ SentNoteKept' /\ Next
    BY <2>2, TombsNext, EditShownNext, FreshNext DEF OnTray, FreshOnScreen
  <2> QED BY <2>1, <2>2
<1>3. OnTray /\ SentNoteKept' /\ [Next]_vars
         => [\A n \in Notes : n \in Shown /\ Fresh(n) /\ Fresh(n)'
                              => n \in Shown' \/ proc'["forget"].n = n]_vars
  BY FreshNext
<1> QED BY <1>1, <1>2, <1>3, Soundness, SentNotesKept, PTL DEF Spec, OnTray, StaysInTray
=============================================================================
