----------------------------- MODULE Playground -----------------------------
(***************************************************************************)
(* The playground: notes that a browser keeps without an account, at most  *)
(* Cap of them.  The notes are in IndexedDB, shared by the tabs; a handler *)
(* of a tab reads them in one transaction and writes in another, and a     *)
(* Send key, a pasted image and a Forget button do not wait for a handler  *)
(* that is under way: only the Send button does.                           *)
(***************************************************************************)
EXTENDS Naturals, FiniteSets

CONSTANTS
    PlayTabs,
    Slots,      \* bound: handlers under way at once, each a pair of its tab and a number
    PlayNotes,  \* ids
    PlayCap,
    NoNote      \* null

ASSUME PlayAssumption ==
    /\ PlayCap \in Nat \ {0} /\ IsFiniteSet(Slots)
    /\ NoNote \notin PlayNotes

VARIABLES
    notes,      \* the records: a set of [id, kind]
    shown,      \* by tab: the ids on the board
    editing,    \* by tab: the note in the composer
    handlers,   \* by slot: what it is doing
    member      \* the browser has a vault

playVars == <<notes, shown, editing, handlers, member>>

Quiet == [at |-> "quiet"]
Ids == {n.id : n \in notes}

\* A new id is none that a record, a board, a composer or a handler holds.
Held == Ids \cup (UNION {shown[t] \cup {editing[t]} : t \in PlayTabs})
            \cup {handlers[s].id : s \in {r \in Slots : "id" \in DOMAIN handlers[r]}}

Moves(slot, state) == handlers' = [handlers EXCEPT ![slot] = state]

\* A key, a tap or a paste begins a handler.
Press(tab, state) ==
    \E slot \in Slots : slot[1] = tab /\ handlers[slot] = Quiet /\ Moves(slot, state)

----------------------------------------------------------------------------

\* onSend: a new note, or the one that is edited.
Send(tab) ==
    /\ Press(tab,
             IF editing[tab] = NoNote THEN [at |-> "add", kind |-> "text"]
             ELSE [at |-> "replace", id |-> editing[tab]])
    /\ UNCHANGED <<notes, shown, editing, member>>

\* onPaste of an image
Paste(tab) ==
    /\ Press(tab, [at |-> "add", kind |-> "image"])
    /\ UNCHANGED <<notes, shown, editing, member>>

\* startEdit: a second tap ends the edit; so does Cancel.
StartEdit(tab, id) ==
    /\ [id |-> id, kind |-> "text"] \in notes /\ id \in shown[tab]
    /\ editing' = [editing EXCEPT ![tab] = IF @ = id THEN NoNote ELSE id]
    /\ UNCHANGED <<notes, shown, handlers, member>>

\* onForget, up to the delete
Forget(tab, id) ==
    /\ id \in shown[tab]
    /\ Press(tab, [at |-> "delete", id |-> id])
    /\ editing' = [editing EXCEPT ![tab] = IF @ = id THEN NoNote ELSE @]
    /\ UNCHANGED <<notes, shown, member>>

----------------------------------------------------------------------------

\* addPlayNote and addPlayImage read the notes: the cap is checked here.
RoomAtCap == Cardinality(notes) <= PlayCap   \* mutant of Room
Room == Cardinality(notes) < PlayCap

AddReads(slot) ==
    LET adding == handlers[slot]
    IN  /\ adding.at = "add"
        /\ \/ ~Room /\ Moves(slot, Quiet)
           \/ /\ Room
              /\ \E id \in PlayNotes \ Held :
                     Moves(slot, [at |-> "put", id |-> id, kind |-> adding.kind, was |-> "add"])
        /\ UNCHANGED <<notes, shown, editing, member>>

\* replacePlayNote reads the notes.
ReplaceReads(slot) ==
    LET id == handlers[slot].id
    IN  /\ handlers[slot].at = "replace"
        /\ Moves(slot, IF [id |-> id, kind |-> "text"] \in notes
                       THEN [at |-> "put", id |-> id, kind |-> "text", was |-> "replace"]
                       ELSE Quiet)
        /\ UNCHANGED <<notes, shown, editing, member>>

\* store.put, whatever became of the notes since; the composer is cleared.
Put(slot) ==
    LET put == handlers[slot]
    IN  /\ put.at = "put"
        /\ notes' = notes \cup {[id |-> put.id, kind |-> put.kind]}
        /\ editing' = [editing EXCEPT ![slot[1]] = IF put.was = "replace" THEN NoNote ELSE @]
        /\ Moves(slot, [at |-> "list"])
        /\ UNCHANGED <<shown, member>>

\* forgetPlayNote
Delete(slot) ==
    /\ handlers[slot].at = "delete"
    /\ notes' = {n \in notes : n.id # handlers[slot].id}
    /\ Moves(slot, [at |-> "list"])
    /\ UNCHANGED <<shown, editing, member>>

\* finishWrite and refresh: the board shows what is stored now.
List(slot) ==
    /\ handlers[slot].at = "list"
    /\ shown' = [shown EXCEPT ![slot[1]] = Ids]
    /\ Moves(slot, Quiet)
    /\ UNCHANGED <<notes, editing, member>>

\* A tab is closed, or loaded anew.
Reload(tab) ==
    /\ shown' = [shown EXCEPT ![tab] = IF member THEN {} ELSE Ids]
    /\ editing' = [editing EXCEPT ![tab] = NoNote]
    /\ handlers' = [s \in Slots |-> IF s[1] = tab THEN Quiet ELSE handlers[s]]
    /\ UNCHANGED <<notes, member>>

\* The browser joins a vault; from then on every page that is opened clears
\* the notes (discardPlayIfLocal).
Join ==
    /\ ~member /\ member' = TRUE
    /\ UNCHANGED <<notes, shown, editing, handlers>>
Discard ==
    /\ member
    /\ notes' = {}
    /\ UNCHANGED <<shown, editing, handlers, member>>

PlayInit ==
    /\ notes = {} /\ member = FALSE
    /\ shown = [t \in PlayTabs |-> {}]
    /\ editing = [t \in PlayTabs |-> NoNote]
    /\ handlers = [s \in Slots |-> Quiet]

PlayNext ==
    \/ \E t \in PlayTabs :
          \/ Send(t) \/ Paste(t) \/ Reload(t)
          \/ \E id \in shown[t] : StartEdit(t, id) \/ Forget(t, id)
    \/ \E s \in Slots : AddReads(s) \/ ReplaceReads(s) \/ Put(s) \/ Delete(s) \/ List(s)
    \/ Join \/ Discard

PlaySpec == PlayInit /\ [][PlayNext]_playVars

----------------------------------------------------------------------------

PlayOK ==
    /\ notes \subseteq [id : PlayNotes, kind : {"text", "image"}]
    /\ Cardinality(Ids) = Cardinality(notes)
    /\ \A t \in PlayTabs : shown[t] \subseteq PlayNotes /\ editing[t] \in PlayNotes \cup {NoNote}
    /\ \A s \in Slots :
           handlers[s].at \in {"quiet", "add", "replace", "put", "delete", "list"}
    /\ member \in BOOLEAN

\* The cap is checked before the write and not by it.  Even so the notes pass
\* it only by what was under way when the board filled up: every handler but the
\* one that filled it may still add one note, a new one or one that an edit
\* brings back after it was forgotten, and then the board takes no more.
CapNearlyHeld == Cardinality(notes) < PlayCap + Cardinality(Slots)

=============================================================================
