------------------------------- MODULE Shares -------------------------------
(***************************************************************************)
(* What other apps share with meownow: the service worker puts the text in *)
(* an inbox of one place in IndexedDB, and a tab that is signed in takes   *)
(* it out when it wakes and sends it as a note.  A tab does one send at a  *)
(* time, or nearly so: it looks whether one is under way before it reads   *)
(* the vault and says so after.                                            *)
(***************************************************************************)
EXTENDS Naturals, FiniteSets

CONSTANTS
    ShareTabs,
    Shared,     \* texts that are shared, each once
    Empty       \* undefined

ASSUME SharesAssumption == Empty \notin Shared /\ IsFiniteSet(ShareTabs)

VARIABLES
    inbox,
    ready,      \* tabs with a member and a vault
    sends,      \* by tab: the sends under way, each a text (Empty: a typed one) and a stage
    busy,       \* by tab: sendingRef
    posted,     \* by text: how many notes were made of it
    lost        \* by text: why it will not be posted

shareVars == <<inbox, ready, sends, busy, posted, lost>>

Fate(text, why) == lost' = [lost EXCEPT ![text] = why]
Stays == UNCHANGED lost

\* handleShare: the place is overwritten.
Share(text) ==
    /\ lost[text] = "unshared"
    /\ inbox' = text
    /\ lost' = [t \in Shared |-> CASE t = text -> "no" [] t = inbox -> "replaced" [] OTHER -> lost[t]]
    /\ UNCHANGED <<ready, sends, busy, posted>>

\* sharePayloadFromForm finds neither a text nor an address: nothing is saved.
ShareNothing(text) ==
    /\ lost[text] = "unshared"
    /\ Fate(text, "nothing in it")
    /\ UNCHANGED <<inbox, ready, sends, busy, posted>>

LeftThere == inbox    \* mutant of Emptied

\* takeIncomingShare: get and delete in one transaction.
Emptied == Empty

\* pullShare takes what there is.
Pull(tab) ==
    /\ tab \in ready /\ inbox # Empty
    /\ sends' = [sends EXCEPT ![tab] = @ \cup {[text |-> inbox, at |-> "taken"]}]
    /\ inbox' = Emptied
    /\ Stays /\ UNCHANGED <<ready, busy, posted>>

\* The member types a note of their own and taps Send.
Type(tab) ==
    /\ tab \in ready
    /\ sends' = [sends EXCEPT ![tab] = @ \cup {[text |-> Empty, at |-> "taken"]}]
    /\ Stays /\ UNCHANGED <<inbox, ready, busy, posted>>

Becomes(tab, send, at) ==
    sends' = [sends EXCEPT ![tab] = (@ \ {send}) \cup
                 IF at = "over" THEN {} ELSE {[send EXCEPT !.at = at]}]

\* sendPlain looks at sendingRef.
Look(tab) ==
    \E send \in sends[tab] :
        /\ send.at = "taken"
        /\ Becomes(tab, send, IF busy[tab] THEN "over" ELSE "reading")
        /\ IF busy[tab] /\ send.text # Empty THEN Fate(send.text, "busy") ELSE Stays
        /\ UNCHANGED <<inbox, ready, busy, posted>>

\* loadVault has answered: no vault, or a text too long, and the send is over.
Refuse(tab) ==
    \E send \in sends[tab] :
        /\ send.at = "reading"
        /\ Becomes(tab, send, "over")
        /\ IF send.text # Empty THEN Fate(send.text, "refused") ELSE Stays
        /\ UNCHANGED <<inbox, ready, busy, posted>>

\* Or the note goes to the tray and its request is under way (Outbox).
Proceed(tab) ==
    \E send \in sends[tab] :
        /\ send.at = "reading"
        /\ Becomes(tab, send, "sending")
        /\ busy' = [busy EXCEPT ![tab] = TRUE]
        /\ posted' = [t \in Shared |-> IF t = send.text THEN posted[t] + 1 ELSE posted[t]]
        /\ Stays /\ UNCHANGED <<inbox, ready>>

Finish(tab) ==
    \E send \in sends[tab] :
        /\ send.at = "sending"
        /\ Becomes(tab, send, "over")
        /\ busy' = [busy EXCEPT ![tab] = FALSE]
        /\ Stays /\ UNCHANGED <<inbox, ready, posted>>

SignIn(tab) ==
    /\ tab \notin ready /\ ready' = ready \cup {tab}
    /\ Stays /\ UNCHANGED <<inbox, sends, busy, posted>>

\* The tab goes, with the sends that are under way in it.
Leave(tab) ==
    /\ tab \in ready /\ ready' = ready \ {tab}
    /\ lost' = [t \in Shared |->
                   IF \E s \in sends[tab] : s.text = t /\ s.at # "sending"
                   THEN "left" ELSE lost[t]]
    /\ sends' = [sends EXCEPT ![tab] = {}]
    /\ busy' = [busy EXCEPT ![tab] = FALSE]
    /\ UNCHANGED <<inbox, posted>>

ShareInit ==
    /\ inbox = Empty /\ ready = {}
    /\ sends = [t \in ShareTabs |-> {}] /\ busy = [t \in ShareTabs |-> FALSE]
    /\ posted = [t \in Shared |-> 0] /\ lost = [t \in Shared |-> "unshared"]

ShareNext ==
    \/ \E text \in Shared : Share(text) \/ ShareNothing(text)
    \/ \E tab \in ShareTabs :
          \/ Pull(tab) \/ Type(tab)
          \/ Look(tab) \/ Refuse(tab) \/ Proceed(tab) \/ Finish(tab)
          \/ SignIn(tab) \/ Leave(tab)

ShareSpec == ShareInit /\ [][ShareNext]_shareVars

----------------------------------------------------------------------------

SharesOK ==
    /\ inbox \in Shared \cup {Empty} /\ ready \subseteq ShareTabs
    /\ \A t \in ShareTabs :
           sends[t] \subseteq [text : Shared \cup {Empty}, at : {"taken", "reading", "sending"}]
    /\ busy \in [ShareTabs -> BOOLEAN]
    /\ posted \in [Shared -> 0 .. 1 + Cardinality(ShareTabs)]

\* A text that was shared is somewhere, once: in the inbox, in the hands of one
\* tab, in one note, or lost to a later share, a send under way, a tab that
\* left or a text that cannot be a note.  Two tabs that wake together never
\* send it twice.
Places(text) ==
    (IF inbox = text THEN 1 ELSE 0)
    + Cardinality({t \in ShareTabs : \E s \in sends[t] : s.text = text /\ s.at # "sending"})
    + posted[text]
SharedOnce ==
    \A text \in Shared : Places(text) = IF lost[text] = "no" THEN 1 ELSE 0

=============================================================================
