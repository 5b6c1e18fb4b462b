---------------------------- MODULE PartsProofs -----------------------------
(***************************************************************************)
(* Theorems about the parts that share nothing with the rest.              *)
(*                                                                         *)
(* Those in which several tabs of one browser meet over what they share:   *)
(* an inbox (Shares), a service worker (Updates), a store (Playground), a  *)
(* cookie jar (Ceremonies).  Each is proved by itself, for any number of   *)
(* tabs.                                                                   *)
(*                                                                         *)
(* The file that one page sends and another opens (Files), for any number  *)
(* of files, any contents, any size of a chunk and any number of faults.   *)
(*                                                                         *)
(* What is asked of the service (Requests): its types with the cap on open *)
(* asks, the space a member has, decisions that stay and decisions that    *)
(* are logged, for any number of members, calls, asks and requests.  What  *)
(* a call read at its first statement it uses at a later one, so the       *)
(* invariants say what is still true of it by then, as long as no other    *)
(* call decides the same request.                                          *)
(*                                                                         *)
(* How often it may be asked (RateLimit): for any number of addresses and  *)
(* members and any bucket, a key spends between two moments at most a full *)
(* bucket and what came back meanwhile, and finds its bucket empty only    *)
(* after spending a bucket in one window.                                  *)
(***************************************************************************)
EXTENDS Parts, FiniteSetTheorems, WellFoundedInduction, TLAPS

-----------------------------------------------------------------------------
(* Shares: a text is in one place.                                         *)

Sends == [text : Shared \cup {Empty}, at : {"taken", "reading", "sending"}]

SharesTyped ==
    /\ inbox \in Shared \cup {Empty} /\ ready \subseteq ShareTabs
    /\ sends \in [ShareTabs -> SUBSET Sends]
    /\ busy \in [ShareTabs -> BOOLEAN]
    /\ posted \in [Shared -> {0, 1}]
    /\ DOMAIN lost = Shared /\ lost = [t \in Shared |-> lost[t]]

\* A send that may still make a note of the text.
Carries(send, text) == send.text = text /\ send.at # "sending"
InHand(text) == \E t \in ShareTabs : \E s \in sends[t] : Carries(s, text)

OneSend ==
    \A text \in Shared : \A t, u \in ShareTabs : \A s \in sends[t], q \in sends[u] :
        Carries(s, text) /\ Carries(q, text) => t = u /\ s = q

\* It is in the inbox, in hand or posted, and in one of these only.
OnePlace ==
    \A text \in Shared :
        /\ lost[text] = "no" <=> inbox = text \/ InHand(text) \/ posted[text] = 1
        /\ ~(inbox = text /\ InHand(text))
        /\ posted[text] = 1 => inbox # text /\ ~InHand(text)

SharesSound == SharesTyped /\ OneSend /\ OnePlace

LEMMA ShareBegins == ShareInit => SharesSound
  BY SharesAssumption
     DEF ShareInit, SharesSound, SharesTyped, OneSend, OnePlace, InHand, Carries

LEMMA ShareArrives ==
    ASSUME SharesSound, NEW text \in Shared, Share(text) \/ ShareNothing(text)
    PROVE  SharesSound'
  <1>1. CASE Share(text)
    <2>1. SharesTyped'
      BY <1>1 DEF SharesSound, SharesTyped, Share
    <2>2. OneSend' /\ OnePlace'
      BY <1>1, SharesAssumption
         DEF SharesSound, SharesTyped, Share, OneSend, OnePlace, InHand, Carries
    <2>3. QED
      BY <2>1, <2>2 DEF SharesSound
  <1>2. CASE ShareNothing(text)
    <2>1. /\ lost[text] # "no" /\ lost' = [lost EXCEPT ![text] = "nothing in it"]
          /\ UNCHANGED <<inbox, ready, sends, busy, posted>>
      BY <1>2 DEF ShareNothing, Fate
    <2>2. SharesTyped'
      BY <2>1 DEF SharesSound, SharesTyped
    <2>3. \A t \in Shared : lost'[t] = "no" <=> lost[t] = "no"
      BY <2>1 DEF SharesSound, SharesTyped
    <2>4. OneSend' /\ \A t \in Shared : InHand(t)' <=> InHand(t)
      BY <2>1 DEF SharesSound, OneSend, InHand, Carries
    <2>5. OnePlace'
      BY <2>1, <2>3, <2>4 DEF SharesSound, OnePlace
    <2>6. QED
      BY <2>2, <2>4, <2>5 DEF SharesSound
  <1>3. QED
    BY <1>1, <1>2

LEMMA ShareTaken ==
    ASSUME SharesSound, NEW tab \in ShareTabs, Pull(tab) \/ Type(tab)
    PROVE  SharesSound'
  <1> DEFINE send(text) == [text |-> text, at |-> "taken"]
  <1>1. CASE Pull(tab)
    <2>1. /\ inbox \in Shared /\ inbox' = Empty
          /\ sends' = [sends EXCEPT ![tab] = @ \cup {send(inbox)}]
          /\ UNCHANGED <<ready, busy, posted, lost>>
      BY <1>1 DEF Pull, SharesSound, SharesTyped, Emptied, Stays
    <2>2. SharesTyped'
      BY <2>1 DEF SharesSound, SharesTyped, Sends
    <2>3. ASSUME NEW text \in Shared PROVE InHand(text)' <=> InHand(text) \/ text = inbox
      <3>1. \A t \in ShareTabs :
               sends'[t] = IF t = tab THEN sends[t] \cup {send(inbox)} ELSE sends[t]
        BY <2>1 DEF SharesSound, SharesTyped
      <3>2. Carries(send(inbox), text) <=> text = inbox
        BY DEF Carries
      <3>3. send(inbox) \in sends'[tab]
        BY <3>1
      <3> HIDE DEF send
      <3>4. QED
        BY <3>1, <3>2, <3>3 DEF InHand, Carries
    <2>4. OnePlace'
      BY <2>1, <2>3, SharesAssumption DEF SharesSound, SharesTyped, OnePlace
    <2>5. OneSend'
      BY <2>1, SharesAssumption DEF SharesSound, SharesTyped, OneSend, OnePlace, InHand, Carries
    <2>6. QED
      BY <2>2, <2>4, <2>5 DEF SharesSound
  <1>2. CASE Type(tab)
    <2>1. /\ sends' = [sends EXCEPT ![tab] = @ \cup {send(Empty)}]
          /\ UNCHANGED <<inbox, ready, busy, posted, lost>>
      BY <1>2 DEF Type, Stays
    <2>2. SharesTyped'
      BY <2>1 DEF SharesSound, SharesTyped, Sends
    <2>3. \A text \in Shared : InHand(text)' <=> InHand(text)
      BY <2>1, SharesAssumption DEF SharesSound, SharesTyped, InHand, Carries
    <2>4. OnePlace'
      BY <2>1, <2>3, SharesAssumption DEF SharesSound, SharesTyped, OnePlace
    <2>5. OneSend'
      BY <2>1, SharesAssumption DEF SharesSound, SharesTyped, OneSend, OnePlace, InHand, Carries
    <2>6. QED
      BY <2>2, <2>4, <2>5 DEF SharesSound
  <1>3. QED
    BY <1>1, <1>2

\* One send of a tab goes on, or is over.
Onward(tab, send, at) ==
    /\ send \in sends[tab] /\ send.at # "sending"
    /\ Becomes(tab, send, at)
    /\ UNCHANGED <<inbox, ready>>

LEMMA SendMoves ==
    ASSUME SharesSound, NEW tab \in ShareTabs, NEW send, NEW at \in {"reading", "sending", "over"},
           Onward(tab, send, at)
    PROVE  /\ sends' \in [ShareTabs -> SUBSET Sends]
           /\ OneSend'
           /\ \A text \in Shared : InHand(text)' <=> InHand(text) /\ (text # send.text \/ at = "reading")
  <1> DEFINE next == [send EXCEPT !.at = at]
             rest == (sends[tab] \ {send}) \cup IF at = "over" THEN {} ELSE {next}
  <1>1. /\ send \in Sends /\ sends[tab] \subseteq Sends
        /\ next.text = send.text /\ next.at = at /\ (at # "over" => next \in Sends)
    BY DEF Onward, SharesSound, SharesTyped, Sends
  <1>2. sends' = [sends EXCEPT ![tab] = rest]
    BY DEF Onward, Becomes
  <1> HIDE DEF next
  <1>3. rest \subseteq Sends /\ sends' \in [ShareTabs -> SUBSET Sends]
    BY <1>1, <1>2 DEF SharesSound, SharesTyped
  <1>4. \A t \in ShareTabs : t # tab => sends'[t] = sends[t]
    BY <1>2 DEF SharesSound, SharesTyped
  <1>5. sends'[tab] = rest
    BY <1>2 DEF SharesSound, SharesTyped
  <1>6. \A text \in Shared, q \in rest : Carries(q, text) =>
           \/ q \in sends[tab] /\ q # send
           \/ q = next /\ at = "reading" /\ Carries(send, text)
    BY <1>1 DEF Carries, Onward
  <1>7. \A text \in Shared : at = "reading" /\ Carries(send, text) => next \in rest /\ Carries(next, text)
    BY <1>1 DEF Carries
  <1>8. \A q \in sends[tab] : q # send => q \in rest
    OBVIOUS
  <1> HIDE DEF rest
  <1>9. OneSend'
    BY <1>4, <1>5, <1>6 DEF Onward, SharesSound, OneSend, Carries
  <1>10. ASSUME NEW text \in Shared
         PROVE  InHand(text)' <=> InHand(text) /\ (text # send.text \/ at = "reading")
    <2>1. Carries(send, text) <=> text = send.text
      BY DEF Onward, Carries
    <2>2. ASSUME InHand(text), text # send.text PROVE InHand(text)'
      BY <2>1, <2>2, <1>4, <1>5, <1>8 DEF InHand
    <2>3. ASSUME text = send.text, at = "reading" PROVE InHand(text)'
      BY <2>1, <2>3, <1>5, <1>7 DEF InHand
    <2>4. ASSUME InHand(text)' PROVE InHand(text) /\ (text # send.text \/ at = "reading")
      <3>0. PICK t \in ShareTabs : \E q \in sends'[t] : Carries(q, text)
        BY <2>4 DEF InHand, Carries
      <3>1. PICK q \in sends'[t] : Carries(q, text)
        BY <3>0
      <3>2. \/ q \in sends[t] /\ (t # tab \/ q # send)
            \/ at = "reading" /\ Carries(send, text)
        BY <3>1, <1>4, <1>5, <1>6
      <3>3. CASE q \in sends[t] /\ (t # tab \/ q # send)
        <4>1. InHand(text)
          BY <3>1, <3>3 DEF InHand
        <4>2. text # send.text
          BY <3>1, <3>3, <2>1 DEF SharesSound, OneSend, Onward
        <4>3. QED
          BY <4>1, <4>2
      <3>4. CASE at = "reading" /\ Carries(send, text)
        BY <3>4 DEF InHand, Onward
      <3>5. QED
        BY <3>2, <3>3, <3>4
    <2>5. QED
      BY <2>2, <2>3, <2>4
  <1>11. QED
    BY <1>3, <1>9, <1>10

LEMMA ShareGoesOn ==
    ASSUME SharesSound, NEW tab \in ShareTabs, Look(tab) \/ Refuse(tab) \/ Proceed(tab)
    PROVE  SharesSound'
  <1>1. CASE Look(tab) \/ Refuse(tab)
    <2>1. PICK send \in sends[tab], at \in {"reading", "over"} :
             /\ Onward(tab, send, at)
             /\ UNCHANGED <<busy, posted>>
             /\ IF at = "over" /\ send.text # Empty
                THEN \E why \in {"busy", "refused"} : Fate(send.text, why) ELSE Stays
      BY <1>1 DEF Look, Refuse, Onward
    <2>2. /\ sends' \in [ShareTabs -> SUBSET Sends] /\ OneSend'
          /\ \A text \in Shared : InHand(text)' <=> InHand(text) /\ (text # send.text \/ at = "reading")
      BY <2>1, SendMoves
    <2>3. SharesTyped'
      BY <2>1, <2>2 DEF SharesSound, SharesTyped, Onward, Fate, Stays
    <2>4. send.text \in Shared => InHand(send.text)
      BY <2>1 DEF Onward, InHand, Carries
    <2>5. ASSUME NEW text \in Shared
          PROVE  lost'[text] = IF at = "over" /\ text = send.text THEN lost'[text] ELSE lost[text]
      BY <2>1, SharesAssumption DEF SharesSound, SharesTyped, Fate, Stays
    <2>6. ASSUME NEW text \in Shared, at = "over", text = send.text PROVE lost'[text] # "no"
      BY <2>1, <2>6, SharesAssumption DEF SharesSound, SharesTyped, Fate
    <2>7. inbox' = inbox /\ posted' = posted
      BY <2>1 DEF Onward
    <2>8. OnePlace'
      BY <2>2, <2>4, <2>5, <2>6, <2>7 DEF SharesSound, OnePlace
    <2>9. QED
      BY <2>2, <2>3, <2>8 DEF SharesSound
  <1>2. CASE Proceed(tab)
    <2>1. PICK send \in sends[tab] :
             /\ Onward(tab, send, "sending")
             /\ busy' = [busy EXCEPT ![tab] = TRUE]
             /\ posted' = [t \in Shared |-> IF t = send.text THEN posted[t] + 1 ELSE posted[t]]
             /\ Stays
      BY <1>2 DEF Proceed, Onward
    <2>2. /\ sends' \in [ShareTabs -> SUBSET Sends] /\ OneSend'
          /\ \A text \in Shared : InHand(text)' <=> InHand(text) /\ text # send.text
      BY <2>1, SendMoves
    <2>3. send.text \in Shared => InHand(send.text)
      BY <2>1 DEF Onward, InHand, Carries
    <2>4. \A text \in Shared :
             /\ posted[text] \in {0, 1}
             /\ posted'[text] = IF text = send.text THEN 1 ELSE posted[text]
      BY <2>1, <2>3 DEF SharesSound, SharesTyped, OnePlace
    <2>5. SharesTyped'
      BY <2>1, <2>2, <2>4 DEF SharesSound, SharesTyped, Onward, Stays
    <2>6. inbox' = inbox /\ lost' = lost
      BY <2>1 DEF Onward, Stays
    <2>7. OnePlace'
      BY <2>2, <2>3, <2>4, <2>6 DEF SharesSound, OnePlace
    <2>8. QED
      BY <2>2, <2>5, <2>7 DEF SharesSound
  <1>3. QED
    BY <1>1, <1>2

LEMMA ShareEnds ==
    ASSUME SharesSound, NEW tab \in ShareTabs, Finish(tab) \/ SignIn(tab) \/ Leave(tab)
    PROVE  SharesSound'
  <1>1. CASE Finish(tab)
    <2>1. PICK send \in sends[tab] :
             /\ send.at = "sending"
             /\ sends' = [sends EXCEPT ![tab] = @ \ {send}]
             /\ busy' = [busy EXCEPT ![tab] = FALSE]
             /\ UNCHANGED <<inbox, ready, posted, lost>>
      BY <1>1 DEF Finish, Becomes, Stays
    <2>2. SharesTyped'
      BY <2>1 DEF SharesSound, SharesTyped
    <2>3. \A text \in Shared : InHand(text)' <=> InHand(text)
      BY <2>1 DEF SharesSound, SharesTyped, InHand, Carries
    <2>4. OneSend'
      BY <2>1 DEF SharesSound, SharesTyped, OneSend, Carries
    <2>5. QED
      BY <2>1, <2>2, <2>3, <2>4 DEF SharesSound, OnePlace
  <1>2. CASE SignIn(tab)
    BY <1>2 DEF SignIn, Stays, SharesSound, SharesTyped, OneSend, OnePlace, InHand, Carries
  <1>3. CASE Leave(tab)
    <2>1. /\ sends' = [sends EXCEPT ![tab] = {}]
          /\ lost' = [t \in Shared |-> IF \E s \in sends[tab] : Carries(s, t) THEN "left" ELSE lost[t]]
          /\ busy' = [busy EXCEPT ![tab] = FALSE]
          /\ ready' \subseteq ready
          /\ UNCHANGED <<inbox, posted>>
      BY <1>3 DEF Leave, Carries
    <2>2. SharesTyped'
      BY <2>1 DEF SharesSound, SharesTyped
    <2>3. \A text \in Shared :
             InHand(text)' <=> InHand(text) /\ ~\E s \in sends[tab] : Carries(s, text)
      <3> SUFFICES ASSUME NEW text \in Shared
                   PROVE  InHand(text)' <=> InHand(text) /\ ~\E s \in sends[tab] : Carries(s, text)
        OBVIOUS
      <3>1. \A t \in ShareTabs : sends'[t] = IF t = tab THEN {} ELSE sends[t]
        BY <2>1 DEF SharesSound, SharesTyped
      <3>2. QED
        BY <3>1 DEF SharesSound, OneSend, InHand, Carries
    <2>4. \A text \in Shared : (\E s \in sends[tab] : Carries(s, text)) => InHand(text)
      BY DEF InHand
    <2>5. OneSend'
      BY <2>1 DEF SharesSound, SharesTyped, OneSend, Carries
    <2>6. OnePlace'
      BY <2>1, <2>3, <2>4 DEF SharesSound, OnePlace
    <2>7. QED
      BY <2>2, <2>5, <2>6 DEF SharesSound
  <1>4. QED
    BY <1>1, <1>2, <1>3

LEMMA ShareKept == SharesSound /\ [ShareNext]_shareVars => SharesSound'
  <1>1. SharesSound /\ ShareNext => SharesSound'
    BY ShareArrives, ShareTaken, ShareGoesOn, ShareEnds DEF ShareNext
  <1>2. SharesSound /\ UNCHANGED shareVars => SharesSound'
    BY DEF shareVars, SharesSound, SharesTyped, OneSend, OnePlace, InHand, Carries
  <1>3. QED
    BY <1>1, <1>2

LEMMA SharesAreSound == ShareSpec => []SharesSound
  BY ShareBegins, ShareKept, PTL DEF ShareSpec

\* The inbox, the sends of every tab and the notes are typed, and no text
\* becomes more notes than one.
THEOREM SharesTypeCorrect == ShareSpec => []SharesOK
  <1>1. SharesSound => SharesOK
    <2> SUFFICES ASSUME SharesSound PROVE SharesOK
      OBVIOUS
    <2>1. Cardinality(ShareTabs) \in Nat
      BY SharesAssumption, FS_CardinalityType
    <2>2. {0, 1} \subseteq 0 .. 1 + Cardinality(ShareTabs)
      BY <2>1
    <2>3. \A t \in ShareTabs : sends[t] \subseteq Sends
      BY DEF SharesSound, SharesTyped
    <2>4. posted \in [Shared -> 0 .. 1 + Cardinality(ShareTabs)]
      BY <2>2 DEF SharesSound, SharesTyped
    <2>5. QED
      BY <2>3, <2>4 DEF SharesSound, SharesTyped, SharesOK, Sends
  <1>2. QED
    BY <1>1, SharesAreSound, PTL

\* takeIncomingShare takes in one transaction: of a text that was shared there
\* is one copy in all tabs and notes, until it is lost for a reason.
THEOREM SharesSentOnce == ShareSpec => []SharedOnce
  <1>1. ASSUME SharesSound, NEW text \in Shared
        PROVE  Places(text) = IF lost[text] = "no" THEN 1 ELSE 0
    <2> DEFINE holders == {t \in ShareTabs : \E s \in sends[t] : s.text = text /\ s.at # "sending"}
    <2>1. CASE InHand(text)
      <3>1. PICK t \in ShareTabs : \E s \in sends[t] : Carries(s, text)
        BY <2>1 DEF InHand
      <3>2. holders = {t}
        BY <1>1, <3>1 DEF SharesSound, OneSend, Carries
      <3>3. Cardinality(holders) = 1
        BY <3>2, FS_Singleton
      <3>4. inbox # text /\ posted[text] = 0 /\ lost[text] = "no"
        BY <1>1, <2>1 DEF SharesSound, SharesTyped, OnePlace
      <3>5. QED
        BY <3>3, <3>4 DEF Places
    <2>2. CASE ~InHand(text)
      <3>1. holders = {}
        BY <2>2 DEF InHand, Carries
      <3>2. Cardinality(holders) = 0
        BY <3>1, FS_EmptySet
      <3>3. /\ posted[text] \in {0, 1}
            /\ lost[text] = "no" <=> inbox = text \/ posted[text] = 1
            /\ posted[text] = 1 => inbox # text
        BY <1>1, <2>2 DEF SharesSound, SharesTyped, OnePlace
      <3>4. QED
        BY <3>2, <3>3 DEF Places
    <2>3. QED
      BY <2>1, <2>2
  <1>2. SharesSound => SharedOnce
    BY <1>1 DEF SharedOnce
  <1>3. QED
    BY <1>2, SharesAreSound, PTL

-----------------------------------------------------------------------------
(* Playground: what is stored and what is about to be.                     *)

Kinds == {"text", "image"}
Records == [id : PlayNotes, kind : Kinds]

\* What a handler holds at each of its places.
Handles(h) ==
    \/ h = Quiet
    \/ h = [at |-> "list"]
    \/ \E kind \in Kinds : h = [at |-> "add", kind |-> kind]
    \/ \E id \in PlayNotes : h = [at |-> "replace", id |-> id]
    \/ \E id \in PlayNotes : h = [at |-> "delete", id |-> id]
    \/ \E id \in PlayNotes, kind \in Kinds, was \in {"add", "replace"} :
          h = [at |-> "put", id |-> id, kind |-> kind, was |-> was]

PlayTyped ==
    /\ notes \subseteq Records
    /\ shown \in [PlayTabs -> SUBSET PlayNotes]
    /\ editing \in [PlayTabs -> PlayNotes \cup {NoNote}]
    /\ DOMAIN handlers = Slots /\ handlers = [s \in Slots |-> handlers[s]]
    /\ \A s \in Slots : Handles(handlers[s])
    /\ member \in BOOLEAN

\* The records that a handler has decided to write.
Written(h) == [id |-> h.id, kind |-> h.kind]
Writing == {s \in Slots : handlers[s].at = "put"}
Pending == {Written(handlers[s]) : s \in Writing}

\* A note is a text or an image and stays that, stored or about to be.
OneKind == \A a, b \in notes \cup Pending : a.id = b.id => a = b

\* The cap, of the notes and of what is about to be one.
CapOfAll ==
    /\ IsFiniteSet(notes \cup Pending)
    /\ Cardinality(notes \cup Pending) < PlayCap + Cardinality(Slots)

PlaySound == PlayTyped /\ OneKind /\ CapOfAll

LEMMA HandlerPlaces ==
    /\ Quiet.at = "quiet"
    /\ \A h : Handles(h) =>
          /\ h.at \in {"quiet", "add", "replace", "put", "delete", "list"}
          /\ h.at = "put" => Written(h) \in Records /\ h.id \in PlayNotes /\ "id" \in DOMAIN h
          /\ h.at \in {"replace", "delete"} => h.id \in PlayNotes
          /\ h.at = "add" => h.kind \in Kinds
  BY DEF Handles, Quiet, Written, Records, Kinds

LEMMA PendingFinite ==
    IsFiniteSet(Pending) /\ Cardinality(Pending) <= Cardinality(Slots)
  <1> DEFINE f == [s \in Writing |-> Written(handlers[s])]
  <1>1. /\ IsFiniteSet(Writing)
        /\ Cardinality(Writing) <= Cardinality(Slots)
    BY PlayAssumption, FS_Subset DEF Writing
  <1>2. f \in Surjection(Writing, Pending)
    BY DEF Surjection, Pending
  <1>3. IsFiniteSet(Pending) /\ Cardinality(Pending) <= Cardinality(Writing)
    BY <1>1, <1>2, FS_Surjection
  <1>4. /\ Cardinality(Pending) \in Nat /\ Cardinality(Writing) \in Nat
        /\ Cardinality(Slots) \in Nat
    BY <1>1, <1>3, PlayAssumption, FS_CardinalityType
  <1>5. QED
    BY <1>1, <1>3, <1>4

LEMMA PlayBegins == PlayInit => PlaySound
  <1> SUFFICES ASSUME PlayInit PROVE PlaySound
    OBVIOUS
  <1>1. \A s \in Slots : handlers[s] = Quiet /\ Handles(handlers[s]) /\ handlers[s].at # "put"
    BY HandlerPlaces DEF PlayInit, Handles
  <1>2. PlayTyped
    BY <1>1 DEF PlayInit, PlayTyped
  <1>3. notes \cup Pending = {}
    BY <1>1 DEF PlayInit, Pending, Writing
  <1>4. IsFiniteSet(notes \cup Pending) /\ Cardinality(notes \cup Pending) = 0
    BY <1>3, FS_EmptySet
  <1>5. 0 < PlayCap + Cardinality(Slots)
    BY PlayAssumption, FS_CardinalityType
  <1>6. QED
    BY <1>2, <1>3, <1>4, <1>5 DEF PlaySound, OneKind, CapOfAll

\* A step after which no record is stored, or about to be, that was not before.
LEMMA NothingNew ==
    ASSUME PlaySound, PlayTyped', (notes \cup Pending)' \subseteq notes \cup Pending
    PROVE  PlaySound'
  <1>1. OneKind'
    BY DEF PlaySound, OneKind
  <1>2. /\ IsFiniteSet((notes \cup Pending)')
        /\ Cardinality((notes \cup Pending)') <= Cardinality(notes \cup Pending)
    BY FS_Subset DEF PlaySound, CapOfAll
  <1>3. /\ Cardinality((notes \cup Pending)') \in Nat /\ Cardinality(notes \cup Pending) \in Nat
        /\ PlayCap + Cardinality(Slots) \in Nat
    BY <1>2, PlayAssumption, FS_CardinalityType DEF PlaySound, CapOfAll
  <1>4. CapOfAll'
    BY <1>2, <1>3 DEF PlaySound, CapOfAll
  <1>5. QED
    BY <1>1, <1>4 DEF PlaySound

\* One handler goes on.
LEMMA HandlerMoves ==
    ASSUME PlayTyped, NEW slot \in Slots, NEW h, Handles(h), Moves(slot, h)
    PROVE  /\ DOMAIN handlers' = Slots /\ handlers' = [s \in Slots |-> handlers'[s]]
           /\ \A s \in Slots : handlers'[s] = IF s = slot THEN h ELSE handlers[s]
           /\ \A s \in Slots : Handles(handlers'[s])
           /\ Pending' \subseteq Pending \cup IF h.at = "put" THEN {Written(h)} ELSE {}
  <1>1. DOMAIN handlers' = Slots /\ \A s \in Slots : handlers'[s] = IF s = slot THEN h ELSE handlers[s]
    BY DEF PlayTyped, Moves
  <1>2. handlers' = [s \in Slots |-> handlers'[s]]
    BY DEF PlayTyped, Moves
  <1>3. \A s \in Slots : Handles(handlers'[s])
    BY <1>1 DEF PlayTyped
  <1>4. Pending' \subseteq Pending \cup IF h.at = "put" THEN {Written(h)} ELSE {}
    BY <1>1 DEF Pending, Writing
  <1>5. QED
    BY <1>1, <1>2, <1>3, <1>4

LEMMA PressKept ==
    ASSUME PlaySound, NEW tab \in PlayTabs, NEW h, Handles(h), h.at # "put", Press(tab, h),
           UNCHANGED <<notes, shown, member>>,
           editing' \in [PlayTabs -> PlayNotes \cup {NoNote}]
    PROVE  PlaySound'
  <1>1. PICK slot \in Slots : Moves(slot, h)
    BY DEF Press
  <1>2. PlayTyped' /\ Pending' \subseteq Pending
    BY <1>1, HandlerMoves DEF PlaySound, PlayTyped
  <1>3. QED
    BY <1>2, NothingNew

LEMMA PlayTapped ==
    ASSUME PlaySound, NEW tab \in PlayTabs,
           Send(tab) \/ Paste(tab) \/ \E id \in shown[tab] : StartEdit(tab, id) \/ Forget(tab, id)
    PROVE  PlaySound'
  <1>1. PlayTyped
    BY DEF PlaySound
  <1>2. CASE Send(tab)
    <2> DEFINE h == IF editing[tab] = NoNote THEN [at |-> "add", kind |-> "text"]
                    ELSE [at |-> "replace", id |-> editing[tab]]
    <2>1. Handles(h) /\ h.at # "put"
      BY <1>1 DEF PlayTyped, Handles, Kinds
    <2>2. Press(tab, h) /\ UNCHANGED <<notes, shown, editing, member>>
      BY <1>2 DEF Send
    <2> HIDE DEF h
    <2>3. QED
      BY <1>1, <2>1, <2>2, PressKept DEF PlayTyped
  <1>3. CASE Paste(tab)
    <2> DEFINE h == [at |-> "add", kind |-> "image"]
    <2>1. Handles(h) /\ h.at # "put"
      BY DEF Handles, Kinds
    <2>2. Press(tab, h) /\ UNCHANGED <<notes, shown, editing, member>>
      BY <1>3 DEF Paste
    <2> HIDE DEF h
    <2>3. QED
      BY <1>1, <2>1, <2>2, PressKept DEF PlayTyped
  <1>4. ASSUME NEW id \in shown[tab], StartEdit(tab, id) PROVE PlaySound'
    <2>1. PlayTyped' /\ UNCHANGED <<notes, handlers>>
      BY <1>1, <1>4 DEF StartEdit, PlayTyped
    <2>2. Pending' = Pending
      BY <2>1 DEF Pending, Writing
    <2>3. QED
      BY <2>1, <2>2, NothingNew
  <1>5. ASSUME NEW id \in shown[tab], Forget(tab, id) PROVE PlaySound'
    <2> DEFINE h == [at |-> "delete", id |-> id]
    <2>1. Handles(h) /\ h.at # "put"
      BY <1>1 DEF PlayTyped, Handles
    <2>2. Press(tab, h) /\ UNCHANGED <<notes, shown, member>>
      BY <1>5 DEF Forget
    <2>3. editing' \in [PlayTabs -> PlayNotes \cup {NoNote}]
      BY <1>1, <1>5 DEF Forget, PlayTyped
    <2> HIDE DEF h
    <2>4. QED
      BY <2>1, <2>2, <2>3, PressKept
  <1>6. QED
    BY <1>2, <1>3, <1>4, <1>5

\* addPlayNote and addPlayImage: the only step that brings a new record, and it
\* found room for it.
LEMMA PlayAdds ==
    ASSUME PlaySound, NEW slot \in Slots, AddReads(slot)
    PROVE  PlaySound'
  <1>1. PlayTyped /\ UNCHANGED <<notes, shown, editing, member>>
    BY DEF PlaySound, AddReads
  <1>2. CASE Moves(slot, Quiet)
    <2>1. Handles(Quiet) /\ Quiet.at # "put"
      BY HandlerPlaces DEF Handles
    <2>2. PlayTyped' /\ Pending' \subseteq Pending
      BY <1>1, <1>2, <2>1, HandlerMoves DEF PlayTyped
    <2>3. QED
      BY <1>1, <2>2, NothingNew
  <1>3. ASSUME Room, NEW id \in PlayNotes \ Held,
               Moves(slot, [at |-> "put", id |-> id, kind |-> handlers[slot].kind, was |-> "add"])
        PROVE  PlaySound'
    <2> DEFINE h == [at |-> "put", id |-> id, kind |-> handlers[slot].kind, was |-> "add"]
    <2>1. Handles(h) /\ h.at = "put" /\ Written(h).id = id
      <3>1. handlers[slot].at = "add"
        BY DEF AddReads
      <3>2. handlers[slot].kind \in Kinds
        BY <1>1, <3>1, HandlerPlaces DEF PlayTyped
      <3>3. QED
        BY <3>2 DEF Handles, Written
    <2>2. PlayTyped' /\ Pending' \subseteq Pending \cup {Written(h)}
      <3> HIDE DEF h
      <3>1. Moves(slot, h)
        BY <1>3 DEF h
      <3>2. QED
        BY <1>1, <2>1, <3>1, HandlerMoves DEF PlayTyped
    <2>3. \A a \in notes \cup Pending : a.id # id
      <3>1. \A a \in notes : a.id \in Held
        BY DEF Held, Ids
      <3>2. ASSUME NEW a \in Pending PROVE a.id \in Held
        <4>1. PICK s \in Slots : handlers[s].at = "put" /\ a = Written(handlers[s])
          BY DEF Pending, Writing
        <4>2. "id" \in DOMAIN handlers[s] /\ a.id = handlers[s].id
          BY <1>1, <4>1, HandlerPlaces DEF PlayTyped, Written
        <4>3. QED
          BY <4>1, <4>2 DEF Held
      <3>3. QED
        BY <3>1, <3>2
    <2>4. OneKind'
      <3> HIDE DEF h
      <3>1. QED
        BY <1>1, <2>1, <2>2, <2>3 DEF PlaySound, OneKind
    <2>5. CapOfAll'
      <3>1. IsFiniteSet(notes)
        BY FS_Subset DEF PlaySound, CapOfAll
      <3>2. /\ IsFiniteSet(Pending') /\ Cardinality(Pending') <= Cardinality(Slots)
            /\ Cardinality(Pending') \in Nat
        <4>1. (IsFiniteSet(Pending) /\ Cardinality(Pending) <= Cardinality(Slots))'
          BY PendingFinite, PTL
        <4>2. QED
          BY <4>1, FS_CardinalityType
      <3>3. /\ IsFiniteSet(notes \cup Pending')
            /\ Cardinality(notes \cup Pending') =
                  Cardinality(notes) + Cardinality(Pending') - Cardinality(notes \cap Pending')
        BY <3>1, <3>2, FS_Union
      <3>4. Cardinality(notes \cap Pending') \in Nat
        BY <3>1, FS_Subset, FS_CardinalityType
      <3>5. Cardinality(notes) \in Nat /\ Cardinality(Slots) \in Nat /\ PlayCap \in Nat
        BY <3>1, PlayAssumption, FS_CardinalityType
      <3>6. Cardinality(notes) < PlayCap
        BY <1>3 DEF Room
      <3>7. Cardinality(notes \cup Pending') < PlayCap + Cardinality(Slots)
        BY <3>2, <3>3, <3>4, <3>5, <3>6
      <3>8. QED
        BY <1>1, <3>3, <3>7 DEF CapOfAll
    <2>6. QED
      BY <2>2, <2>4, <2>5 DEF PlaySound
  <1>4. QED
    BY <1>2, <1>3 DEF AddReads

\* Of the other steps a record is written that was stored or about to be.
LEMMA PlayWrites ==
    ASSUME PlaySound, NEW slot \in Slots,
           ReplaceReads(slot) \/ Put(slot) \/ Delete(slot) \/ List(slot)
    PROVE  PlaySound'
  <1>1. PlayTyped
    BY DEF PlaySound
  <1> DEFINE list == [at |-> "list"]
  <1>2. Handles(list) /\ list.at # "put" /\ Handles(Quiet) /\ Quiet.at # "put"
    BY HandlerPlaces DEF Handles
  <1> HIDE DEF list
  <1>3. CASE ReplaceReads(slot)
    <2> DEFINE put == [at |-> "put", id |-> handlers[slot].id, kind |-> "text", was |-> "replace"]
    <2>1. UNCHANGED <<notes, shown, editing, member>>
      BY <1>3 DEF ReplaceReads
    <2>2. handlers[slot].id \in PlayNotes
      BY <1>1, <1>3, HandlerPlaces DEF ReplaceReads, PlayTyped
    <2>3. \/ Moves(slot, Quiet)
          \/ Moves(slot, put) /\ Written(put) \in notes
      BY <1>3 DEF ReplaceReads, Written
    <2>4. Handles(put) /\ put.at = "put"
      BY <2>2 DEF Handles, Kinds
    <2> HIDE DEF put
    <2>5. PlayTyped' /\ Pending' \subseteq Pending \cup notes
      <3>1. CASE Moves(slot, Quiet)
        BY <1>1, <1>2, <2>1, <3>1, HandlerMoves DEF PlayTyped
      <3>2. CASE Moves(slot, put) /\ Written(put) \in notes
        BY <1>1, <2>1, <2>4, <3>2, HandlerMoves DEF PlayTyped
      <3>3. QED
        BY <2>3, <3>1, <3>2
    <2>6. QED
      BY <2>1, <2>5, NothingNew
  <1>4. CASE Put(slot)
    <2>1. Written(handlers[slot]) \in Pending /\ Written(handlers[slot]) \in Records
      BY <1>1, <1>4, HandlerPlaces DEF Put, PlayTyped, Pending, Writing
    <2>2. /\ notes' = notes \cup {Written(handlers[slot])}
          /\ Moves(slot, list) /\ UNCHANGED <<shown, member>>
      BY <1>4 DEF Put, Written, list
    <2>3. editing' \in [PlayTabs -> PlayNotes \cup {NoNote}]
      BY <1>1, <1>4 DEF Put, PlayTyped
    <2>4. PlayTyped' /\ Pending' \subseteq Pending
      BY <1>1, <1>2, <2>1, <2>2, <2>3, HandlerMoves DEF PlayTyped
    <2>5. QED
      BY <2>1, <2>2, <2>4, NothingNew
  <1>5. CASE Delete(slot)
    <2>1. notes' \subseteq notes /\ Moves(slot, list) /\ UNCHANGED <<shown, editing, member>>
      BY <1>5 DEF Delete, list
    <2>2. PlayTyped' /\ Pending' \subseteq Pending
      BY <1>1, <1>2, <2>1, HandlerMoves DEF PlayTyped
    <2>3. QED
      BY <2>1, <2>2, NothingNew
  <1>6. CASE List(slot)
    <2>1. Moves(slot, Quiet) /\ UNCHANGED <<notes, editing, member>>
      BY <1>6 DEF List
    <2>2. Ids \subseteq PlayNotes
      BY <1>1 DEF PlayTyped, Ids, Records
    <2>3. shown' \in [PlayTabs -> SUBSET PlayNotes]
      BY <1>1, <1>6, <2>2 DEF List, PlayTyped
    <2>4. PlayTyped' /\ Pending' \subseteq Pending
      BY <1>1, <1>2, <2>1, <2>3, HandlerMoves DEF PlayTyped
    <2>5. QED
      BY <2>1, <2>4, NothingNew
  <1>7. QED
    BY <1>3, <1>4, <1>5, <1>6

LEMMA PlayOpens ==
    ASSUME PlaySound, (\E t \in PlayTabs : Reload(t)) \/ Join \/ Discard
    PROVE  PlaySound'
  <1>1. PlayTyped
    BY DEF PlaySound
  <1>2. ASSUME NEW tab \in PlayTabs, Reload(tab) PROVE PlaySound'
    <2>1. \A s \in Slots : handlers'[s] = IF s[1] = tab THEN Quiet ELSE handlers[s]
      BY <1>2 DEF Reload
    <2>2. Handles(Quiet) /\ Quiet.at # "put"
      BY HandlerPlaces DEF Handles
    <2>3. /\ DOMAIN handlers' = Slots /\ handlers' = [s \in Slots |-> handlers'[s]]
          /\ \A s \in Slots : Handles(handlers'[s])
      BY <1>1, <1>2, <2>1, <2>2 DEF Reload, PlayTyped
    <2>4. Ids \subseteq PlayNotes
      BY <1>1 DEF PlayTyped, Ids, Records
    <2>5. /\ shown' \in [PlayTabs -> SUBSET PlayNotes]
          /\ editing' \in [PlayTabs -> PlayNotes \cup {NoNote}]
          /\ UNCHANGED <<notes, member>>
      BY <1>1, <1>2, <2>4 DEF Reload, PlayTyped
    <2>6. PlayTyped'
      BY <1>1, <2>3, <2>5 DEF PlayTyped
    <2>7. Pending' \subseteq Pending
      BY <2>1, <2>2 DEF Pending, Writing
    <2>8. QED
      BY <2>5, <2>6, <2>7, NothingNew
  <1>3. CASE Join \/ Discard
    <2>1. PlayTyped' /\ notes' \subseteq notes
      BY <1>1, <1>3 DEF Join, Discard, PlayTyped
    <2>2. Pending' = Pending
      BY <1>3 DEF Join, Discard, Pending, Writing
    <2>3. QED
      BY <2>1, <2>2, NothingNew
  <1>4. QED
    BY <1>2, <1>3

LEMMA PlayKept == PlaySound /\ [PlayNext]_playVars => PlaySound'
  <1>1. PlaySound /\ PlayNext => PlaySound'
    BY PlayTapped, PlayAdds, PlayWrites, PlayOpens DEF PlayNext
  <1>2. ASSUME PlaySound, UNCHANGED playVars PROVE PlaySound'
    <2>1. PlayTyped' /\ notes' = notes
      BY <1>2 DEF playVars, PlaySound, PlayTyped
    <2>2. Pending' = Pending
      BY <1>2 DEF playVars, Pending, Writing
    <2>3. QED
      BY <1>2, <2>1, <2>2, NothingNew
  <1>3. QED
    BY <1>1, <1>2

LEMMA PlayIsSound == PlaySpec => []PlaySound
  BY PlayBegins, PlayKept, PTL DEF PlaySpec

\* The notes, the boards and the composers are typed, a handler is at one of its
\* places, and no two notes have one id.
THEOREM PlayTypeCorrect == PlaySpec => []PlayOK
  <1>1. ASSUME PlaySound PROVE PlayOK
    <2> DEFINE f == [n \in notes |-> n.id]
    <2>1. IsFiniteSet(notes)
      BY <1>1, FS_Subset DEF PlaySound, CapOfAll
    <2>2. f \in Surjection(notes, Ids)
      BY DEF Surjection, Ids
    <2>3. f \in Injection(notes, Ids)
      BY <1>1, <2>2 DEF Surjection, Injection, IsInjective, PlaySound, OneKind
    <2> HIDE DEF f
    <2>4. Cardinality(Ids) = Cardinality(notes)
      BY <2>1, <2>2, <2>3, FS_Surjection
    <2>5. \A s \in Slots : handlers[s].at \in {"quiet", "add", "replace", "put", "delete", "list"}
      BY <1>1, HandlerPlaces DEF PlaySound, PlayTyped
    <2>6. QED
      BY <1>1, <2>4, <2>5 DEF PlaySound, PlayTyped, Records, Kinds, PlayOK
  <1>2. QED
    BY <1>1, PlayIsSound, PTL

\* addPlayNote checks the cap before it writes: the notes pass it by less than
\* the handlers that may be under way, however reads and writes interleave.
THEOREM CapHolds == PlaySpec => []CapNearlyHeld
  <1>1. ASSUME PlaySound PROVE CapNearlyHeld
    <2>1. IsFiniteSet(notes) /\ Cardinality(notes) <= Cardinality(notes \cup Pending)
      BY <1>1, FS_Subset DEF PlaySound, CapOfAll
    <2>2. /\ Cardinality(notes) \in Nat /\ Cardinality(notes \cup Pending) \in Nat
          /\ PlayCap + Cardinality(Slots) \in Nat
      BY <1>1, <2>1, PlayAssumption, FS_CardinalityType DEF PlaySound, CapOfAll
    <2>3. QED
      BY <1>1, <2>1, <2>2 DEF PlaySound, CapOfAll, CapNearlyHeld
  <1>2. QED
    BY <1>1, PlayIsSound, PTL

-----------------------------------------------------------------------------
(* Updates: a chip is for a worker that came after the page.               *)

Versions == 0 .. MaxVersion

TabRecord ==
    [controller : Versions, watching : BOOLEAN, had : BOOLEAN, armed : BOOLEAN,
     watched : SUBSET Versions, ready : BOOLEAN, asked : Versions, since : Versions,
     reloading : BOOLEAN, flag : BOOLEAN, took : BOOLEAN, loads : Nat]

\* The worker that is active came first, the one that installs last.
InOrder ==
    /\ deployed \in 1 .. MaxVersion
    /\ installing \in 0 .. deployed /\ waiting \in 0 .. deployed /\ active \in 0 .. deployed
    /\ waiting # 0 => active < waiting
    /\ installing # 0 => active < installing /\ waiting < installing

\* What a page knows.
TabFits(tab) ==
    /\ tab.controller <= active /\ tab.since <= active
    /\ tab.asked <= Standing
    /\ tab.loads <= MaxLoads
    /\ \A v \in tab.watched : 0 < v /\ v <= deployed
    /\ tab.had => tab.since # 0
    /\ tab.loads # 0 => tab.controller = active
    /\ tab.watching => tab.loads # 0
    /\ ~tab.watching => ~tab.armed /\ tab.watched = {} /\ ~tab.ready
    /\ tab.ready => tab.had /\ Standing > tab.since

\* A page that was reloaded for a worker watches only workers found after it.
HeardSince(tab) ==
    tab.took /\ (tab.armed \/ tab.watched # {} \/ tab.ready) /\ ~tab.reloading
        => \E v \in tab.watched : v > tab.asked

UpdatesSound ==
    /\ InOrder
    /\ tabs \in [UpdateTabs -> TabRecord]
    /\ \A t \in UpdateTabs : TabFits(tabs[t]) /\ HeardSince(tabs[t])

LEMMA StandingIs ==
    ASSUME InOrder
    PROVE  /\ Standing \in 0 .. deployed /\ Standing \in Nat
           /\ active <= Standing /\ waiting <= Standing
  BY UpdatesAssumption DEF InOrder, Standing

LEMMA VersionsAre ==
    /\ 0 \in Versions
    /\ InOrder => /\ 0 .. deployed \subseteq Versions
                  /\ installing \in Versions /\ waiting \in Versions /\ active \in Versions
  BY UpdatesAssumption DEF Versions, InOrder

LEMMA UpdateBegins == UpdateInit => UpdatesSound
  <1> SUFFICES ASSUME UpdateInit PROVE UpdatesSound
    OBVIOUS
  <1>1. InOrder
    BY UpdatesAssumption DEF UpdateInit, InOrder
  <1>2. Standing = active /\ active \in Versions /\ active \in Nat
    BY <1>1, VersionsAre, UpdatesAssumption DEF UpdateInit, Standing, InOrder
  <1>3. tabs = [t \in UpdateTabs |-> Fresh]
    BY DEF UpdateInit
  <1>4. Fresh \in TabRecord
    BY <1>2, VersionsAre DEF TabRecord, Fresh
  <1>5. ASSUME NEW t \in UpdateTabs PROVE TabFits(tabs[t]) /\ HeardSince(tabs[t])
    BY <1>2, <1>3, UpdatesAssumption DEF TabFits, HeardSince, Fresh
  <1>6. QED
    BY <1>1, <1>3, <1>4, <1>5 DEF UpdatesSound

\* Workers move on, and pages hear of it.
LEMMA WorkersMove ==
    ASSUME UpdatesSound, Deploy \/ Found \/ Installed \/ InstallFails \/ Activated
    PROVE  /\ InOrder' /\ Standing' >= Standing /\ active' >= active /\ deployed' >= deployed
           /\ Standing' \in Nat /\ Standing \in Nat
           /\ active \in Nat /\ active' \in Nat /\ deployed \in Nat /\ deployed' \in Nat
  <1>1. InOrder
    BY DEF UpdatesSound
  <1>2. InOrder'
    <2>1. CASE Deploy
      BY <1>1, <2>1, UpdatesAssumption DEF Deploy, InOrder
    <2>2. CASE Found
      BY <1>1, <2>2, UpdatesAssumption DEF Found, InOrder, Standing
    <2>3. CASE Installed
      BY <1>1, <2>3, UpdatesAssumption DEF Installed, InOrder
    <2>4. CASE Activated
      <3>1. /\ waiting # 0 /\ active' = waiting /\ waiting' = 0
            /\ deployed' = deployed /\ installing' = installing
        BY <2>4 DEF Activated
      <3>2. QED
        BY <1>1, <3>1, UpdatesAssumption DEF InOrder
    <2>5. CASE InstallFails
      BY <1>1, <2>5, UpdatesAssumption DEF InstallFails, InOrder
    <2>6. QED
      BY <2>1, <2>2, <2>3, <2>4, <2>5
  <1>3. \/ deployed' = deployed + 1 /\ UNCHANGED <<waiting, active>>
        \/ UNCHANGED <<deployed, waiting, active>>
        \/ waiting = 0 /\ waiting' = installing /\ UNCHANGED <<deployed, active>>
        \/ waiting # 0 /\ active' = waiting /\ waiting' = 0 /\ deployed' = deployed
    BY DEF Deploy, Found, Installed, InstallFails, Activated
  <1>4. QED
    BY <1>1, <1>2, <1>3, UpdatesAssumption DEF InOrder, Standing

\* What a page keeps when it hears of a worker.
Keeps(t) ==
    /\ tabs'[t] \in TabRecord
    /\ tabs'[t].since = tabs[t].since /\ tabs'[t].asked = tabs[t].asked
    /\ tabs'[t].loads = tabs[t].loads
    /\ tabs'[t].had <=> tabs[t].had
    /\ tabs'[t].watching <=> tabs[t].watching
    /\ tabs'[t].reloading <=> tabs[t].reloading
    /\ tabs'[t].took <=> tabs[t].took

LEMMA PageOf ==
    ASSUME UpdatesSound, NEW t \in UpdateTabs
    PROVE  /\ InOrder /\ tabs[t] \in TabRecord /\ TabFits(tabs[t]) /\ HeardSince(tabs[t])
           /\ Standing \in Nat /\ active \in Nat /\ deployed \in Nat
           /\ tabs[t].controller \in Nat /\ tabs[t].since \in Nat /\ tabs[t].asked \in Nat
           /\ tabs[t].loads \in Nat /\ tabs[t].watched \subseteq Nat
  <1>1. InOrder /\ tabs[t] \in TabRecord /\ TabFits(tabs[t]) /\ HeardSince(tabs[t])
    BY DEF UpdatesSound
  <1>2. Standing \in Nat /\ active \in Nat /\ deployed \in Nat
    BY <1>1, StandingIs, UpdatesAssumption DEF InOrder
  <1>3. QED
    BY <1>1, <1>2, UpdatesAssumption DEF TabRecord, Versions

\* updatefound: a page that watches hears of a version after all that it knew.
LEMMA FoundHeard ==
    ASSUME UpdatesSound, Found, NEW t \in UpdateTabs
    PROVE  /\ Keeps(t) /\ tabs'[t].controller = tabs[t].controller
           /\ tabs'[t].watched \subseteq tabs[t].watched \cup {deployed}
           /\ tabs'[t].ready <=> tabs[t].ready
           /\ tabs[t].watching => deployed \in tabs'[t].watched
           /\ ~tabs[t].watching => tabs'[t] = tabs[t]
           /\ Standing < deployed
  <1>1. deployed \in Versions /\ Standing < deployed
    BY UpdatesAssumption DEF UpdatesSound, InOrder, Versions, Found
  <1>3. tabs'[t] = Watches(tabs[t], deployed)
    BY DEF Found
  <1>4. tabs[t] \in TabRecord
    BY DEF UpdatesSound
  <1>5. CASE ~tabs[t].watching
    <2>1. tabs'[t] = tabs[t]
      BY <1>3, <1>5 DEF Watches
    <2>2. QED
      BY <1>1, <1>4, <1>5, <2>1 DEF Keeps
  <1>6. CASE tabs[t].watching
    <2> DEFINE armed == [tabs[t] EXCEPT !.armed = TRUE]
               next == [armed EXCEPT !.watched = armed.watched \cup {deployed}, !.ready = armed.ready]
    <2>1. tabs'[t] = WatchWorker(armed, deployed, "installing")
      BY <1>3, <1>6 DEF Watches
    <2>2. armed \in TabRecord
      BY <1>4 DEF TabRecord
    <2>3. armed.ready \in BOOLEAN
      BY <2>2 DEF TabRecord
    <2>4. (armed.ready \/ ("installing" # "installing" /\ Offered(armed))) = armed.ready
      BY <2>3
    <2>5. WatchWorker(armed, deployed, "installing") = next
      BY <2>4 DEF WatchWorker
    <2>6. next \in TabRecord
      BY <1>1, <2>2 DEF TabRecord
    <2>7. /\ next.since = tabs[t].since /\ next.asked = tabs[t].asked
          /\ next.loads = tabs[t].loads /\ next.controller = tabs[t].controller
          /\ next.watched = tabs[t].watched \cup {deployed}
          /\ next.had = tabs[t].had /\ next.watching = tabs[t].watching
          /\ next.reloading = tabs[t].reloading /\ next.ready = tabs[t].ready
          /\ next.took = tabs[t].took
      BY <1>4 DEF TabRecord
    <2> HIDE DEF next
    <2>8. QED
      BY <1>1, <1>6, <2>1, <2>5, <2>6, <2>7 DEF Keeps
  <1>7. QED
    BY <1>5, <1>6

\* A version that was installed or became active is offered to the pages that
\* watched it, and to those that wait for any.
LEMMA WorkerHeard ==
    ASSUME UpdatesSound, Installed \/ Activated, NEW t \in UpdateTabs
    PROVE  /\ Keeps(t)
           /\ tabs'[t].watched = tabs[t].watched
           /\ tabs'[t].armed <=> tabs[t].armed
           /\ tabs'[t].controller = IF Activated /\ tabs[t].loads # 0 THEN active'
                                    ELSE tabs[t].controller
           /\ tabs'[t].ready /\ ~tabs[t].ready =>
                 /\ tabs[t].watching /\ tabs[t].had /\ Standing' > active
                 /\ tabs[t].armed \/ tabs[t].watched # {}
  <1>1. InOrder /\ tabs[t] \in TabRecord
    BY DEF UpdatesSound
  <1>2. CASE Installed
    <2> DEFINE offer == tabs[t].ready \/ (tabs[t].watching /\ Offered(tabs[t])
                                          /\ installing \in tabs[t].watched)
    <2>1. tabs'[t] = [tabs[t] EXCEPT !.ready = offer]
      BY <1>2 DEF Installed
    <2>2. offer \in BOOLEAN /\ (offer /\ ~tabs[t].ready =>
             tabs[t].watching /\ tabs[t].had /\ tabs[t].watched # {})
      BY <1>1 DEF TabRecord, Offered
    <2>3. Standing' > active /\ installing # 0 /\ active' = active /\ ~Activated
      BY <1>1, <1>2, UpdatesAssumption DEF Installed, Activated, InOrder, Standing
    <2> HIDE DEF offer
    <2>4. tabs'[t] \in TabRecord
      BY <1>1, <2>1, <2>2 DEF TabRecord
    <2>5. /\ tabs'[t].since = tabs[t].since /\ tabs'[t].asked = tabs[t].asked
          /\ tabs'[t].loads = tabs[t].loads /\ tabs'[t].controller = tabs[t].controller
          /\ tabs'[t].watched = tabs[t].watched
          /\ tabs'[t].had = tabs[t].had /\ tabs'[t].watching = tabs[t].watching
          /\ tabs'[t].armed = tabs[t].armed
          /\ tabs'[t].reloading = tabs[t].reloading /\ tabs'[t].ready = offer
          /\ tabs'[t].took = tabs[t].took
      BY <1>1, <2>1 DEF TabRecord
    <2>6. QED
      BY <2>2, <2>3, <2>4, <2>5 DEF Keeps
  <1>3. CASE Activated
    <2> DEFINE offer == tabs[t].ready \/ (tabs[t].watching /\ Offered(tabs[t])
                                          /\ (tabs[t].armed \/ waiting \in tabs[t].watched))
    <2>1. tabs'[t] = IF tabs[t].loads = 0 THEN tabs[t]
                     ELSE [tabs[t] EXCEPT !.controller = waiting, !.ready = offer]
      BY <1>3 DEF Activated
    <2>2. offer \in BOOLEAN /\ (offer /\ ~tabs[t].ready =>
             /\ tabs[t].watching /\ tabs[t].had
             /\ tabs[t].armed \/ tabs[t].watched # {})
      BY <1>1 DEF TabRecord, Offered
    <2>3. Standing' > active /\ active' = waiting /\ waiting \in Versions
      <3>1. waiting # 0 /\ active' = waiting
        BY <1>3 DEF Activated
      <3>2. Standing' > active
        BY <1>1, <1>3, <3>1, UpdatesAssumption DEF InOrder, Activated, Standing
      <3>3. QED
        BY <1>1, <3>1, <3>2, VersionsAre
    <2> HIDE DEF offer
    <2>4. tabs'[t] \in TabRecord
      BY <1>1, <2>1, <2>2, <2>3 DEF TabRecord
    <2>5. CASE tabs[t].loads = 0
      BY <1>1, <1>3, <2>1, <2>3, <2>5 DEF Keeps
    <2>6. CASE tabs[t].loads # 0
      <3>1. /\ tabs'[t].since = tabs[t].since /\ tabs'[t].asked = tabs[t].asked
            /\ tabs'[t].loads = tabs[t].loads /\ tabs'[t].controller = waiting
            /\ tabs'[t].watched = tabs[t].watched
            /\ tabs'[t].had = tabs[t].had /\ tabs'[t].watching = tabs[t].watching
            /\ tabs'[t].armed = tabs[t].armed
            /\ tabs'[t].reloading = tabs[t].reloading /\ tabs'[t].ready = offer
            /\ tabs'[t].took = tabs[t].took
        BY <1>1, <2>1, <2>6 DEF TabRecord
      <3>2. QED
        BY <1>3, <2>2, <2>3, <2>4, <2>6, <3>1 DEF Keeps
    <2>7. QED
      BY <2>5, <2>6
  <1>4. QED
    BY <1>2, <1>3

LEMMA WorkersKeep ==
    ASSUME UpdatesSound, Deploy \/ Found \/ Installed \/ InstallFails \/ Activated
    PROVE  UpdatesSound'
  <1>1. /\ InOrder' /\ Standing' >= Standing /\ active' >= active /\ deployed' >= deployed
        /\ Standing' \in Nat /\ Standing \in Nat
        /\ active \in Nat /\ active' \in Nat /\ deployed \in Nat /\ deployed' \in Nat
    BY WorkersMove
  <1>2. ASSUME NEW t \in UpdateTabs
        PROVE  tabs'[t] \in TabRecord /\ TabFits(tabs[t])' /\ HeardSince(tabs[t])'
    <2>1. /\ TabFits(tabs[t]) /\ HeardSince(tabs[t]) /\ tabs[t] \in TabRecord
          /\ tabs[t].controller \in Nat /\ tabs[t].since \in Nat /\ tabs[t].asked \in Nat
          /\ tabs[t].loads \in Nat /\ tabs[t].watched \subseteq Nat
      BY PageOf
    <2>2. CASE Deploy \/ InstallFails
      <3>1. tabs'[t] = tabs[t] /\ active' = active
        BY <2>2 DEF Deploy, InstallFails
      <3>2. TabFits(tabs[t])' /\ HeardSince(tabs[t])'
        BY <1>1, <2>1, <3>1, UpdatesAssumption DEF TabFits, HeardSince
      <3>3. QED
        BY <2>1, <3>1, <3>2
    <2>3. CASE Found
      <3>1. /\ Keeps(t) /\ tabs'[t].controller = tabs[t].controller
            /\ tabs'[t].watched \subseteq tabs[t].watched \cup {deployed}
            /\ tabs'[t].ready <=> tabs[t].ready
            /\ ~tabs[t].watching => tabs'[t] = tabs[t]
            /\ tabs[t].watching => deployed \in tabs'[t].watched
            /\ Standing < deployed /\ deployed' = deployed /\ active' = active
        BY <2>3, FoundHeard DEF Found
      <3>2. TabFits(tabs[t])'
        BY <1>1, <2>1, <3>1, UpdatesAssumption DEF TabFits, Keeps
      <3>3. HeardSince(tabs[t])'
        <4>1. CASE tabs[t].watching
          BY <1>1, <2>1, <3>1, <4>1 DEF HeardSince, TabFits, Keeps
        <4>2. CASE ~tabs[t].watching
          BY <1>1, <2>1, <3>1, <4>2 DEF HeardSince, TabFits, Keeps
        <4>3. QED
          BY <4>1, <4>2
      <3>4. QED
        BY <3>1, <3>2, <3>3 DEF Keeps
    <2>4. CASE Installed \/ Activated
      <3>1. /\ Keeps(t)
            /\ tabs'[t].watched = tabs[t].watched
            /\ tabs'[t].armed <=> tabs[t].armed
            /\ tabs'[t].controller = IF Activated /\ tabs[t].loads # 0 THEN active'
                                     ELSE tabs[t].controller
            /\ tabs'[t].ready /\ ~tabs[t].ready =>
                  /\ tabs[t].watching /\ tabs[t].had /\ Standing' > active
                  /\ tabs[t].armed \/ tabs[t].watched # {}
        BY <2>4, WorkerHeard
      <3>2. Activated \/ active' = active
        BY <2>4 DEF Installed
      <3>3. deployed' = deployed
        BY <2>4 DEF Installed, Activated
      <3>4. TabFits(tabs[t])'
        BY <1>1, <2>1, <3>1, <3>2, <3>3, UpdatesAssumption DEF TabFits, Keeps
      <3>5. HeardSince(tabs[t])'
        BY <1>1, <2>1, <3>1 DEF HeardSince, TabFits, Keeps
      <3>6. QED
        BY <3>1, <3>4, <3>5 DEF Keeps
    <2>5. QED
      BY <2>2, <2>3, <2>4
  <1>3. tabs' \in [UpdateTabs -> TabRecord]
    <2>1. DOMAIN tabs' = UpdateTabs /\ tabs' = [t \in UpdateTabs |-> tabs'[t]]
      BY DEF UpdatesSound, Deploy, Found, Installed, InstallFails, Activated
    <2>2. QED
      BY <1>2, <2>1
  <1>4. QED
    BY <1>1, <1>2, <1>3 DEF UpdatesSound

\* A step of one page leaves the workers as they are.
LEMMA PageMoves ==
    ASSUME UpdatesSound, NEW t \in UpdateTabs, NEW next \in TabRecord,
           TabFits(next), HeardSince(next),
           tabs' = [tabs EXCEPT ![t] = next],
           UNCHANGED <<deployed, installing, waiting, active>>
    PROVE  UpdatesSound'
  <1>1. InOrder' /\ Standing' = Standing
    BY DEF UpdatesSound, InOrder, Standing
  <1>2. tabs' \in [UpdateTabs -> TabRecord] /\ tabs'[t] = next
    BY DEF UpdatesSound
  <1>3. ASSUME NEW u \in UpdateTabs PROVE TabFits(tabs[u])' /\ HeardSince(tabs[u])'
    <2>1. tabs'[u] = next \/ tabs'[u] = tabs[u]
      BY DEF UpdatesSound
    <2>2. TabFits(tabs'[u]) /\ HeardSince(tabs'[u])
      BY <2>1 DEF UpdatesSound
    <2>3. TabFits(tabs[u])'
      BY <1>1, <2>2 DEF TabFits
    <2>4. HeardSince(tabs[u])'
      BY <1>1, <2>2 DEF HeardSince
    <2>5. QED
      BY <2>3, <2>4
  <1>4. QED
    BY <1>1, <1>2, <1>3 DEF UpdatesSound

LEMMA PageLoads ==
    ASSUME UpdatesSound, NEW t \in UpdateTabs, Load(t)
    PROVE  UpdatesSound'
  <1> DEFINE next == Loaded(tabs[t])
  <1>1. /\ InOrder /\ tabs[t] \in TabRecord /\ TabFits(tabs[t])
        /\ Standing \in Nat /\ active \in Nat /\ tabs[t].loads \in Nat
    BY PageOf
  <1>2. tabs[t].loads < MaxLoads /\ UNCHANGED <<deployed, installing, waiting, active>>
        /\ tabs' = [tabs EXCEPT ![t] = next]
    BY DEF Load, UpdatesSound
  <1>3. Fresh \in TabRecord
    BY <1>1, VersionsAre DEF Fresh, TabRecord
  <1>4. next \in TabRecord
    <2>1. tabs[t].asked \in Versions /\ tabs[t].flag \in BOOLEAN /\ tabs[t].loads + 1 \in Nat
      BY <1>1 DEF TabRecord
    <2>2. ASSUME NEW a \in Versions, NEW f \in BOOLEAN, NEW n \in Nat
          PROVE  [Fresh EXCEPT !.asked = a, !.flag = f, !.loads = n] \in TabRecord
      BY <1>3 DEF TabRecord
    <2>3. QED
      BY <2>1, <2>2 DEF Loaded
  <1>5. /\ next.controller = active /\ next.since = 0 /\ next.asked = tabs[t].asked
        /\ next.loads = tabs[t].loads + 1 /\ next.watched = {}
        /\ ~next.watching /\ ~next.had /\ ~next.armed /\ ~next.ready /\ ~next.took
    <2>1. Fresh.controller = active /\ Fresh.since = 0 /\ Fresh.watched = {}
      BY DEF Fresh
    <2>2. ~Fresh.watching /\ ~Fresh.had /\ ~Fresh.armed /\ ~Fresh.ready /\ ~Fresh.took
      BY DEF Fresh
    <2>3. /\ next.controller = Fresh.controller /\ next.since = Fresh.since
          /\ next.asked = tabs[t].asked /\ next.loads = tabs[t].loads + 1
          /\ next.watched = Fresh.watched /\ next.watching = Fresh.watching
          /\ next.had = Fresh.had /\ next.armed = Fresh.armed /\ next.ready = Fresh.ready
          /\ next.took = Fresh.took
      BY <1>3 DEF Loaded, TabRecord
    <2>4. QED
      BY <2>1, <2>2, <2>3
  <1> HIDE DEF next
  <1>6. TabFits(next)
    BY <1>1, <1>2, <1>5, UpdatesAssumption DEF TabFits
  <1>7. HeardSince(next)
    BY <1>5 DEF HeardSince
  <1>8. QED
    BY <1>2, <1>4, <1>6, <1>7, PageMoves

\* The tap, and a page that comes back.
LEMMA PageTapped ==
    ASSUME UpdatesSound, NEW t \in UpdateTabs, Tap(t) \/ Restore(t)
    PROVE  UpdatesSound'
  <1>1. /\ InOrder /\ tabs[t] \in TabRecord /\ TabFits(tabs[t]) /\ HeardSince(tabs[t])
        /\ Standing \in Nat /\ Standing \in Versions
    BY PageOf, StandingIs, VersionsAre
  <1>2. CASE Tap(t)
    <2> DEFINE next == [tabs[t] EXCEPT !.flag = TRUE, !.reloading = TRUE, !.asked = Standing]
    <2>1. tabs' = [tabs EXCEPT ![t] = next] /\ UNCHANGED <<deployed, installing, waiting, active>>
      BY <1>2 DEF Tap, UpdatesSound
    <2>2. next \in TabRecord
      BY <1>1 DEF TabRecord
    <2>3. /\ next.controller = tabs[t].controller /\ next.since = tabs[t].since
          /\ next.asked = Standing /\ next.loads = tabs[t].loads
          /\ next.watched = tabs[t].watched /\ next.watching = tabs[t].watching
          /\ next.had = tabs[t].had /\ next.armed = tabs[t].armed /\ next.ready = tabs[t].ready
          /\ next.reloading
      BY <1>1 DEF TabRecord
    <2> HIDE DEF next
    <2>4. TabFits(next) /\ HeardSince(next)
      BY <1>1, <2>3 DEF TabFits, HeardSince
    <2>5. QED
      BY <2>1, <2>2, <2>4, PageMoves
  <1>3. CASE Restore(t)
    <2> DEFINE next == [tabs[t] EXCEPT !.ready = FALSE]
    <2>1. tabs' = [tabs EXCEPT ![t] = next] /\ UNCHANGED <<deployed, installing, waiting, active>>
      BY <1>3 DEF Restore, UpdatesSound
    <2>2. next \in TabRecord
      BY <1>1 DEF TabRecord
    <2>3. /\ next.controller = tabs[t].controller /\ next.since = tabs[t].since
          /\ next.asked = tabs[t].asked /\ next.loads = tabs[t].loads
          /\ next.watched = tabs[t].watched /\ next.watching = tabs[t].watching
          /\ next.had = tabs[t].had /\ next.armed = tabs[t].armed /\ ~next.ready
          /\ next.reloading = tabs[t].reloading /\ next.took = tabs[t].took
      BY <1>1 DEF TabRecord
    <2> HIDE DEF next
    <2>4. TabFits(next) /\ HeardSince(next)
      BY <1>1, <2>3 DEF TabFits, HeardSince
    <2>5. QED
      BY <2>1, <2>2, <2>4, PageMoves
  <1>4. QED
    BY <1>2, <1>3

\* watchWorker and watchSwUpdate leave all of a page but what it watches.
Alike(one, two) ==
    /\ one.controller = two.controller /\ one.since = two.since /\ one.asked = two.asked
    /\ one.loads = two.loads
    /\ one.had <=> two.had
    /\ one.watching <=> two.watching
    /\ one.reloading <=> two.reloading
    /\ one.took <=> two.took

LEMMA WorkerWatched ==
    ASSUME NEW tab \in TabRecord, NEW worker \in Versions, NEW state
    PROVE  LET next == WatchWorker(tab, worker, state)
           IN  /\ next \in TabRecord /\ Alike(next, tab)
               /\ next.watched = tab.watched \cup {worker}
               /\ next.armed <=> tab.armed
               /\ next.ready => tab.ready \/ (state # "installing" /\ tab.had)
  <1> DEFINE next == WatchWorker(tab, worker, state)
             offer == tab.ready \/ (state # "installing" /\ Offered(tab))
  <1>1. next = [tab EXCEPT !.watched = tab.watched \cup {worker}, !.ready = offer]
    BY DEF WatchWorker
  <1>2. offer \in BOOLEAN /\ (offer => tab.ready \/ (state # "installing" /\ tab.had))
    BY DEF TabRecord, Offered
  <1> HIDE DEF offer, next
  <1>3. next \in TabRecord
    BY <1>1, <1>2 DEF TabRecord
  <1>4. /\ next.controller = tab.controller /\ next.since = tab.since
        /\ next.asked = tab.asked /\ next.loads = tab.loads
        /\ next.had = tab.had /\ next.watching = tab.watching
        /\ next.reloading = tab.reloading /\ next.armed = tab.armed
        /\ next.took = tab.took
        /\ next.watched = tab.watched \cup {worker} /\ next.ready = offer
    BY <1>1 DEF TabRecord
  <1>5. QED
    BY <1>2, <1>3, <1>4 DEF Alike, next

LEMMA WatchesFrom ==
    ASSUME InOrder, NEW tab \in TabRecord
    PROVE  LET next == WatchFrom(tab)
           IN  /\ next \in TabRecord /\ Alike(next, tab)
               /\ next.watched \subseteq tab.watched \cup ({waiting, installing} \ {0})
               /\ tab.flag => next.watched = tab.watched /\ ~next.armed
               /\ next.ready => tab.ready \/ (tab.had /\ waiting # 0 /\ ~tab.flag)
  <1> DEFINE armed == [tab EXCEPT !.armed = ~tab.flag]
             one == IF waiting = 0 THEN armed ELSE WatchWorker(armed, waiting, "installed")
             two == IF installing = 0 THEN one ELSE WatchWorker(one, installing, "installing")
  <1>1. waiting \in Versions /\ installing \in Versions
    BY VersionsAre
  <1>2. WatchFrom(tab) = IF tab.flag THEN armed ELSE two
    BY DEF WatchFrom
  <1>3. /\ armed \in TabRecord /\ Alike(armed, tab) /\ armed.watched = tab.watched
        /\ tab.flag => ~armed.armed
        /\ armed.ready <=> tab.ready
    BY DEF TabRecord, Alike
  <1> HIDE DEF armed
  <1>4. /\ one \in TabRecord /\ Alike(one, tab)
        /\ one.watched \subseteq tab.watched \cup ({waiting} \ {0})
        /\ one.ready => tab.ready \/ (tab.had /\ waiting # 0)
    <2>1. CASE waiting = 0
      BY <1>3, <2>1
    <2>2. CASE waiting # 0
      BY <1>1, <1>3, <2>2, WorkerWatched DEF Alike
    <2>3. QED
      BY <2>1, <2>2
  <1> HIDE DEF one
  <1>5. /\ two \in TabRecord /\ Alike(two, tab)
        /\ two.watched \subseteq tab.watched \cup ({waiting, installing} \ {0})
        /\ two.ready => tab.ready \/ (tab.had /\ waiting # 0)
    <2>1. CASE installing = 0
      BY <1>4, <2>1
    <2>2. CASE installing # 0
      BY <1>1, <1>4, <2>2, WorkerWatched DEF Alike
    <2>3. QED
      BY <2>1, <2>2
  <1> HIDE DEF two
  <1>6. QED
    BY <1>2, <1>3, <1>5

LEMMA PageRegisters ==
    ASSUME UpdatesSound, NEW t \in UpdateTabs, WatchSwUpdate(t)
    PROVE  UpdatesSound'
  <1> DEFINE had == [tabs[t] EXCEPT !.watching = TRUE, !.had = tabs[t].controller # 0,
                                    !.since = tabs[t].controller, !.took = tabs[t].flag]
             from == WatchFrom(had)
             next == [from EXCEPT !.flag = FALSE]
  <1>1. /\ InOrder /\ tabs[t] \in TabRecord /\ TabFits(tabs[t]) /\ HeardSince(tabs[t])
        /\ Standing \in Nat /\ active \in Nat /\ deployed \in Nat
        /\ tabs[t].controller \in Nat /\ tabs[t].asked \in Nat
        /\ active <= Standing /\ waiting <= Standing
    BY PageOf, StandingIs
  <1>2. /\ tabs[t].loads # 0 /\ ~tabs[t].watching /\ tabs[t].loads \in Nat
        /\ tabs' = [tabs EXCEPT ![t] = next]
        /\ UNCHANGED <<deployed, installing, waiting, active>>
    BY <1>1 DEF WatchSwUpdate, TabRecord
  <1>3. /\ had \in TabRecord /\ had.watching /\ (had.had <=> tabs[t].controller # 0)
        /\ had.since = tabs[t].controller /\ had.controller = tabs[t].controller
        /\ had.asked = tabs[t].asked /\ (had.took <=> tabs[t].flag)
        /\ had.loads = tabs[t].loads /\ had.watched = tabs[t].watched
        /\ had.ready <=> tabs[t].ready
        /\ had.flag <=> tabs[t].flag
    <2>1. /\ tabs[t].controller \in Versions /\ (tabs[t].controller # 0) \in BOOLEAN
          /\ tabs[t].flag \in BOOLEAN
      BY <1>1 DEF TabRecord
    <2>2. QED
      BY <1>1, <2>1 DEF TabRecord
  <1> HIDE DEF had
  <1>4. /\ from \in TabRecord /\ Alike(from, had)
        /\ from.watched \subseteq had.watched \cup ({waiting, installing} \ {0})
        /\ had.flag => from.watched = had.watched /\ ~from.armed
        /\ from.ready => had.ready \/ (had.had /\ waiting # 0 /\ ~had.flag)
    BY <1>1, <1>3, WatchesFrom
  <1> HIDE DEF from
  <1>5. /\ next \in TabRecord /\ Alike(next, from) /\ next.watched = from.watched
        /\ (next.armed <=> from.armed) /\ (next.ready <=> from.ready)
    BY <1>4 DEF TabRecord, Alike
  <1> HIDE DEF next
  <1>6. TabFits(next)
    <2>1. \A v \in next.watched : 0 < v /\ v <= deployed
      BY <1>1, <1>3, <1>4, <1>5, UpdatesAssumption DEF TabFits, InOrder
    <2>2. next.ready => next.had /\ Standing > next.since
      BY <1>1, <1>2, <1>3, <1>4, <1>5, UpdatesAssumption DEF TabFits, InOrder, Alike
    <2>3. QED
      BY <1>1, <1>2, <1>3, <1>4, <1>5, <2>1, <2>2 DEF TabFits, Alike
  <1>7. HeardSince(next)
    BY <1>1, <1>2, <1>3, <1>4, <1>5 DEF TabFits, HeardSince, Alike
  <1>8. QED
    BY <1>2, <1>5, <1>6, <1>7, PageMoves

LEMMA UpdatesKept == UpdatesSound /\ [UpdateNext]_updateVars => UpdatesSound'
  <1>1. UpdatesSound /\ UpdateNext => UpdatesSound'
    BY WorkersKeep, PageLoads, PageTapped, PageRegisters DEF UpdateNext
  <1>2. ASSUME UpdatesSound, UNCHANGED updateVars PROVE UpdatesSound'
    <2>1. InOrder' /\ Standing' = Standing /\ tabs' = tabs /\ active' = active /\ deployed' = deployed
      BY <1>2 DEF updateVars, UpdatesSound, InOrder, Standing
    <2>2. ASSUME NEW t \in UpdateTabs PROVE TabFits(tabs[t])' /\ HeardSince(tabs[t])'
      BY <1>2, <2>1 DEF UpdatesSound, TabFits, HeardSince
    <2>3. QED
      BY <1>2, <2>1, <2>2 DEF UpdatesSound
  <1>3. QED
    BY <1>1, <1>2

LEMMA UpdatesAreSound == UpdateSpec => []UpdatesSound
  BY UpdateBegins, UpdatesKept, PTL DEF UpdateSpec

\* Workers and what pages know of them are versions that were deployed.
THEOREM UpdatesTypeCorrect == UpdateSpec => []UpdatesOK
  <1>1. ASSUME UpdatesSound PROVE UpdatesOK
    <2>1. InOrder /\ {installing, waiting, active} \subseteq 0 .. deployed
      BY <1>1 DEF UpdatesSound, InOrder
    <2>2. Standing \in 0 .. deployed /\ deployed \in Nat /\ active \in Nat /\ active <= deployed
      BY <2>1, StandingIs, UpdatesAssumption DEF InOrder
    <2>3. ASSUME NEW t \in UpdateTabs
          PROVE  /\ tabs[t].watched \subseteq 1 .. deployed
                 /\ {tabs[t].controller, tabs[t].asked, tabs[t].since} \subseteq 0 .. deployed
                 /\ tabs[t].loads \in 0 .. MaxLoads
      BY <1>1, <2>2, PageOf, UpdatesAssumption DEF TabFits
    <2>4. QED
      BY <2>1, <2>3 DEF UpdatesOK, InOrder
  <1>2. QED
    BY <1>1, UpdatesAreSound, PTL

\* shouldOfferSwUpdate and the flag of a reload: a chip is shown for a worker
\* that came after the page; the page a tap on Reload loads shows it only once it
\* was told of a version after the one the tap was for.
THEOREM ChipsAreForNew == UpdateSpec => []OffersAreNew
  <1>1. ASSUME UpdatesSound PROVE OffersAreNew
    <2>1. ASSUME NEW t \in UpdateTabs, tabs[t].ready
          PROVE  /\ tabs[t].since # 0 /\ Standing > tabs[t].since
                 /\ tabs[t].took /\ ~tabs[t].reloading =>
                        \E v \in tabs[t].watched : v > tabs[t].asked
      BY <1>1, <2>1, PageOf DEF TabFits, HeardSince
    <2>2. QED
      BY <2>1 DEF OffersAreNew
  <1>2. QED
    BY <1>1, UpdatesAreSound, PTL

-----------------------------------------------------------------------------
(* Ceremonies: an answer fits the page that waits for it.                   *)

Handled == Joiners \cup {FirstAdmin, Known, Nobody}
Challenges ==
    [purpose : {"join", "enroll", "login"}, who : Handled, link : Links \cup {Nobody}]
Cookies == {"sid", "wn"}
CookieValues == 0 .. MaxChallenges

\* The challenge n of s is one of this purpose, for this member.
IsFor(s, n, purpose) == n \in 1 .. Len(s) /\ s[n].purpose = purpose
IsMeantFor(s, n, who) == s[n].who = who

PageRecord ==
    [at : {"closed", "hydrate", "form", "options", "prompt", "verify", "wait", "in", "logout"},
     kind : {"closed", "join", "enroll", "login", "home"},
     who : Handled, link : Links \cup {Nobody}, num : CookieValues]

\* A page with a prompt shows the handle its challenge was asked for, and the
\* challenge a login page holds is a login's.
PageFits(p, s) ==
    /\ p \in PageRecord
    /\ p.at = "closed" => p = Closed
    /\ p.at \in {"options", "prompt"} => p.kind # "login"
    /\ p.at = "prompt" => IsFor(s, p.num, p.kind) /\ IsMeantFor(s, p.num, p.who)
    /\ p.kind = "login" /\ p.num # None => IsFor(s, p.num, "login")

\* Where the page is that waits for an answer to this.
Waits(p, what) ==
    \/ what = "me" /\ p.at \in {"hydrate", "wait"}
    \/ /\ what = "options"
       /\ IF p.kind = "login" THEN p.at \in {"form", "wait"} /\ p.num = None
          ELSE p.at = "options"
    \/ what = "verify" /\ p.at = "verify"
    \/ what = "logout" /\ p.at = "logout"

CookiesFit(r) ==
    /\ DOMAIN r.cookies \subseteq Cookies
    /\ \A name \in DOMAIN r.cookies : r.cookies[name] \in CookieValues

\* What an answer says is what the page that hears it asked.
TellsOptions(r, p, s) ==
    r.what = "options" /\ r.code = "ok" =>
        /\ "wn" \in DOMAIN r.cookies
        /\ IsFor(s, r.cookies["wn"], p.kind)
        /\ p.kind # "login" => IsMeantFor(s, r.cookies["wn"], p.who)
TellsVerify(r, p, o) ==
    r.what = "verify" =>
        /\ r.code = "ok" => r.about = p.who
        /\ p.kind = "login" /\ r.code \in {"invalid_challenge", "unverified"} => p.num \in o

AnswerFits(r, p, s, o) ==
    /\ Waits(p, r.what) /\ CookiesFit(r)
    /\ TellsOptions(r, p, s) /\ TellsVerify(r, p, o)

PagesFit ==
    /\ page = [t \in PageTabs |-> page[t]]
    /\ \A t \in PageTabs : PageFits(page[t], sealed)
AnswersFit ==
    \A r \in net : r.tab \in PageTabs /\ AnswerFits(r, page[r.tab], sealed, over)
OneAnswer == \A r, q \in net : r.tab = q.tab /\ r.what = q.what => r = q

JarTyped == jar \in [Cookies -> CookieValues]
SealedTyped ==
    sealed \in Seq(Challenges) /\ Len(sealed) <= MaxChallenges /\ over \subseteq 1 .. Len(sealed)

\* A passkey is made for the member its challenge is for, and is the device of
\* the member it was made for; a session is one of a challenge and a device.
KeysFit ==
    \A p \in DOMAIN keys :
        /\ p \in 1 .. Len(sealed) \/ p = Earlier
        /\ keys[p] \in Handled
        /\ p \in 1 .. Len(sealed) => IsMeantFor(sealed, p, keys[p])
DevicesFit ==
    /\ DOMAIN devices \subseteq DOMAIN keys
    /\ \A p \in DOMAIN devices : devices[p] = keys[p]
SessionsFit ==
    /\ DOMAIN sessions \subseteq 1 .. Len(sealed)
    /\ \A s \in DOMAIN sessions : sessions[s] \in DOMAIN devices

CeremoniesSound ==
    /\ JarTyped /\ SealedTyped /\ KeysFit /\ DevicesFit /\ SessionsFit
    /\ PagesFit /\ AnswersFit /\ OneAnswer

LEMMA BesideHas ==
    ASSUME NEW f, NEW g
    PROVE  /\ DOMAIN Beside(f, g) = DOMAIN f \cup DOMAIN g
           /\ \A x \in DOMAIN f : Beside(f, g)[x] = f[x]
           /\ \A x \in DOMAIN g \ DOMAIN f : Beside(f, g)[x] = g[x]
  BY DEF Beside

LEMMA OneHas == ASSUME NEW x, NEW y PROVE DOMAIN One(x, y) = {x} /\ One(x, y)[x] = y
  BY DEF One

\* h is f with y at x, where f had nothing.
Gains(h, f, x, y) ==
    /\ DOMAIN h = DOMAIN f \cup {x}
    /\ \A z \in DOMAIN f : h[z] = f[z]
    /\ x \notin DOMAIN f => h[x] = y

LEMMA BesideOne == ASSUME NEW f, NEW x, NEW y PROVE Gains(Beside(f, One(x, y)), f, x, y)
  <1> DEFINE g == One(x, y)
  <1>1. DOMAIN g = {x} /\ g[x] = y
    BY OneHas
  <1> HIDE DEF g
  <1>2. /\ DOMAIN Beside(f, g) = DOMAIN f \cup DOMAIN g
        /\ \A z \in DOMAIN f : Beside(f, g)[z] = f[z]
        /\ \A z \in DOMAIN g \ DOMAIN f : Beside(f, g)[z] = g[z]
    BY BesideHas
  <1>3. Gains(Beside(f, g), f, x, y)
    BY <1>1, <1>2 DEF Gains
  <1>4. QED
    BY <1>3 DEF g

LEMMA NothingHas == DOMAIN <<>> = {}
  OBVIOUS

LEMMA CookiesKept ==
    ASSUME NEW j \in [Cookies -> CookieValues], NEW f, DOMAIN f \subseteq Cookies,
           \A name \in DOMAIN f : f[name] \in CookieValues
    PROVE  Beside(f, j) \in [Cookies -> CookieValues]
  <1>1. Beside(f, j) = [x \in Cookies |-> IF x \in DOMAIN f THEN f[x] ELSE j[x]]
    BY DEF Beside
  <1>2. QED
    BY <1>1

\* Later challenges change nothing about one that was sealed.
Grows ==
    /\ over \subseteq over'
    /\ \A n \in 1 .. Len(sealed) : n \in 1 .. Len(sealed') /\ sealed'[n] = sealed[n]

LEMMA StillFor ==
    ASSUME Grows, NEW n, NEW purpose, IsFor(sealed, n, purpose)
    PROVE  /\ IsFor(sealed', n, purpose)
           /\ \A who : IsMeantFor(sealed, n, who) => IsMeantFor(sealed', n, who)
  BY DEF Grows, IsFor, IsMeantFor

LEMMA PageStillFits ==
    ASSUME Grows, NEW p, PageFits(p, sealed)
    PROVE  PageFits(p, sealed')
  <1>1. p.at = "prompt" => IsFor(sealed', p.num, p.kind) /\ IsMeantFor(sealed', p.num, p.who)
    BY StillFor DEF PageFits
  <1>2. p.kind = "login" /\ p.num # None => IsFor(sealed', p.num, "login")
    BY StillFor DEF PageFits
  <1>3. QED
    BY <1>1, <1>2 DEF PageFits

LEMMA AnswerStillFits ==
    ASSUME Grows, NEW p, NEW r, AnswerFits(r, p, sealed, over)
    PROVE  AnswerFits(r, p, sealed', over')
  <1>1. TellsOptions(r, p, sealed')
    BY StillFor DEF AnswerFits, TellsOptions
  <1>2. TellsVerify(r, p, over')
    BY DEF AnswerFits, TellsVerify, Grows
  <1>3. QED
    BY <1>1, <1>2 DEF AnswerFits

\* A step of one tab that leaves the answers of the others alone.
LEMMA TabMoves ==
    ASSUME PagesFit, AnswersFit, OneAnswer, Grows,
           NEW t \in PageTabs, NEW p, PageFits(p, sealed'), page' = [page EXCEPT ![t] = p],
           \A r \in net' : r \in net \/ r.tab = t,
           \A r \in net' : r.tab = t => AnswerFits(r, p, sealed', over'),
           \A r, q \in net' : r.tab = t /\ q.tab = t /\ r.what = q.what => r = q
    PROVE  PagesFit' /\ AnswersFit' /\ OneAnswer'
  <1>1. /\ page' = [u \in PageTabs |-> page'[u]] /\ page'[t] = p
        /\ \A u \in PageTabs \ {t} : page'[u] = page[u]
    BY DEF PagesFit
  <1>2. PagesFit'
    <2>1. ASSUME NEW u \in PageTabs PROVE PageFits(page'[u], sealed')
      BY <1>1, PageStillFits DEF PagesFit
    <2>2. QED
      BY <1>1, <2>1 DEF PagesFit
  <1>3. AnswersFit'
    <2>1. ASSUME NEW r \in net', r.tab # t
          PROVE  r.tab \in PageTabs /\ AnswerFits(r, page'[r.tab], sealed', over')
      BY <1>1, <2>1, AnswerStillFits DEF AnswersFit
    <2>2. QED
      BY <1>1, <2>1 DEF AnswersFit
  <1>4. OneAnswer'
    BY DEF OneAnswer
  <1>5. QED
    BY <1>2, <1>3, <1>4

\* What a handler does: it adds one answer, and it writes what it writes.
Adds(r, t, what) == net' = net \cup {r} /\ r.tab = t /\ r.what = what /\ CookiesFit(r)

Sets(r, name, value) == DOMAIN r.cookies = {name} /\ r.cookies[name] = value

LEMMA AnswerIs ==
    ASSUME NEW t, NEW what, NEW code, NEW cookies, DOMAIN cookies \subseteq Cookies,
           \A name \in DOMAIN cookies : cookies[name] \in CookieValues,
           Answers(t, what, code, cookies)
    PROVE  \E r : Adds(r, t, what) /\ r.code = code /\ r.cookies = cookies
  <1> DEFINE r == Answer(t, what, code, cookies)
  <1>1. Adds(r, t, what) /\ r.code = code /\ r.cookies = cookies
    BY DEF Answers, Answer, Adds, CookiesFit
  <1>2. QED
    BY <1>1

LEMMA CookieAnswerIs ==
    ASSUME NEW t, NEW what, NEW code, NEW name \in Cookies, NEW value \in CookieValues,
           Answers(t, what, code, One(name, value))
    PROVE  \E r : Adds(r, t, what) /\ r.code = code /\ Sets(r, name, value)
  <1> DEFINE cookies == One(name, value)
  <1>1. DOMAIN cookies = {name} /\ cookies[name] = value
    BY OneHas
  <1>2. \A other \in DOMAIN cookies : cookies[other] \in CookieValues
    BY <1>1
  <1> HIDE DEF cookies
  <1>3. QED
    <2>1. Answers(t, what, code, cookies)
      BY DEF cookies
    <2>2. \E r : Adds(r, t, what) /\ r.code = code /\ r.cookies = cookies
      BY <1>1, <1>2, <2>1, AnswerIs
    <2>3. QED
      BY <1>1, <2>2 DEF Sets

LEMMA EmptyAnswerIs ==
    ASSUME NEW t, NEW what, NEW code, Answers(t, what, code, <<>>)
    PROVE  \E r : Adds(r, t, what) /\ r.code = code
  BY NothingHas, AnswerIs

LEMMA RefusalIs ==
    ASSUME NEW t, NEW what, NEW code, Refuses(t, what, code)
    PROVE  (\E r : Adds(r, t, what) /\ r.code = code) /\ UNCHANGED server
  BY EmptyAnswerIs DEF Refuses

LEMMA FailureIs ==
    ASSUME NEW t, NEW what, RequestFails(t, what)
    PROVE  (\E r : Adds(r, t, what) /\ r.code = "request_failed") /\ UNCHANGED server
  BY EmptyAnswerIs DEF RequestFails

LEMMA MeAnswers ==
    ASSUME CeremoniesSound, NEW t, Me(t)
    PROVE  (\E r : Adds(r, t, "me")) /\ UNCHANGED server
  <1>1. CASE jar.sid \in DOMAIN sessions
    <2>1. Answers(t, "me", "ok", One("sid", jar.sid)) /\ UNCHANGED server
      BY <1>1 DEF Me, Set
    <2>2. jar.sid \in CookieValues
      BY DEF CeremoniesSound, JarTyped, Cookies
    <2>3. QED
      BY <2>1, <2>2, CookieAnswerIs DEF Cookies
  <1>2. CASE jar.sid \notin DOMAIN sessions
    BY <1>2, RefusalIs DEF Me
  <1>3. QED
    BY <1>1, <1>2

LEMMA OptionsAnswer ==
    ASSUME CeremoniesSound, NEW t, NEW kind \in {"join", "enroll", "login"},
           NEW who \in Handled, NEW link \in Links \cup {Nobody}, Options(t, kind, who, link)
    PROVE  /\ \E r : /\ Adds(r, t, "options")
                     /\ r.code = "ok" =>
                          /\ "wn" \in DOMAIN r.cookies
                          /\ IsFor(sealed', r.cookies["wn"], kind)
                          /\ IsMeantFor(sealed', r.cookies["wn"], who)
           /\ Grows /\ SealedTyped' /\ UNCHANGED <<over, members, sessions>>
  <1>1. CASE RequestFails(t, "options") \/ Refuses(t, "options", "refused")
    <2>1. (\E r : Adds(r, t, "options") /\ r.code # "ok") /\ UNCHANGED server
      BY <1>1, RefusalIs, FailureIs
    <2>2. QED
      BY <2>1 DEF CeremoniesSound, SealedTyped, Grows, server
  <1>2. CASE /\ sealed' = Append(sealed, Sealed(kind, who, link))
             /\ Answers(t, "options", "ok", One("wn", Len(sealed) + 1))
             /\ UNCHANGED <<over, members, sessions, mishaps>>
    <2> DEFINE n == Len(sealed) + 1
    <2>1. n \in CookieValues /\ n = Len(sealed')
      BY <1>2, CeremoniesAssumption
         DEF Options, CeremoniesSound, SealedTyped, Challenges, Sealed, CookieValues
    <2>2. /\ sealed' \in Seq(Challenges) /\ Len(sealed') <= MaxChallenges
          /\ sealed'[n] = Sealed(kind, who, link)
          /\ \A m \in 1 .. Len(sealed) : m \in 1 .. Len(sealed') /\ sealed'[m] = sealed[m]
      BY <1>2, <2>1, CeremoniesAssumption
         DEF CeremoniesSound, SealedTyped, Challenges, Sealed, CookieValues
    <2>3. Grows /\ SealedTyped'
      BY <1>2, <2>1, <2>2 DEF Grows, CeremoniesSound, SealedTyped
    <2>4. IsFor(sealed', n, kind) /\ IsMeantFor(sealed', n, who)
      BY <2>1, <2>2 DEF IsFor, IsMeantFor, Sealed, CeremoniesSound, SealedTyped
    <2> HIDE DEF n
    <2>5. Answers(t, "options", "ok", One("wn", n))
      BY <1>2 DEF n
    <2>6. PICK r : Adds(r, t, "options") /\ Sets(r, "wn", n)
      BY <2>1, <2>5, CookieAnswerIs DEF Cookies
    <2>7. /\ "wn" \in DOMAIN r.cookies
          /\ IsFor(sealed', r.cookies["wn"], kind) /\ IsMeantFor(sealed', r.cookies["wn"], who)
      BY <2>4, <2>6 DEF Sets
    <2>8. QED
      BY <1>2, <2>3, <2>6, <2>7
  <1>3. QED
    BY <1>1, <1>2 DEF Options, Set

\* A verify either writes nothing or adds a device and a session.
Writes(key, who, token) ==
    \/ UNCHANGED <<devices, sessions>>
    \/ /\ devices' = Beside(devices, One(key, who))
       /\ sessions' = Beside(sessions, One(token, key))

LEMMA SignInAnswers ==
    ASSUME CeremoniesSound, NEW t, NEW token \in 1 .. Len(sealed), NEW key, NEW who,
           SignsIn(t, token, key, who)
    PROVE  /\ \E r : Adds(r, t, "verify") /\ r.code = "ok" /\ r.about = who
           /\ sessions' = Beside(sessions, One(token, key)) /\ UNCHANGED <<sealed, over>>
  <1> DEFINE cookies == Beside(One("sid", token), One("wn", None))
             r == [Answer(t, "verify", "ok", cookies) EXCEPT !.about = who]
  <1>1. token \in CookieValues /\ None \in CookieValues
    BY CeremoniesAssumption DEF CeremoniesSound, SealedTyped, CookieValues, None
  <1>2. /\ DOMAIN cookies \subseteq Cookies
        /\ \A name \in DOMAIN cookies : cookies[name] \in CookieValues
    <2> DEFINE f == One("sid", token)
               g == One("wn", None)
    <2>1. /\ DOMAIN f = {"sid"} /\ \A x \in DOMAIN f : f[x] = token
          /\ DOMAIN g = {"wn"} /\ \A x \in DOMAIN g : g[x] = None
      BY DEF One
    <2> HIDE DEF f, g
    <2>2. /\ DOMAIN Beside(f, g) = DOMAIN f \cup DOMAIN g
          /\ \A x \in DOMAIN f : Beside(f, g)[x] = f[x]
          /\ \A x \in DOMAIN g \ DOMAIN f : Beside(f, g)[x] = g[x]
      BY BesideHas
    <2>3. \A name \in DOMAIN Beside(f, g) : name \in Cookies /\ Beside(f, g)[name] \in CookieValues
      BY <1>1, <2>1, <2>2 DEF Cookies
    <2>4. cookies = Beside(f, g)
      BY DEF f, g
    <2>5. QED
      BY <2>3, <2>4
  <1>3. net' = net \cup {r} /\ sessions' = Beside(sessions, One(token, key))
        /\ UNCHANGED <<sealed, over>>
    BY DEF SignsIn, Set, Expired
  <1> HIDE DEF cookies
  <1>4. Adds(r, t, "verify") /\ r.code = "ok" /\ r.about = who
    BY <1>2, <1>3 DEF Answer, Adds, CookiesFit
  <1>5. QED
    BY <1>3, <1>4

LEMMA RegistrationAnswers ==
    ASSUME CeremoniesSound, NEW t, NEW kind, NEW key, NEW who, IsMeantFor(sealed, key, who),
           IsFor(sealed, key, kind),
           VerifyRegistration(t, kind, key) \/ RequestFails(t, "verify")
    PROVE  /\ \E r : Adds(r, t, "verify") /\ (r.code = "ok" => r.about = who)
           /\ Writes(key, who, key) /\ UNCHANGED <<sealed, over>>
  <1>1. CASE \/ RequestFails(t, "verify")
             \/ \E code \in {"invalid_challenge", "unverified", "refused"} :
                    Refuses(t, "verify", code)
    <2>1. (\E r : Adds(r, t, "verify") /\ r.code # "ok") /\ UNCHANGED server
      BY <1>1, RefusalIs, FailureIs
    <2>2. QED
      BY <2>1 DEF server, members, Writes
  <1>2. CASE /\ SignedOver(key, jar.wn)
             /\ devices' = Beside(devices, One(key, sealed[jar.wn].who))
             /\ SignsIn(t, jar.wn, key, sealed[jar.wn].who)
    <2>1. jar.wn = key /\ sealed[jar.wn].who = who
      BY <1>2 DEF SignedOver, IsMeantFor
    <2>2. devices' = Beside(devices, One(key, who)) /\ SignsIn(t, key, key, who)
      BY <1>2, <2>1
    <2>3. key \in 1 .. Len(sealed)
      BY DEF IsFor
    <2>4. QED
      BY <2>2, <2>3, SignInAnswers DEF Writes
  <1>3. QED
    BY <1>1, <1>2 DEF VerifyRegistration

LEMMA LoginAnswers ==
    ASSUME CeremoniesSound, NEW t, NEW key \in DOMAIN keys, NEW n, n # None,
           IsFor(sealed, n, "login"),
           VerifyLogin(t, key, n) \/ RequestFails(t, "verify")
    PROVE  /\ \E r : /\ Adds(r, t, "verify") /\ (r.code = "ok" => r.about = keys[key])
                     /\ r.code \in {"invalid_challenge", "unverified"} => n \in over
           /\ \/ UNCHANGED <<devices, sessions>>
              \/ /\ key \in DOMAIN devices /\ UNCHANGED devices
                 /\ sessions' = Beside(sessions, One(n, key))
           /\ UNCHANGED <<sealed, over>>
  <1>1. CASE RequestFails(t, "verify")
    <2>1. (\E r : Adds(r, t, "verify") /\ r.code = "request_failed") /\ UNCHANGED server
      BY <1>1, FailureIs
    <2>2. QED
      BY <2>1 DEF server, members
  <1>2. CASE ~Opens(n, "login") /\ Refuses(t, "verify", "invalid_challenge")
    <2>1. (\E r : Adds(r, t, "verify") /\ r.code = "invalid_challenge") /\ UNCHANGED server
      BY <1>2, RefusalIs
    <2>2. n \in over
      BY <1>2 DEF Opens, IsFor
    <2>3. QED
      BY <2>1, <2>2 DEF server, members
  <1>3. CASE Refuses(t, "verify", "unknown")
    <2>1. (\E r : Adds(r, t, "verify") /\ r.code = "unknown") /\ UNCHANGED server
      BY <1>3, RefusalIs
    <2>2. QED
      BY <2>1 DEF server, members
  <1>4. CASE /\ DeviceKnown(key) /\ UNCHANGED members
             /\ SignsIn(t, n, key, devices[key])
    <2>1. key \in DOMAIN devices /\ devices[key] = keys[key] /\ UNCHANGED devices
      BY <1>4 DEF DeviceKnown, members, CeremoniesSound, DevicesFit
    <2>2. n \in 1 .. Len(sealed) /\ SignsIn(t, n, key, keys[key])
      BY <1>4, <2>1 DEF IsFor
    <2>3. QED
      BY <2>1, <2>2, SignInAnswers
  <1>5. QED
    <2>1. ChallengeOf(n) = n /\ SignedOver(n, n)
      BY DEF ChallengeOf, SignedOver
    <2>2. QED
      BY <1>1, <1>2, <1>3, <1>4, <2>1 DEF VerifyLogin

LEMMA ServerKeeps ==
    ASSUME CeremoniesSound, Grows, SealedTyped', UNCHANGED <<keys, devices>>,
           \A s \in DOMAIN sessions' :
               \/ s \in DOMAIN sessions /\ sessions'[s] = sessions[s]
               \/ s \in 1 .. Len(sealed) /\ sessions'[s] \in DOMAIN devices
    PROVE  KeysFit' /\ DevicesFit' /\ SessionsFit'
  <1>1. ASSUME NEW p \in DOMAIN keys
        PROVE  /\ p \in 1 .. Len(sealed') \/ p = Earlier
               /\ keys[p] \in Handled
               /\ p \in 1 .. Len(sealed') => IsMeantFor(sealed', p, keys[p])
    <2>1. p \in 1 .. Len(sealed) \/ p = Earlier
      BY DEF CeremoniesSound, KeysFit
    <2>2. CASE p \in 1 .. Len(sealed)
      BY <2>2 DEF CeremoniesSound, KeysFit, Grows, IsMeantFor
    <2>3. CASE p = Earlier
      <3>1. p \notin 1 .. Len(sealed')
        BY <2>3, CeremoniesAssumption DEF SealedTyped, Earlier
      <3>2. QED
        BY <2>3, <3>1 DEF CeremoniesSound, KeysFit
    <2>4. QED
      BY <2>1, <2>2, <2>3
  <1>2. KeysFit'
    BY <1>1 DEF KeysFit
  <1>3. DevicesFit'
    BY DEF CeremoniesSound, DevicesFit
  <1>4. SessionsFit'
    <2>1. \A s \in 1 .. Len(sealed) : s \in 1 .. Len(sealed')
      BY DEF Grows
    <2>2. ASSUME NEW s \in DOMAIN sessions'
          PROVE  s \in 1 .. Len(sealed') /\ sessions'[s] \in DOMAIN devices'
      BY <2>1 DEF CeremoniesSound, SessionsFit
    <2>3. QED
      BY <2>2 DEF SessionsFit
  <1>5. QED
    BY <1>2, <1>3, <1>4

LEMMA ServerStays ==
    ASSUME CeremoniesSound, UNCHANGED <<keys, server>>
    PROVE  Grows /\ SealedTyped' /\ KeysFit' /\ DevicesFit' /\ SessionsFit'
  <1>1. UNCHANGED <<keys, sealed, over, devices, sessions>>
    BY DEF server, members
  <1>2. Grows /\ SealedTyped'
    BY <1>1 DEF Grows, CeremoniesSound, SealedTyped
  <1>3. QED
    BY <1>1, <1>2, ServerKeeps

\* A tab asks, and waits for nothing else of that kind.
LEMMA TabAsks ==
    ASSUME CeremoniesSound, Grows,
           NEW t \in PageTabs, NEW p, PageFits(p, sealed'), page' = [page EXCEPT ![t] = p],
           NEW what, NEW r, Adds(r, t, what), AnswerFits(r, p, sealed', over'),
           \A q \in net : q.tab = t => q.what # what /\ AnswerFits(q, p, sealed', over')
    PROVE  PagesFit' /\ AnswersFit' /\ OneAnswer'
  <1>1. net' = net \cup {r} /\ r.tab = t /\ r.what = what
    BY DEF Adds
  <1>2. /\ \A q \in net' : q \in net \/ q.tab = t
        /\ \A q \in net' : q.tab = t => AnswerFits(q, p, sealed', over')
    BY <1>1
  <1>3. \A q, s \in net' : q.tab = t /\ s.tab = t /\ q.what = s.what => q = s
    BY <1>1 DEF CeremoniesSound, OneAnswer
  <1>4. PagesFit /\ AnswersFit /\ OneAnswer
    BY DEF CeremoniesSound
  <1>5. QED
    BY <1>2, <1>3, <1>4, TabMoves

\* Where a page waits for nothing.
LEMMA NothingWaited ==
    ASSUME CeremoniesSound, NEW t \in PageTabs,
           page[t].at \in {"closed", "form", "prompt", "in"},
           page[t].kind # "login" \/ page[t].at \in {"closed", "in"} \/ page[t].num # None
    PROVE  \A q \in net : q.tab # t
  BY DEF CeremoniesSound, AnswersFit, AnswerFits, Waits

LEMMA PageOfTab ==
    ASSUME CeremoniesSound, NEW t \in PageTabs
    PROVE  PageFits(page[t], sealed) /\ page[t] \in PageRecord
  BY DEF CeremoniesSound, PagesFit, PageFits

LEMMA BlankFits ==
    ASSUME NEW at \in {"form", "in", "wait", "hydrate"},
           NEW kind \in {"closed", "join", "enroll", "login", "home"}
    PROVE  /\ PageFits([Closed EXCEPT !.kind = kind, !.at = at], sealed)
           /\ PageFits(Closed, sealed)
  <1>1. None \in CookieValues
    BY CeremoniesAssumption DEF None, CookieValues
  <1>2. QED
    BY <1>1 DEF PageFits, PageRecord, Closed, Handled

LEMMA PageOpens ==
    ASSUME CeremoniesSound, NEW t \in PageTabs, NEW kind \in {"join", "enroll", "login", "home"},
           Visit(t, kind)
    PROVE  CeremoniesSound'
  <1> DEFINE p == [Closed EXCEPT !.kind = kind, !.at = "hydrate"]
  <1>1. page[t] = Closed /\ UNCHANGED <<jar, keys>> /\ Me(t)
    BY DEF Visit
  <1>2. page' = [page EXCEPT ![t] = p]
    BY <1>1 DEF Visit, Closed, CeremoniesSound, PagesFit
  <1>3. PICK r : Adds(r, t, "me") /\ UNCHANGED server
    BY <1>1, MeAnswers
  <1>4. /\ Grows /\ SealedTyped' /\ KeysFit' /\ DevicesFit' /\ SessionsFit'
        /\ UNCHANGED <<sealed, over>>
    BY <1>1, <1>3, ServerStays DEF server
  <1>5. PageFits(p, sealed') /\ p.at = "hydrate"
    BY <1>4, BlankFits DEF Closed
  <1>6. \A q \in net : q.tab # t
    BY <1>1, NothingWaited DEF Closed
  <1> HIDE DEF p
  <1>7. AnswerFits(r, p, sealed', over')
    BY <1>3, <1>5 DEF Adds, AnswerFits, Waits, TellsOptions, TellsVerify
  <1>8. PagesFit' /\ AnswersFit' /\ OneAnswer'
    BY <1>2, <1>3, <1>4, <1>5, <1>6, <1>7, TabAsks
  <1>9. JarTyped'
    BY <1>1 DEF CeremoniesSound, JarTyped
  <1>10. QED
    BY <1>4, <1>8, <1>9 DEF CeremoniesSound

LEMMA PageLeaves ==
    ASSUME CeremoniesSound, NEW t \in PageTabs, LeavePage(t)
    PROVE  CeremoniesSound'
  <1>1. /\ page' = [page EXCEPT ![t] = Closed] /\ net' = Elsewhere(t)
        /\ UNCHANGED <<jar, keys, server>>
    BY DEF LeavePage
  <1>2. /\ Grows /\ SealedTyped' /\ KeysFit' /\ DevicesFit' /\ SessionsFit'
        /\ UNCHANGED sealed
    BY <1>1, ServerStays DEF server
  <1>3. PageFits(Closed, sealed')
    BY <1>2, BlankFits
  <1>4. \A q \in net' : q \in net /\ q.tab # t
    BY <1>1 DEF Elsewhere
  <1>5. PagesFit' /\ AnswersFit' /\ OneAnswer'
    BY <1>1, <1>2, <1>3, <1>4, TabMoves DEF CeremoniesSound
  <1>6. QED
    BY <1>1, <1>2, <1>5 DEF CeremoniesSound, JarTyped

LEMMA FormSubmitted ==
    ASSUME CeremoniesSound, NEW t \in PageTabs, NEW who \in Joiners \cup {FirstAdmin},
           NEW link \in Links \cup {Nobody}, Submit(t, who, link)
    PROVE  CeremoniesSound'
  <1> DEFINE kind == page[t].kind
             p == [page[t] EXCEPT !.at = "options", !.who = who, !.link = link]
  <1>1. /\ page[t].at = "form" /\ kind \in {"join", "enroll"} /\ who \in Handled
        /\ Options(t, kind, who, link) /\ UNCHANGED <<jar, keys>>
    BY DEF Submit, Handled
  <1>2. page' = [page EXCEPT ![t] = p]
    BY PageOfTab DEF PageRecord, Submit, CeremoniesSound, PagesFit
  <1>3. /\ Grows /\ SealedTyped' /\ UNCHANGED <<over, members, sessions>>
        /\ \E r : /\ Adds(r, t, "options")
                  /\ r.code = "ok" =>
                       /\ "wn" \in DOMAIN r.cookies
                       /\ IsFor(sealed', r.cookies["wn"], kind)
                       /\ IsMeantFor(sealed', r.cookies["wn"], who)
    BY <1>1, OptionsAnswer
  <1>4. PICK r : /\ Adds(r, t, "options")
                 /\ r.code = "ok" =>
                      /\ "wn" \in DOMAIN r.cookies
                      /\ IsFor(sealed', r.cookies["wn"], kind)
                      /\ IsMeantFor(sealed', r.cookies["wn"], who)
    BY <1>3
  <1>5. KeysFit' /\ DevicesFit' /\ SessionsFit'
    <2>1. UNCHANGED <<keys, devices, sessions>>
      BY <1>1, <1>3 DEF members
    <2>2. QED
      BY <1>3, <2>1, ServerKeeps
  <1>6. PageFits(p, sealed') /\ p.at = "options" /\ p.kind = kind /\ p.who = who
    BY <1>1, PageOfTab DEF PageFits, PageRecord
  <1>7. \A q \in net : q.tab # t
    BY <1>1, NothingWaited
  <1>8. kind # "login"
    BY <1>1
  <1> HIDE DEF p, kind
  <1>9. AnswerFits(r, p, sealed', over')
    BY <1>4, <1>6, <1>8 DEF Adds, AnswerFits, Waits, TellsOptions, TellsVerify
  <1>10. PagesFit' /\ AnswersFit' /\ OneAnswer'
    BY <1>2, <1>3, <1>4, <1>6, <1>7, <1>9, TabAsks
  <1>11. QED
    BY <1>1, <1>3, <1>5, <1>10 DEF CeremoniesSound, JarTyped

\* The passkey of a prompt, and what is written of it.
LEMMA KeyMade ==
    ASSUME CeremoniesSound, NEW n \in 1 .. Len(sealed), NEW who \in Handled,
           IsMeantFor(sealed, n, who), UNCHANGED <<sealed, over>>,
           keys' = Beside(keys, One(n, who)), Writes(n, who, n)
    PROVE  Grows /\ SealedTyped' /\ KeysFit' /\ DevicesFit' /\ SessionsFit'
  <1>1. Grows /\ SealedTyped'
    BY DEF Grows, CeremoniesSound, SealedTyped
  <1>2. Gains(keys', keys, n, who)
    BY BesideOne, Zenon
  <1>3. keys'[n] = who
    BY <1>2 DEF CeremoniesSound, KeysFit, IsMeantFor, Gains
  <1>4. KeysFit'
    <2>1. ASSUME NEW p \in DOMAIN keys'
          PROVE  /\ p \in 1 .. Len(sealed) \/ p = Earlier
                 /\ keys'[p] \in Handled
                 /\ p \in 1 .. Len(sealed) => IsMeantFor(sealed, p, keys'[p])
      <3>1. CASE p \in DOMAIN keys
        BY <1>2, <3>1 DEF CeremoniesSound, KeysFit, Gains
      <3>2. CASE p = n
        BY <1>3, <3>2
      <3>3. QED
        BY <1>2, <3>1, <3>2 DEF Gains
    <2>2. sealed' = sealed
      OBVIOUS
    <2>3. QED
      BY <2>1, <2>2 DEF KeysFit, Earlier
  <1>5. CASE UNCHANGED <<devices, sessions>>
    BY <1>1, <1>2, <1>4, <1>5 DEF CeremoniesSound, DevicesFit, SessionsFit, Gains
  <1>6. CASE devices' = Beside(devices, One(n, who)) /\ sessions' = Beside(sessions, One(n, n))
    <2>1. Gains(devices', devices, n, who) /\ Gains(sessions', sessions, n, n)
      BY <1>6, BesideOne, Zenon
    <2>2. DevicesFit'
      BY <1>2, <1>3, <2>1 DEF CeremoniesSound, DevicesFit, Gains
    <2>3. SessionsFit'
      BY <2>1 DEF CeremoniesSound, SessionsFit, Gains
    <2>4. QED
      BY <1>1, <1>4, <2>2, <2>3
  <1>7. QED
    BY <1>5, <1>6 DEF Writes

LEMMA PasskeyMade ==
    ASSUME CeremoniesSound, NEW t \in PageTabs, Register(t)
    PROVE  CeremoniesSound'
  <1> DEFINE n == page[t].num
             who == page[t].who
             kind == page[t].kind
             p == [page[t] EXCEPT !.at = "verify"]
  <1>1. /\ page[t].at = "prompt" /\ keys' = Beside(keys, One(n, who))
        /\ VerifyRegistration(t, kind, n) \/ RequestFails(t, "verify")
        /\ UNCHANGED jar
    BY DEF Register
  <1>2. page' = [page EXCEPT ![t] = p]
    BY DEF Register, GoesTo, CeremoniesSound, PagesFit
  <1>3. kind # "login" /\ IsFor(sealed, n, kind) /\ IsMeantFor(sealed, n, who) /\ who \in Handled
    BY <1>1, PageOfTab DEF PageFits, PageRecord
  <1>4. PICK r : /\ Adds(r, t, "verify") /\ (r.code = "ok" => r.about = who)
                 /\ Writes(n, who, n) /\ UNCHANGED <<sealed, over>>
    BY <1>1, <1>3, RegistrationAnswers
  <1>5. PageFits(p, sealed) /\ p.at = "verify" /\ p.kind = kind /\ p.who = who
    BY <1>1, <1>3, PageOfTab DEF PageFits, PageRecord
  <1>6. \A q \in net : q.tab # t
    BY <1>1, <1>3, NothingWaited
  <1> HIDE DEF p, n, who, kind
  <1>7. Grows /\ SealedTyped' /\ KeysFit' /\ DevicesFit' /\ SessionsFit'
    <2>1. n \in 1 .. Len(sealed)
      BY <1>3 DEF IsFor
    <2>2. QED
      BY <1>1, <1>3, <1>4, <2>1, KeyMade
  <1>8. AnswerFits(r, p, sealed', over')
    BY <1>3, <1>4, <1>5 DEF Adds, AnswerFits, Waits, TellsOptions, TellsVerify
  <1>9. PagesFit' /\ AnswersFit' /\ OneAnswer'
    BY <1>2, <1>4, <1>5, <1>6, <1>7, <1>8, TabAsks
  <1>10. QED
    BY <1>1, <1>7, <1>9 DEF CeremoniesSound, JarTyped

LEMMA PromptDismissed ==
    ASSUME CeremoniesSound, NEW t \in PageTabs, DismissPrompt(t)
    PROVE  CeremoniesSound'
  <1> DEFINE kind == page[t].kind
             p == [Closed EXCEPT !.kind = kind, !.at = "form"]
  <1>1. page[t].at = "prompt" /\ UNCHANGED <<jar, net, keys, server>>
    BY DEF DismissPrompt
  <1>2. page' = [page EXCEPT ![t] = p]
    BY DEF DismissPrompt, Blank
  <1>3. /\ Grows /\ SealedTyped' /\ KeysFit' /\ DevicesFit' /\ SessionsFit'
        /\ UNCHANGED sealed
    BY <1>1, ServerStays DEF server
  <1>4. kind \in {"closed", "join", "enroll", "login", "home"} /\ kind # "login"
    BY <1>1, PageOfTab DEF PageFits, PageRecord
  <1>5. \A q \in net : q.tab # t
    BY <1>1, <1>4, NothingWaited
  <1> HIDE DEF kind
  <1>6. PageFits(p, sealed')
    BY <1>3, <1>4, BlankFits
  <1> HIDE DEF p
  <1>7. PagesFit' /\ AnswersFit' /\ OneAnswer'
    BY <1>1, <1>2, <1>3, <1>5, <1>6, TabMoves DEF CeremoniesSound
  <1>8. QED
    BY <1>1, <1>3, <1>7 DEF CeremoniesSound, JarTyped

LEMMA ChallengeLoads ==
    ASSUME CeremoniesSound, NEW t \in PageTabs, LoadChallenge(t)
    PROVE  CeremoniesSound'
  <1> DEFINE p == page[t]
  <1>1. /\ p.kind = "login" /\ p.at \in {"form", "wait"} /\ p.num = None
        /\ ~Waiting(t, "options") /\ UNCHANGED <<jar, page, keys>>
        /\ Options(t, "login", Nobody, Nobody)
    BY DEF LoadChallenge, LoginOptions
  <1>2. Nobody \in Handled /\ Nobody \in Links \cup {Nobody}
    BY DEF Handled
  <1>3. /\ Grows /\ SealedTyped' /\ UNCHANGED <<over, members, sessions>>
        /\ \E r : /\ Adds(r, t, "options")
                  /\ r.code = "ok" =>
                       /\ "wn" \in DOMAIN r.cookies
                       /\ IsFor(sealed', r.cookies["wn"], "login")
                       /\ IsMeantFor(sealed', r.cookies["wn"], Nobody)
    BY <1>1, <1>2, OptionsAnswer
  <1>4. PICK r : /\ Adds(r, t, "options")
                 /\ r.code = "ok" =>
                      /\ "wn" \in DOMAIN r.cookies
                      /\ IsFor(sealed', r.cookies["wn"], "login")
                      /\ IsMeantFor(sealed', r.cookies["wn"], Nobody)
    BY <1>3
  <1>5. KeysFit' /\ DevicesFit' /\ SessionsFit'
    <2>1. UNCHANGED <<keys, devices, sessions>>
      BY <1>1, <1>3 DEF members
    <2>2. QED
      BY <1>3, <2>1, ServerKeeps
  <1>6. page' = [page EXCEPT ![t] = p] /\ PageFits(p, sealed')
    BY <1>1, <1>3, PageOfTab, PageStillFits DEF CeremoniesSound, PagesFit
  <1>7. \A q \in net : q.tab = t => q.what # "options" /\ AnswerFits(q, p, sealed', over')
    BY <1>1, <1>3, AnswerStillFits DEF Waiting, CeremoniesSound, AnswersFit
  <1> HIDE DEF p
  <1>8. AnswerFits(r, p, sealed', over')
    BY <1>1, <1>4 DEF Adds, AnswerFits, Waits, TellsOptions, TellsVerify
  <1>9. PagesFit' /\ AnswersFit' /\ OneAnswer'
    BY <1>3, <1>4, <1>6, <1>7, <1>8, TabAsks
  <1>10. QED
    BY <1>1, <1>3, <1>5, <1>9 DEF CeremoniesSound, JarTyped

LEMMA LoginPosted ==
    ASSUME CeremoniesSound, NEW t \in PageTabs, NEW key \in DOMAIN keys, Login(t, key)
    PROVE  CeremoniesSound'
  <1> DEFINE n == page[t].num
             who == keys[key]
             p == [page[t] EXCEPT !.at = "verify", !.who = who]
  <1>1. /\ page[t].at = "form" /\ page[t].kind = "login" /\ n # None
        /\ VerifyLogin(t, key, n) \/ RequestFails(t, "verify")
        /\ UNCHANGED <<jar, keys>>
    BY DEF Login
  <1>2. page' = [page EXCEPT ![t] = p]
    BY DEF Login, CeremoniesSound, PagesFit
  <1>3. IsFor(sealed, n, "login") /\ who \in Handled
    BY <1>1, PageOfTab DEF PageFits, PageRecord, CeremoniesSound, KeysFit
  <1>4. PICK r : /\ Adds(r, t, "verify") /\ (r.code = "ok" => r.about = who)
                 /\ r.code \in {"invalid_challenge", "unverified"} => n \in over
    BY <1>1, <1>3, LoginAnswers
  <1>5. /\ \/ UNCHANGED <<devices, sessions>>
           \/ /\ key \in DOMAIN devices /\ UNCHANGED devices
              /\ sessions' = Beside(sessions, One(n, key))
        /\ UNCHANGED <<sealed, over>>
    BY <1>1, <1>3, LoginAnswers
  <1>6. /\ PageFits(p, sealed) /\ p.at = "verify" /\ p.kind = "login"
        /\ p.who = who /\ p.num = n
    BY <1>1, <1>3, PageOfTab DEF PageFits, PageRecord
  <1>7. \A q \in net : q.tab # t
    BY <1>1, NothingWaited
  <1> HIDE DEF p, n, who
  <1>8. Grows /\ SealedTyped'
    BY <1>5 DEF Grows, CeremoniesSound, SealedTyped
  <1>9. KeysFit' /\ DevicesFit' /\ SessionsFit'
    <2>1. CASE UNCHANGED <<devices, sessions>>
      BY <1>1, <1>8, <2>1, ServerKeeps
    <2>2. CASE /\ key \in DOMAIN devices /\ UNCHANGED devices
               /\ sessions' = Beside(sessions, One(n, key))
      <3>1. Gains(sessions', sessions, n, key)
        BY <2>2, BesideOne, Zenon
      <3>2. n \in 1 .. Len(sealed)
        BY <1>3 DEF IsFor
      <3>3. \A s \in DOMAIN sessions' :
                \/ s \in DOMAIN sessions /\ sessions'[s] = sessions[s]
                \/ s \in 1 .. Len(sealed) /\ sessions'[s] \in DOMAIN devices
        BY <2>2, <3>1, <3>2 DEF Gains
      <3>4. QED
        BY <1>1, <1>8, <2>2, <3>3, ServerKeeps
    <2>3. QED
      BY <1>5, <2>1, <2>2
  <1>10. AnswerFits(r, p, sealed', over')
    BY <1>4, <1>5, <1>6 DEF Adds, AnswerFits, Waits, TellsOptions, TellsVerify
  <1>11. PagesFit' /\ AnswersFit' /\ OneAnswer'
    BY <1>2, <1>4, <1>5, <1>6, <1>7, <1>8, <1>10, TabAsks
  <1>12. QED
    BY <1>1, <1>8, <1>9, <1>11 DEF CeremoniesSound, JarTyped

LEMMA SessionProbed ==
    ASSUME CeremoniesSound, NEW t \in PageTabs, Probe(t)
    PROVE  CeremoniesSound'
  <1> DEFINE p == page[t]
  <1>1. p.at = "wait" /\ ~Waiting(t, "me") /\ Me(t) /\ UNCHANGED <<jar, page, keys>>
    BY DEF Probe
  <1>2. PICK r : Adds(r, t, "me") /\ UNCHANGED server
    BY <1>1, MeAnswers
  <1>3. Grows /\ SealedTyped' /\ KeysFit' /\ DevicesFit' /\ SessionsFit'
    BY <1>1, <1>2, ServerStays
  <1>4. page' = [page EXCEPT ![t] = p] /\ PageFits(p, sealed')
    BY <1>1, <1>3, PageOfTab, PageStillFits DEF CeremoniesSound, PagesFit
  <1>5. \A q \in net : q.tab = t => q.what # "me" /\ AnswerFits(q, p, sealed', over')
    BY <1>1, <1>3, AnswerStillFits DEF Waiting, CeremoniesSound, AnswersFit
  <1> HIDE DEF p
  <1>6. AnswerFits(r, p, sealed', over')
    BY <1>1, <1>2 DEF Adds, AnswerFits, Waits, TellsOptions, TellsVerify
  <1>7. PagesFit' /\ AnswersFit' /\ OneAnswer'
    BY <1>2, <1>3, <1>4, <1>5, <1>6, TabAsks
  <1>8. QED
    BY <1>1, <1>3, <1>7 DEF CeremoniesSound, JarTyped

LEMMA LoggedOut ==
    ASSUME CeremoniesSound, NEW t \in PageTabs, Logout(t)
    PROVE  CeremoniesSound'
  <1> DEFINE p == [page[t] EXCEPT !.at = "logout"]
             cookies == Beside(One("sid", None), One("wn", None))
  <1>1. /\ page[t].kind = "home" /\ page[t].at = "in"
        /\ sessions' = [s \in DOMAIN sessions \ {jar.sid} |-> sessions[s]]
        /\ Answers(t, "logout", "ok", cookies)
        /\ UNCHANGED <<jar, keys, sealed, over, members>>
    BY DEF Logout, Expired
  <1>2. page' = [page EXCEPT ![t] = p]
    BY DEF Logout, GoesTo, CeremoniesSound, PagesFit
  <1>3. PageFits(p, sealed) /\ p.at = "logout"
    BY <1>1, PageOfTab DEF PageFits, PageRecord
  <1>4. \A q \in net : q.tab # t
    BY <1>1, NothingWaited
  <1>5. /\ DOMAIN cookies \subseteq Cookies
        /\ \A name \in DOMAIN cookies : cookies[name] \in CookieValues
    <2> DEFINE f == One("sid", None)
    <2>1. DOMAIN f = {"sid"} /\ \A x \in DOMAIN f : f[x] = None
      BY DEF One
    <2> HIDE DEF f
    <2>2. Gains(Beside(f, One("wn", None)), f, "wn", None)
      BY BesideOne, Zenon
    <2>3. None \in CookieValues
      BY CeremoniesAssumption DEF None, CookieValues
    <2> DEFINE h == Beside(f, One("wn", None))
    <2> HIDE DEF h
    <2>4. Gains(h, f, "wn", None)
      BY <2>2 DEF h
    <2>5. \A name \in DOMAIN h : name \in Cookies /\ h[name] \in CookieValues
      BY <2>1, <2>3, <2>4 DEF Gains, Cookies
    <2>6. cookies = h
      BY DEF h, f
    <2>7. QED
      BY <2>5, <2>6
  <1> HIDE DEF p, cookies
  <1>6. PICK r : Adds(r, t, "logout")
    BY <1>1, <1>5, AnswerIs
  <1>7. UNCHANGED <<keys, devices, sealed, over>>
    BY <1>1 DEF members
  <1>8. Grows /\ SealedTyped'
    BY <1>7 DEF Grows, CeremoniesSound, SealedTyped
  <1>9. KeysFit' /\ DevicesFit' /\ SessionsFit'
    BY <1>1, <1>7, <1>8, ServerKeeps
  <1>10. AnswerFits(r, p, sealed', over')
    BY <1>3, <1>6 DEF Adds, AnswerFits, Waits, TellsOptions, TellsVerify
  <1>11. PagesFit' /\ AnswersFit' /\ OneAnswer'
    BY <1>2, <1>3, <1>4, <1>6, <1>7, <1>8, <1>10, TabAsks
  <1>12. QED
    BY <1>1, <1>8, <1>9, <1>11 DEF CeremoniesSound, JarTyped

\* What a page makes of an answer it waits for: a page that fits, and if it is
\* another page that stays open, one that waits for nothing but "me".
TakesUp(next, was, what) ==
    /\ PageFits(next, sealed)
    /\ \/ next = Closed
       \/ next = was
       \/ \A other : other # what /\ Waits(was, other) => other = "me" /\ Waits(next, other)

LEMMA ThenFits ==
    ASSUME NEW was, PageFits(was, sealed), NEW r, AnswerFits(r, was, sealed, over)
    PROVE  TakesUp(Then(was, r), was, r.what)
  <1> DEFINE ok == r.code = "ok"
             num == IF ok THEN r.cookies.wn ELSE None
             next == Then(was, r)
  <1>1. was \in PageRecord
    BY DEF PageFits
  <1>2. /\ Waits(was, r.what) /\ CookiesFit(r) /\ TellsOptions(r, was, sealed)
        /\ PageFits(Closed, sealed)
    BY BlankFits DEF AnswerFits
  <1>3. \A at \in {"form", "in", "wait"} : PageFits(Blank(was, at), sealed)
    BY <1>1, BlankFits DEF Blank, PageRecord
  <1>4. CASE was.at = "hydrate"
    <2>1. next = Shown(was, ok)
      BY <1>2, <1>4 DEF Then, Waits
    <2>2. next = Closed \/ \E at \in {"form", "in"} : next = Blank(was, at)
      BY <2>1 DEF Shown
    <2>3. PageFits(next, sealed)
      BY <1>2, <1>3, <2>2
    <2>4. \A other : Waits(was, other) => other = r.what
      BY <1>2, <1>4 DEF Waits
    <2>5. QED
      BY <2>3, <2>4 DEF TakesUp
  <1>5. CASE r.what = "options" /\ was.kind = "login"
    <2>1. was.at \in {"form", "wait"} /\ next = [was EXCEPT !.num = num]
      BY <1>2, <1>5 DEF Then, Waits
    <2>2. num \in CookieValues /\ (num # None => IsFor(sealed, num, "login"))
      BY <1>2, <1>5, CeremoniesAssumption DEF CookiesFit, TellsOptions, None, CookieValues
    <2> HIDE DEF num
    <2>3. /\ next.at = was.at /\ next.kind = was.kind
          /\ next.num = num /\ PageFits(next, sealed)
      BY <1>1, <1>5, <2>1, <2>2 DEF PageFits, PageRecord
    <2> HIDE DEF next
    <2>4. \A other : other # "options" /\ Waits(was, other)
                => other = "me" /\ Waits(next, other)
      BY <2>1, <2>3 DEF Waits
    <2>5. QED
      BY <1>5, <2>3, <2>4 DEF next, TakesUp
  <1>6. CASE r.what = "options" /\ was.kind # "login"
    <2>1. was.at = "options"
      BY <1>2, <1>6 DEF Waits
    <2>2. next = IF ok THEN [was EXCEPT !.at = "prompt", !.num = num] ELSE Blank(was, "form")
      BY <1>6, <2>1 DEF Then
    <2>3. ok => /\ num \in CookieValues
                /\ IsFor(sealed, num, was.kind) /\ IsMeantFor(sealed, num, was.who)
      BY <1>2, <1>6 DEF CookiesFit, TellsOptions
    <2> HIDE DEF num, ok
    <2>4. PageFits(next, sealed)
      <3>1. CASE ok
        BY <1>1, <1>6, <2>2, <2>3, <3>1 DEF PageFits, PageRecord
      <3>2. CASE ~ok
        BY <1>3, <2>2, <3>2
      <3>3. QED
        BY <3>1, <3>2
    <2>5. \A other : Waits(was, other) => other = r.what
      BY <1>6, <2>1 DEF Waits
    <2>6. QED
      BY <2>4, <2>5 DEF TakesUp
  <1>7. CASE r.what = "verify"
    <2>1. was.at = "verify"
      BY <1>2, <1>7 DEF Waits
    <2>2. next = IF ok /\ was.kind # "login" THEN Closed
                 ELSE Blank(was, IF ok THEN "wait" ELSE "form")
      BY <1>7, <2>1 DEF Then
    <2>3. PageFits(next, sealed)
      BY <1>2, <1>3, <2>2
    <2>4. \A other : Waits(was, other) => other = r.what
      BY <1>7, <2>1 DEF Waits
    <2>5. QED
      BY <2>3, <2>4 DEF TakesUp
  <1>8. CASE r.what = "me" /\ was.at = "wait"
    <2>1. next = IF ok THEN Closed ELSE was
      BY <1>8 DEF Then
    <2>2. QED
      BY <1>2, <2>1 DEF TakesUp
  <1>9. CASE r.what = "logout"
    <2>1. was.at = "logout"
      BY <1>2, <1>9 DEF Waits
    <2>2. next = Closed
      BY <1>9, <2>1 DEF Then
    <2>3. QED
      BY <1>2, <2>2 DEF TakesUp
  <1>10. QED
    BY <1>2, <1>4, <1>5, <1>6, <1>7, <1>8, <1>9 DEF Waits

LEMMA AnswerHeard ==
    ASSUME CeremoniesSound, NEW r \in net, NEW heard, heard.what = r.what,
           AnswerFits(heard, page[r.tab], sealed, over), Hears(r, heard)
    PROVE  CeremoniesSound'
  <1> DEFINE t == r.tab
             was == page[t]
             next == Then(was, heard)
  <1>1. t \in PageTabs
    BY DEF CeremoniesSound, AnswersFit
  <1>2. /\ jar' = Beside(heard.cookies, jar) /\ page' = [page EXCEPT ![t] = next]
        /\ net' = (IF next = Closed THEN Elsewhere(t) ELSE net) \ {r}
        /\ UNCHANGED <<keys, server>>
    BY DEF Hears, Kept
  <1>3. JarTyped'
    <2>1. CookiesFit(heard)
      BY DEF AnswerFits
    <2>2. QED
      BY <1>2, <2>1, CookiesKept DEF CeremoniesSound, JarTyped, CookiesFit
  <1>4. /\ Grows /\ SealedTyped' /\ KeysFit' /\ DevicesFit' /\ SessionsFit'
        /\ UNCHANGED <<sealed, over>>
    BY <1>2, ServerStays DEF server
  <1>5. TakesUp(next, was, heard.what)
    BY <1>1, PageOfTab, ThenFits
  <1> HIDE DEF next
  <1>6. \A q \in net' : q \in net /\ q # r
    BY <1>2 DEF Elsewhere
  <1>7. ASSUME NEW q \in net', q.tab = t
        PROVE  AnswerFits(q, next, sealed, over)
    <2>1. q \in net /\ q # r /\ next # Closed
      BY <1>2, <1>7 DEF Elsewhere
    <2>2. AnswerFits(q, was, sealed, over) /\ q.what # heard.what
      BY <1>7, <2>1 DEF CeremoniesSound, AnswersFit, OneAnswer
    <2>3. next = was \/ (q.what = "me" /\ Waits(next, q.what))
      BY <1>5, <2>1, <2>2 DEF AnswerFits, TakesUp
    <2>4. QED
      BY <2>2, <2>3 DEF AnswerFits, TellsOptions, TellsVerify
  <1>8. \A q, s \in net' : q.tab = t /\ s.tab = t /\ q.what = s.what => q = s
    BY <1>6 DEF CeremoniesSound, OneAnswer
  <1> HIDE DEF t, was
  <1>9. PagesFit' /\ AnswersFit' /\ OneAnswer'
    <2>1. /\ PagesFit /\ AnswersFit /\ OneAnswer /\ PageFits(next, sealed')
          /\ \A q \in net' : q \in net \/ q.tab = t
          /\ \A q \in net' : q.tab = t => AnswerFits(q, next, sealed', over')
      BY <1>4, <1>5, <1>6, <1>7 DEF CeremoniesSound, TakesUp
    <2>2. QED
      BY <1>1, <1>2, <1>4, <1>8, <2>1, TabMoves
  <1>10. QED
    BY <1>3, <1>4, <1>9 DEF CeremoniesSound

LEMMA AnswerArrives ==
    ASSUME CeremoniesSound, NEW r \in net, Arrive(r) \/ Lose(r)
    PROVE  CeremoniesSound'
  <1>1. AnswerFits(r, page[r.tab], sealed, over)
    BY DEF CeremoniesSound, AnswersFit
  <1>2. CASE Arrive(r)
    BY <1>1, <1>2, AnswerHeard DEF Arrive
  <1>3. CASE Lose(r)
    <2> DEFINE heard == Answer(r.tab, r.what, "request_failed", <<>>)
    <2>1. /\ heard.what = r.what /\ heard.code = "request_failed" /\ heard.cookies = <<>>
          /\ Hears(r, heard)
      BY <1>3 DEF Lose, Answer
    <2> HIDE DEF heard
    <2>2. CookiesFit(heard)
      BY <2>1, NothingHas DEF CookiesFit
    <2>3. AnswerFits(heard, page[r.tab], sealed, over)
      BY <1>1, <2>1, <2>2 DEF AnswerFits, TellsOptions, TellsVerify
    <2>4. QED
      BY <2>1, <2>3, AnswerHeard
  <1>4. QED
    BY <1>2, <1>3

LEMMA ChallengeRunsOut ==
    ASSUME CeremoniesSound, NEW n \in DOMAIN sealed \ over, RunOut(n)
    PROVE  CeremoniesSound'
  <1>1. /\ over' = over \cup {n}
        /\ jar' = IF jar.wn = n THEN Beside(One("wn", None), jar) ELSE jar
        /\ UNCHANGED <<page, net, keys, sealed, devices, sessions>>
    BY DEF RunOut, Kept, Expired, members
  <1>2. n \in 1 .. Len(sealed)
    BY DEF CeremoniesSound, SealedTyped
  <1>3. Grows /\ SealedTyped'
    BY <1>1, <1>2 DEF Grows, CeremoniesSound, SealedTyped
  <1>4. KeysFit' /\ DevicesFit' /\ SessionsFit'
    BY <1>1, <1>3, ServerKeeps
  <1>5. JarTyped'
    <2> DEFINE f == One("wn", None)
    <2>1. DOMAIN f = {"wn"} /\ \A x \in DOMAIN f : f[x] = None
      BY DEF One
    <2>2. None \in CookieValues
      BY CeremoniesAssumption DEF None, CookieValues
    <2>3. jar' = IF jar.wn = n THEN Beside(f, jar) ELSE jar
      BY <1>1
    <2> HIDE DEF f
    <2>4. Beside(f, jar) \in [Cookies -> CookieValues]
      BY <2>1, <2>2, CookiesKept DEF Cookies, CeremoniesSound, JarTyped
    <2>5. QED
      BY <2>3, <2>4 DEF CeremoniesSound, JarTyped
  <1>6. PagesFit'
    BY <1>1, <1>3, PageStillFits DEF CeremoniesSound, PagesFit
  <1>7. AnswersFit' /\ OneAnswer'
    <2>1. \A r \in net : r.tab \in PageTabs /\ AnswerFits(r, page[r.tab], sealed', over')
      BY <1>3, AnswerStillFits DEF CeremoniesSound, AnswersFit
    <2>2. QED
      BY <1>1, <2>1 DEF CeremoniesSound, AnswersFit, OneAnswer
  <1>8. QED
    BY <1>3, <1>4, <1>5, <1>6, <1>7 DEF CeremoniesSound

LEMMA CeremoniesBegin == CerInit => CeremoniesSound
  <1> SUFFICES ASSUME CerInit PROVE CeremoniesSound
    OBVIOUS
  <1>1. /\ jar = [name \in {"sid", "wn"} |-> None] /\ page = [t \in PageTabs |-> Closed]
        /\ keys \in {<<>>, One(Earlier, Known)} /\ devices = keys
        /\ net = {} /\ sealed = <<>> /\ over = {} /\ sessions = <<>>
    BY DEF CerInit
  <1>2. JarTyped
    BY <1>1, CeremoniesAssumption DEF JarTyped, Cookies, CookieValues, None
  <1>3. SealedTyped /\ 1 .. Len(sealed) = {}
    BY <1>1, CeremoniesAssumption DEF SealedTyped
  <1>4. KeysFit
    <2>1. CASE keys = <<>>
      BY <2>1, NothingHas DEF KeysFit
    <2>2. CASE keys = One(Earlier, Known)
      <3>1. DOMAIN keys = {Earlier} /\ keys[Earlier] = Known
        BY <2>2, OneHas
      <3>2. QED
        BY <1>3, <3>1 DEF KeysFit, Handled
    <2>3. QED
      BY <1>1, <2>1, <2>2
  <1>5. DevicesFit /\ SessionsFit
    <2>1. DOMAIN sessions = {}
      BY <1>1, NothingHas
    <2>2. QED
      BY <1>1, <2>1 DEF DevicesFit, SessionsFit
  <1>6. PagesFit
    BY <1>1, BlankFits DEF PagesFit
  <1>7. AnswersFit /\ OneAnswer
    BY <1>1 DEF AnswersFit, OneAnswer
  <1>8. QED
    BY <1>2, <1>3, <1>4, <1>5, <1>6, <1>7 DEF CeremoniesSound

LEMMA CeremoniesKept == CeremoniesSound /\ [CerNext]_cerVars => CeremoniesSound'
  <1> SUFFICES ASSUME CeremoniesSound, [CerNext]_cerVars PROVE CeremoniesSound'
    OBVIOUS
  <1>1. CASE CerNext
    <2>1. ASSUME NEW t \in PageTabs, NEW kind \in {"join", "enroll", "login", "home"},
                 Visit(t, kind)
          PROVE  CeremoniesSound'
      BY <2>1, PageOpens
    <2>2. ASSUME NEW t \in PageTabs, LeavePage(t) \/ Register(t) \/ DismissPrompt(t)
          PROVE  CeremoniesSound'
      BY <2>2, PageLeaves, PasskeyMade, PromptDismissed
    <2>3. ASSUME NEW t \in PageTabs, LoadChallenge(t) \/ Probe(t) \/ Logout(t)
          PROVE  CeremoniesSound'
      BY <2>3, ChallengeLoads, SessionProbed, LoggedOut
    <2>4. ASSUME NEW t \in PageTabs, NEW who \in Joiners \cup {FirstAdmin},
                 NEW link \in Links \cup {Nobody}, Submit(t, who, link)
          PROVE  CeremoniesSound'
      BY <2>4, FormSubmitted
    <2>5. ASSUME NEW t \in PageTabs, NEW key \in DOMAIN keys, Login(t, key)
          PROVE  CeremoniesSound'
      BY <2>5, LoginPosted
    <2>6. ASSUME NEW r \in net, Arrive(r) \/ Lose(r) PROVE CeremoniesSound'
      BY <2>6, AnswerArrives
    <2>7. ASSUME NEW n \in DOMAIN sealed \ over, RunOut(n) PROVE CeremoniesSound'
      BY <2>7, ChallengeRunsOut
    <2>8. QED
      BY <1>1, <2>1, <2>2, <2>3, <2>4, <2>5, <2>6, <2>7 DEF CerNext
  <1>2. CASE UNCHANGED cerVars
    <2>1. UNCHANGED <<keys, server>> /\ UNCHANGED <<jar, page, net, sealed, over>>
      BY <1>2 DEF cerVars, server, members
    <2>2. Grows /\ SealedTyped' /\ KeysFit' /\ DevicesFit' /\ SessionsFit'
      BY <2>1, ServerStays
    <2>3. PagesFit' /\ AnswersFit' /\ OneAnswer' /\ JarTyped'
      BY <2>1 DEF CeremoniesSound, PagesFit, AnswersFit, OneAnswer, JarTyped
    <2>4. QED
      BY <2>2, <2>3 DEF CeremoniesSound
  <1>3. QED
    BY <1>1, <1>2

LEMMA CeremoniesAreSound == CerSpec => []CeremoniesSound
  BY CeremoniesBegin, CeremoniesKept, PTL DEF CerSpec

\* A prompt has a challenge, an answer a page that is open, a session a device
\* the browser has the passkey of.
THEOREM CeremoniesTypeCorrect == CerSpec => []CeremoniesOK
  <1>1. ASSUME CeremoniesSound PROVE CeremoniesOK
    <2>1. jar \in [{"sid", "wn"} -> 0 .. MaxChallenges]
      BY <1>1 DEF CeremoniesSound, JarTyped, Cookies, CookieValues
    <2>2. DOMAIN sealed = 1 .. Len(sealed)
      BY <1>1 DEF CeremoniesSound, SealedTyped
    <2>3. ASSUME NEW t \in PageTabs
          PROVE  /\ page[t].at \in {"closed", "hydrate", "form", "options", "prompt", "verify",
                                    "wait", "in", "logout"}
                 /\ page[t].at = "prompt" => page[t].num \in DOMAIN sealed
      BY <1>1, <2>2, PageOfTab DEF PageFits, PageRecord, IsFor
    <2>4. \A r \in net : r.tab \in PageTabs /\ page[r.tab] # Closed
      BY <1>1 DEF CeremoniesSound, AnswersFit, AnswerFits, Waits, Closed
    <2>5. QED
      BY <1>1, <2>1, <2>2, <2>3, <2>4
         DEF CeremoniesOK, CeremoniesSound, SealedTyped, DevicesFit, SessionsFit
  <1>2. QED
    BY <1>1, CeremoniesAreSound, PTL

\* registerVerify and loginVerify over a jar that all tabs share: a passkey
\* belongs to the member its prompt was for, and an answer signs a tab in as the
\* member the tab asked for.
THEOREM PasskeysAsMeant == CerSpec => []EnrolledAsMeant
  <1>1. ASSUME CeremoniesSound PROVE EnrolledAsMeant
    BY <1>1 DEF CeremoniesSound, DevicesFit, AnswersFit, AnswerFits, TellsVerify, EnrolledAsMeant
  <1>2. QED
    BY <1>1, CeremoniesAreSound, PTL

\* postLoginVerify takes the challenge the page signed: no other tab's cookie
\* undoes a login.
THEOREM LoginsUndisturbed == CerSpec => []LoginUndisturbed
  <1>1. ASSUME CeremoniesSound PROVE LoginUndisturbed
    BY <1>1 DEF CeremoniesSound, AnswersFit, AnswerFits, TellsVerify, LoginUndisturbed
  <1>2. QED
    BY <1>1, CeremoniesAreSound, PTL

-----------------------------------------------------------------------------
(* Files: what opens is whole.                                             *)
(*                                                                         *)
(* First what the model's operators do with any file: a file that is split *)
(* and joined again is itself, however long it is; the sealed parts have   *)
(* the shape and the names the reader counts on; opening some of the first *)
(* parts gives the whole file if they are all of them, and nothing if not. *)
(* Then the invariant: whatever there is of a file (in the bucket, on its  *)
(* way, in a list, with the reader) was made from what was sent, and while *)
(* a file's row is committed no part of it is missing.                     *)

\* A set of naturals that is not empty has a least one.
LEMMA LeastNatural ==
    ASSUME NEW T \in SUBSET Nat, T # {}
    PROVE  \E n \in T : \A m \in T : ~ (m < n)
<1> DEFINE R == OpToRel(<, Nat)
<1>1. IsWellFoundedOn(R, Nat)
  BY NatLessThanWellFounded DEF OpToRel
<1>2. \A m, n \in Nat : m < n => <<m, n>> \in R
  BY DEF OpToRel
<1> HIDE DEF R
<1>3. \E n \in T : \A m \in T : ~ (<<m, n>> \in R)
  BY <1>1, WFMin
<1> QED
  BY <1>2, <1>3

\* Induction over the naturals, on the set of those that have the property.
LEMMA Induction ==
    ASSUME NEW T, 0 \in T, \A n \in Nat : n \in T => n + 1 \in T
    PROVE  Nat \subseteq T
<1> SUFFICES ASSUME Nat \ T # {}
             PROVE  FALSE
  OBVIOUS
<1>1. PICK n \in Nat \ T : \A m \in Nat \ T : ~ (m < n)
  BY LeastNatural
<1>2. n # 0 /\ n - 1 \in Nat /\ n - 1 < n
  BY <1>1
<1>3. n - 1 \in T
  BY <1>1, <1>2
<1>4. (n - 1) + 1 \in T
  BY <1>2, <1>3
<1> QED
  BY <1>1, <1>4

\* What FlattenSeq chooses: up to the i-th, the sequences of s one after another.
Joined(s, n, f) == [i \in 1 .. n |-> IF i = 1 THEN s[i] ELSE f[i - 1] \o s[i]]
Flattening(s, f) == f = Joined(s, Len(s), f)

\* The function FlattenSeq chooses is there: by induction over the length.
LEMMA FlatteningExists ==
    ASSUME NEW S, NEW s \in Seq(Seq(S))
    PROVE  \E f : Flattening(s, f)
<1> DEFINE Upto(n, f) == f = Joined(s, n, f)
           T == {n \in Nat : n <= Len(s) => \E f : Upto(n, f)}
<1>0. \A n \in Nat : n \in T <=> (n <= Len(s) => \E f : Upto(n, f))
  OBVIOUS
<1> HIDE DEF T
<1>1. 0 \in T
  <2>1. Upto(0, <<>>)
    BY DEF Joined
  <2> QED
    BY <1>0, <2>1
<1>2. ASSUME NEW n \in Nat, n \in T
      PROVE  n + 1 \in T
  <2> HIDE DEF Upto
  <2> SUFFICES ASSUME n + 1 <= Len(s)
               PROVE  \E f : Upto(n + 1, f)
    BY <1>0
  <2>0. n <= Len(s)
    OBVIOUS
  <2>1. PICK f : Upto(n, f)
    BY <1>0, <1>2, <2>0
  <2> USE DEF Upto, Joined
  <2> DEFINE g == [i \in 1 .. n + 1 |->
                      IF i = n + 1 THEN IF i = 1 THEN s[i] ELSE f[n] \o s[i] ELSE f[i]]
             h == [i \in 1 .. n + 1 |-> IF i = 1 THEN s[i] ELSE g[i - 1] \o s[i]]
  <2>2. ASSUME NEW i \in 1 .. n + 1
        PROVE  g[i] = h[i]
    <3>1. CASE i = n + 1
      BY <3>1
    <3>2. CASE i # n + 1
      <4>1. i \in 1 .. n
        BY <3>2
      <4>2. f[i] = IF i = 1 THEN s[i] ELSE f[i - 1] \o s[i]
        BY <2>1, <4>1
      <4>3. i # 1 => i - 1 \in 1 .. n + 1 /\ i - 1 # n + 1
        BY <4>1
      <4> QED
        BY <3>2, <4>1, <4>2, <4>3
    <3> QED
      BY <3>1, <3>2
  <2>3. g = h
    BY <2>2
  <2>4. Upto(n + 1, g)
    BY <2>3
  <2> QED
    BY <2>4
<1>3. Nat \subseteq T
  BY <1>1, <1>2, Induction
<1>4. Len(s) \in Nat /\ Len(s) \in T
  BY <1>3
<1> HIDE DEF Upto
<1>5. PICK f : Upto(Len(s), f)
  BY <1>0, <1>4
<1>6. Flattening(s, f)
  BY <1>5 DEF Upto, Flattening
<1> QED
  BY <1>6

\* FlattenSeq is the last value of that function.
LEMMA FlattenedBy ==
    ASSUME NEW S, NEW s \in Seq(Seq(S)), Len(s) # 0
    PROVE  \E f : Flattening(s, f) /\ FlattenSeq(s) = f[Len(s)]
<1> DEFINE f == CHOOSE h : Flattening(s, h)
<1>1. Flattening(s, f)
  BY FlatteningExists
<1>2. FlattenSeq(s) = f[Len(s)]
  BY DEF FlattenSeq, Flattening, Joined
<1> HIDE DEF f
<1> QED
  BY <1>1, <1>2

\* Where the i-th chunk ends.
Cut(s, i) == IF i * ChunkSize < Len(s) THEN i * ChunkSize ELSE Len(s)

\* The chunks lie one after another and the last ends where the file does.
LEMMA SplitShape ==
    ASSUME NEW S, NEW s \in Seq(S)
    PROVE  /\ Split(s) \in Seq(Seq(S))
           /\ Len(Split(s)) \in Nat
           /\ s # <<>> => Len(Split(s)) > 0
           /\ Cut(s, Len(Split(s))) = Len(s)
           /\ \A i \in 1 .. Len(Split(s)) :
                  /\ (i - 1) * ChunkSize < Len(s)
                  /\ Split(s)[i] = SubSeq(s, (i - 1) * ChunkSize + 1, Cut(s, i))
<1> DEFINE n == (Len(s) + ChunkSize - 1) \div ChunkSize
<1>1. ChunkSize \in Nat \ {0} /\ Len(s) \in Nat
  BY FilesAssumption
<1>2. n \in Nat /\ n * ChunkSize >= Len(s) /\ (n > 0 => (n - 1) * ChunkSize < Len(s))
      /\ (Len(s) > 0 => n > 0)
  BY <1>1
<1> HIDE DEF n
<1>3. \A i \in 1 .. n : (i - 1) * ChunkSize \in Nat /\ (i - 1) * ChunkSize <= (n - 1) * ChunkSize
                        /\ i * ChunkSize = (i - 1) * ChunkSize + ChunkSize
  BY <1>1, <1>2
<1>4. Split(s) = [i \in 1 .. n |-> SubSeq(s, (i - 1) * ChunkSize + 1, Cut(s, i))]
  BY DEF Split, Cut, n
<1>5. \A i \in 1 .. n : (i - 1) * ChunkSize < Len(s)
  BY <1>1, <1>2, <1>3
<1>6. \A i \in 1 .. n : Cut(s, i) \in 1 .. Len(s) /\ (i - 1) * ChunkSize + 1 \in 1 .. Len(s)
  BY <1>1, <1>3, <1>5 DEF Cut
<1>7. ASSUME NEW i \in 1 .. n
      PROVE  SubSeq(s, (i - 1) * ChunkSize + 1, Cut(s, i)) \in Seq(S)
  BY <1>6, <1>7
<1>8. Split(s) \in Seq(Seq(S)) /\ Len(Split(s)) = n
  <2> DEFINE chunk(i) == SubSeq(s, (i - 1) * ChunkSize + 1, Cut(s, i))
  <2>1. Split(s) = [i \in 1 .. n |-> chunk(i)] /\ \A i \in 1 .. n : chunk(i) \in Seq(S)
    BY <1>4, <1>7
  <2> HIDE DEF chunk
  <2> DEFINE T == Seq(S)
  <2>2. \A i \in 1 .. n : chunk(i) \in T
    BY <2>1
  <2> HIDE DEF T
  <2>3. Split(s) \in Seq(T) /\ Len(Split(s)) = n
    BY <1>2, <2>1, <2>2
  <2> QED
    BY <2>3 DEF T
<1>9. Cut(s, n) = Len(s)
  BY <1>1, <1>2 DEF Cut
<1>10. s # <<>> => n > 0
  BY <1>1, <1>2
<1> QED
  BY <1>2, <1>4, <1>5, <1>8, <1>9, <1>10

\* A file that was split is whole again when its chunks are joined.
LEMMA JoinedAgain ==
    ASSUME NEW S, NEW s \in Seq(S), s # <<>>
    PROVE  FlattenSeq(Split(s)) = s
<1> DEFINE n == Len(Split(s))
<1>1. ChunkSize \in Nat \ {0} /\ Len(s) \in Nat
  BY FilesAssumption
<1>2. /\ Split(s) \in Seq(Seq(S))
      /\ n \in Nat \ {0}
      /\ Cut(s, n) = Len(s)
      /\ \A i \in 1 .. n :
                  /\ (i - 1) * ChunkSize < Len(s)
                  /\ Split(s)[i] = SubSeq(s, (i - 1) * ChunkSize + 1, Cut(s, i))
  BY SplitShape
<1>3. PICK f : Flattening(Split(s), f) /\ FlattenSeq(Split(s)) = f[n]
  BY <1>2, FlattenedBy
<1>4. \A i \in 1 .. n : f[i] = IF i = 1 THEN Split(s)[i] ELSE f[i - 1] \o Split(s)[i]
  BY <1>3 DEF Flattening, Joined
<1> DEFINE T == {k \in Nat : k + 1 <= n => f[k + 1] = SubSeq(s, 1, Cut(s, k + 1))}
<1>5. \A k \in Nat : k \in T <=> (k + 1 <= n => f[k + 1] = SubSeq(s, 1, Cut(s, k + 1)))
  OBVIOUS
<1> HIDE DEF T, n
<1>6. 0 \in T
  <2>1. f[1] = Split(s)[1] /\ 1 \in 1 .. n
    BY <1>2, <1>4
  <2>2. (1 - 1) * ChunkSize + 1 = 1
    BY <1>1
  <2>3. Split(s)[1] = SubSeq(s, 1, Cut(s, 1))
    BY <1>2, <2>1, <2>2
  <2>4. 0 + 1 = 1
    OBVIOUS
  <2> QED
    BY <1>5, <2>1, <2>3, <2>4
<1>7. ASSUME NEW k \in Nat, k \in T
      PROVE  k + 1 \in T
  <2> SUFFICES ASSUME k + 2 <= n
               PROVE  f[k + 2] = SubSeq(s, 1, Cut(s, k + 2))
    <3>1. (k + 1) + 1 = k + 2 /\ k + 1 \in Nat
      OBVIOUS
    <3> QED
      BY <1>5, <3>1
  <2>1. k + 1 <= n /\ k + 2 \in 1 .. n /\ k + 1 \in 1 .. n /\ k + 2 # 1 /\ (k + 2) - 1 = k + 1
    BY <1>2
  <2>2. f[k + 1] = SubSeq(s, 1, Cut(s, k + 1))
    BY <1>5, <1>7, <2>1
  <2>3. f[k + 2] = f[k + 1] \o Split(s)[k + 2]
    BY <1>4, <2>1
  <2>4. Split(s)[k + 2] = SubSeq(s, (k + 1) * ChunkSize + 1, Cut(s, k + 2))
        /\ (k + 1) * ChunkSize < Len(s)
    BY <1>2, <2>1
  <2>5. Cut(s, k + 1) = (k + 1) * ChunkSize /\ (k + 1) * ChunkSize \in Nat
    BY <1>1, <2>4 DEF Cut
  <2>6. (k + 2) * ChunkSize = (k + 1) * ChunkSize + ChunkSize
    BY <1>1
  <2> DEFINE a == (k + 1) * ChunkSize
             b == Cut(s, k + 2)
  <2>7. a \in Nat /\ b \in Nat /\ a <= b /\ b <= Len(s)
    BY <1>1, <2>4, <2>5, <2>6 DEF Cut
  <2>8. f[k + 2] = SubSeq(s, 1, a) \o SubSeq(s, a + 1, b)
    BY <2>2, <2>3, <2>4, <2>5
  <2> HIDE DEF a, b
  <2>9. SubSeq(s, 1, a) \o SubSeq(s, a + 1, b) = SubSeq(s, 1, b)
    BY <2>7
  <2> QED
    BY <2>8, <2>9 DEF b
<1>8. n - 1 \in T /\ (n - 1) + 1 = n /\ n - 1 \in Nat
  <2>1. Nat \subseteq T
    BY <1>6, <1>7, Induction
  <2> QED
    BY <1>2, <2>1
<1>9. f[n] = SubSeq(s, 1, Len(s))
  BY <1>2, <1>5, <1>8
<1>10. SubSeq(s, 1, Len(s)) = s
  OBVIOUS
<1> QED
  BY <1>3, <1>9, <1>10 DEF n

\* The function that SizeOf chooses: the bytes of the parts of a set.
Sum(parts, f) ==
    f = [s \in SUBSET (DOMAIN parts) |->
            IF s = {} THEN 0 ELSE f[s \ {Max(s)}] + CipherBytes(parts[Max(s)])]

\* Max chooses the last of the parts.
LEMMA MaxIsLast ==
    ASSUME NEW n \in Nat, NEW s \in SUBSET (1 .. n + 1), n + 1 \in s
    PROVE  Max(s) = n + 1
<1> DEFINE IsMax(x) == x \in s /\ \A y \in s : x >= y
<1>1. IsMax(n + 1)
  <2>1. \A y \in s : y \in 1 .. n + 1
    OBVIOUS
  <2> QED
    BY <2>1
<1>2. ASSUME NEW x, IsMax(x)
      PROVE  x = n + 1
  <2>1. x \in 1 .. n + 1 /\ x >= n + 1
    BY <1>2
  <2> QED
    BY <2>1
<1> QED
  BY <1>1, <1>2, Zenon DEF Max

\* The function SizeOf chooses is there: by induction over the number of parts.
LEMMA SumExists ==
    ASSUME NEW parts, NEW n \in Nat, DOMAIN parts = 1 .. n
    PROVE  \E f : Sum(parts, f)
<1> DEFINE Upto(k, f) ==
               f = [s \in SUBSET (1 .. k) |->
                       IF s = {} THEN 0 ELSE f[s \ {Max(s)}] + CipherBytes(parts[Max(s)])]
           T == {k \in Nat : \E f : Upto(k, f)}
<1>0. \A k \in Nat : k \in T <=> \E f : Upto(k, f)
  OBVIOUS
<1> HIDE DEF T
<1>1. 0 \in T
  <2> DEFINE f == [s \in SUBSET (1 .. 0) |-> 0]
             h == [s \in SUBSET (1 .. 0) |->
                       IF s = {} THEN 0 ELSE f[s \ {Max(s)}] + CipherBytes(parts[Max(s)])]
  <2>1. \A s \in SUBSET (1 .. 0) : s = {}
    OBVIOUS
  <2>2. \A s \in SUBSET (1 .. 0) : f[s] = h[s]
    BY <2>1
  <2>3. f = h
    BY <2>2
  <2>4. Upto(0, f)
    BY <2>3
  <2> HIDE DEF f, Upto
  <2> QED
    BY <1>0, <2>4
<1>2. ASSUME NEW k \in Nat, k \in T
      PROVE  k + 1 \in T
  <2>1. PICK f : Upto(k, f)
    BY <1>0, <1>2
  <2> DEFINE g == [s \in SUBSET (1 .. k + 1) |->
                      IF k + 1 \in s THEN f[s \ {k + 1}] + CipherBytes(parts[k + 1]) ELSE f[s]]
             h == [s \in SUBSET (1 .. k + 1) |->
                       IF s = {} THEN 0 ELSE g[s \ {Max(s)}] + CipherBytes(parts[Max(s)])]
  <2>2. ASSUME NEW s \in SUBSET (1 .. k + 1)
        PROVE  g[s] = h[s]
    <3>1. CASE k + 1 \in s
      <4>1. Max(s) = k + 1
        BY <3>1, MaxIsLast
      <4>2. s \ {k + 1} \in SUBSET (1 .. k + 1) /\ k + 1 \notin s \ {k + 1} /\ s # {}
        BY <3>1
      <4>3. g[s \ {k + 1}] = f[s \ {k + 1}]
        BY <4>2
      <4> QED
        BY <3>1, <4>1, <4>2, <4>3
    <3>2. CASE k + 1 \notin s
      <4>1. s \in SUBSET (1 .. k)
        BY <3>2
      <4>2. f[s] = IF s = {} THEN 0 ELSE f[s \ {Max(s)}] + CipherBytes(parts[Max(s)])
        BY <2>1, <4>1
      <4>3. s \ {Max(s)} \in SUBSET (1 .. k + 1) /\ k + 1 \notin s \ {Max(s)}
        BY <3>2
      <4>4. g[s \ {Max(s)}] = f[s \ {Max(s)}]
        BY <4>3
      <4> QED
        BY <3>2, <4>2, <4>4
    <3> QED
      BY <3>1, <3>2
  <2>3. g = h
    BY <2>2
  <2>4. Upto(k + 1, g)
    BY <2>3
  <2> HIDE DEF g, Upto
  <2> QED
    BY <1>0, <2>4
<1>3. Nat \subseteq T
  BY <1>1, <1>2, Induction
<1> HIDE DEF Upto
<1>4. PICK f : Upto(n, f)
  BY <1>0, <1>3
<1>5. Sum(parts, f)
  BY <1>4 DEF Sum, Upto
<1> QED
  BY <1>5

\* Parts take a byte at least each.
LEMMA PartsTakeBytes ==
    ASSUME NEW parts, NEW n \in Nat, DOMAIN parts = 1 .. n,
           \A i \in 1 .. n : CipherBytes(parts[i]) \in Nat \ {0}
    PROVE  SizeOf(parts) \in Nat /\ SizeOf(parts) >= n
<1> DEFINE f == CHOOSE h : Sum(parts, h)
<1>1. Sum(parts, f)
  BY SumExists
<1>2. SizeOf(parts) = f[DOMAIN parts]
  BY DEF SizeOf, FoldLeft, MapThenFoldSet, Sum
<1> HIDE DEF f
<1> DEFINE T == {k \in Nat : k <= n => f[1 .. k] \in Nat /\ f[1 .. k] >= k}
<1>3. \A k \in Nat : k \in T <=> (k <= n => f[1 .. k] \in Nat /\ f[1 .. k] >= k)
  OBVIOUS
<1> HIDE DEF T
<1>4. \A s \in SUBSET (1 .. n) :
         f[s] = IF s = {} THEN 0 ELSE f[s \ {Max(s)}] + CipherBytes(parts[Max(s)])
  BY <1>1 DEF Sum
<1>5. 0 \in T
  <2>1. {} \in SUBSET (1 .. n) /\ 1 .. 0 = {}
    OBVIOUS
  <2>2. f[{}] = 0
    BY <1>4, <2>1
  <2> QED
    BY <1>3, <2>1, <2>2
<1>6. ASSUME NEW k \in Nat, k \in T
      PROVE  k + 1 \in T
  <2> SUFFICES ASSUME k + 1 <= n
               PROVE  f[1 .. k + 1] \in Nat /\ f[1 .. k + 1] >= k + 1
    BY <1>3
  <2>1. k <= n /\ f[1 .. k] \in Nat /\ f[1 .. k] >= k
    BY <1>3, <1>6
  <2>2. Max(1 .. k + 1) = k + 1
    BY MaxIsLast
  <2>3. /\ (1 .. k + 1) \ {k + 1} = 1 .. k
        /\ k + 1 \in 1 .. k + 1
        /\ 1 .. k + 1 \in SUBSET (1 .. n)
        /\ k + 1 \in 1 .. n
    <3>1. (1 .. k + 1) \ {k + 1} = 1 .. k
      OBVIOUS
    <3>2. 1 .. k + 1 \subseteq 1 .. n
      OBVIOUS
    <3> QED
      BY <3>1, <3>2
  <2>4. f[1 .. k + 1] = f[1 .. k] + CipherBytes(parts[k + 1])
    BY <1>4, <2>2, <2>3
  <2> QED
    BY <2>1, <2>3, <2>4
<1>7. n \in T
  <2>1. Nat \subseteq T
    BY <1>5, <1>6, Induction
  <2> QED
    BY <2>1
<1>8. n <= n
  OBVIOUS
<1> QED
  BY <1>2, <1>3, <1>7, <1>8

FileKinds == {"image", "file"}
Symbols == Bytes \cup {"run", "raw"} \cup Nat

\* What a file's parts, its meta and its row are, by name.
KeyOf(x) == <<"fileKey", x>>
BaseOf(x) == <<"baseIv", x>>
Chunks(file) == Split(Packed(file).bytes)
Count(file) == Len(Chunks(file))
PartNames(file) == (0 .. Count(file) - 1) \cup {Trailer}
Part(x, file, kind, n) ==
    IF n = Trailer
    THEN SealedWith(KeyOf(x), <<Count(file)>>, ChunkIv(BaseOf(x), TrailerIndex), Aad(x, kind))
    ELSE SealedWith(KeyOf(x), Chunks(file)[n + 1], ChunkIv(BaseOf(x), n), Aad(x, kind))
NameIn(file, i) == IF i = Count(file) + 1 THEN Trailer ELSE i - 1
MetaOf(x, file) ==
    [size |-> Len(file), compression |-> Packed(file).compression, baseIv |-> BaseOf(x)]
RowOf(x, file, kind) ==
    [kind |-> kind, blob |-> x, meta |-> SealedMeta("vault", MetaOf(x, file), x, kind),
     wrapped |-> Wrapped("vault", KeyOf(x))]

Files == Contents \ {<<>>}

\* What is packed is not empty and unpacks to the file.
LEMMA PackedShape ==
    ASSUME NEW file \in Files
    PROVE  /\ Packed(file).bytes \in Seq(Symbols) \ {<<>>}
           /\ Packed(file).compression \in {"none", "gzip"}
           /\ Unpacked(Packed(file).bytes, Packed(file).compression) = file
<1>1. file \in Seq(Bytes) /\ file # <<>> /\ Len(file) \in Nat
  BY FilesAssumption DEF Files
<1>2. file \in Seq(Symbols)
  BY <1>1 DEF Symbols
<1>3. Nothing \notin Seq(Symbols)
  BY NothingAssumption DEF Plain, Symbols
<1>4. CASE Len(file) < MinCompress \/ Len(Gzip(file)) >= Len(file)
  <2>1. Packed(file) = [bytes |-> file, compression |-> "none"]
    BY <1>4 DEF Packed
  <2> QED
    BY <1>1, <1>2, <2>1 DEF Unpacked
<1>5. CASE ~ (Len(file) < MinCompress \/ Len(Gzip(file)) >= Len(file))
  <2>1. Packed(file) = [bytes |-> Gzip(file), compression |-> "gzip"]
    BY <1>5 DEF Packed
  <2>2. \A i \in DOMAIN file : file[i] = file[1]
    <3>1. SUFFICES ASSUME ~ \A i \in DOMAIN file : file[i] = file[1]
                   PROVE  FALSE
      OBVIOUS
    <3>2. Gzip(file) = <<"raw">> \o file
      BY <3>1 DEF Gzip
    <3>3. <<"raw">> \in Seq(Symbols) /\ Len(<<"raw">>) = 1
      BY DEF Symbols
    <3>4. Len(Gzip(file)) = 1 + Len(file)
      BY <1>2, <3>2, <3>3
    <3> QED
      BY <1>1, <1>5, <3>4
  <2>3. Gzip(file) = <<"run", file[1], Len(file)>>
    BY <2>2 DEF Gzip
  <2>4. file[1] \in Symbols /\ Len(file) \in Symbols /\ "run" \in Symbols
    BY <1>1, <1>2 DEF Symbols
  <2> HIDE DEF Symbols
  <2>5. Gzip(file) \in Seq(Symbols) /\ Len(Gzip(file)) = 3
        /\ Gzip(file)[2] = file[1] /\ Gzip(file)[3] = Len(file)
    BY <2>3, <2>4
  <2>6. Gzip(file) # Nothing /\ Gzip(file) # <<>>
    BY <1>3, <2>5
  <2>7. Gunzip(Gzip(file)) = [i \in 1 .. Len(file) |-> file[1]]
    BY <2>5 DEF Gunzip
  <2>8. file = [i \in 1 .. Len(file) |-> file[1]]
    BY <1>1, <2>2
  <2> QED
    BY <2>1, <2>5, <2>6, <2>7, <2>8 DEF Unpacked
<1> QED
  BY <1>4, <1>5

LEMMA NothingUnpacks ==
    ASSUME NEW compression
    PROVE  Unpacked(Nothing, compression) = Nothing
  BY DEF Unpacked

LEMMA ChunksShape ==
    ASSUME NEW file \in Files
    PROVE  /\ Chunks(file) \in Seq(Seq(Symbols))
           /\ Count(file) \in Nat \ {0}
           /\ FlattenSeq(Chunks(file)) = Packed(file).bytes
  BY PackedShape, SplitShape, JoinedAgain DEF Chunks, Count

\* The parts that sendBlobFile puts.
LEMMA PartsShape ==
    ASSUME NEW x \in FileIds, NEW file \in Files, NEW kind \in FileKinds, NEW parts,
           parts = SealedParts(KeyOf(x), Packed(file).bytes, BaseOf(x), Aad(x, kind))
    PROVE  /\ DOMAIN parts = 1 .. Count(file) + 1
           /\ Len(parts) = Count(file) + 1
           /\ \A i \in 1 .. Count(file) + 1 :
                  parts[i] = Part(x, file, kind, NameIn(file, i))
<1> DEFINE n == Count(file)
           chunks == [i \in 1 .. n |->
                         SealedWith(KeyOf(x), Chunks(file)[i], ChunkIv(BaseOf(x), i - 1), Aad(x, kind))]
           last == SealedWith(KeyOf(x), <<n>>, ChunkIv(BaseOf(x), TrailerIndex), Aad(x, kind))
<1>1. n \in Nat \ {0}
  BY ChunksShape
<1>2. parts = Append(chunks, last)
  BY DEF SealedParts, Chunks, Count
<1>3. chunks \in Seq({chunks[i] : i \in 1 .. n}) /\ Len(chunks) = n
  BY <1>1
<1>4. Len(parts) = n + 1 /\ DOMAIN parts = 1 .. n + 1 /\ parts[n + 1] = last
      /\ \A i \in 1 .. n : parts[i] = chunks[i]
  <2> HIDE DEF chunks, last, n
  <2> QED
    BY <1>1, <1>2, <1>3
<1>5. ASSUME NEW i \in 1 .. n
      PROVE  parts[i] = Part(x, file, kind, NameIn(file, i))
  <2>1. NameIn(file, i) = i - 1 /\ i - 1 # Trailer /\ (i - 1) + 1 = i
    BY <1>1, FilesAssumption DEF NameIn
  <2>2. parts[i] = chunks[i]
    BY <1>4
  <2> QED
    BY <2>1, <2>2 DEF Part
<1>6. parts[n + 1] = Part(x, file, kind, NameIn(file, n + 1))
  BY <1>4 DEF Part, NameIn
<1>7. \A i \in 1 .. n + 1 : i \in 1 .. n \/ i = n + 1
  BY <1>1
<1> QED
  BY <1>4, <1>5, <1>6, <1>7

\* Opening what was fetched: the whole file if no part is missing, or nothing.
LEMMA OpensWhole ==
    ASSUME NEW x \in FileIds, NEW file \in Files, NEW kind \in FileKinds,
           NEW chunks, NEW k \in 0 .. Count(file), DOMAIN chunks = 1 .. k, Len(chunks) = k,
           \A i \in 1 .. k : chunks[i] = Part(x, file, kind, i - 1)
    PROVE  OpenedParts(KeyOf(x), chunks, Part(x, file, kind, Trailer), BaseOf(x), Aad(x, kind)) =
               IF k = Count(file) THEN Packed(file).bytes ELSE Nothing
<1> DEFINE n == Count(file)
           ByKey(i) == Opened(KeyOf(x), chunks[i], ChunkIv(BaseOf(x), i - 1), Aad(x, kind))
           opened == [i \in DOMAIN chunks |-> ByKey(i)]
<1>1. n \in Nat \ {0} /\ Chunks(file) \in Seq(Seq(Symbols)) /\ n = Len(Chunks(file))
      /\ FlattenSeq(Chunks(file)) = Packed(file).bytes
  BY ChunksShape DEF Count
<1>2. Opened(KeyOf(x), Part(x, file, kind, Trailer), ChunkIv(BaseOf(x), TrailerIndex), Aad(x, kind))
          = <<n>>
  BY DEF Opened, Part, SealedWith
<1>3. ASSUME NEW i \in 1 .. k
      PROVE  ByKey(i) = Chunks(file)[i] /\ ByKey(i) # Nothing
  <2>1. i - 1 # Trailer /\ (i - 1) + 1 = i /\ i \in 1 .. n
    BY <1>1, FilesAssumption
  <2>2. chunks[i] = SealedWith(KeyOf(x), Chunks(file)[i], ChunkIv(BaseOf(x), i - 1), Aad(x, kind))
    BY <2>1 DEF Part
  <2>3. ByKey(i) = Chunks(file)[i]
    BY <2>2 DEF Opened, SealedWith
  <2>4. Chunks(file)[i] \in Seq(Symbols)
    BY <1>1, <2>1
  <2> QED
    BY <2>3, <2>4, NothingAssumption DEF Plain, Symbols
<1>4. (<<n>> = <<k>>) <=> k = n
  OBVIOUS
<1>5. OpenedParts(KeyOf(x), chunks, Part(x, file, kind, Trailer), BaseOf(x), Aad(x, kind)) =
          IF \/ <<n>> # <<k>> \/ \E i \in 1 .. k : ByKey(i) = Nothing
          THEN Nothing ELSE FlattenSeq(opened)
  BY <1>2 DEF OpenedParts
<1>6. k = n => opened = Chunks(file)
  BY <1>1, <1>3
<1> HIDE DEF ByKey, opened, n
<1> QED
  BY <1>1, <1>3, <1>4, <1>5, <1>6 DEF n

\* A part is a ciphertext, so it is not taken for the lack of one.
LEMMA PartIsSealed ==
    ASSUME NEW x \in FileIds, NEW file \in Files, NEW kind \in FileKinds, NEW n \in PartNames(file)
    PROVE  Part(x, file, kind, n) \in Ciphertexts /\ Part(x, file, kind, n) # Nothing
<1>1. Count(file) \in Nat \ {0} /\ Chunks(file) \in Seq(Seq(Symbols))
      /\ Count(file) = Len(Chunks(file))
  BY ChunksShape DEF Count
<1>2. <<Count(file)>> \in Seq(Symbols)
  BY <1>1 DEF Symbols
<1>3. TrailerIndex \in Nat
  BY FilesAssumption DEF TrailerIndex
<1>4. Seq(Symbols) = Plain
  BY DEF Symbols, Plain
<1>5. n # Trailer => n \in Nat /\ Chunks(file)[n + 1] \in Seq(Symbols)
  BY <1>1 DEF PartNames
<1>6. KeyOf(x) \in {"fileKey"} \X FileIds /\ BaseOf(x) \in {"baseIv"} \X FileIds
      /\ Aad(x, kind) \in FileIds \X {"image", "file"}
  BY DEF KeyOf, BaseOf, Aad, FileKinds
<1>7. Part(x, file, kind, n) \in Ciphertexts
  BY <1>2, <1>3, <1>4, <1>5, <1>6 DEF Part, SealedWith, ChunkIv, Ciphertexts
<1> QED
  BY <1>7, NothingAssumption

\* The meta and the key of a file open with the key of the vault.
LEMMA RowOpens ==
    ASSUME NEW x \in FileIds, NEW file \in Files, NEW kind \in FileKinds
    PROVE  LET row == RowOf(x, file, kind)
           IN  /\ row.kind = kind /\ row.blob = x
               /\ OpenedMeta("vault", row.meta, x, row.kind) = MetaOf(x, file)
               /\ Unwrapped("vault", row.wrapped) = KeyOf(x)
               /\ MetaOf(x, file) # Nothing /\ KeyOf(x) # Nothing
               /\ MetaOf(x, file).baseIv = BaseOf(x)
               /\ MetaOf(x, file).compression = Packed(file).compression
<1> DEFINE row == RowOf(x, file, kind)
<1>1. row.kind = kind /\ row.blob = x
      /\ row.meta = SealedMeta("vault", MetaOf(x, file), x, kind)
      /\ row.wrapped = Wrapped("vault", KeyOf(x))
  BY DEF RowOf
<1>2. OpenedMeta("vault", row.meta, x, row.kind) = MetaOf(x, file)
  BY <1>1 DEF OpenedMeta, Opened, SealedMeta, SealedWith
<1>3. Unwrapped("vault", row.wrapped) = KeyOf(x)
  BY <1>1 DEF Unwrapped, Wrapped
<1>4. KeyOf(x) # Nothing
  <2>1. KeyOf(x) \in {"fileKey"} \X FileIds
    BY DEF KeyOf
  <2>2. Nothing \notin {"fileKey"} \X FileIds
    BY NothingAssumption
  <2> QED
    BY <2>1, <2>2
<1>5. Len(file) \in Nat /\ Packed(file).compression \in {"none", "gzip"}
  BY PackedShape, FilesAssumption DEF Files
<1>6. BaseOf(x) \in {"baseIv"} \X FileIds
  BY DEF BaseOf
<1>7. MetaOf(x, file) \in [size : Nat, compression : {"none", "gzip"},
                           baseIv : {"baseIv"} \X FileIds]
  BY <1>5, <1>6 DEF MetaOf
<1>8. MetaOf(x, file) # Nothing
  BY <1>7, NothingAssumption
<1>9. MetaOf(x, file).baseIv = BaseOf(x)
      /\ MetaOf(x, file).compression = Packed(file).compression
  BY DEF MetaOf
<1> QED
  BY <1>1, <1>2, <1>3, <1>4, <1>8, <1>9

LEMMA NamesOfParts ==
    ASSUME NEW file \in Files, NEW i \in 1 .. Count(file) + 1
    PROVE  NameIn(file, i) \in PartNames(file)
<1>1. Count(file) \in Nat \ {0}
  BY ChunksShape
<1> QED
  BY <1>1 DEF NameIn, PartNames

LEMMA EveryPartIsNamed ==
    ASSUME NEW file \in Files, NEW n \in PartNames(file)
    PROVE  \E i \in 1 .. Count(file) + 1 : n = NameIn(file, i)
<1>1. Count(file) \in Nat \ {0}
  BY ChunksShape
<1>2. CASE n = Trailer
  BY <1>1, <1>2 DEF NameIn
<1>3. CASE n # Trailer
  <2>1. n \in 0 .. Count(file) - 1
    BY <1>3 DEF PartNames
  <2>2. n + 1 \in 1 .. Count(file) + 1 /\ NameIn(file, n + 1) = n
    BY <1>1, <2>1 DEF NameIn
  <2> QED
    BY <2>2
<1> QED
  BY <1>2, <1>3

\* What a ticket is.
LEMMA TicketShape ==
    ASSUME NEW blob, NEW purpose
    PROVE  /\ Ticket(blob, purpose) # NoTicket => Ticket(blob, purpose).token.key = blob
           /\ blob \in DOMAIN rows /\ rows[blob].state = "committed" =>
                  Ticket(blob, "download") # NoTicket
           /\ Ticket(blob, "stat") # NoTicket =>
                  blob \in DOMAIN rows /\ rows[blob].state = "pending"
<1>1. ASSUME NEW token
      PROVE  Minted("web", token).token = token /\ Minted("web", token) # NoTicket
  <2>1. Minted("web", token).token = token /\ Minted("web", token).signature = <<"web", token>>
    BY DEF Minted
  <2>2. NoTicket.signature = <<>>
    BY DEF NoTicket
  <2>3. <<"web", token>> # <<>>
    OBVIOUS
  <2> QED
    BY <2>1, <2>2, <2>3
<1> QED
  BY <1>1 DEF Ticket

----------------------------------------------------------------------------
(* The invariant.                                                          *)

\* A sender under way with the file of x.
Putting(s, x, file, kind) ==
    /\ s = [at |-> "putting", item |-> x, blob |-> x, parts |-> s.parts, next |-> s.next,
            ticket |-> s.ticket, row |-> RowOf(x, file, kind)]
    /\ Len(s.parts) = Count(file) + 1
    /\ \A i \in 1 .. Count(file) + 1 : s.parts[i] = Part(x, file, kind, NameIn(file, i))
    /\ s.next \in 1 .. Count(file) + 2
    /\ s.ticket # NoTicket => s.next # Count(file) + 2

\* A reader under way: it has the first parts, all of them when it asks for the
\* trailer unhurt.
Fetching(r, x, file, kind) ==
    /\ r = [at |-> "getting", item |-> x, row |-> RowOf(x, file, kind),
            meta |-> MetaOf(x, file), key |-> KeyOf(x), next |-> r.next,
            chunks |-> r.chunks, ticket |-> r.ticket, hurt |-> r.hurt]
    /\ r.hurt \in BOOLEAN
    /\ r.ticket = NoTicket \/ r.ticket.token.key = x
    /\ r.chunks \in Seq(Ciphertexts)
    /\ Len(r.chunks) <= Count(file) /\ Len(r.chunks) <= MaxChunks
    /\ \A i \in 1 .. Len(r.chunks) : r.chunks[i] = Part(x, file, kind, i - 1)
    /\ \/ r.next = Len(r.chunks) /\ r.next < MaxChunks
       \/ r.next = Trailer /\ (r.hurt \/ Len(r.chunks) = Count(file))

\* A reader that is done.
Finished(r, x, file) ==
    /\ r = [at |-> "ended", item |-> x, shown |-> r.shown, hurt |-> r.hurt]
    /\ r.hurt \in BOOLEAN
    /\ \/ r.shown = file
       \/ r.hurt /\ r.shown = Nothing

FileTyped ==
    /\ time \in 0 .. MaxTicks /\ faults \in 0 .. MaxFaults
    /\ DOMAIN sent \subseteq FileIds
    /\ \A x \in DOMAIN sent : sent[x] \in Files
    /\ DOMAIN objects \subseteq (DOMAIN sent) \X Names
    /\ DOMAIN rows \subseteq DOMAIN sent
    /\ \A b \in DOMAIN rows :
           rows[b] \in [state : {"pending", "committed"}, created : Nat, size : Nat \ {0, 1}]
    /\ DOMAIN items \subseteq DOMAIN sent /\ DOMAIN tray \subseteq DOMAIN sent
    /\ sweep \in [on : BOOLEAN, keep : SUBSET FileIds, todo : SUBSET (FileIds \X Names)]
    /\ sweep.todo \subseteq DOMAIN objects /\ (~sweep.on => sweep = NoSweep)

SenderKnown ==
    \/ sender = Away
    \/ sender.at = "putting" /\ sender.item \in DOMAIN sent
ReaderKnown ==
    \/ reader = NotReading
    \/ reader.at = "getting" /\ reader.item \in DOMAIN tray
    \/ /\ reader.at = "ended" /\ reader.item \in DOMAIN sent
       /\ Finished(reader, reader.item, sent[reader.item])

Stored(x, kind) ==
    \A n \in Names : <<x, n>> \in DOMAIN objects =>
        n \in PartNames(sent[x]) /\ objects[<<x, n>>] = Part(x, sent[x], kind, n)
Listed(x, kind) ==
    /\ x \in DOMAIN items => items[x] = RowOf(x, sent[x], kind)
    /\ x \in DOMAIN tray => tray[x] = RowOf(x, sent[x], kind)
Sending(x, kind) ==
    sender.at = "putting" /\ sender.item = x => Putting(sender, x, sent[x], kind)
Reading(x, kind) ==
    reader.at = "getting" /\ reader.item = x => Fetching(reader, x, sent[x], kind)

\* Whatever there is of a file was made from what was sent.
Made(x, kind) == Stored(x, kind) /\ Listed(x, kind) /\ Sending(x, kind) /\ Reading(x, kind)
MadeOfSent == \A x \in DOMAIN sent : \E kind \in FileKinds : Made(x, kind)

\* While its row is there the parts that were put are there, unless a sweep took
\* one.
Progress(x) ==
    sender.at = "putting" /\ sender.item = x /\ x \in DOMAIN rows \ caught =>
        \A i \in 1 .. sender.next - 1 : <<x, NameIn(sent[x], i)>> \in DOMAIN objects
AllThere(x) ==
    x \in DOMAIN rows \ caught /\ rows[x].state = "committed" =>
        \A n \in PartNames(sent[x]) : <<x, n>> \in DOMAIN objects
Settled(x) ==
    /\ x \in DOMAIN items => x \in DOMAIN rows
    /\ x \in DOMAIN items \cup DOMAIN tray /\ x \in DOMAIN rows =>
           rows[x].state = "committed"
PartsThere == \A x \in DOMAIN sent : Progress(x) /\ AllThere(x) /\ Settled(x)

FileInv ==
    FileTyped /\ SenderKnown /\ ReaderKnown /\ MadeOfSent /\ PartsThere

----------------------------------------------------------------------------
(* Steps of the reader.                                                    *)

\* What the reader makes of an answer that is right, or of none.
LEMMA AnswerTaken ==
    ASSUME FileInv, NEW x \in DOMAIN tray, NEW kind \in FileKinds, NEW hurt \in BOOLEAN, NEW body,
           reader.at = "getting", reader.item = x, Made(x, kind),
           \/ body = Nothing
           \/ /\ reader.next \in PartNames(sent[x])
              /\ body = Part(x, sent[x], kind, reader.next),
           ~ hurt => /\ Count(sent[x]) <= MaxChunks
                     /\ reader.next \in PartNames(sent[x]) => body # Nothing
    PROVE  LET r == Marked(hurt, After(body))
           IN  Fetching(r, x, sent[x], kind) \/ Finished(r, x, sent[x])
<1> DEFINE file == sent[x]
           r == Marked(hurt, After(body))
           k == Len(reader.chunks)
<1>1. x \in FileIds /\ file \in Files
  BY DEF FileInv, FileTyped
<1> HIDE DEF file
<1>2. Fetching(reader, x, file, kind)
  BY DEF Made, Reading, file
<1>3. /\ reader = [at |-> "getting", item |-> x, row |-> RowOf(x, file, kind),
                   meta |-> MetaOf(x, file), key |-> KeyOf(x), next |-> reader.next,
                   chunks |-> reader.chunks, ticket |-> reader.ticket, hurt |-> reader.hurt]
      /\ reader.hurt \in BOOLEAN
      /\ reader.chunks \in Seq(Ciphertexts)
      /\ k <= Count(file) /\ k <= MaxChunks
      /\ \A i \in 1 .. k : reader.chunks[i] = Part(x, file, kind, i - 1)
      /\ \/ reader.next = k /\ reader.next < MaxChunks
         \/ reader.next = Trailer /\ (reader.hurt \/ k = Count(file))
  BY <1>2 DEF Fetching
<1>4. Count(file) \in Nat \ {0} /\ k \in Nat /\ MaxChunks \in Nat \ {0} /\ Trailer \notin Nat
  BY <1>1, <1>3, ChunksShape, FilesAssumption
<1>5. body # Nothing => /\ reader.next \in PartNames(file)
                        /\ body = Part(x, file, kind, reader.next)
                        /\ body \in Ciphertexts
  BY <1>1, PartIsSealed DEF file
<1>6. ~ hurt => /\ Count(file) <= MaxChunks
                /\ reader.next \in PartNames(file) => body # Nothing
  BY DEF file
<1>7. CASE reader.next # Trailer
  <2>1. reader.next = k /\ k < MaxChunks
    BY <1>3, <1>7
  <2>2. k \in PartNames(file) <=> k < Count(file)
    BY <1>4 DEF PartNames
  <2>3. r = [at |-> "getting", item |-> x, row |-> RowOf(x, file, kind),
             meta |-> MetaOf(x, file), key |-> KeyOf(x),
             next |-> IF body = Nothing \/ k + 1 = MaxChunks THEN Trailer ELSE k + 1,
             chunks |-> IF body = Nothing THEN reader.chunks ELSE Append(reader.chunks, body),
             ticket |-> NoTicket, hurt |-> reader.hurt \/ hurt]
    <3>1. Step(reader, NoTicket) =
              [at |-> "getting", item |-> x, row |-> RowOf(x, file, kind),
               meta |-> MetaOf(x, file), key |-> KeyOf(x), next |-> k,
               chunks |-> reader.chunks, ticket |-> NoTicket, hurt |-> reader.hurt]
      BY <1>3, <2>1 DEF Step
    <3>2. After(body) =
              [at |-> "getting", item |-> x, row |-> RowOf(x, file, kind),
               meta |-> MetaOf(x, file), key |-> KeyOf(x),
               next |-> IF body = Nothing \/ k + 1 = MaxChunks THEN Trailer ELSE k + 1,
               chunks |-> IF body = Nothing THEN reader.chunks ELSE Append(reader.chunks, body),
               ticket |-> NoTicket, hurt |-> reader.hurt]
      <4> DEFINE st == Step(reader, NoTicket)
                 c == IF body = Nothing THEN st.chunks ELSE Append(st.chunks, body)
                 m == IF body = Nothing \/ st.next + 1 = MaxChunks THEN Trailer ELSE st.next + 1
      <4>1. After(body) = [[st EXCEPT !.chunks = c] EXCEPT !.next = m]
        BY <1>7 DEF After
      <4>2. c = (IF body = Nothing THEN reader.chunks ELSE Append(reader.chunks, body))
            /\ m = (IF body = Nothing \/ k + 1 = MaxChunks THEN Trailer ELSE k + 1)
        BY <3>1
      <4>3. st = [at |-> "getting", item |-> x, row |-> RowOf(x, file, kind),
               meta |-> MetaOf(x, file), key |-> KeyOf(x), next |-> k,
               chunks |-> reader.chunks, ticket |-> NoTicket, hurt |-> reader.hurt]
        BY <3>1
      <4> HIDE DEF c, m, st
      <4>4. After(body) = [at |-> "getting", item |-> x, row |-> RowOf(x, file, kind),
               meta |-> MetaOf(x, file), key |-> KeyOf(x), next |-> m,
               chunks |-> c, ticket |-> NoTicket, hurt |-> reader.hurt]
        BY <4>1, <4>3
      <4> QED
        BY <4>2, <4>4
    <3> QED
      BY <3>2 DEF Marked
  <2>4. CASE body = Nothing
    <3>1. r.next = Trailer /\ r.chunks = reader.chunks /\ r.ticket = NoTicket
          /\ r.hurt = (reader.hurt \/ hurt)
      BY <2>3, <2>4
    <3>2. hurt \/ k = Count(file)
      BY <1>3, <1>4, <1>6, <2>1, <2>2, <2>4
    <3>3. r.hurt \in BOOLEAN /\ (hurt => r.hurt)
      BY <1>3, <3>1
    <3> QED
      BY <1>3, <2>3, <3>1, <3>2, <3>3 DEF Fetching, file
  <2>5. CASE body # Nothing
    <3>1. r.next = (IF k + 1 = MaxChunks THEN Trailer ELSE k + 1)
          /\ r.chunks = Append(reader.chunks, body) /\ r.ticket = NoTicket
          /\ r.hurt = (reader.hurt \/ hurt)
      BY <2>3, <2>5
    <3>2. k < Count(file) /\ body = Part(x, file, kind, k) /\ body \in Ciphertexts
      BY <1>5, <2>1, <2>2, <2>5
    <3>3. r.chunks \in Seq(Ciphertexts) /\ Len(r.chunks) = k + 1
          /\ \A i \in 1 .. k + 1 : r.chunks[i] = Part(x, file, kind, i - 1)
      <4>1. r.chunks \in Seq(Ciphertexts) /\ Len(r.chunks) = k + 1
            /\ r.chunks[k + 1] = body /\ \A i \in 1 .. k : r.chunks[i] = reader.chunks[i]
        BY <1>3, <1>4, <3>1, <3>2
      <4>2. \A i \in 1 .. k + 1 : i \in 1 .. k \/ (i = k + 1 /\ i - 1 = k)
        BY <1>4
      <4> QED
        BY <1>3, <3>2, <4>1, <4>2
    <3>4. k + 1 <= Count(file) /\ k + 1 <= MaxChunks
      BY <1>4, <2>1, <3>2
    <3>5. k + 1 = MaxChunks => hurt \/ k + 1 = Count(file)
      BY <1>4, <1>6, <3>4
    <3>6. r.hurt \in BOOLEAN /\ (hurt => r.hurt)
      BY <1>3, <3>1
    <3>7. \/ r.next = k + 1 /\ r.next < MaxChunks
          \/ r.next = Trailer /\ (r.hurt \/ k + 1 = Count(file))
      BY <1>4, <3>1, <3>4, <3>5, <3>6
    <3>8. r = [at |-> "getting", item |-> x, row |-> RowOf(x, file, kind),
               meta |-> MetaOf(x, file), key |-> KeyOf(x), next |-> r.next,
               chunks |-> r.chunks, ticket |-> r.ticket, hurt |-> r.hurt]
      BY <2>3
    <3> HIDE DEF r
    <3>9. Fetching(r, x, file, kind)
      BY <3>1, <3>3, <3>4, <3>6, <3>7, <3>8 DEF Fetching
    <3> QED
      BY <3>9 DEF r, file
  <2> QED
    BY <2>4, <2>5
<1>8. CASE reader.next = Trailer
  <2>1. reader.hurt \/ k = Count(file)
    BY <1>3, <1>4, <1>8
  <2>2. ASSUME NEW result, result = file \/ ((reader.hurt \/ hurt) /\ result = Nothing),
               r = Marked(hurt, Ended(result))
        PROVE  Finished(r, x, file)
    <3>1. r = [at |-> "ended", item |-> x, shown |-> result, hurt |-> reader.hurt \/ hurt]
      BY <1>3, <2>2 DEF Marked, Ended
    <3> HIDE DEF r
    <3> QED
      BY <1>3, <2>2, <3>1 DEF Finished
  <2>3. CASE body = Nothing
    <3>1. hurt
      <4>1. Trailer \in PartNames(file)
        BY DEF PartNames
      <4> QED
        BY <1>6, <1>8, <2>3, <4>1
    <3>2. r = Marked(hurt, Ended(Nothing))
      BY <1>8, <2>3 DEF After
    <3> QED
      BY <2>2, <3>1, <3>2 DEF file
  <2>4. CASE body # Nothing
    <3> DEFINE opened == OpenedParts(KeyOf(x), reader.chunks, body, BaseOf(x), Aad(x, kind))
               result == Unpacked(opened, Packed(file).compression)
    <3>1. body = Part(x, file, kind, Trailer)
      BY <1>5, <1>8, <2>4
    <3>2. DOMAIN reader.chunks = 1 .. k /\ k \in 0 .. Count(file)
      BY <1>3, <1>4
    <3>3. opened = IF k = Count(file) THEN Packed(file).bytes ELSE Nothing
      BY <1>1, <1>3, <3>1, <3>2, OpensWhole
    <3>4. reader.key = KeyOf(x) /\ reader.meta.baseIv = BaseOf(x) /\ reader.row.kind = kind
          /\ reader.meta.compression = Packed(file).compression /\ reader.item = x
      BY <1>1, <1>3, RowOpens
    <3>5. After(body) = Ended(result)
      BY <1>8, <2>4, <3>4 DEF After
    <3>6. CASE k = Count(file)
      <4>1. result = file
        BY <1>1, <3>3, <3>6, PackedShape
      <4> HIDE DEF result
      <4>2. Finished(r, x, file)
        BY <2>2, <3>5, <4>1
      <4> QED
        BY <4>2 DEF file
    <3>7. CASE k # Count(file)
      <4>1. result = Nothing
        BY <3>3, <3>7, NothingUnpacks
      <4> HIDE DEF result
      <4>2. Finished(r, x, file)
        BY <2>1, <2>2, <3>5, <3>7, <4>1
      <4> QED
        BY <4>2 DEF file
    <3> QED
      BY <3>6, <3>7
  <2> QED
    BY <2>3, <2>4
<1> QED
  BY <1>7, <1>8

\* A step of the reader leaves the rest alone.
LEMMA ReaderMoves ==
    ASSUME FileInv, UNCHANGED <<time, objects, rows, items, tray, sender, sent, sweep, caught>>,
           faults' \in 0 .. MaxFaults, ReaderKnown',
           \A x \in DOMAIN sent, kind \in FileKinds : Made(x, kind) => Reading(x, kind)'
    PROVE  FileInv'
<1>1. FileTyped' /\ SenderKnown'
  BY DEF FileInv, FileTyped, SenderKnown
<1>2. MadeOfSent'
  <2> SUFFICES ASSUME NEW x \in DOMAIN sent
               PROVE  \E kind \in FileKinds : Made(x, kind)'
    BY DEF MadeOfSent
  <2>1. PICK kind \in FileKinds : Made(x, kind)
    BY DEF FileInv, MadeOfSent
  <2>2. Stored(x, kind)' /\ Listed(x, kind)' /\ Sending(x, kind)'
    BY <2>1 DEF Made, Stored, Listed, Sending
  <2> QED
    BY <2>1, <2>2 DEF Made
<1>3. PartsThere'
  BY DEF FileInv, PartsThere, Progress, AllThere, Settled
<1> QED
  BY <1>1, <1>2, <1>3 DEF FileInv

LEMMA OpenKeeps ==
    ASSUME FileInv, NEW x \in DOMAIN tray, Open(x)
    PROVE  FileInv'
<1>1. x \in DOMAIN sent /\ x \in FileIds /\ sent[x] \in Files
  BY DEF FileInv, FileTyped
<1>2. UNCHANGED <<time, objects, rows, items, tray, sender, sent, faults, sweep, caught>>
  BY DEF Open, sweepVars
<1>3. ASSUME NEW kind \in FileKinds, Made(x, kind)
      PROVE  Fetching(reader', x, sent[x], kind) /\ reader'.item = x /\ reader'.at = "getting"
  <2>1. tray[x] = RowOf(x, sent[x], kind)
    BY <1>3 DEF Made, Listed
  <2>2. /\ OpenedMeta("vault", tray[x].meta, x, tray[x].kind) = MetaOf(x, sent[x])
        /\ Unwrapped("vault", tray[x].wrapped) = KeyOf(x)
        /\ MetaOf(x, sent[x]) # Nothing /\ KeyOf(x) # Nothing
    BY <1>1, <2>1, RowOpens
  <2>3. reader' = [at |-> "getting", item |-> x, row |-> RowOf(x, sent[x], kind),
                   meta |-> MetaOf(x, sent[x]), key |-> KeyOf(x),
                   next |-> 0, chunks |-> <<>>, ticket |-> NoTicket, hurt |-> FALSE]
    BY <2>1, <2>2 DEF Open
  <2>4. Count(sent[x]) \in Nat /\ MaxChunks \in Nat \ {0}
    BY <1>1, ChunksShape, FilesAssumption
  <2>5. reader'.next = 0 /\ reader'.chunks = <<>> /\ Len(<<>>) = 0 /\ reader'.hurt = FALSE
        /\ <<>> \in Seq(Ciphertexts) /\ reader'.ticket = NoTicket
    BY <2>3
  <2>6. Fetching(reader', x, sent[x], kind)
    BY <2>3, <2>4, <2>5 DEF Fetching
  <2> QED
    BY <2>3, <2>6
<1>4. PICK kind \in FileKinds : Made(x, kind)
  BY <1>1 DEF FileInv, MadeOfSent
<1>5. reader'.at = "getting" /\ reader'.item = x
  BY <1>3, <1>4
<1>6. ReaderKnown'
  BY <1>2, <1>5 DEF ReaderKnown
<1>7. ASSUME NEW y \in DOMAIN sent, NEW k \in FileKinds, Made(y, k)
      PROVE  Reading(y, k)'
  BY <1>2, <1>3, <1>5, <1>7 DEF Reading
<1>8. faults' \in 0 .. MaxFaults
  BY <1>2 DEF FileInv, FileTyped
<1> QED
  BY <1>2, <1>6, <1>7, <1>8, ReaderMoves

\* A step that gives the reader what it may make of an answer.
LEMMA ReaderGoesOn ==
    ASSUME FileInv, UNCHANGED <<time, objects, rows, items, tray, sender, sent, sweep, caught>>,
           faults' \in 0 .. MaxFaults,
           NEW x \in DOMAIN tray, reader.at = "getting", reader.item = x,
           \A kind \in FileKinds :
               Made(x, kind) => Fetching(reader', x, sent[x], kind) \/ Finished(reader', x, sent[x])
    PROVE  FileInv'
<1>1. x \in DOMAIN sent
  BY DEF FileInv, FileTyped
<1>2. PICK kind \in FileKinds : Made(x, kind)
  BY <1>1 DEF FileInv, MadeOfSent
<1>3. \/ reader'.at = "getting" /\ reader'.item = x
      \/ reader'.at = "ended" /\ reader'.item = x /\ Finished(reader', x, sent[x])
  <2>1. ASSUME Fetching(reader', x, sent[x], kind)
        PROVE  reader'.at = "getting" /\ reader'.item = x
    BY <2>1 DEF Fetching
  <2>2. ASSUME Finished(reader', x, sent[x])
        PROVE  reader'.at = "ended" /\ reader'.item = x
    BY <2>2 DEF Finished
  <2> QED
    BY <1>2, <2>1, <2>2
<1>4. ReaderKnown'
  BY <1>1, <1>3 DEF ReaderKnown
<1>5. ASSUME NEW y \in DOMAIN sent, NEW k \in FileKinds, Made(y, k)
      PROVE  Reading(y, k)'
  <2>1. CASE reader'.at # "getting" \/ y # x
    BY <1>3, <2>1 DEF Reading
  <2>2. CASE reader'.at = "getting" /\ y = x
    <3>1. ~ Finished(reader', x, sent[x])
      BY <2>2 DEF Finished
    <3> QED
      BY <1>5, <2>2, <3>1 DEF Reading
  <2> QED
    BY <2>1, <2>2
<1> QED
  BY <1>4, <1>5, ReaderMoves

\* Who asks asks for something in the tray, which is committed or gone.
LEMMA GettingKnown ==
    ASSUME FileInv, reader.at = "getting"
    PROVE  /\ reader.item \in DOMAIN tray
           /\ reader.item \in DOMAIN rows => rows[reader.item].state = "committed"
           /\ ~ Missing(reader.item) =>
                  /\ Count(sent[reader.item]) <= MaxChunks
                  /\ \A n \in PartNames(sent[reader.item]) :
                         <<reader.item, n>> \in DOMAIN objects /\ IsChunkName(n)
<1> DEFINE x == reader.item
<1>1. x \in DOMAIN tray
  BY DEF FileInv, ReaderKnown, NotReading
<1>2. x \in DOMAIN sent /\ sent[x] \in Files
  BY <1>1 DEF FileInv, FileTyped
<1>3. x \in DOMAIN rows => rows[x].state = "committed"
  BY <1>1, <1>2 DEF FileInv, PartsThere, Settled
<1>4. ASSUME ~ Missing(x)
      PROVE  /\ Count(sent[x]) <= MaxChunks
             /\ \A n \in PartNames(sent[x]) : <<x, n>> \in DOMAIN objects /\ IsChunkName(n)
  <2>1. \A n \in PartNames(sent[x]) : <<x, n>> \in DOMAIN objects
    BY <1>2, <1>3, <1>4 DEF Missing, Gone, FileInv, PartsThere, AllThere
  <2>2. \A n \in PartNames(sent[x]) : n \in Names
    BY <2>1 DEF FileInv, FileTyped
  <2>3. \A n \in Names : IsChunkName(n)
    BY DEF Names, IsChunkName
  <2>4. Count(sent[x]) \in Nat \ {0} /\ MaxChunks \in Nat /\ Trailer \notin Nat
    BY <1>2, ChunksShape, FilesAssumption
  <2>5. Count(sent[x]) - 1 \in PartNames(sent[x]) /\ Count(sent[x]) - 1 \in Nat
    BY <2>4 DEF PartNames
  <2>6. Count(sent[x]) - 1 \in 0 .. MaxChunks - 1
    BY <2>2, <2>4, <2>5 DEF Names
  <2> QED
    BY <2>1, <2>2, <2>3, <2>4, <2>6
<1> QED
  BY <1>1, <1>3, <1>4

LEMMA GetTicketKeeps ==
    ASSUME FileInv, GetTicket
    PROVE  FileInv'
<1> DEFINE x == reader.item
<1>1. reader.at = "getting"
      /\ UNCHANGED <<time, objects, rows, items, tray, sender, sent, faults, sweep, caught>>
  BY DEF GetTicket, sweepVars
<1>2. x \in DOMAIN tray /\ x \in DOMAIN sent /\ sent[x] \in Files /\ x \in FileIds
      /\ faults' \in 0 .. MaxFaults
  BY <1>1, GettingKnown DEF FileInv, FileTyped
<1>3. ASSUME NEW kind \in FileKinds, Made(x, kind)
      PROVE  Fetching(reader', x, sent[x], kind) \/ Finished(reader', x, sent[x])
  <2>1. Fetching(reader, x, sent[x], kind)
    BY <1>1, <1>3 DEF Made, Reading
  <2>2. reader.row.blob = x
    BY <1>2, <2>1, RowOpens DEF Fetching
  <2> DEFINE ticket == Ticket(x, "download")
  <2>3. reader' = Marked(Missing(x), IF ticket = NoTicket THEN After(Nothing) ELSE Step(reader, ticket))
    BY <2>2 DEF GetTicket
  <2>4. Missing(x) \in BOOLEAN /\ (~ Missing(x) => ticket # NoTicket)
    BY <1>1, GettingKnown, TicketShape DEF Missing, Gone
  <2>5. ticket # NoTicket => ticket.token.key = x
    BY TicketShape
  <2> HIDE DEF ticket
  <2>6. CASE ticket = NoTicket
    <3>1. reader' = Marked(Missing(x), After(Nothing))
      BY <2>3, <2>6
    <3> QED
      BY <1>1, <1>2, <1>3, <2>4, <2>6, <3>1, AnswerTaken
  <2>7. CASE ticket # NoTicket
    <3> DEFINE st == Step(reader, ticket)
    <3>a. reader = [at |-> "getting", item |-> x, row |-> RowOf(x, sent[x], kind),
                    meta |-> MetaOf(x, sent[x]), key |-> KeyOf(x), next |-> reader.next,
                    chunks |-> reader.chunks, ticket |-> reader.ticket, hurt |-> reader.hurt]
      BY <2>1 DEF Fetching
    <3>b. st = [at |-> "getting", item |-> x, row |-> RowOf(x, sent[x], kind),
                meta |-> MetaOf(x, sent[x]), key |-> KeyOf(x), next |-> reader.next,
                chunks |-> reader.chunks, ticket |-> ticket, hurt |-> reader.hurt]
      BY <3>a DEF Step
    <3>c. reader' = [st EXCEPT !.hurt = @ \/ Missing(x)]
      BY <2>3, <2>7 DEF Marked
    <3> HIDE DEF st
    <3>1. reader' = [at |-> "getting", item |-> x, row |-> RowOf(x, sent[x], kind),
                     meta |-> MetaOf(x, sent[x]), key |-> KeyOf(x), next |-> reader.next,
                     chunks |-> reader.chunks, ticket |-> ticket,
                     hurt |-> reader.hurt \/ Missing(x)]
      BY <3>b, <3>c
    <3>2. reader'.next = reader.next /\ reader'.chunks = reader.chunks
          /\ reader'.ticket.token.key = x /\ reader'.hurt \in BOOLEAN
          /\ (reader.hurt => reader'.hurt)
      BY <2>1, <2>4, <2>5, <2>7, <3>1 DEF Fetching
    <3> QED
      BY <2>1, <3>1, <3>2 DEF Fetching
  <2> QED
    BY <2>6, <2>7
<1> QED
  BY <1>1, <1>2, <1>3, ReaderGoesOn

LEMMA GetKeeps ==
    ASSUME FileInv, Get
    PROVE  FileInv'
<1> DEFINE x == reader.item
<1>1. reader.at = "getting" /\ reader.ticket # NoTicket
      /\ UNCHANGED <<time, objects, rows, items, tray, sender, sent, faults, sweep, caught>>
  BY DEF Get, Asked, sweepVars
<1>2. x \in DOMAIN tray /\ x \in DOMAIN sent /\ sent[x] \in Files /\ x \in FileIds
      /\ faults' \in 0 .. MaxFaults
  BY <1>1, GettingKnown DEF FileInv, FileTyped
<1>3. ASSUME NEW kind \in FileKinds, Made(x, kind)
      PROVE  Fetching(reader', x, sent[x], kind) \/ Finished(reader', x, sent[x])
  <2>1. Fetching(reader, x, sent[x], kind)
    BY <1>1, <1>3 DEF Made, Reading
  <2>2. reader.row.blob = x
    BY <1>2, <2>1, RowOpens DEF Fetching
  <2>3. reader.ticket.token.key = x
    BY <1>1, <2>1 DEF Fetching
  <2> DEFINE hurt == Missing(x) \/ ~ Admits(reader.ticket, "download")
             body == Download(reader.ticket, reader.next)
  <2>4. reader' = Marked(hurt, After(body))
    BY <2>2 DEF Get
  <2>5. body = IF Admits(reader.ticket, "download") /\ IsChunkName(reader.next)
                  /\ <<x, reader.next>> \in DOMAIN objects
               THEN objects[<<x, reader.next>>] ELSE Nothing
    BY <2>3 DEF Download
  <2>6. <<x, reader.next>> \in DOMAIN objects =>
            /\ reader.next \in PartNames(sent[x])
            /\ objects[<<x, reader.next>>] = Part(x, sent[x], kind, reader.next)
    <3>1. <<x, reader.next>> \in DOMAIN objects => reader.next \in Names
      BY DEF FileInv, FileTyped
    <3> QED
      BY <1>3, <3>1 DEF Made, Stored
  <2>7. \/ body = Nothing
        \/ /\ reader.next \in PartNames(sent[x])
           /\ body = Part(x, sent[x], kind, reader.next)
    BY <2>5, <2>6
  <2>8. hurt \in BOOLEAN
    BY DEF Missing, Gone, Admits
  <2>9. ~ hurt => /\ Count(sent[x]) <= MaxChunks
                  /\ reader.next \in PartNames(sent[x]) => body # Nothing
    <3>1. SUFFICES ASSUME ~ hurt
                   PROVE  /\ Count(sent[x]) <= MaxChunks
                          /\ reader.next \in PartNames(sent[x]) => body # Nothing
      OBVIOUS
    <3>2. Count(sent[x]) <= MaxChunks
          /\ \A n \in PartNames(sent[x]) : <<x, n>> \in DOMAIN objects /\ IsChunkName(n)
      BY <1>1, <3>1, GettingKnown
    <3>3. ASSUME reader.next \in PartNames(sent[x])
          PROVE  body # Nothing
      <4>1. body = Part(x, sent[x], kind, reader.next)
        BY <2>5, <2>6, <3>1, <3>2, <3>3
      <4> HIDE DEF body
      <4> QED
        BY <1>2, <3>3, <4>1, PartIsSealed
    <3> QED
      BY <3>2, <3>3
  <2> HIDE DEF hurt, body
  <2> QED
    BY <1>1, <1>2, <1>3, <2>4, <2>7, <2>8, <2>9, AnswerTaken
<1> QED
  BY <1>1, <1>2, <1>3, ReaderGoesOn

LEMMA GetFailsKeeps ==
    ASSUME FileInv, GetFails
    PROVE  FileInv'
<1> DEFINE x == reader.item
<1>1. reader.at = "getting" /\ faults < MaxFaults /\ faults' = faults + 1
      /\ reader' = Marked(TRUE, After(Nothing))
      /\ UNCHANGED <<time, objects, rows, items, tray, sender, sent, sweep, caught>>
  BY DEF GetFails, sweepVars
<1>2. x \in DOMAIN tray /\ faults \in 0 .. MaxFaults /\ MaxFaults \in Nat
  BY <1>1, GettingKnown, FilesAssumption DEF FileInv, FileTyped
<1>3. faults' \in 0 .. MaxFaults
  BY <1>1, <1>2
<1>4. ASSUME NEW kind \in FileKinds, Made(x, kind)
      PROVE  Fetching(reader', x, sent[x], kind) \/ Finished(reader', x, sent[x])
  BY <1>1, <1>2, <1>4, AnswerTaken
<1> QED
  BY <1>1, <1>2, <1>3, <1>4, ReaderGoesOn

LEMMA CloseKeeps ==
    ASSUME FileInv, Close
    PROVE  FileInv'
<1>1. reader' = NotReading
      /\ UNCHANGED <<time, objects, rows, items, tray, sender, sent, faults, sweep, caught>>
  BY DEF Close, sweepVars
<1>2. ReaderKnown' /\ faults' \in 0 .. MaxFaults
  BY <1>1 DEF ReaderKnown, FileInv, FileTyped
<1>3. \A x \in DOMAIN sent, kind \in FileKinds : Made(x, kind) => Reading(x, kind)'
  BY <1>1 DEF Reading, NotReading
<1> QED
  BY <1>1, <1>2, <1>3, ReaderMoves

----------------------------------------------------------------------------
(* Steps of the sender.                                                    *)

\* A step of the sender may put a part where it belongs.
LEMMA SenderMoves ==
    ASSUME FileInv, UNCHANGED <<time, rows, items, tray, reader, sent, sweep, caught>>,
           faults' \in 0 .. MaxFaults, SenderKnown',
           DOMAIN objects' \subseteq (DOMAIN sent) \X Names,
           DOMAIN objects \subseteq DOMAIN objects',
           \A x \in DOMAIN sent, kind \in FileKinds :
               Made(x, kind) => Stored(x, kind)' /\ Sending(x, kind)',
           \A x \in DOMAIN sent : Progress(x)'
    PROVE  FileInv'
<1>1. FileTyped' /\ ReaderKnown'
  BY DEF FileInv, FileTyped, ReaderKnown
<1>2. MadeOfSent'
  <2> SUFFICES ASSUME NEW x \in DOMAIN sent
               PROVE  \E kind \in FileKinds : Made(x, kind)'
    BY DEF MadeOfSent
  <2>1. PICK kind \in FileKinds : Made(x, kind)
    BY DEF FileInv, MadeOfSent
  <2>2. Listed(x, kind)' /\ Reading(x, kind)'
    BY <2>1 DEF Made, Listed, Reading
  <2> QED
    BY <2>1, <2>2 DEF Made
<1>3. ASSUME NEW x \in DOMAIN sent
      PROVE  AllThere(x)' /\ Settled(x)'
  BY DEF FileInv, PartsThere, AllThere, Settled
<1>4. PartsThere'
  BY <1>3 DEF PartsThere
<1> QED
  BY <1>1, <1>2, <1>4 DEF FileInv

\* The sender that is under way sends a file that is known.
LEMMA SenderOf ==
    ASSUME FileInv, sender.at = "putting"
    PROVE  /\ sender.item \in DOMAIN sent /\ sender.item \in FileIds
           /\ sent[sender.item] \in Files
           /\ \E kind \in FileKinds : Made(sender.item, kind)
           /\ \A kind \in FileKinds : Made(sender.item, kind) =>
                  Putting(sender, sender.item, sent[sender.item], kind)
<1>1. sender.item \in DOMAIN sent
  BY DEF FileInv, SenderKnown, Away
<1> QED
  BY <1>1 DEF FileInv, FileTyped, MadeOfSent, Made, Sending

\* What goes into the bucket is the part of that name.
LEMMA PartGoesIn ==
    ASSUME FileInv, sender.at = "putting", sender.next <= Len(sender.parts), sent' = sent,
           Takes(sender.ticket, NameOf(sender), sender.parts[sender.next]),
           objects' = With(objects, <<sender.blob, NameOf(sender)>>, sender.parts[sender.next])
    PROVE  /\ DOMAIN objects' \subseteq (DOMAIN sent) \X Names
           /\ DOMAIN objects \subseteq DOMAIN objects'
           /\ <<sender.item, NameIn(sent[sender.item], sender.next)>> \in DOMAIN objects'
           /\ \A y \in DOMAIN sent, kind \in FileKinds : Made(y, kind) => Stored(y, kind)'
<1> DEFINE x == sender.item
           file == sent[x]
           n == NameIn(file, sender.next)
           part == sender.parts[sender.next]
<1>1. x \in DOMAIN sent /\ x \in FileIds /\ file \in Files
  BY SenderOf
<1>2. Count(file) \in Nat \ {0}
  BY <1>1, ChunksShape
<1>3. ASSUME NEW kind \in FileKinds, Made(x, kind)
      PROVE  /\ sender.blob = x /\ NameOf(sender) = n /\ n \in PartNames(file)
             /\ part = Part(x, file, kind, n)
  <2>1. Putting(sender, x, file, kind)
    BY <1>3, SenderOf
  <2>2. sender.blob = x
    BY <2>1 DEF Putting
  <2>3. Len(sender.parts) = Count(file) + 1 /\ sender.next \in 1 .. Count(file) + 1
    BY <1>2, <2>1 DEF Putting
  <2>4. NameOf(sender) = n
    BY <2>3 DEF NameOf, NameIn
  <2>5. part = Part(x, file, kind, n)
    BY <2>1, <2>3 DEF Putting
  <2>6. n \in PartNames(file)
    BY <1>1, <2>3, NamesOfParts
  <2> QED
    BY <2>2, <2>4, <2>5, <2>6
<1>4. PICK kind \in FileKinds : Made(x, kind)
  BY SenderOf
<1>5. sender.blob = x /\ NameOf(sender) = n
  BY <1>3, <1>4
<1>6. n \in Names
  BY <1>5 DEF Takes, IsChunkName, Names
<1>7. objects' = With(objects, <<x, n>>, part)
  BY <1>5
<1> HIDE DEF n, part
<1>8. DOMAIN objects' = DOMAIN objects \cup {<<x, n>>}
      /\ objects'[<<x, n>>] = part
      /\ \A k \in DOMAIN objects : k # <<x, n>> => objects'[k] = objects[k]
  BY <1>7 DEF With
<1>9. DOMAIN objects \subseteq (DOMAIN sent) \X Names
  BY DEF FileInv, FileTyped
<1>10. ASSUME NEW y \in DOMAIN sent, NEW k \in FileKinds, Made(y, k)
       PROVE  Stored(y, k)'
  <2> SUFFICES ASSUME NEW m \in Names, <<y, m>> \in DOMAIN objects'
               PROVE  m \in PartNames(sent[y]) /\ objects'[<<y, m>>] = Part(y, sent[y], k, m)
    BY DEF Stored
  <2>1. CASE <<y, m>> = <<x, n>>
    BY <1>3, <1>8, <1>10, <2>1 DEF n, part
  <2>2. CASE <<y, m>> # <<x, n>>
    BY <1>8, <1>10, <2>2 DEF Made, Stored
  <2> QED
    BY <2>1, <2>2
<1> QED
  BY <1>1, <1>6, <1>8, <1>9, <1>10 DEF n

LEMMA PutTicketKeeps ==
    ASSUME FileInv, PutTicket
    PROVE  FileInv'
<1> DEFINE x == sender.item
           ticket == Ticket(sender.blob, "upload")
<1>1. sender.at = "putting"
      /\ sender' = (IF ticket = NoTicket THEN Away ELSE Step(sender, ticket))
      /\ UNCHANGED <<time, objects, rows, items, tray, reader, sent, faults, sweep, caught>>
      /\ sender.next <= Len(sender.parts)
  BY DEF PutTicket, sweepVars
<1> HIDE DEF ticket
<1>2. x \in DOMAIN sent /\ x \in FileIds /\ sent[x] \in Files
  BY <1>1, SenderOf
<1>3. PICK kind \in FileKinds : Made(x, kind)
  BY <1>1, SenderOf
<1>4. ASSUME NEW k \in FileKinds, Made(x, k), sender' # Away
      PROVE  Putting(sender', x, sent[x], k) /\ sender'.next = sender.next
             /\ sender'.item = x /\ sender'.at = "putting"
  <2>1. Putting(sender, x, sent[x], k)
    BY <1>1, <1>4, SenderOf
  <2>2. sender = [at |-> "putting", item |-> x, blob |-> x, parts |-> sender.parts,
                  next |-> sender.next, ticket |-> sender.ticket, row |-> RowOf(x, sent[x], k)]
    BY <2>1 DEF Putting
  <2>3. sender' = [sender EXCEPT !.ticket = ticket]
    BY <1>1, <1>4 DEF Step
  <2>4. sender' = [at |-> "putting", item |-> x, blob |-> x, parts |-> sender.parts,
                   next |-> sender.next, ticket |-> ticket, row |-> RowOf(x, sent[x], k)]
    BY <2>2, <2>3
  <2>5. sender'.next = sender.next /\ sender'.parts = sender.parts /\ sender'.ticket = ticket
        /\ sender'.item = x /\ sender'.at = "putting"
    BY <2>4
  <2>6. Len(sender.parts) = Count(sent[x]) + 1 /\ Count(sent[x]) \in Nat
    BY <1>2, <2>1, ChunksShape DEF Putting
  <2>7. sender.next # Count(sent[x]) + 2
    BY <1>1, <2>6
  <2> QED
    BY <2>1, <2>4, <2>5, <2>7 DEF Putting
<1>5. SenderKnown'
  BY <1>1, <1>2, <1>3, <1>4 DEF SenderKnown
<1>6. Away.at # "putting"
  BY DEF Away
<1>7. ASSUME NEW y \in DOMAIN sent, NEW k \in FileKinds, Made(y, k)
      PROVE  Stored(y, k)' /\ Sending(y, k)'
  <2>1. Stored(y, k)'
    BY <1>1, <1>7 DEF Made, Stored
  <2>2. Sending(y, k)'
    BY <1>1, <1>3, <1>4, <1>6, <1>7 DEF Sending
  <2> QED
    BY <2>1, <2>2
<1>8. ASSUME NEW y \in DOMAIN sent
      PROVE  Progress(y)'
  BY <1>1, <1>3, <1>4, <1>6 DEF FileInv, PartsThere, Progress
<1>9. faults' \in 0 .. MaxFaults /\ DOMAIN objects \subseteq (DOMAIN sent) \X Names
  BY <1>1 DEF FileInv, FileTyped
<1> QED
  BY <1>1, <1>5, <1>7, <1>8, <1>9, SenderMoves

LEMMA PutPartKeeps ==
    ASSUME FileInv, PutPart
    PROVE  FileInv'
<1> DEFINE x == sender.item
           part == sender.parts[sender.next]
           taken == Takes(sender.ticket, NameOf(sender), part)
<1>1. sender.at = "putting"
      /\ objects' = (IF taken THEN With(objects, <<sender.blob, NameOf(sender)>>, part) ELSE objects)
      /\ sender' = (IF taken THEN [Step(sender, NoTicket) EXCEPT !.next = @ + 1] ELSE Away)
      /\ UNCHANGED <<time, rows, items, tray, reader, sent, faults, sweep, caught>>
  BY DEF PutPart, sweepVars
<1>2. x \in DOMAIN sent /\ x \in FileIds /\ sent[x] \in Files
  BY <1>1, SenderOf
<1>3. faults' \in 0 .. MaxFaults /\ DOMAIN objects \subseteq (DOMAIN sent) \X Names
  BY <1>1 DEF FileInv, FileTyped
<1>4. Away.at # "putting"
  BY DEF Away
<1>5. CASE ~ taken
  <2>1. objects' = objects /\ sender' = Away
    BY <1>1, <1>5
  <2>2. SenderKnown'
    BY <2>1 DEF SenderKnown
  <2>3. \A y \in DOMAIN sent, k \in FileKinds : Made(y, k) => Stored(y, k)' /\ Sending(y, k)'
    BY <1>1, <1>4, <2>1 DEF Made, Stored, Sending
  <2>4. \A y \in DOMAIN sent : Progress(y)'
    BY <1>4, <2>1 DEF Progress
  <2> QED
    BY <1>1, <1>3, <2>1, <2>2, <2>3, <2>4, SenderMoves
<1>6. CASE taken
  <2>1. objects' = With(objects, <<sender.blob, NameOf(sender)>>, part)
        /\ sender' = [Step(sender, NoTicket) EXCEPT !.next = @ + 1]
    BY <1>1, <1>6
  <2>2. PICK kind \in FileKinds : Made(x, kind)
    BY <1>1, SenderOf
  <2>3. Count(sent[x]) \in Nat \ {0}
    BY <1>2, ChunksShape
  <2>4. sender.next \in 1 .. Count(sent[x]) + 1 /\ sender.next <= Len(sender.parts)
    <3>1. Putting(sender, x, sent[x], kind)
      BY <1>1, <2>2, SenderOf
    <3>2. sender.ticket # NoTicket
      BY DEF PutPart, Asked
    <3> QED
      BY <2>3, <3>1, <3>2 DEF Putting
  <2>5. ASSUME NEW k \in FileKinds, Made(x, k)
        PROVE  Putting(sender', x, sent[x], k) /\ sender'.next = sender.next + 1
               /\ sender'.item = x /\ sender'.at = "putting"
    <3>1. Putting(sender, x, sent[x], k)
      BY <1>1, <2>5, SenderOf
    <3>2. sender = [at |-> "putting", item |-> x, blob |-> x, parts |-> sender.parts,
                    next |-> sender.next, ticket |-> sender.ticket, row |-> RowOf(x, sent[x], k)]
      BY <3>1 DEF Putting
    <3> DEFINE st == Step(sender, NoTicket)
    <3>3. st = [at |-> "putting", item |-> x, blob |-> x, parts |-> sender.parts,
                next |-> sender.next, ticket |-> NoTicket, row |-> RowOf(x, sent[x], k)]
      BY <3>2 DEF Step
    <3>4. sender' = [st EXCEPT !.next = @ + 1]
      BY <2>1
    <3> HIDE DEF st
    <3>5. sender' = [at |-> "putting", item |-> x, blob |-> x, parts |-> sender.parts,
                     next |-> sender.next + 1, ticket |-> NoTicket, row |-> RowOf(x, sent[x], k)]
      BY <3>3, <3>4
    <3>6. sender'.next = sender.next + 1 /\ sender'.parts = sender.parts
          /\ sender'.ticket = NoTicket /\ sender'.item = x /\ sender'.at = "putting"
      BY <3>5
    <3>7. sender.next + 1 \in 1 .. Count(sent[x]) + 2
      BY <2>3, <2>4
    <3> QED
      BY <3>1, <3>5, <3>6, <3>7 DEF Putting
  <2>6. SenderKnown'
    BY <1>1, <1>2, <2>2, <2>5 DEF SenderKnown
  <2>7. /\ DOMAIN objects' \subseteq (DOMAIN sent) \X Names
        /\ DOMAIN objects \subseteq DOMAIN objects'
        /\ <<x, NameIn(sent[x], sender.next)>> \in DOMAIN objects'
        /\ \A y \in DOMAIN sent, k \in FileKinds : Made(y, k) => Stored(y, k)'
    BY <1>1, <1>6, <2>1, <2>4, PartGoesIn
  <2>8. ASSUME NEW y \in DOMAIN sent, NEW k \in FileKinds, Made(y, k)
        PROVE  Sending(y, k)'
    BY <1>1, <2>2, <2>5, <2>8 DEF Sending
  <2>9. ASSUME NEW y \in DOMAIN sent
        PROVE  Progress(y)'
    <3> SUFFICES ASSUME y = x, x \in DOMAIN rows \ caught,
                        NEW i \in 1 .. (sender'.next - 1)
                 PROVE  <<x, NameIn(sent[x], i)>> \in DOMAIN objects'
      BY <1>1, <2>2, <2>5 DEF Progress
    <3>1. i = sender.next \/ i \in 1 .. sender.next - 1
      BY <2>2, <2>4, <2>5
    <3>2. i \in 1 .. sender.next - 1 => <<x, NameIn(sent[x], i)>> \in DOMAIN objects
      BY <1>1, <1>2 DEF FileInv, PartsThere, Progress
    <3> QED
      BY <2>7, <3>1, <3>2
  <2> QED
    BY <1>1, <1>3, <2>6, <2>7, <2>8, <2>9, SenderMoves
<1> QED
  BY <1>5, <1>6

LEMMA SendFailsKeeps ==
    ASSUME FileInv, SendFails
    PROVE  FileInv'
<1> DEFINE part == sender.parts[sender.next]
           name == NameOf(sender)
<1>1. sender.at = "putting" /\ sender.next <= Len(sender.parts) /\ sender' = Away
      /\ faults < MaxFaults /\ faults' = faults + 1
      /\ UNCHANGED <<time, rows, items, tray, reader, sent, sweep, caught>>
  BY DEF SendFails, sweepVars
<1>2. \/ objects' = objects
      \/ /\ Takes(sender.ticket, name, part)
         /\ objects' = With(objects, <<sender.blob, name>>, part)
  BY DEF SendFails, sweepVars
<1>3. faults \in 0 .. MaxFaults /\ MaxFaults \in Nat
      /\ DOMAIN objects \subseteq (DOMAIN sent) \X Names
  BY FilesAssumption DEF FileInv, FileTyped
<1>4. faults' \in 0 .. MaxFaults
  BY <1>1, <1>3
<1>5. /\ DOMAIN objects' \subseteq (DOMAIN sent) \X Names
      /\ DOMAIN objects \subseteq DOMAIN objects'
      /\ \A y \in DOMAIN sent, k \in FileKinds : Made(y, k) => Stored(y, k)'
  <2>1. CASE objects' = objects
    BY <1>1, <1>3, <2>1 DEF Made, Stored
  <2>2. CASE /\ Takes(sender.ticket, name, part)
             /\ objects' = With(objects, <<sender.blob, name>>, part)
    BY <1>1, <2>2, PartGoesIn
  <2> QED
    BY <1>2, <2>1, <2>2
<1>6. SenderKnown' /\ \A y \in DOMAIN sent, k \in FileKinds : Sending(y, k)'
  BY <1>1 DEF SenderKnown, Sending, Away
<1>7. \A y \in DOMAIN sent : Progress(y)'
  BY <1>1 DEF Progress, Away
<1> QED
  BY <1>1, <1>4, <1>5, <1>6, <1>7, SenderMoves

\* The bytes that the server expects are more than one for each part but the last.
LEMMA SizeExpected ==
    ASSUME NEW x \in FileIds, NEW file \in Files, NEW kind \in FileKinds, NEW parts,
           parts = SealedParts(KeyOf(x), Packed(file).bytes, BaseOf(x), Aad(x, kind))
    PROVE  SizeOf(parts) \in Nat \ {0, 1}
<1> DEFINE n == Count(file) + 1
<1>1. n \in Nat /\ n >= 2
  BY ChunksShape
<1>2. DOMAIN parts = 1 .. n
      /\ \A i \in 1 .. n : parts[i] = Part(x, file, kind, NameIn(file, i))
  BY PartsShape
<1>3. ASSUME NEW i \in 1 .. n
      PROVE  CipherBytes(parts[i]) \in Nat \ {0}
  <2>1. parts[i] \in Ciphertexts
    BY <1>2, NamesOfParts, PartIsSealed
  <2>2. parts[i].plain \in Plain
    BY <2>1 DEF Ciphertexts
  <2>3. Len(parts[i].plain) \in Nat
    BY <2>2 DEF Plain
  <2> QED
    BY <2>3 DEF CipherBytes
<1> HIDE DEF n
<1>4. SizeOf(parts) \in Nat /\ SizeOf(parts) >= n
  BY <1>1, <1>2, <1>3, PartsTakeBytes
<1> QED
  BY <1>1, <1>4

LEMMA SendFileKeeps ==
    ASSUME FileInv, NEW x \in FileIds, NEW file \in Contents, NEW kind \in FileKinds,
           SendFile(x, file, kind)
    PROVE  FileInv'
<1> DEFINE parts == SealedParts(KeyOf(x), Packed(file).bytes, BaseOf(x), Aad(x, kind))
           size == SizeOf(parts)
<1>1. /\ sender.at = "away" /\ x \notin DOMAIN sent /\ file # <<>>
      /\ rows' = With(rows, x, [state |-> "pending", created |-> time, size |-> size])
      /\ sender' = [at |-> "putting", item |-> x, blob |-> x, parts |-> parts, next |-> 1,
                    ticket |-> NoTicket, row |-> RowOf(x, file, kind)]
      /\ sent' = With(sent, x, file)
      /\ UNCHANGED <<time, objects, items, tray, reader, faults, sweep, caught>>
  BY DEF SendFile, sweepVars, KeyOf, BaseOf, RowOf, MetaOf
<1>2. file \in Files
  BY <1>1 DEF Files
<1>3. size \in Nat \ {0, 1}
  BY <1>2, SizeExpected
<1>4. Len(parts) = Count(file) + 1 /\ Count(file) \in Nat \ {0}
      /\ \A i \in 1 .. Count(file) + 1 : parts[i] = Part(x, file, kind, NameIn(file, i))
  BY <1>2, PartsShape, ChunksShape
<1> HIDE DEF parts, size
<1>5. DOMAIN sent' = DOMAIN sent \cup {x} /\ sent'[x] = file
      /\ \A y \in DOMAIN sent : sent'[y] = sent[y] /\ y # x
  BY <1>1 DEF With
<1>6. DOMAIN rows' = DOMAIN rows \cup {x}
      /\ rows'[x] = [state |-> "pending", created |-> time, size |-> size]
      /\ \A y \in DOMAIN rows : y # x => rows'[y] = rows[y]
  BY <1>1 DEF With
<1>7. /\ DOMAIN objects \subseteq (DOMAIN sent) \X Names
      /\ DOMAIN rows \subseteq DOMAIN sent /\ DOMAIN items \subseteq DOMAIN sent
      /\ DOMAIN tray \subseteq DOMAIN sent /\ DOMAIN sent \subseteq FileIds
      /\ time \in Nat
  BY FilesAssumption DEF FileInv, FileTyped
<1>8. x \notin DOMAIN rows /\ x \notin DOMAIN items /\ x \notin DOMAIN tray
      /\ \A n \in Names : <<x, n>> \notin DOMAIN objects
  BY <1>1, <1>7
<1>9. FileTyped'
  <2>1. time' \in 0 .. MaxTicks /\ faults' \in 0 .. MaxFaults
    BY <1>1 DEF FileInv, FileTyped
  <2>2. \A y \in DOMAIN sent' : y \in FileIds /\ sent'[y] \in Files
    BY <1>2, <1>5 DEF FileInv, FileTyped
  <2>3. \A b \in DOMAIN rows' :
            rows'[b] \in [state : {"pending", "committed"}, created : Nat, size : Nat \ {0, 1}]
    <3>1. rows'[x] \in [state : {"pending", "committed"}, created : Nat, size : Nat \ {0, 1}]
      BY <1>3, <1>6, <1>7
    <3> QED
      BY <1>6, <3>1 DEF FileInv, FileTyped
  <2>4. DOMAIN rows' \subseteq DOMAIN sent' /\ DOMAIN items' \subseteq DOMAIN sent'
        /\ DOMAIN tray' \subseteq DOMAIN sent'
        /\ DOMAIN objects' \subseteq (DOMAIN sent') \X Names
    BY <1>1, <1>5, <1>6, <1>7
  <2>5. /\ sweep' \in [on : BOOLEAN, keep : SUBSET FileIds, todo : SUBSET (FileIds \X Names)]
        /\ sweep'.todo \subseteq DOMAIN objects' /\ (~sweep'.on => sweep' = NoSweep)
    <3>1. sweep' = sweep /\ objects' = objects
      BY <1>1
    <3>2. FileTyped
      BY DEF FileInv
    <3> QED
      BY <3>1, <3>2 DEF FileTyped, NoSweep
  <2> QED
    BY <2>1, <2>2, <2>3, <2>4, <2>5 DEF FileTyped
<1>10. SenderKnown' /\ sender'.at = "putting" /\ sender'.item = x /\ sender'.next = 1
  BY <1>1, <1>5 DEF SenderKnown
<1>11. ReaderKnown'
  BY <1>1, <1>5 DEF FileInv, ReaderKnown
<1>12. MadeOfSent'
  <2> SUFFICES ASSUME NEW y \in DOMAIN sent'
               PROVE  \E k \in FileKinds : Made(y, k)'
    BY DEF MadeOfSent
  <2>1. CASE y = x
    <3>1. Stored(x, kind)' /\ Listed(x, kind)'
      BY <1>1, <1>8 DEF Stored, Listed
    <3>2. Reading(x, kind)'
      BY <1>1, <1>8 DEF FileInv, ReaderKnown, Reading, NotReading
    <3>3. Putting(sender', x, file, kind)
      <4>1. sender'.parts = parts /\ sender'.next = 1 /\ sender'.ticket = NoTicket
        BY <1>1
      <4>2. 1 \in 1 .. Count(file) + 2
        BY <1>4
      <4> QED
        BY <1>1, <1>4, <4>1, <4>2 DEF Putting
    <3>4. Sending(x, kind)'
      BY <1>5, <3>3 DEF Sending
    <3> QED
      BY <2>1, <3>1, <3>2, <3>4 DEF Made
  <2>2. CASE y # x
    <3>1. y \in DOMAIN sent /\ sent'[y] = sent[y]
      BY <1>5, <2>2
    <3>2. PICK k \in FileKinds : Made(y, k)
      BY <3>1 DEF FileInv, MadeOfSent
    <3>3. Stored(y, k)' /\ Listed(y, k)' /\ Reading(y, k)'
      BY <1>1, <3>1, <3>2 DEF Made, Stored, Listed, Reading
    <3>4. Sending(y, k)'
      BY <1>10, <2>2 DEF Sending
    <3> QED
      BY <3>2, <3>3, <3>4 DEF Made
  <2> QED
    BY <2>1, <2>2
<1>13. PartsThere'
  <2> SUFFICES ASSUME NEW y \in DOMAIN sent'
               PROVE  Progress(y)' /\ AllThere(y)' /\ Settled(y)'
    BY DEF PartsThere
  <2>1. CASE y = x
    <3>1. Progress(x)'
      BY <1>10 DEF Progress
    <3>2. rows'[x].state = "pending"
      BY <1>6
    <3>3. AllThere(x)' /\ Settled(x)'
      BY <1>1, <1>8, <3>2 DEF AllThere, Settled
    <3> QED
      BY <2>1, <3>1, <3>3
  <2>2. CASE y # x
    <3>1. y \in DOMAIN sent /\ sent'[y] = sent[y]
      BY <1>5, <2>2
    <3>2. y \in DOMAIN rows' <=> y \in DOMAIN rows
      BY <1>6, <2>2
    <3>3. y \in DOMAIN rows => rows'[y] = rows[y]
      BY <1>6, <2>2
    <3>4. Progress(y)'
      BY <1>10, <2>2 DEF Progress
    <3>5. AllThere(y) /\ Settled(y)
      BY <3>1 DEF FileInv, PartsThere
    <3>6. AllThere(y)'
      <4>1. objects' = objects /\ caught' = caught
        BY <1>1
      <4>2. PartNames(sent[y])' = PartNames(sent[y])
        BY <3>1
      <4> QED
        BY <3>2, <3>3, <3>5, <4>1, <4>2 DEF AllThere
    <3>7. Settled(y)'
      BY <1>1, <3>1, <3>2, <3>3, <3>5 DEF Settled
    <3> QED
      BY <3>4, <3>6, <3>7
  <2> QED
    BY <2>1, <2>2
<1> QED
  BY <1>9, <1>10, <1>11, <1>12, <1>13 DEF FileInv

\* A file is committed when every part is there.
LEMMA CommitKeeps ==
    ASSUME FileInv, Commit
    PROVE  FileInv'
<1> DEFINE x == sender.item
           bytes == Stat(sender.blob)
           right == /\ Ticket(sender.blob, "stat") # NoTicket
                    /\ bytes > 0 /\ bytes <= rows[sender.blob].size
<1>1. /\ sender.at = "putting" /\ sender.next > Len(sender.parts) /\ sender' = Away
      /\ UNCHANGED <<time, objects, tray, reader, sent, faults, sweep, caught>>
  BY DEF Commit, sweepVars
<1>2. IF right
      THEN /\ rows' = [rows EXCEPT ![sender.blob].state = "committed"]
           /\ items' = With(items, x, sender.row)
      ELSE UNCHANGED <<rows, items>>
  BY DEF Commit, sweepVars
<1>3. right => Ticket(sender.blob, "stat") # NoTicket
  OBVIOUS
<1> HIDE DEF right
<1>4. x \in DOMAIN sent /\ x \in FileIds /\ sent[x] \in Files
  BY <1>1, SenderOf
<1>5. PICK kind0 \in FileKinds : Made(x, kind0)
  BY <1>1, SenderOf
<1>6. \A kind \in FileKinds : Made(x, kind) => Putting(sender, x, sent[x], kind)
  BY <1>1, SenderOf
<1>7. sender.blob = x /\ \A kind \in FileKinds : Made(x, kind) => sender.row = RowOf(x, sent[x], kind)
  <2>1. ASSUME NEW kind \in FileKinds, Made(x, kind)
        PROVE  sender.blob = x /\ sender.row = RowOf(x, sent[x], kind)
    <3>1. Putting(sender, x, sent[x], kind)
      BY <1>6, <2>1
    <3> QED
      BY <3>1 DEF Putting
  <2> QED
    BY <1>5, <2>1
<1>8. SenderKnown' /\ ReaderKnown'
  BY <1>1 DEF FileInv, SenderKnown, ReaderKnown
<1>9. \A y, k : Sending(y, k)'
  BY <1>1 DEF Sending, Away
<1>10. \A y : Progress(y)'
  BY <1>1 DEF Progress, Away
<1>11. CASE ~ right
  <2>1. rows' = rows /\ items' = items
    BY <1>2, <1>11
  <2>2. FileTyped'
    BY <1>1, <2>1 DEF FileInv, FileTyped
  <2>3. ASSUME NEW y \in DOMAIN sent
        PROVE  \E k \in FileKinds : Made(y, k)'
    <3>1. PICK k \in FileKinds : Made(y, k)
      BY <2>3 DEF FileInv, MadeOfSent
    <3>2. Stored(y, k)' /\ Listed(y, k)' /\ Reading(y, k)'
      BY <1>1, <2>1, <3>1 DEF Made, Stored, Listed, Reading
    <3> QED
      BY <1>9, <3>2 DEF Made
  <2>4. ASSUME NEW y \in DOMAIN sent
        PROVE  AllThere(y)' /\ Settled(y)'
    BY <1>1, <2>1, <2>4 DEF FileInv, PartsThere, AllThere, Settled
  <2>5. MadeOfSent' /\ PartsThere'
    BY <1>1, <1>10, <2>3, <2>4 DEF MadeOfSent, PartsThere
  <2> QED
    BY <1>8, <2>2, <2>5 DEF FileInv
<1>12. CASE right
  <2>1. x \in DOMAIN rows
    BY <1>3, <1>7, <1>12, TicketShape
  <2>2. rows' = [rows EXCEPT ![x].state = "committed"] /\ items' = With(items, x, sender.row)
    BY <1>2, <1>7, <1>12
  <2>3. rows[x] \in [state : {"pending", "committed"}, created : Nat, size : Nat \ {0, 1}]
    BY <2>1 DEF FileInv, FileTyped
  <2>4. DOMAIN rows' = DOMAIN rows /\ rows'[x] = [rows[x] EXCEPT !.state = "committed"]
        /\ \A b \in DOMAIN rows : b # x => rows'[b] = rows[b]
    BY <2>1, <2>2
  <2>5. rows'[x] \in [state : {"pending", "committed"}, created : Nat, size : Nat \ {0, 1}]
        /\ rows'[x].state = "committed"
    BY <2>3, <2>4
  <2>6. DOMAIN items' = DOMAIN items \cup {x} /\ items'[x] = sender.row
        /\ \A y \in DOMAIN items : y # x => items'[y] = items[y]
    BY <2>2 DEF With
  <2>7. FileTyped'
    <3>1. \A b \in DOMAIN rows' :
            rows'[b] \in [state : {"pending", "committed"}, created : Nat, size : Nat \ {0, 1}]
      BY <2>4, <2>5 DEF FileInv, FileTyped
    <3> QED
      BY <1>1, <1>4, <2>4, <2>6, <3>1 DEF FileInv, FileTyped
  <2>8. ASSUME NEW y \in DOMAIN sent
        PROVE  \E k \in FileKinds : Made(y, k)'
    <3>1. PICK k \in FileKinds : Made(y, k)
      BY <2>8 DEF FileInv, MadeOfSent
    <3>2. Stored(y, k)' /\ Reading(y, k)'
      BY <1>1, <3>1 DEF Made, Stored, Reading
    <3>3. Listed(y, k)'
      <4>1. CASE y = x
        BY <1>1, <1>7, <2>6, <3>1, <4>1 DEF Made, Listed
      <4>2. CASE y # x
        BY <1>1, <2>6, <3>1, <4>2 DEF Made, Listed
      <4> QED
        BY <4>1, <4>2
    <3> QED
      BY <1>9, <3>2, <3>3 DEF Made
  <2>9. x \notin caught => \A n \in PartNames(sent[x]) : <<x, n>> \in DOMAIN objects
    <3> SUFFICES ASSUME x \notin caught, NEW n \in PartNames(sent[x])
                 PROVE  <<x, n>> \in DOMAIN objects
      OBVIOUS
    <3>1. PICK i \in 1 .. Count(sent[x]) + 1 : n = NameIn(sent[x], i)
      BY <1>4, EveryPartIsNamed
    <3>2. Count(sent[x]) \in Nat \ {0}
      BY <1>4, ChunksShape
    <3>3. Len(sender.parts) = Count(sent[x]) + 1 /\ sender.next \in 1 .. Count(sent[x]) + 2
      BY <1>5, <1>6 DEF Putting
    <3>4. i \in 1 .. sender.next - 1
      BY <1>1, <3>2, <3>3
    <3> QED
      BY <1>1, <1>4, <2>1, <3>1, <3>4 DEF FileInv, PartsThere, Progress
  <2>10. ASSUME NEW y \in DOMAIN sent
         PROVE  AllThere(y)' /\ Settled(y)'
    <3>1. CASE y = x
      BY <1>1, <2>1, <2>4, <2>5, <2>9, <3>1 DEF AllThere, Settled
    <3>2. CASE y # x
      <4>1. AllThere(y) /\ Settled(y)
        BY <2>10 DEF FileInv, PartsThere
      <4>2. y \in DOMAIN items' <=> y \in DOMAIN items
        BY <2>6, <3>2
      <4>3. y \in DOMAIN rows => rows'[y] = rows[y]
        BY <2>4, <3>2
      <4> QED
        BY <1>1, <2>4, <4>1, <4>2, <4>3 DEF AllThere, Settled
    <3> QED
      BY <3>1, <3>2
  <2>11. MadeOfSent' /\ PartsThere'
    BY <1>1, <1>10, <2>8, <2>10 DEF MadeOfSent, PartsThere
  <2> QED
    BY <1>8, <2>7, <2>11 DEF FileInv
<1> QED
  BY <1>11, <1>12

----------------------------------------------------------------------------
(* What goes on beside them.                                               *)

LEMMA SeeKeeps ==
    ASSUME FileInv, See
    PROVE  FileInv'
<1>1. tray' = Over(items, tray)
      /\ UNCHANGED <<time, objects, rows, items, sender, reader, sent, faults, sweep, caught>>
  BY DEF See, sweepVars
<1>2. DOMAIN tray' = DOMAIN items \cup DOMAIN tray
      /\ \A x \in DOMAIN tray' : tray'[x] = (IF x \in DOMAIN items THEN items[x] ELSE tray[x])
  BY <1>1 DEF Over
<1>3. FileTyped' /\ SenderKnown' /\ ReaderKnown'
  BY <1>1, <1>2 DEF FileInv, FileTyped, SenderKnown, ReaderKnown
<1>4. MadeOfSent'
  <2> SUFFICES ASSUME NEW x \in DOMAIN sent
               PROVE  \E kind \in FileKinds : Made(x, kind)'
    BY <1>1 DEF MadeOfSent
  <2>1. PICK kind \in FileKinds : Made(x, kind)
    BY DEF FileInv, MadeOfSent
  <2>2. Stored(x, kind)' /\ Sending(x, kind)' /\ Reading(x, kind)'
    BY <1>1, <2>1 DEF Made, Stored, Sending, Reading
  <2>3. Listed(x, kind)'
    BY <1>1, <1>2, <2>1 DEF Made, Listed
  <2> QED
    BY <2>2, <2>3 DEF Made
<1>5. PartsThere'
  BY <1>1, <1>2 DEF FileInv, PartsThere, Progress, AllThere, Settled
<1> QED
  BY <1>3, <1>4, <1>5 DEF FileInv

LEMMA DeleteItemKeeps ==
    ASSUME FileInv, NEW item \in DOMAIN items, DeleteItem(item)
    PROVE  FileInv'
<1>1. items' = [x \in DOMAIN items \ {item} |-> items[x]]
      /\ UNCHANGED <<time, objects, rows, tray, sender, reader, sent, faults, sweep, caught>>
  BY DEF DeleteItem, sweepVars
<1>2. DOMAIN items' \subseteq DOMAIN items /\ \A x \in DOMAIN items' : items'[x] = items[x]
  BY <1>1
<1>3. FileTyped' /\ SenderKnown' /\ ReaderKnown'
  BY <1>1, <1>2 DEF FileInv, FileTyped, SenderKnown, ReaderKnown
<1>4. MadeOfSent'
  <2> SUFFICES ASSUME NEW x \in DOMAIN sent
               PROVE  \E kind \in FileKinds : Made(x, kind)'
    BY <1>1 DEF MadeOfSent
  <2>1. PICK kind \in FileKinds : Made(x, kind)
    BY DEF FileInv, MadeOfSent
  <2>2. Stored(x, kind)' /\ Sending(x, kind)' /\ Reading(x, kind)'
    BY <1>1, <2>1 DEF Made, Stored, Sending, Reading
  <2>3. Listed(x, kind)'
    BY <1>1, <1>2, <2>1 DEF Made, Listed
  <2> QED
    BY <2>2, <2>3 DEF Made
<1>5. PartsThere'
  BY <1>1, <1>2 DEF FileInv, PartsThere, Progress, AllThere, Settled
<1> QED
  BY <1>3, <1>4, <1>5 DEF FileInv

\* A row goes, and with it the file; an item keeps its own.
LEMMA PruneKeeps ==
    ASSUME FileInv, Prune
    PROVE  FileInv'
<1> DEFINE dead == {b \in DOMAIN rows :
                       IF rows[b].state = "pending" THEN rows[b].created < time
                       ELSE \A x \in DOMAIN items : items[x].blob # b}
<1>1. rows' = [b \in DOMAIN rows \ dead |-> rows[b]]
      /\ sweep' = [on |-> TRUE, keep |-> DOMAIN rows \ dead, todo |-> {}]
      /\ UNCHANGED <<time, objects, items, tray, sender, reader, caught, sent, faults>>
  BY DEF Prune
<1>2. ASSUME NEW x \in DOMAIN items
      PROVE  x \notin dead
  <2>1. x \in DOMAIN sent
    BY DEF FileInv, FileTyped
  <2>2. x \in DOMAIN rows /\ rows[x].state = "committed"
    BY <2>1 DEF FileInv, PartsThere, Settled
  <2>3. PICK kind \in FileKinds : Made(x, kind)
    BY <2>1 DEF FileInv, MadeOfSent
  <2>4. items[x].blob = x
    BY <2>3 DEF Made, Listed, RowOf
  <2> QED
    BY <2>2, <2>4
<1> HIDE DEF dead
<1>3. DOMAIN rows' = DOMAIN rows \ dead /\ \A b \in DOMAIN rows' : rows'[b] = rows[b]
  BY <1>1
<1>4. FileTyped' /\ SenderKnown' /\ ReaderKnown'
  BY <1>1, <1>3 DEF FileInv, FileTyped, SenderKnown, ReaderKnown
<1>5. MadeOfSent'
  <2> SUFFICES ASSUME NEW x \in DOMAIN sent
               PROVE  \E kind \in FileKinds : Made(x, kind)'
    BY <1>1 DEF MadeOfSent
  <2>1. PICK kind \in FileKinds : Made(x, kind)
    BY DEF FileInv, MadeOfSent
  <2> QED
    BY <1>1, <2>1 DEF Made, Stored, Listed, Sending, Reading
<1>6. ASSUME NEW x \in DOMAIN sent
      PROVE  Progress(x)' /\ AllThere(x)' /\ Settled(x)'
  <2>1. Progress(x) /\ AllThere(x) /\ Settled(x)
    BY DEF FileInv, PartsThere
  <2>2. Progress(x)' /\ AllThere(x)'
    BY <1>1, <1>3, <2>1 DEF Progress, AllThere
  <2>3. Settled(x)'
    BY <1>1, <1>2, <1>3, <2>1 DEF Settled
  <2> QED
    BY <2>2, <2>3
<1>7. PartsThere'
  BY <1>1, <1>6 DEF PartsThere
<1> QED
  BY <1>4, <1>5, <1>7 DEF FileInv

\* A sweep lists, and ends.
LEMMA SweepGoesOn ==
    ASSUME FileInv, SweepList \/ SweepEnds
    PROVE  FileInv'
<1>1. UNCHANGED <<time, objects, rows, items, tray, sender, reader, caught, sent, faults>>
  BY DEF SweepList, SweepEnds
<1>2. /\ sweep' \in [on : BOOLEAN, keep : SUBSET FileIds, todo : SUBSET (FileIds \X Names)]
      /\ sweep'.todo \subseteq DOMAIN objects /\ (~sweep'.on => sweep' = NoSweep)
  <2>1. CASE SweepList
    <3> DEFINE orphans == {key \in DOMAIN objects : key[1] \notin sweep.keep}
    <3>1. sweep.on /\ sweep' = [sweep EXCEPT !.todo = orphans]
      BY <2>1 DEF SweepList
    <3>2. orphans \subseteq DOMAIN objects /\ orphans \in SUBSET (FileIds \X Names)
      BY DEF FileInv, FileTyped
    <3> HIDE DEF orphans
    <3> QED
      BY <3>1, <3>2 DEF FileInv, FileTyped
  <2>2. CASE SweepEnds
    BY <2>2 DEF SweepEnds, NoSweep
  <2> QED
    BY <2>1, <2>2
<1>3. FileTyped' /\ SenderKnown' /\ ReaderKnown'
  BY <1>1, <1>2 DEF FileInv, FileTyped, SenderKnown, ReaderKnown
<1>4. MadeOfSent'
  BY <1>1 DEF FileInv, MadeOfSent, Made, Stored, Listed, Sending, Reading
<1>5. PartsThere'
  BY <1>1 DEF FileInv, PartsThere, Progress, AllThere, Settled
<1> QED
  BY <1>3, <1>4, <1>5 DEF FileInv

\* An object goes whose file had no row at the prune; if it has one by now it is
\* noted.
LEMMA SweepDeleteKeeps ==
    ASSUME FileInv, SweepDelete
    PROVE  FileInv'
<1>1. PICK key \in sweep.todo :
         /\ caught' = IF key[1] \notin DOMAIN rows THEN caught ELSE caught \cup {key[1]}
         /\ objects' = [k \in DOMAIN objects \ {key} |-> objects[k]]
         /\ sweep' = [sweep EXCEPT !.todo = @ \ {key}]
         /\ UNCHANGED <<time, rows, items, tray, sender, reader, sent, faults>>
  BY DEF SweepDelete, Gone
<1>2. DOMAIN objects' = DOMAIN objects \ {key}
      /\ \A k \in DOMAIN objects' : objects'[k] = objects[k]
  BY <1>1
<1>3. ASSUME NEW x \in DOMAIN rows \ caught', NEW n, <<x, n>> \in DOMAIN objects
      PROVE  <<x, n>> \in DOMAIN objects'
  <2>1. <<x, n>>[1] = x
    OBVIOUS
  <2> QED
    BY <1>1, <1>2, <1>3, <2>1
<1>4. FileTyped' /\ SenderKnown' /\ ReaderKnown' /\ caught \subseteq caught'
  <2>1. /\ sweep'.on = sweep.on /\ sweep'.keep = sweep.keep
        /\ sweep'.todo = sweep.todo \ {key}
        /\ sweep' \in [on : BOOLEAN, keep : SUBSET FileIds, todo : SUBSET (FileIds \X Names)]
    BY <1>1 DEF FileInv, FileTyped
  <2>2. sweep.on
    BY DEF FileInv, FileTyped, NoSweep
  <2>3. FileTyped'
    BY <1>1, <1>2, <2>1, <2>2 DEF FileInv, FileTyped
  <2> QED
    BY <1>1, <2>3 DEF FileInv, SenderKnown, ReaderKnown
<1>5. MadeOfSent'
  <2> SUFFICES ASSUME NEW x \in DOMAIN sent
               PROVE  \E kind \in FileKinds : Made(x, kind)'
    BY <1>1 DEF MadeOfSent
  <2>1. PICK kind \in FileKinds : Made(x, kind)
    BY DEF FileInv, MadeOfSent
  <2>2. Listed(x, kind)' /\ Sending(x, kind)' /\ Reading(x, kind)'
    BY <1>1, <2>1 DEF Made, Listed, Sending, Reading
  <2>3. Stored(x, kind)'
    BY <1>1, <1>2, <2>1 DEF Made, Stored
  <2> QED
    BY <2>2, <2>3 DEF Made
<1>6. ASSUME NEW x \in DOMAIN sent
      PROVE  Progress(x)' /\ AllThere(x)' /\ Settled(x)'
  <2>1. Progress(x) /\ AllThere(x) /\ Settled(x)
    BY DEF FileInv, PartsThere
  <2>2. Progress(x)'
    BY <1>1, <1>3, <1>4, <2>1 DEF Progress
  <2>3. AllThere(x)'
    BY <1>1, <1>3, <1>4, <2>1 DEF AllThere
  <2>4. Settled(x)'
    BY <1>1, <2>1 DEF Settled
  <2> QED
    BY <2>2, <2>3, <2>4
<1>7. PartsThere'
  BY <1>1, <1>6 DEF PartsThere
<1> QED
  BY <1>4, <1>5, <1>7 DEF FileInv

\* Time, and a step that changes nothing.
LEMMA FileClock ==
    ASSUME FileInv, TimePasses \/ UNCHANGED fileVars
    PROVE  FileInv'
<1>1. UNCHANGED <<objects, rows, items, tray, sender, reader, sent, faults, sweep, caught>>
  BY DEF TimePasses, fileVars, sweepVars
<1>2. time' \in 0 .. MaxTicks
  <2>1. time \in 0 .. MaxTicks /\ MaxTicks \in Nat
    BY FilesAssumption DEF FileInv, FileTyped
  <2> QED
    BY <2>1 DEF TimePasses, fileVars, sweepVars
<1>3. FileTyped' /\ SenderKnown' /\ ReaderKnown'
  BY <1>1, <1>2 DEF FileInv, FileTyped, SenderKnown, ReaderKnown
<1>4. MadeOfSent'
  BY <1>1 DEF FileInv, MadeOfSent, Made, Stored, Listed, Sending, Reading
<1>5. PartsThere'
  BY <1>1 DEF FileInv, PartsThere, Progress, AllThere, Settled
<1> QED
  BY <1>3, <1>4, <1>5 DEF FileInv

----------------------------------------------------------------------------

LEMMA FileInvInitially == FileInit => FileInv
<1> SUFFICES ASSUME FileInit
             PROVE  FileInv
  OBVIOUS
<1>1. DOMAIN objects = {} /\ DOMAIN rows = {} /\ DOMAIN items = {} /\ DOMAIN tray = {}
      /\ DOMAIN sent = {}
  BY DEF FileInit
<1>2. time \in 0 .. MaxTicks /\ faults \in 0 .. MaxFaults
  BY FilesAssumption DEF FileInit
<1>3. FileTyped
  <2>1. sweep = [on |-> FALSE, keep |-> {}, todo |-> {}]
    BY DEF FileInit, NoSweep
  <2> QED
    BY <1>1, <1>2, <2>1 DEF FileTyped, NoSweep
<1>4. SenderKnown /\ ReaderKnown
  BY DEF FileInit, SenderKnown, ReaderKnown
<1>5. MadeOfSent /\ PartsThere
  BY <1>1 DEF MadeOfSent, PartsThere
<1> QED
  BY <1>3, <1>4, <1>5 DEF FileInv

LEMMA FileInvKept == FileInv /\ [FileNext]_fileVars => FileInv'
<1> SUFFICES ASSUME FileInv, [FileNext]_fileVars
             PROVE  FileInv'
  OBVIOUS
<1>1. CASE \E x \in FileIds, bytes \in Contents, kind \in {"image", "file"} :
               SendFile(x, bytes, kind)
  BY <1>1, SendFileKeeps DEF FileKinds
<1>2. CASE PutTicket
  BY <1>2, PutTicketKeeps
<1>3. CASE PutPart
  BY <1>3, PutPartKeeps
<1>4. CASE Commit
  BY <1>4, CommitKeeps
<1>5. CASE SendFails
  BY <1>5, SendFailsKeeps
<1>6. CASE See
  BY <1>6, SeeKeeps
<1>7. CASE \E x \in DOMAIN tray : Open(x)
  BY <1>7, OpenKeeps
<1>8. CASE GetTicket
  BY <1>8, GetTicketKeeps
<1>9. CASE Get
  BY <1>9, GetKeeps
<1>10. CASE GetFails
  BY <1>10, GetFailsKeeps
<1>11. CASE Close
  BY <1>11, CloseKeeps
<1>12. CASE \E x \in DOMAIN items : DeleteItem(x)
  BY <1>12, DeleteItemKeeps
<1>13. CASE Prune
  BY <1>13, PruneKeeps
<1>14. CASE SweepList \/ SweepDelete \/ SweepEnds
  BY <1>14, SweepGoesOn, SweepDeleteKeeps
<1>15. CASE TimePasses \/ UNCHANGED fileVars
  BY <1>15, FileClock
<1> QED
  BY <1>1, <1>2, <1>3, <1>4, <1>5, <1>6, <1>7, <1>8, <1>9, <1>10, <1>11, <1>12, <1>13,
     <1>14, <1>15 DEF FileNext

LEMMA FileInvSays == FileInv => FilesOK /\ FileOpensWhole
<1> SUFFICES ASSUME FileInv
             PROVE  FilesOK /\ FileOpensWhole
  OBVIOUS
<1>1. FileTyped
  BY DEF FileInv
<1>2. ASSUME NEW b \in DOMAIN rows
      PROVE  b \in FileIds /\ rows[b].state \in {"pending", "committed"} /\ rows[b].size > 1
  <2>1. rows[b] \in [state : {"pending", "committed"}, created : Nat, size : Nat \ {0, 1}]
    BY <1>1 DEF FileTyped
  <2>2. rows[b].size \in Nat \ {0, 1} /\ rows[b].state \in {"pending", "committed"}
    BY <2>1
  <2> QED
    BY <1>1, <2>2 DEF FileTyped
<1>3. ASSUME NEW x \in DOMAIN items
      PROVE  items[x].blob \in DOMAIN rows
  <2>1. x \in DOMAIN sent
    BY <1>1 DEF FileTyped
  <2>2. PICK kind \in FileKinds : Made(x, kind)
    BY <2>1 DEF FileInv, MadeOfSent
  <2>3. items[x].blob = x
    BY <2>2 DEF Made, Listed, RowOf
  <2> QED
    BY <2>1, <2>3 DEF FileInv, PartsThere, Settled
<1>4. sender.at \in {"away", "putting"} /\ reader.at \in {"idle", "getting", "ended"}
  BY DEF FileInv, SenderKnown, ReaderKnown, Away, NotReading
<1>5. ASSUME reader.at = "getting"
      PROVE  Len(reader.chunks) <= MaxChunks
  <2>1. reader.item \in DOMAIN sent
    BY <1>1, <1>5, GettingKnown DEF FileTyped
  <2>2. PICK kind \in FileKinds : Made(reader.item, kind)
    BY <2>1 DEF FileInv, MadeOfSent
  <2>3. Fetching(reader, reader.item, sent[reader.item], kind)
    BY <1>5, <2>2 DEF Made, Reading
  <2> QED
    BY <2>3 DEF Fetching
<1>6. FilesOK
  BY <1>1, <1>2, <1>3, <1>4, <1>5 DEF FilesOK, FileTyped
<1>7. FileOpensWhole
  BY DEF FileOpensWhole, FileInv, ReaderKnown, NotReading, Finished
<1> QED
  BY <1>6, <1>7

\* The types of the files' state.
THEOREM FilesTyped == FileSpec => []FilesOK
<1>1. FileSpec => []FileInv
  BY FileInvInitially, FileInvKept, PTL DEF FileSpec
<1> QED
  BY <1>1, FileInvSays, PTL

\* Whatever is lost, refused, pruned or swept by rows that were read earlier, what
\* a reader opens is the whole file that was sent, or nothing and then its row was
\* gone, a part of it was swept, a request had failed or a ticket had run out.
THEOREM FilesOpenWhole == FileSpec => []FileOpensWhole
<1>1. FileSpec => []FileInv
  BY FileInvInitially, FileInvKept, PTL DEF FileSpec
<1> QED
  BY <1>1, FileInvSays, PTL

-----------------------------------------------------------------------------
(* Requests: asks and grants.                                              *)

\* A call, and a request that was made.
CallType ==
    [op : Ops, at : {"idle", "insert", "update", "audit"}, by : Askers \cup {"nobody"},
     id : Nat, grant : Grants \cup {0}]

Rows ==
    {row \in [by : Askers, status : {"pending", "approved", "denied"}, granted : Grants \cup {0}] :
        (row.granted # 0) <=> (row.status = "approved")}

\* What a call holds at each of its places.
Stage(c) ==
    \/ call[c] = Idle
    \/ call[c].op = "ask" /\ call[c].at = "insert"
    \/ /\ call[c].op = "dismiss" /\ call[c].at = "update"
       /\ call[c].id \in Asks /\ asks[call[c].id] # "none"
    \/ call[c].op = "request" /\ call[c].at = "insert" /\ call[c].by \in Askers
    \/ /\ call[c].op = "decide" /\ call[c].at \in {"update", "audit"}
       /\ call[c].id \in Requests /\ request[call[c].id] # NoRow

Tables ==
    /\ asks \in [Asks -> {"none", "open", "dismissed"}]
    /\ request \in [Requests -> Rows \cup {NoRow}]
    /\ quota \in [Askers -> Grants \cup {0}]
    /\ audit \subseteq Requests /\ contested \subseteq Requests /\ unlogged \subseteq Requests
    /\ failed \in 0..MaxFailed

Typed == Tables /\ call \in [Calls -> CallType] /\ \A c \in Calls : Stage(c)

\* Asks and requests are numbered as they come.
AsksNumbered == \E k \in 0..MaxAsks : \A a \in Asks : asks[a] # "none" <=> a <= k
RequestsNumbered == \E k \in 0..MaxRequests : \A r \in Requests : request[r] # NoRow <=> r <= k

\* A pending request is the last one of its member.
PendingLast ==
    \A r, q \in Requests :
        request[r].status = "pending" /\ request[q].by = request[r].by => q <= r

\* Who is about to update a request finds it pending, unless somebody else is too.
Deciding(c, r) == call[c].op = "decide" /\ call[c].at = "update" /\ call[c].id = r

DecidedAlone ==
    \A c \in Calls, r \in Requests \ contested :
        Deciding(c, r) => Decidable(r) /\ \A d \in Calls \ {c} : ~Deciding(d, r)

\* A member's space, without the choice of its newest approved request.
Of(m) == {r \in Requests : request[r].by = m}
ApprovedOf(m) == {r \in Of(m) : request[r].status = "approved"}

SpaceGiven ==
    \A m \in Askers :
        Of(m) \cap contested = {} =>
            \/ ApprovedOf(m) = {} /\ quota[m] = 0
            \/ \E r \in ApprovedOf(m) :
                  quota[m] = request[r].granted /\ \A q \in ApprovedOf(m) : q <= r

Sound ==
    /\ Typed /\ AsksNumbered /\ RequestsNumbered /\ AsksNearCap
    /\ PendingLast /\ DecidedAlone /\ SpaceGiven /\ DecisionsLogged

\* The steps, by what they are about.
AskStep(c) ==
    Ask(c) \/ AskInserted(c) \/ Dismissed(c) \/ \E a \in Asks : Dismiss(c, a)

RequestStep(c) ==
    \/ \E m \in Askers : RequestUpload(c, m)
    \/ RequestInserted(c)
    \/ \E r \in Requests, grant \in Grants \cup {0} : DecideUpload(c, r, grant)

VerdictStep(c) == Decided(c) \/ DecisionLogged(c) \/ Fails(c)

LEMMA Steps ==
    ASSUME AskNext
    PROVE  \E c \in Calls : AskStep(c) \/ RequestStep(c) \/ VerdictStep(c)
  BY DEF AskNext, AskStep, RequestStep, VerdictStep

-----------------------------------------------------------------------------
(* Rows and calls.                                                         *)

LEMMA NoRowIsNone ==
    NoRow \notin Rows /\ NoRow.status = "none" /\ NoRow.granted = 0 /\ NoRow.by = "nobody"
  BY DEF NoRow, Rows

LEMMA RowsHave ==
    ASSUME NEW row \in Rows
    PROVE  /\ row.by \in Askers /\ row.by # "nobody" /\ row.status # "none"
           /\ row.status \in {"pending", "approved", "denied"}
           /\ row.granted \in Grants \cup {0} /\ ((row.granted # 0) <=> (row.status = "approved"))
  BY RequestsAssumption DEF Rows

LEMMA VerdictRow ==
    ASSUME NEW m \in Askers, NEW grant \in Grants \cup {0}
    PROVE  Row(m, Verdict(grant), grant) \in Rows
  BY RequestsAssumption DEF Row, Verdict, Rows

LEMMA PendingRow ==
    ASSUME NEW m \in Askers
    PROVE  Row(m, "pending", 0) \in Rows
  BY DEF Row, Rows

LEMMA IdleCall == Idle \in CallType /\ Idle.op = "none" /\ Idle.at = "idle"
  BY RequestsAssumption DEF Idle, CallType, Ops

\* A step is of one call, and only that one moves.
LEMMA OneCallMoves ==
    ASSUME Typed, NEW c \in Calls, AskStep(c) \/ RequestStep(c) \/ VerdictStep(c)
    PROVE  \A d \in Calls \ {c} : call'[d] = call[d]
  BY DEF Typed, AskStep, RequestStep, VerdictStep, Ask, AskInserted, Dismissed, Dismiss,
         RequestUpload, RequestInserted, DecideUpload, Decided, DecisionLogged, Fails,
         Begin, Goes, Ends

\* A call that is not idle is at one place and holds what that place needs.
LEMMA AtDecide ==
    ASSUME Typed, NEW c \in Calls, call[c].op = "decide" \/ call[c].at = "audit"
    PROVE  /\ call[c].op = "decide" /\ call[c].at \in {"update", "audit"}
           /\ call[c].id \in Requests /\ request[call[c].id] \in Rows
           /\ call[c].grant \in Grants \cup {0}
  <1>1. Stage(c) /\ call[c] \in CallType
    BY DEF Typed
  <1>2. /\ call[c].op = "decide" /\ call[c].at \in {"update", "audit"}
        /\ call[c].id \in Requests /\ request[call[c].id] # NoRow
    BY <1>1, IdleCall DEF Stage
  <1>3. QED
    BY <1>1, <1>2 DEF Typed, Tables, CallType

LEMMA AtRequest ==
    ASSUME Typed, NEW c \in Calls, call[c].op = "request"
    PROVE  call[c].at = "insert" /\ call[c].by \in Askers
  BY IdleCall DEF Typed, Stage

LEMMA AtDismiss ==
    ASSUME Typed, NEW c \in Calls, call[c].op = "dismiss"
    PROVE  call[c].at = "update" /\ call[c].id \in Asks /\ asks[call[c].id] # "none"
  BY IdleCall DEF Typed, Stage

-----------------------------------------------------------------------------
(* What a step can change.                                                 *)

\* The next number is the first that is free.
LEMMA CountUpTo ==
    ASSUME NEW N \in Nat, NEW k \in 0..N, NEW S, S = {i \in 1..N : i <= k}
    PROVE  Cardinality(S) = k
  <1>1. S = 1..k
    OBVIOUS
  <1>2. k \in Int /\ 1 \in Int /\ k >= 0
    OBVIOUS
  <1>3. Cardinality(1..k) = IF 1 > k THEN 0 ELSE k - 1 + 1
    BY <1>2, FS_Interval
  <1>4. (IF 1 > k THEN 0 ELSE k - 1 + 1) = k
    BY <1>2
  <1>5. QED
    BY <1>1, <1>3, <1>4

LEMMA NextAsk ==
    ASSUME NEW k \in 0..MaxAsks, \A a \in Asks : asks[a] # "none" <=> a <= k
    PROVE  NewAsk = k + 1
  <1> DEFINE S == {a \in Asks : asks[a] # "none"}
  <1>1. S = {a \in 1..MaxAsks : a <= k} /\ MaxAsks \in Nat
    BY RequestsAssumption DEF Asks
  <1> HIDE DEF S
  <1>2. Cardinality(S) = k
    BY <1>1, CountUpTo
  <1>3. NewAsk = 1 + Cardinality(S)
    BY DEF NewAsk, S
  <1>4. QED
    BY <1>2, <1>3

LEMMA NextRequest ==
    ASSUME NEW k \in 0..MaxRequests, \A r \in Requests : request[r] # NoRow <=> r <= k
    PROVE  NewRequest = k + 1
  <1> DEFINE S == {r \in Requests : request[r] # NoRow}
  <1>1. S = {r \in 1..MaxRequests : r <= k} /\ MaxRequests \in Nat
    BY RequestsAssumption DEF Requests
  <1> HIDE DEF S
  <1>2. Cardinality(S) = k
    BY <1>1, CountUpTo
  <1>3. NewRequest = 1 + Cardinality(S)
    BY DEF NewRequest, S
  <1>4. QED
    BY <1>2, <1>3

LEMMA FreshAsk ==
    ASSUME AsksNumbered, NewAsk \in Asks
    PROVE  asks[NewAsk] = "none"
  <1>1. PICK k \in 0..MaxAsks : \A a \in Asks : asks[a] # "none" <=> a <= k
    BY DEF AsksNumbered
  <1>2. NewAsk = k + 1
    BY <1>1, NextAsk
  <1>3. QED
    BY <1>1, <1>2

LEMMA FreshRequest ==
    ASSUME RequestsNumbered, NewRequest \in Requests
    PROVE  /\ request[NewRequest] = NoRow
           /\ \A r \in Requests : request[r] # NoRow => r <= NewRequest
  <1>1. PICK k \in 0..MaxRequests : \A r \in Requests : request[r] # NoRow <=> r <= k
    BY DEF RequestsNumbered
  <1>2. NewRequest = k + 1
    BY <1>1, NextRequest
  <1>3. QED
    BY <1>1, <1>2 DEF Requests

\* The table of asks: a new row, or one that is dismissed.
LEMMA AsksMove ==
    ASSUME Typed, NEW c \in Calls, AskStep(c) \/ RequestStep(c) \/ VerdictStep(c)
    PROVE  asks' = asks \/ AskInserted(c) \/ Dismissed(c)
  BY DEF AskStep, RequestStep, VerdictStep, Ask, Dismiss, RequestUpload, RequestInserted,
         DecideUpload, Decided, DecisionLogged, Fails, tables

\* The table of requests: a new row, or one that is decided.
Inserts(c) ==
    /\ RequestInserted(c) /\ NewRequest \in Requests
    /\ call[c].by \in Askers /\ PendingOf(call[c].by) = {}
    /\ request' = [request EXCEPT ![NewRequest] = Row(call[c].by, "pending", 0)]
    /\ quota' = quota

Decides(c) ==
    LET r == call[c].id
    IN  /\ Decided(c) /\ Deciding(c, r) /\ r \in Requests /\ request[r] \in Rows
        /\ call[c].grant \in Grants \cup {0}
        /\ request' = [request EXCEPT ![r] =
                          Row(request[r].by, Verdict(call[c].grant), call[c].grant)]
        /\ quota' = [quota EXCEPT ![request[r].by] = Granted(@, call[c].grant)]

LEMMA DecidedDecides ==
    ASSUME Typed, NEW c \in Calls, Decided(c)
    PROVE  Decides(c)
  <1>1. /\ call[c].op = "decide" /\ call[c].at = "update"
        /\ request' = [request EXCEPT ![call[c].id] =
              Row(request[call[c].id].by, Verdict(call[c].grant), call[c].grant)]
        /\ quota' = [quota EXCEPT ![request[call[c].id].by] = Granted(@, call[c].grant)]
    BY DEF Decided
  <1>2. QED
    BY <1>1, AtDecide DEF Decides, Deciding

LEMMA RequestsMove ==
    ASSUME Typed, NEW c \in Calls, AskStep(c) \/ RequestStep(c) \/ VerdictStep(c)
    PROVE  (request' = request /\ quota' = quota) \/ Inserts(c) \/ Decides(c)
  <1>1. CASE RequestInserted(c)
    <2>1. call[c].by \in Askers /\ NewRequest \in Requests
      BY <1>1, AtRequest DEF RequestInserted
    <2>2. quota' = quota
      BY <1>1 DEF RequestInserted
    <2>3. CASE IndexAllows(call[c].by)
      BY <1>1, <2>1, <2>2, <2>3 DEF RequestInserted, Inserts, IndexAllows
    <2>4. CASE ~IndexAllows(call[c].by)
      BY <1>1, <2>2, <2>4 DEF RequestInserted
    <2>5. QED
      BY <2>3, <2>4
  <1>2. CASE Decided(c)
    BY <1>2, DecidedDecides
  <1>3. CASE ~RequestInserted(c) /\ ~Decided(c)
    BY <1>3 DEF AskStep, RequestStep, VerdictStep, Ask, AskInserted, Dismissed, Dismiss,
         RequestUpload, DecideUpload, DecisionLogged, Fails, tables
  <1>4. QED
    BY <1>1, <1>2, <1>3

\* No row is taken away, no member of a row exchanged.
LEMMA RowsStay ==
    ASSUME Typed, RequestsNumbered, NEW c \in Calls,
           AskStep(c) \/ RequestStep(c) \/ VerdictStep(c)
    PROVE  /\ request' \in [Requests -> Rows \cup {NoRow}]
           /\ \A r \in Requests :
                 request[r] # NoRow => request'[r] # NoRow /\ request'[r].by = request[r].by
  <1>1. request \in [Requests -> Rows \cup {NoRow}]
    BY DEF Typed, Tables
  <1>2. CASE request' = request
    BY <1>1, <1>2
  <1>3. CASE Inserts(c)
    <2>1. Row(call[c].by, "pending", 0) \in Rows
      BY <1>3, PendingRow DEF Inserts
    <2>2. request[NewRequest] = NoRow
      BY <1>3, FreshRequest DEF Inserts
    <2>3. QED
      BY <1>1, <1>3, <2>1, <2>2 DEF Inserts
  <1>4. CASE Decides(c)
    <2> DEFINE r == call[c].id
               row == Row(request[r].by, Verdict(call[c].grant), call[c].grant)
    <2>1. row \in Rows /\ row.by = request[r].by
      BY <1>4, VerdictRow, RowsHave DEF Decides, Row
    <2>2. r \in Requests /\ request' = [request EXCEPT ![r] = row]
      BY <1>4 DEF Decides
    <2>3. row # NoRow
      BY <2>1, NoRowIsNone
    <2> HIDE DEF row, r
    <2>4. QED
      BY <1>1, <2>1, <2>2, <2>3
  <1>5. QED
    BY <1>2, <1>3, <1>4, RequestsMove

LEMMA AsksStay ==
    ASSUME Typed, AsksNumbered, NEW c \in Calls,
           AskStep(c) \/ RequestStep(c) \/ VerdictStep(c)
    PROVE  /\ asks' \in [Asks -> {"none", "open", "dismissed"}]
           /\ \A a \in Asks : asks[a] # "none" => asks'[a] # "none"
  <1>1. asks \in [Asks -> {"none", "open", "dismissed"}]
    BY DEF Typed, Tables
  <1>2. CASE asks' = asks
    BY <1>1, <1>2
  <1>3. CASE AskInserted(c)
    BY <1>1, <1>3 DEF AskInserted
  <1>4. CASE Dismissed(c)
    BY <1>1, <1>4 DEF Dismissed
  <1>5. QED
    BY <1>2, <1>3, <1>4, AsksMove

-----------------------------------------------------------------------------
(* Types.                                                                  *)

LEMMA TypedInit == AskInit => Typed
  <1>1. 0 \in Grants \cup {0} /\ 0 \in 0..MaxFailed
    BY RequestsAssumption
  <1>2. QED
    BY <1>1, IdleCall DEF AskInit, Typed, Tables, Stage

\* A call that does not move keeps what its place needs.
LEMMA StagesKept ==
    ASSUME Typed, AsksNumbered, RequestsNumbered, NEW c \in Calls,
           AskStep(c) \/ RequestStep(c) \/ VerdictStep(c)
    PROVE  \A d \in Calls \ {c} : Stage(d)'
  <1> SUFFICES ASSUME NEW d \in Calls \ {c} PROVE Stage(d)'
    OBVIOUS
  <1>1. Stage(d) /\ call'[d] = call[d]
    BY OneCallMoves DEF Typed
  <1>2. call[d].op = "dismiss" /\ call[d].id \in Asks /\ asks[call[d].id] # "none"
            => asks'[call[d].id] # "none"
    BY AsksStay
  <1>3. call[d].op = "decide" /\ call[d].id \in Requests /\ request[call[d].id] # NoRow
            => request'[call[d].id] # NoRow
    BY RowsStay
  <1>4. QED
    BY <1>1, <1>2, <1>3 DEF Stage

\* Where the call that moves goes.
LEMMA CallStarts ==
    ASSUME Typed, NEW c \in Calls,
           \/ Ask(c) \/ \E a \in Asks : Dismiss(c, a)
           \/ \E m \in Askers : RequestUpload(c, m)
           \/ \E r \in Requests, grant \in Grants \cup {0} : DecideUpload(c, r, grant)
    PROVE  call' \in [Calls -> CallType] /\ Stage(c)'
  <1>0. call \in [Calls -> CallType]
    BY DEF Typed
  <1>a. 0 \in Nat /\ 0 \in Grants \cup {0} /\ Asks \subseteq Nat /\ Requests \subseteq Nat
    BY DEF Asks, Requests
  <1>1. CASE Ask(c)
    <2> DEFINE k == [op |-> "ask", at |-> "insert", by |-> "nobody", id |-> 0, grant |-> 0]
    <2>1. call' = [call EXCEPT ![c] = k]
      BY <1>1 DEF Ask, Begin
    <2>2. k \in CallType
      BY <1>a DEF CallType, Ops
    <2>3. QED
      BY <1>0, <2>1, <2>2 DEF Stage
  <1>2. ASSUME NEW a \in Asks, Dismiss(c, a) PROVE call' \in [Calls -> CallType] /\ Stage(c)'
    <2> DEFINE k == [op |-> "dismiss", at |-> "update", by |-> "nobody", id |-> a, grant |-> 0]
    <2>1. call' = [call EXCEPT ![c] = k] /\ asks[a] = "open" /\ asks' = asks
      BY <1>2 DEF Dismiss, Begin, tables
    <2>2. k \in CallType
      BY <1>a DEF CallType, Ops
    <2>3. QED
      BY <1>0, <2>1, <2>2 DEF Stage
  <1>3. ASSUME NEW m \in Askers, RequestUpload(c, m)
        PROVE  call' \in [Calls -> CallType] /\ Stage(c)'
    <2> DEFINE k == [op |-> "request", at |-> "insert", by |-> m, id |-> 0, grant |-> 0]
    <2>1. call' = [call EXCEPT ![c] = k]
      BY <1>3 DEF RequestUpload, Begin
    <2>2. k \in CallType
      BY <1>a DEF CallType, Ops
    <2>3. QED
      BY <1>0, <2>1, <2>2 DEF Stage
  <1>4. ASSUME NEW r \in Requests, NEW grant \in Grants \cup {0}, DecideUpload(c, r, grant)
        PROVE  call' \in [Calls -> CallType] /\ Stage(c)'
    <2> DEFINE k == [op |-> "decide", at |-> "update", by |-> "nobody", id |-> r, grant |-> grant]
    <2>1. call' = [call EXCEPT ![c] = k] /\ request[r].status = "pending" /\ request' = request
      BY <1>4 DEF DecideUpload, Begin, tables, Decidable
    <2>2. k \in CallType
      BY <1>a DEF CallType, Ops
    <2>3. request[r] # NoRow
      BY <2>1, NoRowIsNone
    <2>4. QED
      BY <1>0, <2>1, <2>2, <2>3 DEF Stage
  <1>5. QED
    BY <1>1, <1>2, <1>3, <1>4

LEMMA CallEnds ==
    ASSUME Typed, NEW c \in Calls,
           \/ AskInserted(c) \/ Dismissed(c) \/ RequestInserted(c)
           \/ DecisionLogged(c) \/ Fails(c)
    PROVE  call' \in [Calls -> CallType] /\ call'[c] = Idle /\ Stage(c)'
  <1>1. call \in [Calls -> CallType] /\ call' = [call EXCEPT ![c] = Idle]
    BY DEF Typed, AskInserted, Dismissed, RequestInserted, DecisionLogged, Fails, Ends
  <1>2. QED
    BY <1>1, IdleCall DEF Stage

LEMMA CallGoes ==
    ASSUME Typed, RequestsNumbered, NEW c \in Calls, Decided(c)
    PROVE  /\ call' \in [Calls -> CallType] /\ Stage(c)'
           /\ call'[c].at = "audit" /\ call'[c].id = call[c].id
  <1>1. call \in [Calls -> CallType] /\ call' = [call EXCEPT ![c].at = "audit"]
    BY DEF Typed, Decided, Goes
  <1>2. /\ call[c].op = "decide" /\ call[c].id \in Requests /\ request[call[c].id] \in Rows
    BY AtDecide DEF Decided
  <1>3. request'[call[c].id] # NoRow
    BY <1>2, NoRowIsNone, RowsStay DEF VerdictStep
  <1>4. call'[c] = [call[c] EXCEPT !.at = "audit"] /\ call[c] \in CallType
    BY <1>1
  <1>5. /\ call'[c] \in CallType /\ call'[c].op = "decide" /\ call'[c].at = "audit"
        /\ call'[c].id = call[c].id
    BY <1>2, <1>4 DEF CallType
  <1>6. call' \in [Calls -> CallType]
    BY <1>1, <1>4, <1>5
  <1>7. QED
    BY <1>2, <1>3, <1>5, <1>6 DEF Stage

LEMMA TablesKept ==
    ASSUME Typed, AsksNumbered, RequestsNumbered, NEW c \in Calls,
           AskStep(c) \/ RequestStep(c) \/ VerdictStep(c)
    PROVE  Tables'
  <1>0. Tables
    BY DEF Typed
  <1>1. asks' \in [Asks -> {"none", "open", "dismissed"}]
    BY AsksStay
  <1>2. request' \in [Requests -> Rows \cup {NoRow}]
    BY RowsStay
  <1>3. quota' \in [Askers -> Grants \cup {0}]
    <2>1. CASE Decides(c)
      <3>1. request[call[c].id].by \in Askers /\ call[c].grant \in Grants \cup {0}
        BY <2>1, RowsHave DEF Decides
      <3>2. quota' = [quota EXCEPT ![request[call[c].id].by] = Granted(@, call[c].grant)]
        BY <2>1 DEF Decides
      <3>3. QED
        BY <1>0, <3>1, <3>2 DEF Tables, Granted
    <2>2. QED
      BY <1>0, <2>1, RequestsMove DEF Tables, Inserts
  <1>4. audit' \subseteq Requests
    <2>1. CASE DecisionLogged(c)
      BY <1>0, <2>1, AtDecide DEF DecisionLogged, Entry, Tables
    <2>2. CASE ~DecisionLogged(c)
      BY <1>0, <2>2 DEF Tables, AskStep, RequestStep, VerdictStep, Ask, AskInserted, Dismissed,
         Dismiss, RequestUpload, RequestInserted, DecideUpload, Decided, Fails, tables
    <2>3. QED
      BY <2>1, <2>2
  <1>5. contested' \subseteq Requests
    BY <1>0 DEF Tables, AskStep, RequestStep, VerdictStep, Ask, AskInserted, Dismissed, Dismiss,
         RequestUpload, RequestInserted, DecideUpload, Decided, DecisionLogged, Fails, history
  <1>6. unlogged' \subseteq Requests
    <2>1. CASE Fails(c)
      BY <1>0, <2>1, AtDecide DEF Fails, Tables
    <2>2. CASE ~Fails(c)
      BY <1>0, <2>2 DEF Tables, AskStep, RequestStep, VerdictStep, Ask, AskInserted, Dismissed,
         Dismiss, RequestUpload, RequestInserted, DecideUpload, Decided, DecisionLogged, history
    <2>3. QED
      BY <2>1, <2>2
  <1>7. failed' \in 0..MaxFailed
    <2>1. CASE Fails(c)
      BY <1>0, <2>1, RequestsAssumption DEF Fails, Fault, Tables
    <2>2. CASE ~Fails(c)
      BY <1>0, <2>2 DEF Tables, AskStep, RequestStep, VerdictStep, Ask, AskInserted, Dismissed,
         Dismiss, RequestUpload, RequestInserted, DecideUpload, Decided, DecisionLogged
    <2>3. QED
      BY <2>1, <2>2
  <1>8. QED
    BY <1>1, <1>2, <1>3, <1>4, <1>5, <1>6, <1>7 DEF Tables

LEMMA TypedKept ==
    ASSUME Typed, AsksNumbered, RequestsNumbered, NEW c \in Calls,
           AskStep(c) \/ RequestStep(c) \/ VerdictStep(c)
    PROVE  Typed'
  <1>1. call' \in [Calls -> CallType] /\ Stage(c)'
    BY CallStarts, CallEnds, CallGoes DEF AskStep, RequestStep, VerdictStep
  <1>2. QED
    BY <1>1, TablesKept, StagesKept DEF Typed

-----------------------------------------------------------------------------
(* Numbers.                                                                *)

LEMMA NumberedInit == AskInit => AsksNumbered /\ RequestsNumbered
  BY RequestsAssumption DEF AskInit, AsksNumbered, RequestsNumbered, Asks, Requests

LEMMA AsksNumberedKept ==
    ASSUME Typed, AsksNumbered, NEW c \in Calls,
           AskStep(c) \/ RequestStep(c) \/ VerdictStep(c)
    PROVE  AsksNumbered'
  <1>1. PICK k \in 0..MaxAsks : \A a \in Asks : asks[a] # "none" <=> a <= k
    BY DEF AsksNumbered
  <1>0. asks \in [Asks -> {"none", "open", "dismissed"}]
    BY DEF Typed, Tables
  <1>2. CASE asks' = asks
    BY <1>1, <1>2 DEF AsksNumbered
  <1>3. CASE AskInserted(c)
    <2>1. NewAsk = k + 1
      BY <1>1, NextAsk
    <2>2. NewAsk \in Asks /\ asks' = [asks EXCEPT ![NewAsk] = "open"]
      BY <1>3 DEF AskInserted
    <2>3. k + 1 \in 0..MaxAsks
      BY <2>1, <2>2, RequestsAssumption DEF Asks
    <2>4. \A a \in Asks : asks'[a] # "none" <=> a <= k + 1
      BY <1>0, <1>1, <2>1, <2>2 DEF Asks
    <2>5. QED
      BY <2>3, <2>4 DEF AsksNumbered
  <1>4. CASE Dismissed(c)
    <2>1. /\ call[c].id \in Asks /\ asks[call[c].id] # "none"
          /\ asks' = [asks EXCEPT ![call[c].id] = "dismissed"]
      BY <1>4, AtDismiss DEF Dismissed
    <2>2. \A a \in Asks : asks'[a] # "none" <=> asks[a] # "none"
      BY <1>0, <2>1
    <2>3. QED
      BY <1>1, <2>2 DEF AsksNumbered
  <1>5. QED
    BY <1>2, <1>3, <1>4, AsksMove

LEMMA RequestsNumberedKept ==
    ASSUME Typed, RequestsNumbered, NEW c \in Calls,
           AskStep(c) \/ RequestStep(c) \/ VerdictStep(c)
    PROVE  RequestsNumbered'
  <1>1. PICK k \in 0..MaxRequests : \A r \in Requests : request[r] # NoRow <=> r <= k
    BY DEF RequestsNumbered
  <1>0. request \in [Requests -> Rows \cup {NoRow}]
    BY DEF Typed, Tables
  <1>2. CASE request' = request
    BY <1>1, <1>2 DEF RequestsNumbered
  <1>3. CASE Inserts(c)
    <2>1. NewRequest = k + 1
      BY <1>1, NextRequest
    <2>2. /\ NewRequest \in Requests /\ Row(call[c].by, "pending", 0) \in Rows
          /\ request' = [request EXCEPT ![NewRequest] = Row(call[c].by, "pending", 0)]
      BY <1>3, PendingRow DEF Inserts
    <2>3. k + 1 \in 0..MaxRequests
      BY <2>1, <2>2, RequestsAssumption DEF Requests
    <2>4. \A r \in Requests : request'[r] # NoRow <=> r = k + 1 \/ request[r] # NoRow
      BY <1>0, <2>1, <2>2, NoRowIsNone
    <2>5. \A r \in Requests : request'[r] # NoRow <=> r <= k + 1
      BY <1>1, <2>4 DEF Requests
    <2>6. QED
      BY <2>3, <2>5 DEF RequestsNumbered
  <1>4. CASE Decides(c)
    <2>1. \A r \in Requests : r # call[c].id => request'[r] = request[r]
      BY <1>0, <1>4 DEF Decides
    <2>2. \A r \in Requests : request[r] # NoRow => request'[r] # NoRow
      BY RowsStay
    <2>3. request[call[c].id] # NoRow
      BY <1>4, NoRowIsNone DEF Decides
    <2>4. \A r \in Requests : request'[r] # NoRow <=> request[r] # NoRow
      BY <2>1, <2>2, <2>3
    <2>5. QED
      BY <1>1, <2>4 DEF RequestsNumbered
  <1>5. QED
    BY <1>2, <1>3, <1>4, RequestsMove

-----------------------------------------------------------------------------
(* The cap on open asks.                                                   *)

LEMMA Counted ==
    /\ IsFiniteSet(OpenAsks) /\ Cardinality(OpenAsks) \in Nat
    /\ IsFiniteSet(Asking) /\ Cardinality(Asking) \in Nat
    /\ Cardinality(Asking) <= Cardinality(Calls)
    /\ Cardinality(Calls) \in Nat /\ AskOpenMax \in Nat
  <1>1. MaxAsks \in Int /\ 1 \in Int /\ IsFiniteSet(Calls) /\ AskOpenMax \in Nat
    BY RequestsAssumption
  <1>2. IsFiniteSet(Asks)
    BY <1>1, FS_Interval DEF Asks
  <1>3. OpenAsks \in SUBSET Asks /\ Asking \in SUBSET Calls
    BY DEF OpenAsks, Asking
  <1>4. IsFiniteSet(OpenAsks) /\ IsFiniteSet(Asking) /\ Cardinality(Asking) <= Cardinality(Calls)
    BY <1>1, <1>2, <1>3, FS_Subset
  <1>5. QED
    BY <1>1, <1>4, FS_CardinalityType

LEMMA NearCapInit == AskInit => AsksNearCap
  <1> SUFFICES ASSUME AskInit PROVE AsksNearCap
    OBVIOUS
  <1>1. OpenAsks = {} /\ Asking = {}
    BY IdleCall DEF AskInit, OpenAsks, Asking
  <1>2. AskOpenMax \in Nat \ {0} /\ Cardinality(Calls) \in Nat
    BY RequestsAssumption, FS_CardinalityType
  <1>3. Cardinality(OpenAsks) = 0 /\ Cardinality(Asking) = 0
    BY <1>1, FS_EmptySet
  <1>4. QED
    BY <1>2, <1>3 DEF AsksNearCap

LEMMA NearCapKept ==
    ASSUME Typed, AsksNumbered, AsksNearCap, NEW c \in Calls,
           AskStep(c) \/ RequestStep(c) \/ VerdictStep(c)
    PROVE  AsksNearCap'
  <1>0. /\ Cardinality(OpenAsks) \in Nat /\ Cardinality(Asking) \in Nat
        /\ IsFiniteSet(OpenAsks) /\ IsFiniteSet(Asking)
        /\ Cardinality(Asking)' \in Nat /\ Cardinality(Asking)' <= Cardinality(Calls)
        /\ Cardinality(Calls) \in Nat /\ AskOpenMax \in Nat
    <2>1. Asking' \in SUBSET Calls /\ IsFiniteSet(Calls)
      BY RequestsAssumption DEF Asking
    <2>2. IsFiniteSet(Asking') /\ Cardinality(Asking') <= Cardinality(Calls)
      BY <2>1, FS_Subset
    <2>3. Cardinality(Asking') \in Nat
      BY <2>2, FS_CardinalityType
    <2>4. QED
      BY <2>2, <2>3, Counted
  \* The cap was looked at: whoever else is past it, no call is counted twice.
  <1>1. CASE Ask(c)
    <2>1. Cardinality(OpenAsks) < AskOpenMax /\ OpenAsks' = OpenAsks
      BY <1>1 DEF Ask, UnderCap, OpenAsks, tables
    <2>2. Cardinality(OpenAsks)' < AskOpenMax
      BY <2>1
    <2>3. Cardinality(OpenAsks)' \in Nat
      BY <1>0, <2>1
    <2>4. QED
      BY <1>0, <2>2, <2>3 DEF AsksNearCap
  \* What was under way is a row now.
  <1>2. CASE AskInserted(c)
    <2>1. NewAsk \in Asks /\ asks[NewAsk] = "none"
      BY <1>2, FreshAsk DEF AskInserted
    <2>2. OpenAsks' = OpenAsks \cup {NewAsk} /\ NewAsk \notin OpenAsks
      BY <1>2, <2>1 DEF AskInserted, OpenAsks, Typed, Tables
    <2>3. Asking' = Asking \ {c} /\ c \in Asking
      BY <1>2, CallEnds, IdleCall, OneCallMoves DEF AskInserted, Asking, AskStep
    <2>4. Cardinality(OpenAsks') = Cardinality(OpenAsks) + 1
      BY <1>0, <2>2, FS_AddElement
    <2>5. Cardinality(Asking') = Cardinality(Asking) - 1
      BY <1>0, <2>3, FS_RemoveElement
    <2>6. QED
      BY <1>0, <2>4, <2>5 DEF AsksNearCap
  \* Nothing else adds to either.
  <1>3. CASE ~Ask(c) /\ ~AskInserted(c)
    <2>1. OpenAsks' \in SUBSET OpenAsks
      <3>1. asks' = asks \/ Dismissed(c)
        BY <1>3, AsksMove
      <3>2. CASE asks' = asks
        BY <3>2 DEF OpenAsks
      <3>3. CASE Dismissed(c)
        BY <3>3 DEF Dismissed, OpenAsks, Typed, Tables
      <3>4. QED
        BY <3>1, <3>2, <3>3
    <2>2. Asking' \in SUBSET Asking
      <3>1. ~(call'[c].op = "ask" /\ call'[c].at = "insert")
        <4>1. CASE \/ Dismissed(c) \/ RequestInserted(c) \/ DecisionLogged(c) \/ Fails(c)
          BY <4>1, CallEnds, IdleCall
        <4>2. CASE Decided(c)
          BY <4>2, CallGoes DEF Typed, Decided, Goes
        <4>3. ASSUME \/ \E a \in Asks : Dismiss(c, a)
                     \/ \E m \in Askers : RequestUpload(c, m)
                     \/ \E r \in Requests, grant \in Grants \cup {0} : DecideUpload(c, r, grant)
              PROVE  call'[c].op # "ask"
          BY <4>3 DEF Typed, Dismiss, RequestUpload, DecideUpload, Begin
        <4>4. QED
          BY <1>3, <4>1, <4>2, <4>3 DEF AskStep, RequestStep, VerdictStep
      <3>2. QED
        BY <3>1, OneCallMoves DEF Asking
    <2>3. /\ Cardinality(OpenAsks') <= Cardinality(OpenAsks) /\ IsFiniteSet(OpenAsks')
          /\ Cardinality(Asking') <= Cardinality(Asking) /\ IsFiniteSet(Asking')
      BY <1>0, <2>1, <2>2, FS_Subset
    <2>4. Cardinality(OpenAsks') \in Nat /\ Cardinality(Asking') \in Nat
      BY <2>3, FS_CardinalityType
    <2>5. QED
      BY <1>0, <2>3, <2>4 DEF AsksNearCap
  <1>4. QED
    BY <1>1, <1>2, <1>3

-----------------------------------------------------------------------------
(* One request is pending at a time, and decided by one call.              *)

LEMMA PendingLastInit == AskInit => PendingLast
  BY DEF AskInit, PendingLast, NoRow

LEMMA PendingLastKept ==
    ASSUME Typed, RequestsNumbered, PendingLast, NEW c \in Calls,
           AskStep(c) \/ RequestStep(c) \/ VerdictStep(c)
    PROVE  PendingLast'
  <1>0. request \in [Requests -> Rows \cup {NoRow}]
    BY DEF Typed, Tables
  <1>1. CASE request' = request
    BY <1>1 DEF PendingLast
  <1>2. CASE Inserts(c)
    <2> DEFINE m == call[c].by
               new == NewRequest
    <2>1. /\ m \in Askers /\ m # "nobody" /\ new \in Requests
          /\ request' = [request EXCEPT ![new] = Row(m, "pending", 0)]
      BY <1>2, RequestsAssumption DEF Inserts
    <2>2. \A r \in Requests : ~(request[r].by = m /\ request[r].status = "pending")
      BY <1>2 DEF Inserts, PendingOf
    <2>3. \A r \in Requests : request[r] # NoRow => r <= new
      BY <2>1, FreshRequest
    <2>4. request'[new].by = m /\ request'[new].status = "pending"
      BY <1>0, <2>1 DEF Row
    <2>5. \A r \in Requests : r # new => request'[r] = request[r]
      BY <1>0, <2>1
    <2> HIDE DEF m, new
    <2> SUFFICES ASSUME NEW r \in Requests, NEW q \in Requests,
                        request'[r].status = "pending", request'[q].by = request'[r].by
                 PROVE  q <= r
      BY DEF PendingLast
    <2>6. CASE r = new
      <3>1. request'[q].by = m
        BY <2>4, <2>6
      <3>2. q # new => request[q] # NoRow
        BY <2>1, <2>5, <3>1, NoRowIsNone
      <3>3. QED
        BY <2>1, <2>3, <2>6, <3>2 DEF Requests
    <2>7. CASE r # new
      <3>1. request[r].status = "pending" /\ request'[r].by = request[r].by
        BY <2>5, <2>7
      <3>2. q # new
        BY <2>2, <2>4, <3>1
      <3>3. QED
        BY <2>5, <3>1, <3>2 DEF PendingLast
    <2>8. QED
      BY <2>6, <2>7
  <1>3. CASE Decides(c)
    <2> DEFINE r == call[c].id
               row == Row(request[r].by, Verdict(call[c].grant), call[c].grant)
    <2>1. r \in Requests /\ request' = [request EXCEPT ![r] = row]
      BY <1>3 DEF Decides
    <2>2. row.by = request[r].by /\ row.status # "pending"
      BY DEF Row, Verdict
    <2> HIDE DEF row, r
    <2>3. \A q \in Requests : request'[q].by = request[q].by
      BY <1>0, <2>1, <2>2
    <2>4. \A q \in Requests :
             request'[q].status = "pending" => request[q].status = "pending"
      BY <1>0, <2>1, <2>2
    <2>5. QED
      BY <2>3, <2>4 DEF PendingLast
  <1>4. QED
    BY <1>1, <1>2, <1>3, RequestsMove

LEMMA AloneInit == AskInit => DecidedAlone
  BY IdleCall DEF AskInit, DecidedAlone, Deciding

LEMMA AloneKept ==
    ASSUME Typed, RequestsNumbered, DecidedAlone, NEW c \in Calls,
           AskStep(c) \/ RequestStep(c) \/ VerdictStep(c)
    PROVE  DecidedAlone'
  <1>0. request \in [Requests -> Rows \cup {NoRow}] /\ call \in [Calls -> CallType]
    BY DEF Typed, Tables
  <1>1. contested \subseteq contested'
    BY DEF AskStep, RequestStep, VerdictStep, Ask, AskInserted, Dismissed, Dismiss,
         RequestUpload, RequestInserted, DecideUpload, Decided, DecisionLogged, Fails, history
  <1>2. ASSUME NEW s \in Requests, NEW grant \in Grants \cup {0}, DecideUpload(c, s, grant)
        PROVE  DecidedAlone'
    <2>1. request' = request /\ Decidable(s) /\ \A r : Deciding(c, r)' <=> r = s
      BY <1>0, <1>2 DEF DecideUpload, Begin, Deciding, tables
    <2>2. s \notin contested' => \A d \in Calls : ~Deciding(d, s)
      BY <1>2 DEF DecideUpload, Deciding
    <2>3. \A d \in Calls \ {c} : \A r : Deciding(d, r)' <=> Deciding(d, r)
      BY <1>2, OneCallMoves DEF RequestStep, Deciding
    <2> SUFFICES ASSUME NEW d \in Calls, NEW r \in Requests, r \notin contested', Deciding(d, r)'
                 PROVE  Decidable(r)' /\ \A e \in Calls \ {d} : ~Deciding(e, r)'
      BY DEF DecidedAlone
    <2>4. CASE d = c
      BY <2>1, <2>2, <2>3, <2>4 DEF Decidable
    <2>5. CASE d # c
      <3>1. Deciding(d, r) /\ r \notin contested
        BY <1>1, <2>3, <2>5
      <3>2. r # s
        BY <2>2, <3>1
      <3>3. Decidable(r) /\ \A e \in Calls \ {d} : ~Deciding(e, r)
        BY <3>1 DEF DecidedAlone
      <3>4. QED
        BY <2>1, <2>3, <3>2, <3>3 DEF Decidable
    <2>6. QED
      BY <2>4, <2>5
  <1>3. CASE ~\E s \in Requests, grant \in Grants \cup {0} : DecideUpload(c, s, grant)
    <2>1. \A r : ~Deciding(c, r)'
      <3>1. CASE \/ AskInserted(c) \/ Dismissed(c) \/ RequestInserted(c)
                 \/ DecisionLogged(c) \/ Fails(c)
        BY <3>1, CallEnds, IdleCall DEF Deciding
      <3>2. CASE Decided(c)
        BY <3>2, CallGoes DEF Deciding
      <3>3. ASSUME \/ Ask(c) \/ \E a \in Asks : Dismiss(c, a)
                   \/ \E m \in Askers : RequestUpload(c, m)
            PROVE  call'[c].op # "decide"
        BY <1>0, <3>3 DEF Ask, Dismiss, RequestUpload, Begin
      <3>4. QED
        BY <1>3, <3>1, <3>2, <3>3 DEF AskStep, RequestStep, VerdictStep, Deciding
    <2>2. \A d \in Calls \ {c} : \A r : Deciding(d, r)' <=> Deciding(d, r)
      BY OneCallMoves DEF Deciding
    <2> SUFFICES ASSUME NEW d \in Calls, NEW r \in Requests, r \notin contested', Deciding(d, r)'
                 PROVE  Decidable(r)' /\ \A e \in Calls \ {d} : ~Deciding(e, r)'
      BY DEF DecidedAlone
    <2>3. d # c /\ Deciding(d, r) /\ r \notin contested
      BY <1>1, <2>1, <2>2
    <2>4. Decidable(r) /\ \A e \in Calls \ {d} : ~Deciding(e, r)
      BY <2>3 DEF DecidedAlone
    <2>5. request'[r] = request[r]
      <3>1. CASE request' = request
        BY <3>1
      <3>2. CASE Inserts(c)
        <4>1. request[NewRequest].status = "none"
          BY <3>2, FreshRequest, NoRowIsNone DEF Inserts
        <4>2. QED
          BY <1>0, <2>4, <3>2, <4>1 DEF Inserts, Decidable
      <3>3. CASE Decides(c)
        BY <1>0, <2>3, <2>4, <3>3 DEF Decides
      <3>4. QED
        BY <3>1, <3>2, <3>3, RequestsMove
    <2>6. QED
      BY <2>1, <2>2, <2>4, <2>5 DEF Decidable
  <1>4. QED
    BY <1>2, <1>3

-----------------------------------------------------------------------------
(* A member's space.                                                       *)

LEMMA SpaceInit == AskInit => SpaceGiven
  BY DEF AskInit, SpaceGiven, ApprovedOf, Of, NoRow

\* A request that is added or decided, and what that makes of its member's.
LEMMA OfMoves ==
    ASSUME Typed, RequestsNumbered, NEW c \in Calls,
           AskStep(c) \/ RequestStep(c) \/ VerdictStep(c), NEW m \in Askers
    PROVE  Of(m) \subseteq Of(m)'
  BY RowsStay, NoRowIsNone, RequestsAssumption DEF Of

LEMMA SpaceKept ==
    ASSUME Typed, RequestsNumbered, PendingLast, DecidedAlone, SpaceGiven, NEW c \in Calls,
           AskStep(c) \/ RequestStep(c) \/ VerdictStep(c)
    PROVE  SpaceGiven'
  <1>0. request \in [Requests -> Rows \cup {NoRow}] /\ quota \in [Askers -> Grants \cup {0}]
    BY DEF Typed, Tables
  <1>1. contested \subseteq contested'
    BY DEF AskStep, RequestStep, VerdictStep, Ask, AskInserted, Dismissed, Dismiss,
         RequestUpload, RequestInserted, DecideUpload, Decided, DecisionLogged, Fails, history
  <1> SUFFICES ASSUME NEW m \in Askers, Of(m)' \cap contested' = {}
               PROVE  \/ ApprovedOf(m)' = {} /\ quota'[m] = 0
                      \/ \E r \in ApprovedOf(m)' :
                            quota'[m] = request'[r].granted /\ \A q \in ApprovedOf(m)' : q <= r
    BY DEF SpaceGiven
  <1>2. \/ ApprovedOf(m) = {} /\ quota[m] = 0
        \/ \E r \in ApprovedOf(m) :
              quota[m] = request[r].granted /\ \A q \in ApprovedOf(m) : q <= r
    <2>1. Of(m) \cap contested = {}
      BY <1>1, OfMoves
    <2>2. QED
      BY <2>1 DEF SpaceGiven
  <1>3. CASE request' = request /\ quota' = quota
    BY <1>2, <1>3 DEF ApprovedOf, Of
  \* A new request is not approved.
  <1>4. CASE Inserts(c)
    <2>1. /\ request[NewRequest].status = "none" /\ NewRequest \in Requests
          /\ request' = [request EXCEPT ![NewRequest] = Row(call[c].by, "pending", 0)]
      BY <1>4, FreshRequest, NoRowIsNone DEF Inserts
    <2>2. \A r \in Requests : r # NewRequest => request'[r] = request[r]
      BY <1>0, <2>1
    <2>3. request'[NewRequest].status = "pending"
      BY <1>0, <2>1 DEF Row
    <2>4. ApprovedOf(m)' = ApprovedOf(m) /\ \A r \in ApprovedOf(m) : request'[r] = request[r]
      BY <2>1, <2>2, <2>3 DEF ApprovedOf, Of
    <2>5. quota' = quota
      BY <1>4 DEF Inserts
    <2>6. QED
      BY <1>2, <2>4, <2>5
  <1>5. CASE Decides(c)
    <2> DEFINE s == call[c].id
               grant == call[c].grant
    <2>1. /\ s \in Requests /\ request[s] \in Rows /\ Deciding(c, s) /\ grant \in Grants \cup {0}
          /\ request' = [request EXCEPT ![s] = Row(request[s].by, Verdict(grant), grant)]
          /\ quota' = [quota EXCEPT ![request[s].by] = Granted(@, grant)]
      BY <1>5 DEF Decides
    <2> HIDE DEF s, grant
    <2>2. \A r \in Requests : r # s => request'[r] = request[r]
      BY <1>0, <2>1
    <2>3. /\ request'[s].by = request[s].by /\ request'[s].status = Verdict(grant)
          /\ request'[s].granted = grant
      BY <1>0, <2>1 DEF Row
    <2>4. CASE request[s].by # m
      <3>1. ApprovedOf(m)' = ApprovedOf(m) /\ \A r \in ApprovedOf(m) : request'[r] = request[r]
        BY <2>2, <2>3, <2>4 DEF ApprovedOf, Of
      <3>2. quota'[m] = quota[m]
        BY <1>0, <2>1, <2>4
      <3>3. QED
        BY <1>2, <3>1, <3>2
    \* It was pending, so it is the last of its member's.
    <2>5. CASE request[s].by = m
      <3>1. s \in Of(m)'
        BY <2>1, <2>3, <2>5 DEF Of
      <3>2. Decidable(s)
        BY <1>1, <2>1, <3>1 DEF DecidedAlone
      <3>3. \A q \in ApprovedOf(m) : q <= s /\ q # s
        BY <2>1, <2>5, <3>2 DEF PendingLast, ApprovedOf, Of, Decidable
      <3>4. CASE grant = 0
        <4>1. request'[s].status = "denied" /\ quota'[m] = quota[m]
          BY <1>0, <2>1, <2>3, <2>5, <3>4 DEF Verdict, Granted
        <4>2. /\ ApprovedOf(m)' = ApprovedOf(m)
              /\ \A r \in ApprovedOf(m) : request'[r] = request[r]
          BY <2>2, <3>2, <4>1 DEF ApprovedOf, Of, Decidable
        <4>3. QED
          BY <1>2, <4>1, <4>2
      <3>5. CASE grant # 0
        <4>1. request'[s].status = "approved" /\ quota'[m] = grant
          BY <1>0, <2>1, <2>3, <2>5, <3>5 DEF Verdict, Granted
        <4>2. ApprovedOf(m)' = ApprovedOf(m) \cup {s}
          BY <2>1, <2>2, <2>3, <2>5, <4>1 DEF ApprovedOf, Of
        <4>3. s <= s
          BY <2>1 DEF Requests
        <4>4. QED
          BY <2>3, <3>3, <4>1, <4>2, <4>3
      <3>6. QED
        BY <3>4, <3>5
    <2>6. QED
      BY <2>4, <2>5
  <1>6. QED
    BY <1>3, <1>4, <1>5, RequestsMove

\* The newest approved request is the one that SpaceGiven speaks of.
LEMMA SpaceIsApproved ==
    ASSUME SpaceGiven
    PROVE  SpaceAsApproved
  <1> SUFFICES ASSUME NEW m \in Askers, Of(m) \cap contested = {}
               PROVE  quota[m] = IF ApprovedOf(m) = {} THEN 0
                                 ELSE request[CHOOSE r \in ApprovedOf(m) :
                                                \A q \in ApprovedOf(m) : q <= r].granted
    BY DEF SpaceAsApproved, Of, ApprovedOf
  <1>1. CASE ApprovedOf(m) = {} /\ quota[m] = 0
    BY <1>1
  <1>2. ASSUME NEW r \in ApprovedOf(m), quota[m] = request[r].granted,
               \A q \in ApprovedOf(m) : q <= r
        PROVE  /\ ApprovedOf(m) # {}
               /\ quota[m] = request[CHOOSE s \in ApprovedOf(m) :
                                        \A q \in ApprovedOf(m) : q <= s].granted
    <2> DEFINE newest == CHOOSE s \in ApprovedOf(m) : \A q \in ApprovedOf(m) : q <= s
    <2>1. newest \in ApprovedOf(m) /\ \A q \in ApprovedOf(m) : q <= newest
      BY <1>2
    <2>2. newest \in Nat /\ r \in Nat
      BY <1>2, <2>1 DEF ApprovedOf, Of, Requests
    <2>3. newest = r
      BY <1>2, <2>1, <2>2
    <2>4. QED
      BY <1>2, <2>3
  <1>3. QED
    BY <1>1, <1>2 DEF SpaceGiven

-----------------------------------------------------------------------------
(* Decisions.                                                              *)

\* Only the call that decides a request changes a row that is there.
LEMMA DecidedStays ==
    ASSUME Typed, RequestsNumbered, DecidedAlone, NEW c \in Calls,
           AskStep(c) \/ RequestStep(c) \/ VerdictStep(c),
           NEW r \in Requests \ contested, request[r].status \in {"approved", "denied"}
    PROVE  request'[r] = request[r]
  <1>0. request \in [Requests -> Rows \cup {NoRow}]
    BY DEF Typed, Tables
  <1>1. CASE request' = request
    BY <1>1
  <1>2. CASE Inserts(c)
    BY <1>0, <1>2, FreshRequest, NoRowIsNone DEF Inserts
  <1>3. CASE Decides(c)
    BY <1>0, <1>3 DEF Decides, DecidedAlone, Decidable
  <1>4. QED
    BY <1>1, <1>2, <1>3, RequestsMove

LEMMA LoggedInit == AskInit => DecisionsLogged
  BY DEF AskInit, DecisionsLogged, NoRow

LEMMA LoggedKept ==
    ASSUME Typed, RequestsNumbered, DecisionsLogged, NEW c \in Calls,
           AskStep(c) \/ RequestStep(c) \/ VerdictStep(c)
    PROVE  DecisionsLogged'
  <1>0. request \in [Requests -> Rows \cup {NoRow}]
    BY DEF Typed, Tables
  <1>1. unlogged \subseteq unlogged' /\ audit \subseteq audit'
    BY DEF AskStep, RequestStep, VerdictStep, Ask, AskInserted, Dismissed, Dismiss,
         RequestUpload, RequestInserted, DecideUpload, Decided, DecisionLogged, Fails, history,
         tables
  <1> SUFFICES ASSUME NEW r \in Requests, r \notin unlogged',
                      request'[r].status \in {"approved", "denied"}
               PROVE  r \in audit' \/ \E d \in Calls : call'[d].at = "audit" /\ call'[d].id = r
    BY DEF DecisionsLogged
  \* Either the step decides it, and its audit entry is what the call goes on to ...
  <1>2. CASE Decides(c) /\ call[c].id = r
    BY <1>2, CallGoes DEF Decides
  \* ... or it was decided before, and the entry is there or to come.
  <1>3. CASE ~(Decides(c) /\ call[c].id = r)
    <2>1. request[r].status \in {"approved", "denied"}
      <3>1. CASE request' = request
        BY <3>1
      <3>2. CASE Inserts(c)
        <4>1. NewRequest \in Requests => request'[NewRequest].status = "pending"
          BY <1>0, <3>2 DEF Inserts, Row
        <4>2. QED
          BY <1>0, <3>2, <4>1 DEF Inserts
      <3>3. CASE Decides(c)
        BY <1>0, <1>3, <3>3 DEF Decides
      <3>4. QED
        BY <3>1, <3>2, <3>3, RequestsMove
    <2>2. r \in audit \/ \E d \in Calls : call[d].at = "audit" /\ call[d].id = r
      BY <1>1, <2>1 DEF DecisionsLogged
    <2>3. ASSUME NEW d \in Calls, call[d].at = "audit", call[d].id = r
          PROVE  r \in audit' \/ \E e \in Calls : call'[e].at = "audit" /\ call'[e].id = r
      <3>1. CASE d # c
        BY <2>3, <3>1, OneCallMoves
      <3>2. CASE d = c
        <4>1. call[c].op = "decide"
          BY <2>3, <3>2, AtDecide
        <4>2. call[c] # Idle
          BY <4>1, IdleCall
        <4>3. DecisionLogged(c) \/ Fails(c)
          BY <2>3, <3>2, <4>1, <4>2 DEF AskStep, RequestStep, VerdictStep, Ask, AskInserted,
             Dismissed, Dismiss, RequestUpload, RequestInserted, DecideUpload, Decided, Begin
        <4>4. CASE DecisionLogged(c)
          BY <2>3, <3>2, <4>4 DEF DecisionLogged, Entry
        <4>5. CASE Fails(c)
          BY <2>3, <3>2, <4>5 DEF Fails
        <4>6. QED
          BY <4>3, <4>4, <4>5
      <3>3. QED
        BY <3>1, <3>2
    <2>4. QED
      BY <1>1, <2>2, <2>3
  <1>4. QED
    BY <1>2, <1>3

-----------------------------------------------------------------------------
(* The theorems.                                                           *)

LEMMA SoundInit == AskInit => Sound
  BY TypedInit, NumberedInit, NearCapInit, PendingLastInit, AloneInit, SpaceInit, LoggedInit
     DEF Sound

LEMMA SoundKept == Sound /\ [AskNext]_askVars => Sound'
  <1> SUFFICES ASSUME Sound, [AskNext]_askVars PROVE Sound'
    OBVIOUS
  <1>1. ASSUME NEW c \in Calls, AskStep(c) \/ RequestStep(c) \/ VerdictStep(c)
        PROVE  Sound'
    BY <1>1, TypedKept, AsksNumberedKept, RequestsNumberedKept, NearCapKept, PendingLastKept,
       AloneKept, SpaceKept, LoggedKept DEF Sound
  <1>2. CASE UNCHANGED askVars
    <2>1. /\ call' = call /\ asks' = asks /\ request' = request /\ quota' = quota
          /\ audit' = audit /\ contested' = contested /\ unlogged' = unlogged
          /\ failed' = failed
      BY <1>2 DEF askVars, tables, history
    <2>2. Typed' /\ AsksNumbered' /\ RequestsNumbered'
      BY <2>1 DEF Sound, Typed, Tables, Stage, AsksNumbered, RequestsNumbered
    <2>3. OpenAsks' = OpenAsks /\ Asking' = Asking
      BY <2>1 DEF OpenAsks, Asking
    <2>4. AsksNearCap' /\ PendingLast'
      BY <2>1, <2>3 DEF Sound, AsksNearCap, PendingLast
    <2>5. DecidedAlone' /\ SpaceGiven' /\ DecisionsLogged'
      BY <2>1 DEF Sound, DecidedAlone, Deciding, Decidable, SpaceGiven, ApprovedOf, Of,
                  DecisionsLogged
    <2>6. QED
      BY <2>2, <2>4, <2>5 DEF Sound
  <1>3. QED
    BY <1>1, <1>2, Steps

LEMMA Soundness == AskSpec => []Sound
  BY SoundInit, SoundKept, PTL DEF AskSpec

LEMMA SoundIsOK == Sound => AsksOK
  <1> SUFFICES ASSUME Sound PROVE AsksOK
    OBVIOUS
  <1>1. Typed /\ AsksNearCap /\ Tables
    BY DEF Sound, Typed
  <1>2. ASSUME NEW c \in Calls
        PROVE  call[c].op \in Ops /\ (call[c].op = "none" <=> call[c] = Idle)
    <2>1. Stage(c) /\ call[c] \in CallType
      BY <1>1 DEF Typed
    <2>2. QED
      BY <2>1, IdleCall DEF Stage, CallType
  <1>3. \A r \in Requests :
           /\ request[r].status \in {"none", "pending", "approved", "denied"}
           /\ (request[r].granted # 0) = (request[r].status = "approved")
    <2> SUFFICES ASSUME NEW r \in Requests
                 PROVE  /\ request[r].status \in {"none", "pending", "approved", "denied"}
                        /\ (request[r].granted # 0) = (request[r].status = "approved")
      OBVIOUS
    <2>1. CASE request[r] = NoRow
      BY <2>1, NoRowIsNone
    <2>2. CASE request[r] \in Rows
      BY <2>2 DEF Rows
    <2>3. QED
      BY <1>1, <2>1, <2>2 DEF Tables
  <1>4. \A i \in 1..(MaxAsks - 1) : asks[i] = "none" => asks[i + 1] = "none"
    <2>1. PICK k \in 0..MaxAsks : \A a \in Asks : asks[a] # "none" <=> a <= k
      BY DEF Sound, AsksNumbered
    <2>2. QED
      BY <2>1, RequestsAssumption DEF Asks
  <1>5. \A r \in Requests : r > 1 /\ request[r] # NoRow => request[r - 1] # NoRow
    <2>1. PICK k \in 0..MaxRequests : \A r \in Requests : request[r] # NoRow <=> r <= k
      BY DEF Sound, RequestsNumbered
    <2>2. QED
      BY <2>1, RequestsAssumption DEF Requests
  <1>6. QED
    BY <1>1, <1>2, <1>3, <1>4, <1>5 DEF Tables, AsksOK

\* Rows and calls are typed and numbered without a gap, and the open asks pass
\* ASK_OPEN_MAX by the calls that overlap at most (createAsk of the service counts
\* and then inserts), however many call at once.
THEOREM TypeCorrect == AskSpec => []AsksOK
  BY Soundness, SoundIsOK, PTL

\* A member has the space of the newest request an admin approved, for any
\* grants, unless two calls decided one of its requests at once.
THEOREM SpaceIsGranted == AskSpec => []SpaceAsApproved
  <1>1. Sound => SpaceAsApproved
    BY SpaceIsApproved DEF Sound
  <1>2. QED
    BY Soundness, <1>1, PTL

\* decideUploadRequest updates a row whatever it is by then; a decision is taken
\* back only where two calls decided the request at once.
THEOREM DecisionsStay == AskSpec => DecidedForGood
  <1>1. Sound /\ [AskNext]_askVars
          => [\A r \in Requests \ contested :
                request[r].status \in {"approved", "denied"} => request'[r] = request[r]]_askVars
    BY Steps, DecidedStays DEF Sound
  <1>2. QED
    BY Soundness, <1>1, PTL DEF AskSpec, DecidedForGood

\* Every decision is in audit_log, or its call is about to write the entry, or
\* failed before it.
THEOREM DecisionsAreLogged == AskSpec => []DecisionsLogged
  <1>1. Sound => DecisionsLogged
    BY DEF Sound
  <1>2. QED
    BY Soundness, <1>1, PTL

-----------------------------------------------------------------------------
(* RateLimit.  Neither of its properties is inductive: both speak of the   *)
(* key's spending, and the next step is decided by what is stored.  The    *)
(* invariant Balance relates the two, from above and from below, at the    *)
(* moment of the last call.                                                *)

\* Whatever is multiplied keeps its order ...
LEMMA MoreTimes ==
    ASSUME NEW a \in Int, NEW b \in Int, NEW c \in Nat, a <= b
    PROVE  a * c <= b * c
  <1>1. (b - a) * c >= 0  BY SMT
  <1>2. (b - a) * c = b * c - a * c  BY SMT
  <1>3. a * c \in Int /\ b * c \in Int  BY SMT
  <1> QED  BY <1>1, <1>2, <1>3

\* ... and a product that is larger by more than a factor less one has a
\* larger other factor.
LEMMA FewerTimes ==
    ASSUME NEW n \in Nat, NEW c \in Nat, NEW w \in Nat \ {0}, n * w > c * w - w
    PROVE  n >= c
  <1>1. SUFFICES ASSUME n + 1 <= c PROVE FALSE  BY SMT
  <1>2. (n + 1) * w <= c * w  BY <1>1, MoreTimes
  <1>3. (n + 1) * w = n * w + w  BY SMT
  <1>4. n * w \in Int /\ c * w \in Int  BY SMT
  <1> QED  BY <1>2, <1>3, <1>4

\* The storage keys of two keys are two: a member has an object of its own,
\* an address a name of its own.
LEMMA KeysApart ==
    ASSUME NEW k \in Keys, NEW l \in Keys, StorageKey(k) = StorageKey(l)
    PROVE  k = l
  BY LimitAssumption DEF StorageKey, Object, Name, Keys

LEMMA FullIsNat == Full \in Nat /\ Window <= Full
  <1>1. 1 * Window <= Capacity * Window  BY LimitAssumption, MoreTimes, 1 \in Int, 1 <= Capacity
  <1>2. Capacity * Window \in Nat  BY LimitAssumption, SMT
  <1> QED  BY <1>1, <1>2, LimitAssumption DEF Full

Bucket == [tokens : 0..Full, updatedAt : 0..MaxTime]

\* What a bucket holds is bounded on both sides by what it held and what came
\* back since.
LEMMA FilledBounds ==
    ASSUME NEW b \in Bucket, now \in 0..MaxTime, b.updatedAt <= now
    PROVE  /\ Filled(b) \in 0..Full
           /\ (now - b.updatedAt) * Capacity \in Nat
           /\ Filled(b) <= b.tokens + (now - b.updatedAt) * Capacity
           /\ Filled(b) < Full => Filled(b) = b.tokens + (now - b.updatedAt) * Capacity
  <1> DEFINE back == (now - b.updatedAt) * Capacity
  <1>1. now - b.updatedAt \in Nat /\ Capacity \in Nat  BY LimitAssumption DEF Bucket
  <1>2. back \in Nat  BY <1>1, SMT
  <1>3. b.tokens \in 0..Full /\ Full \in Nat  BY FullIsNat DEF Bucket
  <1>4. Filled(b) = IF b.tokens + back <= Full THEN b.tokens + back ELSE Full
    BY DEF Filled
  <1> HIDE DEF back
  <1>5. /\ Filled(b) \in 0..Full
        /\ Filled(b) <= b.tokens + back
        /\ Filled(b) < Full => Filled(b) = b.tokens + back
    BY <1>2, <1>3, <1>4
  <1> QED  BY <1>2, <1>5 DEF back

-----------------------------------------------------------------------------

\* Types hold initially and are kept by every step.
THEOREM LimitTypes == Spec => []TypeOK
  <1>1. Init => TypeOK
    <2> SUFFICES ASSUME Init PROVE TypeOK  OBVIOUS
    <2>1. \A s \in StorageKeys : bucket[s] = [tokens |-> Full, updatedAt |-> 0]
      BY DEF Init
    <2>2. [tokens |-> Full, updatedAt |-> 0] \in [tokens : 0..Full, updatedAt : 0..MaxTime]
      BY FullIsNat, LimitAssumption
    <2>3. bucket \in [StorageKeys -> [tokens : 0..Full, updatedAt : 0..MaxTime]]
      BY <2>2 DEF Init
    <2>4. now \in 0..MaxTime /\ watched \in [key : Keys, since : 0..MaxTime, spent : Nat]
          /\ watched.since <= now
      BY LimitAssumption DEF Init
    <2> QED  BY <2>1, <2>3, <2>4 DEF TypeOK, Init
  <1>2. TypeOK /\ [Next]_vars => TypeOK'
    <2> SUFFICES ASSUME TypeOK, [Next]_vars PROVE TypeOK'  OBVIOUS
    <2>1. ASSUME NEW k \in Keys, TakeToken(k) PROVE TypeOK'
      <3> DEFINE s == StorageKey(k)
                 new == [tokens |-> Left(bucket[s]), updatedAt |-> now]
      <3>1. s \in StorageKeys /\ bucket[s] \in Bucket /\ bucket[s].updatedAt <= now
            /\ now \in 0..MaxTime
        BY DEF TypeOK, StorageKeys, Bucket
      <3>2. Filled(bucket[s]) \in 0..Full  BY <3>1, FilledBounds
      <3>3. Left(bucket[s]) \in 0..Full
        BY <3>2, FullIsNat, LimitAssumption DEF Left, Enough
      <3>4. new \in Bucket  BY <3>1, <3>3 DEF Bucket
      <3>5. bucket' = [bucket EXCEPT ![s] = new] /\ now' = now
        BY <2>1 DEF TakeToken
      <3> HIDE DEF new
      <3>6. bucket' \in [StorageKeys -> Bucket]  BY <3>1, <3>4, <3>5 DEF TypeOK, Bucket
      <3>7. \A x \in StorageKeys : bucket'[x].updatedAt <= now
        BY <3>1, <3>5 DEF TypeOK, new
      <3>8. watched' \in [key : Keys, since : 0..MaxTime, spent : Nat] /\ watched'.since <= now
        BY <2>1 DEF TakeToken, TypeOK
      <3> QED  BY <3>1, <3>5, <3>6, <3>7, <3>8 DEF TypeOK, Bucket
    <2>2. ASSUME NEW k \in Keys, Watch(k) PROVE TypeOK'
      BY <2>2, LimitAssumption DEF Watch, TypeOK
    <2>3. CASE Tick
      BY <2>3, LimitAssumption DEF Tick, TypeOK
    <2>4. CASE UNCHANGED vars
      BY <2>4 DEF vars, TypeOK
    <2> QED  BY <2>1, <2>2, <2>3, <2>4 DEF Next
  <1> QED  BY <1>1, <1>2, PTL DEF Spec

-----------------------------------------------------------------------------

Seen  == bucket[StorageKey(watched.key)]
Since == Seen.updatedAt - watched.since

\* At the last call of the watched key: it spent no more than a full bucket
\* and what came back since, less what was left; and no less than what came
\* back since, up to a bucket, less what was left.
Balance ==
    /\ Since < 0 => watched.spent = 0
    /\ Since >= 0 =>
          /\ watched.spent * Window + Seen.tokens <= Full + Since * Capacity
          /\ watched.spent * Window + Seen.tokens >= Since * Capacity
             \/ watched.spent * Window + Seen.tokens >= Full

\* The same of any bucket and spending.
Even(b, since, n) ==
    /\ b.updatedAt - since < 0 => n = 0
    /\ b.updatedAt - since >= 0 =>
          /\ n * Window + b.tokens <= Full + (b.updatedAt - since) * Capacity
          /\ n * Window + b.tokens >= (b.updatedAt - since) * Capacity
             \/ n * Window + b.tokens >= Full

LEMMA BalanceIsEven == Balance <=> Even(Seen, watched.since, watched.spent)
  BY DEF Balance, Even, Seen, Since

\* Filling a bucket up to the present keeps the balance.
LEMMA FilledEven ==
    ASSUME NEW b \in Bucket, NEW since \in 0..MaxTime, NEW n \in Nat,
           now \in 0..MaxTime, b.updatedAt <= now, since <= now,
           Even(b, since, n)
    PROVE  /\ n * Window + Filled(b) <= Full + (now - since) * Capacity
           /\ n * Window + Filled(b) >= (now - since) * Capacity
              \/ n * Window + Filled(b) >= Full
  <1> DEFINE back == (now - b.updatedAt) * Capacity
             span == (b.updatedAt - since) * Capacity
             all  == (now - since) * Capacity
             m    == n * Window
  <1>1. /\ b.updatedAt \in Nat /\ now \in Nat /\ Capacity \in Nat /\ Window \in Nat
        /\ b.tokens \in Nat /\ Full \in Nat
    BY LimitAssumption, FullIsNat DEF Bucket
  <1>2. back \in Int /\ span \in Int /\ all \in Nat /\ m \in Nat  BY <1>1, SMT
  <1>3. all = back + span  BY <1>1, SMT
  <1>4. /\ Filled(b) \in 0..Full
        /\ Filled(b) <= b.tokens + back
        /\ Filled(b) < Full => Filled(b) = b.tokens + back
    BY FilledBounds
  <1>5. CASE b.updatedAt >= since
    <2>1. /\ m + b.tokens <= Full + span
          /\ m + b.tokens >= span \/ m + b.tokens >= Full
      BY <1>5, <1>1 DEF Even
    <2>2. back \in Nat  BY FilledBounds
    <2> HIDE DEF back, span, all, m
    <2>3. /\ m + Filled(b) <= Full + all
          /\ m + Filled(b) >= all \/ m + Filled(b) >= Full
      BY <1>1, <1>2, <1>3, <1>4, <2>1, <2>2
    <2> QED  BY <2>3 DEF all, m
  <1>6. CASE b.updatedAt < since
    <2>1. n = 0  BY <1>6, <1>1 DEF Even
    <2>2. m = 0  BY <2>1, <1>1
    <2>3. all <= back  BY <1>6, <1>1, MoreTimes
    <2> HIDE DEF back, span, all, m
    <2>4. /\ m + Filled(b) <= Full + all
          /\ m + Filled(b) >= all \/ m + Filled(b) >= Full
      BY <1>1, <1>2, <1>4, <2>2, <2>3
    <2> QED  BY <2>4 DEF all, m
  <1> QED  BY <1>1, <1>5, <1>6

\* A call of the watched key keeps it too: the token taken is spent.
LEMMA TakenEven ==
    ASSUME NEW b \in Bucket, NEW since \in 0..MaxTime, NEW n \in Nat,
           now \in 0..MaxTime, b.updatedAt <= now, since <= now,
           Even(b, since, n)
    PROVE  Even([tokens |-> Left(b), updatedAt |-> now], since, IF Enough(b) THEN n + 1 ELSE n)
  <1> DEFINE spent == IF Enough(b) THEN n + 1 ELSE n
             all   == (now - since) * Capacity
  <1>1. Filled(b) \in 0..Full /\ Full \in Nat /\ Window \in Nat /\ n * Window \in Nat
    BY FilledBounds, FullIsNat, LimitAssumption, SMT
  <1>2. (n + 1) * Window = n * Window + Window  BY LimitAssumption, SMT
  <1>3. spent * Window + Left(b) = n * Window + Filled(b)
    BY <1>1, <1>2 DEF Left
  <1>4. /\ spent * Window + Left(b) <= Full + all
        /\ spent * Window + Left(b) >= all \/ spent * Window + Left(b) >= Full
    BY <1>3, FilledEven
  <1>5. ~(now - since < 0)  OBVIOUS
  <1> HIDE DEF spent
  <1> QED  BY <1>4, <1>5 DEF Even, spent

THEOREM BalanceHolds == Spec => []Balance
  <1>1. Init => Balance
    <2> SUFFICES ASSUME Init PROVE Balance  OBVIOUS
    <2>1. StorageKey(watched.key) \in StorageKeys  BY DEF Init, StorageKeys
    <2>2. Seen.tokens = Full /\ Seen.updatedAt = 0  BY <2>1 DEF Seen, Init
    <2>3. watched.since = 0 /\ watched.spent = 0  BY DEF Init
    <2>4. Since = 0  BY <2>2, <2>3 DEF Since
    <2>5. 0 * Window = 0 /\ 0 * Capacity = 0 /\ Full \in Nat  BY LimitAssumption, FullIsNat
    <2> QED  BY <2>2, <2>3, <2>4, <2>5 DEF Balance
  <1>2. TypeOK /\ Balance /\ [Next]_vars => Balance'
    <2> SUFFICES ASSUME TypeOK, Balance, [Next]_vars PROVE Balance'  OBVIOUS
    <2>0. /\ watched.key \in Keys /\ watched.since \in 0..MaxTime /\ watched.spent \in Nat
          /\ now \in 0..MaxTime /\ watched.since <= now
          /\ StorageKey(watched.key) \in StorageKeys
          /\ Seen \in Bucket /\ Seen.updatedAt <= now
          /\ Even(Seen, watched.since, watched.spent)
      BY BalanceIsEven DEF TypeOK, StorageKeys, Seen, Bucket
    <2>1. ASSUME NEW k \in Keys, TakeToken(k) PROVE Balance'
      <3>1. CASE k = watched.key
        <4>1. Seen' = [tokens |-> Left(Seen), updatedAt |-> now]
          BY <2>0, <2>1, <3>1 DEF TakeToken, Seen, TypeOK
        <4>2. watched'.since = watched.since
              /\ watched'.spent = IF Enough(Seen) THEN watched.spent + 1 ELSE watched.spent
          BY <2>0, <2>1, <3>1 DEF TakeToken, Seen, TypeOK
        <4>3. Even(Seen', watched'.since, watched'.spent)
          BY <2>0, <4>1, <4>2, TakenEven
        <4> QED  BY <4>3 DEF Balance, Even, Seen, Since
      <3>2. CASE k # watched.key
        <4>1. StorageKey(k) # StorageKey(watched.key)  BY <2>0, <3>2, KeysApart
        <4>2. watched' = watched /\ Seen' = Seen
          BY <2>0, <2>1, <3>2, <4>1 DEF TakeToken, Seen, TypeOK
        <4> QED  BY <4>2 DEF Balance, Seen, Since
      <3> QED  BY <3>1, <3>2
    <2>2. ASSUME NEW k \in Keys, Watch(k) PROVE Balance'
      <3>1. watched' = [key |-> k, since |-> now, spent |-> 0] /\ bucket' = bucket
        BY <2>2 DEF Watch
      <3>2. Seen' = bucket[StorageKey(k)]  BY <3>1 DEF Seen
      <3>3. Seen' \in Bucket /\ Seen'.updatedAt <= now
        BY <3>2 DEF TypeOK, StorageKeys, Bucket
      <3>4. 0 * Window = 0 /\ 0 * Capacity = 0  BY LimitAssumption
      <3>5. Since' = Seen'.updatedAt - now  BY <3>1 DEF Since, Seen
      <3>6. Since' >= 0 => Since' = 0  BY <2>0, <3>3, <3>5 DEF Bucket
      <3>7. watched'.spent = 0  BY <3>1
      <3>8. Seen'.tokens \in 0..Full /\ Full \in Nat  BY <3>3, FullIsNat DEF Bucket
      <3> QED  BY <3>4, <3>6, <3>7, <3>8 DEF Balance
    <2>3. CASE Tick
      BY <2>3 DEF Tick, Balance, Seen, Since
    <2>4. CASE UNCHANGED vars
      BY <2>4 DEF vars, Balance, Seen, Since
    <2> QED  BY <2>1, <2>2, <2>3, <2>4 DEF Next
  <1> QED  BY <1>1, <1>2, LimitTypes, PTL DEF Spec

\* Between any two moments a key spends no more than a full bucket and what
\* came back in between.
THEOREM TheLimitHolds == Spec => []LimitHeld
  <1>1. TypeOK /\ Balance => LimitHeld
    <2> SUFFICES ASSUME TypeOK, Balance PROVE LimitHeld  OBVIOUS
    <2>1. /\ watched.since \in 0..MaxTime /\ watched.spent \in Nat
          /\ now \in 0..MaxTime /\ watched.since <= now
          /\ Seen \in Bucket /\ Seen.updatedAt <= now
          /\ Even(Seen, watched.since, watched.spent)
      BY BalanceIsEven DEF TypeOK, StorageKeys, Seen, Bucket
    <2>2. watched.spent * Window + Filled(Seen) <= Full + (now - watched.since) * Capacity
      BY <2>1, FilledEven
    <2>3. Filled(Seen) \in 0..Full  BY <2>1, FilledBounds
    <2>4. /\ watched.spent * Window \in Int /\ Full \in Nat
          /\ (now - watched.since) * Capacity \in Int
      BY <2>1, FullIsNat, LimitAssumption, SMT
    <2> QED  BY <2>2, <2>3, <2>4 DEF LimitHeld
  <1> QED  BY <1>1, LimitTypes, BalanceHolds, PTL

\* A key with no token left spent a whole bucket of its own within the last
\* window.
THEOREM RefusedWithCause == Spec => []RefusedForCause
  <1>1. TypeOK /\ Balance => RefusedForCause
    <2> SUFFICES ASSUME TypeOK, Balance, ~Enough(Seen), now - watched.since >= Window
                 PROVE  watched.spent >= Capacity
      BY DEF RefusedForCause, Seen
    <2> DEFINE all == (now - watched.since) * Capacity
               n   == watched.spent * Window
    <2>1. /\ watched.since \in 0..MaxTime /\ watched.spent \in Nat
          /\ now \in 0..MaxTime /\ watched.since <= now
          /\ Seen \in Bucket /\ Seen.updatedAt <= now
          /\ Even(Seen, watched.since, watched.spent)
      BY BalanceIsEven DEF TypeOK, StorageKeys, Seen, Bucket
    <2>2. n + Filled(Seen) >= all \/ n + Filled(Seen) >= Full  BY <2>1, FilledEven
    <2>3. Filled(Seen) \in 0..Full /\ Filled(Seen) < Window
      BY <2>1, FilledBounds, LimitAssumption, FullIsNat DEF Enough
    <2>4. Window * Capacity <= all  BY <2>1, LimitAssumption, MoreTimes
    <2>5. Window * Capacity = Full  BY LimitAssumption, SMT DEF Full
    <2>6. n \in Int /\ all \in Int /\ Full \in Nat /\ Window \in Nat \ {0} /\ Capacity \in Nat
      BY <2>1, FullIsNat, LimitAssumption, SMT
    <2> HIDE DEF all, n
    <2>7. n > Full - Window  BY <2>2, <2>3, <2>4, <2>5, <2>6
    <2>8. watched.spent * Window > Capacity * Window - Window  BY <2>7 DEF n, Full
    <2> QED  BY <2>1, <2>6, <2>8, FewerTimes
  <1> QED  BY <1>1, LimitTypes, BalanceHolds, PTL

-----------------------------------------------------------------------------
(* The parts side by side.                                                 *)

\* Side by side each part still does what its own specification says: what is
\* proved of a part alone holds of it there.
THEOREM PartsAreThemselves ==
    PartsSpec => /\ Spec /\ FileSpec /\ ShareSpec /\ UpdateSpec
                 /\ PlaySpec /\ CerSpec /\ AskSpec
<1>1. PartsInit => /\ Init /\ FileInit /\ ShareInit /\ UpdateInit
                   /\ PlayInit /\ CerInit /\ AskInit
  BY DEF PartsInit
<1>2. [PartsNext]_partsVars =>
          /\ [Next]_vars /\ [FileNext]_fileVars /\ [ShareNext]_shareVars
          /\ [UpdateNext]_updateVars /\ [PlayNext]_playVars /\ [CerNext]_cerVars
          /\ [AskNext]_askVars
  BY DEF PartsNext, partsVars
<1> QED
  BY <1>1, <1>2, PTL DEF PartsSpec, Spec, FileSpec, ShareSpec, UpdateSpec, PlaySpec, CerSpec, AskSpec

\* Every part stays well typed, its counts near their caps among it.
THEOREM PartsTyped == PartsSpec => []PartsOK
<1>1. /\ TypeOK /\ FilesOK /\ SharesOK /\ UpdatesOK /\ PlayOK /\ CeremoniesOK /\ AsksOK
      => PartsOK
  BY DEF PartsOK
<1> QED
  BY <1>1, PartsAreThemselves, LimitTypes, FilesTyped, SharesTypeCorrect, UpdatesTypeCorrect,
     PlayTypeCorrect, CeremoniesTypeCorrect, TypeCorrect, PTL

\* What the runs check of the parts holds of them side by side as well.
THEOREM PartsHold ==
    PartsSpec => /\ [](LimitHeld /\ RefusedForCause)
                 /\ [](FileOpensWhole /\ SharedOnce /\ OffersAreNew /\ CapNearlyHeld)
                 /\ [](EnrolledAsMeant /\ LoginUndisturbed)
                 /\ [](SpaceAsApproved /\ DecisionsLogged) /\ DecidedForGood
  BY PartsAreThemselves, TheLimitHolds, RefusedWithCause, FilesOpenWhole, SharesSentOnce,
     ChipsAreForNew, CapHolds, PasskeysAsMeant, LoginsUndisturbed, SpaceIsGranted,
     DecisionsAreLogged, DecisionsStay, PTL
=============================================================================
