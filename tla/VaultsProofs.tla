---------------------------- MODULE VaultsProofs ----------------------------
(***************************************************************************)
(* What TLAPS proves of Vaults, for any browsers, members, codes and       *)
(* bounds: the types, that the words of a vault open it, that a pairing    *)
(* enrols one device, and one more at most for every verify that slipped,  *)
(* each for the member whose digits were compared, and that a browser of   *)
(* one member holds that member's key.                                     *)
(***************************************************************************)
EXTENDS Vaults, FiniteSetTheorems, TLAPS

-----------------------------------------------------------------------------
(* The invariants.                                                         *)

Making   == {"setup", "setup.write"}
Wrapping == {"wrap", "wrap.write"}
Told     == {"numbers", "options", "prompt", "verify"}
Receiving == Told \cup {"showing"}
Recovering == {"recover.options", "recover.prompt"}

\* What the page of a stage holds in memory.
Holds(p) ==
    /\ p.at \in Making \cup Wrapping \cup Told \cup Recovering => p.wrap \in Wrap
    /\ p.at \in Making \cup Recovering => p.who \in Members
    /\ p.at \in Wrapping \cup Receiving \cup {"approved"} => p.id \in Ids

Typed == TypeOK /\ \A b \in Browsers : Holds(page[b])

\* A vault in a browser, and a wrap, is of a key that was made.
RealKeys ==
    /\ \A b \in Browsers : /\ local[b] # NoVault => local[b].key # 0
                           /\ page[b].wrap # NoWrap => page[b].wrap.key # 0
    /\ \A n \in Ids : pairing[n].wrap # NoWrap => pairing[n].wrap.key # 0

\* Words are shown with a vault only; past putVault's check there is none.
NoWordsYet == \A m \in Members : account[m].key = 0 => words[m] = {}
OneWriter ==
    \A m \in Members \ spoilt : \A b \in Browsers :
        page[b].at = "setup.write" /\ page[b].who = m => account[m].key = 0

\* A pairing is of the browser that shows its code, and what was wrapped in it
\* is of a member who uses that browser.
Rows ==
    \A n \in Ids :
        /\ pairing[n].state = "unused" => pairing[n].wrap = NoWrap
        /\ pairing[n].state # "unused" => pairing[n].by \in Browsers
        /\ pairing[n].wrap # NoWrap => /\ pairing[n].user = pairing[n].wrap.by
                                       /\ pairing[n].wrap.by \in Users[pairing[n].by]
Pairs ==
    \A b \in Browsers :
        /\ page[b].at \in Wrapping \cup Receiving => pairing[page[b].id].state # "unused"
        /\ page[b].at \in Wrapping => page[b].wrap.by \in Users[pairing[page[b].id].by]
        /\ page[b].at \in Receiving => pairing[page[b].id].by = b
        /\ page[b].at \in Told => page[b].wrap.by \in Users[b]
Verified == \A c \in Calls : call[c] # NoCall => pairing[call[c].id].state # "unused"

\* A row that is not spoilt has one wrap for good: the one the page compared
\* and the challenge was given for.
DigitsTrue ==
    \A n \in Ids \ spoilt : \A b \in Browsers :
        /\ page[b].at = "wrap.write" /\ page[b].id = n => pairing[n].wrap = NoWrap
        /\ page[b].at \in Told /\ page[b].id = n => pairing[n].wrap = page[b].wrap
        /\ cookie[b].who # Nobody /\ cookie[b].id = n =>
              pairing[n].wrap # NoWrap /\ cookie[b].who = pairing[n].wrap.by
CallsTrue ==
    \A n \in Ids \ spoilt : \A c \in Calls :
        call[c] # NoCall /\ call[c].id = n =>
            /\ pairing[n].wrap # NoWrap
            /\ call[c].who = pairing[n].wrap.by /\ call[c].saw = pairing[n].wrap.by

\* A browser is signed in, challenged and enrolled for the members who use it.
AmongUsers ==
    /\ \A b \in Browsers :
          /\ session[b] \in Users[b] \cup {Nobody}
          /\ cookie[b].who \in Users[b] \cup {Nobody}
          /\ page[b].at \in Making \cup Recovering => page[b].who \in Users[b]
    /\ \A b \in Browsers, m \in Members : <<b, m>> \in passkeys => m \in Users[b]
    /\ \A c \in Calls : call[c] # NoCall => call[c].who \in Users[call[c].by]

\* A wrap is of the key its member's account has.
TrueWrap(w) == w # NoWrap /\ w.by \notin spoilt => w.key = account[w.by].key
WrapsTrue ==
    /\ \A b \in Browsers : page[b].at \in Wrapping \cup Told => TrueWrap(page[b].wrap)
    /\ \A n \in Ids : TrueWrap(pairing[n].wrap)

OwnTrue ==
    \A b \in Browsers : \A m \in Members \ spoilt :
        Users[b] = {m} /\ local[b] # NoVault => local[b].key = account[m].key

\* What a pairing has enrolled and may still enrol: each verify that is past its
\* look adds one device; a row that no verify has in hand and that is not gone
\* has enrolled none, but for the slips.
Adding(n) == {c \in Verifying(n) : call[c].at = "add"}
Credit(n) ==
    /\ enrolled[n] + Cardinality(Adding(n)) <= 1 + slips[n]
    /\ pairing[n].state # "gone" /\ Verifying(n) = {} => enrolled[n] <= slips[n]
Credits == \A n \in Ids : Credit(n)

Opening == NoWordsYet /\ OneWriter /\ WordsOpen
Offers == Rows /\ Pairs /\ Verified
Owning  == WrapsTrue /\ OwnTrue

Sound == /\ Typed /\ RealKeys /\ Opening /\ Offers /\ AmongUsers
         /\ DigitsTrue /\ CallsTrue /\ Owning /\ Credits

-----------------------------------------------------------------------------
(* Types.                                                                  *)

\* What stays as it is in a step that leaves the pages alone.
PagesOK == page \in [Browsers -> Page] /\ \A b \in Browsers : Holds(page[b])
RowsOK == pairing \in [Ids ->
          [state : {"unused", "live", "expired", "gone"}, code : Codes,
           by : Browsers \cup {Nobody}, user : Accounts,
           wrap : Wrap \cup {NoWrap}]]
CallsOK ==
    /\ call \in [Calls -> Call \cup {NoCall}]
    /\ enrolled \in [Ids -> Nat]
    /\ slips \in [Ids -> 0..MaxSlips]
CookiesOK == cookie \in [Browsers -> [id : 0..MaxPairings, who : Accounts]]

LEMMA NoWrapIsNone == NoWrap \notin Wrap
  BY DEF NoWrap, Wrap

LEMMA NoCallIsNone == NoCall \notin Call
  BY DEF NoCall, Call

\* The call whose statement runs is one that a page has made.
LEMMA MadeCall ==
    ASSUME Typed, NEW c \in Calls, AddDevice(c) \/ SpendPairing(c) \/ FailEnrol(c)
    PROVE  call[c] \in Call /\ call[c] # NoCall
  <1>1. call[c] \in Call \cup {NoCall}
    BY DEF Typed, TypeOK
  <1>2. call[c] # NoCall
    BY DEF AddDevice, SpendPairing, FailEnrol, NoCall
  <1>3. QED
    BY <1>1, <1>2

LEMMA HomeIsAPage == Home \in Page /\ Holds(Home) /\ AnyCode \in Codes
  <1>1. AnyCode \in Codes
    BY VaultsAssumption DEF AnyCode
  <1>2. Home \in Page
    BY <1>1, VaultsAssumption DEF Home, Page, Stages, Accounts
  <1>3. QED
    BY <1>1, <1>2 DEF Holds, Home, Making, Wrapping, Told, Recovering, Receiving

\* A step of one browser that leaves the others' pages alone.
LEMMA OnePage ==
    ASSUME Typed, NEW b \in Browsers, NEW p \in Page, Holds(p),
           page' = [page EXCEPT ![b] = p]
    PROVE  PagesOK'
  BY DEF Typed, TypeOK, PagesOK

LEMMA GoesHome ==
    ASSUME Typed, NEW b \in Browsers, page' = [page EXCEPT ![b] = Home]
    PROVE  PagesOK'
  BY OnePage, HomeIsAPage

LEMMA SamePages ==
    ASSUME Typed, UNCHANGED page
    PROVE  PagesOK'
  BY DEF Typed, TypeOK, PagesOK, Holds

\* A stage that asks no more of the page than the one it was in.
LEMMA OneStage ==
    ASSUME Typed, NEW b \in Browsers, NEW s \in Stages,
           Go(b, s), Holds([page[b] EXCEPT !.at = s])
    PROVE  PagesOK'
  <1>1. page[b] \in Page
    BY DEF Typed, TypeOK
  <1>2. [page[b] EXCEPT !.at = s] \in Page
    BY <1>1 DEF Page
  <1>3. page' = [page EXCEPT ![b] = [page[b] EXCEPT !.at = s]]
    BY DEF Go
  <1>4. QED
    BY <1>2, <1>3, OnePage

LEMMA TypeInit == Init => Typed
  <1> SUFFICES ASSUME Init PROVE Typed
    OBVIOUS
  <1>2. Unused \in [state : {"unused", "live", "expired", "gone"}, code : Codes,
           by : Browsers \cup {Nobody}, user : Accounts,
           wrap : Wrap \cup {NoWrap}]
    BY HomeIsAPage DEF Unused, Accounts
  <1>3. NoVault \in Vault /\ NoChallenge \in [id : 0..MaxPairings, who : Accounts]
    BY VaultsAssumption DEF NoVault, Vault, Keys, NoChallenge, Accounts
  <1>4. passkeys \subseteq Browsers \X Members
    BY VaultsAssumption DEF Init
  <1>5. 0 \in Keys /\ session \in [Browsers -> Accounts]
    BY VaultsAssumption DEF Init, Keys, Accounts
  <1>6. /\ account \in [Members -> Vault] /\ local \in [Browsers -> Vault]
        /\ pairing = [n \in Ids |-> Unused]
    BY <1>3 DEF Init
  <1>c. /\ call \in [Calls -> Call \cup {NoCall}] /\ enrolled \in [Ids -> Nat]
        /\ slips \in [Ids -> 0..MaxSlips]
    BY VaultsAssumption DEF Init
  <1>7. TypeOK
    BY <1>2, <1>3, <1>4, <1>5, <1>6, <1>c, HomeIsAPage DEF Init, TypeOK
  <1>8. QED
    BY <1>7, HomeIsAPage DEF Typed, Init

\* The rest of the type, which no action but one or two of them touches.
RestOK ==
    /\ account \in [Members -> Vault]
    /\ local \in [Browsers -> Vault]
    /\ session \in [Browsers -> Accounts]
    /\ passkeys \subseteq Browsers \X Members
    /\ profile \in [Browsers -> {"none", "vault", "no vault"}]
    /\ words \in [Members -> SUBSET Keys]
    /\ made \in Keys
    /\ spoilt \subseteq Members \cup Ids

\* A passkey that is made for a member.
LEMMA OnePasskey ==
    ASSUME passkeys \subseteq Browsers \X Members, NEW b \in Browsers, NEW m \in Members,
           passkeys' = passkeys \cup {<<b, m>>}
    PROVE  passkeys' \subseteq Browsers \X Members
  <1>1. <<b, m>> \in Browsers \X Members
    OBVIOUS
  <1>2. QED
    BY <1>1

LEMMA TypedParts == Typed <=> RestOK /\ RowsOK /\ CookiesOK /\ CallsOK /\ PagesOK
  BY DEF Typed, TypeOK, RestOK, RowsOK, CookiesOK, CallsOK, PagesOK

\* A call that no page waits for is a call.
LEMMA UnheardCalls ==
    ASSUME call \in [Calls -> Call \cup {NoCall}], NEW b \in Browsers, Unheard(b)
    PROVE  /\ call' \in [Calls -> Call \cup {NoCall}]
           /\ \A c \in Calls : call'[c] \in {call[c], [call[c] EXCEPT !.heard = FALSE]}
           /\ \A c \in Calls : call'[c] # call[c] => call[c] \in Call
  <1>1. \A k \in Call : [k EXCEPT !.heard = FALSE] \in Call
    BY DEF Call
  <1>2. ASSUME NEW c \in Calls
        PROVE  /\ call'[c] \in {call[c], [call[c] EXCEPT !.heard = FALSE]}
               /\ call'[c] # call[c] => call[c] \in Call
    BY DEF Unheard
  <1>3. QED
    BY <1>1, <1>2 DEF Unheard

LEMMA TypeSetUp ==
    ASSUME Typed, NEW b \in Browsers,
           Create(b) \/ PutVault(b) \/ SaveVault(b) \/ GetMe(b) \/ DropStaleLocalVault(b)
    PROVE  Typed'
  <1> USE DEF server, browser, enrolment
  <1>0. RestOK /\ RowsOK /\ CookiesOK /\ CallsOK /\ PagesOK
    BY TypedParts
  <1>1. CASE Create(b)
    <2>a. made \in Keys /\ made < MaxKeys
      BY <1>0, <1>1 DEF Create, RestOK
    <2>b. session[b] \in Members
      BY <1>0, <1>1 DEF Create, RestOK, Accounts
    <2>1. made + 1 \in Keys /\ 0 \in Keys /\ session[b] \in Members
      BY <2>a, <2>b, VaultsAssumption DEF Keys
    <2>2. NewVault(made + 1, session[b], b) \in Wrap
      BY <2>1 DEF NewVault, Wrap
    <2> DEFINE p == [Home EXCEPT !.at = "setup", !.who = session[b],
                                 !.wrap = NewVault(made + 1, session[b], b)]
    <2>3. p \in Page
      BY <2>1, <2>2, HomeIsAPage DEF Page, Stages, Accounts, Home
    <2>4. Holds(p)
      BY <2>1, <2>2 DEF Holds, Home, Making, Wrapping, Told, Recovering, Receiving
    <2>5. page' = [page EXCEPT ![b] = p]
      BY <1>1 DEF Create
    <2>6. PagesOK'
      BY <2>3, <2>4, <2>5, OnePage
    <2>7. RestOK'
      BY <1>0, <1>1, <2>1 DEF Create, RestOK, WhileUnanswered, NoVault, Vault
    <2>8. RowsOK' /\ CookiesOK' /\ CallsOK'
      BY <1>0, <1>1 DEF Create, RowsOK, CookiesOK, CallsOK
    <2>9. QED
      BY <2>6, <2>7, <2>8, TypedParts DEF RestOK, RowsOK, CookiesOK, CallsOK, PagesOK, Typed, TypeOK
  <1>2. CASE PutVault(b)
    <2>1. page[b] \in Page /\ Holds(page[b])
      BY <1>0 DEF PagesOK
    <2>2. Holds([page[b] EXCEPT !.at = "setup.write"])
      BY <1>2, <2>1 DEF PutVault, Holds, Making, Wrapping, Told, Recovering, Receiving, Page
    <2>3. PagesOK'
      BY <1>2, <2>1, <2>2, OneStage, GoesHome DEF PutVault, Go, Stages
    <2>4. QED
      BY <1>0, <1>2, <2>3 DEF PutVault, RestOK, RowsOK, CookiesOK, CallsOK, PagesOK, Typed, TypeOK
  <1>3. CASE SaveVault(b)
    <2>1. page[b] \in Page /\ page[b].wrap \in Wrap /\ page[b].who \in Members
      BY <1>0, <1>3 DEF PagesOK, SaveVault, Holds, Making
    <2>2. PagesOK'
      BY <1>3, GoesHome DEF SaveVault
    <2>3. [key |-> page[b].wrap.key, identity |-> page[b].wrap.identity] \in Vault
      BY <2>1 DEF Vault, Wrap
    <2>4. account' \in [Members -> Vault] /\ local' \in [Browsers -> Vault]
      BY <1>0, <1>3, <2>1, <2>3 DEF SaveVault, RestOK
    <2>k. page[b].wrap.key \in Keys
      BY <2>1 DEF Wrap
    <2>w. \/ words' = [words EXCEPT ![page[b].who] = @ \cup {page[b].wrap.key}]
          \/ words' = words
      BY <1>3 DEF SaveVault
    <2>x. words \in [Members -> SUBSET Keys]
      BY <1>0 DEF RestOK
    <2>y. words[page[b].who] \cup {page[b].wrap.key} \in SUBSET Keys
      BY <2>1, <2>k, <2>x
    <2>5. words' \in [Members -> SUBSET Keys]
      BY <2>1, <2>x, <2>y, <2>w
    <2>6. spoilt' \subseteq Members \cup Ids
      BY <1>0, <1>3, <2>1 DEF SaveVault, RestOK
    <2>7. QED
      BY <1>0, <1>3, <2>2, <2>4, <2>5, <2>6
      DEF SaveVault, RestOK, RowsOK, CookiesOK, CallsOK, PagesOK, Typed, TypeOK
  <1>4. CASE GetMe(b)
    <2>1. PagesOK'
      BY <1>4, SamePages DEF GetMe
    <2>2. QED
      BY <1>0, <1>4, <2>1 DEF GetMe, RestOK, RowsOK, CookiesOK, CallsOK, PagesOK, Typed, TypeOK
  <1>5. CASE DropStaleLocalVault(b)
    <2>1. PagesOK'
      BY <1>5, SamePages DEF DropStaleLocalVault
    <2>2. NoVault \in Vault
      BY VaultsAssumption DEF NoVault, Vault, Keys
    <2>3. QED
      BY <1>0, <1>5, <2>1, <2>2
      DEF DropStaleLocalVault, RestOK, RowsOK, CookiesOK, CallsOK, PagesOK, Typed, TypeOK
  <1>6. QED
    BY <1>1, <1>2, <1>3, <1>4, <1>5

LEMMA TypeShow ==
    ASSUME Typed, NEW b \in Browsers,
           \/ \E c \in Codes : MintCode(b, c)
           \/ CreatePairing(b) \/ Poll(b) \/ Confirm(b) \/ PairingOptions(b) \/ GiveUp(b)
           \/ \E c \in Calls : PairingVerify(b, c)
    PROVE  Typed'
  <1> USE DEF server, browser, enrolment
  <1>0. RestOK /\ RowsOK /\ CookiesOK /\ CallsOK /\ PagesOK
    BY TypedParts
  <1>p. page[b] \in Page /\ Holds(page[b])
    BY <1>0 DEF PagesOK
  <1>1. ASSUME NEW c \in Codes, MintCode(b, c) PROVE Typed'
    <2> DEFINE p == [Home EXCEPT !.at = "mint", !.code = c]
    <2>1. p \in Page /\ Holds(p)
      BY HomeIsAPage
      DEF Home, Page, Stages, Holds, Making, Wrapping, Told, Recovering, Receiving
    <2>2. PagesOK'
      BY <1>1, <2>1, OnePage DEF MintCode
    <2>3. QED
      BY <1>0, <1>1, <2>2 DEF MintCode, RestOK, RowsOK, CookiesOK, CallsOK, PagesOK, Typed, TypeOK
  <1>2. CASE CreatePairing(b)
    <2>1. CASE page' = [page EXCEPT ![b] = Home] /\ UNCHANGED pairing
      <3>1. PagesOK'
        BY <2>1, GoesHome
      <3>2. QED
        BY <1>0, <1>2, <2>1, <3>1
        DEF CreatePairing, RestOK, RowsOK, CookiesOK, CallsOK, PagesOK, Typed, TypeOK
    <2>2. ASSUME NEW n \in Ids,
                 pairing' = [pairing EXCEPT ![n] =
                    [Unused EXCEPT !.state = "live", !.code = page[b].code, !.by = b]],
                 page' = [page EXCEPT ![b].at = "showing", ![b].id = n]
          PROVE  Typed'
      <3> DEFINE p == [page[b] EXCEPT !.at = "showing", !.id = n]
      <3>n. n \in 0..MaxPairings /\ "showing" \in Stages
        BY VaultsAssumption DEF Ids, Stages
      <3>p. p \in Page
        BY <1>p, <3>n DEF Page
      <3>h. p.at = "showing" /\ p.id = n
        BY <1>p DEF Page
      <3>1. p \in Page /\ Holds(p)
        BY <3>p, <3>h DEF Holds, Making, Wrapping, Told, Recovering, Receiving
      <3>2. PagesOK'
        BY <2>2, <3>1, OnePage
      <3>3. RowsOK'
        BY <1>0, <1>p, <2>2, HomeIsAPage DEF RowsOK, Unused, Accounts, Page
      <3>4. QED
        BY <1>0, <1>2, <3>2, <3>3
        DEF CreatePairing, RestOK, RowsOK, CookiesOK, CallsOK, PagesOK, Typed, TypeOK
    <2>3. QED
      BY <1>2, <2>1, <2>2 DEF CreatePairing
  <1>3. CASE Poll(b)
    <2> DEFINE p == [page[b] EXCEPT !.at = "numbers", !.wrap = pairing[page[b].id].wrap]
    <2>1. pairing[page[b].id].wrap \in Wrap /\ page[b].id \in Ids
      BY <1>0, <1>3, <1>p DEF Poll, Holds, Receiving, RowsOK
    <2>2. p \in Page /\ Holds(p)
      BY <1>p, <2>1 DEF Page, Stages, Holds, Making, Wrapping, Told, Recovering, Receiving
    <2>3. PagesOK'
      BY <1>3, <2>2, OnePage DEF Poll
    <2>4. QED
      BY <1>0, <1>3, <2>3 DEF Poll, RestOK, RowsOK, CookiesOK, CallsOK, PagesOK, Typed, TypeOK
  <1>s. \A s \in Told : page[b].at \in Told => Holds([page[b] EXCEPT !.at = s]) /\ s \in Stages
    BY <1>p DEF Holds, Making, Wrapping, Told, Recovering, Receiving, Page, Stages
  <1>4. CASE Confirm(b)
    <2>1. PagesOK'
      BY <1>4, <1>s, OneStage DEF Confirm, Told
    <2>2. Unwrap(page[b].wrap) \in Vault
      BY <1>4, <1>p DEF Confirm, Holds, Told, Unwrap, Vault, Wrap
    <2>3. QED
      BY <1>0, <1>4, <2>1, <2>2 DEF Confirm, RestOK, RowsOK, CookiesOK, CallsOK, PagesOK, Typed, TypeOK
  <1>5. CASE PairingOptions(b)
    <2>1. PagesOK'
      BY <1>5, <1>s, OneStage DEF PairingOptions, Told
    <2>2. page[b].id \in Ids
      BY <1>5, <1>p DEF PairingOptions, Holds, Told, Receiving
    <2>3. CookiesOK'
      BY <1>0, <1>5, <2>2 DEF PairingOptions, CookiesOK, RowsOK, Ids
    <2>4. QED
      BY <1>0, <1>5, <2>1, <2>3
      DEF PairingOptions, RestOK, RowsOK, CookiesOK, CallsOK, PagesOK, Typed, TypeOK
  <1>6. ASSUME NEW c \in Calls, PairingVerify(b, c) PROVE Typed'
    <2>1. PagesOK'
      BY <1>6, <1>s, OneStage DEF PairingVerify, Told
    <2>2. page[b].id \in Ids /\ page[b].wrap.by \in Members
      BY <1>6, <1>p DEF PairingVerify, Holds, Told, Receiving, Wrap
    <2>3. Challenged(b, page[b].id) => cookie[b].who \in Members
      BY <1>0 DEF Challenged, CookiesOK, Accounts
    <2> DEFINE k == [at |-> "add", by |-> b, id |-> page[b].id, who |-> cookie[b].who,
                     saw |-> page[b].wrap.by, heard |-> TRUE]
    <2>4. Challenged(b, page[b].id) => k \in Call
      BY <2>2, <2>3 DEF Call
    <2>5. \/ (Challenged(b, page[b].id) /\ call' = [call EXCEPT ![c] = k])
          \/ UNCHANGED call
      BY <1>6 DEF PairingVerify
    <2>6. call' \in [Calls -> Call \cup {NoCall}]
      BY <1>0, <2>4, <2>5 DEF CallsOK
    <2>7. slips' \in [Ids -> 0..MaxSlips]
      BY <1>0, <1>6, <2>2, VaultsAssumption DEF PairingVerify, CallsOK
    <2>8. CallsOK'
      BY <1>0, <1>6, <2>6, <2>7 DEF PairingVerify, CallsOK
    <2>9. QED
      BY <1>0, <1>6, <2>1, <2>8
      DEF PairingVerify, RestOK, RowsOK, CookiesOK, CallsOK, PagesOK, Typed, TypeOK
  <1>8. CASE GiveUp(b)
    <2>1. PagesOK'
      BY <1>8, <1>s, OneStage DEF GiveUp, Told
    <2>2. CallsOK'
      BY <1>0, <1>8, UnheardCalls DEF GiveUp, CallsOK
    <2>3. QED
      BY <1>0, <1>8, <2>1, <2>2
      DEF GiveUp, RestOK, RowsOK, CookiesOK, CallsOK, PagesOK, Typed, TypeOK
  <1>7. QED
    BY <1>1, <1>2, <1>3, <1>4, <1>5, <1>6, <1>8

LEMMA TypeScan ==
    ASSUME Typed, NEW b \in Browsers,
           (\E n \in Ids : Lookup(b, n)) \/ CheckWrap(b) \/ SaveWrap(b)
    PROVE  Typed'
  <1> USE DEF server, browser, enrolment
  <1>0. RestOK /\ RowsOK /\ CookiesOK /\ CallsOK /\ PagesOK
    BY TypedParts
  <1>p. page[b] \in Page /\ Holds(page[b])
    BY <1>0 DEF PagesOK
  <1>1. ASSUME NEW n \in Ids, Lookup(b, n) PROVE Typed'
    <2> DEFINE p == [Home EXCEPT !.at = "wrap", !.id = n, !.wrap = WrapOf(b)]
    <2>1. session[b] \in Members
      BY <1>0, <1>1 DEF Lookup, RestOK, Accounts
    <2>2. local[b] \in Vault
      BY <1>0 DEF RestOK
    <2>3. WrapOf(b) \in Wrap
      BY <2>1, <2>2 DEF WrapOf, Wrap, Vault
    <2>n. n \in 0..MaxPairings /\ "wrap" \in Stages
      BY VaultsAssumption DEF Ids, Stages
    <2>4. p \in Page
      BY <2>3, <2>n, HomeIsAPage DEF Page
    <2>h. p.at = "wrap" /\ p.id = n /\ p.wrap = WrapOf(b)
      BY HomeIsAPage DEF Page
    <2>5. Holds(p)
      BY <2>3, <2>h DEF Holds, Making, Wrapping, Told, Recovering, Receiving
    <2>6. PagesOK'
      BY <1>1, <2>4, <2>5, OnePage DEF Lookup
    <2>7. spoilt' \subseteq Members \cup Ids
      BY <1>0, <1>1, <2>1 DEF Lookup, RestOK
    <2>8. QED
      BY <1>0, <1>1, <2>6, <2>7 DEF Lookup, RestOK, RowsOK, CookiesOK, CallsOK, PagesOK, Typed, TypeOK
  <1>2. CASE CheckWrap(b)
    <2>1. Holds([page[b] EXCEPT !.at = "wrap.write"]) /\ "wrap.write" \in Stages
      BY <1>2, <1>p DEF CheckWrap, Holds, Making, Wrapping, Told, Recovering, Receiving,
                        Page, Stages
    <2>2. PagesOK'
      BY <1>2, <2>1, OneStage, GoesHome DEF CheckWrap
    <2>3. QED
      BY <1>0, <1>2, <2>2 DEF CheckWrap, RestOK, RowsOK, CookiesOK, CallsOK, PagesOK, Typed, TypeOK
  <1>3. CASE SaveWrap(b)
    <2>1. page[b].id \in Ids /\ page[b].wrap \in Wrap
      BY <1>3, <1>p DEF SaveWrap, Holds, Wrapping
    <2>2. Holds([page[b] EXCEPT !.at = "approved"]) /\ "approved" \in Stages
      BY <1>p, <2>1 DEF Holds, Making, Wrapping, Told, Recovering, Receiving, Page, Stages
    <2>3. PagesOK'
      BY <1>3, <2>2, OneStage DEF SaveWrap
    <2>4. page[b].wrap.by \in Accounts
      BY <2>1 DEF Wrap, Accounts
    <2>5. RowsOK'
      BY <1>0, <1>3, <2>1, <2>4 DEF SaveWrap, RowsOK
    <2>6. spoilt' \subseteq Members \cup Ids
      BY <1>0, <1>3, <2>1 DEF SaveWrap, RestOK
    <2>7. QED
      BY <1>0, <1>3, <2>3, <2>5, <2>6 DEF SaveWrap, RestOK, CookiesOK, CallsOK, PagesOK, Typed, TypeOK,
                                          RowsOK
  <1>4. QED
    BY <1>1, <1>2, <1>3

LEMMA TypeRecover ==
    ASSUME Typed, NEW b \in Browsers,
           \/ OpenRecover(b) \/ RecoveryOptions(b) \/ RecoveryVerify(b)
           \/ \E m \in Members : Recover(b, m)
    PROVE  Typed'
  <1> USE DEF server, browser, enrolment
  <1>0. RestOK /\ RowsOK /\ CookiesOK /\ CallsOK /\ PagesOK
    BY TypedParts
  <1>p. page[b] \in Page /\ Holds(page[b])
    BY <1>0 DEF PagesOK
  <1>r. Holds([page[b] EXCEPT !.at = "recover"]) /\ "recover" \in Stages
    BY <1>p DEF Holds, Making, Wrapping, Told, Recovering, Receiving, Page, Stages
  <1>c. NoChallenge \in [id : 0..MaxPairings, who : Accounts]
    BY VaultsAssumption DEF NoChallenge, Accounts
  <1>1. CASE OpenRecover(b)
    <2>1. PagesOK'
      BY <1>1, <1>r, OneStage DEF OpenRecover
    <2>2. QED
      BY <1>0, <1>1, <2>1 DEF OpenRecover, RestOK, RowsOK, CookiesOK, CallsOK, PagesOK, Typed, TypeOK
  <1>2. CASE RecoveryOptions(b)
    <2>1. page[b].who \in Members
      BY <1>2, <1>p DEF RecoveryOptions, Holds, Recovering
    <2>2. Holds([page[b] EXCEPT !.at = "recover.prompt"]) /\ "recover.prompt" \in Stages
      BY <1>2, <1>p DEF RecoveryOptions, Holds, Making, Wrapping, Told, Recovering, Receiving,
                        Page, Stages
    <2>3. PagesOK'
      BY <1>2, <1>r, <2>2, OneStage DEF RecoveryOptions
    <2>4. [id |-> 0, who |-> page[b].who] \in [id : 0..MaxPairings, who : Accounts]
      BY <2>1, VaultsAssumption DEF Accounts
    <2>5. CookiesOK'
      BY <1>0, <1>2, <2>4 DEF RecoveryOptions, CookiesOK
    <2>6. QED
      BY <1>0, <1>2, <2>3, <2>5
      DEF RecoveryOptions, RestOK, RowsOK, CookiesOK, CallsOK, PagesOK, Typed, TypeOK
  <1>3. CASE RecoveryVerify(b)
    <2>1. PagesOK'
      BY <1>3, <1>r, OneStage, GoesHome DEF RecoveryVerify, EnrolRecovered
    <2>2. CookiesOK'
      BY <1>0, <1>3, <1>c DEF RecoveryVerify, EnrolRecovered, CookiesOK
    <2>3. Challenged(b, 0) => cookie[b].who \in Members
      BY <1>0 DEF Challenged, CookiesOK, Accounts
    <2>4. session' \in [Browsers -> Accounts]
      BY <1>0, <1>3, <2>3 DEF RecoveryVerify, EnrolRecovered, RestOK, Accounts
    <2>5. \/ /\ passkeys' = passkeys \cup {<<b, cookie[b].who>>}
             /\ Challenged(b, 0)
          \/ passkeys' = passkeys
      BY <1>3 DEF RecoveryVerify, EnrolRecovered
    <2>6. passkeys' \subseteq Browsers \X Members
      BY <1>0, <2>3, <2>5, OnePasskey DEF RestOK
    <2>7. QED
      BY <1>0, <1>3, <2>1, <2>2, <2>4, <2>6
      DEF RecoveryVerify, RestOK, RowsOK, CookiesOK, CallsOK, PagesOK, Typed, TypeOK
  <1>4. ASSUME NEW m \in Members, Recover(b, m) PROVE Typed'
    <2> DEFINE w == [key |-> account[m].key, identity |-> made + 1, from |-> b, by |-> m]
               p == [Home EXCEPT !.at = "recover.options", !.who = m, !.wrap = w]
    <2>1. made \in Keys /\ made < MaxKeys
      BY <1>0, <1>4 DEF RestOK, Recover
    <2>2. made + 1 \in Keys
      BY <2>1, VaultsAssumption DEF Keys
    <2>3. account[m].key \in Keys
      BY <1>0 DEF RestOK, Vault
    <2>4. w \in Wrap /\ [key |-> account[m].key, identity |-> made + 1] \in Vault
      BY <2>2, <2>3 DEF Wrap, Vault
    <2>5. p \in Page
      BY <2>4, HomeIsAPage DEF Page, Stages, Accounts
    <2>6. p.at = "recover.options" /\ p.who = m /\ p.wrap = w
      BY HomeIsAPage DEF Page
    <2>7. Holds(p)
      BY <2>4, <2>6 DEF Holds, Making, Wrapping, Told, Recovering, Receiving
    <2>8. PagesOK'
      BY <1>4, <2>5, <2>7, OnePage DEF Recover
    <2>9. RestOK'
      BY <1>0, <1>4, <2>2, <2>4 DEF Recover, RestOK
    <2>10. QED
      BY <1>0, <1>4, <2>8, <2>9 DEF Recover, RestOK, RowsOK, CookiesOK, CallsOK, PagesOK, Typed, TypeOK
  <1>5. QED
    BY <1>1, <1>2, <1>3, <1>4

LEMMA TypeElse ==
    ASSUME Typed,
           \/ \E b \in Browsers : \/ \E m \in Members : SignIn(b, m)
                                  \/ SignOut(b) \/ Leave(b) \/ LoseChallenge(b)
           \/ \E n \in Ids : Expire(n)
           \/ PruneExpired
    PROVE  Typed'
  <1> USE DEF server, browser, enrolment
  <1>0. RestOK /\ RowsOK /\ CookiesOK /\ CallsOK /\ PagesOK
    BY TypedParts
  <1>c. NoChallenge \in [id : 0..MaxPairings, who : Accounts]
    BY VaultsAssumption DEF NoChallenge, Accounts
  <1>1. ASSUME NEW b \in Browsers, NEW m \in Members, SignIn(b, m) PROVE Typed'
    BY <1>0, <1>1, SamePages
    DEF SignIn, RestOK, RowsOK, CookiesOK, CallsOK, PagesOK, Typed, TypeOK, Accounts
  <1>2. ASSUME NEW b \in Browsers, SignOut(b) PROVE Typed'
    BY <1>0, <1>2, <1>c, SamePages
    DEF SignOut, RestOK, RowsOK, CookiesOK, CallsOK, PagesOK, Typed, TypeOK, Accounts
  <1>3. ASSUME NEW b \in Browsers, Leave(b) PROVE Typed'
    <2>1. PagesOK' /\ CallsOK'
      BY <1>0, <1>3, GoesHome, UnheardCalls DEF Leave, CallsOK
    <2>2. QED
      BY <1>0, <1>3, <2>1 DEF Leave, RestOK, RowsOK, CookiesOK, CallsOK, PagesOK, Typed, TypeOK
  <1>4. ASSUME NEW b \in Browsers, LoseChallenge(b) PROVE Typed'
    BY <1>0, <1>4, <1>c, SamePages
    DEF LoseChallenge, RestOK, RowsOK, CookiesOK, CallsOK, PagesOK, Typed, TypeOK
  <1>5. ASSUME NEW n \in Ids, Expire(n) PROVE Typed'
    <2>1. RowsOK'
      BY <1>0, <1>5 DEF Expire, RowsOK
    <2>2. QED
      BY <1>0, <1>5, <2>1, SamePages
      DEF Expire, RestOK, RowsOK, CookiesOK, CallsOK, PagesOK, Typed, TypeOK
  <1>6. CASE PruneExpired
    <2>1. RowsOK'
      BY <1>0, <1>6 DEF PruneExpired, RowsOK
    <2>2. QED
      BY <1>0, <1>6, <2>1, SamePages
      DEF PruneExpired, RestOK, RowsOK, CookiesOK, CallsOK, PagesOK, Typed, TypeOK
  <1>7. QED
    BY <1>1, <1>2, <1>3, <1>4, <1>5, <1>6

\* A page that hears that its call has failed goes back to the digits.
LEMMA UnansweredPages ==
    ASSUME Typed, NEW c \in Calls, call[c] \in Call, Unanswered(c)
    PROVE  PagesOK'
  <1>1. call[c].by \in Browsers
    BY DEF Call
  <1>2. page[call[c].by] \in Page /\ Holds(page[call[c].by])
    BY <1>1 DEF Typed, TypeOK
  <1>3. CASE Hears(c)
    <2>1. Holds([page[call[c].by] EXCEPT !.at = "numbers"]) /\ "numbers" \in Stages
      BY <1>2, <1>3 DEF Hears, Holds, Making, Wrapping, Told, Recovering, Receiving, Page, Stages
    <2>2. QED
      BY <1>1, <1>3, <2>1, OneStage DEF Unanswered, Go
  <1>4. CASE ~Hears(c)
    BY <1>4, SamePages DEF Unanswered
  <1>5. QED
    BY <1>3, <1>4

LEMMA TypeEnrol ==
    ASSUME Typed, NEW c \in Calls, AddDevice(c) \/ SpendPairing(c) \/ FailEnrol(c)
    PROVE  Typed'
  <1> USE DEF server, browser, enrolment
  <1>0. RestOK /\ RowsOK /\ CookiesOK /\ CallsOK /\ PagesOK
    BY TypedParts
  <1>c. call[c] \in Call
    BY <1>0 DEF AddDevice, SpendPairing, FailEnrol, CallsOK, NoCall
  <1>k. /\ call[c].by \in Browsers /\ call[c].id \in Ids /\ call[c].who \in Members
        /\ [call[c] EXCEPT !.at = "spend"] \in Call
    BY <1>c DEF Call
  <1>1. CASE AddDevice(c)
    <2>1. PagesOK'
      BY <1>1, SamePages DEF AddDevice
    <2>2. passkeys' \subseteq Browsers \X Members
      BY <1>0, <1>1, <1>k, OnePasskey DEF AddDevice, RestOK
    <2>3. CallsOK'
      BY <1>0, <1>1, <1>k DEF AddDevice, CallsOK
    <2>4. QED
      BY <1>0, <1>1, <2>1, <2>2, <2>3
      DEF AddDevice, RestOK, RowsOK, CookiesOK, CallsOK, PagesOK, Typed, TypeOK
  <1>2. CASE SpendPairing(c)
    <2>1. PagesOK'
      BY <1>2, <1>c, <1>k, UnansweredPages, GoesHome DEF SpendPairing
    <2>2. RowsOK'
      BY <1>0, <1>2, <1>k DEF SpendPairing, RowsOK
    <2>3. NoChallenge \in [id : 0..MaxPairings, who : Accounts]
      BY VaultsAssumption DEF NoChallenge, Accounts
    <2>4. CookiesOK' /\ session' \in [Browsers -> Accounts]
      <3>1. call[c].who \in Accounts
        BY <1>k DEF Accounts
      <3>2. cookie' \in {cookie, [cookie EXCEPT ![call[c].by] = NoChallenge]}
        BY <1>2 DEF SpendPairing
      <3>3. session' \in {session, [session EXCEPT ![call[c].by] = call[c].who]}
        BY <1>2 DEF SpendPairing
      <3>4. CookiesOK'
        BY <1>0, <1>k, <2>3, <3>2 DEF CookiesOK
      <3>5. session \in [Browsers -> Accounts] /\ call[c].by \in Browsers
        BY <1>0, <1>k DEF RestOK
      <3>6. session' \in [Browsers -> Accounts]
        BY <3>1, <3>3, <3>5
      <3>7. QED
        BY <3>4, <3>6
    <2>5. CallsOK'
      BY <1>0, <1>2 DEF SpendPairing, CallsOK
    <2>6. QED
      BY <1>0, <1>2, <2>1, <2>2, <2>4, <2>5
      DEF SpendPairing, RestOK, RowsOK, CookiesOK, CallsOK, PagesOK, Typed, TypeOK
  <1>3. CASE FailEnrol(c)
    <2>1. PagesOK'
      BY <1>3, <1>c, UnansweredPages DEF FailEnrol
    <2>2. CallsOK'
      BY <1>0, <1>3, <1>k, VaultsAssumption DEF FailEnrol, CallsOK
    <2>3. QED
      BY <1>0, <1>3, <2>1, <2>2
      DEF FailEnrol, RestOK, RowsOK, CookiesOK, CallsOK, PagesOK, Typed, TypeOK
  <1>4. QED
    BY <1>1, <1>2, <1>3

LEMMA TypeStep == Typed /\ [Next]_vars => Typed'
  <1> SUFFICES ASSUME Typed, [Next]_vars PROVE Typed'
    OBVIOUS
  <1>1. CASE UNCHANGED vars
    BY <1>1 DEF vars, Typed, TypeOK, Holds
  <1>2. CASE Next
    BY <1>2, TypeSetUp, TypeShow, TypeEnrol, TypeScan, TypeRecover, TypeElse DEF Next
  <1>3. QED
    BY <1>1, <1>2

-----------------------------------------------------------------------------
(* What a step can change: one definition for each variable.               *)

SetUpStep(b) ==
    Create(b) \/ PutVault(b) \/ SaveVault(b) \/ GetMe(b) \/ DropStaleLocalVault(b)
ShowStep(b) ==
    \/ \E c \in Codes : MintCode(b, c)
    \/ CreatePairing(b) \/ Poll(b) \/ Confirm(b) \/ PairingOptions(b) \/ GiveUp(b)
    \/ \E c \in Calls : PairingVerify(b, c)
EnrolStep(c) == AddDevice(c) \/ SpendPairing(c) \/ FailEnrol(c)
ScanStep(b) == (\E n \in Ids : Lookup(b, n)) \/ CheckWrap(b) \/ SaveWrap(b)
RecoverStep(b) ==
    \/ OpenRecover(b) \/ RecoveryOptions(b) \/ RecoveryVerify(b)
    \/ \E m \in Members : Recover(b, m)
SignStep(b) ==
    (\E m \in Members : SignIn(b, m)) \/ SignOut(b) \/ Leave(b) \/ LoseChallenge(b)
Elapses == (\E n \in Ids : Expire(n)) \/ PruneExpired

LEMMA Steps ==
    ASSUME Next
    PROVE  \/ \E b \in Browsers : SetUpStep(b)
           \/ \E b \in Browsers : ShowStep(b)
           \/ \E c \in Calls : EnrolStep(c)
           \/ \E b \in Browsers : ScanStep(b)
           \/ \E b \in Browsers : RecoverStep(b)
           \/ \E b \in Browsers : SignStep(b)
           \/ Elapses
  BY DEF Next, SetUpStep, ShowStep, EnrolStep, ScanStep, RecoverStep, SignStep, Elapses

\* The page of a browser, by the stage it comes to.
Idle == {"home", "mint", "recover", "approved"}
Moves(c) ==
    \/ page'[c] = page[c]
    \/ page'[c].at \in Idle /\ page'[c].wrap \in {NoWrap, page[c].wrap}
    \/ /\ page[c].at \in Told /\ page'[c].at \in Told
       /\ page'[c].id = page[c].id /\ page'[c].wrap = page[c].wrap
       /\ spoilt' = spoilt /\ \A n \in Ids : pairing'[n].wrap = pairing[n].wrap
    \/ /\ page'[c].at = "setup" /\ page'[c].who = session[c] /\ session[c] \in Members
       /\ page'[c].wrap.key = made + 1
    \/ /\ page[c].at = "setup" /\ page'[c].at = "setup.write"
       /\ page'[c].who = page[c].who /\ page'[c].wrap = page[c].wrap
       /\ account[page[c].who].key = 0 /\ UNCHANGED account
    \/ /\ page'[c].at = "showing" /\ page'[c].id \in Ids /\ page'[c].wrap = page[c].wrap
       /\ pairing'[page'[c].id].state = "live" /\ pairing'[page'[c].id].by = c
    \/ /\ page[c].at = "showing" /\ page'[c].at = "numbers"
       /\ page'[c].id = page[c].id /\ page'[c].wrap = pairing[page[c].id].wrap
       /\ page'[c].wrap # NoWrap /\ UNCHANGED <<account, pairing, spoilt>>
    \/ /\ page'[c].at = "wrap" /\ page'[c].wrap = WrapOf(c) /\ page'[c].id \in Ids
       /\ session[c] \in Members /\ local[c] # NoVault
       /\ pairing[page'[c].id].state = "live" /\ session[c] \in Users[pairing[page'[c].id].by]
       /\ session[c] \notin spoilt' => local[c].key = account[session[c]].key
       /\ UNCHANGED <<account, pairing>>
    \/ /\ page[c].at = "wrap" /\ page'[c].at = "wrap.write"
       /\ page'[c].id = page[c].id /\ page'[c].wrap = page[c].wrap
       /\ pairing[page[c].id].wrap = NoWrap /\ UNCHANGED <<account, pairing, spoilt>>
    \/ /\ page'[c].at = "recover.options" /\ page'[c].who \in Users[c]
       /\ page'[c].who \in Members /\ words[page'[c].who] # {}
       /\ page'[c].wrap.key = account[page'[c].who].key
    \/ /\ page[c].at = "recover.options" /\ page'[c].at = "recover.prompt"
       /\ page'[c].who = page[c].who /\ page'[c].wrap = page[c].wrap

LEMMA Turned ==
    ASSUME Typed, NEW b \in Browsers, NEW p, page' = [page EXCEPT ![b] = p], NEW c \in Browsers
    PROVE  page'[c] = IF c = b THEN p ELSE page[c]
  BY DEF Typed, TypeOK

LEMMA TurnedStage ==
    ASSUME Typed, NEW b \in Browsers, NEW s, Go(b, s), NEW c \in Browsers
    PROVE  IF c = b THEN /\ page'[c].at = s
                         /\ page'[c].id = page[c].id /\ page'[c].wrap = page[c].wrap
                         /\ page'[c].who = page[c].who
                    ELSE page'[c] = page[c]
  BY DEF Typed, TypeOK, Page, Go

LEMMA AtHome == Home.at = "home" /\ Home.wrap = NoWrap /\ Home.id = 0
  BY DEF Home

LEMMA PageMoves ==
    ASSUME Typed, Next, NEW c \in Browsers
    PROVE  Moves(c)
  <1> USE DEF server, browser, enrolment
  <1>h. ASSUME NEW b \in Browsers, page' = [page EXCEPT ![b] = Home] PROVE Moves(c)
    BY <1>h, Turned, AtHome DEF Moves, Idle
  <1>u. ASSUME UNCHANGED page PROVE Moves(c)
    BY <1>u DEF Moves
  <1>s. ASSUME NEW b \in Browsers, NEW s \in Idle, Go(b, s) PROVE Moves(c)
    BY <1>s, TurnedStage DEF Moves
  <1>t. ASSUME NEW b \in Browsers, NEW s \in Told, Go(b, s), page[b].at \in Told, spoilt' = spoilt,
               \A n \in Ids : pairing'[n].wrap = pairing[n].wrap
        PROVE Moves(c)
    BY <1>t, TurnedStage DEF Moves
  <1>p. page[c] \in Page /\ Holds(page[c]) /\ session[c] \in Accounts
    BY DEF Typed, TypeOK
  <1>1. ASSUME NEW b \in Browsers, Create(b) PROVE Moves(c)
    <2>1. CASE c = b
      <3>1. page'[c] = [Home EXCEPT !.at = "setup", !.who = session[b],
                                    !.wrap = NewVault(made + 1, session[b], b)]
        BY <1>1, <2>1 DEF Create, Typed, TypeOK
      <3>2. /\ page'[c].at = "setup" /\ page'[c].who = session[c]
            /\ page'[c].wrap = NewVault(made + 1, session[b], b)
        BY <3>1, <2>1 DEF Home
      <3>3. session[c] \in Members
        BY <1>1, <1>p, <2>1 DEF Create, Accounts
      <3>4. QED
        BY <3>2, <3>3 DEF Moves, NewVault
    <2>2. CASE c # b
      BY <1>1, <2>2, Turned DEF Create, Moves
    <2>3. QED
      BY <2>1, <2>2
  <1>2. ASSUME NEW b \in Browsers, PutVault(b) PROVE Moves(c)
    <2>1. CASE page' = [page EXCEPT ![b] = Home]
      BY <2>1, <1>h
    <2>2. CASE MayPut(page[b].who) /\ Go(b, "setup.write")
      BY <1>2, <2>2, TurnedStage DEF Moves, PutVault, MayPut
    <2>3. QED
      BY <1>2, <2>1, <2>2 DEF PutVault, Go
  <1>3. ASSUME NEW b \in Browsers, CreatePairing(b) PROVE Moves(c)
    <2>1. CASE page' = [page EXCEPT ![b] = Home]
      BY <2>1, <1>h
    <2>2. ASSUME NEW n \in Ids, page' = [page EXCEPT ![b].at = "showing", ![b].id = n],
                 pairing' = [pairing EXCEPT ![n] =
                    [Unused EXCEPT !.state = "live", !.code = page[b].code, !.by = b]]
          PROVE  Moves(c)
      <3>1. CASE c = b
        <4>1. page'[c] = [page[c] EXCEPT !.at = "showing", !.id = n]
          BY <2>2, <3>1 DEF Typed, TypeOK
        <4>2. page'[c].at = "showing" /\ page'[c].id = n /\ page'[c].wrap = page[c].wrap
          BY <1>p, <4>1 DEF Page
        <4>3. pairing'[n].state = "live" /\ pairing'[n].by = b
          BY <2>2 DEF Typed, TypeOK, Unused
        <4>4. QED
          BY <3>1, <4>2, <4>3 DEF Moves
      <3>2. CASE c # b
        BY <2>2, <3>2 DEF Moves, Typed, TypeOK
      <3>3. QED
        BY <3>1, <3>2
    <2>3. QED
      BY <1>3, <2>1, <2>2 DEF CreatePairing
  <1>4. ASSUME NEW b \in Browsers, Poll(b) PROVE Moves(c)
    <2>1. CASE c = b
      <3>1. page'[c] = [page[c] EXCEPT !.at = "numbers", !.wrap = pairing[page[c].id].wrap]
        BY <1>4, <2>1 DEF Poll, Typed, TypeOK
      <3>2. /\ page'[c].at = "numbers" /\ page'[c].id = page[c].id
            /\ page'[c].wrap = pairing[page[c].id].wrap
        BY <1>p, <3>1 DEF Page
      <3>3. QED
        BY <1>4, <2>1, <3>2 DEF Poll, Moves
    <2>2. CASE c # b
      BY <1>4, <2>2 DEF Poll, Typed, TypeOK, Moves
    <2>3. QED
      BY <2>1, <2>2
  <1>5. ASSUME NEW b \in Browsers, Confirm(b) \/ PairingOptions(b) PROVE Moves(c)
    BY <1>5, <1>t DEF Confirm, PairingOptions, Told
  <1>6. ASSUME NEW b \in Browsers, NEW k \in Calls, PairingVerify(b, k) PROVE Moves(c)
    BY <1>6, <1>t DEF PairingVerify, Told
  <1>g. ASSUME NEW b \in Browsers, GiveUp(b) PROVE Moves(c)
    BY <1>g, <1>t DEF GiveUp, Told
  <1>w. ASSUME NEW k \in Calls, call[k] \in Call, Unanswered(k), spoilt' = spoilt,
               \A n \in Ids : pairing'[n].wrap = pairing[n].wrap
        PROVE  Moves(c)
    <2>1. CASE Hears(k)
      <3>1. call[k].by \in Browsers
        BY <1>w DEF Call
      <3>2. Go(call[k].by, "numbers") /\ page[call[k].by].at \in Told
        BY <1>w, <2>1 DEF Unanswered, Hears, Go, Told
      <3>3. QED
        BY <1>w, <3>1, <3>2, <1>t DEF Told
    <2>2. CASE ~Hears(k)
      BY <1>w, <2>2, <1>u DEF Unanswered
    <2>3. QED
      BY <2>1, <2>2
  <1>16. ASSUME NEW k \in Calls, EnrolStep(k) PROVE Moves(c)
    <2>1. call[k] \in Call
      BY <1>16, MadeCall DEF EnrolStep
    <2>2. CASE AddDevice(k)
      BY <2>2, <1>u DEF AddDevice
    <2>3. CASE SpendPairing(k)
      <3>1. \A n \in Ids : pairing'[n].wrap = pairing[n].wrap
        BY <2>1, <2>3, TypedParts DEF SpendPairing, RowsOK, Call
      <3>2. call[k].by \in Browsers
        BY <2>1 DEF Call
      <3>3. QED
        BY <2>1, <2>3, <3>1, <3>2, <1>w, <1>h DEF SpendPairing
    <2>4. CASE FailEnrol(k)
      BY <2>1, <2>4, <1>w DEF FailEnrol
    <2>5. QED
      BY <1>16, <2>2, <2>3, <2>4 DEF EnrolStep
  <1>7. ASSUME NEW b \in Browsers, NEW n \in Ids, Lookup(b, n) PROVE Moves(c)
    <2>1. CASE c = b
      <3>1. page'[c] = [Home EXCEPT !.at = "wrap", !.id = n, !.wrap = WrapOf(b)]
        BY <1>7, <2>1 DEF Lookup, Typed, TypeOK
      <3>2. page'[c].at = "wrap" /\ page'[c].id = n /\ page'[c].wrap = WrapOf(c)
        BY <2>1, <3>1 DEF Home
      <3>3. session[c] \in Members
        BY <1>7, <1>p, <2>1 DEF Lookup, Accounts
      <3>4. QED
        BY <1>7, <2>1, <3>2, <3>3 DEF Moves, Lookup, Lives
    <2>2. CASE c # b
      BY <1>7, <2>2, Turned DEF Lookup, Moves
    <2>3. QED
      BY <2>1, <2>2
  <1>8. ASSUME NEW b \in Browsers, CheckWrap(b) PROVE Moves(c)
    <2>1. CASE page' = [page EXCEPT ![b] = Home]
      BY <2>1, <1>h
    <2>2. CASE Unwrapped(page[b].id) /\ Go(b, "wrap.write")
      BY <1>8, <2>2, TurnedStage DEF Moves, CheckWrap, Unwrapped
    <2>3. QED
      BY <1>8, <2>1, <2>2 DEF CheckWrap
  <1>9. ASSUME NEW b \in Browsers, RecoveryOptions(b) PROVE Moves(c)
    <2>1. CASE Go(b, "recover")
      BY <2>1, <1>s DEF Idle
    <2>2. CASE Go(b, "recover.prompt")
      BY <1>9, <2>2, TurnedStage DEF Moves, RecoveryOptions
    <2>3. QED
      BY <1>9, <2>1, <2>2 DEF RecoveryOptions
  <1>10. ASSUME NEW b \in Browsers, NEW m \in Members, Recover(b, m) PROVE Moves(c)
    <2> DEFINE w == [key |-> account[m].key, identity |-> made + 1, from |-> b, by |-> m]
    <2>1. CASE c = b
      <3>1. page'[c] = [Home EXCEPT !.at = "recover.options", !.who = m, !.wrap = w]
        BY <1>10, <2>1 DEF Recover, Typed, TypeOK
      <3>2. page'[c].at = "recover.options" /\ page'[c].who = m /\ page'[c].wrap = w
        BY <3>1 DEF Home
      <3>3. QED
        BY <1>10, <2>1, <3>2 DEF Moves, Recover
    <2>2. CASE c # b
      BY <1>10, <2>2, Turned DEF Recover, Moves
    <2>3. QED
      BY <2>1, <2>2
  <1>11. ASSUME NEW b \in Browsers, NEW d \in Codes, MintCode(b, d) PROVE Moves(c)
    <2>1. CASE c = b
      <3>1. page'[c] = [Home EXCEPT !.at = "mint", !.code = d]
        BY <1>11, <2>1 DEF MintCode, Typed, TypeOK
      <3>2. page'[c].at = "mint" /\ page'[c].wrap = NoWrap
        BY <3>1 DEF Home
      <3>3. QED
        BY <3>2 DEF Moves, Idle
    <2>2. CASE c # b
      BY <1>11, <2>2, Turned DEF MintCode, Moves
    <2>3. QED
      BY <2>1, <2>2
  <1>12. ASSUME NEW b \in Browsers, SaveVault(b) \/ Leave(b) PROVE Moves(c)
    BY <1>12, <1>h DEF SaveVault, Leave
  <1>13. ASSUME NEW b \in Browsers, SaveWrap(b) \/ OpenRecover(b) PROVE Moves(c)
    BY <1>13, <1>s DEF SaveWrap, OpenRecover, Idle
  <1>14. ASSUME NEW b \in Browsers, RecoveryVerify(b) PROVE Moves(c)
    BY <1>14, <1>s, <1>h DEF RecoveryVerify, EnrolRecovered, Idle
  <1>a. ASSUME NEW b \in Browsers, SetUpStep(b) PROVE Moves(c)
    BY <1>a, <1>1, <1>2, <1>12, <1>u DEF SetUpStep, GetMe, DropStaleLocalVault
  <1>b. ASSUME NEW b \in Browsers, ShowStep(b) PROVE Moves(c)
    BY <1>b, <1>3, <1>4, <1>5, <1>6, <1>g, <1>11 DEF ShowStep
  <1>c. ASSUME NEW b \in Browsers, ScanStep(b) PROVE Moves(c)
    BY <1>c, <1>7, <1>8, <1>13 DEF ScanStep
  <1>d. ASSUME NEW b \in Browsers, RecoverStep(b) PROVE Moves(c)
    BY <1>d, <1>9, <1>10, <1>13, <1>14 DEF RecoverStep
  <1>e. ASSUME NEW b \in Browsers, SignStep(b) PROVE Moves(c)
    BY <1>e, <1>12, <1>u DEF SignStep, SignIn, SignOut, LoseChallenge
  <1>f. ASSUME Elapses PROVE Moves(c)
    BY <1>f, <1>u DEF Elapses, Expire, PruneExpired
  <1>15. QED
    BY <1>a, <1>b, <1>c, <1>d, <1>e, <1>f, <1>16, Steps

\* A row of pairing_sessions.
Writes(a, n) ==
    /\ page[a].at = "wrap.write" /\ page[a].id = n
    /\ page'[a].at = "approved" /\ \A c \in Browsers \ {a} : page'[c] = page[c]
    /\ \/ n \in spoilt'
       \/ \A c \in Browsers \ {a} : page[c].at = "wrap.write" => page[c].id # n
    /\ UNCHANGED <<account, cookie>>
RowMoves(n) ==
    \/ pairing'[n] = pairing[n]
    \/ /\ pairing[n].state # "unused" /\ pairing'[n].state # "unused"
       /\ pairing[n].state = "gone" => pairing'[n].state = "gone"
       /\ pairing'[n].wrap = pairing[n].wrap /\ pairing'[n].by = pairing[n].by
       /\ pairing'[n].user = pairing[n].user
    \/ /\ pairing[n].state = "unused" /\ pairing'[n].state = "live"
       /\ pairing'[n].by \in Browsers /\ pairing'[n].wrap = NoWrap
    \/ /\ pairing[n].state # "unused" /\ pairing'[n].state = pairing[n].state
       /\ pairing'[n].by = pairing[n].by
       /\ \E a \in Browsers : /\ Writes(a, n)
                              /\ pairing'[n].wrap = page[a].wrap
                              /\ pairing'[n].user = page[a].wrap.by

LEMMA RowsMove ==
    ASSUME Typed, Offers, Next, NEW n \in Ids
    PROVE  RowMoves(n)
  <1> USE DEF server, browser, enrolment
  <1>0. RowsOK
    BY TypedParts
  <1>u. ASSUME UNCHANGED <<pairing, spoilt>> PROVE RowMoves(n)
    BY <1>u DEF RowMoves
  <1>1. ASSUME NEW b \in Browsers, SetUpStep(b) PROVE RowMoves(n)
    BY <1>1 DEF SetUpStep, Create, PutVault, SaveVault, GetMe, DropStaleLocalVault, RowMoves
  <1>2. ASSUME NEW b \in Browsers, CreatePairing(b)
        PROVE  RowMoves(n)
    <2>1. ASSUME NEW k \in Ids, pairing[k].state = "unused",
                 pairing' = [pairing EXCEPT ![k] =
                    [Unused EXCEPT !.state = "live", !.code = page[b].code, !.by = b]]
          PROVE  RowMoves(n)
      <3>1. CASE k = n
        <4>1. /\ pairing'[n].state = "live" /\ pairing'[n].by = b
              /\ pairing'[n].wrap = NoWrap
          BY <1>0, <2>1, <3>1 DEF RowsOK, Unused
        <4>2. QED
          BY <2>1, <3>1, <4>1 DEF RowMoves
      <3>2. CASE k # n
        BY <1>0, <2>1, <3>2 DEF RowsOK, RowMoves
      <3>3. QED
        BY <3>1, <3>2
    <2>2. QED
      BY <1>2, <1>u, <2>1 DEF CreatePairing
  <1>v. ASSUME NEW k \in Ids, pairing[k].state # "unused", NEW s \in {"expired", "gone"},
               s = "gone" \/ pairing[k].state # "gone",
               pairing' = [pairing EXCEPT ![k].state = s]
        PROVE  RowMoves(n)
    BY <1>0, <1>v DEF RowMoves, RowsOK
  <1>3. ASSUME NEW c \in Calls, EnrolStep(c)
        PROVE  RowMoves(n)
    <2>1. CASE SpendPairing(c)
      <3>1. call[c] \in Call /\ call[c] # NoCall
        BY <2>1, MadeCall
      <3>2. call[c].id \in Ids
        BY <3>1 DEF Call
      <3>3. QED
        BY <2>1, <3>1, <3>2, <1>v DEF SpendPairing, Offers, Verified
    <2>2. QED
      BY <1>3, <2>1, <1>u DEF EnrolStep, AddDevice, FailEnrol
  <1>4. ASSUME NEW b \in Browsers, ShowStep(b) PROVE RowMoves(n)
    BY <1>4, <1>2, <1>u
    DEF ShowStep, MintCode, Poll, Confirm, PairingOptions, PairingVerify, GiveUp
  <1>5. ASSUME NEW b \in Browsers, SaveWrap(b)
        PROVE  RowMoves(n)
    <2>1. CASE page[b].id = n /\ Held(n)
      <3>1. /\ pairing'[n].wrap = page[b].wrap /\ pairing'[n].user = page[b].wrap.by
            /\ pairing'[n].by = pairing[n].by /\ pairing'[n].state = pairing[n].state
        BY <1>0, <1>5, <2>1 DEF SaveWrap, RowsOK
      <3>2. Writes(b, n)
        <4>1. page'[b].at = "approved" /\ \A c \in Browsers \ {b} : page'[c] = page[c]
          BY <1>5, TurnedStage DEF SaveWrap
        <4>2. QED
          BY <1>5, <2>1, <4>1 DEF SaveWrap, Writes
      <3>3. pairing[n].state # "unused"
        BY <1>5, <2>1 DEF Held, SaveWrap
      <3>4. QED
        BY <3>1, <3>2, <3>3 DEF RowMoves
    <2>2. CASE page[b].id # n \/ ~Held(n)
      BY <1>0, <1>5, <2>2 DEF SaveWrap, RowsOK, RowMoves
    <2>3. QED
      BY <2>1, <2>2
  <1>6. ASSUME NEW b \in Browsers, ScanStep(b) PROVE RowMoves(n)
    BY <1>6, <1>5, <1>u DEF ScanStep, Lookup, CheckWrap, RowMoves
  <1>7. ASSUME NEW b \in Browsers, RecoverStep(b) \/ SignStep(b)
        PROVE  RowMoves(n)
    BY <1>7, <1>u DEF RecoverStep, OpenRecover, RecoveryOptions, RecoveryVerify, Recover,
                      SignStep, SignIn, SignOut, Leave, LoseChallenge
  <1>8. ASSUME Elapses PROVE RowMoves(n)
    <2>1. ASSUME NEW k \in Ids, Expire(k) PROVE RowMoves(n)
      BY <2>1, <1>v DEF Expire, Lives
    <2>2. CASE PruneExpired
      BY <1>0, <2>2 DEF PruneExpired, RowsOK, RowMoves
    <2>3. QED
      BY <1>8, <2>1, <2>2 DEF Elapses
  <1>9. QED
    BY <1>1, <1>3, <1>4, <1>6, <1>7, <1>8, Steps

\* What is spoilt stays so.
LEMMA SpoiltGrows ==
    ASSUME Typed, Next
    PROVE  \A x : x \notin spoilt' => x \notin spoilt
  <1>1. ASSUME NEW b \in Browsers, SetUpStep(b) PROVE spoilt \subseteq spoilt'
    BY <1>1 DEF SetUpStep, Create, PutVault, SaveVault, GetMe, DropStaleLocalVault
  <1>2. ASSUME NEW b \in Browsers, ShowStep(b) PROVE spoilt \subseteq spoilt'
    BY <1>2 DEF ShowStep, MintCode, CreatePairing, Poll, Confirm, PairingOptions, PairingVerify,
                GiveUp
  <1>3. ASSUME NEW b \in Browsers, ScanStep(b) PROVE spoilt \subseteq spoilt'
    BY <1>3 DEF ScanStep, Lookup, CheckWrap, SaveWrap
  <1>4. ASSUME NEW b \in Browsers, RecoverStep(b) \/ SignStep(b) PROVE spoilt \subseteq spoilt'
    BY <1>4 DEF RecoverStep, OpenRecover, RecoveryOptions, RecoveryVerify, Recover,
                SignStep, SignIn, SignOut, Leave, LoseChallenge
  <1>5. ASSUME Elapses PROVE spoilt \subseteq spoilt'
    BY <1>5 DEF Elapses, Expire, PruneExpired
  <1>e. ASSUME NEW c \in Calls, EnrolStep(c) PROVE spoilt \subseteq spoilt'
    BY <1>e DEF EnrolStep, AddDevice, SpendPairing, FailEnrol
  <1>6. spoilt \subseteq spoilt'
    BY <1>1, <1>2, <1>3, <1>4, <1>5, <1>e, Steps
  <1>7. QED
    BY <1>6

\* The vault of a member, and the words shown for it.
SetsUp(b, m) ==
    /\ page[b].at = "setup.write" /\ page[b].who = m
    /\ account'[m].key = page[b].wrap.key
    /\ words'[m] \subseteq words[m] \cup {account'[m].key}
    /\ page'[b] = Home /\ \A c \in Browsers \ {b} : page'[c] = page[c]
    /\ \/ m \in spoilt'
       \/ \A c \in Browsers \ {b} : page[c].at = "setup.write" => page[c].who # m
AccountMoves(m) ==
    \/ account'[m] = account[m] /\ words'[m] = words[m]
    \/ \E b \in Browsers : SetsUp(b, m)

LEMMA AccountsMove ==
    ASSUME Typed, Next, NEW m \in Members
    PROVE  AccountMoves(m)
  <1> USE DEF server, browser, enrolment
  <1>0. account \in [Members -> Vault] /\ words \in [Members -> SUBSET Keys]
    BY DEF Typed, TypeOK
  <1>1. ASSUME NEW b \in Browsers, SaveVault(b) PROVE AccountMoves(m)
    <2>1. CASE page[b].who = m
      <3>1. page'[b] = Home /\ \A c \in Browsers \ {b} : page'[c] = page[c]
        BY <1>1 DEF SaveVault, Typed, TypeOK
      <3>2. account'[m].key = page[b].wrap.key
        BY <1>0, <1>1, <2>1 DEF SaveVault
      <3>3. words'[m] \subseteq words[m] \cup {account'[m].key}
        BY <1>0, <1>1, <2>1, <3>2 DEF SaveVault
      <3>4. QED
        BY <1>1, <2>1, <3>1, <3>2, <3>3 DEF SaveVault, AccountMoves, SetsUp
    <2>2. CASE page[b].who # m
      BY <1>0, <1>1, <2>2 DEF SaveVault, AccountMoves
    <2>3. QED
      BY <2>1, <2>2
  <1>2. ASSUME NEW b \in Browsers, SetUpStep(b) PROVE AccountMoves(m)
    BY <1>1, <1>2 DEF SetUpStep, Create, PutVault, GetMe, DropStaleLocalVault, AccountMoves
  <1>3. ASSUME NEW b \in Browsers, ShowStep(b) PROVE AccountMoves(m)
    BY <1>3 DEF ShowStep, MintCode, CreatePairing, Poll, Confirm, PairingOptions, PairingVerify, GiveUp,
                AccountMoves
  <1>4. ASSUME NEW b \in Browsers, ScanStep(b) \/ RecoverStep(b) \/ SignStep(b)
        PROVE  AccountMoves(m)
    BY <1>4 DEF ScanStep, Lookup, CheckWrap, SaveWrap, RecoverStep, OpenRecover, RecoveryOptions,
                RecoveryVerify, Recover, SignStep, SignIn, SignOut, Leave, LoseChallenge,
                AccountMoves
  <1>5. ASSUME Elapses PROVE AccountMoves(m)
    BY <1>5 DEF Elapses, Expire, PruneExpired, AccountMoves
  <1>e. ASSUME NEW c \in Calls, EnrolStep(c) PROVE AccountMoves(m)
    BY <1>e DEF EnrolStep, AddDevice, SpendPairing, FailEnrol, AccountMoves
  <1>6. QED
    BY <1>2, <1>3, <1>4, <1>5, <1>e, Steps

\* The vault a browser keeps.
LocalMoves(b) ==
    \/ local'[b] \in {local[b], NoVault}
    \/ /\ page[b].at = "setup.write" /\ local'[b].key = page[b].wrap.key
       /\ account'[page[b].who].key = page[b].wrap.key
    \/ /\ page[b].at = "numbers" /\ local'[b].key = page[b].wrap.key
       /\ UNCHANGED <<account, spoilt>>
    \/ /\ \E m \in Users[b] \cap Members : words[m] # {} /\ local'[b].key = account[m].key
       /\ UNCHANGED <<account, spoilt>>

LEMMA LocalsMove ==
    ASSUME Typed, Next, NEW c \in Browsers
    PROVE  LocalMoves(c)
  <1> USE DEF server, browser, enrolment
  <1>0. account \in [Members -> Vault] /\ local \in [Browsers -> Vault]
    BY DEF Typed, TypeOK
  <1>1. ASSUME NEW b \in Browsers, SaveVault(b) PROVE LocalMoves(c)
    <2>1. page[b].who \in Members
      BY <1>1 DEF SaveVault, Typed, Holds, Making
    <2>2. account'[page[b].who].key = page[b].wrap.key
      BY <1>0, <1>1, <2>1 DEF SaveVault
    <2>3. QED
      BY <1>0, <1>1, <2>2 DEF SaveVault, LocalMoves
  <1>2. ASSUME NEW b \in Browsers, SetUpStep(b) PROVE LocalMoves(c)
    BY <1>0, <1>1, <1>2 DEF SetUpStep, Create, WhileUnanswered, PutVault, GetMe,
                            DropStaleLocalVault, LocalMoves
  <1>3. ASSUME NEW b \in Browsers, ShowStep(b) PROVE LocalMoves(c)
    <2>1. CASE Confirm(b)
      BY <1>0, <2>1 DEF Confirm, Unwrap, LocalMoves
    <2>2. QED
      BY <1>3, <2>1 DEF ShowStep, MintCode, CreatePairing, Poll, PairingOptions, PairingVerify, GiveUp,
                        LocalMoves
  <1>4. ASSUME NEW b \in Browsers, RecoverStep(b) PROVE LocalMoves(c)
    <2>1. ASSUME NEW m \in Members, Recover(b, m) PROVE LocalMoves(c)
      <3>1. CASE c = b
        <4>1. local'[c].key = account[m].key /\ words[m] # {} /\ m \in Users[c]
          BY <1>0, <2>1, <3>1 DEF Recover
        <4>2. QED
          BY <2>1, <4>1 DEF Recover, LocalMoves
      <3>2. CASE c # b
        BY <1>0, <2>1, <3>2 DEF Recover, LocalMoves
      <3>3. QED
        BY <3>1, <3>2
    <2>2. QED
      BY <1>4, <2>1 DEF RecoverStep, OpenRecover, RecoveryOptions, RecoveryVerify, LocalMoves
  <1>5. ASSUME NEW b \in Browsers, ScanStep(b) \/ SignStep(b) PROVE LocalMoves(c)
    BY <1>5 DEF ScanStep, Lookup, CheckWrap, SaveWrap, SignStep, SignIn, SignOut, Leave,
                LoseChallenge, LocalMoves
  <1>6. ASSUME Elapses PROVE LocalMoves(c)
    BY <1>6 DEF Elapses, Expire, PruneExpired, LocalMoves
  <1>e. ASSUME NEW k \in Calls, EnrolStep(k) PROVE LocalMoves(c)
    BY <1>e DEF EnrolStep, AddDevice, SpendPairing, FailEnrol, LocalMoves
  <1>7. QED
    BY <1>2, <1>3, <1>4, <1>5, <1>6, <1>e, Steps

\* The cookies of a browser, and its passkeys.
CookieMoves(b) ==
    \/ cookie'[b] \in {cookie[b], NoChallenge}
    \/ /\ page[b].at = "options" /\ pairing[page[b].id].wrap # NoWrap
       /\ cookie'[b].id = page[b].id /\ cookie'[b].who = pairing[page[b].id].user
       /\ UNCHANGED <<pairing, spoilt>>
    \/ /\ page[b].at = "recover.options"
       /\ cookie'[b].id = 0 /\ cookie'[b].who = page[b].who
CallFor(b, m) == \E c \in Calls : call[c] \in Call /\ call[c].by = b /\ call[c].who = m
SignMoves(b) ==
    /\ \/ session'[b] \in {session[b], Nobody, cookie[b].who}
       \/ <<b, session'[b]>> \in passkeys /\ session'[b] \in Members
       \/ CallFor(b, session'[b])
    /\ \A m \in Members : <<b, m>> \in passkeys' =>
          <<b, m>> \in passkeys \/ cookie[b].who = m \/ CallFor(b, m)

LEMMA CookiesMove ==
    ASSUME Typed, Next, NEW c \in Browsers
    PROVE  CookieMoves(c) /\ SignMoves(c)
  <1> USE DEF server, browser, enrolment
  <1>0. CookiesOK /\ session \in [Browsers -> Accounts]
    BY DEF Typed, TypeOK, CookiesOK
  <1>u. ASSUME UNCHANGED <<session, cookie, passkeys>> PROVE CookieMoves(c) /\ SignMoves(c)
    BY <1>u DEF CookieMoves, SignMoves
  <1>1. ASSUME NEW b \in Browsers, SetUpStep(b) PROVE CookieMoves(c) /\ SignMoves(c)
    BY <1>1, <1>u DEF SetUpStep, Create, PutVault, SaveVault, GetMe, DropStaleLocalVault
  <1>e. ASSUME NEW b \in Browsers, EnrolRecovered(b)
        PROVE  CookieMoves(c) /\ SignMoves(c)
    <2>1. CookieMoves(c)
      BY <1>0, <1>e DEF EnrolRecovered, CookieMoves, CookiesOK
    <2>2. session'[c] \in {session[c], cookie[c].who}
      BY <1>0, <1>e DEF EnrolRecovered
    <2>3. ASSUME NEW m \in Members, <<c, m>> \in passkeys'
          PROVE  <<c, m>> \in passkeys \/ cookie[c].who = m
      <3>1. <<c, m>> \in passkeys \/ <<c, m>> = <<b, cookie[b].who>>
        BY <1>e, <2>3 DEF EnrolRecovered
      <3>2. QED
        BY <3>1
    <2>4. QED
      BY <2>1, <2>2, <2>3 DEF SignMoves
  <1>2. ASSUME NEW b \in Browsers, PairingOptions(b) PROVE CookieMoves(c) /\ SignMoves(c)
    BY <1>0, <1>2, <1>u DEF PairingOptions, CookieMoves, SignMoves, CookiesOK
  <1>3. ASSUME NEW k \in Calls, EnrolStep(k) PROVE CookieMoves(c) /\ SignMoves(c)
    <2>1. call[k] \in Call
      BY <1>3, MadeCall DEF EnrolStep
    <2>2. CASE AddDevice(k)
      <3>1. ASSUME NEW m \in Members, <<c, m>> \in passkeys'
            PROVE  <<c, m>> \in passkeys \/ CallFor(c, m)
        <4>1. <<c, m>> \in passkeys \/ <<c, m>> = <<call[k].by, call[k].who>>
          BY <2>2, <3>1 DEF AddDevice
        <4>2. QED
          BY <2>1, <4>1 DEF CallFor
      <3>2. cookie'[c] = cookie[c] /\ session'[c] = session[c]
        BY <2>2 DEF AddDevice
      <3>3. QED
        BY <3>1, <3>2 DEF CookieMoves, SignMoves
    <2>3. CASE SpendPairing(k)
      <3>1. cookie'[c] \in {cookie[c], NoChallenge}
        BY <1>0, <2>3 DEF SpendPairing, CookiesOK
      <3>2. session'[c] = session[c] \/ (c = call[k].by /\ session'[c] = call[k].who)
        BY <1>0, <2>3 DEF SpendPairing
      <3>3. session'[c] = session[c] \/ CallFor(c, session'[c])
        BY <2>1, <3>2 DEF CallFor
      <3>4. passkeys' = passkeys
        BY <2>3 DEF SpendPairing
      <3>5. QED
        BY <3>1, <3>3, <3>4 DEF CookieMoves, SignMoves
    <2>4. CASE FailEnrol(k)
      BY <2>4, <1>u DEF FailEnrol
    <2>5. QED
      BY <1>3, <2>2, <2>3, <2>4 DEF EnrolStep
  <1>4. ASSUME NEW b \in Browsers, ShowStep(b) PROVE CookieMoves(c) /\ SignMoves(c)
    BY <1>4, <1>2, <1>u
    DEF ShowStep, MintCode, CreatePairing, Poll, Confirm, PairingVerify, GiveUp
  <1>5. ASSUME NEW b \in Browsers, ScanStep(b) PROVE CookieMoves(c) /\ SignMoves(c)
    BY <1>5, <1>u DEF ScanStep, Lookup, CheckWrap, SaveWrap
  <1>6. ASSUME NEW b \in Browsers, RecoveryOptions(b) PROVE CookieMoves(c) /\ SignMoves(c)
    BY <1>0, <1>6, <1>u DEF RecoveryOptions, CookieMoves, SignMoves, CookiesOK
  <1>7. ASSUME NEW b \in Browsers, RecoveryVerify(b) PROVE CookieMoves(c) /\ SignMoves(c)
    BY <1>7, <1>e, <1>u DEF RecoveryVerify
  <1>8. ASSUME NEW b \in Browsers, RecoverStep(b) PROVE CookieMoves(c) /\ SignMoves(c)
    BY <1>8, <1>6, <1>7, <1>u DEF RecoverStep, OpenRecover, Recover
  <1>9. ASSUME NEW b \in Browsers, NEW m \in Members, SignIn(b, m)
        PROVE  CookieMoves(c) /\ SignMoves(c)
    BY <1>0, <1>9 DEF SignIn, CookieMoves, SignMoves
  <1>10. ASSUME NEW b \in Browsers, SignOut(b) \/ LoseChallenge(b)
         PROVE  CookieMoves(c) /\ SignMoves(c)
    BY <1>0, <1>10 DEF SignOut, LoseChallenge, CookieMoves, SignMoves, CookiesOK
  <1>11. ASSUME NEW b \in Browsers, SignStep(b) PROVE CookieMoves(c) /\ SignMoves(c)
    BY <1>9, <1>10, <1>11, <1>u DEF SignStep, Leave
  <1>12. ASSUME Elapses PROVE CookieMoves(c) /\ SignMoves(c)
    BY <1>12, <1>u DEF Elapses, Expire, PruneExpired
  <1>13. QED
    BY <1>1, <1>3, <1>4, <1>5, <1>8, <1>11, <1>12, Steps

\* A verify: it is over, goes on, or begins with what the page compared and the
\* challenge that came with it.
CallMoves(c) ==
    \/ call'[c] = NoCall
    \/ /\ call[c] # NoCall /\ call'[c].id = call[c].id /\ call'[c].by = call[c].by
       /\ call'[c].who = call[c].who /\ call'[c].saw = call[c].saw
    \/ \E b \in Browsers :
          /\ page[b].at = "prompt" /\ Challenged(b, page[b].id)
          /\ call'[c].by = b /\ call'[c].id = page[b].id
          /\ call'[c].who = cookie[b].who /\ call'[c].saw = page[b].wrap.by
          /\ UNCHANGED <<pairing, spoilt>>

LEMMA CallsMove ==
    ASSUME Typed, Next, NEW c \in Calls
    PROVE  CallMoves(c)
  <1> USE DEF server, browser, enrolment
  <1>0. call \in [Calls -> Call \cup {NoCall}]
    BY DEF Typed, TypeOK
  <1>u. ASSUME call'[c] = call[c] PROVE CallMoves(c)
    BY <1>u DEF CallMoves
  <1>h. ASSUME NEW b \in Browsers, Unheard(b) PROVE CallMoves(c)
    <2>1. call'[c] # call[c] => call[c] \in Call /\ call'[c] = [call[c] EXCEPT !.heard = FALSE]
      BY <1>0, <1>h, UnheardCalls
    <2>2. QED
      BY <2>1, <1>u, NoCallIsNone DEF CallMoves, Call
  <1>1. ASSUME NEW b \in Browsers, SetUpStep(b) PROVE CallMoves(c)
    BY <1>1, <1>u DEF SetUpStep, Create, PutVault, SaveVault, GetMe, DropStaleLocalVault
  <1>2. ASSUME NEW b \in Browsers, NEW k \in Calls, PairingVerify(b, k) PROVE CallMoves(c)
    BY <1>0, <1>2, <1>u DEF PairingVerify, CallMoves
  <1>3. ASSUME NEW b \in Browsers, ShowStep(b) PROVE CallMoves(c)
    BY <1>3, <1>2, <1>h, <1>u
    DEF ShowStep, MintCode, CreatePairing, Poll, Confirm, PairingOptions, GiveUp
  <1>4. ASSUME NEW k \in Calls, EnrolStep(k) PROVE CallMoves(c)
    <2>1. call[k] \in Call /\ call[k] # NoCall
      BY <1>4, MadeCall DEF EnrolStep
    <2>2. CASE AddDevice(k)
      BY <1>0, <2>1, <2>2, <1>u DEF AddDevice, CallMoves, Call
    <2>3. CASE SpendPairing(k) \/ FailEnrol(k)
      BY <1>0, <2>3, <1>u DEF SpendPairing, FailEnrol, CallMoves
    <2>4. QED
      BY <1>4, <2>2, <2>3 DEF EnrolStep
  <1>5. ASSUME NEW b \in Browsers, ScanStep(b) \/ RecoverStep(b) PROVE CallMoves(c)
    BY <1>5, <1>u DEF ScanStep, Lookup, CheckWrap, SaveWrap, RecoverStep, OpenRecover,
                      RecoveryOptions, RecoveryVerify, Recover
  <1>6. ASSUME NEW b \in Browsers, SignStep(b) PROVE CallMoves(c)
    BY <1>6, <1>h, <1>u DEF SignStep, SignIn, SignOut, Leave, LoseChallenge
  <1>7. ASSUME Elapses PROVE CallMoves(c)
    BY <1>7, <1>u DEF Elapses, Expire, PruneExpired
  <1>8. QED
    BY <1>1, <1>3, <1>4, <1>5, <1>6, <1>7, Steps

-----------------------------------------------------------------------------
(* The invariants, each through the steps above.                           *)

LEMMA RealWraps ==
    ASSUME Typed, RealKeys, NEW b \in Browsers,
           page[b].at \in Making \cup Wrapping \cup Told \cup Recovering
    PROVE  page[b].wrap \in Wrap /\ page[b].wrap # NoWrap /\ page[b].wrap.key # 0
  BY NoWrapIsNone DEF Typed, Holds, RealKeys

LEMMA RealKeysStep ==
    ASSUME Typed, RealKeys, NoWordsYet, Offers, Next
    PROVE  RealKeys'
  <1>1. ASSUME NEW b \in Browsers, local'[b] # NoVault PROVE local'[b].key # 0
    <2>1. LocalMoves(b)
      BY LocalsMove
    <2>2. CASE local'[b] \in {local[b], NoVault}
      BY <1>1, <2>2 DEF RealKeys
    <2>3. CASE page[b].at \in {"setup.write", "numbers"} /\ local'[b].key = page[b].wrap.key
      BY <2>3, RealWraps DEF Making, Told
    <2>4. ASSUME NEW m \in Users[b] \cap Members, words[m] # {}, local'[b].key = account[m].key
          PROVE  local'[b].key # 0
      BY <2>4 DEF NoWordsYet
    <2>5. QED
      BY <2>1, <2>2, <2>3, <2>4 DEF LocalMoves
  <1>2. ASSUME NEW b \in Browsers, page'[b].wrap # NoWrap PROVE page'[b].wrap.key # 0
    <2>1. Moves(b)
      BY PageMoves
    <2>2. CASE page'[b].wrap \in {NoWrap, page[b].wrap}
      BY <1>2, <2>2 DEF RealKeys
    <2>3. CASE page'[b].wrap.key = made + 1
      <3>1. made \in Keys
        BY DEF Typed, TypeOK
      <3>2. QED
        BY <2>3, <3>1, VaultsAssumption DEF Keys
    <2>4. CASE page'[b].wrap = pairing[page[b].id].wrap /\ page[b].at = "showing"
      <3>1. page[b].id \in Ids
        BY <2>4 DEF Typed, Holds, Receiving
      <3>2. QED
        BY <1>2, <2>4, <3>1 DEF RealKeys
    <2>5. CASE page'[b].wrap = WrapOf(b) /\ local[b] # NoVault
      BY <2>5 DEF RealKeys, WrapOf
    <2>6. CASE /\ page'[b].who \in Members /\ words[page'[b].who] # {}
               /\ page'[b].wrap.key = account[page'[b].who].key
      BY <2>6 DEF NoWordsYet
    <2>7. page'[b] = page[b] => page'[b].wrap \in {NoWrap, page[b].wrap}
      OBVIOUS
    <2>8. QED
      BY <2>1, <2>2, <2>3, <2>4, <2>5, <2>6, <2>7 DEF Moves
  <1>3. ASSUME NEW n \in Ids, pairing'[n].wrap # NoWrap PROVE pairing'[n].wrap.key # 0
    <2>1. RowMoves(n)
      BY RowsMove
    <2>2. CASE pairing'[n].wrap = pairing[n].wrap
      BY <1>3, <2>2 DEF RealKeys
    <2>3. ASSUME NEW a \in Browsers, page[a].at = "wrap.write", pairing'[n].wrap = page[a].wrap
          PROVE  pairing'[n].wrap.key # 0
      BY <2>3, RealWraps DEF Wrapping
    <2>4. QED
      BY <1>3, <2>1, <2>2, <2>3 DEF RowMoves, Writes
  <1>4. QED
    BY <1>1, <1>2, <1>3 DEF RealKeys

LEMMA OpeningStep ==
    ASSUME Typed, RealKeys, Opening, Next
    PROVE  Opening'
  <1>1. ASSUME NEW m \in Members, NEW b \in Browsers, SetsUp(b, m)
        PROVE  account'[m].key # 0
    BY <1>1, RealWraps DEF SetsUp, Making
  <1>2. NoWordsYet'
    <2>1. ASSUME NEW m \in Members, account'[m].key = 0 PROVE words'[m] = {}
      BY <1>1, <2>1, AccountsMove DEF AccountMoves, Opening, NoWordsYet
    <2>2. QED
      BY <2>1 DEF NoWordsYet
  <1>3. \A x : x \notin spoilt' => x \notin spoilt
    BY SpoiltGrows
  <1>4. ASSUME NEW m \in Members \ spoilt', NEW b \in Browsers,
               page'[b].at = "setup.write", page'[b].who = m
        PROVE  account'[m].key = 0
    <2>1. CASE page'[b] = page[b]
      <3>1. account[m].key = 0
        BY <1>3, <1>4, <2>1 DEF Opening, OneWriter
      <3>2. ASSUME NEW a \in Browsers, SetsUp(a, m) PROVE FALSE
        BY <1>4, <2>1, <3>2, AtHome DEF SetsUp
      <3>3. QED
        BY <3>1, <3>2, AccountsMove DEF AccountMoves
    <2>2. CASE page'[b].who = page[b].who /\ account[page[b].who].key = 0 /\ UNCHANGED account
      BY <1>4, <2>2
    <2>3. QED
      BY <1>4, <2>1, <2>2, PageMoves DEF Moves, Told, Idle
  <1>5. ASSUME NEW m \in Members \ spoilt', NEW k \in words'[m] PROVE account'[m].key = k
    <2>1. CASE account'[m] = account[m] /\ words'[m] = words[m]
      BY <1>3, <1>5, <2>1 DEF Opening, WordsOpen
    <2>2. ASSUME NEW b \in Browsers, SetsUp(b, m) PROVE account'[m].key = k
      <3>1. account[m].key = 0
        BY <1>3, <1>5, <2>2 DEF SetsUp, Opening, OneWriter
      <3>2. words[m] = {}
        BY <3>1 DEF Opening, NoWordsYet
      <3>3. QED
        BY <1>5, <2>2, <3>2 DEF SetsUp
    <2>3. QED
      BY <2>1, <2>2, AccountsMove DEF AccountMoves
  <1>6. QED
    BY <1>2, <1>4, <1>5 DEF Opening, OneWriter, WordsOpen

LEMMA OffersStep ==
    ASSUME Typed, Offers, Next
    PROVE  Offers'
  <1>1. ASSUME NEW n \in Ids
        PROVE  /\ pairing'[n].state = "unused" => pairing'[n].wrap = NoWrap
               /\ pairing'[n].state # "unused" => pairing'[n].by \in Browsers
               /\ pairing'[n].wrap # NoWrap => /\ pairing'[n].user = pairing'[n].wrap.by
                                               /\ pairing'[n].wrap.by \in Users[pairing'[n].by]
    <2>1. RowMoves(n)
      BY RowsMove
    <2>2. CASE pairing'[n] = pairing[n]
      BY <2>2 DEF Offers, Rows
    <2>3. CASE /\ pairing[n].state # "unused" /\ pairing'[n].state # "unused"
               /\ pairing'[n].wrap = pairing[n].wrap /\ pairing'[n].by = pairing[n].by
               /\ pairing'[n].user = pairing[n].user
      BY <2>3 DEF Offers, Rows
    <2>4. CASE /\ pairing[n].state = "unused" /\ pairing'[n].state = "live"
               /\ pairing'[n].by \in Browsers /\ pairing'[n].wrap = NoWrap
      BY <2>4
    <2>5. ASSUME NEW a \in Browsers, Writes(a, n), pairing[n].state # "unused",
                 pairing'[n].state # "unused", pairing'[n].by = pairing[n].by,
                 pairing'[n].wrap = page[a].wrap, pairing'[n].user = page[a].wrap.by
          PROVE  /\ pairing'[n].state # "unused" /\ pairing'[n].by \in Browsers
                 /\ pairing'[n].user = pairing'[n].wrap.by
                 /\ pairing'[n].wrap.by \in Users[pairing'[n].by]
      BY <2>5 DEF Offers, Rows, Pairs, Writes, Wrapping
    <2>6. QED
      BY <2>1, <2>2, <2>3, <2>4, <2>5 DEF RowMoves
  <1>2. \A n \in Ids : pairing[n].state # "unused" =>
            pairing'[n].state # "unused" /\ pairing'[n].by = pairing[n].by
    BY RowsMove DEF RowMoves
  <1>3. ASSUME NEW b \in Browsers
        PROVE  /\ page'[b].at \in Wrapping \cup Receiving => pairing'[page'[b].id].state # "unused"
               /\ page'[b].at \in Wrapping => page'[b].wrap.by \in Users[pairing'[page'[b].id].by]
               /\ page'[b].at \in Receiving => pairing'[page'[b].id].by = b
               /\ page'[b].at \in Told => page'[b].wrap.by \in Users[b]
    <2>1. page[b].at \in Wrapping \cup Receiving => page[b].id \in Ids
      BY DEF Typed, Holds
    <2>2. CASE page'[b] = page[b]
      BY <1>2, <2>1, <2>2 DEF Offers, Pairs, Receiving
    <2>3. CASE page[b].at \in Told /\ page'[b].at \in Told
               /\ page'[b].id = page[b].id /\ page'[b].wrap = page[b].wrap
      BY <1>2, <2>1, <2>3 DEF Offers, Pairs, Receiving, Told, Wrapping
    <2>4. CASE /\ page'[b].at = "showing" /\ pairing'[page'[b].id].state = "live"
               /\ pairing'[page'[b].id].by = b
      BY <2>4 DEF Receiving, Told, Wrapping
    <2>5. CASE /\ page[b].at = "showing" /\ page'[b].at = "numbers"
               /\ page'[b].id = page[b].id /\ page'[b].wrap = pairing[page[b].id].wrap
               /\ page'[b].wrap # NoWrap
      BY <1>2, <2>1, <2>5 DEF Offers, Pairs, Rows, Receiving, Told, Wrapping
    <2>6. CASE /\ page'[b].at = "wrap" /\ page'[b].wrap = WrapOf(b) /\ page'[b].id \in Ids
               /\ pairing[page'[b].id].state = "live"
               /\ session[b] \in Users[pairing[page'[b].id].by]
      BY <1>2, <2>6 DEF Receiving, Told, Wrapping, WrapOf
    <2>7. CASE /\ page[b].at = "wrap" /\ page'[b].at = "wrap.write"
               /\ page'[b].id = page[b].id /\ page'[b].wrap = page[b].wrap
      BY <1>2, <2>1, <2>7 DEF Offers, Pairs, Receiving, Told, Wrapping
    <2>8. CASE page'[b].at \notin Wrapping \cup Receiving
      BY <2>8 DEF Receiving
    <2>9. QED
      BY <2>2, <2>3, <2>4, <2>5, <2>6, <2>7, <2>8, PageMoves
      DEF Moves, Idle, Receiving, Told, Wrapping
  <1>4. ASSUME NEW c \in Calls, call'[c] # NoCall
        PROVE  pairing'[call'[c].id].state # "unused"
    <2>1. CASE call[c] # NoCall /\ call'[c].id = call[c].id
      <3>1. call[c].id \in Ids /\ pairing[call[c].id].state # "unused"
        BY <2>1 DEF Typed, TypeOK, Call, Offers, Verified
      <3>2. QED
        BY <1>2, <2>1, <3>1
    <2>2. ASSUME NEW b \in Browsers, page[b].at = "prompt", call'[c].id = page[b].id
          PROVE  pairing'[call'[c].id].state # "unused"
      <3>1. page[b].id \in Ids /\ pairing[page[b].id].state # "unused"
        BY <2>2 DEF Typed, Holds, Told, Receiving, Offers, Pairs
      <3>2. QED
        BY <1>2, <2>2, <3>1
    <2>3. QED
      BY <1>4, <2>1, <2>2, CallsMove DEF CallMoves
  <1>5. QED
    BY <1>1, <1>3, <1>4 DEF Offers, Rows, Pairs, Verified

LEMMA AmongUsersStep ==
    ASSUME Typed, Offers, AmongUsers, Next
    PROVE  AmongUsers'
  <1>1. ASSUME NEW b \in Browsers PROVE cookie'[b].who \in Users[b] \cup {Nobody}
    <2>1. CASE cookie'[b] \in {cookie[b], NoChallenge}
      BY <2>1 DEF AmongUsers, NoChallenge
    <2>2. CASE /\ page[b].at = "options" /\ pairing[page[b].id].wrap # NoWrap
               /\ cookie'[b].who = pairing[page[b].id].user
      <3>1. page[b].id \in Ids
        BY <2>2 DEF Typed, Holds, Receiving, Told
      <3>2. pairing[page[b].id].by = b
        BY <2>2 DEF Offers, Pairs, Receiving, Told
      <3>3. QED
        BY <2>2, <3>1, <3>2 DEF Offers, Rows
    <2>3. CASE page[b].at = "recover.options" /\ cookie'[b].who = page[b].who
      BY <2>3 DEF AmongUsers, Recovering
    <2>4. QED
      BY <2>1, <2>2, <2>3, CookiesMove DEF CookieMoves
  <1>c. ASSUME NEW b \in Browsers, NEW m, CallFor(b, m) PROVE m \in Users[b]
    BY <1>c, NoCallIsNone DEF CallFor, AmongUsers
  <1>2. ASSUME NEW b \in Browsers PROVE session'[b] \in Users[b] \cup {Nobody}
    BY <1>c, CookiesMove DEF SignMoves, AmongUsers
  <1>3. ASSUME NEW b \in Browsers, page'[b].at \in Making \cup Recovering
        PROVE  page'[b].who \in Users[b]
    <2>1. CASE page'[b] = page[b]
      BY <1>3, <2>1 DEF AmongUsers
    <2>2. CASE page'[b].who = session[b] /\ session[b] \in Members
      BY <2>2, VaultsAssumption DEF AmongUsers
    <2>3. CASE page'[b].who = page[b].who /\ page[b].at \in {"setup", "recover.options"}
      BY <2>3 DEF AmongUsers, Making, Recovering
    <2>4. CASE page'[b].who \in Users[b]
      BY <2>4
    <2>5. QED
      BY <1>3, <2>1, <2>2, <2>3, <2>4, PageMoves DEF Moves, Idle, Told, Making, Recovering
  <1>4. ASSUME NEW b \in Browsers, NEW m \in Members, <<b, m>> \in passkeys'
        PROVE  m \in Users[b]
    <2>1. <<b, m>> \in passkeys \/ cookie[b].who = m \/ CallFor(b, m)
      BY <1>4, CookiesMove DEF SignMoves
    <2>2. m # Nobody
      BY VaultsAssumption
    <2>3. QED
      BY <2>1, <2>2, <1>c DEF AmongUsers
  <1>5. ASSUME NEW c \in Calls, call'[c] # NoCall PROVE call'[c].who \in Users[call'[c].by]
    <2>1. CASE call[c] # NoCall /\ call'[c].by = call[c].by /\ call'[c].who = call[c].who
      BY <2>1 DEF AmongUsers
    <2>2. ASSUME NEW b \in Browsers, Challenged(b, page[b].id), call'[c].by = b,
                 call'[c].who = cookie[b].who
          PROVE  call'[c].who \in Users[call'[c].by]
      BY <2>2 DEF Challenged, AmongUsers
    <2>3. QED
      BY <1>5, <2>1, <2>2, CallsMove DEF CallMoves
  <1>6. QED
    BY <1>1, <1>2, <1>3, <1>4, <1>5 DEF AmongUsers

\* A row that has a wrap and is not spoilt keeps it.
LEMMA WrapKept ==
    ASSUME Typed, Offers, DigitsTrue, Next, NEW n \in Ids \ spoilt',
           pairing[n].wrap # NoWrap
    PROVE  pairing'[n].wrap = pairing[n].wrap
  <1>1. n \in Ids \ spoilt
    BY SpoiltGrows
  <1>2. pairing[n].state # "unused"
    BY DEF Offers, Rows
  <1>3. ASSUME NEW a \in Browsers, Writes(a, n) PROVE FALSE
    BY <1>1, <1>3 DEF Writes, DigitsTrue
  <1>4. QED
    BY <1>2, <1>3, RowsMove DEF RowMoves

LEMMA DigitsStep ==
    ASSUME Typed, Offers, DigitsTrue, Next
    PROVE  DigitsTrue'
  <1> SUFFICES ASSUME NEW n \in Ids \ spoilt', NEW b \in Browsers
               PROVE  /\ page'[b].at = "wrap.write" /\ page'[b].id = n
                            => pairing'[n].wrap = NoWrap
                      /\ page'[b].at \in Told /\ page'[b].id = n
                            => pairing'[n].wrap = page'[b].wrap
                      /\ cookie'[b].who # Nobody /\ cookie'[b].id = n =>
                            pairing'[n].wrap # NoWrap /\ cookie'[b].who = pairing'[n].wrap.by
    BY DEF DigitsTrue
  <1>n. n \in Ids /\ n \notin spoilt /\ n # 0
    BY SpoiltGrows, VaultsAssumption DEF Ids
  <1>1. ASSUME page'[b].at = "wrap.write", page'[b].id = n
        PROVE  pairing'[n].wrap = NoWrap
    <2>1. CASE page'[b] = page[b]
      <3>1. pairing[n].wrap = NoWrap
        BY <1>n, <1>1, <2>1 DEF DigitsTrue
      <3>2. ASSUME NEW a \in Browsers, Writes(a, n) PROVE FALSE
        BY <1>n, <1>1, <2>1, <3>2 DEF Writes
      <3>3. QED
        BY <1>n, <3>1, <3>2, RowsMove DEF RowMoves
    <2>2. CASE /\ page'[b].id = page[b].id /\ pairing[page[b].id].wrap = NoWrap
               /\ UNCHANGED <<account, pairing, spoilt>>
      BY <1>1, <2>2
    <2>3. QED
      BY <1>1, <2>1, <2>2, PageMoves DEF Moves, Idle, Told
  <1>2. ASSUME page'[b].at \in Told, page'[b].id = n
        PROVE  pairing'[n].wrap = page'[b].wrap
    <2>1. CASE page'[b] = page[b]
      <3>1. pairing[n].wrap = page[b].wrap
        BY <1>n, <1>2, <2>1 DEF DigitsTrue
      <3>2. page[b].wrap # NoWrap
        BY <1>2, <2>1, NoWrapIsNone DEF Typed, Holds
      <3>3. QED
        BY <2>1, <3>1, <3>2, WrapKept
    <2>2. CASE /\ page[b].at \in Told /\ page'[b].id = page[b].id /\ page'[b].wrap = page[b].wrap
               /\ \A k \in Ids : pairing'[k].wrap = pairing[k].wrap
      BY <1>n, <1>2, <2>2 DEF DigitsTrue
    <2>3. CASE /\ page'[b].id = page[b].id /\ page'[b].wrap = pairing[page[b].id].wrap
               /\ UNCHANGED <<account, pairing, spoilt>>
      BY <1>2, <2>3
    <2>4. QED
      BY <1>2, <2>1, <2>2, <2>3, PageMoves DEF Moves, Idle, Told
  <1>3. ASSUME cookie'[b].who # Nobody, cookie'[b].id = n
        PROVE  pairing'[n].wrap # NoWrap /\ cookie'[b].who = pairing'[n].wrap.by
    <2>1. CASE cookie'[b] = cookie[b]
      <3>1. pairing[n].wrap # NoWrap /\ cookie[b].who = pairing[n].wrap.by
        BY <1>n, <1>3, <2>1 DEF DigitsTrue
      <3>2. QED
        BY <2>1, <3>1, WrapKept
    <2>2. CASE cookie'[b] = NoChallenge \/ cookie'[b].id = 0
      BY <1>n, <1>3, <2>2 DEF NoChallenge
    <2>3. CASE /\ pairing[page[b].id].wrap # NoWrap /\ cookie'[b].id = page[b].id
               /\ cookie'[b].who = pairing[page[b].id].user
               /\ UNCHANGED <<pairing, spoilt>>
      BY <1>n, <1>3, <2>3 DEF Offers, Rows
    <2>4. QED
      BY <2>1, <2>2, <2>3, CookiesMove DEF CookieMoves
  <1>4. QED
    BY <1>1, <1>2, <1>3

\* A verify is of the wrap that was compared, as long as the row is not spoilt.
LEMMA CallsTrueStep ==
    ASSUME Typed, Offers, DigitsTrue, CallsTrue, Next
    PROVE  CallsTrue'
  <1> SUFFICES ASSUME NEW n \in Ids \ spoilt', NEW c \in Calls,
                      call'[c] # NoCall, call'[c].id = n
               PROVE  /\ pairing'[n].wrap # NoWrap
                      /\ call'[c].who = pairing'[n].wrap.by
                      /\ call'[c].saw = pairing'[n].wrap.by
    BY DEF CallsTrue
  <1>n. n \in Ids \ spoilt
    BY SpoiltGrows
  <1>1. CASE /\ call[c] # NoCall /\ call'[c].id = call[c].id
             /\ call'[c].who = call[c].who /\ call'[c].saw = call[c].saw
    <2>1. /\ pairing[n].wrap # NoWrap
          /\ call[c].who = pairing[n].wrap.by /\ call[c].saw = pairing[n].wrap.by
      BY <1>n, <1>1 DEF CallsTrue
    <2>2. pairing'[n].wrap = pairing[n].wrap
      BY <2>1, WrapKept
    <2>3. QED
      BY <1>1, <2>1, <2>2
  <1>2. ASSUME NEW b \in Browsers, page[b].at = "prompt", Challenged(b, page[b].id),
               call'[c].id = page[b].id, call'[c].who = cookie[b].who,
               call'[c].saw = page[b].wrap.by, UNCHANGED pairing
        PROVE  /\ pairing'[n].wrap # NoWrap
               /\ call'[c].who = pairing'[n].wrap.by
               /\ call'[c].saw = pairing'[n].wrap.by
    <2>1. pairing[n].wrap = page[b].wrap
      BY <1>n, <1>2 DEF DigitsTrue, Told
    <2>2. pairing[n].wrap # NoWrap /\ cookie[b].who = pairing[n].wrap.by
      BY <1>n, <1>2 DEF DigitsTrue, Challenged
    <2>3. QED
      BY <1>2, <2>1, <2>2
  <1>3. QED
    BY <1>1, <1>2, CallsMove DEF CallMoves

\* What a pairing has enrolled.
LEMMA AddingFinite ==
    ASSUME NEW n
    PROVE  /\ IsFiniteSet(Adding(n)) /\ Cardinality(Adding(n)) \in Nat
           /\ Adding(n) = {} => Cardinality(Adding(n)) = 0
  <1>1. Adding(n) \in SUBSET Calls /\ IsFiniteSet(Calls)
    BY VaultsAssumption DEF Adding, Verifying
  <1>2. IsFiniteSet(Adding(n))
    BY <1>1, FS_Subset
  <1>3. QED
    BY <1>2, FS_CardinalityType, FS_EmptySet

LEMMA Counts ==
    ASSUME Typed
    PROVE  /\ call \in [Calls -> Call \cup {NoCall}]
           /\ \A n \in Ids : enrolled[n] \in Nat /\ slips[n] \in Nat
  <1>1. /\ call \in [Calls -> Call \cup {NoCall}]
        /\ enrolled \in [Ids -> Nat] /\ slips \in [Ids -> 0..MaxSlips]
    BY DEF Typed, TypeOK
  <1>2. MaxSlips \in Nat
    BY VaultsAssumption
  <1>3. QED
    BY <1>1, <1>2

LEMMA CreditSame ==
    ASSUME Typed, Offers, Next, NEW n \in Ids, Credit(n),
           enrolled'[n] = enrolled[n], slips'[n] = slips[n],
           Adding(n)' = Adding(n), Verifying(n) # {} => Verifying(n)' # {}
    PROVE  Credit(n)'
  <1>1. pairing[n].state = "gone" => pairing'[n].state = "gone"
    BY RowsMove DEF RowMoves
  <1>2. QED
    BY <1>1 DEF Credit

LEMMA CreditAdd ==
    ASSUME Typed, NEW c \in Calls, AddDevice(c), NEW n \in Ids, n = call[c].id, Credit(n)
    PROVE  Credit(n)'
  <1>0. call \in [Calls -> Call \cup {NoCall}] /\ enrolled[n] \in Nat /\ slips[n] \in Nat
    BY Counts
  <1>1. call[c] \in Call /\ call[c] # NoCall
    BY <1>0 DEF AddDevice, NoCall
  <1>2. c \in Adding(n)
    BY <1>1 DEF AddDevice, Adding, Verifying
  <1>3. /\ call' = [call EXCEPT ![c] = call'[c]] /\ call'[c].at = "spend"
        /\ call'[c].id = n /\ call'[c] # NoCall
    BY <1>0, <1>1 DEF AddDevice, Call, NoCall
  <1>4. Adding(n)' = Adding(n) \ {c} /\ Verifying(n)' # {}
    BY <1>0, <1>3 DEF Adding, Verifying
  <1>5. Cardinality(Adding(n)') = Cardinality(Adding(n)) - 1
    BY <1>2, <1>4, AddingFinite, FS_RemoveElement
  <1>6. enrolled'[n] = enrolled[n] + 1 /\ slips'[n] = slips[n]
    BY DEF AddDevice, Typed, TypeOK
  <1>7. QED
    BY <1>0, <1>4, <1>5, <1>6, AddingFinite DEF Credit

LEMMA CreditOver ==
    ASSUME Typed, NEW c \in Calls, SpendPairing(c) \/ FailEnrol(c), NEW n \in Ids,
           n = call[c].id, Credit(n)
    PROVE  Credit(n)'
  <1>0. call \in [Calls -> Call \cup {NoCall}] /\ enrolled[n] \in Nat /\ slips[n] \in Nat
    BY Counts
  <1>1. call[c] \in Call /\ call[c] # NoCall
    BY <1>0, NoCallIsNone DEF SpendPairing, FailEnrol, NoCall
  <1>2. call' = [call EXCEPT ![c] = NoCall]
    BY DEF SpendPairing, FailEnrol
  <1>3. Adding(n)' = Adding(n) \ {c}
    BY <1>0, <1>2 DEF Adding, Verifying
  <1>4. Cardinality(Adding(n)') = IF c \in Adding(n) THEN Cardinality(Adding(n)) - 1
                                  ELSE Cardinality(Adding(n))
    BY <1>3, AddingFinite, FS_RemoveElement
  <1>5. c \in Adding(n) <=> call[c].at = "add"
    BY <1>1 DEF Adding, Verifying
  <1>6. enrolled'[n] = enrolled[n]
    BY DEF SpendPairing, FailEnrol
  <1>7. CASE SpendPairing(c)
    <2>1. pairing'[n].state = "gone" /\ slips'[n] = slips[n]
      BY <1>7 DEF SpendPairing, Typed, TypeOK
    <2>2. c \notin Adding(n)
      BY <1>5, <1>7 DEF SpendPairing
    <2>3. QED
      BY <1>0, <1>4, <1>6, <2>1, <2>2, AddingFinite DEF Credit
  <1>8. CASE FailEnrol(c)
    <2>1. IF call[c].at = "add" THEN slips'[n] = slips[n] ELSE slips'[n] = slips[n] + 1
      BY <1>8 DEF FailEnrol, Typed, TypeOK
    <2>2. pairing' = pairing
      BY <1>8 DEF FailEnrol, server
    <2>3. Cardinality(Adding(n)) \in Nat
      BY AddingFinite
    <2>4. CASE call[c].at = "add"
      <3>1. Cardinality(Adding(n)') = Cardinality(Adding(n)) - 1 /\ slips'[n] = slips[n]
        BY <1>4, <1>5, <2>1, <2>4
      <3>2. Cardinality(Adding(n)) # 0
        BY <1>5, <2>4, AddingFinite, FS_EmptySet
      <3>3. QED
        BY <1>0, <1>6, <2>2, <2>3, <3>1, <3>2 DEF Credit
    <2>5. CASE call[c].at # "add"
      <3>1. Cardinality(Adding(n)') = Cardinality(Adding(n)) /\ slips'[n] = slips[n] + 1
        BY <1>4, <1>5, <2>1, <2>5
      <3>2. QED
        BY <1>0, <1>6, <2>2, <2>3, <3>1 DEF Credit
    <2>6. QED
      BY <2>4, <2>5
  <1>9. QED
    BY <1>7, <1>8

LEMMA CreditBegin ==
    ASSUME Typed, NEW b \in Browsers, NEW c \in Calls, PairingVerify(b, c), call' # call,
           NEW n \in Ids, n = page[b].id, Credit(n)
    PROVE  Credit(n)'
  <1>0. call \in [Calls -> Call \cup {NoCall}] /\ enrolled[n] \in Nat /\ slips[n] \in Nat
    BY Counts
  <1>1. /\ Lives(n) /\ call[c] = NoCall
        /\ call' = [call EXCEPT ![c] = call'[c]] /\ call'[c].at = "add"
        /\ call'[c].id = n /\ call'[c] # NoCall
    BY <1>0 DEF PairingVerify, NoCall
  <1>2. c \notin Adding(n) /\ Adding(n)' = Adding(n) \cup {c} /\ Verifying(n)' # {}
    BY <1>0, <1>1 DEF Adding, Verifying
  <1>3. Cardinality(Adding(n)') = Cardinality(Adding(n)) + 1
    BY <1>2, AddingFinite, FS_AddElement
  <1>4. enrolled'[n] = enrolled[n] /\ slips'[n] = IF Verifying(n) = {} THEN slips[n] ELSE slips[n] + 1
    BY DEF PairingVerify, Typed, TypeOK
  <1>5. CASE Verifying(n) = {}
    <2>1. Adding(n) = {} /\ enrolled[n] <= slips[n]
      BY <1>1, <1>5 DEF Adding, Credit, Lives
    <2>2. Cardinality(Adding(n)') = 1
      BY <1>3, <2>1, FS_EmptySet
    <2>3. QED
      BY <1>0, <1>2, <1>4, <1>5, <2>1, <2>2 DEF Credit
  <1>6. CASE Verifying(n) # {}
    BY <1>0, <1>2, <1>3, <1>4, <1>6, AddingFinite DEF Credit
  <1>7. QED
    BY <1>5, <1>6

LEMMA CreditsStep ==
    ASSUME Typed, Offers, Credits, Next
    PROVE  Credits'
  <1> USE DEF server, browser, enrolment
  <1>0. /\ call \in [Calls -> Call \cup {NoCall}]
        /\ enrolled \in [Ids -> Nat] /\ slips \in [Ids -> 0..MaxSlips]
    BY DEF Typed, TypeOK
  <1> SUFFICES ASSUME NEW n \in Ids PROVE Credit(n)'
    BY DEF Credits
  <1>c. Credit(n)
    BY DEF Credits
  <1>u. ASSUME UNCHANGED <<call, enrolled, slips>> PROVE Credit(n)'
    BY <1>c, <1>u, CreditSame DEF Adding, Verifying
  <1>o. ASSUME NEW c \in Calls, call' = [call EXCEPT ![c] = call'[c]],
               call[c] # NoCall => call[c].id # n,
               call'[c] # NoCall => call'[c].id # n,
               enrolled'[n] = enrolled[n], slips'[n] = slips[n]
        PROVE  Credit(n)'
    <2>1. Adding(n)' = Adding(n) /\ Verifying(n)' = Verifying(n)
      BY <1>0, <1>o DEF Adding, Verifying
    <2>2. QED
      BY <1>c, <1>o, <2>1, CreditSame
  <1>h. ASSUME NEW b \in Browsers, Unheard(b), UNCHANGED <<enrolled, slips>>
        PROVE  Credit(n)'
    <2>1. \A c \in Calls : /\ call'[c] # NoCall <=> call[c] # NoCall
                           /\ call[c] # NoCall => call'[c].id = call[c].id /\ call'[c].at = call[c].at
      <3> SUFFICES ASSUME NEW c \in Calls
                   PROVE  /\ call'[c] # NoCall <=> call[c] # NoCall
                          /\ call[c] # NoCall =>
                                call'[c].id = call[c].id /\ call'[c].at = call[c].at
        OBVIOUS
      <3>1. CASE call'[c] = call[c]
        BY <3>1
      <3>2. CASE call'[c] # call[c]
        <4>1. call[c] \in Call /\ call'[c] = [call[c] EXCEPT !.heard = FALSE]
          BY <1>0, <1>h, <3>2, UnheardCalls
        <4>2. /\ call'[c] \in Call
              /\ call'[c].id = call[c].id /\ call'[c].at = call[c].at
          BY <4>1 DEF Call
        <4>3. QED
          BY <4>1, <4>2, NoCallIsNone
      <3>3. QED
        BY <3>1, <3>2
    <2>2. Adding(n)' = Adding(n) /\ Verifying(n)' = Verifying(n)
      BY <2>1 DEF Adding, Verifying
    <2>3. QED
      BY <1>c, <1>h, <2>2, CreditSame
  <1>1. ASSUME NEW b \in Browsers, SetUpStep(b) PROVE Credit(n)'
    BY <1>1, <1>u DEF SetUpStep, Create, PutVault, SaveVault, GetMe, DropStaleLocalVault
  <1>2. ASSUME NEW b \in Browsers, NEW c \in Calls, PairingVerify(b, c) PROVE Credit(n)'
    <2>1. CASE UNCHANGED <<call, slips>>
      BY <1>2, <2>1, <1>u DEF PairingVerify
    <2>2. CASE n = page[b].id /\ call' # call
      BY <1>2, <1>c, <2>2, CreditBegin
    <2>3. CASE n # page[b].id /\ ~UNCHANGED <<call, slips>>
      <3>1. /\ call' = [call EXCEPT ![c] = call'[c]] /\ call[c] = NoCall
            /\ call'[c].id = page[b].id
        BY <1>0, <1>2, <2>3 DEF PairingVerify
      <3>2. enrolled'[n] = enrolled[n] /\ slips'[n] = slips[n]
        BY <1>0, <1>2, <2>3 DEF PairingVerify
      <3>3. QED
        BY <2>3, <3>1, <3>2, <1>o
    <2>4. call' = call => slips' = slips
      <3>1. CASE /\ call[c] = NoCall /\ call'[c].at = "add"
        BY <3>1 DEF NoCall
      <3>2. QED
        BY <1>0, <1>2, <3>1 DEF PairingVerify
    <2>5. QED
      BY <2>1, <2>2, <2>3, <2>4
  <1>3. ASSUME NEW b \in Browsers, ShowStep(b) PROVE Credit(n)'
    BY <1>3, <1>2, <1>h, <1>u
    DEF ShowStep, MintCode, CreatePairing, Poll, Confirm, PairingOptions, GiveUp
  <1>4. ASSUME NEW c \in Calls, EnrolStep(c) PROVE Credit(n)'
    <2>1. call[c] \in Call /\ call[c] # NoCall
      BY <1>0, <1>4, NoCallIsNone DEF EnrolStep, AddDevice, SpendPairing, FailEnrol, NoCall
    <2>2. CASE call[c].id = n
      BY <1>4, <1>c, <2>2, CreditAdd, CreditOver DEF EnrolStep
    <2>3. CASE call[c].id # n
      <3>1. /\ call' = [call EXCEPT ![c] = call'[c]]
            /\ call'[c] # NoCall => call'[c].id # n
        BY <1>0, <1>4, <2>1, <2>3 DEF EnrolStep, AddDevice, SpendPairing, FailEnrol, Call
      <3>2. enrolled'[n] = enrolled[n] /\ slips'[n] = slips[n]
        BY <1>0, <1>4, <2>3 DEF EnrolStep, AddDevice, SpendPairing, FailEnrol
      <3>3. QED
        BY <2>3, <3>1, <3>2, <1>o
    <2>4. QED
      BY <2>2, <2>3
  <1>5. ASSUME NEW b \in Browsers, ScanStep(b) \/ RecoverStep(b) PROVE Credit(n)'
    BY <1>5, <1>u DEF ScanStep, Lookup, CheckWrap, SaveWrap, RecoverStep, OpenRecover,
                      RecoveryOptions, RecoveryVerify, Recover
  <1>6. ASSUME NEW b \in Browsers, SignStep(b) PROVE Credit(n)'
    BY <1>6, <1>h, <1>u DEF SignStep, SignIn, SignOut, Leave, LoseChallenge
  <1>7. ASSUME Elapses PROVE Credit(n)'
    BY <1>7, <1>u DEF Elapses, Expire, PruneExpired
  <1>8. QED
    BY <1>1, <1>3, <1>4, <1>5, <1>6, <1>7, Steps

\* An account that is not spoilt and has a vault keeps it.
LEMMA KeyKept ==
    ASSUME Typed, Opening, Next, NEW m \in Members \ spoilt', account[m].key # 0
    PROVE  account'[m] = account[m]
  <1>1. ASSUME NEW a \in Browsers, SetsUp(a, m) PROVE FALSE
    BY <1>1, SpoiltGrows DEF SetsUp, Opening, OneWriter
  <1>2. QED
    BY <1>1, AccountsMove DEF AccountMoves

LEMMA TrueKept ==
    ASSUME Typed, Opening, Next, NEW w \in Wrap, TrueWrap(w), w.key # 0, w.by \notin spoilt'
    PROVE  w.key = account'[w.by].key
  <1>1. w.by \in Members \ spoilt' /\ w # NoWrap /\ w.by \notin spoilt
    BY NoWrapIsNone, SpoiltGrows DEF Wrap
  <1>2. w.key = account[w.by].key
    BY <1>1 DEF TrueWrap
  <1>3. QED
    BY <1>1, <1>2, KeyKept

LEMMA OwningStep ==
    ASSUME Typed, RealKeys, Opening, Offers, AmongUsers, Owning, Next
    PROVE  Owning'
  <1>1. ASSUME NEW n \in Ids, pairing'[n].wrap # NoWrap, pairing'[n].wrap.by \notin spoilt'
        PROVE  pairing'[n].wrap.key = account'[pairing'[n].wrap.by].key
    <2>1. CASE pairing'[n].wrap = pairing[n].wrap
      <3>1. pairing[n].wrap \in Wrap /\ pairing[n].wrap.key # 0
        BY <1>1, <2>1 DEF Typed, TypeOK, RealKeys
      <3>2. TrueWrap(pairing[n].wrap)
        BY DEF Owning, WrapsTrue
      <3>3. QED
        BY <1>1, <2>1, <3>1, <3>2, TrueKept
    <2>2. ASSUME NEW a \in Browsers, Writes(a, n), pairing'[n].wrap = page[a].wrap
          PROVE  pairing'[n].wrap.key = account'[pairing'[n].wrap.by].key
      <3>1. page[a].wrap \in Wrap /\ page[a].wrap.key # 0 /\ TrueWrap(page[a].wrap)
        BY <2>2, RealWraps DEF Writes, Owning, WrapsTrue, Wrapping
      <3>2. QED
        BY <1>1, <2>2, <3>1, TrueKept
    <2>3. QED
      BY <1>1, <2>1, <2>2, RowsMove DEF RowMoves
  <1>2. ASSUME NEW b \in Browsers, page'[b].at \in Wrapping \cup Told,
               page'[b].wrap.by \notin spoilt'
        PROVE  page'[b].wrap.key = account'[page'[b].wrap.by].key
    <2>1. CASE page[b].at \in Wrapping \cup Told /\ page'[b].wrap = page[b].wrap
      <3>1. page[b].wrap \in Wrap /\ page[b].wrap.key # 0 /\ TrueWrap(page[b].wrap)
        BY <2>1, RealWraps DEF Owning, WrapsTrue
      <3>2. QED
        BY <1>2, <2>1, <3>1, TrueKept
    <2>2. CASE /\ page[b].at = "showing" /\ page'[b].wrap = pairing[page[b].id].wrap
               /\ page'[b].wrap # NoWrap /\ UNCHANGED <<account, pairing, spoilt>>
      <3>1. page[b].id \in Ids
        BY <2>2 DEF Typed, Holds, Receiving
      <3>2. TrueWrap(page'[b].wrap)
        BY <2>2, <3>1 DEF Owning, WrapsTrue
      <3>3. QED
        BY <1>2, <2>2, <3>2 DEF TrueWrap
    <2>3. CASE /\ page'[b].wrap = WrapOf(b)
               /\ session[b] \notin spoilt' => local[b].key = account[session[b]].key
               /\ UNCHANGED <<account, pairing>>
      BY <1>2, <2>3 DEF WrapOf
    <2>4. QED
      BY <1>2, <2>1, <2>2, <2>3, PageMoves DEF Moves, Idle, Told, Wrapping
  <1>3. ASSUME NEW b \in Browsers, NEW m \in Members \ spoilt', Users[b] = {m},
               local'[b] # NoVault
        PROVE  local'[b].key = account'[m].key
    <2>m. m \in Members /\ m \notin spoilt
      BY SpoiltGrows
    <2>1. CASE local'[b] = local[b]
      <3>1. local[b].key = account[m].key /\ local[b].key # 0
        BY <1>3, <2>1, <2>m DEF Owning, OwnTrue, RealKeys
      <3>2. QED
        BY <2>1, <3>1, KeyKept
    <2>2. CASE /\ page[b].at = "setup.write" /\ local'[b].key = page[b].wrap.key
               /\ account'[page[b].who].key = page[b].wrap.key
      BY <1>3, <2>2 DEF AmongUsers, Making
    <2>3. CASE /\ page[b].at = "numbers" /\ local'[b].key = page[b].wrap.key
               /\ UNCHANGED <<account, spoilt>>
      <3>1. page[b].wrap # NoWrap /\ TrueWrap(page[b].wrap)
        BY <2>3, RealWraps DEF Owning, WrapsTrue, Told
      <3>2. page[b].wrap.by = m
        BY <1>3, <2>3 DEF Offers, Pairs, Told
      <3>3. QED
        BY <2>3, <2>m, <3>1, <3>2 DEF TrueWrap
    <2>4. CASE /\ \E k \in Users[b] \cap Members : local'[b].key = account[k].key
               /\ UNCHANGED <<account, spoilt>>
      BY <1>3, <2>4
    <2>5. QED
      BY <1>3, <2>1, <2>2, <2>3, <2>4, LocalsMove DEF LocalMoves
  <1>4. QED
    BY <1>1, <1>2, <1>3 DEF Owning, WrapsTrue, OwnTrue, TrueWrap

LEMMA SoundInit == Init => Sound
  <1> SUFFICES ASSUME Init PROVE Sound
    OBVIOUS
  <1>1. Typed
    BY TypeInit
  <1>2. /\ \A b \in Browsers : /\ local[b] = NoVault /\ page[b] = Home
                               /\ session[b] = SignedIn[b] /\ cookie[b] = NoChallenge
        /\ \A n \in Ids : pairing[n] = Unused
        /\ \A m \in Members : words[m] = {}
    BY VaultsAssumption DEF Init
  <1>3. Unused.state = "unused" /\ Unused.wrap = NoWrap
    BY DEF Unused
  <1>4. \A b \in Browsers, m \in Members : <<b, m>> \in passkeys => m \in Users[b]
    BY VaultsAssumption DEF Init
  <1>5. RealKeys /\ Opening
    BY <1>2, <1>3, AtHome DEF RealKeys, Opening, NoWordsYet, OneWriter, WordsOpen
  <1>6. Rows /\ Pairs /\ Owning
    BY <1>2, <1>3, AtHome DEF Rows, Pairs, Owning, WrapsTrue, OwnTrue, TrueWrap,
                              Wrapping, Told, Receiving
  <1>c. \A c \in Calls : call[c] = NoCall
    BY DEF Init
  <1>7. AmongUsers /\ DigitsTrue /\ CallsTrue /\ Verified
    BY <1>2, <1>3, <1>4, <1>c, AtHome, VaultsAssumption
    DEF AmongUsers, DigitsTrue, CallsTrue, Verified, NoChallenge, Making, Recovering, Told
  <1>8. ASSUME NEW n \in Ids PROVE Credit(n)
    <2>1. Adding(n) = {} /\ enrolled[n] = 0 /\ slips[n] = 0
      BY <1>c DEF Init, Adding, Verifying
    <2>2. QED
      BY <2>1, AddingFinite DEF Credit
  <1>9. QED
    BY <1>1, <1>5, <1>6, <1>7, <1>8 DEF Sound, Offers, Credits

LEMMA SoundStep == Sound /\ [Next]_vars => Sound'
  <1> SUFFICES ASSUME Sound, [Next]_vars PROVE Sound'
    OBVIOUS
  <1>1. CASE Next
    BY <1>1, TypeStep, RealKeysStep, OpeningStep, OffersStep, AmongUsersStep, DigitsStep,
       CallsTrueStep, OwningStep, CreditsStep DEF Sound, Opening
  <1>2. CASE UNCHANGED vars
    <2>1. Typed' /\ RealKeys' /\ Opening' /\ Offers'
      BY <1>2 DEF vars, Sound, Typed, TypeOK, Holds, RealKeys, Opening, NoWordsYet, OneWriter,
                  WordsOpen, Offers, Rows, Pairs, Verified
    <2>2. AmongUsers' /\ DigitsTrue' /\ CallsTrue' /\ Owning'
      BY <1>2 DEF vars, Sound, AmongUsers, DigitsTrue, CallsTrue, Owning, WrapsTrue, OwnTrue,
                  TrueWrap
    <2>3. Credits'
      BY <1>2 DEF vars, Sound, Credits, Credit, Adding, Verifying
    <2>4. QED
      BY <2>1, <2>2, <2>3 DEF Sound
  <1>3. QED
    BY <1>1, <1>2

LEMMA Soundness == Spec => []Sound
  BY SoundInit, SoundStep, PTL DEF Spec

-----------------------------------------------------------------------------
(* What the runs check, for every value of the constants.                  *)

\* The types of the tables, of what each browser keeps and of its pages.
THEOREM TypeCorrect == Spec => []TypeOK
  <1>1. Sound => TypeOK
    BY DEF Sound, Typed
  <1>2. QED
    BY Soundness, <1>1, PTL

\* The words a set-up page has shown open the vault its member has, unless two
\* set-up pages of that member were both past putVault's check.
THEOREM WordsKept == Spec => []WordsOpen
  <1>1. Sound => WordsOpen
    BY DEF Sound, Opening
  <1>2. QED
    BY Soundness, <1>1, PTL

\* A browser that one member uses holds that member's key or none, in every
\* stage of every ceremony.
THEOREM OwnKeyHeld == Spec => []OwnKey
  <1>1. ASSUME Sound PROVE OwnKey
    <2>1. ASSUME NEW b \in Browsers, session[b] # Nobody, Users[b] = {session[b]},
                 local[b] # NoVault, session[b] \notin spoilt
          PROVE  local[b].key = account[session[b]].key
      <3>1. session[b] \in Members
        BY <1>1, <2>1 DEF Sound, Typed, TypeOK, Accounts
      <3>2. QED
        BY <1>1, <2>1, <3>1 DEF Sound, Owning, OwnTrue
    <2>2. QED
      BY <2>1 DEF OwnKey
  <1>2. QED
    BY Soundness, <1>1, PTL

\* A pairing enrols one device, and one more at most for each verify of it that
\* overlapped another or died between its two statements.
THEOREM PairingSpentOnce == Spec => []SpentOnce
  <1>1. ASSUME Sound PROVE SpentOnce
    <2>1. ASSUME NEW n \in Ids PROVE enrolled[n] <= 1 + slips[n]
      <3>1. enrolled[n] \in Nat /\ slips[n] \in Nat
        BY <1>1, Counts DEF Sound
      <3>2. enrolled[n] + Cardinality(Adding(n)) <= 1 + slips[n]
        BY <1>1 DEF Sound, Credits, Credit
      <3>3. QED
        BY <3>1, <3>2, AddingFinite
    <2>2. QED
      BY <2>1 DEF SpentOnce
  <1>2. QED
    BY Soundness, <1>1, PTL

\* Only addDeviceAndSession takes a call from its first statement to the second.
LEMMA OnlyAdd ==
    ASSUME Typed, Next, NEW c \in Calls, call[c].at = "add", call'[c].at = "spend"
    PROVE  AddDevice(c)
  <1> USE DEF server, browser, enrolment
  <1>0. call \in [Calls -> Call \cup {NoCall}]
    BY DEF Typed, TypeOK
  <1>u. ASSUME call'[c].at = call[c].at PROVE FALSE
    BY <1>u
  <1>h. ASSUME NEW b \in Browsers, Unheard(b) PROVE FALSE
    BY <1>0, <1>h, <1>u, UnheardCalls DEF Call
  <1>1. ASSUME NEW b \in Browsers, SetUpStep(b) PROVE FALSE
    BY <1>1, <1>u DEF SetUpStep, Create, PutVault, SaveVault, GetMe, DropStaleLocalVault
  <1>2. ASSUME NEW b \in Browsers, NEW k \in Calls, PairingVerify(b, k) PROVE FALSE
    BY <1>0, <1>2, <1>u DEF PairingVerify, NoCall
  <1>3. ASSUME NEW b \in Browsers, ShowStep(b) PROVE FALSE
    BY <1>3, <1>2, <1>h, <1>u
    DEF ShowStep, MintCode, CreatePairing, Poll, Confirm, PairingOptions, GiveUp
  <1>4. ASSUME NEW k \in Calls, EnrolStep(k) PROVE AddDevice(c)
    BY <1>0, <1>4, <1>u DEF EnrolStep, AddDevice, SpendPairing, FailEnrol, NoCall
  <1>5. ASSUME NEW b \in Browsers, ScanStep(b) \/ RecoverStep(b) PROVE FALSE
    BY <1>5, <1>u DEF ScanStep, Lookup, CheckWrap, SaveWrap, RecoverStep, OpenRecover,
                      RecoveryOptions, RecoveryVerify, Recover
  <1>6. ASSUME NEW b \in Browsers, SignStep(b) PROVE FALSE
    BY <1>6, <1>h, <1>u DEF SignStep, SignIn, SignOut, Leave, LoseChallenge
  <1>7. ASSUME Elapses PROVE FALSE
    BY <1>7, <1>u DEF Elapses, Expire, PruneExpired
  <1>8. QED
    BY <1>1, <1>3, <1>4, <1>5, <1>6, <1>7, Steps

\* A new browser is enrolled for the member whose digits it compared.
THEOREM EnrolledForTheirs == Spec => PairedAlike
  <1>1. ASSUME Sound, [Next]_vars, NEW c \in Calls, call[c].at = "add", call'[c].at = "spend",
               call[c].id \notin spoilt
        PROVE  passkeys' = passkeys \cup {<<call[c].by, call[c].saw>>}
    <2>1. Typed /\ Next /\ CallsTrue
      BY <1>1 DEF Sound, vars
    <2>2. AddDevice(c)
      BY <1>1, <2>1, OnlyAdd
    <2>3. call[c] \in Call /\ call[c] # NoCall
      BY <2>1, <2>2, MadeCall DEF AddDevice
    <2>4. call[c].id \in Ids \ spoilt
      BY <1>1, <2>3 DEF Call
    <2>5. call[c].who = call[c].saw
      BY <2>1, <2>3, <2>4 DEF CallsTrue
    <2>6. QED
      BY <2>2, <2>5 DEF AddDevice
  <1>2. Sound /\ [Next]_vars =>
          [\A c \in Calls :
             call[c].at = "add" /\ call'[c].at = "spend" /\ call[c].id \notin spoilt
             => passkeys' = passkeys \cup {<<call[c].by, call[c].saw>>}]_vars
    BY <1>1
  <1>3. QED
    BY Soundness, <1>2, PTL DEF PairedAlike, Spec
=============================================================================
