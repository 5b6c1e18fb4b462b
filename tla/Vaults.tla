------------------------------- MODULE Vaults -------------------------------
(***************************************************************************)
(* A member's vault: how it is made in one browser (the set-up page and    *)
(* POST /api/vault), how a second browser gets its key (a pairing, with    *)
(* the pages /pair/show and /pair/scan), how the twelve words bring it     *)
(* back (/recover), and what a browser keeps of it in IndexedDB.           *)
(*                                                                         *)
(* Keys are numbers: a vault key, the words that open its recovery wrap    *)
(* and the identity key made with it carry the same number, so a wrap      *)
(* opens exactly when the numbers agree.  An ephemeral pairing key is      *)
(* named by the browser that made it and the account it was signed in to;  *)
(* with the pairing it determines the six digits both screens show.        *)
(***************************************************************************)
EXTENDS Naturals, FiniteSets

CONSTANTS
    Browsers, Members, Nobody,
    Users,        \* the members who use each browser
    SignedIn,     \* the account each browser is signed in to at first
    Tabs,         \* bound: the browsers with a second tab open
    Codes,        \* the pairing codes
    Calls,        \* bound: verifies of a pairing under way at once
    MaxPairings,  \* bound: pairings ever started
    MaxKeys,      \* bound: vault and identity keys ever made
    MaxSlips      \* bound: verifies of one pairing that overlap or die half way

ASSUME VaultsAssumption ==
    /\ Nobody \notin Members
    /\ Users \in [Browsers -> SUBSET Members]
    /\ SignedIn \in [Browsers -> Members \cup {Nobody}]
    /\ \A b \in Browsers : SignedIn[b] \in Users[b] \cup {Nobody}
    /\ Codes # {}
    /\ IsFiniteSet(Calls)
    /\ MaxPairings \in Nat /\ MaxKeys \in Nat /\ MaxSlips \in Nat

VARIABLES
    account,   \* users: the vault columns of each member
    pairing,   \* pairing_sessions
    local,     \* IndexedDB "vault" of each browser
    session,   \* the account of the browser's session cookie
    cookie,    \* the browser's challenge cookie
    passkeys,  \* devices: the browsers enrolled for each member
    page,      \* the ceremony the browser's page is in
    profile,   \* a GET /api/auth/me under way in another tab, and its answer
    words,     \* the phrases each member has written down, by key number
    made,      \* keys made so far
    spoilt,    \* rows two check-then-write calls were past their check of
    call,      \* pairingRegisterVerify: the calls under way
    enrolled,  \* devices enrolled from each pairing
    slips      \* verifies of it that overlapped another or died half way

vars == <<account, pairing, local, session, cookie, passkeys, page, profile,
          words, made, spoilt, call, enrolled, slips>>
server  == <<account, pairing>>
enrolment == <<call, enrolled, slips>>
browser == <<local, session, cookie>>

Ids     == 1..MaxPairings
Keys    == 0..MaxKeys
Vault   == [key : Keys, identity : Keys]
NoVault == [key |-> 0, identity |-> 0]
Accounts == Members \cup {Nobody}

Wrap   == [key : Keys, identity : Keys, from : Browsers, by : Members]
NoWrap == [key |-> 0]

\* The challenge cookie of an enrolment: for pairing id, or 0 after recovery.
NoChallenge == [id |-> 0, who |-> Nobody]

Stages == {"home", "setup", "setup.write", "mint", "showing", "numbers",
           "options", "prompt", "verify", "wrap", "wrap.write", "approved",
           "recover", "recover.options", "recover.prompt"}

Page == [at : Stages, id : 0..MaxPairings, who : Accounts, code : Codes,
         wrap : Wrap \cup {NoWrap}]
AnyCode == CHOOSE c \in Codes : TRUE
Home == [at |-> "home", id |-> 0, who |-> Nobody, code |-> AnyCode,
         wrap |-> NoWrap]
Go(b, stage) == page' = [page EXCEPT ![b].at = stage]

Unused == [state |-> "unused", code |-> AnyCode, by |-> Nobody,
           user |-> Nobody, wrap |-> NoWrap]

\* A verify of pairing id by a browser whose page compared the digits of saw's
\* wrap, with a challenge for who; heard while the page waits for its answer.
Call == [at : {"add", "spend"}, by : Browsers, id : Ids, who : Members,
         saw : Members, heard : BOOLEAN]
NoCall == [at |-> "idle"]

TypeOK ==
    /\ account \in [Members -> Vault]
    /\ pairing \in [Ids ->
          [state : {"unused", "live", "expired", "gone"}, code : Codes,
           by : Browsers \cup {Nobody}, user : Accounts,
           wrap : Wrap \cup {NoWrap}]]
    /\ local \in [Browsers -> Vault]
    /\ session \in [Browsers -> Accounts]
    /\ cookie \in [Browsers -> [id : 0..MaxPairings, who : Accounts]]
    /\ passkeys \subseteq Browsers \X Members
    /\ page \in [Browsers -> Page]
    /\ profile \in [Browsers -> {"none", "vault", "no vault"}]
    /\ words \in [Members -> SUBSET Keys]
    /\ made \in Keys
    /\ spoilt \subseteq Members \cup Ids
    /\ call \in [Calls -> Call \cup {NoCall}]
    /\ enrolled \in [Ids -> Nat]
    /\ slips \in [Ids -> 0..MaxSlips]

Init ==
    /\ account = [m \in Members |-> NoVault]
    /\ pairing = [n \in Ids |-> Unused]
    /\ local = [b \in Browsers |-> NoVault]
    /\ session = SignedIn
    /\ cookie = [b \in Browsers |-> NoChallenge]
    /\ passkeys = {<<b, SignedIn[b]>> : b \in {c \in Browsers : SignedIn[c] # Nobody}}
    /\ page = [b \in Browsers |-> Home]
    /\ profile = [b \in Browsers |-> "none"]
    /\ words = [m \in Members |-> {}]
    /\ made = 0
    /\ spoilt = {}
    /\ call = [c \in Calls |-> NoCall]
    /\ enrolled = [n \in Ids |-> 0]
    /\ slips = [n \in Ids |-> 0]

-----------------------------------------------------------------------------
(* The set-up page: a vault is made in the browser and put on the server.  *)

\* createVault and the identity made with it: new words open the new key.
NewVault(k, m, b) == [key |-> k, identity |-> k, from |-> b, by |-> m]

\* What the set-up page leaves in IndexedDB before it has an answer: nothing
\* (dropStaleLocalVault); a set-up that stores its keys first would keep them.
KeysStoredFirst(k) == [key |-> k, identity |-> k]
WhileUnanswered(k) == NoVault

\* onCreate with a profile that has no vault; bootstrapVault makes the keys
\* and posts them.
Create(b) ==
    /\ page[b].at = "home"
    /\ session[b] # Nobody /\ account[session[b]].key = 0
    /\ made < MaxKeys
    /\ made' = made + 1
    /\ local' = [local EXCEPT ![b] = WhileUnanswered(made')]
    /\ page' = [page EXCEPT ![b] =
          [Home EXCEPT !.at = "setup", !.who = session[b],
                       !.wrap = NewVault(made + 1, session[b], b)]]
    /\ UNCHANGED <<server, session, cookie, passkeys, profile, words, spoilt, enrolment>>

PutOver(m)  == TRUE
MayPut(m)   == account[m].key = 0

\* putVault: saveVault reads the row; a vault there is a conflict.
PutVault(b) ==
    /\ page[b].at = "setup"
    /\ page' = [page EXCEPT ![b] =
          IF MayPut(page[b].who) THEN [@ EXCEPT !.at = "setup.write"] ELSE Home]
    /\ UNCHANGED <<server, browser, passkeys, profile, words, made, spoilt, enrolment>>

\* saveVault's update.  The answer may be lost, and the page then shows no
\* words; otherwise the browser stores the keys and shows them once.
SaveVault(b) ==
    LET m == page[b].who
        v == [key |-> page[b].wrap.key, identity |-> page[b].wrap.identity]
    IN  /\ page[b].at = "setup.write"
        /\ account' = [account EXCEPT ![m] = v]
        /\ spoilt' = IF \E c \in Browsers \ {b} :
                            page[c].at = "setup.write" /\ page[c].who = m
                    THEN spoilt \cup {m} ELSE spoilt
        /\ \/ /\ local' = [local EXCEPT ![b] = v]
              /\ words' = [words EXCEPT ![m] = @ \cup {v.key}]
           \/ UNCHANGED <<local, words>>
        /\ page' = [page EXCEPT ![b] = Home]
        /\ UNCHANGED <<pairing, session, cookie, passkeys, profile, made, enrolment>>

\* hydrateBrowserSession in the other tab: it asks for the profile ...
GetMe(b) ==
    /\ b \in Tabs /\ profile[b] = "none" /\ session[b] # Nobody
    /\ profile' = [profile EXCEPT ![b] =
          IF account[session[b]].key = 0 THEN "no vault" ELSE "vault"]
    /\ UNCHANGED <<server, browser, passkeys, page, words, made, spoilt, enrolment>>

\* ... and drops a local vault when the answer says the server has none.
DropStaleLocalVault(b) ==
    /\ profile[b] # "none"
    /\ local' = [local EXCEPT ![b] = IF profile[b] = "vault" THEN @ ELSE NoVault]
    /\ profile' = [profile EXCEPT ![b] = "none"]
    /\ UNCHANGED <<server, session, cookie, passkeys, page, words, made, spoilt, enrolment>>

-----------------------------------------------------------------------------
(* The new browser: /pair/show.                                            *)

\* The rows there are: a code is held until its row is pruned or spent.
Held(n)  == pairing[n].state \in {"live", "expired"}

\* requireLivePairing.
OnceHeld(n) == pairing[n].state # "unused"
Lives(n)    == pairing[n].state = "live"

\* mintUnusedPairingCode finds a code no row holds ...
MintCode(b, c) ==
    /\ page[b].at = "home"
    /\ \A n \in Ids : Held(n) => pairing[n].code # c
    /\ page' = [page EXCEPT ![b] = [Home EXCEPT !.at = "mint", !.code = c]]
    /\ UNCHANGED <<server, browser, passkeys, profile, words, made, spoilt, enrolment>>

\* ... and createPairing inserts it; the column is unique, so a second
\* insert of the same code fails and the page is left without a code.
CreatePairing(b) ==
    /\ page[b].at = "mint"
    /\ IF \E n \in Ids : Held(n) /\ pairing[n].code = page[b].code
       THEN page' = [page EXCEPT ![b] = Home] /\ UNCHANGED pairing
       ELSE \E n \in Ids :
              /\ pairing[n].state = "unused"
              /\ \A o \in Ids : pairing[o].state = "unused" => n <= o
              /\ pairing' = [pairing EXCEPT ![n] =
                    [Unused EXCEPT !.state = "live", !.code = page[b].code, !.by = b]]
              /\ page' = [page EXCEPT ![b].at = "showing", ![b].id = n]
    /\ UNCHANGED <<account, browser, passkeys, profile, words, made, spoilt, enrolment>>

\* The 400 ms poll: getPairing answers while the row is live, and the page
\* shows the digits of the wrap it finds.
Poll(b) ==
    LET row == pairing[page[b].id]
    IN  /\ page[b].at = "showing"
        /\ Lives(page[b].id) /\ row.wrap # NoWrap
        /\ page' = [page EXCEPT ![b].at = "numbers", ![b].wrap = row.wrap]
        /\ UNCHANGED <<server, browser, passkeys, profile, words, made, spoilt, enrolment>>

\* unwrapPairing, with the private key of the browser that started the pairing:
\* the vault key that was wrapped for it and the identity sent along.
Unwrap(wrap) == [key |-> wrap.key, identity |-> wrap.identity]

\* "Numbers match": the member compares this screen with the approver's (once:
\* a second tap repeats a failed enrolment), and the page unwraps the key and
\* stores the vault before it enrols.
Confirm(b) ==
    LET w == page[b].wrap
    IN  /\ page[b].at = "numbers"
        /\ \/ page[w.from].at = "approved" /\ page[w.from].id = page[b].id
           \/ local[b].key = w.key
        /\ local' = [local EXCEPT ![b] = Unwrap(w)]
        /\ Go(b, "options")
        /\ UNCHANGED <<server, session, cookie, passkeys, profile, words, made, spoilt, enrolment>>

\* pairingRegisterOptions: a live row with a wrap, and its user's challenge.
PairingOptions(b) ==
    LET row == pairing[page[b].id]
    IN  /\ page[b].at = "options"
        /\ IF Lives(page[b].id) /\ row.wrap # NoWrap
           THEN /\ cookie' = [cookie EXCEPT ![b] = [id |-> page[b].id, who |-> row.user]]
                /\ Go(b, "prompt")
           ELSE Go(b, "numbers") /\ UNCHANGED cookie
        /\ UNCHANGED <<server, local, session, passkeys, profile, words, made, spoilt, enrolment>>

\* The sealed challenge of this ceremony is in the cookie.
Challenged(b, n) == cookie[b].who # Nobody /\ cookie[b].id = n

\* A verify of pairing n that is past its look at the row.
Verifying(n) == {c \in Calls : call[c] # NoCall /\ call[c].id = n}

\* pairingRegisterVerify: the challenge of this page, a row still live.  A
\* prompt that is dismissed, or a refusal, goes back to the digits.
PairingVerify(b, c) ==
    LET n == page[b].id
    IN  /\ page[b].at = "prompt" /\ call[c] = NoCall
        /\ \/ /\ Challenged(b, n) /\ Lives(n)
              /\ Verifying(n) # {} => slips[n] < MaxSlips
              /\ call' = [call EXCEPT ![c] =
                    [at |-> "add", by |-> b, id |-> n, who |-> cookie[b].who,
                     saw |-> page[b].wrap.by, heard |-> TRUE]]
              /\ slips' = [slips EXCEPT ![n] = IF Verifying(n) = {} THEN @ ELSE @ + 1]
              /\ Go(b, "verify")
           \/ Go(b, "numbers") /\ UNCHANGED <<call, slips>>
        /\ UNCHANGED <<server, browser, passkeys, profile, words, made, spoilt, enrolled>>

\* finishDeviceEnroll, addDeviceAndSession: the device row and its session.
AddDevice(c) ==
    /\ call[c].at = "add"
    /\ passkeys' = passkeys \cup {<<call[c].by, call[c].who>>}
    /\ enrolled' = [enrolled EXCEPT ![call[c].id] = @ + 1]
    /\ call' = [call EXCEPT ![c].at = "spend"]
    /\ UNCHANGED <<server, browser, page, profile, words, made, spoilt, slips>>

\* The page that made the call still waits for it; without an answer it goes
\* back to the digits.
Hears(c) == call[c].heard /\ page[call[c].by].at = "verify"
Unanswered(c) ==
    page' = IF Hears(c) THEN [page EXCEPT ![call[c].by].at = "numbers"] ELSE page

\* finishDeviceEnroll, deletePairing, in a statement of its own.  The answer
\* signs the browser in, or is lost.
SpendPairing(c) ==
    LET b == call[c].by
    IN  /\ call[c].at = "spend"
        /\ pairing' = [pairing EXCEPT ![call[c].id].state = "gone"]
        /\ \/ /\ Hears(c)
              /\ session' = [session EXCEPT ![b] = call[c].who]
              /\ cookie' = [cookie EXCEPT ![b] = NoChallenge]
              /\ page' = [page EXCEPT ![b] = Home]
           \/ Unanswered(c) /\ UNCHANGED <<session, cookie>>
        /\ call' = [call EXCEPT ![c] = NoCall]
        /\ UNCHANGED <<account, local, passkeys, profile, words, made, spoilt, enrolled, slips>>

\* Either statement fails, or the function dies before it: what was added stays.
FailEnrol(c) ==
    /\ call[c] # NoCall
    /\ IF call[c].at = "add" THEN UNCHANGED slips
       ELSE /\ slips[call[c].id] < MaxSlips
            /\ slips' = [slips EXCEPT ![call[c].id] = @ + 1]
    /\ Unanswered(c)
    /\ call' = [call EXCEPT ![c] = NoCall]
    /\ UNCHANGED <<server, browser, passkeys, profile, words, made, spoilt, enrolled>>

\* The calls of browser b run on without a page that waits for them.
Unheard(b) ==
    call' = [c \in Calls |-> IF call[c] # NoCall /\ call[c].by = b
                             THEN [call[c] EXCEPT !.heard = FALSE] ELSE call[c]]

\* The connection fails before the answer is there; the button is free again.
GiveUp(b) ==
    /\ page[b].at = "verify"
    /\ Go(b, "numbers")
    /\ Unheard(b)
    /\ UNCHANGED <<server, browser, passkeys, profile, words, made, spoilt, enrolled, slips>>

-----------------------------------------------------------------------------
(* The working browser: /pair/scan.                                        *)

\* wrapVaultForPairing: for the public key of one pairing.
WrapOf(a) == [key |-> local[a].key, identity |-> local[a].identity,
              from |-> a, by |-> session[a]]

\* A signed-in browser with keys reads the other's code or QR and wraps its
\* vault key for the new browser's public key.
Lookup(a, n) ==
    /\ page[a].at = "home"
    /\ session[a] # Nobody /\ local[a] # NoVault
    /\ Lives(n) /\ pairing[n].by # a
    /\ session[a] \in Users[pairing[n].by]
    /\ page' = [page EXCEPT ![a] =
          [Home EXCEPT !.at = "wrap", !.id = n,
                       !.wrap = WrapOf(a)]]
    /\ spoilt' = IF local[a].key = account[session[a]].key
                 THEN spoilt ELSE spoilt \cup {session[a]}
    /\ UNCHANGED <<server, browser, passkeys, profile, words, made, enrolment>>

WrappedOrNot(n) == TRUE
Unwrapped(n)  == pairing[n].wrap = NoWrap

\* postWrap and savePairingWrap's read: the row must be live and empty.
CheckWrap(a) ==
    /\ page[a].at = "wrap"
    /\ IF Lives(page[a].id) /\ Unwrapped(page[a].id)
       THEN Go(a, "wrap.write")
       ELSE page' = [page EXCEPT ![a] = Home]
    /\ UNCHANGED <<server, browser, passkeys, profile, words, made, spoilt, enrolment>>

\* savePairingWrap's update, which does not repeat the check.
SaveWrap(a) ==
    LET n == page[a].id
        w == page[a].wrap
    IN  /\ page[a].at = "wrap.write"
        /\ pairing' = [pairing EXCEPT ![n] =
              IF Held(n) THEN [@ EXCEPT !.wrap = w, !.user = w.by] ELSE @]
        /\ spoilt' = IF \E c \in Browsers \ {a} :
                            page[c].at = "wrap.write" /\ page[c].id = n
                    THEN spoilt \cup {n} ELSE spoilt
        /\ Go(a, "approved")
        /\ UNCHANGED <<account, browser, passkeys, profile, words, made, enrolment>>

-----------------------------------------------------------------------------
(* Recovery, sign-in and what time takes away.                             *)

\* The page refuses a browser that already holds a vault.
OpenRecover(b) ==
    /\ page[b].at = "home" /\ local[b] = NoVault
    /\ Go(b, "recover")
    /\ UNCHANGED <<server, browser, passkeys, profile, words, made, spoilt, enrolment>>

\* recover: the key derived from the phrase opens the recovery wrap, or nothing.
Opens(phrase, m) == account[m].key = phrase

\* recoveryVerifier: what the phrase hashes to is what the row holds.
Verifies(phrase, m) == account[m].key = phrase

\* getRecovery, and the phrase opens the wrap or fails its authentication;
\* the page stores the key with a fresh identity before it enrols.
Recover(b, m) ==
    /\ page[b].at = "recover"
    /\ m \in Users[b] /\ \E phrase \in words[m] : Opens(phrase, m)
    /\ made < MaxKeys
    /\ made' = made + 1
    /\ local' = [local EXCEPT ![b] = [key |-> account[m].key, identity |-> made + 1]]
    /\ page' = [page EXCEPT ![b] =
          [Home EXCEPT !.at = "recover.options", !.who = m,
                       !.wrap = [key |-> account[m].key, identity |-> made + 1,
                                 from |-> b, by |-> m]]]
    /\ UNCHANGED <<server, session, cookie, passkeys, profile, words, spoilt, enrolment>>

\* recoveryRegisterOptions compares the verifier of the phrase used.
RecoveryOptions(b) ==
    LET m == page[b].who
    IN  /\ page[b].at = "recover.options"
        /\ IF Verifies(page[b].wrap.key, m)
           THEN /\ cookie' = [cookie EXCEPT ![b] = [id |-> 0, who |-> m]]
                /\ Go(b, "recover.prompt")
           ELSE Go(b, "recover") /\ UNCHANGED cookie
        /\ UNCHANGED <<server, local, session, passkeys, profile, words, made, spoilt, enrolment>>

\* recoveryRegisterVerify looks at no row and adds the device in its one
\* statement; its answer signs the browser in, or is lost.
EnrolRecovered(b) ==
    /\ passkeys' = passkeys \cup {<<b, cookie[b].who>>}
    /\ \/ /\ session' = [session EXCEPT ![b] = cookie[b].who]
          /\ cookie' = [cookie EXCEPT ![b] = NoChallenge]
          /\ page' = [page EXCEPT ![b] = Home]
       \/ Go(b, "recover") /\ UNCHANGED <<session, cookie>>

\* A dismissed prompt or a refusal leaves the form.
RecoveryVerify(b) ==
    /\ page[b].at = "recover.prompt"
    /\ \/ Challenged(b, 0) /\ EnrolRecovered(b)
       \/ Go(b, "recover") /\ UNCHANGED <<passkeys, session, cookie>>
    /\ UNCHANGED <<server, local, profile, words, made, spoilt, enrolment>>

\* A passkey of this browser signs in; logging out keeps the vault.
SignIn(b, m) ==
    /\ page[b].at = "home" /\ session[b] = Nobody /\ <<b, m>> \in passkeys
    /\ session' = [session EXCEPT ![b] = m]
    /\ UNCHANGED <<server, local, cookie, passkeys, page, profile, words, made, spoilt, enrolment>>

SignOut(b) ==
    /\ page[b].at = "home" /\ session[b] # Nobody
    /\ session' = [session EXCEPT ![b] = Nobody]
    /\ cookie' = [cookie EXCEPT ![b] = NoChallenge]
    /\ UNCHANGED <<server, local, passkeys, page, profile, words, made, spoilt, enrolment>>

\* The page is closed or reloaded, or its request never arrives; what it held
\* in memory is gone.
Leave(b) ==
    /\ page[b].at \in {"setup", "showing", "numbers", "options", "prompt", "verify",
                       "approved", "recover", "recover.options", "recover.prompt"}
    /\ page' = [page EXCEPT ![b] = Home]
    /\ Unheard(b)
    /\ UNCHANGED <<server, browser, passkeys, profile, words, made, spoilt, enrolled, slips>>

\* The challenge expires, or another tab's ceremony replaces its cookie.
LoseChallenge(b) ==
    /\ cookie[b] # NoChallenge
    /\ cookie' = [cookie EXCEPT ![b] = NoChallenge]
    /\ UNCHANGED <<server, local, session, passkeys, page, profile, words, made, spoilt, enrolment>>

\* Five minutes after it started a pairing is over, and prune deletes it.
Expire(n) ==
    /\ Lives(n)
    /\ pairing' = [pairing EXCEPT ![n].state = "expired"]
    /\ UNCHANGED <<account, browser, passkeys, page, profile, words, made, spoilt, enrolment>>

PruneExpired ==
    /\ \E n \in Ids : pairing[n].state = "expired"
    /\ pairing' = [n \in Ids |-> IF pairing[n].state = "expired"
                                 THEN [pairing[n] EXCEPT !.state = "gone"] ELSE pairing[n]]
    /\ UNCHANGED <<account, browser, passkeys, page, profile, words, made, spoilt, enrolment>>

Next ==
    \/ \E b \in Browsers :
          \/ Create(b) \/ PutVault(b) \/ SaveVault(b)
          \/ GetMe(b) \/ DropStaleLocalVault(b)
          \/ \E c \in Codes : MintCode(b, c)
          \/ CreatePairing(b) \/ Poll(b) \/ Confirm(b)
          \/ PairingOptions(b) \/ GiveUp(b)
          \/ \E c \in Calls : PairingVerify(b, c)
          \/ \E n \in Ids : Lookup(b, n)
          \/ CheckWrap(b) \/ SaveWrap(b)
          \/ OpenRecover(b) \/ RecoveryOptions(b) \/ RecoveryVerify(b)
          \/ \E m \in Members : Recover(b, m) \/ SignIn(b, m)
          \/ SignOut(b) \/ Leave(b) \/ LoseChallenge(b)
    \/ \E c \in Calls : AddDevice(c) \/ SpendPairing(c) \/ FailEnrol(c)
    \/ \E n \in Ids : Expire(n)
    \/ PruneExpired

Spec == Init /\ [][Next]_vars

-----------------------------------------------------------------------------
(* Properties.                                                             *)

\* Every phrase a set-up page has shown opens the vault its member has now,
\* unless two set-up pages of that member were both past putVault's check
\* (drizzle-store.ts saveVault reads the row and then writes it).
WordsOpen ==
    \A m \in Members \ spoilt : \A k \in words[m] : account[m].key = k

\* A new browser is enrolled for the member whose browser made the wrap whose
\* digits its page compared, also when that page read the row before another
\* approval, has given up on the call or is gone: only two approvals past
\* savePairingWrap's check can part them.
PairedAlike ==
    [][\A c \in Calls :
         call[c].at = "add" /\ call'[c].at = "spend" /\ call[c].id \notin spoilt
         => passkeys' = passkeys \cup {<<call[c].by, call[c].saw>>}]_vars

\* A browser that one member uses holds the key of the account it is signed in
\* to, or no key, in every stage of set-up, pairing and recovery and whatever
\* failed on the way; excepted are a vault that two set-up pages wrote, and a
\* wrap that was made in a browser several members use while it held the key of
\* another.
OwnKey ==
    \A b \in Browsers :
        /\ session[b] # Nobody /\ Users[b] = {session[b]}
        /\ local[b] # NoVault /\ session[b] \notin spoilt
        => local[b].key = account[session[b]].key

\* A pairing enrols one device, however often its page gives up, retries or
\* loses an answer, and one more at most for each verify that looked at the row
\* while another was under way or died between adding its device and deleting
\* the row (pairingRegisterVerify looks, adds and deletes in three statements).
SpentOnce == \A n \in Ids : enrolled[n] <= 1 + slips[n]

=============================================================================
