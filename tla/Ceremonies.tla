----------------------------- MODULE Ceremonies -----------------------------
(***************************************************************************)
(* Signing up and signing in from a browser with several tabs.  A page     *)
(* asks for options, has the authenticator sign their challenge, and posts *)
(* the credential; the server keeps no ceremony: the challenge travels     *)
(* sealed in a cookie ("wn"), the session in another ("sid"), and all tabs *)
(* share the jar.  A request takes the cookies the jar holds when it is    *)
(* sent; those of its answer go in when it arrives, in whatever order      *)
(* answers arrive.                                                         *)
(*                                                                         *)
(* A request is answered when it is sent, for how the calls of two overlap *)
(* on the server is Membership's subject.  A challenge is named by its     *)
(* number, and so are the passkey made over it and the session a verify    *)
(* makes with it, for no challenge makes two of either.                    *)
(***************************************************************************)
EXTENDS Naturals, Sequences, FiniteSets

CONSTANTS
    PageTabs,
    Nobody,         \* no member, no link
    FirstAdmin,     \* the seeded admin
    Known,          \* a member with a passkey in this browser, signed out
    Joiners,        \* handles that are signed up
    Links,          \* invites
    MaxChallenges,  \* bound: options that are answered with a challenge
    MaxMishaps      \* bound: requests lost or limited, and challenges that run out

ASSUME CeremoniesAssumption ==
    /\ MaxChallenges \in Nat /\ MaxMishaps \in Nat
    /\ Nobody \notin Joiners \cup {FirstAdmin, Known} \cup Links

VARIABLES
    jar,        \* the cookies
    page,       \* by tab
    net,        \* answers under way
    keys,       \* the passkeys of the authenticator: the handle each was made for
    sealed,     \* the challenges sealed so far
    over,       \* those that ran out
    devices,    \* by passkey: the member it belongs to
    redeemed,   \* invites
    sessions,   \* by token: the passkey of its device
    mishaps

cerVars == <<jar, page, net, keys, sealed, over, devices, redeemed, sessions, mishaps>>
members == <<devices, redeemed>>
server  == <<sealed, over, members, sessions>>

None == 0       \* no cookie, no challenge

\* What g has is added to f, where f has nothing.
One(x, y) == [z \in {x} |-> y]
Beside(f, g) ==
    [x \in DOMAIN f \cup DOMAIN g |-> IF x \in DOMAIN f THEN f[x] ELSE g[x]]

----------------------------------------------------------------------------
(* Cookies and sealed challenges.                                          *)

\* serializeCookie and expireCookie: what an answer asks the browser to keep.
Set(name, value) == One(name, value)
Expired(name) == One(name, None)
Kept(cookies) == Beside(cookies, jar)

Sealed(purpose, who, link) == [purpose |-> purpose, who |-> who, link |-> link]

\* openChallenge and requireChallenge
Opens(n, purpose) ==
    /\ n # None /\ n \notin over
    /\ sealed[n].purpose = purpose

\* What the signature of a credential has to be over.
AnyChallenge(signed, n) == TRUE
SignedOver(signed, n) == signed = n

----------------------------------------------------------------------------
(* The handlers.  Every one is given the tab that asks.                    *)

Closed == [at |-> "closed", kind |-> "closed", who |-> Nobody, link |-> Nobody, num |-> None]

\* json and errorResponse
Answer(t, what, code, cookies) ==
    [tab |-> t, what |-> what, code |-> code, cookies |-> cookies, about |-> Nobody]
Answers(t, what, code, cookies) == net' = net \cup {Answer(t, what, code, cookies)}
Waiting(t, what) == \E r \in net : r.tab = t /\ r.what = what

\* Refused before anything was written, by the service, or by requireAuthLimit,
\* which is to the page like a request that never came.
Refuses(t, what, code) ==
    /\ Answers(t, what, code, <<>>)
    /\ UNCHANGED <<server, mishaps>>
RequestFails(t, what) ==
    /\ mishaps < MaxMishaps /\ mishaps' = mishaps + 1
    /\ Answers(t, what, "request_failed", <<>>)
    /\ UNCHANGED server

\* getMe and AuthService.me: the token it was asked with is set again.
Me(t) ==
    IF jar.sid \in DOMAIN sessions
    THEN /\ Answers(t, "me", "ok", Set("sid", jar.sid))
         /\ UNCHANGED <<server, mishaps>>
    ELSE Refuses(t, "me", "unauthorized")

\* registerOptions and registerVerify, adminEnrollOptions and adminEnrollVerify:
\* what the one checks the other checks again.
MayEnrol(kind, who, link) ==
    CASE kind = "join" -> /\ link \notin redeemed
                          /\ \A p \in DOMAIN devices : devices[p] # who
      [] kind = "enroll" -> \A p \in DOMAIN devices : devices[p] # FirstAdmin
      [] kind = "login" -> TRUE

\* The challenge of the options is set as the cookie.
Options(t, kind, who, link) ==
    /\ Len(sealed) < MaxChallenges
    /\ \/ RequestFails(t, "options")
       \/ ~MayEnrol(kind, who, link) /\ Refuses(t, "options", "refused")
       \/ /\ MayEnrol(kind, who, link)
          /\ sealed' = Append(sealed, Sealed(kind, who, link))
          /\ Answers(t, "options", "ok", Set("wn", Len(sealed) + 1))
          /\ UNCHANGED <<over, members, sessions, mishaps>>

\* loginOptions: for nobody in particular, the passkey tells who it is.
LoginOptions(t) == Options(t, "login", Nobody, Nobody)

\* signedIn: the session is set, the challenge is spent.
SignsIn(t, token, key, who) ==
    /\ sessions' = Beside(sessions, One(token, key))
    /\ net' = net \cup
          {[Answer(t, "verify", "ok", Beside(Set("sid", token), Expired("wn")))
              EXCEPT !.about = who]}
    /\ UNCHANGED <<sealed, over, mishaps>>

\* registerVerify and adminEnrollVerify, on the challenge of the cookie.
VerifyRegistration(t, kind, key) ==
    LET n == jar.wn
    IN  IF ~Opens(n, kind) THEN Refuses(t, "verify", "invalid_challenge")
        ELSE IF ~SignedOver(key, n) THEN Refuses(t, "verify", "unverified")
        ELSE IF ~MayEnrol(kind, sealed[n].who, sealed[n].link)
        THEN Refuses(t, "verify", "refused")
        ELSE /\ devices' = Beside(devices, One(key, sealed[n].who))
             /\ redeemed' = redeemed \cup ({sealed[n].link} \ {Nobody})
             /\ SignsIn(t, n, key, sealed[n].who)

\* postLoginVerify: body.challenge ?? wn(request)
OfCookie(body) == jar.wn
ChallengeOf(body) == IF body # None THEN body ELSE jar.wn

\* deviceForAssertion: the server has the passkey of a device.
DeviceKnown(key) == key \in DOMAIN devices

\* loginVerify; a passkey the server does not know is "unverified" to the page
\* as well.
VerifyLogin(t, key, signed) ==
    LET n == ChallengeOf(signed)
    IN  IF ~Opens(n, "login") THEN Refuses(t, "verify", "invalid_challenge")
        ELSE IF ~DeviceKnown(key) THEN Refuses(t, "verify", "unknown")
        ELSE IF ~SignedOver(signed, n) THEN Refuses(t, "verify", "unverified")
        ELSE SignsIn(t, n, key, devices[key]) /\ UNCHANGED members

----------------------------------------------------------------------------
(* The pages.                                                              *)

Blank(was, at) == [Closed EXCEPT !.kind = was.kind, !.at = at]
GoesTo(t, at) == page' = [page EXCEPT ![t].at = at]

\* The page opens and asks who is signed in (hydrateBrowserSession).
Visit(t, kind) ==
    /\ page[t] = Closed
    /\ page' = [page EXCEPT ![t].at = "hydrate", ![t].kind = kind]
    /\ Me(t)
    /\ UNCHANGED <<jar, keys>>

\* The tab is closed or goes elsewhere, and hears no more answers.
Elsewhere(t) == {r \in net : r.tab # t}
LeavePage(t) ==
    /\ page[t] # Closed
    /\ page' = [page EXCEPT ![t] = Closed]
    /\ net' = Elsewhere(t)
    /\ UNCHANGED <<jar, keys, server, mishaps>>

\* onSubmit of the join form and of the form of the first admin.
Submit(t, who, link) ==
    /\ page[t].at = "form"
    /\ IF page[t].kind = "join" THEN who \in Joiners /\ link \in Links
       ELSE page[t].kind = "enroll" /\ who = FirstAdmin /\ link = Nobody
    /\ page' = [page EXCEPT ![t].at = "options", ![t].who = who, ![t].link = link]
    /\ Options(t, page[t].kind, who, link)
    /\ UNCHANGED <<jar, keys>>

\* The authenticator makes a passkey for the handle of the form, and the page
\* posts it.
Register(t) ==
    LET n == page[t].num
    IN  /\ page[t].at = "prompt"
        /\ keys' = Beside(keys, One(n, page[t].who))
        /\ GoesTo(t, "verify")
        /\ VerifyRegistration(t, page[t].kind, n) \/ RequestFails(t, "verify")
        /\ UNCHANGED jar

\* The prompt is dismissed.
DismissPrompt(t) ==
    /\ page[t].at = "prompt"
    /\ page' = [page EXCEPT ![t] = Blank(@, "form")]
    /\ UNCHANGED <<jar, net, keys, server, mishaps>>

\* loadChallenge of the login page, one at a time: ahead of the button, and
\* again after every verify.
LoadChallenge(t) ==
    /\ page[t].kind = "login" /\ page[t].at \in {"form", "wait"}
    /\ page[t].num = None /\ ~Waiting(t, "options")
    /\ LoginOptions(t)
    /\ UNCHANGED <<jar, page, keys>>

\* onLogin: a passkey of this browser signs the challenge that was loaded.
Login(t, key) ==
    LET n == page[t].num
    IN  /\ page[t].at = "form" /\ page[t].kind = "login" /\ n # None
        /\ page' = [page EXCEPT ![t].at = "verify", ![t].who = keys[key]]
        /\ VerifyLogin(t, key, n) \/ RequestFails(t, "verify")
        /\ UNCHANGED <<jar, keys>>

\* waitForSession: the login page asks until it is signed in, or gives up.
Probe(t) ==
    /\ page[t].at = "wait" /\ ~Waiting(t, "me")
    /\ Me(t)
    /\ UNCHANGED <<jar, page, keys>>

\* postLogout
Logout(t) ==
    /\ page[t].kind = "home" /\ page[t].at = "in"
    /\ GoesTo(t, "logout")
    /\ sessions' = [s \in DOMAIN sessions \ {jar.sid} |-> sessions[s]]
    /\ Answers(t, "logout", "ok", Beside(Expired("sid"), Expired("wn")))
    /\ UNCHANGED <<jar, keys, sealed, over, members, mishaps>>

\* What the page shows once it knows who is signed in: its form, or that there
\* is nothing to do here.
Shown(was, in) ==
    IF was.kind = "home" /\ ~in THEN Closed ELSE Blank(was, IF in THEN "in" ELSE "form")

\* What the page makes of an answer: a form that is refused can be filled in
\* again, and a page whose work is done goes elsewhere.
Then(was, r) ==
    LET ok == r.code = "ok"
        num == IF ok THEN r.cookies.wn ELSE None
    IN  CASE was.at = "hydrate" -> Shown(was, ok)
          [] r.what = "options" /\ was.kind = "login" -> [was EXCEPT !.num = num]
          [] r.what = "options" /\ was.kind # "login" ->
               IF ok THEN [was EXCEPT !.at = "prompt", !.num = num] ELSE Blank(was, "form")
          [] r.what = "verify" ->
               IF ok /\ was.kind # "login" THEN Closed
               ELSE Blank(was, IF ok THEN "wait" ELSE "form")
          [] r.what = "me" /\ was.at = "wait" -> IF ok THEN Closed ELSE was
          [] r.what = "logout" -> Closed

\* The tab that sent r hears this of it.
Hears(r, heard) ==
    LET next == Then(page[r.tab], heard)
    IN  /\ jar' = Kept(heard.cookies)
        /\ page' = [page EXCEPT ![r.tab] = next]
        /\ net' = (IF next = Closed THEN Elsewhere(r.tab) ELSE net) \ {r}
        /\ UNCHANGED <<keys, server>>

Arrive(r) == Hears(r, r) /\ UNCHANGED mishaps

\* The answer is lost: postJson and getJson give a status of 0.
Lose(r) ==
    /\ mishaps < MaxMishaps /\ mishaps' = mishaps + 1
    /\ r.code = "ok"
    /\ Hears(r, Answer(r.tab, r.what, "request_failed", <<>>))

\* Five minutes after it was sealed a challenge is over, and so is its cookie.
RunOut(n) ==
    /\ mishaps < MaxMishaps /\ mishaps' = mishaps + 1
    /\ over' = over \cup {n}
    /\ jar' = IF jar.wn = n THEN Kept(Expired("wn")) ELSE jar
    /\ UNCHANGED <<page, net, keys, sealed, members, sessions>>

\* The browser may have a passkey from earlier.
Earlier == MaxChallenges + 1

CerInit ==
    /\ jar = [name \in {"sid", "wn"} |-> None]
    /\ page = [t \in PageTabs |-> Closed]
    /\ keys \in {<<>>, One(Earlier, Known)}
    /\ devices = keys
    /\ net = {} /\ sealed = <<>> /\ over = {}
    /\ redeemed = {} /\ sessions = <<>> /\ mishaps = 0

CerNext ==
    \/ \E t \in PageTabs :
          \/ \E kind \in {"join", "enroll", "login", "home"} : Visit(t, kind)
          \/ LeavePage(t) \/ Register(t) \/ DismissPrompt(t) \/ LoadChallenge(t)
          \/ \E who \in Joiners \cup {FirstAdmin}, link \in Links \cup {Nobody} :
                Submit(t, who, link)
          \/ \E key \in DOMAIN keys : Login(t, key)
          \/ Probe(t) \/ Logout(t)
    \/ \E r \in net : Arrive(r) \/ Lose(r)
    \/ \E n \in DOMAIN sealed \ over : RunOut(n)

CerSpec == CerInit /\ [][CerNext]_cerVars

----------------------------------------------------------------------------

CeremoniesOK ==
    /\ jar \in [{"sid", "wn"} -> 0 .. MaxChallenges]
    /\ \A t \in PageTabs :
          /\ page[t].at \in {"closed", "hydrate", "form", "options", "prompt", "verify",
                             "wait", "in", "logout"}
          /\ page[t].at = "prompt" => page[t].num \in DOMAIN sealed
    /\ \A r \in net : r.tab \in PageTabs /\ page[r.tab] # Closed
    /\ DOMAIN devices \subseteq DOMAIN keys /\ over \subseteq DOMAIN sealed
    /\ \A s \in DOMAIN sessions : sessions[s] \in DOMAIN devices

\* A passkey belongs to the member whose handle the authenticator showed when
\* it was made, and an answer that signs a tab in signs it in as the member the
\* tab was filled in for or whose passkey it used: whatever ceremonies other
\* tabs ran between its options and its verify, over the same cookie.
EnrolledAsMeant ==
    /\ \A p \in DOMAIN devices : devices[p] = keys[p]
    /\ \A r \in net : r.what = "verify" /\ r.code = "ok" => r.about = page[r.tab].who

\* A sign-in with a passkey the server knows fails on the way or because its
\* challenge ran out, and never because another tab's ceremony replaced the
\* cookie: the page posts the challenge it signed.
LoginUndisturbed ==
    \A r \in net :
        /\ r.what = "verify" /\ page[r.tab].kind = "login"
        /\ r.code \in {"invalid_challenge", "unverified"}
        => page[r.tab].num \in over

=============================================================================
