------------------------------ MODULE Updates -------------------------------
(***************************************************************************)
(* A new version of the service worker, and the chip that offers to reload *)
(* the page for it (lib/pwa/sw-update.ts, serwist-provider.tsx).  Versions *)
(* count up; 0 is none.  The browser keeps one worker that installs, one   *)
(* that waits and one that is active; a worker skips the wait by itself    *)
(* and claims the pages, so that the wait is short.                        *)
(***************************************************************************)
EXTENDS Naturals, FiniteSets

CONSTANTS
    UpdateTabs,
    MaxVersion,  \* bound: versions deployed
    MaxLoads     \* bound: times a tab is loaded

ASSUME UpdatesAssumption == MaxVersion \in Nat \ {0} /\ MaxLoads \in Nat

VARIABLES
    deployed,
    installing, waiting, active,   \* versions, or 0
    tabs         \* by tab: see Loaded

updateVars == <<deployed, installing, waiting, active, tabs>>

\* The newest version that is installed; it becomes active before long.
Standing == IF waiting # 0 THEN waiting ELSE active

\* A page that was just opened.  took: it took the flag, so that it was loaded
\* by a tap on Reload; asked: the version the last tap of the tab was for.
Fresh ==
    [controller |-> active, watching |-> FALSE, had |-> FALSE, armed |-> FALSE,
     watched |-> {}, ready |-> FALSE, asked |-> 0, since |-> 0,
     reloading |-> FALSE, flag |-> FALSE, took |-> FALSE, loads |-> 0]

\* A page as it loads.  flag: SW_RELOAD_FLAG in the session of the tab.
Loaded(tab) ==
    [Fresh EXCEPT !.asked = tab.asked, !.flag = tab.flag, !.loads = tab.loads + 1]

\* shouldOfferSwUpdate: a first install must not nag.
Offered(tab) == tab.had

\* watchWorker: at the states it is offered in.
WatchWorker(tab, worker, state) ==
    [tab EXCEPT !.watched = @ \cup {worker},
                !.ready = @ \/ (state # "installing" /\ Offered(tab))]

\* A mutant of WatchFrom: the flag is not taken into account.
WatchAll(tab) ==
    LET armed == [tab EXCEPT !.armed = TRUE]
        one == IF waiting = 0 THEN armed ELSE WatchWorker(armed, waiting, "installed")
    IN  IF installing = 0 THEN one ELSE WatchWorker(one, installing, "installing")

\* watchSwUpdate: after a Reload the workers that are under way are ignored.
WatchFrom(tab) ==
    LET armed == [tab EXCEPT !.armed = ~tab.flag]
        one == IF waiting = 0 THEN armed ELSE WatchWorker(armed, waiting, "installed")
    IN  IF tab.flag THEN armed
        ELSE IF installing = 0 THEN one ELSE WatchWorker(one, installing, "installing")

\* onFound
Watches(tab, version) ==
    IF tab.watching THEN WatchWorker([tab EXCEPT !.armed = TRUE], version, "installing") ELSE tab

----------------------------------------------------------------------------

Deploy ==
    /\ deployed < MaxVersion /\ deployed' = deployed + 1
    /\ UNCHANGED <<installing, waiting, active, tabs>>

Load(t) ==
    /\ tabs[t].loads < MaxLoads
    /\ tabs' = [tabs EXCEPT ![t] = Loaded(@)]
    /\ UNCHANGED <<deployed, installing, waiting, active>>

\* The registration is there: PwaSerwist watches it, and takes the flag.
WatchSwUpdate(t) ==
    LET had == [tabs[t] EXCEPT !.watching = TRUE, !.had = tabs[t].controller # 0,
                               !.since = tabs[t].controller, !.took = tabs[t].flag]
    IN  /\ tabs[t].loads > 0 /\ ~tabs[t].watching
        /\ tabs' = [tabs EXCEPT ![t] = [WatchFrom(had) EXCEPT !.flag = FALSE]]
        /\ UNCHANGED <<deployed, installing, waiting, active>>

\* update() of a page that wakes, or register itself, finds a new version:
\* updatefound arms every page that watches.
Found ==
    /\ \E t \in UpdateTabs : tabs[t].loads > 0
    /\ installing = 0 /\ Standing < deployed
    /\ installing' = deployed
    /\ tabs' = [t \in UpdateTabs |-> Watches(tabs[t], deployed)]
    /\ UNCHANGED <<deployed, waiting, active>>

\* statechange to installed
Installed ==
    /\ installing # 0 /\ waiting = 0
    /\ waiting' = installing /\ installing' = 0
    /\ tabs' = [t \in UpdateTabs |->
                   [tabs[t] EXCEPT !.ready = @ \/ (tabs[t].watching /\ Offered(tabs[t])
                                                  /\ installing \in tabs[t].watched)]]
    /\ UNCHANGED <<deployed, active>>

\* The install fails: the worker is redundant, and update() finds the version
\* again.
InstallFails ==
    /\ installing # 0 /\ installing' = 0
    /\ UNCHANGED <<deployed, waiting, active, tabs>>

\* skipWaiting and clientsClaim: activated, and controllerchange in every page.
Activated ==
    /\ waiting # 0
    /\ active' = waiting /\ waiting' = 0
    /\ tabs' = [t \in UpdateTabs |->
                   IF tabs[t].loads = 0 THEN tabs[t]
                   ELSE [tabs[t] EXCEPT
                            !.controller = waiting,
                            !.ready = @ \/ (tabs[t].watching /\ Offered(tabs[t])
                                            /\ (tabs[t].armed \/ waiting \in tabs[t].watched))]]
    /\ UNCHANGED <<deployed, installing>>

\* The tap on Reload: reloadForSwUpdate asks the worker that waits.  The reload
\* itself comes with the controllerchange or 350 ms later, whichever is first,
\* and once: it may find the worker active or not.
Tap(t) ==
    /\ tabs[t].ready /\ ~tabs[t].reloading
    /\ tabs' = [tabs EXCEPT ![t].flag = TRUE, ![t].reloading = TRUE, ![t].asked = Standing]
    /\ UNCHANGED <<deployed, installing, waiting, active>>

\* A page out of the back-forward cache hides the chip.
Restore(t) ==
    /\ tabs[t].ready
    /\ tabs' = [tabs EXCEPT ![t].ready = FALSE]
    /\ UNCHANGED <<deployed, installing, waiting, active>>

UpdateInit ==
    /\ deployed = 1 /\ installing = 0 /\ waiting = 0 /\ active \in {0, 1}
    /\ tabs = [t \in UpdateTabs |-> Fresh]

UpdateNext ==
    \/ Deploy \/ Found \/ Installed \/ InstallFails \/ Activated
    \/ \E t \in UpdateTabs : Load(t) \/ WatchSwUpdate(t) \/ Tap(t) \/ Restore(t)

UpdateSpec == UpdateInit /\ [][UpdateNext]_updateVars

----------------------------------------------------------------------------

UpdatesOK ==
    /\ deployed \in 1 .. MaxVersion
    /\ {installing, waiting, active} \subseteq 0 .. deployed
    /\ \A t \in UpdateTabs :
           /\ tabs[t].watched \subseteq 1 .. deployed
           /\ {tabs[t].controller, tabs[t].asked, tabs[t].since} \subseteq 0 .. deployed
           /\ tabs[t].loads \in 0 .. MaxLoads

\* The chip is for an update that is installed: a page that no worker controlled
\* is not offered its first one.  And the page that a tap on Reload loads is not
\* offered again the worker that the tap was for, however late that one becomes
\* active and however often the tab was loaded in between: it shows the chip only
\* once it was told of a later version.  A page loaded after that one has no flag
\* to take, and is offered that worker again if it still waits.
OffersAreNew ==
    \A t \in UpdateTabs :
        tabs[t].ready =>
            /\ tabs[t].since # 0 /\ Standing > tabs[t].since
            /\ tabs[t].took /\ ~tabs[t].reloading =>
                   \E v \in tabs[t].watched : v > tabs[t].asked

=============================================================================
