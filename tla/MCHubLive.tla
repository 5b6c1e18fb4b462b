----------------------------- MODULE MCHubLive -----------------------------
(* Two tabs on two devices and three sockets: one device can hold two.      *)
EXTENDS HubLive, TLC

CONSTANTS t1, t2, d1, d2

DeviceOfTab == (t1 :> d1) @@ (t2 :> d2)
Listeners   == (t1 :> {"page"}) @@ (t2 :> {"frame"})
=============================================================================
