----------------------------- MODULE MCStores ------------------------------
(* Two starts, four calls more, and a clock of two ticks.                  *)
EXTENDS Stores

CONSTANTS m1, m2

AllUsers == {Admin, m1, m2}
Sizes12 == {1, 2}
Clock == 0 .. MaxClock + 2
=============================================================================
