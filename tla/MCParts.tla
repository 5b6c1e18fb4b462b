------------------------------ MODULE MCParts -------------------------------
(***************************************************************************)
(* Parts for TLC.                                                          *)
(*   limits   two members and an address, two tokens, three ticks to fill  *)
(*   files    one file of one, two or three chunks, two faults             *)
(*   shares   two tabs and two texts                                       *)
(*   updates  two tabs and three versions of the worker                    *)
(*   play     two tabs, a handler each, and a board of one note            *)
(*   signing  two tabs, two who join with one link, a member and the admin *)
(*   requests two calls at once of two members, one open ask at most       *)
(***************************************************************************)
EXTENDS Parts, TLC

\* Files that shrink and files that do not, of one part or of several.
SomeFiles == {<<"a">>, <<"a", "a", "a", "a">>, <<"a", "b", "a">>, <<"a", "b", "a", "b", "b">>}
OneEach == PlayTabs \X {1}
\* The calls have the names of the tabs and the askers those of the joiners: the
\* parts never meet, and two permutations are enough.
Alike == Permutations(PageTabs) \cup Permutations(Joiners)
=============================================================================
