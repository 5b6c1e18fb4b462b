------------------------------- MODULE Parts --------------------------------
(***************************************************************************)
(* The parts that share nothing with the rest of the system, side by side: *)
(* a behaviour picks one of them and the others stay where they begin.     *)
(***************************************************************************)
EXTENDS RateLimit, Files, Requests, Shares, Updates, Playground, Ceremonies

VARIABLE moving   \* the part that moves

partsVars ==
    <<moving, vars, fileVars, shareVars, updateVars, playVars, cerVars, askVars>>

\* The choices of an initial state are made by the part that moves.
PartsInit ==
    /\ moving \in {"limits", "files", "shares", "updates", "play", "signing", "requests"}
    /\ Init /\ FileInit /\ ShareInit /\ UpdateInit /\ PlayInit /\ CerInit /\ AskInit
    /\ moving # "limits" => watched.key = CHOOSE k \in Keys : TRUE
    /\ moving # "updates" => active = 0
    /\ moving # "signing" => keys = <<>>

PartsNext ==
    \/ moving = "limits" /\ Next
       /\ UNCHANGED <<moving, fileVars, shareVars, updateVars, playVars, cerVars, askVars>>
    \/ moving = "files" /\ FileNext
       /\ UNCHANGED <<moving, vars, shareVars, updateVars, playVars, cerVars, askVars>>
    \/ moving = "shares" /\ ShareNext
       /\ UNCHANGED <<moving, vars, fileVars, updateVars, playVars, cerVars, askVars>>
    \/ moving = "updates" /\ UpdateNext
       /\ UNCHANGED <<moving, vars, fileVars, shareVars, playVars, cerVars, askVars>>
    \/ moving = "play" /\ PlayNext
       /\ UNCHANGED <<moving, vars, fileVars, shareVars, updateVars, cerVars, askVars>>
    \/ moving = "requests" /\ AskNext
       /\ UNCHANGED <<moving, vars, fileVars, shareVars, updateVars, playVars, cerVars>>
    \/ moving = "signing" /\ CerNext
       /\ UNCHANGED <<moving, vars, fileVars, shareVars, updateVars, playVars, askVars>>

PartsSpec == PartsInit /\ [][PartsNext]_partsVars

\* Type correctness of every part: what each handler holds between two awaits
\* fits the place it waits at, and open asks pass their cap by calls under way
\* at most.
PartsOK ==
    TypeOK /\ FilesOK /\ SharesOK /\ UpdatesOK /\ PlayOK /\ CeremoniesOK /\ AsksOK
=============================================================================
