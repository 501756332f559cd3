-------------------------------- MODULE Git0 --------------------------------
(***************************************************************************)
(* The two git0 tools in one working directory: init-db invocations       *)
(* (InitDb) and cat-file invocations (CatFile) interleaved.  init-db's     *)
(* paths and cat-file's temp_git_file_XXXXXX names never coincide, so the  *)
(* two file-system variables stay apart; each tool's properties are       *)
(* checked under every interleaving with the other's steps.               *)
(***************************************************************************)
CONSTANTS
    InitRuns, NSub, MaxFaults, MaxCrashes,
    CatRuns, Objects, TempNames, W, MaxShortWrites

VARIABLES
    fs, idPc, env, i, idStatus, faults, crashes,
    tmp, cfPc, obj, name, type, printed, cfStatus, shortWrites

idVars == <<fs, idPc, env, i, idStatus, faults, crashes>>
cfVars == <<tmp, cfPc, obj, name, type, printed, cfStatus, shortWrites>>
vars == <<idVars, cfVars>>

ID == INSTANCE InitDb WITH Runs <- InitRuns, pc <- idPc, status <- idStatus
CF == INSTANCE CatFile WITH Runs <- CatRuns, pc <- cfPc, status <- cfStatus

Init == ID!Init /\ CF!Init

Next ==
    \/ ID!Next /\ UNCHANGED cfVars
    \/ CF!Next /\ UNCHANGED idVars

\* A started init-db keeps running (InitDb's fairness); cat-file has no
\* liveness property, and none is assumed of it.
Spec ==
    /\ Init /\ [][Next]_vars
    /\ \A r \in InitRuns : WF_vars(ID!Step(r) /\ UNCHANGED cfVars)

-----------------------------------------------------------------------------
(* Properties: those of InitDb and CatFile, stated there. *)

TypeOK == ID!TypeOK /\ CF!TypeOK

\* An init-db that exits 0 leaves the whole object store in place.
SuccessMeansStore == ID!SuccessMeansStore

\* A file cat-file printed with the object's type holds the whole object.
PrintedFileHoldsObject == CF!PrintedFileHoldsObject

====
