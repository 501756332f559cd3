------------------------------- MODULE InitDb -------------------------------
(***************************************************************************)
(* git0/init-db.c: main creates .dircache, consults SHA1_FILE_DIRECTORY,   *)
(* then creates .dircache/objects and its 256 two-hex-digit                *)
(* subdirectories, each mkdir tolerating EEXIST and exiting on any other   *)
(* error.  Several invocations may run at once in the same directory, and *)
(* any may be killed between two system calls.  The file system holds     *)
(* directories only: a path is "none" or "dir".  The 256 subdirectories    *)
(* are scaled to NSub.                                                     *)
(***************************************************************************)
EXTENDS Integers, FiniteSets

CONSTANTS
    Runs,        \* invocations of init-db
    NSub,        \* number of object subdirectories (256 in the code)
    MaxFaults,   \* mkdir failures other than EEXIST (ENOSPC, EACCES, ...)
    MaxCrashes   \* invocations killed mid-way

ASSUME NSub \in 1 .. 4 /\ MaxFaults \in Nat /\ MaxCrashes \in Nat

\* sprintf(path+len, "/%02x", i): the name of subdirectory i.
SubName(n) == <<"00", "01", "02", "03">>[n + 1]

\* The paths main creates; "shared" is what SHA1_FILE_DIRECTORY names.
Subdirs == {SubName(n) : n \in 0 .. NSub - 1}
Paths == {"dircache", "objects", "shared"} \cup Subdirs
Parent(path) ==
    CASE path = "dircache" -> "cwd"
      [] path = "objects"  -> "dircache"
      [] path = "shared"   -> "cwd"
      [] OTHER             -> "objects"

VARIABLES
    fs,       \* path -> "none" | "dir"
    pc,       \* per run: "idle", "dircache", "env", "objects", "sub",
              \*          "exit", "killed"
    env,      \* per run: SHA1_FILE_DIRECTORY is "unset" or "shared"
    i,        \* per run: the loop index of the subdirectory loop
    status,   \* per run: exit status, -1 while it has none
    faults,
    crashes

vars == <<fs, pc, env, i, status, faults, crashes>>

-----------------------------------------------------------------------------
\* mkdir(path, 0700): the errno it sets, "OK" on success.  Besides EEXIST and
\* ENOENT it may fail with any other errno ("EOTHER") while faults remain.
MkdirResults(path) ==
    LET res == IF fs[path] = "dir" THEN "EEXIST"
               ELSE IF Parent(path) # "cwd" /\ fs[Parent(path)] # "dir"
                    THEN "ENOENT" ELSE "OK"
    IN  IF faults < MaxFaults THEN {res, "EOTHER"} ELSE {res}

\* The new file system after mkdir(path) returned res.
AfterMkdir(path, res) ==
    IF res = "OK" THEN [fs EXCEPT ![path] = "dir"] ELSE fs

\* Mutant: "return -1;" in place of exit(1): the shell sees status 255.
FailReturnMinusOne(r) ==
    /\ pc' = [pc EXCEPT ![r] = "exit"]
    /\ status' = [status EXCEPT ![r] = 255]

\* perror(); exit(1);
Fail(r) ==
    /\ pc' = [pc EXCEPT ![r] = "exit"]
    /\ status' = [status EXCEPT ![r] = 1]

\* Mutant: every error tolerated, the errno != EEXIST test dropped.
MkdirStepIgnoreErrors(r, path, res, tolerateExist, next) ==
    /\ fs' = AfterMkdir(path, res)
    /\ faults' = IF res = "EOTHER" THEN faults + 1 ELSE faults
    /\ IF res = "OK" \/ tolerateExist
          THEN /\ pc' = [pc EXCEPT ![r] = next]
               /\ UNCHANGED status
          ELSE Fail(r)

\* A mkdir whose failure exits (lines 9-13) or whose failure other than
\* EEXIST exits (lines 36-41, 46-51): r goes on to next, or fails.
MkdirStep(r, path, res, tolerateExist, next) ==
    /\ fs' = AfterMkdir(path, res)
    /\ faults' = IF res = "EOTHER" THEN faults + 1 ELSE faults
    /\ IF res = "OK" \/ (tolerateExist /\ res = "EEXIST")
          THEN /\ pc' = [pc EXCEPT ![r] = next]
               /\ UNCHANGED status
          ELSE Fail(r)

-----------------------------------------------------------------------------
Init ==
    /\ fs \in {f \in [Paths -> {"none", "dir"}] :
                 /\ \A p \in Paths \ {"shared"} : f[p] = "none"}
    /\ pc = [r \in Runs |-> "idle"]
    /\ env = [r \in Runs |-> "unset"]
    /\ i = [r \in Runs |-> 0]
    /\ status = [r \in Runs |-> -1]
    /\ faults = 0
    /\ crashes = 0

\* The shell starts init-db, with or without SHA1_FILE_DIRECTORY.
Start(r) ==
    /\ pc[r] = "idle"
    /\ \E e \in {"unset", "shared"} : env' = [env EXCEPT ![r] = e]
    /\ pc' = [pc EXCEPT ![r] = "dircache"]
    /\ UNCHANGED <<fs, i, status, faults, crashes>>

\* Lines 9-13: mkdir(".dircache"), exit(1) on any error, EEXIST included.
MkDircache(r) ==
    /\ pc[r] = "dircache"
    /\ \E res \in MkdirResults("dircache") :
          MkdirStep(r, "dircache", res, FALSE, "env")
    /\ UNCHANGED <<env, i, crashes>>

\* The test of line 25 as the code writes it: !stat(...) is 0 or 1, so
\* "!stat(...) < 0" is never true.
StatIsBelowZero(r) ==
    LET statRet == IF fs["shared"] = "dir" THEN 0 ELSE -1
    IN  (IF statRet = 0 THEN 1 ELSE 0) < 0

\* Lines 21-28: with SHA1_FILE_DIRECTORY set, return when it names a
\* directory; otherwise complain and fall through to the private store.
CheckEnv(r) ==
    /\ pc[r] = "env"
    /\ IF env[r] = "shared" /\ StatIsBelowZero(r) /\ fs["shared"] = "dir"
          THEN \E s \in {0, 1} :       \* "return;" from int main
                  /\ pc' = [pc EXCEPT ![r] = "exit"]
                  /\ status' = [status EXCEPT ![r] = s]
          ELSE /\ pc' = [pc EXCEPT ![r] = "objects"]
               /\ UNCHANGED status
    /\ UNCHANGED <<fs, env, i, faults, crashes>>

\* Lines 33-41: mkdir(".dircache/objects"), EEXIST tolerated.
MkObjects(r) ==
    /\ pc[r] = "objects"
    /\ \E res \in MkdirResults("objects") :
          MkdirStep(r, "objects", res, TRUE, "sub")
    /\ UNCHANGED <<env, i, crashes>>

\* Lines 44-52: one iteration of the loop, mkdir of subdirectory i.
MkSub(r) ==
    /\ pc[r] = "sub"
    /\ i[r] < NSub
    /\ \E res \in MkdirResults(SubName(i[r])) :
          /\ MkdirStep(r, SubName(i[r]), res, TRUE, "sub")
          /\ i' = [i EXCEPT ![r] = @ + 1]
    /\ UNCHANGED <<env, crashes>>

\* Line 53: the loop is done, return 0.
Finish(r) ==
    /\ pc[r] = "sub"
    /\ i[r] = NSub
    /\ pc' = [pc EXCEPT ![r] = "exit"]
    /\ status' = [status EXCEPT ![r] = 0]
    /\ UNCHANGED <<fs, env, i, faults, crashes>>

\* The run is killed between two system calls.
Kill(r) ==
    /\ pc[r] \in {"dircache", "env", "objects", "sub"}
    /\ crashes < MaxCrashes
    /\ pc' = [pc EXCEPT ![r] = "killed"]
    /\ crashes' = crashes + 1
    /\ UNCHANGED <<fs, env, i, status, faults>>

\* The steps of a started run; starting one is up to the shell.
Step(r) ==
    \/ MkDircache(r) \/ CheckEnv(r) \/ MkObjects(r) \/ MkSub(r) \/ Finish(r)

Next == \E r \in Runs : Start(r) \/ Step(r) \/ Kill(r)

Spec == Init /\ [][Next]_vars /\ \A r \in Runs : WF_vars(Step(r))

-----------------------------------------------------------------------------
(* Properties *)

TypeOK ==
    /\ fs \in [Paths -> {"none", "dir"}]
    /\ pc \in [Runs -> {"idle", "dircache", "env", "objects", "sub", "exit",
                        "killed"}]
    /\ env \in [Runs -> {"unset", "shared"}]
    /\ i \in [Runs -> 0 .. NSub]
    /\ status \in [Runs -> {-1, 0, 1}]
    /\ faults \in 0 .. MaxFaults /\ crashes \in 0 .. MaxCrashes

\* An init-db that exits 0 leaves .dircache/objects and every one of its
\* subdirectories in place, whatever mkdir failed on the way and whatever
\* other invocations, running at the same time or killed earlier, did.
StoreComplete ==
    fs["objects"] = "dir" /\ \A s \in Subdirs : fs[s] = "dir"
SuccessMeansStore ==
    \A r \in Runs : status[r] = 0 => StoreComplete

\* The comment at lines 15-19 and the test at line 25: with
\* SHA1_FILE_DIRECTORY naming an existing directory, init-db shares that
\* object store and does not go on to create a private one.
SharedDirectoryUsed ==
    \A r \in Runs :
        env[r] = "shared" /\ fs["shared"] = "dir" =>
            pc[r] \notin {"objects", "sub"}

====
