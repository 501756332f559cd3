------------------------------- MODULE CatFile ------------------------------
(***************************************************************************)
(* git0/cat-file.c: main reads the object named by argv[1], copies it to  *)
(* a fresh file made by mkstemp("temp_git_file_XXXXXX") in the current    *)
(* directory, and prints the file's name and the object's type, or "bad"  *)
(* when write() did not write the whole object.  Several invocations may  *)
(* run at once in the same directory.  read_sha1_file and get_sha1_hex    *)
(* are not in the repository; their results are choices.  An object is a *)
(* record of its type and size, a file's content the object it came from  *)
(* and how many of its bytes it holds.  unsigned long is W bits wide.     *)
(***************************************************************************)
EXTENDS Integers

CONSTANTS
    Runs,           \* invocations of cat-file
    Objects,        \* set of [type, size] objects the store may return
    TempNames,      \* the names mkstemp may pick
    W,              \* width of unsigned long and ssize_t
    MaxShortWrites  \* write() calls that write less than asked

NoObj  == [type |-> "none", size |-> 0]
NoFile == [obj |-> NoObj, len |-> -1]      \* no file of that name
EmptyFile == [obj |-> NoObj, len |-> 0]
NoName == "none"

VARIABLES
    tmp,        \* name -> the file's content, NoFile if there is no file
    pc,         \* per run: "idle", "read", "mkstemp", "write", "print", "exit"
    obj,        \* per run: what read_sha1_file returned
    name,       \* per run: the template after mkstemp
    type,       \* per run: the type string it will print
    printed,    \* per run: <<name, type>> it printed, or <<>>
    status,     \* per run: exit status, -1 while it has none
    shortWrites

vars == <<tmp, pc, obj, name, type, printed, status, shortWrites>>

-----------------------------------------------------------------------------
\* usage() and exit(1): the run ends with status 1 and prints nothing.
Exit1(r) ==
    /\ pc' = [pc EXCEPT ![r] = "exit"]
    /\ status' = [status EXCEPT ![r] = 1]

\* What write(fd, buf, size) may return: size, or while short writes
\* remain, any shorter count or -1.
WriteResults(size) ==
    IF shortWrites < MaxShortWrites THEN {size, -1} \cup 0 .. size - 1
    ELSE {size}

\* "write(fd, buf, size) != size": ret, an ssize_t, is converted to
\* unsigned long before the comparison.
WriteFailed(ret, size) == ret % 2^W # size

-----------------------------------------------------------------------------
Init ==
    /\ tmp = [n \in TempNames |-> NoFile]
    /\ pc = [r \in Runs |-> "idle"]
    /\ obj = [r \in Runs |-> NoObj]
    /\ name = [r \in Runs |-> NoName]
    /\ type = [r \in Runs |-> "none"]
    /\ printed = [r \in Runs |-> <<>>]
    /\ status = [r \in Runs |-> -1]
    /\ shortWrites = 0

\* Lines 12-13: argc != 2 or argv[1] not 40 hex digits -> usage().
Start(r) ==
    /\ pc[r] = "idle"
    /\ \/ pc' = [pc EXCEPT ![r] = "read"] /\ UNCHANGED status
       \/ Exit1(r)
    /\ UNCHANGED <<tmp, obj, name, type, printed, shortWrites>>

\* Lines 14-16: read_sha1_file; NULL -> exit(1).
Read(r) ==
    /\ pc[r] = "read"
    /\ \/ \E o \in Objects :
             /\ obj' = [obj EXCEPT ![r] = o]
             /\ type' = [type EXCEPT ![r] = o.type]
             /\ pc' = [pc EXCEPT ![r] = "mkstemp"]
             /\ UNCHANGED status
       \/ Exit1(r) /\ UNCHANGED <<obj, type>>
    /\ UNCHANGED <<tmp, name, printed, shortWrites>>

\* Mutant: a name is picked without O_EXCL, an existing file included.
MkstempNoExcl(r) ==
    /\ pc[r] = "mkstemp"
    /\ \E n \in TempNames :
          /\ tmp' = [tmp EXCEPT ![n] = EmptyFile]
          /\ name' = [name EXCEPT ![r] = n]
          /\ pc' = [pc EXCEPT ![r] = "write"]
    /\ UNCHANGED <<obj, type, printed, status, shortWrites>>

\* Lines 17-19: mkstemp creates a file under a name no file has (O_EXCL)
\* and truncates nothing; with no name left, fd < 0 and usage().
Mkstemp(r) ==
    /\ pc[r] = "mkstemp"
    /\ LET free == {n \in TempNames : tmp[n] = NoFile}
       IN  \/ \E n \in free :
                 /\ tmp' = [tmp EXCEPT ![n] = EmptyFile]
                 /\ name' = [name EXCEPT ![r] = n]
                 /\ pc' = [pc EXCEPT ![r] = "write"]
                 /\ UNCHANGED status
           \/ free = {} /\ Exit1(r) /\ UNCHANGED <<tmp, name>>
    /\ UNCHANGED <<obj, type, printed, shortWrites>>

\* Lines 20-21: write the object; a count other than size sets "bad".
Write(r) ==
    /\ pc[r] = "write"
    /\ \E ret \in WriteResults(obj[r].size) :
          /\ tmp' = [tmp EXCEPT ![name[r]] =
                       [obj |-> obj[r], len |-> IF ret < 0 THEN 0 ELSE ret]]
          /\ type' = [type EXCEPT ![r] =
                        IF WriteFailed(ret, obj[r].size) THEN "bad" ELSE @]
          /\ shortWrites' = IF ret = obj[r].size THEN shortWrites
                            ELSE shortWrites + 1
    /\ pc' = [pc EXCEPT ![r] = "print"]
    /\ UNCHANGED <<obj, name, printed, status>>

\* Line 22 and the end of main: print, then return 0.
PrintResult(r) ==
    /\ pc[r] = "print"
    /\ printed' = [printed EXCEPT ![r] = <<name[r], type[r]>>]
    /\ pc' = [pc EXCEPT ![r] = "exit"]
    /\ status' = [status EXCEPT ![r] = 0]
    /\ UNCHANGED <<tmp, obj, name, type, shortWrites>>

Next ==
    \E r \in Runs :
        Start(r) \/ Read(r) \/ Mkstemp(r) \/ Write(r) \/ PrintResult(r)

Spec == Init /\ [][Next]_vars

-----------------------------------------------------------------------------
(* Properties *)

TypeOK ==
    /\ pc \in [Runs -> {"idle", "read", "mkstemp", "write", "print", "exit"}]
    /\ obj \in [Runs -> Objects \cup {NoObj}]
    /\ name \in [Runs -> TempNames \cup {NoName}]
    /\ status \in [Runs -> {-1, 0, 1}]
    /\ shortWrites \in 0 .. MaxShortWrites

\* When cat-file prints an object's type (not "bad") beside a file name,
\* that file holds the whole object it read, even with other cat-file
\* runs creating and writing their own temporary files meanwhile.
PrintedFileHoldsObject ==
    \A r \in Runs :
        printed[r] # <<>> /\ printed[r][2] # "bad" =>
            tmp[printed[r][1]] = [obj |-> obj[r], len |-> obj[r].size]

====
