---------------------------- MODULE ProjectInit ----------------------------
(***************************************************************************)
(* initializeGraphProject of packages/cli/src/init.ts: several invocations *)
(* of "graphengineering init" on one target, each a sequence of filesystem *)
(* calls, beside a user who adds entries of his own to the same place.     *)
(*                                                                         *)
(* There are two directory paths, the parent and the target in it; above   *)
(* the parent there is always a directory.  A directory is its identity    *)
(* (device and inode): the actor that created it and the path.  Other is   *)
(* anything there that is not a directory; at the target it may be a       *)
(* symbolic link, which is refused with a code of its own.  A parent that  *)
(* is a link to a directory counts as that directory; one that leads       *)
(* nowhere is left out.  In the target there may be graph.json and other   *)
(* entries.  The user adds and never moves, replaces or removes.  Checks   *)
(* that look at the same thing twice are two steps wherever another actor  *)
(* can change it in between.                                               *)
(***************************************************************************)
EXTENDS Integers, Sequences, FiniteSets

CONSTANTS
    Processes,      \* invocations of init
    User,           \* everyone else who creates entries
    Starts,         \* what the two paths may hold at first
    MaxFaults,      \* how many filesystem calls fail
    Nothing, Other  \* no entry; an entry that is not a directory

Parent == "parent"
Target == "target"
Paths == {Parent, Target}

ASSUME InitAssumption ==
    /\ IsFiniteSet(Processes) /\ User \notin Processes
    /\ MaxFaults \in Nat
    /\ \A s \in Starts : s.parent \in {Nothing, Other, User} /\ s.target \in {Nothing, Other, User}
                         /\ (s.target # Nothing => s.parent = User)
                         /\ s.entries \in BOOLEAN /\ (s.entries => s.target = User)
    /\ Nothing # Other /\ {Nothing, Other} \cap (Processes \cup {User}) = {}
    /\ \A actor \in Processes \cup {User}, path \in Paths : <<actor, path>> \notin {Nothing, Other}

VARIABLES
    at,         \* what each path leads to
    file,       \* graph.json in the target
    foreign,    \* the target holds another entry
    stage,      \* the call each invocation makes next
    phase,      \* 1 in inspectTarget, 2 in requireEmptyStableDirectory
    dryRun,     \* its option
    before,     \* the identity its first lstat of the phase saw
    sawEntries, \* whether its readdir returned any
    missing,    \* the directories still to create
    created,    \* createdDirectories, with their identities
    directory,  \* directoryIdentity
    identified, \* fileIdentity is known
    result,     \* "none", "dry", "created" or the error code
    hit,        \* the invocations one of whose calls failed
    faults, acted

fs == <<at, file, foreign>>
vars == <<at, file, foreign, stage, phase, dryRun, before, sawEntries, missing, created, directory,
          identified, result, hit, faults, acted>>

Dir(actor, path) == <<actor, path>>
IsDir(object) == object \notin {Nothing, Other}
NoFile == [by |-> Nothing, content |-> "none"]
FileOf(actor, content) == [by |-> actor, content |-> content]

\* readdir of the target
HasEntries == foreign \/ file # NoFile

Object(actor, path) == IF actor = User THEN Dir(User, path) ELSE actor

Init ==
    /\ \E s \in Starts :
          /\ at = [p \in Paths |-> IF p = Parent THEN Object(s.parent, p) ELSE Object(s.target, p)]
          /\ foreign = s.entries
    /\ file = NoFile
    /\ stage = [p \in Processes |-> "lstat"]
    /\ phase = [p \in Processes |-> 1]
    /\ dryRun \in [Processes -> BOOLEAN]
    /\ before = [p \in Processes |-> Nothing]
    /\ sawEntries = [p \in Processes |-> FALSE]
    /\ missing = [p \in Processes |-> << >>]
    /\ created = [p \in Processes |-> << >>]
    /\ directory = [p \in Processes |-> Nothing]
    /\ identified = [p \in Processes |-> FALSE]
    /\ result = [p \in Processes |-> "none"]
    /\ hit = {} /\ faults = 0 /\ acted = FALSE

Go(p, s) == stage' = [stage EXCEPT ![p] = s] /\ UNCHANGED result

\* The invocation throws: its directories are cleaned up first.
Abort(p, code) ==
    /\ stage' = [stage EXCEPT ![p] = "cleanup"]
    /\ result' = [result EXCEPT ![p] = code]

Report(p, outcome) ==
    /\ stage' = [stage EXCEPT ![p] = "done"]
    /\ result' = [result EXCEPT ![p] = outcome]

\* What one step of an invocation leaves alone besides what it names.
Others == UNCHANGED <<dryRun, hit, faults, acted>>

-----------------------------------------------------------------------------
(* inspectTarget and requireEmptyStableDirectory.                          *)

Lstat(p) ==
    /\ stage[p] = "lstat"
    /\ \/ at[Target] = Nothing /\ at[Parent] # Other /\ phase[p] = 1 /\ Go(p, "ancestor")
       \/ /\ at[Target] = Nothing /\ at[Parent] = Other /\ phase[p] = 1  \* ENOTDIR
          /\ Abort(p, "GECLI_INIT_TARGET_ACCESS")
       \/ at[Target] = Nothing /\ phase[p] = 2 /\ Abort(p, "GECLI_INIT_TARGET_CHANGED")
       \/ /\ at[Target] = Other
          /\ \E code \in {"GECLI_INIT_TARGET_SYMLINK", "GECLI_INIT_TARGET_NOT_DIRECTORY"} : Abort(p, code)
       \/ IsDir(at[Target]) /\ Go(p, "readdir")
    /\ before' = [before EXCEPT ![p] = at[Target]]
    /\ UNCHANGED <<fs, phase, sawEntries, missing, created, directory, identified>> /\ Others

ReadEntries(p) ==
    /\ stage[p] = "readdir"
    /\ \/ IsDir(at[Target]) /\ Go(p, "recheck")
       \/ ~ IsDir(at[Target]) /\ Abort(p, "GECLI_INIT_TARGET_ACCESS")
    /\ sawEntries' = [sawEntries EXCEPT ![p] = HasEntries]
    /\ UNCHANGED <<fs, phase, before, missing, created, directory, identified>> /\ Others

\* An existing target goes straight on to the second inspection.
Recheck(p) ==
    /\ stage[p] = "recheck"
    /\ \/ at[Target] = Nothing /\ Abort(p, "GECLI_INIT_TARGET_ACCESS") /\ UNCHANGED <<phase, directory>>
       \/ /\ at[Target] \notin {Nothing, before[p]}
          /\ Abort(p, "GECLI_INIT_TARGET_CHANGED") /\ UNCHANGED <<phase, directory>>
       \/ /\ at[Target] = before[p] /\ sawEntries[p]
          /\ Abort(p, "GECLI_INIT_TARGET_NOT_EMPTY") /\ UNCHANGED <<phase, directory>>
       \/ /\ at[Target] = before[p] /\ ~ sawEntries[p] /\ phase[p] = 1
          /\ IF dryRun[p] THEN Report(p, "dry") ELSE Go(p, "lstat")
          /\ phase' = [phase EXCEPT ![p] = 2] /\ UNCHANGED directory
       \/ /\ at[Target] = before[p] /\ ~ sawEntries[p] /\ phase[p] = 2
          /\ Go(p, "open")
          /\ directory' = [directory EXCEPT ![p] = at[Target]] /\ UNCHANGED phase
    /\ UNCHANGED <<fs, before, sawEntries, missing, created, identified>> /\ Others

\* assertExistingAncestorIsDirectory
Ancestor(p) ==
    /\ stage[p] = "ancestor"
    /\ \/ at[Parent] = Other /\ Abort(p, "GECLI_INIT_PARENT_NOT_DIRECTORY")
       \/ at[Parent] # Other /\ dryRun[p] /\ Report(p, "dry")
       \/ at[Parent] # Other /\ ~ dryRun[p] /\ Go(p, "missing")
    /\ UNCHANGED <<fs, phase, before, sawEntries, missing, created, directory, identified>> /\ Others

-----------------------------------------------------------------------------
(* createTargetDirectories.                                                *)

SecondInspection(p) == Go(p, "lstat") /\ phase' = [phase EXCEPT ![p] = 2]

\* The walk from the target up to the first directory that exists.
FindTarget(p) ==
    /\ stage[p] = "missing"
    /\ \/ /\ at[Target] = Other /\ UNCHANGED phase
          /\ \E code \in {"GECLI_INIT_TARGET_SYMLINK", "GECLI_INIT_PARENT_NOT_DIRECTORY"} : Abort(p, code)
       \/ IsDir(at[Target]) /\ SecondInspection(p)
       \/ /\ at[Target] = Nothing /\ at[Parent] = Other  \* ENOTDIR
          /\ Abort(p, "GECLI_INIT_CREATE_DIRECTORY") /\ UNCHANGED phase
       \/ at[Target] = Nothing /\ at[Parent] # Other /\ Go(p, "missingParent") /\ UNCHANGED phase
    /\ UNCHANGED <<fs, before, sawEntries, missing, created, directory, identified>> /\ Others

FindParent(p) ==
    /\ stage[p] = "missingParent"
    /\ \/ at[Parent] = Other /\ Abort(p, "GECLI_INIT_PARENT_NOT_DIRECTORY") /\ UNCHANGED missing
       \/ /\ at[Parent] # Other
          /\ missing' = [missing EXCEPT ![p] =
                 IF IsDir(at[Parent]) THEN <<Target>> ELSE <<Parent, Target>>]
          /\ Go(p, "mkdir")
    /\ UNCHANGED <<fs, phase, before, sawEntries, created, directory, identified>> /\ Others

CanMake(path) == path = Target => IsDir(at[Parent])

Mkdir(p) ==
    /\ stage[p] = "mkdir" /\ missing[p] # << >>
    /\ LET path == Head(missing[p])
       IN  \/ /\ at[path] = Nothing /\ CanMake(path)
              /\ at' = [at EXCEPT ![path] = Dir(p, path)]
              /\ Go(p, "verify")
           \/ /\ at[path] = Nothing /\ ~ CanMake(path)
              /\ Abort(p, "GECLI_INIT_CREATE_DIRECTORY") /\ UNCHANGED at
           \/ at[path] # Nothing /\ Go(p, "raced") /\ UNCHANGED at
    /\ UNCHANGED <<file, foreign, phase, before, sawEntries, missing, created, directory, identified>>
    /\ Others

\* The lstat after a mkdir that succeeded: the directory is owned.  No other
\* actor of the model can have removed it.
Verify(p) ==
    LET path == Head(missing[p])
    IN  /\ stage[p] = "verify"
        /\ created' = [created EXCEPT ![p] = Append(@, <<path, at[path]>>)]
        /\ missing' = [missing EXCEPT ![p] = Tail(@)]
        /\ Go(p, "mkdir")
        /\ UNCHANGED <<fs, phase, before, sawEntries, directory, identified>> /\ Others

\* Mutation: a directory that another actor made first counts as created.
RacedOwned(p, path) == Append(created[p], <<path, at[path]>>)

\* mkdir found the path taken: what is there is not owned.
RacedCreated(p, path) == created[p]

Raced(p) ==
    LET path == Head(missing[p])
    IN  /\ stage[p] = "raced"
        /\ \/ /\ IsDir(at[path])
              /\ created' = [created EXCEPT ![p] = RacedCreated(p, path)]
              /\ missing' = [missing EXCEPT ![p] = Tail(@)]
              /\ Go(p, "mkdir")
           \/ /\ ~ IsDir(at[path])
              /\ Abort(p, "GECLI_INIT_CREATE_DIRECTORY")
              /\ UNCHANGED <<created, missing>>
        /\ UNCHANGED <<fs, phase, before, sawEntries, directory, identified>> /\ Others

AllMade(p) ==
    /\ stage[p] = "mkdir" /\ missing[p] = << >>
    /\ SecondInspection(p)
    /\ UNCHANGED <<fs, before, sawEntries, missing, created, directory, identified>> /\ Others

-----------------------------------------------------------------------------
(* createGraphFile.                                                        *)

\* Mutation: open without O_EXCL.
MayReplace == TRUE

\* O_EXCL
MayCreate == file = NoFile

Open(p) ==
    /\ stage[p] = "open"
    /\ \/ /\ ~ IsDir(at[Target])
          /\ Abort(p, "GECLI_INIT_CREATE_FILE") /\ UNCHANGED file
       \/ /\ IsDir(at[Target]) /\ ~ MayCreate
          /\ Abort(p, "GECLI_INIT_EXCLUSIVE_CREATE") /\ UNCHANGED file
       \/ /\ IsDir(at[Target]) /\ MayCreate
          /\ file' = FileOf(p, "empty") /\ Go(p, "stat")
    /\ UNCHANGED <<at, foreign, phase, before, sawEntries, missing, created, directory, identified>>
    /\ Others

StatFile(p) ==
    /\ stage[p] = "stat"
    /\ identified' = [identified EXCEPT ![p] = TRUE]
    /\ Go(p, "write")
    /\ UNCHANGED <<fs, phase, before, sawEntries, missing, created, directory>> /\ Others

\* writeFile, sync and close: while the file is being written nobody looks at
\* what it holds.
WriteFile(p) ==
    /\ stage[p] = "write"
    /\ file' = [file EXCEPT !.content = "whole"]
    /\ Go(p, "check")
    /\ UNCHANGED <<at, foreign, phase, before, sawEntries, missing, created, directory, identified>>
    /\ Others

\* The last look at directory and file.  With the file in it the directory
\* cannot go away, so the four calls see one state but for new entries, which
\* only readdir sees.
Check(p) ==
    /\ stage[p] = "check"
    /\ IF at[Target] = directory[p] /\ file.by = p /\ ~ foreign
       THEN Report(p, "created")
       ELSE /\ stage' = [stage EXCEPT ![p] = "unfile"]
            /\ result' = [result EXCEPT ![p] = "GECLI_INIT_TARGET_CHANGED"]
    /\ UNCHANGED <<fs, phase, before, sawEntries, missing, created, directory, identified>> /\ Others

\* cleanupOwnedFile: the identities, then the unlink.
CheckFile(p) ==
    /\ stage[p] = "unfile"
    /\ IF identified[p] /\ at[Target] = directory[p] /\ file.by = p
       THEN Go(p, "unlink") ELSE Go(p, "cleanup")
    /\ UNCHANGED <<fs, phase, before, sawEntries, missing, created, directory, identified>> /\ Others

Unlink(p) ==
    /\ stage[p] = "unlink"
    /\ file' = NoFile
    /\ Go(p, "cleanup")
    /\ UNCHANGED <<at, foreign, phase, before, sawEntries, missing, created, directory, identified>>
    /\ Others

-----------------------------------------------------------------------------
(* cleanupCreatedDirectories: the last created first.                      *)

LastOwned(p) == created[p][Len(created[p])]
Drop(p) == created' = [created EXCEPT ![p] = SubSeq(@, 1, Len(@) - 1)]

CheckDirectory(p) ==
    /\ stage[p] = "cleanup" /\ created[p] # << >>
    /\ IF at[LastOwned(p)[1]] = LastOwned(p)[2] THEN Go(p, "rmdir") /\ UNCHANGED created
       ELSE Go(p, "cleanup") /\ Drop(p)
    /\ UNCHANGED <<fs, phase, before, sawEntries, missing, directory, identified>> /\ Others

IsEmpty(path) == IF path = Target THEN ~ HasEntries ELSE at[Target] = Nothing

\* rmdir removes only an empty directory, and its failure is ignored.
Rmdir(p) ==
    /\ stage[p] = "rmdir"
    /\ at' = IF IsEmpty(LastOwned(p)[1]) THEN [at EXCEPT ![LastOwned(p)[1]] = Nothing] ELSE at
    /\ Drop(p)
    /\ Go(p, "cleanup")
    /\ UNCHANGED <<file, foreign, phase, before, sawEntries, missing, directory, identified>> /\ Others

Throw(p) ==
    /\ stage[p] = "cleanup" /\ created[p] = << >>
    /\ Go(p, "done")
    /\ UNCHANGED <<fs, phase, before, sawEntries, missing, created, directory, identified>> /\ Others

-----------------------------------------------------------------------------
(* Filesystem calls that fail, and the user.                               *)

FaultCode(p) ==
    CASE stage[p] \in {"readdir", "recheck", "ancestor"} \/ (stage[p] = "lstat" /\ phase[p] = 1) ->
           "GECLI_INIT_TARGET_ACCESS"
      [] stage[p] = "lstat" /\ phase[p] = 2 -> "GECLI_INIT_TARGET_CHANGED"
      [] stage[p] \in {"missing", "missingParent", "mkdir", "verify", "raced"} ->
           "GECLI_INIT_CREATE_DIRECTORY"
      [] stage[p] = "open" -> "GECLI_INIT_CREATE_FILE"
      [] OTHER -> "GECLI_INIT_WRITE_FILE"

\* Without a fileIdentity the new file is not cleaned up.
Fault(p) ==
    /\ faults < MaxFaults
    /\ faults' = faults + 1 /\ hit' = hit \cup {p}
    /\ \/ /\ stage[p] \notin {"write", "check", "unfile", "unlink", "cleanup", "rmdir", "done"}
          /\ stage[p] = "mkdir" => missing[p] # << >>
          /\ Abort(p, FaultCode(p)) /\ UNCHANGED <<file, created>>
       \/ /\ stage[p] \in {"write", "check"}
          /\ stage' = [stage EXCEPT ![p] = "unfile"]
          /\ result' = [result EXCEPT ![p] = FaultCode(p)]
          /\ \E left \in IF stage[p] = "write" THEN {"empty", "partial"} ELSE {file.content} :
                file' = [file EXCEPT !.content = left]
          /\ UNCHANGED created
       \/ stage[p] \in {"unfile", "unlink"} /\ Go(p, "cleanup") /\ UNCHANGED <<file, created>>
       \/ /\ stage[p] \in {"cleanup", "rmdir"} /\ created[p] # << >>
          /\ Go(p, "cleanup") /\ Drop(p) /\ UNCHANGED file
    /\ UNCHANGED <<at, foreign, phase, dryRun, before, sawEntries, missing, directory, identified, acted>>

UserMakes(path) ==
    /\ at[path] = Nothing /\ CanMake(path)
    /\ at' \in {[at EXCEPT ![path] = Dir(User, path)], [at EXCEPT ![path] = Other]}
    /\ UNCHANGED <<file, foreign>>

UserAdds ==
    /\ IsDir(at[Target])
    /\ \/ ~ foreign /\ foreign' = TRUE /\ UNCHANGED <<at, file>>
       \/ file = NoFile /\ file' = FileOf(User, "whole") /\ UNCHANGED <<at, foreign>>

UserActs ==
    /\ UserAdds \/ \E path \in Paths : UserMakes(path)
    /\ acted' = TRUE
    /\ UNCHANGED <<stage, phase, dryRun, before, sawEntries, missing, created, directory, identified,
                   result, hit, faults>>

Call(p) ==
    \/ Lstat(p) \/ ReadEntries(p) \/ Recheck(p) \/ Ancestor(p)
    \/ FindTarget(p) \/ FindParent(p) \/ Mkdir(p) \/ Verify(p) \/ Raced(p) \/ AllMade(p)
    \/ Open(p) \/ StatFile(p) \/ WriteFile(p) \/ Check(p)
    \/ CheckFile(p) \/ Unlink(p) \/ CheckDirectory(p) \/ Rmdir(p) \/ Throw(p)

AllDone == (\A p \in Processes : stage[p] = "done") /\ UNCHANGED vars

Next ==
    \/ \E p \in Processes : Call(p)
    \/ \E p \in Processes : Fault(p)
    \/ UserActs
    \/ AllDone

Spec == Init /\ [][Next]_vars

-----------------------------------------------------------------------------
(* Properties.                                                             *)

\* Init never touches what it did not make: a directory or a graph.json goes
\* away only by the call of the invocation that created it, and is never
\* changed by another actor.
OnlyOwnRemoved ==
    [][/\ \A path \in Paths : at[path] # Nothing /\ at'[path] # at[path] =>
             \E p \in Processes : at[path] = Dir(p, path) /\ stage[p] = "rmdir" /\ at'[path] = Nothing
       /\ file # NoFile /\ file' # file =>
             /\ file.by \in Processes
             /\ file'.by = file.by \/ (file' = NoFile /\ stage[file.by] = "unlink")]_vars

Failed(p) == stage[p] = "done" /\ result[p] \notin {"created", "dry"}
OnlyOne(p) == \A q \in Processes \ {p} : stage[q] = "lstat" /\ phase[q] = 1

\* An invocation that reports success has its own complete graph.json in the
\* directory it inspected, for good; a dry run leaves nothing behind.
SuccessTrue ==
    \A p \in Processes :
        /\ result[p] = "created" => file = FileOf(p, "whole") /\ at[Target] = directory[p]
        /\ result[p] = "dry" => file.by # p /\ \A path \in Paths : at[path] # Dir(p, path)

\* An invocation that fails and none of whose own calls broke takes its
\* graph.json with it, unless the target was exchanged under it, and its
\* directories unless they hold something or another invocation ran as well.
FailureClean ==
    \A p \in Processes : Failed(p) /\ p \notin hit =>
        /\ file.by = p => at[Target] # directory[p]
        /\ OnlyOne(p) => \A path \in Paths : at[path] = Dir(p, path) => ~ IsEmpty(path)

\* When nothing interferes one of the invocations that were not dry runs
\* creates the project: they never make each other fail.
OneWins ==
    (\A p \in Processes : stage[p] = "done") /\ faults = 0 /\ ~ acted =>
        \/ \A p \in Processes : dryRun[p]
        \/ \E p \in Processes : result[p] = "created"
        \/ foreign \/ Other \in {at[Parent], at[Target]}

InitSound == SuccessTrue /\ FailureClean /\ OneWins
=============================================================================
