------------------------------ MODULE MCFiles ------------------------------
(***************************************************************************)
(* The file downlink and the filesystem task, one at a time.  The downlink *)
(* reads files, and all it sees of the filesystem is that a read may fail, *)
(* so each is a behaviour of its own; the run explores their sum.          *)
(***************************************************************************)
EXTENDS MCFileDownlink, MCFileSystem

VARIABLE part    \* the task that runs

filesVars == <<part, vars, fsVars>>

\* The one that stands still has one beginning.
FilesInit ==
    /\ Init /\ FsInit
    /\ \/ part = "downlink" /\ ~logsDir
       \/ part = "filesystem" /\ file = "three"

\* A step of one of them, and the other stands still.
Downlink(step) == part = "downlink" /\ step /\ UNCHANGED <<part, fsVars>>
Filesystem(step) == part = "filesystem" /\ step /\ UNCHANGED <<part, vars>>

FilesNext == Downlink(Next) \/ Filesystem(FsNext)

\* The tasks are fair as FairSpec and FsFairSpec have it.
FilesSpec ==
    /\ FilesInit /\ [][FilesNext]_filesVars
    /\ WF_filesVars(Downlink(TaskStep)) /\ WF_filesVars(Downlink(Wait))
    /\ WF_filesVars(Filesystem(FsStep))
    /\ \A t \in Callers : WF_filesVars(Filesystem(CallStep(t)))

\* Where the filesystem task runs, it always comes back to its queue, unless it has
\* filled the queue itself (filesystem.c:455-590, log.c:74-132).
FilesystemReturns == part = "filesystem" => FsReturns
=============================================================================
