--------------------------- MODULE WorkspaceLock ---------------------------
(***************************************************************************)
(* The workspace-wide compiler lock (src/util/workspace-lock.ts): a lock   *)
(* directory with an owner.json inside, made by mkdir, removed by its      *)
(* owner, and archived by an explicit recovery command once its owner has  *)
(* exited.  Recoveries exclude each other with a kernel lock (flock).      *)
(*                                                                         *)
(* A Process stands for a process id.  Process ids are used again after a  *)
(* death, so an owner is a token: the process id and which of its runs it  *)
(* was.  The liveness test of the code sees the process id alone.          *)
(***************************************************************************)
EXTENDS Naturals

CONSTANTS
  Process,      \* process ids
  Host,         \* host, boot and pid-namespace identities
  HostOf,       \* the host on which each process id runs
  NoOwner,      \* "no owner.json, or one that cannot be parsed"
  NoProcess,    \* "nobody holds the recovery mutex"
  MaxRuns       \* bound: runs of one process id

ASSUME HostAssumption == HostOf \in [Process -> Host]
ASSUME RunsAssumption == MaxRuns \in Nat

Token == [process: Process, run: Nat]

ASSUME NullAssumption == NoOwner \notin Token /\ NoProcess \notin Process

VARIABLES
  present,      \* the lock directory exists
  owner,        \* its owner.json
  mutex,        \* the process whose child holds the flock of recovery
  archived,     \* owners of the lock directories moved to recovered/
  run,          \* which run of each process id is current or was the last
  pc,           \* where each process is
  expected      \* the owner token given to the recovery it runs

lockVars == <<present, owner, mutex, archived, run, pc, expected>>
lockDir == <<present, owner>>

Self(p) == [process |-> p, run |-> run[p]]
Goto(p, label) == pc' = [pc EXCEPT ![p] = label]

\* process.kill(pid, 0): true for any process that runs under this id.
processIsAlive(t) == pc[t.process] # "dead"

LockInit ==
  /\ present = FALSE /\ owner = NoOwner
  /\ mutex = NoProcess
  /\ archived = {}
  /\ run = [p \in Process |-> 0]
  /\ pc = [p \in Process |-> "idle"]
  /\ expected = [p \in Process |-> NoOwner]

-----------------------------------------------------------------------------
(* acquire                                                                 *)

\* Mutant: a lock whose owner's process id is dead is taken over in place.
MakeLockStealing(p) ==
  /\ pc[p] = "idle"
  /\ ~present \/ (owner # NoOwner /\ ~processIsAlive(owner))
  /\ present' = TRUE
  /\ owner' = NoOwner
  /\ Goto(p, "writing")
  /\ UNCHANGED <<mutex, archived, run, expected>>

\* mkdir(lockPath) succeeds for one process only.
MakeLock(p) ==
  /\ pc[p] = "idle"
  /\ ~present
  /\ present' = TRUE
  /\ Goto(p, "writing")
  /\ UNCHANGED <<owner, mutex, archived, run, expected>>

\* owner.json is written into the directory the process just made.
WriteOwner(p) ==
  /\ pc[p] = "writing"
  /\ owner' = Self(p)
  /\ Goto(p, "held")
  /\ UNCHANGED <<present, mutex, archived, run, expected>>

\* Writing owner.json fails: the error goes out, the directory stays.
WriteOwnerFails(p) ==
  /\ pc[p] = "writing"
  /\ Goto(p, "idle")
  /\ UNCHANGED <<lockDir, mutex, archived, run, expected>>

-----------------------------------------------------------------------------
(* release                                                                 *)

\* Read owner.json; a lock that is not this process's own is left alone.
ReleaseRead(p) ==
  /\ pc[p] = "held"
  /\ Goto(p, IF owner = Self(p) THEN "unlinkOwner" ELSE "idle")
  /\ UNCHANGED <<lockDir, mutex, archived, run, expected>>

\* rm -r removes the file first ...
UnlinkOwner(p) ==
  /\ pc[p] = "unlinkOwner"
  /\ owner' = NoOwner
  /\ Goto(p, "rmdir")
  /\ UNCHANGED <<present, mutex, archived, run, expected>>

\* ... and then the directory.
RemoveLock(p) ==
  /\ pc[p] = "rmdir"
  /\ present' = FALSE
  /\ Goto(p, "idle")
  /\ UNCHANGED <<owner, mutex, archived, run, expected>>

-----------------------------------------------------------------------------
(* recover                                                                 *)

\* The operator copies the token that inspect shows and starts recover.
StartRecover(p) ==
  /\ pc[p] = "idle"
  /\ owner # NoOwner
  /\ expected' = [expected EXCEPT ![p] = owner]
  /\ Goto(p, "flock")
  /\ UNCHANGED <<lockDir, mutex, archived, run>>

\* Mutant: recoveries do not exclude each other.
TakeMutexShared(p) ==
  /\ pc[p] = "flock"
  /\ mutex' = p
  /\ Goto(p, "check")
  /\ UNCHANGED <<lockDir, archived, run, expected>>

\* The flock child reports that it holds the mutex.
TakeMutex(p) ==
  /\ pc[p] = "flock"
  /\ mutex = NoProcess
  /\ mutex' = p
  /\ Goto(p, "check")
  /\ UNCHANGED <<lockDir, archived, run, expected>>

\* flock --wait 10 gives up.
MutexTimeout(p) ==
  /\ pc[p] = "flock"
  /\ mutex # NoProcess
  /\ expected' = [expected EXCEPT ![p] = NoOwner]
  /\ Goto(p, "idle")
  /\ UNCHANGED <<lockDir, mutex, archived, run>>

\* Mutants: the token, or the liveness of the owner, is not checked.
RecoverableByHost(p) ==
  /\ owner # NoOwner
  /\ HostOf[owner.process] = HostOf[p]
  /\ ~processIsAlive(owner)

\* The owner named by the operator, on this host, whose process has exited.
Recoverable(p) ==
  /\ owner = expected[p]
  /\ HostOf[owner.process] = HostOf[p]
  /\ ~processIsAlive(owner)

\* Every refusal ends the recovery and lets the mutex go.
Refuse(p) ==
  /\ mutex' = NoProcess
  /\ expected' = [expected EXCEPT ![p] = NoOwner]
  /\ Goto(p, "idle")
  /\ UNCHANGED <<lockDir, archived, run>>

\* First check, then the archive directory is made, then the same check again.
CheckOwner(p) ==
  /\ pc[p] \in {"check", "recheck"}
  /\ Recoverable(p)
  /\ Goto(p, IF pc[p] = "check" THEN "recheck" ELSE "rename")
  /\ UNCHANGED <<lockDir, mutex, archived, run, expected>>

CheckRefuses(p) ==
  /\ pc[p] \in {"check", "recheck"}
  /\ ~Recoverable(p)
  /\ Refuse(p)

\* Writing recovery.json or renaming fails.
ArchiveFails(p) ==
  /\ pc[p] = "rename"
  /\ Refuse(p)

\* recovery.json is written and the directory is renamed, whatever it holds.
ArchiveLock(p) ==
  /\ pc[p] = "rename"
  /\ present
  /\ present' = FALSE /\ owner' = NoOwner
  /\ archived' = archived \cup {owner}
  /\ mutex' = NoProcess
  /\ expected' = [expected EXCEPT ![p] = NoOwner]
  /\ Goto(p, "idle")
  /\ UNCHANGED run

-----------------------------------------------------------------------------
(* A process dies between any two steps; the kernel drops its flock.       *)
Crash(p) ==
  /\ pc[p] # "dead"
  /\ mutex' = IF mutex = p THEN NoProcess ELSE mutex
  /\ expected' = [expected EXCEPT ![p] = NoOwner]
  /\ Goto(p, "dead")
  /\ UNCHANGED <<lockDir, archived, run>>

\* The process id is given to a new process.
Reuse(p) ==
  /\ pc[p] = "dead"
  /\ run[p] < MaxRuns
  /\ run' = [run EXCEPT ![p] = @ + 1]
  /\ Goto(p, "idle")
  /\ UNCHANGED <<lockDir, mutex, archived, expected>>

Continue(p) ==
  \/ WriteOwner(p) \/ WriteOwnerFails(p)
  \/ ReleaseRead(p) \/ UnlinkOwner(p) \/ RemoveLock(p)
  \/ TakeMutex(p) \/ MutexTimeout(p)
  \/ CheckOwner(p) \/ CheckRefuses(p) \/ ArchiveFails(p) \/ ArchiveLock(p)

LockNext == \E p \in Process : MakeLock(p) \/ StartRecover(p) \/ Continue(p) \/ Crash(p) \/ Reuse(p)

LockSpec == LockInit /\ [][LockNext]_lockVars

-----------------------------------------------------------------------------
(* Properties.                                                             *)

Labels == {"idle", "writing", "held", "unlinkOwner", "rmdir", "flock", "check",
           "recheck", "rename", "dead"}

LockTypeOK ==
  /\ present \in BOOLEAN
  /\ owner \in Token \cup {NoOwner}
  /\ mutex \in Process \cup {NoProcess}
  /\ archived \in SUBSET Token
  /\ run \in [Process -> Nat]
  /\ pc \in [Process -> Labels]
  /\ expected \in [Process -> Token \cup {NoOwner}]

\* From the mkdir to the rmdir.
Holding == {"writing", "held", "unlinkOwner", "rmdir"}

\* Two processes never hold the compiler lock, in spite of recoveries that
\* run meanwhile and of process ids that are used again; and the holder's
\* directory is still there, with its own token once it is written.
MutualExclusion ==
  \A p \in Process : pc[p] \in Holding =>
    /\ present
    /\ \A q \in Process \ {p} : pc[q] \notin Holding
    /\ pc[p] \in {"held", "unlinkOwner"} => owner = Self(p)

\* "Rename is the sole transition": what recover archives is a lock whose
\* owner has died, never the lock of a process that waited and took it.
ArchivesDeadOwner ==
  [][\A t \in archived' \ archived :
       t # NoOwner /\ (pc[t.process] = "dead" \/ run[t.process] # t.run)]_lockVars
=============================================================================
