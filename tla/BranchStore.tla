---------------------------- MODULE BranchStore ----------------------------
(***************************************************************************)
(* World history on disk: content-addressed commit objects, and one        *)
(* directory per branch holding branch.json, head.json and, while a        *)
(* mutation runs, an exclusive lock file (src/world/store.ts), driven by   *)
(* the engine's commit and genesis (src/world/engine.ts) and by the        *)
(* runtime's fork (src/world/runtime.ts).                                  *)
(*                                                                         *)
(* A Worker is one operating-system process running one operation at a     *)
(* time; every await on the file system is a separate step, so the steps   *)
(* of different workers interleave freely.                                 *)
(*                                                                         *)
(* A commit id is the SHA-256 of an object that names its parent commit,   *)
(* so it determines the commit's whole history and nothing else does (no   *)
(* timestamp is hashed).  A commit is therefore modelled as that history:  *)
(* the sequence of its events, each a [branch, proposal] pair.  The empty  *)
(* sequence is "no head.json".  branch.json and head.json appear together  *)
(* (one rename of a staging directory), so a branch directory with no head *)
(* has no branch.json either: it is a bare directory.                      *)
(***************************************************************************)
EXTENDS Naturals, Sequences

CONSTANTS
  Worker,       \* processes that use the workspace
  Branch,       \* branch ids
  Proposal,     \* event contents a proposal can carry
  NoWorker,     \* "no lock file"
  NoBranch,     \* "no parent branch"
  MaxHistory    \* bound: commits in the longest history explored

ASSUME NullAssumption == NoWorker \notin Worker /\ NoBranch \notin Branch
ASSUME MaxHistoryAssumption == MaxHistory \in Nat

VARIABLES
  dirs,         \* branch ids whose directory exists under branches/
  head,         \* head.json of each branch, <<>> when there is none
  parent,       \* parentBranchId in each branch.json
  lock,         \* whose token is in each branch's lock file
  objects,      \* commit objects in objects/commits
  pc,           \* where each worker is in its operation
  job,          \* the local variables of that operation
  acked         \* history: commits of each branch reported as committed

vars == <<dirs, head, parent, lock, objects, pc, job, acked>>
disk == <<dirs, head, parent, lock>>

Event == [branch: Branch, proposal: Proposal]
NoCommit == <<>>
Commit == Seq(Event)

IsAncestor(c, d) == Len(c) <= Len(d) /\ c = SubSeq(d, 1, Len(c))
Readable(b) == head[b] # NoCommit
IsEmptyDir(b) == b \in dirs /\ ~Readable(b) /\ lock[b] = NoWorker

NoJob == [branch |-> NoBranch, parent |-> NoBranch, expected |-> NoCommit,
          next |-> NoCommit, unread |-> {}]

Goto(w, label) == pc' = [pc EXCEPT ![w] = label]
Finish(w) == Goto(w, "idle") /\ job' = [job EXCEPT ![w] = NoJob]

Init ==
  /\ dirs = {}
  /\ head = [b \in Branch |-> NoCommit]
  /\ parent = [b \in Branch |-> NoBranch]
  /\ lock = [b \in Branch |-> NoWorker]
  /\ objects = {}
  /\ pc = [w \in Worker |-> "idle"]
  /\ job = [w \in Worker |-> NoJob]
  /\ acked = [b \in Branch |-> {}]

-----------------------------------------------------------------------------
(* Creating a branch: genesis, fork, publication of the staged directory.  *)

\* WorldEngine.createBranch: put the genesis commit, then call create.
StartGenesis(w, b, e) ==
  LET genesis == <<[branch |-> b, proposal |-> e]>> IN
  /\ pc[w] = "idle"
  /\ objects' = objects \cup {genesis}
  /\ job' = [job EXCEPT ![w] = [NoJob EXCEPT !.branch = b, !.next = genesis]]
  /\ Goto(w, "staged")
  /\ UNCHANGED <<disk, acked>>

\* WorldRuntime.forkBranch: read the parent, check the fork point against
\* the head just read, then call create.  An unreadable parent throws.
StartFork(w, b, from, n) ==
  /\ pc[w] = "idle"
  /\ from # b
  /\ Readable(from)
  /\ n \in 1..Len(head[from])
  /\ job' = [job EXCEPT ![w] = [NoJob EXCEPT !.branch = b, !.parent = from,
                                             !.next = SubSeq(head[from], 1, n)]]
  /\ Goto(w, "staged")
  /\ UNCHANGED <<disk, objects, acked>>

\* Mutant: the staged directory replaces a branch that already exists.
PublishBranchOver(w) ==
  LET b == job[w].branch IN
  /\ pc[w] = "staged"
  /\ dirs' = dirs \cup {b}
  /\ head' = [head EXCEPT ![b] = job[w].next]
  /\ parent' = [parent EXCEPT ![b] = job[w].parent]
  /\ acked' = [acked EXCEPT ![b] = {job[w].next}]
  /\ Finish(w)
  /\ UNCHANGED <<lock, objects>>

\* rename(staging, directory): replaces nothing or an empty directory.
PublishBranch(w) ==
  LET b == job[w].branch IN
  /\ pc[w] = "staged"
  /\ b \notin dirs \/ IsEmptyDir(b)
  /\ dirs' = dirs \cup {b}
  /\ head' = [head EXCEPT ![b] = job[w].next]
  /\ parent' = [parent EXCEPT ![b] = job[w].parent]
  /\ acked' = [acked EXCEPT ![b] = {job[w].next}]
  /\ Finish(w)
  /\ UNCHANGED <<lock, objects>>

\* ENOTEMPTY: "Branch already exists"; the staging directory is removed.
BranchExists(w) ==
  LET b == job[w].branch IN
  /\ pc[w] = "staged"
  /\ b \in dirs /\ ~IsEmptyDir(b)
  /\ Finish(w)
  /\ UNCHANGED <<disk, objects, acked>>

-----------------------------------------------------------------------------
(* Committing an event (evaluateProposal), up to the branch lock.          *)

\* Read the branch and its head; the proposal is validated at that head.
ReadHead(w, b, e) ==
  /\ pc[w] = "idle"
  /\ Readable(b)
  /\ Len(head[b]) < MaxHistory
  /\ job' = [job EXCEPT ![w] =
               [NoJob EXCEPT !.branch = b, !.expected = head[b],
                  !.next = Append(head[b], [branch |-> b, proposal |-> e])]]
  /\ Goto(w, "accepted")
  /\ UNCHANGED <<disk, objects, acked>>

\* Mutant: the head is updated before the commit object is written.
PutCommitLate(w) ==
  /\ pc[w] = "accepted"
  /\ Goto(w, "update")
  /\ UNCHANGED <<disk, objects, job, acked>>

\* Every effect object, the event and the commit are written before updateHead.
PutCommit(w) ==
  /\ pc[w] = "accepted"
  /\ objects' = objects \cup {job[w].next}
  /\ Goto(w, "update")
  /\ UNCHANGED <<disk, job, acked>>

-----------------------------------------------------------------------------
(* Removing a branch: assertRemovable, up to the branch lock.              *)

\* Read the branch to be removed.
StartRemove(w, b) ==
  /\ pc[w] = "idle"
  /\ Readable(b)
  /\ job' = [job EXCEPT ![w] = [NoJob EXCEPT !.branch = b]]
  /\ Goto(w, "list")
  /\ UNCHANGED <<disk, objects, acked>>

ListBranches(w) ==
  /\ pc[w] = "list"
  /\ job' = [job EXCEPT ![w].unread = dirs \ {job[w].branch}]
  /\ Goto(w, "scan")
  /\ UNCHANGED <<disk, objects, acked>>

\* Read one listed branch that is not a child.
ScanBranch(w, c) ==
  /\ pc[w] = "scan"
  /\ c \in job[w].unread
  /\ Readable(c)
  /\ parent[c] # job[w].branch
  /\ job' = [job EXCEPT ![w].unread = @ \ {c}]
  /\ UNCHANGED <<disk, objects, pc, acked>>

\* A listed branch is a child, or cannot be read: the removal is refused.
ScanRefuses(w, c) ==
  /\ pc[w] = "scan"
  /\ c \in job[w].unread
  /\ ~Readable(c) \/ parent[c] = job[w].branch
  /\ Finish(w)
  /\ UNCHANGED <<disk, objects, acked>>

\* inspectLock: the removal goes on only when the branch has no lock file.
InspectLock(w) ==
  /\ pc[w] = "scan"
  /\ job[w].unread = {}
  /\ IF lock[job[w].branch] = NoWorker
       THEN Goto(w, "remove") /\ UNCHANGED job
       ELSE Finish(w)
  /\ UNCHANGED <<disk, objects, acked>>

-----------------------------------------------------------------------------
(* withLock, shared by updateHead and remove.  The label says which of the *)
(* two the worker runs: "update..." or "remove...".                        *)

\* mkdir(directory, recursive) makes a bare directory if the branch is gone.
MakeDirectory(w) ==
  /\ pc[w] \in {"update", "remove"}
  /\ dirs' = dirs \cup {job[w].branch}
  /\ Goto(w, IF pc[w] = "update" THEN "updateOpen" ELSE "removeOpen")
  /\ UNCHANGED <<head, parent, lock, objects, job, acked>>

\* Mutant: an existing lock file is taken over.
OpenLockStealing(w) ==
  LET b == job[w].branch IN
  /\ pc[w] \in {"updateOpen", "removeOpen"}
  /\ b \in dirs
  /\ lock' = [lock EXCEPT ![b] = w]
  /\ Goto(w, IF pc[w] = "updateOpen" THEN "updateLocked" ELSE "removeLocked")
  /\ UNCHANGED <<dirs, head, parent, objects, job, acked>>

\* open(lock, "wx") creates the lock file.
OpenLock(w) ==
  LET b == job[w].branch IN
  /\ pc[w] \in {"updateOpen", "removeOpen"}
  /\ b \in dirs /\ lock[b] = NoWorker
  /\ lock' = [lock EXCEPT ![b] = w]
  /\ Goto(w, IF pc[w] = "updateOpen" THEN "updateLocked" ELSE "removeLocked")
  /\ UNCHANGED <<dirs, head, parent, objects, job, acked>>

\* EEXIST, whether the holder is alive or stale, or ENOENT: never waits or steals.
LockRefused(w) ==
  LET b == job[w].branch IN
  /\ pc[w] \in {"updateOpen", "removeOpen"}
  /\ b \notin dirs \/ lock[b] # NoWorker
  /\ Finish(w)
  /\ UNCHANGED <<disk, objects, acked>>

\* Writing the token fails: acquireLock removes the lock file and throws.
LockWriteFails(w) ==
  /\ pc[w] \in {"updateLocked", "removeLocked"}
  /\ lock' = [lock EXCEPT ![job[w].branch] = NoWorker]
  /\ Finish(w)
  /\ UNCHANGED <<dirs, head, parent, objects, acked>>

\* Mutant: the head is overwritten without comparing it.
CompareHeadNever(w) ==
  /\ pc[w] = "updateLocked"
  /\ Goto(w, "updateWrite")
  /\ UNCHANGED <<disk, objects, job, acked>>

\* updateHead: compare the head on disk with the expected one.
CompareHead(w) ==
  /\ pc[w] = "updateLocked"
  /\ Goto(w, IF head[job[w].branch] = job[w].expected
               THEN "updateWrite" ELSE "release")
  /\ UNCHANGED <<disk, objects, job, acked>>

WriteHead(w) ==
  LET b == job[w].branch IN
  /\ pc[w] = "updateWrite"
  /\ head' = [head EXCEPT ![b] = job[w].next]
  /\ acked' = [acked EXCEPT ![b] = @ \cup {job[w].next}]
  /\ Goto(w, "release")
  /\ UNCHANGED <<dirs, parent, lock, objects, job>>

\* atomicWrite throws before the rename, or after it while syncing the
\* directory: the operation reports a failure, the head moved or not.
WriteHeadFails(w) ==
  LET b == job[w].branch IN
  /\ pc[w] = "updateWrite"
  /\ head' \in {head, [head EXCEPT ![b] = job[w].next]}
  /\ Goto(w, "release")
  /\ UNCHANGED <<dirs, parent, lock, objects, job, acked>>

\* rename(directory, tombstone) takes the lock file along.
RenameAway(w) ==
  LET b == job[w].branch IN
  /\ pc[w] = "removeLocked"
  /\ dirs' = dirs \ {b}
  /\ head' = [head EXCEPT ![b] = NoCommit]
  /\ parent' = [parent EXCEPT ![b] = NoBranch]
  /\ lock' = [lock EXCEPT ![b] = NoWorker]
  /\ acked' = [acked EXCEPT ![b] = {}]
  /\ Goto(w, "release")
  /\ UNCHANGED <<objects, job>>

\* Mutants: the lock is removed whoever holds it; the operation does not end.
ReadTokenNever(w) ==
  /\ pc[w] = "release"
  /\ Goto(w, "unlink")
  /\ UNCHANGED <<disk, objects, job, acked>>

\* releaseOwnedLock reads the token at the path ...
ReadToken(w) ==
  /\ pc[w] = "release"
  /\ IF lock[job[w].branch] = w
       THEN Goto(w, "unlink") /\ UNCHANGED job
       ELSE Finish(w)
  /\ UNCHANGED <<disk, objects, acked>>

\* ... and then removes whatever is at the path.
Unlink(w) ==
  /\ pc[w] = "unlink"
  /\ lock' = [lock EXCEPT ![job[w].branch] = NoWorker]
  /\ Finish(w)
  /\ UNCHANGED <<dirs, head, parent, objects, acked>>

-----------------------------------------------------------------------------
(* The process dies between any two steps; its lock file stays.            *)
Crash(w) ==
  /\ pc[w] \notin {"idle", "dead"}
  /\ Goto(w, "dead")
  /\ UNCHANGED <<disk, objects, job, acked>>

\* The host operator deletes a lock whose process has exited, as the
\* message of acquireLock asks.
OperatorUnlocks(b) ==
  /\ lock[b] # NoWorker
  /\ pc[lock[b]] = "dead"
  /\ lock' = [lock EXCEPT ![b] = NoWorker]
  /\ UNCHANGED <<dirs, head, parent, objects, pc, job, acked>>

\* A new process starts; its token differs from every earlier one, so a
\* name is used again only after the lock of its last use is gone.
Restart(w) ==
  /\ pc[w] = "dead"
  /\ \A b \in Branch : lock[b] # w
  /\ Finish(w)
  /\ UNCHANGED <<disk, objects, acked>>

Start(w) ==
  \/ \E b \in Branch, e \in Proposal : StartGenesis(w, b, e) \/ ReadHead(w, b, e)
  \/ \E b, from \in Branch, n \in 1..MaxHistory : StartFork(w, b, from, n)
  \/ \E b \in Branch : StartRemove(w, b)

Continue(w) ==
  \/ PublishBranch(w) \/ BranchExists(w)
  \/ PutCommit(w)
  \/ ListBranches(w) \/ InspectLock(w)
  \/ \E c \in Branch : ScanBranch(w, c) \/ ScanRefuses(w, c)
  \/ MakeDirectory(w) \/ OpenLock(w) \/ LockRefused(w) \/ LockWriteFails(w)
  \/ CompareHead(w) \/ WriteHead(w) \/ WriteHeadFails(w) \/ RenameAway(w)
  \/ ReadToken(w) \/ Unlink(w)

Next ==
  \/ \E w \in Worker : Start(w) \/ Continue(w) \/ Crash(w) \/ Restart(w)
  \/ \E b \in Branch : OperatorUnlocks(b)

Spec == Init /\ [][Next]_vars

-----------------------------------------------------------------------------
(* Properties.                                                             *)

Labels == {"idle", "staged", "accepted", "list", "scan", "update", "updateOpen",
           "updateLocked", "updateWrite", "remove", "removeOpen", "removeLocked",
           "release", "unlink", "dead"}

Job == [branch: Branch \cup {NoBranch}, parent: Branch \cup {NoBranch},
        expected: Commit, next: Commit, unread: SUBSET Branch]

\* The type of every variable.
TypeOK ==
  /\ dirs \in SUBSET Branch
  /\ head \in [Branch -> Commit]
  /\ parent \in [Branch -> Branch \cup {NoBranch}]
  /\ lock \in [Branch -> Worker \cup {NoWorker}]
  /\ objects \in SUBSET Commit
  /\ pc \in [Worker -> Labels]
  /\ job \in [Worker -> Job]
  /\ acked \in [Branch -> SUBSET Commit]
  /\ \A w \in Worker : pc[w] \notin {"idle", "dead"} => job[w].branch \in Branch

\* The labels between the creation of the lock file and its removal.
Critical == {"updateLocked", "updateWrite", "removeLocked", "unlink"}

\* Two processes are never both inside withLock on the same branch, whatever
\* directories are removed and made again around them, and the lock file of a
\* process inside it is the one on disk (store.ts withLock).
MutualExclusion ==
  \A w \in Worker : pc[w] \in Critical =>
    /\ job[w].branch \in dirs
    /\ lock[job[w].branch] = w
    /\ \A v \in Worker \ {w} :
         pc[v] \in Critical => job[v].branch # job[w].branch

\* A branch never points to history that is not stored: the head commit and
\* every ancestor of it have their object (objects are put before the head).
HistoryStored ==
  \A b \in Branch : \A n \in 1..Len(head[b]) : SubSeq(head[b], 1, n) \in objects

\* No lost update: as long as the branch exists, each commit that a worker
\* was told had been committed is an ancestor of its head (updateHead).
AcknowledgedKept ==
  \A b \in Branch : \A c \in acked[b] : IsAncestor(c, head[b])

\* A lock file disappears only through a step of the process whose token it
\* carries, or when that process is dead (releaseOwnedLock and the comment of
\* acquireLock: a lock is never stolen).
OnlyOwnerUnlocks ==
  [][\A b \in Branch : lock[b] # NoWorker /\ lock'[b] # lock[b] =>
       pc[lock[b]] = "dead" \/ pc'[lock[b]] # pc[lock[b]]]_vars

\* The branches on disk, seen through branch.json and head.json, are the
\* registers of BranchHistory: the head of a branch is only ever created,
\* moved to a stored child of itself, or removed whole.
History == INSTANCE BranchHistory WITH history <- head, stored <- objects
RefinesHistory == History!Spec

\* "Cannot remove instance while child instance still depends on it": a
\* branch whose parent was removed (fsck's MISSING_PARENT_BRANCH) cannot be.
NoOrphans == \A b \in dirs : parent[b] # NoBranch => parent[b] \in dirs
=============================================================================
