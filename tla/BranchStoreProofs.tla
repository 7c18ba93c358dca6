------------------------- MODULE BranchStoreProofs -------------------------
(***************************************************************************)
(* Theorems about BranchStore for any number of processes, branches and    *)
(* commits.  IInv is the inductive invariant: the lock file on disk is     *)
(* that of the process inside withLock (LockInv), a process about to write *)
(* a head has compared it (JobInv), and heads point to stored objects      *)
(* whose ancestors are stored (StoreInv).                                  *)
(***************************************************************************)
EXTENDS BranchStore, SequenceTheorems, TLAPS

\* A directory that does not exist has no head and no lock; the lock file of
\* a process inside withLock is the one on disk.
LockInv ==
  /\ \A b \in Branch \ dirs : head[b] = NoCommit /\ lock[b] = NoWorker
  /\ \A w \in Worker : pc[w] \in Critical =>
       job[w].branch \in dirs /\ lock[job[w].branch] = w

Committing == {"accepted", "update", "updateOpen", "updateLocked", "updateWrite"}

\* The commit a worker carries is a child of the head it read, and that head
\* is still there when it writes.
JobInv ==
  \A w \in Worker :
    /\ pc[w] = "staged" => job[w].next \in objects
    /\ pc[w] \in Committing =>
         /\ job[w].expected \in objects
         /\ \E e \in Event : job[w].next = Append(job[w].expected, e)
    /\ pc[w] \in Committing \ {"accepted"} => job[w].next \in objects
    /\ pc[w] = "updateWrite" => head[job[w].branch] = job[w].expected

\* Objects are never empty and are stored after their parents.
StoreInv ==
  /\ NoCommit \notin objects
  /\ \A b \in Branch : head[b] # NoCommit => head[b] \in objects
  /\ \A c \in objects : \A n \in 1..Len(c) : SubSeq(c, 1, n) \in objects

IInv == TypeOK /\ LockInv /\ JobInv /\ StoreInv /\ AcknowledgedKept

-----------------------------------------------------------------------------
\* A prefix of a commit is a commit, and not the empty one.
LEMMA PrefixIsCommit ==
  ASSUME NEW c \in Commit, NEW n \in 1..Len(c)
  PROVE  /\ SubSeq(c, 1, n) \in Commit
         /\ SubSeq(c, 1, n) # NoCommit
         /\ Len(SubSeq(c, 1, n)) = n
<1>1. \A i \in 1..n : c[i] \in Event
  BY ElementOfSeq, LenProperties DEF Commit
<1>2. n \in Int /\ 1 \in Int /\ 1 <= n
  BY LenProperties DEF Commit
<1>3. /\ SubSeq(c, 1, n) \in Seq(Event)
      /\ Len(SubSeq(c, 1, n)) = n
  BY <1>1, <1>2, SubSeqProperties
<1> QED
  BY <1>2, <1>3, EmptySeq DEF Commit, NoCommit

\* The prefixes of a child are the prefixes of its parent and the child.
LEMMA PrefixOfChild ==
  ASSUME NEW c \in Commit, NEW e \in Event
  PROVE  /\ Append(c, e) \in Commit
         /\ Append(c, e) # NoCommit
         /\ Len(Append(c, e)) = Len(c) + 1
         /\ \A n \in 1..Len(c) : SubSeq(Append(c, e), 1, n) = SubSeq(c, 1, n)
         /\ SubSeq(Append(c, e), 1, Len(c) + 1) = Append(c, e)
<1> DEFINE d == Append(c, e)
<1>1. /\ d \in Seq(Event)
      /\ Len(d) = Len(c) + 1
      /\ \A i \in 1..Len(c) : d[i] = c[i]
      /\ Len(c) \in Nat
  BY LenProperties DEF Commit
<1>2. d # NoCommit
  BY <1>1, EmptySeq DEF NoCommit
<1>3. ASSUME NEW n \in 1..Len(c)
      PROVE  SubSeq(d, 1, n) = SubSeq(c, 1, n)
  <2>1. n \in Int /\ 1 \in Int /\ 1 <= n
    BY <1>1
  <2>2. /\ \A i \in 1..n : c[i] \in Event
        /\ \A i \in 1..n : d[i] \in Event
    BY <1>1, ElementOfSeq DEF Commit
  <2>3. /\ SubSeq(c, 1, n) \in Seq(Event)
        /\ Len(SubSeq(c, 1, n)) = n
        /\ \A i \in 1..n : SubSeq(c, 1, n)[i] = c[i]
    BY <2>1, <2>2, SubSeqProperties
  <2>4. /\ SubSeq(d, 1, n) \in Seq(Event)
        /\ Len(SubSeq(d, 1, n)) = n
        /\ \A i \in 1..n : SubSeq(d, 1, n)[i] = d[i]
    BY <2>1, <2>2, SubSeqProperties
  <2> QED
    BY <1>1, <2>3, <2>4, SeqEqual
<1>4. SubSeq(d, 1, Len(c) + 1) = d
  BY <1>1, SubSeqFull
<1> QED
  BY <1>1, <1>2, <1>3, <1>4 DEF Commit

\* A commit is its own ancestor and an ancestor of its children.
LEMMA AncestorOfChild ==
  ASSUME NEW c \in Commit, NEW h \in Commit, NEW e \in Event
  PROVE  /\ IsAncestor(h, h)
         /\ IsAncestor(c, h) => IsAncestor(c, Append(h, e))
         /\ IsAncestor(c, NoCommit) => c = NoCommit
<1>1. IsAncestor(h, h)
  BY SubSeqFull, LenProperties DEF IsAncestor, Commit
<1>2. ASSUME IsAncestor(c, h)
      PROVE  IsAncestor(c, Append(h, e))
  <2>1. CASE c = <<>>
    BY <2>1, PrefixOfChild, SubSeqEmpty, EmptySeq, LenProperties DEF IsAncestor, Commit
  <2>2. CASE c # <<>>
    <3>1. Len(c) \in 1..Len(h)
      BY <1>2, <2>2, EmptySeq, LenProperties DEF IsAncestor, Commit
    <3> QED
      BY <3>1, <1>2, PrefixOfChild, LenProperties DEF IsAncestor, Commit
  <2> QED
    BY <2>1, <2>2
<1>3. IsAncestor(c, NoCommit) => c = NoCommit
  BY EmptySeq, LenProperties DEF IsAncestor, Commit, NoCommit
<1> QED
  BY <1>1, <1>2, <1>3
-----------------------------------------------------------------------------
(* Type correctness.                                                       *)

\* What the definitions of the actions share.
LEMMA NoJobType == NoJob \in Job
BY EmptySeq DEF NoJob, Job, NoCommit, Commit

LEMMA InitType == Init => TypeOK
BY NoJobType, EmptySeq DEF Init, TypeOK, Labels, NoCommit, Commit

\* Each step of each worker keeps the types.
LEMMA StartType ==
  ASSUME TypeOK, NEW w \in Worker, Start(w)
  PROVE  TypeOK'
<1>1. ASSUME NEW b \in Branch, NEW e \in Proposal, StartGenesis(w, b, e)
      PROVE  TypeOK'
  <2>1. <<[branch |-> b, proposal |-> e]>> \in Commit
    BY DEF Commit, Event
  <2> QED
    BY <1>1, <2>1, NoJobType DEF StartGenesis, TypeOK, disk, Goto, Labels, Job, NoJob
<1>2. ASSUME NEW b \in Branch, NEW e \in Proposal, ReadHead(w, b, e)
      PROVE  TypeOK'
  <2>1. Append(head[b], [branch |-> b, proposal |-> e]) \in Commit
    BY PrefixOfChild DEF TypeOK, Event
  <2> QED
    BY <1>2, <2>1, NoJobType DEF ReadHead, TypeOK, disk, Goto, Labels, Job, NoJob
<1>3. ASSUME NEW b \in Branch, NEW from \in Branch, NEW n \in 1..MaxHistory,
             StartFork(w, b, from, n)
      PROVE  TypeOK'
  <2>1. SubSeq(head[from], 1, n) \in Commit
    BY <1>3, PrefixIsCommit DEF StartFork, TypeOK
  <2> QED
    BY <1>3, <2>1, NoJobType DEF StartFork, TypeOK, disk, Goto, Labels, Job, NoJob
<1>4. ASSUME NEW b \in Branch, StartRemove(w, b)
      PROVE  TypeOK'
  BY <1>4, NoJobType DEF StartRemove, TypeOK, disk, Goto, Labels, Job, NoJob
<1> QED
  BY <1>1, <1>2, <1>3, <1>4 DEF Start

LEMMA ContinueType ==
  ASSUME TypeOK, NEW w \in Worker, Continue(w)
  PROVE  TypeOK'
<1> USE NoJobType DEF TypeOK, disk, Goto, Finish, Labels
<1>1. CASE PublishBranch(w)
  BY <1>1 DEF PublishBranch, Job
<1>2. CASE BranchExists(w)
  BY <1>2 DEF BranchExists
<1>3. CASE PutCommit(w)
  BY <1>3 DEF PutCommit, Job
<1>4. CASE ListBranches(w)
  BY <1>4 DEF ListBranches, Job
<1>5. CASE InspectLock(w)
  BY <1>5 DEF InspectLock
<1>6. ASSUME NEW c \in Branch, ScanBranch(w, c)
      PROVE  TypeOK'
  <2>1. [job[w] EXCEPT !.unread = job[w].unread \ {c}] \in Job
    BY DEF Job
  <2>2. job' = [job EXCEPT ![w] = [job[w] EXCEPT !.unread = job[w].unread \ {c}]]
    BY <1>6 DEF ScanBranch
  <2>3. job' \in [Worker -> Job] /\ \A v \in Worker : job'[v].branch = job[v].branch
    BY <2>1, <2>2 DEF Job
  <2> QED
    BY <1>6, <2>3 DEF ScanBranch
<1>15. ASSUME NEW c \in Branch, ScanRefuses(w, c)
      PROVE  TypeOK'
  BY <1>15 DEF ScanRefuses
<1>7. CASE MakeDirectory(w)
  BY <1>7 DEF MakeDirectory
<1>8. CASE OpenLock(w)
  BY <1>8 DEF OpenLock
<1>9. CASE LockRefused(w) \/ LockWriteFails(w)
  BY <1>9 DEF LockRefused, LockWriteFails
<1>10. CASE CompareHead(w)
  BY <1>10 DEF CompareHead
<1>11. CASE WriteHead(w)
  BY <1>11 DEF WriteHead, Job
<1>12. CASE WriteHeadFails(w)
  BY <1>12 DEF WriteHeadFails, Job
<1>13. CASE RenameAway(w)
  BY <1>13, EmptySeq DEF RenameAway, NoCommit, Commit
<1>14. CASE ReadToken(w) \/ Unlink(w)
  BY <1>14 DEF ReadToken, Unlink
<1> QED
  BY <1>1, <1>2, <1>3, <1>4, <1>5, <1>6, <1>7, <1>8, <1>9, <1>10, <1>11,
     <1>12, <1>13, <1>14, <1>15 DEF Continue

LEMMA NextType == TypeOK /\ [Next]_vars => TypeOK'
<1> SUFFICES ASSUME TypeOK, [Next]_vars
             PROVE  TypeOK'
  OBVIOUS
<1>1. ASSUME NEW w \in Worker, Start(w) \/ Continue(w)
      PROVE  TypeOK'
  BY <1>1, StartType, ContinueType
<1>2. ASSUME NEW w \in Worker, Crash(w) \/ Restart(w)
      PROVE  TypeOK'
  BY <1>2, NoJobType DEF Crash, Restart, TypeOK, disk, Goto, Finish, Labels
<1>3. ASSUME NEW b \in Branch, OperatorUnlocks(b)
      PROVE  TypeOK'
  BY <1>3 DEF OperatorUnlocks, TypeOK
<1>4. CASE UNCHANGED vars
  BY <1>4 DEF vars, TypeOK
<1> QED
  BY <1>1, <1>2, <1>3, <1>4 DEF Next

\* Every variable of the branch store keeps its type, for any number of
\* processes and branches.
THEOREM TypeCorrect == Spec => []TypeOK
BY InitType, NextType, PTL DEF Spec

-----------------------------------------------------------------------------
(* Mutual exclusion.                                                       *)

LEMMA LockStep ==
  ASSUME TypeOK, LockInv, [Next]_vars
  PROVE  LockInv'
<1> USE NullAssumption DEF TypeOK, LockInv, Critical, disk, Goto, Finish, Labels
<1>1. ASSUME NEW w \in Worker, Start(w)
      PROVE  LockInv'
  <2>1. /\ UNCHANGED <<dirs, head, lock>>
        /\ \A v \in Worker : pc'[v] \in Critical => v # w
        /\ \A v \in Worker \ {w} : pc'[v] = pc[v] /\ job'[v] = job[v]
    BY <1>1 DEF Start, StartGenesis, StartFork, ReadHead, StartRemove
  <2> QED
    BY <2>1
<1>2. ASSUME NEW w \in Worker, PublishBranch(w)
      PROVE  LockInv'
  BY <1>2 DEF PublishBranch, IsEmptyDir
<1>3. ASSUME NEW w \in Worker,
             \/ BranchExists(w) \/ PutCommit(w) \/ ListBranches(w) \/ InspectLock(w)
             \/ \E c \in Branch : ScanBranch(w, c) \/ ScanRefuses(w, c)
             \/ LockRefused(w)
      PROVE  LockInv'
  BY <1>3 DEF BranchExists, PutCommit, ListBranches, InspectLock, ScanBranch,
     ScanRefuses, LockRefused
<1>4. ASSUME NEW w \in Worker, MakeDirectory(w)
      PROVE  LockInv'
  BY <1>4 DEF MakeDirectory
<1>5. ASSUME NEW w \in Worker, OpenLock(w)
      PROVE  LockInv'
  BY <1>5 DEF OpenLock
<1>6. ASSUME NEW w \in Worker, LockWriteFails(w) \/ Unlink(w)
      PROVE  LockInv'
  BY <1>6 DEF LockWriteFails, Unlink
<1>7. ASSUME NEW w \in Worker, CompareHead(w) \/ WriteHead(w)
      PROVE  LockInv'
  BY <1>7 DEF CompareHead, WriteHead
<1>8. ASSUME NEW w \in Worker, WriteHeadFails(w)
      PROVE  LockInv'
  BY <1>8 DEF WriteHeadFails
<1>9. ASSUME NEW w \in Worker, RenameAway(w)
      PROVE  LockInv'
  BY <1>9 DEF RenameAway
<1>10. ASSUME NEW w \in Worker, ReadToken(w)
      PROVE  LockInv'
  BY <1>10 DEF ReadToken
<1>11. ASSUME NEW w \in Worker, Crash(w) \/ Restart(w)
       PROVE  LockInv'
  BY <1>11 DEF Crash, Restart
<1>12. ASSUME NEW b \in Branch, OperatorUnlocks(b)
       PROVE  LockInv'
  BY <1>12 DEF OperatorUnlocks
<1>13. CASE UNCHANGED vars
  BY <1>13 DEF vars
<1> QED
  BY <1>1, <1>2, <1>3, <1>4, <1>5, <1>6, <1>7, <1>8, <1>9, <1>10, <1>11,
     <1>12, <1>13 DEF Next, Continue

LEMMA InitLock == Init => LockInv
BY DEF Init, LockInv, Critical

LEMMA LockExcludes == TypeOK /\ LockInv => MutualExclusion
BY DEF LockInv, MutualExclusion

\* Two processes are never inside withLock on the same branch, for any
\* number of processes, however many die and however many branches are
\* removed and made again meanwhile.
THEOREM BranchLockIsExclusive == Spec => []MutualExclusion
<1>1. Init => TypeOK /\ LockInv
  BY InitType, InitLock
<1>2. TypeOK /\ LockInv /\ [Next]_vars => (TypeOK /\ LockInv)'
  BY NextType, LockStep
<1> QED
  BY <1>1, <1>2, LockExcludes, PTL DEF Spec

\* A lock file disappears only by a step of its owner, or after its death.
THEOREM LockNeverStolen == Spec => OnlyOwnerUnlocks
<1> DEFINE Kept == \A b \in Branch : lock[b] # NoWorker /\ lock'[b] # lock[b] =>
                     pc[lock[b]] = "dead" \/ pc'[lock[b]] # pc[lock[b]]
<1>1. ASSUME TypeOK, LockInv, [Next]_vars
      PROVE  [Kept]_vars
  <2> USE <1>1 DEF TypeOK, disk, Goto, Finish, Labels
  <2>1. ASSUME NEW w \in Worker, OpenLock(w)
        PROVE  Kept
    BY <2>1 DEF OpenLock
  <2>2. ASSUME NEW w \in Worker, LockWriteFails(w) \/ RenameAway(w) \/ Unlink(w)
        PROVE  Kept
    BY <2>2 DEF LockWriteFails, RenameAway, Unlink, LockInv, Critical
  <2>3. ASSUME NEW b \in Branch, OperatorUnlocks(b)
        PROVE  Kept
    BY <2>3 DEF OperatorUnlocks
  <2>4. ASSUME NEW w \in Worker, Start(w) \/ Crash(w) \/ Restart(w)
        PROVE  UNCHANGED lock
    BY <2>4 DEF Start, StartGenesis, StartFork, ReadHead, StartRemove, Crash, Restart
  <2>5. ASSUME NEW w \in Worker, Continue(w)
        PROVE  \/ UNCHANGED lock
               \/ OpenLock(w) \/ LockWriteFails(w) \/ RenameAway(w) \/ Unlink(w)
    BY <2>5 DEF Continue, PublishBranch, BranchExists, PutCommit, ListBranches,
       InspectLock, ScanBranch, ScanRefuses, MakeDirectory, LockRefused, CompareHead,
       WriteHead, WriteHeadFails, ReadToken
  <2> QED
    BY <2>1, <2>2, <2>3, <2>4, <2>5 DEF Next
<1>2. Init => TypeOK /\ LockInv
  BY InitType, InitLock
<1>3. TypeOK /\ LockInv /\ [Next]_vars => (TypeOK /\ LockInv)'
  BY NextType, LockStep
<1> QED
  BY <1>1, <1>2, <1>3, PTL DEF Spec, OnlyOwnerUnlocks

-----------------------------------------------------------------------------
(* What a worker about to write knows.                                     *)

\* A step of w leaves alone what another worker has established.
LEMMA OthersKeepJob ==
  ASSUME TypeOK, LockInv, JobInv, NEW w \in Worker, NEW v \in Worker \ {w},
         objects \subseteq objects',
         pc'[v] = pc[v], job'[v] = job[v],
         pc[v] = "updateWrite" => head'[job[v].branch] = head[job[v].branch]
  PROVE  /\ pc'[v] = "staged" => job'[v].next \in objects'
         /\ pc'[v] \in Committing =>
              /\ job'[v].expected \in objects'
              /\ \E e \in Event : job'[v].next = Append(job'[v].expected, e)
         /\ pc'[v] \in Committing \ {"accepted"} => job'[v].next \in objects'
         /\ pc'[v] = "updateWrite" => head'[job'[v].branch] = job'[v].expected
BY DEF JobInv, Committing

\* Only the worker that holds the lock of a branch moves its head while
\* another is about to write: there is no other.
LEMMA HeadStable ==
  ASSUME TypeOK, LockInv, NEW w \in Worker, Start(w) \/ Continue(w) \/ Crash(w) \/ Restart(w),
         NEW v \in Worker \ {w}, pc[v] = "updateWrite"
  PROVE  head'[job[v].branch] = head[job[v].branch]
<1> DEFINE b == job[v].branch
<1>1. b \in dirs /\ lock[b] = v /\ b \in Branch
  BY DEF LockInv, Critical, TypeOK
<1>2. CASE UNCHANGED head
  BY <1>2
<1>3. CASE PublishBranch(w)
  BY <1>1, <1>3, NullAssumption DEF PublishBranch, IsEmptyDir, TypeOK
<1>4. CASE WriteHead(w) \/ WriteHeadFails(w) \/ RenameAway(w)
  <2>1. job[w].branch # b
    BY <1>1, <1>4 DEF WriteHead, WriteHeadFails, RenameAway, LockInv, Critical
  <2> QED
    BY <2>1, <1>1, <1>4 DEF WriteHead, WriteHeadFails, RenameAway, TypeOK
<1>5. Start(w) \/ Crash(w) \/ Restart(w) => UNCHANGED head
  BY DEF Start, StartGenesis, StartFork, ReadHead, StartRemove, Crash, Restart, disk
<1>6. Continue(w) => \/ UNCHANGED head
                    \/ PublishBranch(w) \/ WriteHead(w) \/ WriteHeadFails(w) \/ RenameAway(w)
  BY DEF Continue, BranchExists, PutCommit, ListBranches, InspectLock, ScanBranch,
     ScanRefuses, MakeDirectory, OpenLock, LockRefused, LockWriteFails, CompareHead,
     ReadToken, Unlink, disk
<1> QED
  BY <1>2, <1>3, <1>4, <1>5, <1>6

\* The worker that moves keeps what it knows of its own job.
LEMMA MoverKeepsJob ==
  ASSUME TypeOK, JobInv, StoreInv, NEW w \in Worker,
         Start(w) \/ Continue(w) \/ Crash(w) \/ Restart(w)
  PROVE  /\ objects \subseteq objects'
         /\ pc'[w] = "staged" => job'[w].next \in objects'
         /\ pc'[w] \in Committing =>
              /\ job'[w].expected \in objects'
              /\ \E e \in Event : job'[w].next = Append(job'[w].expected, e)
         /\ pc'[w] \in Committing \ {"accepted"} => job'[w].next \in objects'
         /\ pc'[w] = "updateWrite" => head'[job'[w].branch] = job'[w].expected
         /\ \A v \in Worker \ {w} : pc'[v] = pc[v] /\ job'[v] = job[v]
<1> USE DEF TypeOK, JobInv, Committing, disk, Goto, Finish, NoJob, Labels
<1>1. ASSUME NEW b \in Branch, NEW e \in Proposal, StartGenesis(w, b, e)
      PROVE  /\ objects \subseteq objects'
             /\ pc'[w] = "staged"
             /\ job'[w].next \in objects'
             /\ \A v \in Worker \ {w} : pc'[v] = pc[v] /\ job'[v] = job[v]
  BY <1>1 DEF StartGenesis
<1>2. ASSUME NEW b \in Branch, NEW e \in Proposal, ReadHead(w, b, e)
      PROVE  /\ UNCHANGED objects
             /\ pc'[w] = "accepted"
             /\ job'[w].expected \in objects
             /\ job'[w].next = Append(job'[w].expected, [branch |-> b, proposal |-> e])
             /\ [branch |-> b, proposal |-> e] \in Event
             /\ \A v \in Worker \ {w} : pc'[v] = pc[v] /\ job'[v] = job[v]
  BY <1>2 DEF ReadHead, Readable, StoreInv, Event
<1>3. ASSUME NEW b \in Branch, NEW from \in Branch, NEW n \in 1..MaxHistory,
             StartFork(w, b, from, n)
      PROVE  /\ UNCHANGED objects
             /\ pc'[w] = "staged"
             /\ job'[w].next \in objects
             /\ \A v \in Worker \ {w} : pc'[v] = pc[v] /\ job'[v] = job[v]
  BY <1>3 DEF StartFork, Readable, StoreInv
<1>4. ASSUME NEW b \in Branch, StartRemove(w, b)
      PROVE  /\ UNCHANGED objects
             /\ pc'[w] = "list"
             /\ \A v \in Worker \ {w} : pc'[v] = pc[v] /\ job'[v] = job[v]
  BY <1>4 DEF StartRemove
<1>5. CASE \/ PublishBranch(w) \/ BranchExists(w) \/ LockRefused(w) \/ LockWriteFails(w)
           \/ Unlink(w) \/ Crash(w) \/ Restart(w)
           \/ \E c \in Branch : ScanRefuses(w, c)
  <2>1. /\ UNCHANGED objects
        /\ pc'[w] \in {"idle", "dead"}
        /\ \A v \in Worker \ {w} : pc'[v] = pc[v] /\ job'[v] = job[v]
    BY <1>5 DEF PublishBranch, BranchExists, LockRefused, LockWriteFails, Unlink,
       Crash, Restart, ScanRefuses
  <2> QED
    BY <2>1
<1>6. CASE PutCommit(w)
  BY <1>6 DEF PutCommit
<1>7. CASE \/ ListBranches(w) \/ InspectLock(w) \/ RenameAway(w) \/ ReadToken(w)
           \/ WriteHead(w) \/ WriteHeadFails(w)
           \/ \E c \in Branch : ScanBranch(w, c)
  <2>1. /\ UNCHANGED objects
        /\ pc'[w] \in {"idle", "scan", "remove", "release", "unlink"}
        /\ \A v \in Worker \ {w} : pc'[v] = pc[v] /\ job'[v] = job[v]
    BY <1>7 DEF ListBranches, InspectLock, RenameAway, ReadToken, WriteHead,
       WriteHeadFails, ScanBranch
  <2> QED
    BY <2>1
<1>8. CASE MakeDirectory(w) \/ OpenLock(w)
  BY <1>8 DEF MakeDirectory, OpenLock
<1>9. CASE CompareHead(w)
  BY <1>9 DEF CompareHead
<1> QED
  BY <1>1, <1>2, <1>3, <1>4, <1>5, <1>6, <1>7, <1>8, <1>9 DEF Start, Continue

LEMMA JobStep ==
  ASSUME TypeOK, LockInv, JobInv, StoreInv, [Next]_vars
  PROVE  JobInv'
<1>1. ASSUME NEW w \in Worker, Start(w) \/ Continue(w) \/ Crash(w) \/ Restart(w)
      PROVE  JobInv'
  BY <1>1, MoverKeepsJob, HeadStable, OthersKeepJob DEF JobInv
<1>2. ASSUME NEW b \in Branch, OperatorUnlocks(b)
      PROVE  JobInv'
  BY <1>2 DEF OperatorUnlocks, JobInv
<1>3. CASE UNCHANGED vars
  BY <1>3 DEF vars, JobInv
<1> QED
  BY <1>1, <1>2, <1>3 DEF Next

-----------------------------------------------------------------------------
(* Stored history, acknowledged commits and the refinement.                *)

\* Every step is a step of BranchHistory, or leaves its variables alone.
LEMMA HistoryStep ==
  ASSUME TypeOK, LockInv, JobInv, StoreInv, [Next]_vars
  PROVE  [History!Next]_<<head, objects>>
<1> USE DEF disk
<1>1. ASSUME NEW w \in Worker, NEW b \in Branch, NEW e \in Proposal, StartGenesis(w, b, e)
      PROVE  History!Next
  <2> DEFINE f == [branch |-> b, proposal |-> e]
  <2>1. f \in History!Event
    BY DEF History!Event
  <2>2. Append(History!NoCommit, f) = <<f>>
    BY DEF History!NoCommit
  <2>3. History!Store(f)
    BY <1>1, <2>2 DEF StartGenesis, History!Store
  <2> QED
    BY <2>1, <2>3 DEF History!Next
<1>2. ASSUME NEW w \in Worker, PutCommit(w)
      PROVE  History!Next
  <2>1. PICK e \in Event : job[w].next = Append(job[w].expected, e)
    BY <1>2 DEF PutCommit, JobInv, Committing
  <2>2. job[w].expected \in objects
    BY <1>2 DEF PutCommit, JobInv, Committing
  <2>3. History!Store(e)
    BY <1>2, <2>1, <2>2 DEF PutCommit, History!Store
  <2> QED
    BY <2>3 DEF History!Next, History!Event, Event
<1>3. ASSUME NEW w \in Worker, PublishBranch(w)
      PROVE  History!Next
  <2> DEFINE b == job[w].branch
  <2>1. b \in Branch /\ job[w].next \in objects
    BY <1>3 DEF PublishBranch, JobInv, TypeOK
  <2>2. head[b] = NoCommit
    BY <1>3, <2>1 DEF PublishBranch, IsEmptyDir, Readable, LockInv
  <2>3. History!Create(b)
    BY <1>3, <2>1, <2>2 DEF PublishBranch, History!Create, History!NoCommit, NoCommit
  <2> QED
    BY <2>1, <2>3 DEF History!Next
<1>4. ASSUME NEW w \in Worker, WriteHead(w) \/ WriteHeadFails(w)
      PROVE  [History!Next]_<<head, objects>>
  <2> DEFINE b == job[w].branch
  <2>1. /\ b \in Branch
        /\ head[b] = job[w].expected
        /\ job[w].expected \in objects
        /\ job[w].next \in objects
        /\ UNCHANGED objects
    BY <1>4 DEF WriteHead, WriteHeadFails, JobInv, TypeOK, Committing
  <2>2. PICK e \in Event : job[w].next = Append(job[w].expected, e)
    BY <1>4 DEF WriteHead, WriteHeadFails, JobInv, Committing
  <2>3. head[b] # History!NoCommit
    BY <2>1 DEF StoreInv, NoCommit, History!NoCommit
  <2>4. CASE UNCHANGED head
    BY <2>1, <2>4
  <2>5. CASE head' = [head EXCEPT ![b] = job[w].next]
    <3>1. History!Advance(b, e)
      BY <2>1, <2>2, <2>3, <2>5 DEF History!Advance, TypeOK
    <3> QED
      BY <3>1, <2>1 DEF History!Next, History!Event, Event
  <2> QED
    BY <1>4, <2>4, <2>5 DEF WriteHead, WriteHeadFails
<1>5. ASSUME NEW w \in Worker, RenameAway(w)
      PROVE  [History!Next]_<<head, objects>>
  <2> DEFINE b == job[w].branch
  <2>1. b \in Branch
    BY <1>5 DEF RenameAway, TypeOK
  <2>2. CASE head[b] = NoCommit
    BY <1>5, <2>1, <2>2 DEF RenameAway, TypeOK
  <2>3. CASE head[b] # NoCommit
    <3>1. History!Remove(b)
      BY <1>5, <2>3 DEF RenameAway, History!Remove, NoCommit, History!NoCommit
    <3> QED
      BY <2>1, <3>1 DEF History!Next
  <2> QED
    BY <2>2, <2>3
<1>6. ASSUME NEW w \in Worker, Start(w)
      PROVE  [History!Next]_<<head, objects>>
  BY <1>1, <1>6 DEF Start, StartFork, ReadHead, StartRemove
<1>7. ASSUME NEW w \in Worker, Continue(w)
      PROVE  [History!Next]_<<head, objects>>
  BY <1>2, <1>3, <1>4, <1>5, <1>7 DEF Continue, BranchExists, ListBranches, InspectLock,
     ScanBranch, ScanRefuses, MakeDirectory, OpenLock, LockRefused, LockWriteFails,
     CompareHead, ReadToken, Unlink
<1>8. ASSUME NEW w \in Worker, Crash(w) \/ Restart(w)
      PROVE  UNCHANGED <<head, objects>>
  BY <1>8 DEF Crash, Restart
<1>9. ASSUME NEW b \in Branch, OperatorUnlocks(b)
      PROVE  UNCHANGED <<head, objects>>
  BY <1>9 DEF OperatorUnlocks
<1> QED
  BY <1>6, <1>7, <1>8, <1>9 DEF Next, vars

\* The steps of BranchHistory keep StoreInv.
LEMMA StoreStep ==
  ASSUME TypeOK, StoreInv, [History!Next]_<<head, objects>>
  PROVE  StoreInv'
<1> USE DEF StoreInv, NoCommit, History!NoCommit
<1>1. ASSUME NEW e \in Event, History!Store(e)
      PROVE  StoreInv'
  <2>1. PICK c \in objects \cup {NoCommit} : objects' = objects \cup {Append(c, e)}
    BY <1>1 DEF History!Store
  <2>2. c \in Commit
    BY EmptySeq DEF TypeOK, Commit
  <2>3. /\ Append(c, e) # <<>>
        /\ Len(Append(c, e)) = Len(c) + 1
        /\ \A n \in 1..Len(c) : SubSeq(Append(c, e), 1, n) = SubSeq(c, 1, n)
        /\ SubSeq(Append(c, e), 1, Len(c) + 1) = Append(c, e)
        /\ Len(c) \in Nat
    BY <2>2, PrefixOfChild, LenProperties DEF Commit
  <2>4. \A n \in 1..Len(c) : SubSeq(c, 1, n) \in objects
    BY EmptySeq
  <2>5. ASSUME NEW n \in 1..Len(Append(c, e))
        PROVE  SubSeq(Append(c, e), 1, n) \in objects'
    <3>1. n \in 1..Len(c) \/ n = Len(c) + 1
      BY <2>3
    <3> QED
      BY <3>1, <2>1, <2>3, <2>4
  <2>6. UNCHANGED head
    BY <1>1 DEF History!Store
  <2> QED
    BY <2>1, <2>3, <2>5, <2>6
<1>2. ASSUME NEW b \in Branch, History!Create(b) \/ History!Remove(b)
      PROVE  StoreInv'
  BY <1>2 DEF History!Create, History!Remove, TypeOK
<1>3. ASSUME NEW b \in Branch, NEW e \in Event, History!Advance(b, e)
      PROVE  StoreInv'
  BY <1>3 DEF History!Advance, TypeOK
<1>4. CASE UNCHANGED <<head, objects>>
  BY <1>4
<1> QED
  BY <1>1, <1>2, <1>3, <1>4 DEF History!Next, History!Event, Event

LEMMA InitInv == Init => IInv
BY InitType, InitLock DEF Init, IInv, JobInv, StoreInv, AcknowledgedKept, Committing, NoCommit

LEMMA StoreImplies == TypeOK /\ StoreInv => HistoryStored
BY PrefixIsCommit, EmptySeq DEF TypeOK, StoreInv, HistoryStored, NoCommit, Commit

\* A step that leaves the heads and the acknowledged commits alone keeps
\* every acknowledged commit; the others are the three that do not.
LEMMA AckStep ==
  ASSUME TypeOK, LockInv, JobInv, AcknowledgedKept, [Next]_vars
  PROVE  AcknowledgedKept'
<1> USE DEF disk
<1>1. ASSUME NEW w \in Worker, PublishBranch(w)
      PROVE  AcknowledgedKept'
  <2>1. job[w].branch \in Branch /\ job[w].next \in Commit
    BY <1>1 DEF PublishBranch, TypeOK, Job
  <2>2. IsAncestor(job[w].next, job[w].next)
    BY <2>1, SubSeqFull, LenProperties DEF IsAncestor, Commit
  <2> QED
    BY <1>1, <2>1, <2>2 DEF PublishBranch, AcknowledgedKept, TypeOK
<1>2. ASSUME NEW w \in Worker, WriteHead(w) \/ WriteHeadFails(w)
      PROVE  AcknowledgedKept'
  <2> DEFINE b == job[w].branch
  <2>1. /\ b \in Branch
        /\ head[b] = job[w].expected
        /\ head[b] \in Commit
        /\ job[w].next \in Commit
    BY <1>2 DEF WriteHead, WriteHeadFails, JobInv, TypeOK, Committing, Job
  <2>2. PICK e \in Event : job[w].next = Append(head[b], e)
    BY <1>2, <2>1 DEF WriteHead, WriteHeadFails, JobInv, Committing
  <2>3. \A c \in acked[b] : c \in Commit /\ IsAncestor(c, job[w].next)
    BY <2>1, <2>2, AncestorOfChild DEF AcknowledgedKept, TypeOK
  <2>4. IsAncestor(job[w].next, job[w].next)
    BY <2>1, SubSeqFull, LenProperties DEF IsAncestor, Commit
  <2> QED
    BY <1>2, <2>1, <2>3, <2>4 DEF WriteHead, WriteHeadFails, AcknowledgedKept, TypeOK
<1>3. ASSUME NEW w \in Worker, RenameAway(w)
      PROVE  AcknowledgedKept'
  <2>1. job[w].branch \in Branch
    BY <1>3 DEF RenameAway, TypeOK
  <2> QED
    BY <1>3, <2>1 DEF RenameAway, AcknowledgedKept, TypeOK
<1>4. CASE UNCHANGED <<head, acked>>
  BY <1>4 DEF AcknowledgedKept, IsAncestor
<1>5. ASSUME NEW w \in Worker, Start(w) \/ Crash(w) \/ Restart(w)
      PROVE  UNCHANGED <<head, acked>>
  BY <1>5 DEF Start, StartGenesis, StartFork, ReadHead, StartRemove, Crash, Restart
<1>6. ASSUME NEW w \in Worker, Continue(w)
      PROVE  \/ UNCHANGED <<head, acked>>
             \/ PublishBranch(w) \/ WriteHead(w) \/ WriteHeadFails(w) \/ RenameAway(w)
  BY <1>6 DEF Continue, BranchExists, PutCommit, ListBranches, InspectLock, ScanBranch,
     ScanRefuses, MakeDirectory, OpenLock, LockRefused, LockWriteFails, CompareHead,
     ReadToken, Unlink
<1>7. ASSUME NEW b \in Branch, OperatorUnlocks(b)
      PROVE  UNCHANGED <<head, acked>>
  BY <1>7 DEF OperatorUnlocks
<1> QED
  BY <1>1, <1>2, <1>3, <1>4, <1>5, <1>6, <1>7 DEF Next, vars

LEMMA InvStep == IInv /\ [Next]_vars => IInv'
BY NextType, LockStep, JobStep, HistoryStep, StoreStep, AckStep DEF IInv

LEMMA Inductive == Spec => []IInv
BY InitInv, InvStep, PTL DEF Spec

\* Every branch head and each of its ancestors is a stored object, however
\* many processes die between writing objects and moving heads.
THEOREM HistoryIsStored == Spec => []HistoryStored
<1>1. IInv => HistoryStored
  BY StoreImplies DEF IInv
<1> QED
  BY <1>1, Inductive, PTL

\* No commit a worker was told of is ever lost while its branch exists.
THEOREM AcknowledgedCommitsKept == Spec => []AcknowledgedKept
<1>1. IInv => AcknowledgedKept
  BY DEF IInv
<1> QED
  BY <1>1, Inductive, PTL

\* The files on disk implement the abstract registers: branches are created
\* at a stored commit, move one child at a time, and are removed whole.
THEOREM Refinement == Spec => RefinesHistory
<1>1. Init => History!Init
  BY DEF Init, History!Init, NoCommit, History!NoCommit
<1>2. IInv /\ [Next]_vars => [History!Next]_<<head, objects>>
  BY HistoryStep DEF IInv
<1> QED
  BY <1>1, <1>2, Inductive, PTL DEF Spec, RefinesHistory, History!Spec
=============================================================================
