------------------------- MODULE SharedFilesProofs -------------------------
(***************************************************************************)
(* Proofs about the three components whose state is in files that several  *)
(* processes use and that a death leaves as they are: the compiler lock,   *)
(* the model request budgets, and the traces of moves with what a restart  *)
(* says of them.  Each part has its inductive invariant first, then what   *)
(* each step does to it, then the theorems.                                *)
(***************************************************************************)
EXTENDS WorkspaceLock, RequestBudget, MoveTrace, FiniteSetTheorems, WellFoundedInduction, TLAPS

-----------------------------------------------------------------------------
(***************************************************************************)
(* The compiler lock: mutual exclusion for any number of process ids,      *)
(* deaths, reuses of ids and recoveries.  The inductive invariant adds to  *)
(* MutualExclusion that recoveries hold the mutex (RecoveryInv) and that   *)
(* the lock one of them is about to archive is still the lock of the dead  *)
(* owner it checked: a dead owner cannot release and an existing directory *)
(* cannot be made.                                                         *)
(***************************************************************************)

\* The process that wrote owner token t has died.
HasDied(t) == pc[t.process] = "dead" \/ run[t.process] > t.run

\* The holder's directory exists, with its token from the write to the unlink.
HolderInv ==
  /\ ~present => owner = NoOwner
  /\ owner # NoOwner => owner.run <= run[owner.process]
  /\ \A p \in Process : pc[p] \in Holding =>
       /\ present
       /\ \A q \in Process \ {p} : pc[q] \notin Holding
       /\ owner = IF pc[p] \in {"held", "unlinkOwner"} THEN Self(p) ELSE NoOwner

\* A recovery past its checks faces the lock it checked.
RecoveryInv ==
  \A p \in Process :
    /\ pc[p] \in {"check", "recheck", "rename"} => mutex = p /\ expected[p] # NoOwner
    /\ pc[p] = "flock" => expected[p] # NoOwner
    /\ pc[p] = "rename" => present /\ owner = expected[p] /\ HasDied(owner)

LockInv == LockTypeOK /\ HolderInv /\ RecoveryInv

LEMMA InitLockInv == LockInit => LockInv
<1> SUFFICES ASSUME LockInit
             PROVE  LockInv
  OBVIOUS
<1>1. LockTypeOK
  BY DEF LockInit, LockTypeOK, Labels
<1>2. HolderInv
  BY DEF LockInit, HolderInv, Holding
<1>3. RecoveryInv
  BY DEF LockInit, RecoveryInv
<1> QED
  BY <1>1, <1>2, <1>3 DEF LockInv

\* What a live process is doing with its own lock is not "dead".
LEMMA HolderLives ==
  ASSUME LockTypeOK, HolderInv, NEW p \in Process, pc[p] \in Holding
  PROVE  owner = NoOwner \/ ~HasDied(owner)
BY DEF LockTypeOK, HolderInv, HasDied, Holding, Self, Token

LEMMA LockTypeStep ==
  ASSUME LockTypeOK, RecoveryInv, [LockNext]_lockVars
  PROVE  LockTypeOK'
<1> USE DEF LockTypeOK, Labels, lockDir, Goto
<1>1. ASSUME NEW p \in Process, MakeLock(p) \/ StartRecover(p) \/ Crash(p)
      PROVE  LockTypeOK'
  BY <1>1 DEF MakeLock, StartRecover, Crash
<1>7. ASSUME NEW p \in Process, Reuse(p)
      PROVE  LockTypeOK'
  BY <1>7 DEF Reuse
<1>2. ASSUME NEW p \in Process, WriteOwner(p)
      PROVE  LockTypeOK'
  BY <1>2 DEF WriteOwner, Self, Token
<1>3. ASSUME NEW p \in Process,
             \/ WriteOwnerFails(p) \/ ReleaseRead(p) \/ UnlinkOwner(p) \/ RemoveLock(p)
             \/ TakeMutex(p) \/ MutexTimeout(p)
      PROVE  LockTypeOK'
  BY <1>3 DEF WriteOwnerFails, ReleaseRead, UnlinkOwner, RemoveLock, TakeMutex, MutexTimeout
<1>4. ASSUME NEW p \in Process, CheckOwner(p) \/ CheckRefuses(p) \/ ArchiveFails(p)
      PROVE  LockTypeOK'
  BY <1>4 DEF CheckOwner, CheckRefuses, ArchiveFails, Refuse
<1>5. ASSUME NEW p \in Process, ArchiveLock(p)
      PROVE  LockTypeOK'
  BY <1>5 DEF ArchiveLock, RecoveryInv
<1>6. CASE UNCHANGED lockVars
  BY <1>6 DEF lockVars
<1> QED
  BY <1>1, <1>2, <1>3, <1>4, <1>5, <1>6, <1>7 DEF LockNext, Continue

LEMMA LockHolderStep ==
  ASSUME LockTypeOK, HolderInv, RecoveryInv, [LockNext]_lockVars
  PROVE  HolderInv'
<1> USE DEF LockTypeOK, HolderInv, lockDir, Goto, Holding, Self
<1>1. ASSUME NEW p \in Process, MakeLock(p)
      PROVE  HolderInv'
  BY <1>1 DEF MakeLock
<1>2. ASSUME NEW p \in Process, WriteOwner(p)
      PROVE  HolderInv'
  BY <1>2 DEF WriteOwner, Token
<1>3. ASSUME NEW p \in Process, WriteOwnerFails(p) \/ ReleaseRead(p)
      PROVE  HolderInv'
  BY <1>3 DEF WriteOwnerFails, ReleaseRead
<1>4. ASSUME NEW p \in Process, UnlinkOwner(p) \/ RemoveLock(p)
      PROVE  HolderInv'
  BY <1>4 DEF UnlinkOwner, RemoveLock
<1>5. ASSUME NEW p \in Process,
             \/ StartRecover(p) \/ TakeMutex(p) \/ MutexTimeout(p)
             \/ CheckOwner(p) \/ CheckRefuses(p) \/ ArchiveFails(p)
      PROVE  HolderInv'
  BY <1>5 DEF StartRecover, TakeMutex, MutexTimeout, CheckOwner, CheckRefuses,
     ArchiveFails, Refuse
<1>6. ASSUME NEW p \in Process, ArchiveLock(p)
      PROVE  HolderInv'
  <2>1. owner # NoOwner /\ HasDied(owner)
    BY <1>6 DEF ArchiveLock, RecoveryInv
  <2>2. \A q \in Process : pc[q] \notin Holding
    BY <2>1, HolderLives
  <2> QED
    BY <1>6, <2>2 DEF ArchiveLock
<1>7. ASSUME NEW p \in Process, Crash(p)
      PROVE  HolderInv'
  BY <1>7 DEF Crash
<1>8. ASSUME NEW p \in Process, Reuse(p)
      PROVE  HolderInv'
  BY <1>8 DEF Reuse, Token
<1>9. CASE UNCHANGED lockVars
  BY <1>9 DEF lockVars
<1> QED
  BY <1>1, <1>2, <1>3, <1>4, <1>5, <1>6, <1>7, <1>8, <1>9 DEF LockNext, Continue

LEMMA LockRecoveryStep ==
  ASSUME LockTypeOK, HolderInv, RecoveryInv, [LockNext]_lockVars
  PROVE  RecoveryInv'
<1> USE NullAssumption DEF LockTypeOK, RecoveryInv, lockDir, Goto, HasDied, Token
<1>1. ASSUME NEW p \in Process, MakeLock(p) \/ WriteOwnerFails(p)
      PROVE  RecoveryInv'
  BY <1>1 DEF MakeLock, WriteOwnerFails
<1>2. ASSUME NEW p \in Process, WriteOwner(p) \/ ReleaseRead(p) \/ UnlinkOwner(p) \/ RemoveLock(p)
      PROVE  RecoveryInv'
  <2>1. pc[p] \in Holding
    BY <1>2 DEF WriteOwner, ReleaseRead, UnlinkOwner, RemoveLock, Holding
  <2>2. \A q \in Process : pc[q] # "rename"
    BY <2>1, HolderLives
  <2> QED
    BY <1>2, <2>2 DEF WriteOwner, ReleaseRead, UnlinkOwner, RemoveLock
<1>3. ASSUME NEW p \in Process, StartRecover(p) \/ TakeMutex(p) \/ MutexTimeout(p)
      PROVE  RecoveryInv'
  BY <1>3 DEF StartRecover, TakeMutex, MutexTimeout
<1>4. ASSUME NEW p \in Process, CheckOwner(p)
      PROVE  RecoveryInv'
  BY <1>4 DEF CheckOwner, Recoverable, processIsAlive, HolderInv
<1>5. ASSUME NEW p \in Process, CheckRefuses(p) \/ ArchiveFails(p)
      PROVE  RecoveryInv'
  BY <1>5 DEF CheckRefuses, ArchiveFails, Refuse
<1>6. ASSUME NEW p \in Process, ArchiveLock(p)
      PROVE  RecoveryInv'
  BY <1>6 DEF ArchiveLock
<1>7. ASSUME NEW p \in Process, Crash(p)
      PROVE  RecoveryInv'
  BY <1>7 DEF Crash
<1>8. ASSUME NEW p \in Process, Reuse(p)
      PROVE  RecoveryInv'
  BY <1>8 DEF Reuse, HolderInv, Token
<1>9. CASE UNCHANGED lockVars
  BY <1>9 DEF lockVars
<1> QED
  BY <1>1, <1>2, <1>3, <1>4, <1>5, <1>6, <1>7, <1>8, <1>9 DEF LockNext, Continue

LEMMA LockInductive == LockSpec => []LockInv
<1>1. LockInv /\ [LockNext]_lockVars => LockInv'
  BY LockTypeStep, LockHolderStep, LockRecoveryStep DEF LockInv
<1> QED
  BY <1>1, InitLockInv, PTL DEF LockSpec

\* Every variable of the compiler lock keeps its type.
THEOREM LockTypeCorrect == LockSpec => []LockTypeOK
<1>1. LockInv => LockTypeOK
  BY DEF LockInv
<1> QED
  BY <1>1, LockInductive, PTL

\* At most one process holds the compiler lock, for any number of processes
\* and recoveries, although the liveness test sees reused process ids.
THEOREM CompilerLockIsExclusive == LockSpec => []MutualExclusion
<1>1. LockInv => MutualExclusion
  BY DEF LockInv, HolderInv, MutualExclusion, Holding
<1> QED
  BY <1>1, LockInductive, PTL

\* What a recovery archives is the lock of an owner that has died.
THEOREM OnlyDeadOwnersArchived == LockSpec => ArchivesDeadOwner
<1> DEFINE Dead == \A t \in archived' \ archived :
                     t # NoOwner /\ (pc[t.process] = "dead" \/ run[t.process] # t.run)
<1>1. ASSUME LockInv, [LockNext]_lockVars
      PROVE  [Dead]_lockVars
  <2>1. ASSUME NEW p \in Process, ArchiveLock(p)
        PROVE  Dead
    BY <1>1, <2>1 DEF ArchiveLock, LockInv, RecoveryInv, HasDied, LockTypeOK, Token
  <2>2. ASSUME NEW p \in Process,
               \/ MakeLock(p) \/ StartRecover(p) \/ Crash(p) \/ Reuse(p)
               \/ (Continue(p) /\ ~ArchiveLock(p))
        PROVE  UNCHANGED archived
    BY <2>2 DEF MakeLock, StartRecover, Crash, Reuse, Continue, WriteOwner, WriteOwnerFails,
       ReleaseRead, UnlinkOwner, RemoveLock, TakeMutex, MutexTimeout, CheckOwner,
       CheckRefuses, ArchiveFails, Refuse, lockDir
  <2> QED
    BY <1>1, <2>1, <2>2 DEF LockNext
<1> QED
  BY <1>1, LockInductive, PTL DEF LockSpec, ArchivesDeadOwner

-----------------------------------------------------------------------------
(***************************************************************************)
(* Model request budgets, for any budgets, nesting of them over the calls, *)
(* limits and failures.  The limits speak of what went out; the code sees  *)
(* only its counters.  So the inductive invariant says how the two relate: *)
(* memory and, once a call may be in flight, the file count at least what  *)
(* went out, and progress never hides more calls than were made.           *)
(***************************************************************************)

\* The counters of usage count what was used, and the calls since the last
\* validated progress.
Covers(usage, used) ==
  used.calls <= usage.calls /\ used.payloads <= usage.payloads /\ used.bytes <= usage.bytes
Window(object) == object.usage.calls - object.mark

\* What memory and disk say of a budget is at least what went out under it, and
\* a stop that was saved is known.
BudgetSound(b) ==
  /\ mem[b].mark <= mem[b].usage.calls
  /\ disk[b].mark <= disk[b].usage.calls
  /\ Covers(mem[b].usage, spent[b])
  /\ disk[b].failed => mem[b].failed
  /\ ~mem[b].failed => stall[b] <= Window(mem[b])
  /\ b \in Kept => Covers(disk[b].usage, spent[b]) /\ stall[b] <= Window(disk[b])

WithinLimits(b) ==
  /\ CallsMode[b] = "enforce" => spent[b].calls <= MaxCalls
  /\ CallsMode[b] = "progress" => stall[b] <= MaxCalls
  /\ Bytes[b] => spent[b].bytes <= MaxTotal

BudgetInv ==
  /\ BudgetTypeOK
  /\ \A b \in Budgets : BudgetSound(b) /\ WithinLimits(b)

\* A call that finds no first gate in S is under no budget of S.
LEMMA FirstGate ==
  ASSUME NEW c \in Calls, NEW S,
         {i \in 1 .. Len(Gates[c]) : Gates[c][i] \in S /\ Before(c, i) \cap S = {}} = {}
  PROVE  Under(c) \cap S = {}
<1> DEFINE T == {i \in 1 .. Len(Gates[c]) : Gates[c][i] \in S}
<1>1. Len(Gates[c]) \in Nat
  BY BudgetAssumption
<1>2. ASSUME T # {}
      PROVE  FALSE
  <2> DEFINE before(i) == {j \in T : j < i}
  <2>1. T \subseteq Nat /\ IsFiniteSet(T)
    <3>1. IsFiniteSet(1 .. Len(Gates[c]))
      BY <1>1, FS_Interval
    <3>2. T \in SUBSET (1 .. Len(Gates[c]))
      OBVIOUS
    <3>3. T \subseteq Nat
      BY <1>1
    <3> HIDE DEF T
    <3> QED
      BY <3>1, <3>2, <3>3, FS_Subset
  <2>2. IsWellFoundedOn(StrictSubsetOrdering(T), SUBSET T)
    BY <2>1, FS_FiniteSubsetsOfFinite, FS_StrictSubsetOrderingWellFounded
  <2>3. PICK m \in T : \A j \in T : ~(j < m)
    <3> HIDE DEF T
    <3> DEFINE B == {before(i) : i \in T}
    <3>1. B \subseteq SUBSET T /\ B # {}
      BY <1>2
    <3>2. PICK x \in B : \A y \in B : ~(<<y, x>> \in StrictSubsetOrdering(T))
      BY <2>2, <3>1, WFMin
    <3>3. PICK m \in T : x = before(m)
      BY <3>2
    <3>4. ASSUME NEW j \in T, j < m
          PROVE  FALSE
      <4>1. before(j) \subseteq before(m) /\ j \in before(m) /\ j \notin before(j)
        <5>1. \A k \in T : k \in Nat
          BY <2>1
        <5> QED
          BY <3>4, <5>1
      <4>2. <<before(j), before(m)>> \in StrictSubsetOrdering(T)
        BY <4>1 DEF StrictSubsetOrdering
      <4> QED
        BY <3>2, <3>3, <4>2
    <3> QED
      BY <3>4
  <2>4. Before(c, m) \cap S = {}
    BY <1>1, <2>1, <2>3 DEF Before
  <2> QED
    BY <2>4
<1> QED
  BY <1>1, <1>2 DEF Under, Before

\* Saving keeps a budget sound, also where the write fails.
LEMMA PersistSound ==
  ASSUME BudgetTypeOK, NEW b \in Budgets, BudgetSound(b),
         NEW changed, NEW next \in [Budgets -> Object], NEW broken, Persist(changed, next, broken),
         spent'[b] \in Usage, stall'[b] \in Nat,
         b \notin changed \/ b \in broken => spent'[b] = spent[b] /\ stall'[b] = stall[b],
         b \in changed => /\ ~mem[b].failed
                          /\ next[b].mark <= next[b].usage.calls
                          /\ Covers(next[b].usage, spent'[b]),
         b \in changed \ broken => stall'[b] <= Window(next[b])
  PROVE  BudgetSound(b)'
<1> USE DEF BudgetTypeOK, BudgetSound, Covers, Window
<1>1. CASE b \notin changed
  BY <1>1 DEF Persist
<1>2. CASE b \in changed /\ b \in broken
  <2>1. mem'[b] = Failed(next[b]) /\ disk'[b] = disk[b]
    BY <1>2 DEF Persist
  <2>2. Failed(next[b]).failed /\ Failed(next[b]).usage = next[b].usage /\ Failed(next[b]).mark = next[b].mark
    BY DEF Failed, Object
  <2> QED
    BY <1>2, <2>1, <2>2
<1>3. CASE b \in changed /\ b \notin broken
  <2>1. mem'[b] = next[b] /\ disk'[b] = IF b \in Kept THEN Image(next[b]) ELSE disk[b]
    BY <1>3 DEF Persist
  <2>2. /\ Image(next[b]).usage = next[b].usage /\ Image(next[b]).mark = next[b].mark
        /\ Image(next[b]).failed = next[b].failed
    BY DEF Image
  <2>3. CASE b \in Kept
    BY <1>3, <2>1, <2>2, <2>3
  <2>4. CASE b \notin Kept
    BY <1>3, <2>1, <2>4
  <2> QED
    BY <2>3, <2>4
<1> QED
  BY <1>1, <1>2, <1>3

-----------------------------------------------------------------------------
(* A passage that is stopped leaves what went out as it is.                *)

Halted(c, charged, broken) ==
  /\ \E changed \in SUBSET Budgets, next \in [Budgets -> Object] :
       /\ Persist(changed, next, broken)
       /\ \A b \in changed : /\ Usable(b) \/ ~mem[b].failed
                             /\ next[b] \in {charged[b], Failed(mem[b])}
  /\ open' = open \ {c} /\ UNCHANGED <<spent, stall>>

LEMMA UnderBudgets ==
  ASSUME NEW c \in Calls
  PROVE  /\ Under(c) \subseteq Budgets
         /\ \A i \in 1 .. Len(Gates[c]) : /\ Gates[c][i] \in Under(c)
                                          /\ Before(c, i + 1) \subseteq Under(c)
<1>1. Gates[c] \in Seq(Budgets) /\ Len(Gates[c]) \in Nat
  BY BudgetAssumption
<1>2. \A i \in 1 .. Len(Gates[c]) : Gates[c][i] \in Budgets
  BY <1>1
<1> QED
  BY <1>1, <1>2 DEF Under, Before

LEMMA FailedType ==
  ASSUME NEW o \in Object
  PROVE  /\ Failed(o) \in Object /\ Failed(o).usage = o.usage /\ Failed(o).mark = o.mark
         /\ Failed(o).failed = TRUE
BY DEF Failed, Object

\* The two ways in which a passage ends that does not get through.
StopsUnusable(c, broken) ==
  \E i \in 1 .. Len(Gates[c]) :
    LET b == Gates[c][i] IN
    /\ broken \subseteq {b}
    /\ Persist(IF mem[b].failed THEN {} ELSE {b}, [a \in Budgets |-> Failed(mem[a])], broken)
    /\ open' = open \ {c} /\ UNCHANGED <<spent, stall>>

StopsAtGate(c, refuses, charged, broken) ==
  /\ \A b \in Under(c) : Usable(b)
  /\ \E i \in 1 .. Len(Gates[c]) :
       LET b == Gates[c][i] IN
       /\ broken \subseteq {b}
       /\ Persist(Before(c, i + 1),
                  IF b \in refuses THEN [charged EXCEPT ![b] = Failed(mem[b])] ELSE charged,
                  broken)
  /\ open' = open \ {c} /\ UNCHANGED <<spent, stall>>

LEMMA StopsHalted ==
  ASSUME BudgetTypeOK, NEW c \in Calls, NEW refuses, NEW charged \in [Budgets -> Object],
         NEW broken, StopsUnusable(c, broken) \/ StopsAtGate(c, refuses, charged, broken)
  PROVE  Halted(c, charged, broken)
<1> DEFINE failed == [a \in Budgets |-> Failed(mem[a])]
<1>0. failed \in [Budgets -> Object] /\ \A a \in Budgets : failed[a] = Failed(mem[a])
  BY FailedType DEF BudgetTypeOK
<1>1. CASE StopsUnusable(c, broken)
  <2>1. PICK i \in 1 .. Len(Gates[c]) :
          /\ Persist(IF mem[Gates[c][i]].failed THEN {} ELSE {Gates[c][i]}, failed, broken)
          /\ open' = open \ {c} /\ UNCHANGED <<spent, stall>>
    BY <1>1 DEF StopsUnusable
  <2> DEFINE changed == IF mem[Gates[c][i]].failed THEN {} ELSE {Gates[c][i]}
  <2>2. Gates[c][i] \in Budgets
    BY UnderBudgets
  <2>3. changed \in SUBSET Budgets /\ \A b \in changed : ~mem[b].failed
    BY <2>2
  <2>4. Persist(changed, failed, broken)
    BY <2>1
  <2> HIDE DEF changed, failed
  <2> QED
    BY <1>0, <2>1, <2>3, <2>4 DEF Halted
<1>2. CASE StopsAtGate(c, refuses, charged, broken)
  <2>1. PICK i \in 1 .. Len(Gates[c]) :
          Persist(Before(c, i + 1),
                  IF Gates[c][i] \in refuses
                  THEN [charged EXCEPT ![Gates[c][i]] = Failed(mem[Gates[c][i]])] ELSE charged,
                  broken)
    BY <1>2 DEF StopsAtGate
  <2> DEFINE changed == Before(c, i + 1)
             g == Gates[c][i]
             next == IF g \in refuses THEN [charged EXCEPT ![g] = Failed(mem[g])] ELSE charged
  <2>2. g \in Budgets /\ changed \in SUBSET Budgets /\ \A b \in changed : Usable(b)
    BY <1>2, UnderBudgets DEF StopsAtGate
  <2>3. /\ next \in [Budgets -> Object]
        /\ \A b \in Budgets : next[b] \in {charged[b], Failed(mem[b])}
    BY <1>0, <2>2
  <2>4. Persist(changed, next, broken)
    BY <2>1
  <2>5. open' = open \ {c} /\ UNCHANGED <<spent, stall>>
    BY <1>2 DEF StopsAtGate
  <2> HIDE DEF changed, next
  <2> QED
    BY <2>2, <2>3, <2>4, <2>5 DEF Halted
<1> QED
  BY <1>1, <1>2

\* What stays of a budget's soundness when a passage is stopped.
LEMMA HaltedStep ==
  ASSUME BudgetInv, NEW c \in Calls, NEW charged \in [Budgets -> Object], NEW broken,
         Halted(c, charged, broken),
         \A b \in Budgets : /\ charged[b].mark = mem[b].mark
                            /\ charged[b].usage.calls >= mem[b].usage.calls
                            /\ charged[b].usage.payloads >= mem[b].usage.payloads
                            /\ charged[b].usage.bytes >= mem[b].usage.bytes
  PROVE  \A b \in Budgets : BudgetSound(b)' /\ WithinLimits(b)'
<1>1. PICK changed \in SUBSET Budgets, next \in [Budgets -> Object] :
        /\ Persist(changed, next, broken)
        /\ \A b \in changed : ~mem[b].failed /\ next[b] \in {charged[b], Failed(mem[b])}
  BY DEF Halted, Usable
<1>2. spent' = spent /\ stall' = stall
  BY DEF Halted
<1> SUFFICES ASSUME NEW b \in Budgets
             PROVE  BudgetSound(b)' /\ WithinLimits(b)'
  OBVIOUS
<1>3. BudgetSound(b) /\ WithinLimits(b) /\ BudgetTypeOK
  BY DEF BudgetInv
<1>4. WithinLimits(b)'
  BY <1>2, <1>3 DEF WithinLimits
<1>5. mem[b] \in Object /\ charged[b] \in Object /\ spent[b] \in Usage /\ stall[b] \in Nat
  BY <1>3 DEF BudgetTypeOK
<1>6. /\ mem[b].usage.calls \in Nat /\ mem[b].usage.payloads \in Nat /\ mem[b].usage.bytes \in Nat
      /\ mem[b].mark \in Nat
      /\ charged[b].usage.calls \in Nat /\ charged[b].usage.payloads \in Nat
      /\ charged[b].usage.bytes \in Nat
      /\ spent[b].calls \in Nat /\ spent[b].payloads \in Nat /\ spent[b].bytes \in Nat
  BY <1>5 DEF Object, Usage
<1>7. ASSUME b \in changed
      PROVE  /\ next[b].mark <= next[b].usage.calls
             /\ Covers(next[b].usage, spent[b])
             /\ stall[b] <= Window(next[b])
  <2>1. CASE next[b] = charged[b]
    BY <1>1, <1>3, <1>5, <1>6, <1>7, <2>1 DEF BudgetSound, Covers, Window
  <2>2. CASE next[b] = Failed(mem[b])
    <3>1. next[b].usage = mem[b].usage /\ next[b].mark = mem[b].mark
      BY <1>5, <2>2, FailedType
    <3> QED
      BY <1>1, <1>3, <1>7, <3>1 DEF BudgetSound, Covers, Window
  <2> QED
    BY <1>1, <1>7, <2>1, <2>2
<1>8. BudgetSound(b)'
  BY <1>1, <1>2, <1>3, <1>5, <1>7, PersistSound
<1> QED
  BY <1>4, <1>8

-----------------------------------------------------------------------------
(* The steps.                                                              *)

LEMMA ChargedUsage ==
  ASSUME NEW u \in Usage, NEW n \in Nat
  PROVE  /\ [u EXCEPT !.calls = @ + 1] \in Usage
         /\ [u EXCEPT !.payloads = @ + 1, !.bytes = @ + n] \in Usage
<1>1. u.calls + 1 \in Nat /\ u.payloads + 1 \in Nat /\ u.bytes + n \in Nat
  BY DEF Usage
<1>2. \A a, b \in Nat : /\ [u EXCEPT !.calls = a] \in Usage
                        /\ [u EXCEPT !.payloads = a, !.bytes = b] \in Usage
  BY DEF Usage
<1> QED
  BY <1>1, <1>2

LEMMA ChargedObject ==
  ASSUME NEW o \in Object, NEW n \in Nat
  PROVE  /\ [o EXCEPT !.usage.calls = @ + 1] \in Object
         /\ [o EXCEPT !.usage.calls = @ + 1].mark = o.mark
         /\ [o EXCEPT !.usage.calls = @ + 1].usage = [o.usage EXCEPT !.calls = @ + 1]
         /\ [o EXCEPT !.usage.payloads = @ + 1, !.usage.bytes = @ + n] \in Object
         /\ [o EXCEPT !.usage.payloads = @ + 1, !.usage.bytes = @ + n].mark = o.mark
         /\ [o EXCEPT !.usage.payloads = @ + 1, !.usage.bytes = @ + n].usage
              = [o.usage EXCEPT !.payloads = @ + 1, !.bytes = @ + n]
<1>1. o.usage \in Usage
  BY DEF Object
<1> QED
  BY <1>1, ChargedUsage DEF Object

\* A passage is stopped, or it gets through: every budget it is under could be
\* used, none refused, and each was charged and saved.
LEMMA PassageCases ==
  ASSUME BudgetTypeOK, NEW c \in Calls, NEW refuses, NEW charged \in [Budgets -> Object],
         NEW broken, NEW ACTION out, Passage(c, refuses, charged, broken, out)
  PROVE  \/ Halted(c, charged, broken)
         \/ /\ \A b \in Under(c) : b \notin refuses /\ Usable(b)
            /\ broken = {} /\ Persist(Under(c), charged, broken) /\ out
<1> DEFINE first(S) == {i \in 1 .. Len(Gates[c]) : Gates[c][i] \in S /\ Before(c, i) \cap S = {}}
           unusable == {b \in Under(c) : ~Usable(b)}
           failed == [b \in Budgets |-> Failed(mem[b])]
<1>1. \/ \E i \in first(unusable) :
           LET b == Gates[c][i] IN
           /\ broken \subseteq {b}
           /\ Persist(IF mem[b].failed THEN {} ELSE {b}, failed, broken)
           /\ open' = open \ {c} /\ UNCHANGED <<spent, stall>>
      \/ /\ unusable = {}
         /\ \E i \in first(refuses \cup broken) :
              LET b == Gates[c][i] IN
              /\ broken \subseteq {b}
              /\ Persist(Before(c, i + 1),
                         IF b \in refuses THEN [charged EXCEPT ![b] = failed[b]] ELSE charged,
                         broken)
         /\ open' = open \ {c} /\ UNCHANGED <<spent, stall>>
      \/ /\ unusable = {} /\ first(refuses \cup broken) = {} /\ broken = {}
         /\ Persist(Under(c), charged, broken)
         /\ out
  BY Zenon DEF Passage, Under
<1>2. ASSUME NEW i \in first(unusable),
             LET b == Gates[c][i] IN
             /\ broken \subseteq {b}
             /\ Persist(IF mem[b].failed THEN {} ELSE {b}, failed, broken)
             /\ open' = open \ {c} /\ UNCHANGED <<spent, stall>>
      PROVE  StopsUnusable(c, broken)
  BY <1>2 DEF StopsUnusable
<1>3. ASSUME unusable = {},
             open' = open \ {c} /\ UNCHANGED <<spent, stall>>,
             NEW i \in first(refuses \cup broken),
             LET b == Gates[c][i] IN
             /\ broken \subseteq {b}
             /\ Persist(Before(c, i + 1),
                        IF b \in refuses THEN [charged EXCEPT ![b] = failed[b]] ELSE charged,
                        broken)
      PROVE  StopsAtGate(c, refuses, charged, broken)
  <2>1. Gates[c][i] \in Budgets /\ failed[Gates[c][i]] = Failed(mem[Gates[c][i]])
    BY <1>3, UnderBudgets
  <2>2. \A b \in Under(c) : Usable(b)
    BY <1>3
  <2> HIDE DEF failed, unusable
  <2> QED
    BY <1>3, <2>1, <2>2 DEF StopsAtGate
<1>4. first(refuses \cup broken) = {} /\ broken = {} => first(refuses) = {}
  OBVIOUS
<1>5. ASSUME StopsUnusable(c, broken) \/ StopsAtGate(c, refuses, charged, broken)
      PROVE  Halted(c, charged, broken)
  BY <1>5, StopsHalted
<1>6. ASSUME unusable = {}, first(refuses) = {}
      PROVE  \A b \in Under(c) : b \notin refuses /\ Usable(b)
  BY <1>6, FirstGate
<1> HIDE DEF failed, first, unusable
<1> QED
  BY <1>1, <1>2, <1>3, <1>4, <1>5, <1>6

LEMMA BeginCallCases ==
  ASSUME BudgetTypeOK, NEW c \in Calls, NEW size \in Sizes, NEW broken, BeginCall(c, size, broken)
  PROVE  LET charged == [b \in Budgets |-> [mem[b] EXCEPT !.usage.calls = @ + 1]]
         IN \/ Halted(c, charged, broken)
            \/ /\ \A b \in Under(c) : Usable(b) /\ ~NoCallLeft(b) /\ ~TooLarge(b, size)
               /\ broken = {} /\ Persist(Under(c), charged, broken)
               /\ open' = open \cup {c}
               /\ spent' = [b \in Budgets |-> IF b \in Under(c)
                    THEN [spent[b] EXCEPT !.calls = @ + 1] ELSE spent[b]]
               /\ stall' = [b \in Budgets |->
                    IF b \in Under(c) THEN stall[b] + 1 ELSE stall[b]]
<1> DEFINE charged == [b \in Budgets |-> [mem[b] EXCEPT !.usage.calls = @ + 1]]
           refuses == {b \in Budgets : NoCallLeft(b) \/ TooLarge(b, size)}
           out == /\ open' = open \cup {c}
                  /\ spent' = [b \in Budgets |-> IF b \in Under(c)
                       THEN [spent[b] EXCEPT !.calls = @ + 1] ELSE spent[b]]
                  /\ stall' = [b \in Budgets |->
                       IF b \in Under(c) THEN stall[b] + 1 ELSE stall[b]]
<1>1. Passage(c, refuses, charged, broken, out)
  BY Zenon DEF BeginCall
<1>2. charged \in [Budgets -> Object]
  BY ChargedObject DEF BudgetTypeOK
<1>3. \A b \in Under(c) : b \notin refuses => ~NoCallLeft(b) /\ ~TooLarge(b, size)
  BY UnderBudgets
<1> HIDE DEF charged, refuses
<1>4. \/ Halted(c, charged, broken)
      \/ /\ \A b \in Under(c) : b \notin refuses /\ Usable(b)
         /\ broken = {} /\ Persist(Under(c), charged, broken) /\ out
  BY <1>1, <1>2, PassageCases
<1> QED
  BY <1>3, <1>4, Zenon DEF charged

LEMMA AdmitPayloadCases ==
  ASSUME BudgetTypeOK, NEW c \in Calls, NEW size \in Sizes, NEW broken,
         AdmitPayload(c, size, broken)
  PROVE  LET charged == [b \in Budgets |-> [mem[b] EXCEPT !.usage.payloads = @ + 1,
                                                          !.usage.bytes = @ + size]]
         IN \/ Halted(c, charged, broken)
            \/ /\ \A b \in Under(c) :
                    Usable(b) /\ ~(Bytes[b] /\ mem[b].usage.bytes + size > MaxTotal)
               /\ broken = {} /\ Persist(Under(c), charged, broken)
               /\ spent' = [b \in Budgets |-> IF b \in Under(c)
                    THEN [spent[b] EXCEPT !.payloads = @ + 1, !.bytes = @ + size]
                    ELSE spent[b]]
               /\ UNCHANGED <<open, stall>>
<1> DEFINE charged == [b \in Budgets |-> [mem[b] EXCEPT !.usage.payloads = @ + 1,
                                                        !.usage.bytes = @ + size]]
           refuses == {b \in Budgets : \/ TooLarge(b, size)
                                       \/ Bytes[b] /\ mem[b].usage.bytes + size > MaxTotal}
           out == /\ spent' = [b \in Budgets |-> IF b \in Under(c)
                       THEN [spent[b] EXCEPT !.payloads = @ + 1, !.bytes = @ + size]
                       ELSE spent[b]]
                  /\ UNCHANGED <<open, stall>>
<1>1. Passage(c, refuses, charged, broken, out)
  BY Zenon DEF AdmitPayload
<1>2. charged \in [Budgets -> Object]
  BY ChargedObject, BudgetAssumption DEF BudgetTypeOK
<1>3. \A b \in Under(c) : b \notin refuses => ~(Bytes[b] /\ mem[b].usage.bytes + size > MaxTotal)
  BY UnderBudgets
<1> HIDE DEF charged, refuses
<1>4. \/ Halted(c, charged, broken)
      \/ /\ \A b \in Under(c) : b \notin refuses /\ Usable(b)
         /\ broken = {} /\ Persist(Under(c), charged, broken) /\ out
  BY <1>1, <1>2, PassageCases
<1> QED
  BY <1>3, <1>4, Zenon DEF charged

-----------------------------------------------------------------------------
(* The steps.                                                              *)

LEMMA BudgetTypeStep ==
  ASSUME BudgetTypeOK, [BudgetNext]_budgetVars
  PROVE  BudgetTypeOK'
<1> USE DEF BudgetTypeOK
<1>1. ASSUME NEW changed, NEW next \in [Budgets -> Object], NEW broken,
             Persist(changed, next, broken)
      PROVE  /\ mem' \in [Budgets -> Object] /\ disk' \in [Budgets -> Saved]
             /\ mishaps' \in Nat
  <2>1. \A b \in Budgets : Failed(next[b]) \in Object
    BY FailedType
  <2>2. \A b \in Budgets : Image(next[b]) \in Saved
    BY DEF Image, Object, Saved
  <2> QED
    BY <1>1, <2>1, <2>2 DEF Persist
<1>2. ASSUME NEW c \in Calls, NEW charged \in [Budgets -> Object], NEW broken,
             Halted(c, charged, broken)
      PROVE  BudgetTypeOK'
  <2>1. PICK changed \in SUBSET Budgets, next \in [Budgets -> Object] :
          Persist(changed, next, broken)
    BY <1>2 DEF Halted
  <2> QED
    BY <1>1, <1>2, <2>1 DEF Halted
<1>3. ASSUME NEW c \in Calls, NEW size \in Sizes, NEW broken, BeginCall(c, size, broken)
      PROVE  BudgetTypeOK'
  <2> DEFINE charged == [b \in Budgets |-> [mem[b] EXCEPT !.usage.calls = @ + 1]]
  <2>1. charged \in [Budgets -> Object]
    BY ChargedObject
  <2>2. CASE Halted(c, charged, broken)
    BY <1>2, <2>1, <2>2
  <2>3. CASE /\ Persist(Under(c), charged, broken)
             /\ open' = open \cup {c}
             /\ spent' = [b \in Budgets |-> IF b \in Under(c)
                  THEN [spent[b] EXCEPT !.calls = @ + 1] ELSE spent[b]]
             /\ stall' = [b \in Budgets |->
                  IF b \in Under(c) THEN stall[b] + 1 ELSE stall[b]]
    <3>1. spent' \in [Budgets -> Usage] /\ stall' \in [Budgets -> Nat] /\ open' \subseteq Calls
      BY <2>3 DEF Usage
    <3> QED
      BY <1>1, <2>1, <2>3, <3>1
  <2> QED
    BY <1>3, <2>2, <2>3, BeginCallCases
<1>4. ASSUME NEW c \in Calls, NEW size \in Sizes, NEW broken, AdmitPayload(c, size, broken)
      PROVE  BudgetTypeOK'
  <2> DEFINE charged == [b \in Budgets |-> [mem[b] EXCEPT !.usage.payloads = @ + 1,
                                                          !.usage.bytes = @ + size]]
  <2>1. charged \in [Budgets -> Object]
    BY ChargedObject, BudgetAssumption
  <2>2. CASE Halted(c, charged, broken)
    BY <1>2, <2>1, <2>2
  <2>3. CASE /\ Persist(Under(c), charged, broken)
             /\ spent' = [b \in Budgets |-> IF b \in Under(c)
                  THEN [spent[b] EXCEPT !.payloads = @ + 1, !.bytes = @ + size]
                  ELSE spent[b]]
             /\ UNCHANGED <<open, stall>>
    <3>1. spent' \in [Budgets -> Usage]
      <4>1. \A b \in Budgets : [spent[b] EXCEPT !.payloads = @ + 1, !.bytes = @ + size] \in Usage
        BY ChargedUsage, BudgetAssumption
      <4> QED
        BY <2>3, <4>1
    <3> QED
      BY <1>1, <2>1, <2>3, <3>1
  <2> QED
    BY <1>4, <2>2, <2>3, AdmitPayloadCases
<1>5. ASSUME NEW b \in Budgets, NEW m \in Milestones, NEW broken,
             RecordValidatedProgress(b, m, broken)
      PROVE  BudgetTypeOK'
  <2>1. [mem EXCEPT ![b] = Failed(@)] \in [Budgets -> Object]
    BY FailedType
  <2>2. [mem EXCEPT ![b].seen = @ \cup {m}, ![b].mark = mem[b].usage.calls] \in [Budgets -> Object]
    BY DEF Object, Usage
  <2>3. CASE mem[b].closed
    <3>1. Persist({b}, [mem EXCEPT ![b] = Failed(@)], broken)
      BY <1>5, <2>3, Zenon DEF RecordValidatedProgress
    <3>2. UNCHANGED <<open, spent, stall>>
      BY <1>5, <2>3 DEF RecordValidatedProgress
    <3> QED
      BY <1>1, <2>1, <3>1, <3>2
  <2>4. CASE ~mem[b].closed
    <3>1. Persist({b}, [mem EXCEPT ![b].seen = @ \cup {m}, ![b].mark = mem[b].usage.calls], broken)
      BY <1>5, <2>4, Zenon DEF RecordValidatedProgress
    <3>2. UNCHANGED <<open, spent>> /\ stall' \in [Budgets -> Nat]
      BY <1>5, <2>4 DEF RecordValidatedProgress
    <3> QED
      BY <1>1, <2>2, <3>1, <3>2
  <2> QED
    BY <2>3, <2>4
<1>6. ASSUME NEW c \in Calls, EndCall(c)
      PROVE  BudgetTypeOK'
  BY <1>6 DEF EndCall
<1>7. ASSUME NEW b \in Budgets, Close(b)
      PROVE  BudgetTypeOK'
  BY <1>7 DEF Close, Object
<1>8. CASE NewProcess
  <2>1. disk' \in [Budgets -> Saved]
    BY <1>8 DEF NewProcess, Saved, Unused, Zero, Usage
  <2>2. \A d \in Saved : Loaded(d) \in Object
    BY DEF Loaded, Saved, Object
  <2>3. mem' \in [Budgets -> Object]
    BY <1>8, <2>1, <2>2 DEF NewProcess
  <2> QED
    BY <1>8, <2>1, <2>3 DEF NewProcess, Zero, Usage
<1>9. CASE UNCHANGED budgetVars
  BY <1>9 DEF budgetVars
<1> QED
  BY <1>3, <1>4, <1>5, <1>6, <1>7, <1>8, <1>9 DEF BudgetNext

\* The fields of what is charged.
LEMMA ChargedFields ==
  ASSUME BudgetTypeOK, NEW size \in Sizes, NEW b \in Budgets
  PROVE  LET call == [mem[b] EXCEPT !.usage.calls = @ + 1]
             payload == [mem[b] EXCEPT !.usage.payloads = @ + 1, !.usage.bytes = @ + size]
         IN /\ call \in Object /\ call.mark = mem[b].mark
            /\ call.usage.calls = mem[b].usage.calls + 1
            /\ call.usage.payloads = mem[b].usage.payloads
            /\ call.usage.bytes = mem[b].usage.bytes
            /\ payload \in Object /\ payload.mark = mem[b].mark
            /\ payload.usage.calls = mem[b].usage.calls
            /\ payload.usage.payloads = mem[b].usage.payloads + 1
            /\ payload.usage.bytes = mem[b].usage.bytes + size
<1>1. mem[b] \in Object /\ mem[b].usage \in Usage /\ size \in Nat
  BY BudgetAssumption DEF BudgetTypeOK, Object
<1>2. \A u \in Usage : /\ [u EXCEPT !.calls = @ + 1].calls = u.calls + 1
                       /\ [u EXCEPT !.calls = @ + 1].payloads = u.payloads
                       /\ [u EXCEPT !.calls = @ + 1].bytes = u.bytes
                       /\ [u EXCEPT !.payloads = @ + 1, !.bytes = @ + size].calls = u.calls
                       /\ [u EXCEPT !.payloads = @ + 1, !.bytes = @ + size].payloads = u.payloads + 1
                       /\ [u EXCEPT !.payloads = @ + 1, !.bytes = @ + size].bytes = u.bytes + size
  BY DEF Usage
<1> QED
  BY <1>1, <1>2, ChargedObject

\* The numbers the arithmetic is about.
LEMMA NumbersOf ==
  ASSUME BudgetTypeOK, NEW b \in Budgets
  PROVE  /\ mem[b] \in Object /\ mem[b].usage \in Usage /\ mem[b].mark \in Nat
         /\ mem[b].usage.calls \in Nat /\ mem[b].usage.payloads \in Nat /\ mem[b].usage.bytes \in Nat
         /\ disk[b] \in Saved /\ disk[b].mark \in Nat /\ disk[b].usage.calls \in Nat
         /\ spent[b] \in Usage
         /\ spent[b].calls \in Nat /\ spent[b].payloads \in Nat /\ spent[b].bytes \in Nat
         /\ stall[b] \in Nat
BY DEF BudgetTypeOK, Object, Saved, Usage

LEMMA BeginCallStep ==
  ASSUME BudgetInv, BudgetTypeOK', NEW c \in Calls, NEW size \in Sizes, NEW broken,
         BeginCall(c, size, broken), NEW b \in Budgets
  PROVE  BudgetSound(b)' /\ WithinLimits(b)'
<1> DEFINE charged == [a \in Budgets |-> [mem[a] EXCEPT !.usage.calls = @ + 1]]
<1>1. BudgetTypeOK /\ BudgetSound(b) /\ WithinLimits(b)
  BY DEF BudgetInv
<1>2. /\ charged \in [Budgets -> Object]
      /\ \A a \in Budgets : /\ charged[a].mark = mem[a].mark
                            /\ charged[a].usage.calls = mem[a].usage.calls + 1
                            /\ charged[a].usage.payloads = mem[a].usage.payloads
                            /\ charged[a].usage.bytes = mem[a].usage.bytes
  BY <1>1, ChargedFields
<1>3. CASE Halted(c, charged, broken)
  <2>1. \A a \in Budgets : /\ charged[a].mark = mem[a].mark
                           /\ charged[a].usage.calls >= mem[a].usage.calls
                           /\ charged[a].usage.payloads >= mem[a].usage.payloads
                           /\ charged[a].usage.bytes >= mem[a].usage.bytes
    <3> HIDE DEF charged
    <3> QED
      BY <1>1, <1>2, NumbersOf
  <2> HIDE DEF charged
  <2> QED
    BY <1>2, <1>3, <2>1, HaltedStep
<1>4. CASE /\ \A a \in Under(c) : Usable(a) /\ ~NoCallLeft(a) /\ ~TooLarge(a, size)
           /\ broken = {} /\ Persist(Under(c), charged, broken)
           /\ open' = open \cup {c}
           /\ spent' = [a \in Budgets |-> IF a \in Under(c)
                THEN [spent[a] EXCEPT !.calls = @ + 1] ELSE spent[a]]
           /\ stall' = [a \in Budgets |->
                IF a \in Under(c) THEN stall[a] + 1 ELSE stall[a]]
  <2> HIDE DEF charged
  <2>1. spent'[b] \in Usage /\ stall'[b] \in Nat
    BY DEF BudgetTypeOK
  <2>2. CASE b \notin Under(c)
    <3>1. spent'[b] = spent[b] /\ stall'[b] = stall[b]
      BY <1>4, <2>2
    <3>2. BudgetSound(b)'
      BY <1>1, <1>2, <1>4, <2>1, <2>2, <3>1, PersistSound
    <3> QED
      BY <1>1, <3>1, <3>2 DEF WithinLimits
  <2>3. CASE b \in Under(c)
    <3>1. /\ spent'[b].calls = spent[b].calls + 1 /\ spent'[b].payloads = spent[b].payloads
          /\ spent'[b].bytes = spent[b].bytes /\ stall'[b] = stall[b] + 1
      BY <1>1, <1>4, <2>3, NumbersOf DEF Usage
    <3>2. /\ ~mem[b].failed /\ stall[b] <= mem[b].usage.calls - mem[b].mark
          /\ mem[b].mark <= mem[b].usage.calls
          /\ spent[b].calls <= mem[b].usage.calls
          /\ spent[b].payloads <= mem[b].usage.payloads
          /\ spent[b].bytes <= mem[b].usage.bytes
      BY <1>1, <1>4, <2>3 DEF BudgetSound, Covers, Window, Usable
    <3>3. /\ charged[b].mark <= charged[b].usage.calls
          /\ spent'[b].calls <= charged[b].usage.calls
          /\ spent'[b].payloads <= charged[b].usage.payloads
          /\ spent'[b].bytes <= charged[b].usage.bytes
          /\ stall'[b] <= charged[b].usage.calls - charged[b].mark
      BY <1>1, <1>2, <3>1, <3>2, NumbersOf
    <3>4. BudgetSound(b)'
      <4>1. Covers(charged[b].usage, spent'[b]) /\ stall'[b] <= Window(charged[b])
        BY <3>3 DEF Covers, Window
      <4> QED
        BY <1>1, <1>2, <1>4, <2>1, <2>3, <3>2, <3>3, <4>1, PersistSound
    <3>5. CallsMode[b] = "enforce" => spent'[b].calls <= MaxCalls
      BY <1>1, <1>4, <2>3, <3>1, <3>2, NumbersOf, BudgetAssumption DEF NoCallLeft
    <3>6. CallsMode[b] = "progress" => stall'[b] <= MaxCalls
      <4>1. CallsMode[b] = "progress" => ~(mem[b].usage.calls - mem[b].mark >= MaxCalls)
        BY <1>4, <2>3 DEF NoCallLeft
      <4>2. MaxCalls \in Nat
        BY BudgetAssumption
      <4> QED
        BY <1>1, <3>1, <3>2, <4>1, <4>2, NumbersOf
    <3> QED
      BY <1>1, <3>1, <3>4, <3>5, <3>6 DEF WithinLimits
  <2> QED
    BY <2>2, <2>3
<1> QED
  BY <1>1, <1>3, <1>4, BeginCallCases

LEMMA AdmitPayloadStep ==
  ASSUME BudgetInv, BudgetTypeOK', NEW c \in Calls, NEW size \in Sizes, NEW broken,
         AdmitPayload(c, size, broken), NEW b \in Budgets
  PROVE  BudgetSound(b)' /\ WithinLimits(b)'
<1> DEFINE charged == [a \in Budgets |-> [mem[a] EXCEPT !.usage.payloads = @ + 1,
                                                        !.usage.bytes = @ + size]]
<1>1. BudgetTypeOK /\ BudgetSound(b) /\ WithinLimits(b) /\ size \in Nat
  BY BudgetAssumption DEF BudgetInv
<1>2. /\ charged \in [Budgets -> Object]
      /\ \A a \in Budgets : /\ charged[a].mark = mem[a].mark
                            /\ charged[a].usage.calls = mem[a].usage.calls
                            /\ charged[a].usage.payloads = mem[a].usage.payloads + 1
                            /\ charged[a].usage.bytes = mem[a].usage.bytes + size
  BY <1>1, ChargedFields
<1>3. CASE Halted(c, charged, broken)
  <2>1. \A a \in Budgets : /\ charged[a].mark = mem[a].mark
                           /\ charged[a].usage.calls >= mem[a].usage.calls
                           /\ charged[a].usage.payloads >= mem[a].usage.payloads
                           /\ charged[a].usage.bytes >= mem[a].usage.bytes
    <3> HIDE DEF charged
    <3> QED
      BY <1>1, <1>2, NumbersOf
  <2> HIDE DEF charged
  <2> QED
    BY <1>2, <1>3, <2>1, HaltedStep
<1>4. CASE /\ \A a \in Under(c) : Usable(a) /\ ~(Bytes[a] /\ mem[a].usage.bytes + size > MaxTotal)
           /\ broken = {} /\ Persist(Under(c), charged, broken)
           /\ spent' = [a \in Budgets |-> IF a \in Under(c)
                THEN [spent[a] EXCEPT !.payloads = @ + 1, !.bytes = @ + size] ELSE spent[a]]
           /\ UNCHANGED <<open, stall>>
  <2> HIDE DEF charged
  <2>1. spent'[b] \in Usage /\ stall'[b] \in Nat /\ stall'[b] = stall[b]
    BY <1>4 DEF BudgetTypeOK
  <2>2. CASE b \notin Under(c)
    <3>1. spent'[b] = spent[b]
      BY <1>4, <2>2
    <3>2. BudgetSound(b)'
      BY <1>1, <1>2, <1>4, <2>1, <2>2, <3>1, PersistSound
    <3> QED
      BY <1>1, <2>1, <3>1, <3>2 DEF WithinLimits
  <2>3. CASE b \in Under(c)
    <3>1. /\ spent'[b].calls = spent[b].calls /\ spent'[b].payloads = spent[b].payloads + 1
          /\ spent'[b].bytes = spent[b].bytes + size
      BY <1>1, <1>4, <2>3, NumbersOf DEF Usage
    <3>2. /\ ~mem[b].failed /\ stall[b] <= mem[b].usage.calls - mem[b].mark
          /\ mem[b].mark <= mem[b].usage.calls
          /\ spent[b].calls <= mem[b].usage.calls
          /\ spent[b].payloads <= mem[b].usage.payloads
          /\ spent[b].bytes <= mem[b].usage.bytes
      BY <1>1, <1>4, <2>3 DEF BudgetSound, Covers, Window, Usable
    <3>3. /\ charged[b].mark <= charged[b].usage.calls
          /\ spent'[b].calls <= charged[b].usage.calls
          /\ spent'[b].payloads <= charged[b].usage.payloads
          /\ spent'[b].bytes <= charged[b].usage.bytes
          /\ stall'[b] <= charged[b].usage.calls - charged[b].mark
      BY <1>1, <1>2, <2>1, <3>1, <3>2, NumbersOf
    <3>4. BudgetSound(b)'
      <4>1. Covers(charged[b].usage, spent'[b]) /\ stall'[b] <= Window(charged[b])
        BY <3>3 DEF Covers, Window
      <4> QED
        BY <1>1, <1>2, <1>4, <2>1, <2>3, <3>2, <3>3, <4>1, PersistSound
    <3>5. Bytes[b] => spent'[b].bytes <= MaxTotal
      <4>1. Bytes[b] => ~(mem[b].usage.bytes + size > MaxTotal)
        BY <1>4, <2>3
      <4>2. MaxTotal \in Nat
        BY BudgetAssumption
      <4> QED
        BY <1>1, <3>1, <3>2, <4>1, <4>2, NumbersOf
    <3> QED
      BY <1>1, <2>1, <3>1, <3>4, <3>5 DEF WithinLimits
  <2> QED
    BY <2>2, <2>3
<1> QED
  BY <1>1, <1>3, <1>4, AdmitPayloadCases

LEMMA ProgressStep ==
  ASSUME BudgetInv, BudgetTypeOK', NEW a \in Budgets, NEW m \in Milestones, NEW broken,
         RecordValidatedProgress(a, m, broken), NEW b \in Budgets
  PROVE  BudgetSound(b)' /\ WithinLimits(b)'
<1>1. BudgetTypeOK /\ BudgetSound(b) /\ WithinLimits(b)
  BY DEF BudgetInv
<1>2. spent' = spent /\ ~mem[a].failed
  BY DEF RecordValidatedProgress
<1>3. stall'[b] = stall[b] \/ (stall'[b] = 0 /\ b = a /\ broken = {})
  BY <1>1 DEF RecordValidatedProgress, BudgetTypeOK
<1>4. WithinLimits(b)'
  <2>1. MaxCalls \in Nat /\ 0 <= MaxCalls
    BY BudgetAssumption
  <2> QED
    BY <1>1, <1>2, <1>3, <2>1 DEF WithinLimits
<1>5. /\ spent'[b] = spent[b] /\ spent'[b] \in Usage /\ stall'[b] \in Nat
      /\ b \in broken => b \in {a} /\ stall'[b] = stall[b]
      /\ b \notin {a} => stall'[b] = stall[b]
  BY <1>2, <1>3 DEF BudgetTypeOK, RecordValidatedProgress
<1>6. BudgetSound(b)'
  <2>1. CASE mem[a].closed
    <3> DEFINE next == [mem EXCEPT ![a] = Failed(@)]
    <3>1. Persist({a}, next, broken) /\ stall' = stall
      BY <2>1, Zenon DEF RecordValidatedProgress
    <3>2. next \in [Budgets -> Object]
      BY <1>1, FailedType DEF BudgetTypeOK
    <3>3. b = a => next[b].usage = mem[b].usage /\ next[b].mark = mem[b].mark
      BY <1>1, FailedType DEF BudgetTypeOK
    <3> HIDE DEF next
    <3>4. b = a => /\ next[b].mark <= next[b].usage.calls
                   /\ Covers(next[b].usage, spent[b]) /\ stall[b] <= Window(next[b])
      BY <1>1, <1>2, <3>3 DEF BudgetSound, Covers, Window
    <3> QED
      BY <1>1, <1>2, <1>5, <3>1, <3>2, <3>4, PersistSound
  <2>2. CASE ~mem[a].closed
    <3> DEFINE next == [mem EXCEPT ![a].seen = @ \cup {m}, ![a].mark = mem[a].usage.calls]
    <3>1. Persist({a}, next, broken)
      BY <2>2, Zenon DEF RecordValidatedProgress
    <3>2. next \in [Budgets -> Object]
      BY <1>1, NumbersOf DEF BudgetTypeOK, Object
    <3>3. next[a].usage = mem[a].usage /\ next[a].mark = mem[a].usage.calls
      BY <1>1, NumbersOf DEF BudgetTypeOK, Object
    <3>4. broken = {} => stall'[a] = 0
      BY <1>1, <2>2 DEF RecordValidatedProgress, IsNew, BudgetTypeOK
    <3> HIDE DEF next
    <3>5. b = a => next[b].mark <= next[b].usage.calls /\ Covers(next[b].usage, spent[b])
      BY <1>1, <3>3, NumbersOf DEF BudgetSound, Covers
    <3>6. b = a /\ b \notin broken => stall'[b] <= Window(next[b])
      <4>1. broken \subseteq {a}
        BY DEF RecordValidatedProgress
      <4> QED
        BY <1>1, <3>3, <3>4, <4>1, NumbersOf DEF Window
    <3> QED
      BY <1>1, <1>2, <1>5, <3>1, <3>2, <3>5, <3>6, PersistSound
  <2> QED
    BY <2>1, <2>2
<1> QED
  BY <1>4, <1>6

LEMMA NewProcessStep ==
  ASSUME BudgetInv, NewProcess, NEW b \in Budgets
  PROVE  BudgetSound(b)' /\ WithinLimits(b)'
<1>1. BudgetTypeOK /\ BudgetSound(b) /\ WithinLimits(b)
  BY DEF BudgetInv
<1>2. CASE b \in Kept
  <2>1. /\ disk'[b] = disk[b] /\ mem'[b] = Loaded(disk[b])
        /\ spent'[b] = spent[b] /\ stall'[b] = stall[b]
    BY <1>1, <1>2 DEF NewProcess
  <2>2. /\ Loaded(disk[b]).usage = disk[b].usage /\ Loaded(disk[b]).mark = disk[b].mark
        /\ Loaded(disk[b]).failed = disk[b].failed
    BY DEF Loaded
  <2> QED
    BY <1>1, <1>2, <2>1, <2>2 DEF BudgetSound, WithinLimits, Covers, Window
<1>3. CASE b \notin Kept
  <2>1. /\ disk'[b] = Unused /\ mem'[b] = Loaded(Unused)
        /\ spent'[b] = Zero /\ stall'[b] = 0
    BY <1>1, <1>3 DEF NewProcess
  <2>2. 0 <= MaxCalls /\ 0 <= MaxTotal
    BY BudgetAssumption
  <2> QED
    BY <1>3, <2>1, <2>2 DEF BudgetSound, WithinLimits, Covers, Window, Loaded, Unused, Zero
<1> QED
  BY <1>2, <1>3

LEMMA BudgetStep ==
  ASSUME BudgetInv, [BudgetNext]_budgetVars
  PROVE  BudgetInv'
<1>1. BudgetTypeOK'
  BY BudgetTypeStep DEF BudgetInv
<1>2. ASSUME NEW b \in Budgets
      PROVE  BudgetSound(b)' /\ WithinLimits(b)'
  <2>0. BudgetTypeOK /\ BudgetSound(b) /\ WithinLimits(b)
    BY DEF BudgetInv
  <2>1. CASE UNCHANGED <<mem, disk, spent, stall>>
    BY <2>0, <2>1 DEF BudgetSound, WithinLimits
  <2>2. ASSUME NEW a \in Budgets, Close(a)
        PROVE  BudgetSound(b)' /\ WithinLimits(b)'
    <3>1. UNCHANGED <<disk, spent, stall>>
      BY <2>2 DEF Close
    <3>2. /\ mem'[b].usage = mem[b].usage /\ mem'[b].mark = mem[b].mark
          /\ mem'[b].failed = mem[b].failed
      BY <2>0, <2>2 DEF Close, BudgetTypeOK, Object
    <3> QED
      BY <2>0, <3>1, <3>2 DEF BudgetSound, WithinLimits, Covers, Window
  <2> QED
    BY <1>1, <2>1, <2>2, BeginCallStep, AdmitPayloadStep, ProgressStep, NewProcessStep
    DEF BudgetNext, EndCall, budgetVars
<1> QED
  BY <1>1, <1>2 DEF BudgetInv

LEMMA InitBudget == BudgetInit => BudgetInv
<1> SUFFICES ASSUME BudgetInit
             PROVE  BudgetInv
  OBVIOUS
<1>1. BudgetTypeOK
  BY DEF BudgetInit, BudgetTypeOK, Loaded, Unused, Zero, Object, Saved, Usage
<1>2. ASSUME NEW b \in Budgets
      PROVE  BudgetSound(b) /\ WithinLimits(b)
  <2>1. 0 <= MaxCalls /\ 0 <= MaxTotal
    BY BudgetAssumption
  <2>2. mem[b] = Loaded(Unused) /\ disk[b] = Unused /\ spent[b] = Zero /\ stall[b] = 0
    BY DEF BudgetInit
  <2> QED
    BY <2>1, <2>2 DEF BudgetSound, WithinLimits, Covers, Window, Loaded, Unused, Zero
<1> QED
  BY <1>1, <1>2 DEF BudgetInv

LEMMA BudgetInductive == BudgetSpec => []BudgetInv
BY InitBudget, BudgetStep, PTL DEF BudgetSpec

\* Every variable of the budgets keeps its type.
THEOREM BudgetTypeCorrect == BudgetSpec => []BudgetTypeOK
<1>1. BudgetInv => BudgetTypeOK
  BY DEF BudgetInv
<1> QED
  BY <1>1, BudgetInductive, PTL

\* However calls, retries, failing saves and restarts interleave, what went out
\* is counted in every saved budget and no enforced limit is passed.
THEOREM LimitsAlwaysHold == BudgetSpec => []LimitsHold
<1>1. BudgetInv => LimitsHold
  BY DEF BudgetInv, BudgetSound, WithinLimits, Covers, LimitsHold
<1> QED
  BY <1>1, BudgetInductive, PTL

\* What is sent is sent under budgets that are open and not stopped, and a stop
\* that was saved outlives every restart.
THEOREM StoppedStaysStopped == BudgetSpec => StoppedForGood
<1> DEFINE Stopped(b) ==
      /\ spent'[b].payloads > spent[b].payloads =>
           ~mem[b].closed /\ ~mem[b].failed /\ ~disk[b].failed
      /\ b \in Kept /\ disk[b].failed => disk'[b].failed
<1>1. ASSUME BudgetInv, [BudgetNext]_budgetVars, NEW b \in Budgets
      PROVE  Stopped(b)
  <2>1. BudgetTypeOK /\ BudgetSound(b)
    BY <1>1 DEF BudgetInv
  <2>2. disk[b].failed => mem[b].failed
    BY <2>1 DEF BudgetSound
  <2>3. CASE UNCHANGED <<disk, spent>>
    BY <2>1, <2>3, NumbersOf
  <2>4. ASSUME NEW changed, NEW next, NEW broken, Persist(changed, next, broken),
               \A a \in changed : ~mem[a].failed
        PROVE  disk[b].failed => disk'[b].failed
    BY <2>2, <2>4 DEF Persist
  <2>5. ASSUME NEW c \in Calls, NEW charged, NEW broken, Halted(c, charged, broken)
        PROVE  Stopped(b)
    <3>1. spent' = spent /\ (disk[b].failed => disk'[b].failed)
      BY <2>4, <2>5 DEF Halted, Usable
    <3> QED
      BY <2>1, <3>1, NumbersOf
  <2>6. ASSUME NEW c \in Calls, NEW charged, NEW broken, Persist(Under(c), charged, broken),
               \A a \in Under(c) : Usable(a),
               b \notin Under(c) => spent'[b] = spent[b]
        PROVE  Stopped(b)
    <3>1. disk[b].failed => disk'[b].failed
      BY <2>4, <2>6 DEF Usable
    <3>2. CASE b \in Under(c)
      BY <2>2, <2>6, <3>1, <3>2 DEF Usable
    <3>3. CASE b \notin Under(c)
      BY <2>1, <2>6, <3>1, <3>3, NumbersOf
    <3> QED
      BY <3>2, <3>3
  <2>7. ASSUME NEW c \in Calls, NEW size \in Sizes, NEW broken, BeginCall(c, size, broken)
        PROVE  Stopped(b)
    <3> DEFINE charged == [a \in Budgets |-> [mem[a] EXCEPT !.usage.calls = @ + 1]]
    <3>1. CASE Halted(c, charged, broken)
      BY <2>5, <3>1
    <3>2. CASE /\ \A a \in Under(c) : Usable(a)
               /\ Persist(Under(c), charged, broken)
               /\ spent' = [a \in Budgets |-> IF a \in Under(c)
                    THEN [spent[a] EXCEPT !.calls = @ + 1] ELSE spent[a]]
      <4> HIDE DEF charged
      <4> QED
        BY <2>6, <3>2
    <3> QED
      BY <2>1, <2>7, <3>1, <3>2, BeginCallCases
  <2>8. ASSUME NEW c \in Calls, NEW size \in Sizes, NEW broken, AdmitPayload(c, size, broken)
        PROVE  Stopped(b)
    <3> DEFINE charged == [a \in Budgets |-> [mem[a] EXCEPT !.usage.payloads = @ + 1,
                                                            !.usage.bytes = @ + size]]
    <3>1. CASE Halted(c, charged, broken)
      BY <2>5, <3>1
    <3>2. CASE /\ \A a \in Under(c) : Usable(a)
               /\ Persist(Under(c), charged, broken)
               /\ spent' = [a \in Budgets |-> IF a \in Under(c)
                    THEN [spent[a] EXCEPT !.payloads = @ + 1, !.bytes = @ + size] ELSE spent[a]]
      <4> HIDE DEF charged
      <4> QED
        BY <2>6, <3>2
    <3> QED
      BY <2>1, <2>8, <3>1, <3>2, AdmitPayloadCases
  <2>9. ASSUME NEW a \in Budgets, NEW m \in Milestones, NEW broken,
               RecordValidatedProgress(a, m, broken)
        PROVE  Stopped(b)
    <3>1. spent' = spent /\ (disk[b].failed => disk'[b].failed)
      <4>1. \E next : Persist({a}, next, broken)
        BY <2>9, Zenon DEF RecordValidatedProgress
      <4> QED
        BY <2>4, <2>9, <4>1 DEF RecordValidatedProgress
    <3> QED
      BY <2>1, <3>1, NumbersOf
  <2>10. CASE NewProcess
    <3>1. CASE b \in Kept
      BY <2>1, <2>10, <3>1, NumbersOf DEF NewProcess, BudgetTypeOK
    <3>2. CASE b \notin Kept
      <4>1. spent'[b].payloads = 0 /\ spent[b].payloads \in Nat
        BY <2>1, <2>10, <3>2, NumbersOf DEF NewProcess, Zero
      <4> QED
        BY <3>2, <4>1
    <3> QED
      BY <3>1, <3>2
  <2> HIDE DEF Stopped
  <2> QED
    BY <1>1, <2>3, <2>7, <2>8, <2>9, <2>10 DEF BudgetNext, EndCall, Close, budgetVars
<1>2. BudgetInv /\ [BudgetNext]_budgetVars => [\A b \in Budgets : Stopped(b)]_budgetVars
  BY <1>1
<1> QED
  BY <1>2, BudgetInductive, PTL DEF BudgetSpec, StoppedForGood

-----------------------------------------------------------------------------
(***************************************************************************)
(* Traces of moves, when one process at a time has the workspace           *)
(* (Store = {h}), for any runs, deaths and commits.  TraceInv says what    *)
(* the three files of a run owe to its log and to the job in hand;         *)
(* MovesInv ties each move to its audit, its trace and the history.        *)
(***************************************************************************)

\* The types of the files and the jobs.
Ops == {"idle", "create-manifest", "create-log", "write-index", "write-manifest",
        "visit", "repair"}
Shown == [Run -> Statuses \cup {"absent"}]
Jobs == [op : Ops, run : Run \cup {NoRun}, held : Manifests \cup {NoManifest},
         todo : SUBSET Run, shown : Shown]

TraceTypeOK ==
  /\ directory \subseteq Run
  /\ manifest \in [Run -> Manifests \cup {NoManifest}]
  /\ log \in [Run -> Seq(Events) \cup {NoLog}]
  /\ index \in Shown
  /\ store \in [Store -> {"down", "fresh", "loading", "up"}]
  /\ job \in [Store -> Jobs]
  /\ deaths \in Nat

\* What manifest and index may say of a run while they lag behind its log.
Said(r) == {"running", Ending(log[r])}

\* Manifest and index say what the log says.
Synced(r) == manifest[r] = Replayed(log[r])

FilesInv(r) ==
  /\ r \notin directory => manifest[r] = NoManifest /\ log[r] = NoLog /\ ~Known(r)
  /\ log[r] # NoLog => log[r] \in Seq(Events) /\ Readable(log[r])
  /\ Known(r) => /\ log[r] # NoLog /\ manifest[r] # NoManifest
                 /\ manifest[r].status \in Said(r) /\ index[r] \in Said(r)

\* What the files of the run that the job is on owe to the job.
JobInv(s) ==
  LET j == job[s]
      r == j.run
  IN
  /\ j.op = "idle" => store[s] # "loading" /\ r = NoRun
  /\ store[s] \in {"down", "fresh"} => j.op = "idle"
  /\ store[s] = "loading" <=> j.op \in {"visit", "repair"}
  /\ j.op \notin {"idle", "visit"} => r \in Run /\ r \in directory
  /\ j.op = "create-manifest" => manifest[r] = NoManifest /\ log[r] = NoLog /\ ~Known(r)
  /\ j.op = "create-log" =>
       /\ j.held = NewManifest /\ manifest[r] = NewManifest /\ log[r] = NoLog /\ ~Known(r)
  /\ j.op = "write-manifest" => Known(r) /\ j.held = Replayed(log[r])
  /\ j.op = "write-index" =>
       /\ log[r] # NoLog /\ j.held = Replayed(log[r]) /\ manifest[r] = j.held
       /\ index[r] \in {"absent"} \cup Said(r)
  /\ j.op = "repair" => r \in j.todo /\ j.held = Replayed(log[r])

SyncInv(s) ==
  LET j == job[s] IN
  /\ store[s] = "up" =>
       \A r \in Run : Known(r) /\ r # j.run => Synced(r) /\ index[r] = manifest[r].status
  /\ store[s] = "loading" =>
       \A r \in Run : /\ r \in j.todo => Known(r)
                      /\ j.shown[r] = "absent" <=> ~Known(r)
                      /\ Known(r) /\ r \notin j.todo =>
                           Synced(r) /\ j.shown[r] = manifest[r].status

TraceInv(s) ==
  /\ TraceTypeOK
  /\ \A r \in Run : FilesInv(r)
  /\ JobInv(s) /\ SyncInv(s)

-----------------------------------------------------------------------------
(* Moves.                                                                  *)

Early == {"created", "working", "announced"}
Resolved == {"resolved", "audited", "observed", "linked"}
Throwing == {"throwing", "failing"}
Live == Early \cup Resolved \cup Throwing \cup {"ended"}
Quiet == Early \cup {"resolved", "audited", "throwing", "failing"}
Gone == {"cancelled", "rejected", "not-observed"}

MoveTypeOK ==
  /\ chain \in Seq(Run) /\ attached \in BOOLEAN
  /\ audit \in [Run -> Audits \cup {NoAudit}]
  /\ move \in [Run -> [at : Live \cup {"none", "over", "dead"}, host : Store \cup {NoStore},
                       head : Nat, crossed : BOOLEAN, accepted : BOOLEAN]]
  /\ recovery \in [Store -> {"pending", "done"}]

MoveInv(s, r) ==
  LET m == move[r] IN
  /\ m.host = IF m.at \in Live THEN s ELSE NoStore
  /\ m.at \in Live => recovery[s] = "done"
  /\ m.at = "none" => /\ r \notin directory /\ audit[r] = NoAudit /\ ~Committed(r)
                      /\ ~m.crossed /\ ~m.accepted
  /\ m.at \in Early => ~m.crossed /\ ~m.accepted /\ ~Committed(r)
  /\ m.at \in Early \cup Throwing => audit[r] = NoAudit
  /\ m.at \in Resolved => (m.accepted <=> Committed(r)) /\ (m.accepted => m.crossed)
  /\ m.at \in Throwing => m.crossed
  /\ m.at \in {"ended", "over"} => log[r] # NoLog /\ EndsOf(log[r]) # {}
  /\ m.at \in Quiet => "commit-completed" \notin Kinds(r)
  /\ m.at \in Live \ {"ended"} => Kinds(r) \cap ({"committed"} \cup Gone) = {}
  /\ audit[r] # NoAudit => (audit[r].accepted <=> Committed(r))
  /\ Kinds(r) \cap {"commit-completed", "committed"} # {} => Committed(r)
  /\ Kinds(r) \cap Gone # {} => ~Committed(r)
  /\ Committed(r) => Len(chain) > m.head
  /\ HostInterrupted(r) => m.at = "dead"

-----------------------------------------------------------------------------
(* Logs.                                                                   *)

LEMMA KindsApart ==
  /\ Ends \cap Verdicts = {} /\ Ends \cap Marks = {} /\ Marks \cap Verdicts = {}
  /\ "running" \notin Ends
BY DEF Ends, Verdicts, Marks

\* A log that can be read has one end at most, which is what its replay says.
LEMMA OneEnd ==
  ASSUME NEW l \in Seq(Events), Readable(l), NEW i \in EndsOf(l)
  PROVE  EndsOf(l) = {i} /\ Ending(l) = l[i].kind /\ l[i].kind \in Ends
<1>1. \A k \in EndsOf(l) : k = i
  <2>1. \A j, k \in EndsOf(l) : ~(k > j)
    BY KindsApart DEF Readable, EndsOf
  <2>2. EndsOf(l) \subseteq Int
    BY DEF EndsOf
  <2> QED
    BY <2>1, <2>2
<1>2. EndsOf(l) = {i}
  BY <1>1
<1> QED
  BY <1>2 DEF Ending, EndsOf

LEMMA ReplayedType ==
  ASSUME NEW l \in Seq(Events), Readable(l)
  PROVE  /\ Replayed(l) \in Manifests /\ Replayed(l).status = Ending(l)
         /\ Replayed(l).lastSeq = Len(l)
         /\ Ending(l) = "running" <=> EndsOf(l) = {}
         /\ Ending(l) \in Statuses
<1>1. CASE EndsOf(l) = {}
  BY <1>1 DEF Ending, Replayed, Manifests, Statuses, Errors
<1>2. CASE EndsOf(l) # {}
  <2>1. PICK i \in EndsOf(l) : TRUE
    BY <1>2
  <2>2. Ending(l) \in Ends
    BY <2>1, OneEnd
  <2> QED
    BY <1>2, <2>2, KindsApart DEF Replayed, Manifests, Statuses, Errors
<1> QED
  BY <1>1, <1>2

LEMMA AppendedLog ==
  ASSUME NEW l \in Seq(Events), NEW e \in Events
  PROVE  /\ Append(l, e) \in Seq(Events) /\ Len(Append(l, e)) = Len(l) + 1
         /\ DOMAIN l = 1 .. Len(l) /\ DOMAIN Append(l, e) = 1 .. Len(l) + 1
         /\ \A i \in DOMAIN l : Append(l, e)[i] = l[i]
         /\ Append(l, e)[Len(l) + 1] = e
         /\ EndsOf(Append(l, e)) = EndsOf(l) \cup IF e.kind \in Ends THEN {Len(l) + 1} ELSE {}
<1>1. /\ Append(l, e) \in Seq(Events) /\ Len(Append(l, e)) = Len(l) + 1 /\ Len(l) \in Nat
      /\ DOMAIN l = 1 .. Len(l) /\ DOMAIN Append(l, e) = 1 .. Len(l) + 1
      /\ \A i \in DOMAIN l : Append(l, e)[i] = l[i]
      /\ Append(l, e)[Len(l) + 1] = e
  OBVIOUS
<1> DEFINE k == Append(l, e)
<1>2. DOMAIN k = DOMAIN l \cup {Len(l) + 1}
  BY <1>1
<1> HIDE DEF k
<1> QED
  BY <1>1, <1>2 DEF EndsOf, k

\* What a line that is in place makes of a log and of its replay.
Follows(l, e) ==
  /\ Append(l, e) \in Seq(Events) /\ Readable(Append(l, e))
  /\ Replayed(Append(l, e)) = Applied(Replayed(l), e)
  /\ Ending(l) = "running" \/ Ending(Append(l, e)) = Ending(l)

LEMMA AppliedFields ==
  ASSUME NEW m \in Manifests, NEW e \in Events
  PROVE  Applied(m, e) = [status |-> IF e.kind \in Ends THEN e.kind ELSE m.status,
                          lastSeq |-> e.seq,
                          error |-> IF e.kind \in Ends THEN e.error ELSE m.error]
<1>1. \A a, b, c : [m EXCEPT !.lastSeq = a, !.status = b, !.error = c]
                    = [status |-> b, lastSeq |-> a, error |-> c]
  <2> SUFFICES ASSUME NEW a, NEW b, NEW c
               PROVE  [m EXCEPT !.lastSeq = a, !.status = b, !.error = c]
                        = [status |-> b, lastSeq |-> a, error |-> c]
    OBVIOUS
  <2> DEFINE n == [m EXCEPT !.lastSeq = a, !.status = b, !.error = c]
  <2>1. n \in [status : {b}, lastSeq : {a}, error : {c}]
    BY DEF Manifests
  <2> HIDE DEF n
  <2>2. n = [status |-> b, lastSeq |-> a, error |-> c]
    BY <2>1
  <2> QED
    BY <2>2 DEF n
<1> QED
  BY <1>1, Zenon DEF Applied

\* Any line of a run may follow in a log without an end, and only a verdict
\* after an interruption.
LEMMA AppendOpen ==
  ASSUME NEW l \in Seq(Events), Readable(l), EndsOf(l) = {},
         NEW e \in Events, e.seq = Len(l) + 1, e.kind \in Marks \cup Ends
  PROVE  Follows(l, e)
<1> DEFINE k == Append(l, e)
           n == Len(l) + 1
<1>1. /\ k \in Seq(Events) /\ Len(k) = n /\ Len(l) \in Nat
      /\ DOMAIN l = 1 .. Len(l) /\ DOMAIN k = 1 .. n
      /\ \A i \in DOMAIN l : k[i] = l[i]
      /\ k[n] = e
      /\ EndsOf(k) = IF e.kind \in Ends THEN {n} ELSE {}
  BY AppendedLog
<1> HIDE DEF k
<1>2. Readable(k)
  <2>1. \A i \in DOMAIN k : i \in DOMAIN l \/ i = n
    BY <1>1
  <2>2. \A i \in DOMAIN k : k[i].seq = i
    BY <1>1, <2>1 DEF Readable
  <2>3. \A i \in EndsOf(k), j \in DOMAIN k : ~(j > i)
    BY <1>1
  <2>4. \A i \in DOMAIN k : k[i].kind \notin Verdicts
    BY <1>1, <2>1, KindsApart DEF Readable
  <2> QED
    BY <2>2, <2>3, <2>4 DEF Readable
<1>3. Ending(l) = "running" /\ Replayed(l) = [status |-> "running", lastSeq |-> Len(l), error |-> "none"]
  BY DEF Ending, Replayed
<1>4. Replayed(k) = Applied(Replayed(l), e)
  <2>1. CASE e.kind \in Ends
    <3>1. EndsOf(k) = {n} /\ Ending(k) = e.kind
      BY <1>1, <2>1 DEF Ending
    <3>2. e.error \in {"none", "host-restart"}
      BY DEF Events, Errors
    <3>3. Replayed(k) = [status |-> e.kind, lastSeq |-> n, error |-> e.error]
      BY <1>1, <2>1, <3>1, <3>2 DEF Replayed
    <3> QED
      BY <2>1, <3>3, AppliedFields, ReplayedType
  <2>2. CASE e.kind \notin Ends
    <3>1. EndsOf(k) = {} /\ Ending(k) = "running"
      BY <1>1, <2>2 DEF Ending
    <3>2. Replayed(k) = [status |-> "running", lastSeq |-> n, error |-> "none"]
      BY <1>1, <3>1 DEF Replayed
    <3> QED
      BY <1>3, <2>2, <3>2, AppliedFields, ReplayedType
  <2> QED
    BY <2>1, <2>2
<1> QED
  BY <1>1, <1>2, <1>3, <1>4 DEF Follows, k

LEMMA AppendVerdict ==
  ASSUME NEW l \in Seq(Events), Readable(l), Ending(l) = "interrupted",
         NEW e \in Events, e.seq = Len(l) + 1, e.kind \in Verdicts
  PROVE  Follows(l, e)
<1> DEFINE k == Append(l, e)
           n == Len(l) + 1
<1>0. e.kind \notin Ends
  BY KindsApart
<1>1. /\ k \in Seq(Events) /\ Len(k) = n /\ Len(l) \in Nat
      /\ DOMAIN l = 1 .. Len(l) /\ DOMAIN k = 1 .. n
      /\ \A i \in DOMAIN l : k[i] = l[i]
      /\ k[n] = e
      /\ EndsOf(k) = EndsOf(l)
  <2>1. EndsOf(k) = EndsOf(l) \cup {}
    BY <1>0, AppendedLog
  <2> QED
    BY <2>1, AppendedLog
<1> HIDE DEF k
<1>2. PICK i \in EndsOf(l) : TRUE
  BY ReplayedType
<1>3. EndsOf(l) = {i} /\ l[i].kind = "interrupted" /\ i \in DOMAIN l
  BY <1>2, OneEnd DEF EndsOf
<1>4. Readable(k)
  <2>1. \A j \in DOMAIN k : j \in DOMAIN l \/ j = n
    BY <1>1
  <2>2. \A j \in DOMAIN k : k[j].seq = j
    BY <1>1, <2>1 DEF Readable
  <2>3. \A j \in DOMAIN k : j > i => k[j].kind \in Verdicts
    BY <1>1, <1>3, <2>1 DEF Readable
  <2>4. k[i].kind = "interrupted"
    BY <1>1, <1>3
  <2>5. \A j \in DOMAIN k : k[j].kind \in Verdicts => i < j
    BY <1>1, <1>3, <2>1 DEF Readable
  <2> QED
    BY <1>1, <1>3, <2>2, <2>3, <2>4, <2>5 DEF Readable
<1>5. Ending(k) = Ending(l)
  BY <1>1, <1>3 DEF Ending
<1>6. Replayed(k) = Applied(Replayed(l), e)
  <2> DEFINE error == IF l[i].error = "host-restart" THEN "host-restart" ELSE "none"
  <2>1. Replayed(l) = [status |-> Ending(l), lastSeq |-> Len(l), error |-> error]
    BY <1>3 DEF Replayed
  <2>2. Replayed(k) = [status |-> Ending(l), lastSeq |-> n, error |-> error]
    BY <1>1, <1>3, <1>5 DEF Replayed
  <2> HIDE DEF error
  <2> QED
    BY <1>0, <2>1, <2>2, AppliedFields, ReplayedType
<1> QED
  BY <1>1, <1>4, <1>5, <1>6 DEF Follows, k

-----------------------------------------------------------------------------
(* The steps of a store.                                                   *)

\* A step on another run.
LEMMA FilesKept ==
  ASSUME NEW r, manifest'[r] = manifest[r], log'[r] = log[r], index'[r] = index[r],
         r \in directory' <=> r \in directory
  PROVE  /\ FilesInv(r) => FilesInv(r)'
         /\ Synced(r) => Synced(r)'
         /\ Known(r)' = Known(r)
         /\ Said(r)' = Said(r)
BY DEF FilesInv, Synced, Known, Said

\* A job, field by field.
OneJob(o, r, m, t, d) == [op : {o}, run : {r}, held : {m}, todo : {t}, shown : {d}]

\* The fields of the jobs that the steps put together.
LEMMA IdleFields ==
  /\ Idle \in OneJob("idle", NoRun, NoManifest, {}, Absent) /\ Idle \in Jobs /\ Absent \in Shown
  /\ \A o, r : [Idle EXCEPT !.op = o, !.run = r] \in OneJob(o, r, NoManifest, {}, Absent)
  /\ \A o, r, m : [Idle EXCEPT !.op = o, !.run = r, !.held = m] \in OneJob(o, r, m, {}, Absent)
  /\ \A o, t, d : [Idle EXCEPT !.op = o, !.shown = d, !.todo = t]
                    \in OneJob(o, NoRun, NoManifest, t, d)
<1>1. Absent \in Shown
  BY DEF Absent, Shown
<1>2. Idle \in Jobs
  BY <1>1 DEF Idle, Jobs, Ops
<1>3. Idle \in OneJob("idle", NoRun, NoManifest, {}, Absent)
  BY DEF Idle, OneJob
<1> QED
  BY <1>1, <1>2, <1>3 DEF OneJob

LEMMA JobFields ==
  ASSUME NEW j \in Jobs
  PROVE  /\ \A o : [j EXCEPT !.op = o] \in OneJob(o, j.run, j.held, j.todo, j.shown)
         /\ \A o, m : [j EXCEPT !.op = o, !.held = m] \in OneJob(o, j.run, m, j.todo, j.shown)
         /\ \A o, r, m : [j EXCEPT !.op = o, !.run = r, !.held = m]
                           \in OneJob(o, r, m, j.todo, j.shown)
         /\ \A o, r, m, q, v :
              [j EXCEPT !.op = o, !.run = r, !.held = m, !.todo = @ \ {q}, !.shown[q] = v]
                \in OneJob(o, r, m, j.todo \ {q}, [j.shown EXCEPT ![q] = v])
<1>1. j \in OneJob(j.op, j.run, j.held, j.todo, j.shown)
  BY DEF Jobs, OneJob
<1> QED
  BY <1>1 DEF OneJob

\* The only store takes job j.
LEMMA JobBecomes ==
  ASSUME NEW h \in Store, TraceTypeOK, NEW j \in Jobs, job' = [job EXCEPT ![h] = j]
  PROVE  job' \in [Store -> Jobs] /\ job'[h] = j
BY DEF TraceTypeOK

LEMMA NewIsReplayed == NewManifest = Replayed(<<>>) /\ Readable(<<>>) /\ NewManifest \in Manifests
<1>1. EndsOf(<<>>) = {}
  BY DEF EndsOf
<1> QED
  BY <1>1 DEF NewManifest, Replayed, Ending, Readable, Manifests, Statuses, Errors

LEMMA CreateDirectoryInv ==
  ASSUME NEW h, Store = {h}, TraceInv(h), NEW r \in Run, CreateDirectory(h, r)
  PROVE  TraceInv(h)'
<1>1. TraceTypeOK /\ JobInv(h) /\ SyncInv(h) /\ \A q \in Run : FilesInv(q)
  BY DEF TraceInv
<1>2. PICK j : /\ j = [Idle EXCEPT !.op = "create-manifest", !.run = r]
               /\ job' = [job EXCEPT ![h] = j]
  BY DEF CreateDirectory, Become
<1>3. /\ directory' = directory \cup {r} /\ r \notin directory
      /\ UNCHANGED <<manifest, log, index, store, deaths>>
      /\ store[h] = "up" /\ job[h].op = "idle"
  BY DEF CreateDirectory, At
<1>4. j \in Jobs /\ j.op = "create-manifest" /\ j.run = r
  <2>1. j \in OneJob("create-manifest", r, NoManifest, {}, Absent) /\ Absent \in Shown
    BY <1>2, IdleFields
  <2> QED
    BY <2>1 DEF OneJob, Jobs, Ops
<1>5. job' \in [Store -> Jobs] /\ job'[h] = j
  BY <1>1, <1>2, <1>4, JobBecomes
<1>6. manifest[r] = NoManifest /\ log[r] = NoLog /\ ~Known(r)
  BY <1>1, <1>3 DEF FilesInv
<1>7. TraceTypeOK'
  BY <1>1, <1>3, <1>5 DEF TraceTypeOK
<1>8. ASSUME NEW q \in Run
      PROVE  FilesInv(q)'
  BY <1>1, <1>3, <1>6 DEF FilesInv, Known, Said
<1>9. JobInv(h)'
  BY <1>3, <1>4, <1>5, <1>6 DEF JobInv, Known
<1>10. SyncInv(h)'
  <2>1. job[h].run = NoRun
    BY <1>1, <1>3 DEF JobInv
  <2> QED
    BY <1>1, <1>3, <1>4, <1>5, <2>1, TraceAssumption DEF SyncInv, Synced, Known
<1> QED
  BY <1>7, <1>8, <1>9, <1>10 DEF TraceInv

LEMMA CreateManifestInv ==
  ASSUME NEW h, Store = {h}, TraceInv(h), CreateManifest(h)
  PROVE  TraceInv(h)'
<1>1. TraceTypeOK /\ JobInv(h) /\ SyncInv(h) /\ \A q \in Run : FilesInv(q)
  BY DEF TraceInv
<1>2. PICK j, r : /\ j = [job[h] EXCEPT !.op = "create-log", !.held = NewManifest]
                  /\ r = job[h].run /\ job' = [job EXCEPT ![h] = j]
  BY DEF CreateManifest, Become
<1>3. /\ manifest' = [manifest EXCEPT ![r] = NewManifest]
      /\ UNCHANGED <<directory, log, index, store, deaths>>
      /\ job[h].op = "create-manifest"
  BY <1>2 DEF CreateManifest, At
<1>4. /\ r \in Run /\ r \in directory /\ manifest[r] = NoManifest /\ log[r] = NoLog /\ ~Known(r)
      /\ store[h] = "up"
  BY <1>1, <1>2, <1>3 DEF JobInv, TraceTypeOK
<1>5. j \in Jobs /\ j.op = "create-log" /\ j.run = r /\ j.held = NewManifest
  <2>1. /\ job[h] \in Jobs /\ job[h].todo \in SUBSET Run /\ job[h].shown \in Shown
        /\ "create-log" \in Ops
    BY <1>1 DEF TraceTypeOK, Jobs, Ops
  <2>2. j \in OneJob("create-log", r, NewManifest, job[h].todo, job[h].shown)
    BY <1>2, <2>1, JobFields
  <2> QED
    BY <1>4, <2>1, <2>2, NewIsReplayed DEF OneJob, Jobs
<1>6. job' \in [Store -> Jobs] /\ job'[h] = j
  BY <1>1, <1>2, <1>5, JobBecomes
<1>7. TraceTypeOK'
  BY <1>1, <1>3, <1>4, <1>6, NewIsReplayed DEF TraceTypeOK
<1>8. manifest'[r] = NewManifest /\ \A q \in Run \ {r} : manifest'[q] = manifest[q]
  BY <1>1, <1>3, <1>4 DEF TraceTypeOK
<1>9. ASSUME NEW q \in Run
      PROVE  FilesInv(q)'
  BY <1>1, <1>3, <1>4, <1>8 DEF FilesInv, Known, Said
<1>10. JobInv(h)'
  BY <1>3, <1>4, <1>5, <1>6, <1>8 DEF JobInv, Known
<1>11. SyncInv(h)'
  BY <1>1, <1>2, <1>3, <1>4, <1>5, <1>6, <1>8 DEF SyncInv, Synced, Known
<1> QED
  BY <1>7, <1>9, <1>10, <1>11 DEF TraceInv

LEMMA CreateLogInv ==
  ASSUME NEW h, Store = {h}, TraceInv(h), CreateLog(h)
  PROVE  TraceInv(h)'
<1>1. TraceTypeOK /\ JobInv(h) /\ SyncInv(h) /\ \A q \in Run : FilesInv(q)
  BY DEF TraceInv
<1>2. PICK j, r : /\ j = [job[h] EXCEPT !.op = "write-index"]
                  /\ r = job[h].run /\ job' = [job EXCEPT ![h] = j]
  BY DEF CreateLog, Become
<1>3. /\ log' = [log EXCEPT ![r] = <<>>]
      /\ UNCHANGED <<directory, manifest, index, store, deaths>>
      /\ job[h].op = "create-log"
  BY <1>2 DEF CreateLog, At
<1>4. /\ r \in Run /\ r \in directory /\ job[h].held = NewManifest
      /\ manifest[r] = NewManifest /\ log[r] = NoLog /\ ~Known(r) /\ store[h] = "up"
  BY <1>1, <1>2, <1>3 DEF JobInv, TraceTypeOK
<1>5. j \in Jobs /\ j.op = "write-index" /\ j.run = r /\ j.held = NewManifest
  <2>1. /\ job[h] \in Jobs /\ job[h].todo \in SUBSET Run /\ job[h].shown \in Shown
        /\ "write-index" \in Ops
    BY <1>1 DEF TraceTypeOK, Jobs, Ops
  <2>2. j \in OneJob("write-index", r, NewManifest, job[h].todo, job[h].shown)
    BY <1>2, <1>4, <2>1, JobFields
  <2> QED
    BY <1>4, <2>1, <2>2, NewIsReplayed DEF OneJob, Jobs
<1>6. job' \in [Store -> Jobs] /\ job'[h] = j
  BY <1>1, <1>2, <1>5, JobBecomes
<1>7. TraceTypeOK'
  BY <1>1, <1>3, <1>4, <1>6 DEF TraceTypeOK
<1>8. log'[r] = <<>> /\ <<>> # NoLog /\ \A q \in Run \ {r} : log'[q] = log[q]
  <2>1. <<>> \in Seq(Events)
    OBVIOUS
  <2> QED
    BY <1>1, <1>3, <1>4, <2>1, AbsenceAssumption DEF TraceTypeOK
<1>9. ASSUME NEW q \in Run
      PROVE  FilesInv(q)'
  <2>1. CASE q = r
    BY <1>3, <1>4, <1>8, <2>1, NewIsReplayed DEF FilesInv, Known
  <2>2. CASE q # r
    BY <1>1, <1>3, <1>8, <2>2, FilesKept
  <2> QED
    BY <2>1, <2>2
<1>10. JobInv(h)'
  BY <1>3, <1>4, <1>5, <1>6, <1>8, NewIsReplayed DEF JobInv, Known
<1>11. SyncInv(h)'
  BY <1>1, <1>2, <1>3, <1>4, <1>5, <1>6, <1>8 DEF SyncInv, Synced, Known
<1> QED
  BY <1>7, <1>9, <1>10, <1>11 DEF TraceInv

LEMMA WriteIndexInv ==
  ASSUME NEW h, Store = {h}, TraceInv(h), WriteIndex(h)
  PROVE  TraceInv(h)'
<1>1. TraceTypeOK /\ JobInv(h) /\ SyncInv(h) /\ \A q \in Run : FilesInv(q)
  BY DEF TraceInv
<1>2. PICK j, r : j = Idle /\ r = job[h].run /\ job' = [job EXCEPT ![h] = j]
  BY DEF WriteIndex, Become
<1>3. /\ index' = [index EXCEPT ![r] = job[h].held.status]
      /\ UNCHANGED <<directory, manifest, log, store, deaths>>
      /\ job[h].op = "write-index"
  BY <1>2 DEF WriteIndex, At
<1>4. /\ r \in Run /\ r \in directory /\ log[r] # NoLog /\ store[h] = "up"
      /\ job[h].held = Replayed(log[r]) /\ manifest[r] = Replayed(log[r])
  BY <1>1, <1>2, <1>3 DEF JobInv, TraceTypeOK
<1>5. /\ log[r] \in Seq(Events) /\ Readable(log[r]) /\ Replayed(log[r]) \in Manifests
      /\ Replayed(log[r]).status = Ending(log[r]) /\ Ending(log[r]) \in Statuses
  BY <1>1, <1>4, ReplayedType DEF FilesInv
<1>6. job' \in [Store -> Jobs] /\ job'[h] = j /\ j.op = "idle" /\ j.run = NoRun
  <2>1. j \in Jobs /\ j.op = "idle" /\ j.run = NoRun
    BY <1>2, IdleFields DEF Idle
  <2> QED
    BY <1>1, <1>2, <2>1, JobBecomes
<1>7. index' \in Shown /\ index'[r] = Ending(log[r]) /\ \A q \in Run \ {r} : index'[q] = index[q]
  BY <1>1, <1>3, <1>4, <1>5 DEF TraceTypeOK, Shown
<1>8. TraceTypeOK'
  BY <1>1, <1>3, <1>6, <1>7 DEF TraceTypeOK
<1>9. "absent" \notin Statuses /\ NoManifest \notin Manifests
  BY AbsenceAssumption DEF Statuses, Ends
<1>10. ASSUME NEW q \in Run
       PROVE  FilesInv(q)'
  <2>1. CASE q = r
    BY <1>3, <1>4, <1>5, <1>7, <1>9, <2>1 DEF FilesInv, Known, Said
  <2>2. CASE q # r
    BY <1>1, <1>3, <1>7, <2>2, FilesKept
  <2> QED
    BY <2>1, <2>2
<1>11. JobInv(h)'
  BY <1>3, <1>4, <1>6 DEF JobInv
<1>12. SyncInv(h)'
  BY <1>1, <1>2, <1>3, <1>4, <1>5, <1>6, <1>7 DEF SyncInv, Synced, Known
<1> QED
  BY <1>8, <1>10, <1>11, <1>12 DEF TraceInv

LEMMA WriteManifestInv ==
  ASSUME NEW h, Store = {h}, TraceInv(h), WriteManifest(h)
  PROVE  TraceInv(h)'
<1>1. TraceTypeOK /\ JobInv(h) /\ SyncInv(h) /\ \A q \in Run : FilesInv(q)
  BY DEF TraceInv
<1>2. PICK j, r : /\ j = [job[h] EXCEPT !.op = "write-index"]
                  /\ r = job[h].run /\ job' = [job EXCEPT ![h] = j]
  BY DEF WriteManifest, Become
<1>3. /\ manifest' = [manifest EXCEPT ![r] = job[h].held]
      /\ UNCHANGED <<directory, log, index, store, deaths>>
      /\ job[h].op = "write-manifest"
  BY <1>2 DEF WriteManifest, At
<1>4. /\ r \in Run /\ r \in directory /\ Known(r) /\ store[h] = "up"
      /\ job[h].held = Replayed(log[r])
  BY <1>1, <1>2, <1>3 DEF JobInv, TraceTypeOK
<1>5. /\ log[r] # NoLog /\ index[r] \in Said(r)
      /\ log[r] \in Seq(Events) /\ Readable(log[r]) /\ Replayed(log[r]) \in Manifests
      /\ Replayed(log[r]).status = Ending(log[r])
  BY <1>1, <1>4, ReplayedType DEF FilesInv
<1>6. j \in Jobs /\ j.op = "write-index" /\ j.run = r /\ j.held = Replayed(log[r])
  <2>1. /\ job[h] \in Jobs /\ job[h].todo \in SUBSET Run /\ job[h].shown \in Shown
        /\ "write-index" \in Ops
    BY <1>1 DEF TraceTypeOK, Jobs, Ops
  <2>2. j \in OneJob("write-index", r, Replayed(log[r]), job[h].todo, job[h].shown)
    BY <1>2, <1>4, <2>1, JobFields
  <2> QED
    BY <1>4, <1>5, <2>1, <2>2 DEF OneJob, Jobs
<1>7. job' \in [Store -> Jobs] /\ job'[h] = j
  BY <1>1, <1>2, <1>6, JobBecomes
<1>8. manifest'[r] = Replayed(log[r]) /\ \A q \in Run \ {r} : manifest'[q] = manifest[q]
  BY <1>1, <1>3, <1>4 DEF TraceTypeOK
<1>9. TraceTypeOK'
  BY <1>1, <1>3, <1>4, <1>5, <1>7 DEF TraceTypeOK
<1>10. ASSUME NEW q \in Run
       PROVE  FilesInv(q)'
  <2>1. CASE q = r
    BY <1>1, <1>3, <1>4, <1>5, <1>8, <2>1, AbsenceAssumption DEF FilesInv, Known, Said
  <2>2. CASE q # r
    BY <1>1, <1>3, <1>8, <2>2, FilesKept
  <2> QED
    BY <2>1, <2>2
<1>11. JobInv(h)'
  BY <1>3, <1>4, <1>5, <1>6, <1>7, <1>8 DEF JobInv, Known, Said
<1>12. SyncInv(h)'
  BY <1>1, <1>2, <1>3, <1>4, <1>6, <1>7, <1>8 DEF SyncInv, Synced, Known
<1> QED
  BY <1>9, <1>10, <1>11, <1>12 DEF TraceInv

\* A line in its place, by the idle store.
LEMMA AppendLineInv ==
  ASSUME NEW h, Store = {h}, TraceInv(h), store[h] = "up", job[h].op = "idle",
         NEW r \in Run, Known(r), NEW e \in Events, Follows(log[r], e),
         log' = [log EXCEPT ![r] = Append(@, e)],
         NEW j, j = [Idle EXCEPT !.op = "write-manifest", !.run = r,
                                 !.held = Applied(manifest[r], e)],
         job' = [job EXCEPT ![h] = j],
         UNCHANGED <<directory, manifest, index, store, deaths>>
  PROVE  TraceInv(h)' /\ manifest[r] = Replayed(log[r])
<1>1. TraceTypeOK /\ JobInv(h) /\ SyncInv(h) /\ \A q \in Run : FilesInv(q)
  BY DEF TraceInv
<1>2. job[h].run = NoRun /\ r # NoRun
  BY <1>1, TraceAssumption DEF JobInv
<1>3. Synced(r) /\ index[r] = manifest[r].status /\ r \in directory
  BY <1>1, <1>2 DEF SyncInv, FilesInv
<1>4. /\ log[r] # NoLog /\ manifest[r] # NoManifest /\ log[r] \in Seq(Events)
      /\ Readable(log[r]) /\ Replayed(log[r]).status = Ending(log[r])
  BY <1>1, ReplayedType DEF FilesInv
<1>5. /\ log'[r] \in Seq(Events) /\ Readable(log'[r])
      /\ Replayed(log'[r]) = Applied(manifest[r], e)
      /\ Ending(log[r]) = "running" \/ Ending(log'[r]) = Ending(log[r])
      /\ \A q \in Run \ {r} : log'[q] = log[q]
  <2>1. log'[r] = Append(log[r], e) /\ \A q \in Run \ {r} : log'[q] = log[q]
    BY <1>1 DEF TraceTypeOK
  <2> QED
    BY <1>3, <2>1 DEF Follows, Synced
<1>6. Replayed(log'[r]) \in Manifests /\ log'[r] # NoLog
  BY <1>5, ReplayedType, AbsenceAssumption
<1>7. j \in Jobs /\ j.op = "write-manifest" /\ j.run = r /\ j.held = Replayed(log'[r])
  <2>1. /\ j \in OneJob("write-manifest", r, Applied(manifest[r], e), {}, Absent)
        /\ "write-manifest" \in Ops
    BY IdleFields DEF Ops
  <2>2. Applied(manifest[r], e) \in Manifests \cup {NoManifest}
    BY <1>5, <1>6
  <2> QED
    BY <1>5, <2>1, <2>2, IdleFields DEF OneJob, Jobs
<1>8. job' \in [Store -> Jobs] /\ job'[h] = j
  BY <1>1, <1>7, JobBecomes
<1>9. TraceTypeOK'
  BY <1>1, <1>5, <1>8 DEF TraceTypeOK
<1>10. ASSUME NEW q \in Run
       PROVE  FilesInv(q)'
  <2>1. CASE q = r
    BY <1>3, <1>4, <1>5, <1>6, <2>1 DEF FilesInv, Known, Said, Synced
  <2>2. CASE q # r
    BY <1>1, <1>5, <2>2, FilesKept
  <2> QED
    BY <2>1, <2>2
<1>11. JobInv(h)'
  BY <1>3, <1>7, <1>8 DEF JobInv, Known
<1>12. SyncInv(h)'
  <2>1. \A q \in Run \ {r} : (Synced(q) <=> Synced(q)') /\ (Known(q) <=> Known(q)')
    BY <1>5 DEF Synced, Known
  <2>2. \A q \in Run \ {r} : Known(q)' => Synced(q)' /\ index'[q] = manifest'[q].status
    BY <1>1, <1>2, <2>1, TraceAssumption DEF SyncInv
  <2> QED
    BY <1>7, <1>8, <2>2 DEF SyncInv
<1> QED
  BY <1>3, <1>9, <1>10, <1>11, <1>12 DEF TraceInv, Synced

LEMMA RewriteInv ==
  ASSUME NEW h, Store = {h}, TraceInv(h), NEW r \in Run, Rewrite(h, r)
  PROVE  TraceInv(h)'
<1>1. TraceTypeOK /\ JobInv(h) /\ SyncInv(h) /\ \A q \in Run : FilesInv(q)
  BY DEF TraceInv
<1>2. PICK j : /\ j = [Idle EXCEPT !.op = "write-manifest", !.run = r, !.held = manifest[r]]
               /\ job' = [job EXCEPT ![h] = j]
  BY DEF Rewrite, Become
<1>3. /\ UNCHANGED <<files, store, deaths>>
      /\ store[h] = "up" /\ job[h].op = "idle" /\ Known(r)
  BY DEF Rewrite, At
<1>4. job[h].run = NoRun /\ r # NoRun
  BY <1>1, <1>3, TraceAssumption DEF JobInv
<1>5. Synced(r) /\ index[r] = manifest[r].status /\ r \in directory /\ manifest[r] \in Manifests
  BY <1>1, <1>3, <1>4 DEF SyncInv, FilesInv, TraceTypeOK
<1>6. j \in Jobs /\ j.op = "write-manifest" /\ j.run = r /\ j.held = manifest[r]
  <2>1. j \in OneJob("write-manifest", r, manifest[r], {}, Absent) /\ Absent \in Shown
    BY <1>2, IdleFields
  <2> QED
    BY <1>5, <2>1 DEF OneJob, Jobs, Ops
<1>7. job' \in [Store -> Jobs] /\ job'[h] = j
  BY <1>1, <1>2, <1>6, JobBecomes
<1>8. TraceTypeOK'
  BY <1>1, <1>3, <1>7 DEF TraceTypeOK, files
<1>9. ASSUME NEW q \in Run
      PROVE  FilesInv(q)'
  BY <1>1, <1>3, FilesKept DEF files
<1>10. JobInv(h)'
  BY <1>3, <1>5, <1>6, <1>7 DEF JobInv, Known, Synced, files
<1>11. SyncInv(h)'
  BY <1>1, <1>3, <1>4, <1>6, <1>7, TraceAssumption DEF SyncInv, Synced, Known, files
<1> QED
  BY <1>8, <1>9, <1>10, <1>11 DEF TraceInv

\* The line that is appended next.
LEMMA NextLine ==
  ASSUME NEW l \in Seq(Events), Readable(l),
         NEW kind \in Marks \cup Ends \cup Verdicts, NEW error \in Errors,
         NEW r, NEW e, e = Line(r, Replayed(l), kind, error)
  PROVE  e \in Events /\ e.seq = Len(l) + 1 /\ e.kind = kind /\ e.error = error
<1>1. Replayed(l).lastSeq = Len(l) /\ Len(l) + 1 \in Nat
  BY ReplayedType
<1>2. e = [seq |-> Len(l) + 1, kind |-> kind, error |-> error]
  BY <1>1, Zenon DEF Line
<1> QED
  BY <1>1, <1>2 DEF Events

LEMMA AppendEventInv ==
  ASSUME NEW h, Store = {h}, TraceInv(h), NEW r \in Run, NEW kind \in Marks \cup Ends,
         AppendEvent(h, r, kind)
  PROVE  /\ TraceInv(h)'
         /\ EndsOf(log[r]) = {} /\ log[r] \in Seq(Events)
         /\ \E e \in Events : /\ e.kind = kind /\ e.error = "none"
                             /\ log' = [log EXCEPT ![r] = Append(@, e)]
<1>1. TraceTypeOK /\ JobInv(h) /\ SyncInv(h) /\ \A q \in Run : FilesInv(q)
  BY DEF TraceInv
<1>2. PICK e, j : /\ e = Line(r, manifest[r], kind, "none")
                  /\ j = [Idle EXCEPT !.op = "write-manifest", !.run = r,
                                      !.held = Applied(manifest[r], e)]
                  /\ log' = [log EXCEPT ![r] = Append(@, e)]
                  /\ job' = [job EXCEPT ![h] = j]
  BY DEF AppendEvent, AppendLine, Become
<1>3. /\ UNCHANGED <<directory, manifest, index, store, deaths>>
      /\ store[h] = "up" /\ job[h].op = "idle" /\ Known(r) /\ manifest[r].status = "running"
  BY DEF AppendEvent, AppendLine, At
<1>4. manifest[r] = Replayed(log[r]) /\ log[r] \in Seq(Events) /\ Readable(log[r])
  BY <1>1, <1>3, TraceAssumption DEF JobInv, SyncInv, Synced, FilesInv
<1>5. EndsOf(log[r]) = {}
  BY <1>3, <1>4, ReplayedType
<1>6. e \in Events /\ e.seq = Len(log[r]) + 1 /\ e.kind = kind /\ e.error = "none"
  BY <1>2, <1>4, NextLine DEF Errors
<1>7. Follows(log[r], e)
  BY <1>4, <1>5, <1>6, AppendOpen
<1>8. TraceInv(h)'
  BY <1>2, <1>3, <1>6, <1>7, AppendLineInv
<1> QED
  BY <1>2, <1>4, <1>5, <1>6, <1>8

LEMMA AppendDiagnosticInv ==
  ASSUME NEW h, Store = {h}, TraceInv(h), NEW r \in Run, NEW verdict \in Verdicts,
         AppendDiagnostic(h, r, verdict)
  PROVE  /\ TraceInv(h)'
         /\ Ending(log[r]) = "interrupted" /\ log[r] \in Seq(Events)
         /\ \E e \in Events : /\ e.kind = verdict /\ e.error = "none"
                             /\ log' = [log EXCEPT ![r] = Append(@, e)]
<1>1. TraceTypeOK /\ JobInv(h) /\ SyncInv(h) /\ \A q \in Run : FilesInv(q)
  BY DEF TraceInv
<1>2. PICK e, j : /\ e = Line(r, manifest[r], verdict, "none")
                  /\ j = [Idle EXCEPT !.op = "write-manifest", !.run = r,
                                      !.held = Applied(manifest[r], e)]
                  /\ log' = [log EXCEPT ![r] = Append(@, e)]
                  /\ job' = [job EXCEPT ![h] = j]
  BY DEF AppendDiagnostic, AppendLine, Become
<1>3. /\ UNCHANGED <<directory, manifest, index, store, deaths>>
      /\ store[h] = "up" /\ job[h].op = "idle" /\ Known(r) /\ manifest[r].status = "interrupted"
  BY DEF AppendDiagnostic, AppendLine, At
<1>4. manifest[r] = Replayed(log[r]) /\ log[r] \in Seq(Events) /\ Readable(log[r])
  BY <1>1, <1>3, TraceAssumption DEF JobInv, SyncInv, Synced, FilesInv
<1>5. Ending(log[r]) = "interrupted"
  BY <1>3, <1>4, ReplayedType
<1>6. e \in Events /\ e.seq = Len(log[r]) + 1 /\ e.kind = verdict /\ e.error = "none"
  BY <1>2, <1>4, NextLine DEF Errors
<1>7. Follows(log[r], e)
  BY <1>4, <1>5, <1>6, AppendVerdict
<1>8. TraceInv(h)'
  BY <1>2, <1>3, <1>6, <1>7, AppendLineInv
<1> QED
  BY <1>2, <1>4, <1>5, <1>6, <1>8

LEMMA LoadIndexInv ==
  ASSUME NEW h, Store = {h}, TraceInv(h), LoadIndex(h)
  PROVE  TraceInv(h)'
<1>1. TraceTypeOK /\ JobInv(h) /\ SyncInv(h) /\ \A q \in Run : FilesInv(q)
  BY DEF TraceInv
<1>2. PICK j : /\ j = [Idle EXCEPT !.op = "visit", !.shown = index,
                                   !.todo = {r \in Run : Known(r)}]
               /\ job' = [job EXCEPT ![h] = j]
  BY DEF LoadIndex, Become
<1>3. UNCHANGED <<files, deaths>> /\ store' = [store EXCEPT ![h] = "loading"]
  BY DEF LoadIndex
<1>4. j \in Jobs /\ j.op = "visit" /\ j.todo = {r \in Run : Known(r)} /\ j.shown = index
  <2>1. j \in OneJob("visit", NoRun, NoManifest, {r \in Run : Known(r)}, index)
    BY <1>2, IdleFields
  <2>2. index \in Shown
    BY <1>1 DEF TraceTypeOK
  <2> QED
    BY <2>1, <2>2 DEF OneJob, Jobs, Ops
<1>5. job' \in [Store -> Jobs] /\ job'[h] = j
  BY <1>1, <1>2, <1>4, JobBecomes
<1>6. store' \in [Store -> {"down", "fresh", "loading", "up"}] /\ store'[h] = "loading"
  BY <1>1, <1>3 DEF TraceTypeOK
<1>7. TraceTypeOK'
  BY <1>1, <1>3, <1>5, <1>6 DEF TraceTypeOK, files
<1>8. ASSUME NEW q \in Run
      PROVE  FilesInv(q)'
  BY <1>1, <1>3, FilesKept DEF files
<1>9. JobInv(h)'
  BY <1>4, <1>5, <1>6 DEF JobInv
<1>10. SyncInv(h)'
  BY <1>3, <1>4, <1>5, <1>6 DEF SyncInv, Known, files
<1> QED
  BY <1>7, <1>8, <1>9, <1>10 DEF TraceInv

LEMMA InterruptInv ==
  ASSUME NEW h, Store = {h}, TraceInv(h), NEW r \in Run, r \in job[h].todo,
         job[h].op = "visit", Readable(log[r]), Interrupt(h, r)
  PROVE  /\ TraceInv(h)'
         /\ EndsOf(log[r]) = {} /\ log[r] \in Seq(Events)
         /\ \E e \in Events : /\ e.kind = "interrupted"
                             /\ log' = [log EXCEPT ![r] = Append(@, e)]
<1>1. TraceTypeOK /\ JobInv(h) /\ SyncInv(h) /\ \A q \in Run : FilesInv(q)
  BY DEF TraceInv
<1>2. PICK e, m, j : /\ m = Replayed(log[r])
                     /\ e = Line(r, m, "interrupted", "host-restart")
                     /\ j = [job[h] EXCEPT !.op = "repair", !.run = r, !.held = Applied(m, e)]
                     /\ log' = [log EXCEPT ![r] = Append(@, e)]
                     /\ job' = [job EXCEPT ![h] = j]
  BY DEF Interrupt, Become, Reconciled
<1>3. /\ UNCHANGED <<directory, manifest, index, store, deaths>>
      /\ Replayed(log[r]).status = "running" /\ store[h] = "loading"
  BY <1>1 DEF Interrupt, Reconciled, JobInv
<1>4. /\ Known(r) /\ r \in directory /\ log[r] \in Seq(Events) /\ log[r] # NoLog
      /\ manifest[r] # NoManifest /\ manifest[r].status \in Said(r) /\ index[r] \in Said(r)
  BY <1>1, <1>3 DEF SyncInv, FilesInv
<1>5. EndsOf(log[r]) = {} /\ Ending(log[r]) = "running"
  BY <1>3, <1>4, ReplayedType
<1>6. e \in Events /\ e.seq = Len(log[r]) + 1 /\ e.kind = "interrupted"
  <2>1. "interrupted" \in Marks \cup Ends \cup Verdicts /\ "host-restart" \in Errors
    BY DEF Errors, Ends
  <2> QED
    BY <1>2, <1>4, <2>1, NextLine
<1>7. Follows(log[r], e)
  BY <1>4, <1>5, <1>6, AppendOpen DEF Ends
<1>8. /\ log'[r] \in Seq(Events) /\ Readable(log'[r]) /\ log'[r] # NoLog
      /\ Replayed(log'[r]) = Applied(m, e) /\ Replayed(log'[r]) \in Manifests
      /\ \A q \in Run \ {r} : log'[q] = log[q]
  <2>1. log'[r] = Append(log[r], e) /\ \A q \in Run \ {r} : log'[q] = log[q]
    BY <1>1, <1>2 DEF TraceTypeOK
  <2> QED
    BY <1>2, <1>7, <2>1, ReplayedType, AbsenceAssumption DEF Follows
<1>9. /\ j \in Jobs /\ j.op = "repair" /\ j.run = r /\ j.held = Replayed(log'[r])
      /\ j.todo = job[h].todo /\ j.shown = job[h].shown
  <2>1. job[h] \in Jobs /\ job[h].todo \in SUBSET Run /\ job[h].shown \in Shown
    BY <1>1 DEF TraceTypeOK, Jobs
  <2>2. j \in OneJob("repair", r, Replayed(log'[r]), job[h].todo, job[h].shown)
    BY <1>2, <1>8, <2>1, JobFields
  <2> QED
    BY <1>8, <2>1, <2>2 DEF OneJob, Jobs, Ops
<1>10. job' \in [Store -> Jobs] /\ job'[h] = j
  BY <1>1, <1>2, <1>9, JobBecomes
<1>11. TraceTypeOK'
  BY <1>1, <1>2, <1>3, <1>8, <1>10 DEF TraceTypeOK
<1>12. ASSUME NEW q \in Run
       PROVE  FilesInv(q)'
  <2>1. CASE q = r
    BY <1>3, <1>4, <1>5, <1>8, <2>1 DEF FilesInv, Known, Said
  <2>2. CASE q # r
    BY <1>1, <1>3, <1>8, <2>2, FilesKept
  <2> QED
    BY <2>1, <2>2
<1>13. JobInv(h)'
  BY <1>3, <1>4, <1>9, <1>10 DEF JobInv
<1>14. SyncInv(h)'
  <2>1. \A q \in Run \ {r} : (Synced(q) <=> Synced(q)') /\ (Known(q) <=> Known(q)')
    BY <1>3, <1>8 DEF Synced, Known
  <2>2. Known(r)' /\ store'[h] = "loading" /\ r \in job'[h].todo
    BY <1>3, <1>4, <1>9, <1>10 DEF Known
  <2> QED
    BY <1>1, <1>3, <1>4, <1>9, <1>10, <2>1, <2>2 DEF SyncInv
<1> QED
  BY <1>2, <1>4, <1>5, <1>6, <1>11, <1>12, <1>13, <1>14 DEF TraceInv

LEMMA ReconcileInv ==
  ASSUME NEW h, Store = {h}, TraceInv(h), NEW r \in Run, r \in job[h].todo,
         job[h].op = "visit", Readable(log[r]), Reconcile(h, r)
  PROVE  TraceInv(h)'
<1>1. TraceTypeOK /\ JobInv(h) /\ SyncInv(h) /\ \A q \in Run : FilesInv(q)
  BY DEF TraceInv
<1>2. PICK j : /\ j = [job[h] EXCEPT !.op = "repair", !.run = r, !.held = Replayed(log[r])]
               /\ job' = [job EXCEPT ![h] = j]
  BY DEF Reconcile, Become, Reconciled
<1>3. UNCHANGED <<files, store, deaths>> /\ store[h] = "loading"
  BY <1>1 DEF Reconcile, JobInv
<1>4. r \in directory /\ log[r] \in Seq(Events) /\ Replayed(log[r]) \in Manifests
  BY <1>1, <1>3, ReplayedType DEF SyncInv, FilesInv
<1>5. /\ j \in Jobs /\ j.op = "repair" /\ j.run = r /\ j.held = Replayed(log[r])
      /\ j.todo = job[h].todo /\ j.shown = job[h].shown
  <2>1. job[h] \in Jobs /\ job[h].todo \in SUBSET Run /\ job[h].shown \in Shown
    BY <1>1 DEF TraceTypeOK, Jobs
  <2>2. j \in OneJob("repair", r, Replayed(log[r]), job[h].todo, job[h].shown)
    BY <1>2, <2>1, JobFields
  <2> QED
    BY <1>4, <2>1, <2>2 DEF OneJob, Jobs, Ops
<1>6. job' \in [Store -> Jobs] /\ job'[h] = j
  BY <1>1, <1>2, <1>5, JobBecomes
<1>7. TraceTypeOK'
  BY <1>1, <1>3, <1>6 DEF TraceTypeOK, files
<1>8. ASSUME NEW q \in Run
      PROVE  FilesInv(q)'
  BY <1>1, <1>3, FilesKept DEF files
<1>9. JobInv(h)'
  BY <1>3, <1>4, <1>5, <1>6 DEF JobInv, files
<1>10. SyncInv(h)'
  BY <1>1, <1>3, <1>5, <1>6 DEF SyncInv, Synced, Known, files
<1> QED
  BY <1>7, <1>8, <1>9, <1>10 DEF TraceInv

LEMMA RepairInv ==
  ASSUME NEW h, Store = {h}, TraceInv(h), Repair(h)
  PROVE  TraceInv(h)'
<1>1. TraceTypeOK /\ JobInv(h) /\ SyncInv(h) /\ \A q \in Run : FilesInv(q)
  BY DEF TraceInv
<1>2. PICK j, r : /\ r = job[h].run
                  /\ j = [job[h] EXCEPT !.op = "visit", !.run = NoRun, !.held = NoManifest,
                                        !.todo = @ \ {r}, !.shown[r] = job[h].held.status]
                  /\ job' = [job EXCEPT ![h] = j]
  BY DEF Repair, Become
<1>3. /\ manifest' = [manifest EXCEPT ![r] = job[h].held]
      /\ UNCHANGED <<directory, log, index, store, deaths>>
      /\ job[h].op = "repair"
  BY <1>2 DEF Repair, At
<1>4. /\ r \in Run /\ r \in job[h].todo /\ job[h].held = Replayed(log[r])
      /\ store[h] = "loading"
  BY <1>1, <1>2, <1>3 DEF JobInv
<1>5. /\ Known(r) /\ log[r] # NoLog /\ log[r] \in Seq(Events) /\ Readable(log[r])
      /\ index[r] \in Said(r) /\ r \in directory
  BY <1>1, <1>4 DEF SyncInv, FilesInv
<1>6. /\ Replayed(log[r]) \in Manifests /\ Replayed(log[r]).status = Ending(log[r])
      /\ Ending(log[r]) \in Statuses /\ "absent" \notin Statuses
  BY <1>5, ReplayedType DEF Statuses, Ends
<1>7. /\ j \in Jobs /\ j.op = "visit" /\ j.todo = job[h].todo \ {r}
      /\ j.shown[r] = Ending(log[r]) /\ \A q \in Run \ {r} : j.shown[q] = job[h].shown[q]
  <2>1. job[h] \in Jobs /\ job[h].todo \in SUBSET Run /\ job[h].shown \in Shown
    BY <1>1 DEF TraceTypeOK, Jobs
  <2> DEFINE d == [job[h].shown EXCEPT ![r] = job[h].held.status]
  <2>2. j \in OneJob("visit", NoRun, NoManifest, job[h].todo \ {r}, d)
    BY <1>2, <2>1, JobFields
  <2>3. /\ d \in Shown /\ d[r] = Ending(log[r])
        /\ \A q \in Run \ {r} : d[q] = job[h].shown[q]
    BY <1>4, <1>6, <2>1 DEF Shown
  <2> HIDE DEF d
  <2>4. /\ j.op = "visit" /\ j.todo = job[h].todo \ {r} /\ j.shown = d
    BY <2>2 DEF OneJob
  <2>5. j \in Jobs
    BY <2>1, <2>2, <2>3 DEF OneJob, Jobs, Ops
  <2> QED
    BY <2>3, <2>4, <2>5
<1>8. job' \in [Store -> Jobs] /\ job'[h] = j
  BY <1>1, <1>2, <1>7, JobBecomes
<1>9. manifest'[r] = Replayed(log[r]) /\ \A q \in Run \ {r} : manifest'[q] = manifest[q]
  BY <1>1, <1>3, <1>4 DEF TraceTypeOK
<1>10. TraceTypeOK'
  BY <1>1, <1>3, <1>4, <1>6, <1>8 DEF TraceTypeOK
<1>11. ASSUME NEW q \in Run
       PROVE  FilesInv(q)'
  <2>1. CASE q = r
    BY <1>3, <1>5, <1>6, <1>9, <2>1, AbsenceAssumption DEF FilesInv, Known, Said
  <2>2. CASE q # r
    BY <1>1, <1>3, <1>9, <2>2, FilesKept
  <2> QED
    BY <2>1, <2>2
<1>12. JobInv(h)'
  BY <1>3, <1>4, <1>7, <1>8 DEF JobInv
<1>13. SyncInv(h)'
  <2>1. \A q \in Run \ {r} : (Synced(q) <=> Synced(q)') /\ (Known(q) <=> Known(q)')
    BY <1>3, <1>9 DEF Synced, Known
  <2>2. Known(r)' /\ Synced(r)' /\ manifest'[r].status = Ending(log[r])
    BY <1>3, <1>5, <1>6, <1>9 DEF Known, Synced
  <2>3. ASSUME NEW q \in Run, q # r
        PROVE  /\ q \in j.todo => Known(q)'
               /\ j.shown[q] = "absent" <=> ~Known(q)'
               /\ Known(q)' /\ q \notin j.todo => Synced(q)' /\ j.shown[q] = manifest'[q].status
    BY <1>1, <1>4, <1>7, <1>9, <2>1, <2>3 DEF SyncInv
  <2>4. /\ r \notin j.todo /\ j.shown[r] # "absent" /\ j.shown[r] = manifest'[r].status
    BY <1>6, <1>7, <2>2
  <2> QED
    BY <1>3, <1>4, <1>8, <2>2, <2>3, <2>4 DEF SyncInv
<1> QED
  BY <1>10, <1>11, <1>12, <1>13 DEF TraceInv

LEMMA EndLoadingInv ==
  ASSUME NEW h, Store = {h}, TraceInv(h), EndLoading(h)
  PROVE  TraceInv(h)'
<1>1. TraceTypeOK /\ JobInv(h) /\ SyncInv(h) /\ \A q \in Run : FilesInv(q)
  BY DEF TraceInv
<1>2. PICK j : j = Idle /\ job' = [job EXCEPT ![h] = j]
  BY DEF EndLoading, Become
<1>3. /\ job[h].op = "visit" /\ job[h].todo = {} /\ index' = job[h].shown
      /\ store' = [store EXCEPT ![h] = "up"]
      /\ UNCHANGED <<directory, manifest, log, deaths>>
  BY DEF EndLoading, At
<1>4. store[h] = "loading" /\ job[h] \in Jobs /\ job[h].shown \in Shown
  BY <1>1, <1>3 DEF JobInv, TraceTypeOK, Jobs
<1>5. j \in Jobs /\ j.op = "idle" /\ j.run = NoRun
  BY <1>2, IdleFields DEF Idle
<1>6. job' \in [Store -> Jobs] /\ job'[h] = j
  BY <1>1, <1>2, <1>5, JobBecomes
<1>7. store' \in [Store -> {"down", "fresh", "loading", "up"}] /\ store'[h] = "up"
  BY <1>1, <1>3 DEF TraceTypeOK
<1>8. TraceTypeOK'
  BY <1>1, <1>3, <1>4, <1>6, <1>7 DEF TraceTypeOK
<1>9. ASSUME NEW q \in Run
      PROVE  /\ Known(q) <=> Known(q)'
             /\ Known(q) => Synced(q) /\ index'[q] = manifest[q].status
  BY <1>1, <1>3, <1>4 DEF SyncInv, Known
<1>10. ASSUME NEW q \in Run
       PROVE  FilesInv(q)'
  BY <1>1, <1>3, <1>9 DEF FilesInv, Said
<1>11. JobInv(h)'
  BY <1>5, <1>6, <1>7 DEF JobInv
<1>12. SyncInv(h)'
  BY <1>3, <1>5, <1>7, <1>9 DEF SyncInv, Synced
<1> QED
  BY <1>8, <1>10, <1>11, <1>12 DEF TraceInv

LEMMA DieInv ==
  ASSUME NEW h, Store = {h}, TraceInv(h), Die(h)
  PROVE  TraceInv(h)'
<1>1. TraceTypeOK /\ JobInv(h) /\ SyncInv(h) /\ \A q \in Run : FilesInv(q)
  BY DEF TraceInv
<1>2. PICK j : j = Idle /\ job' = [job EXCEPT ![h] = j]
  BY DEF Die, Become
<1>3. store' = [store EXCEPT ![h] = "down"] /\ deaths' = deaths + 1 /\ UNCHANGED files
  BY DEF Die
<1>4. j \in Jobs /\ j.op = "idle" /\ j.run = NoRun
  BY <1>2, IdleFields DEF Idle
<1>5. job' \in [Store -> Jobs] /\ job'[h] = j
  BY <1>1, <1>2, <1>4, JobBecomes
<1>6. store' \in [Store -> {"down", "fresh", "loading", "up"}] /\ store'[h] = "down"
  BY <1>1, <1>3 DEF TraceTypeOK
<1>7. TraceTypeOK'
  BY <1>1, <1>3, <1>5, <1>6 DEF TraceTypeOK, files
<1>8. ASSUME NEW q \in Run
      PROVE  FilesInv(q)'
  BY <1>1, <1>3, FilesKept DEF files
<1> QED
  BY <1>4, <1>5, <1>6, <1>7, <1>8 DEF TraceInv, JobInv, SyncInv

LEMMA StartInv ==
  ASSUME NEW h, Store = {h}, TraceInv(h), Start(h)
  PROVE  TraceInv(h)'
<1>1. TraceTypeOK /\ JobInv(h) /\ SyncInv(h) /\ \A q \in Run : FilesInv(q)
  BY DEF TraceInv
<1>2. /\ store[h] = "down" /\ store' = [store EXCEPT ![h] = "fresh"]
      /\ UNCHANGED <<files, job, deaths>>
  BY DEF Start
<1>3. store' \in [Store -> {"down", "fresh", "loading", "up"}] /\ store'[h] = "fresh"
  BY <1>1, <1>2 DEF TraceTypeOK
<1>4. job'[h].op = "idle" /\ job'[h].run = NoRun
  BY <1>1, <1>2 DEF JobInv
<1>5. TraceTypeOK'
  BY <1>1, <1>2, <1>3 DEF TraceTypeOK, files
<1>6. ASSUME NEW q \in Run
      PROVE  FilesInv(q)'
  BY <1>1, <1>2, FilesKept DEF files
<1> QED
  BY <1>3, <1>4, <1>5, <1>6 DEF TraceInv, JobInv, SyncInv

-----------------------------------------------------------------------------
(* The steps of moves and hosts keep the files in order.                   *)

\* A host serves with a store that is initialised.
Served(h) == recovery[h] = "done" => store[h] = "up"
MovesInv(h) == MoveTypeOK /\ Served(h) /\ \A r \in Run : MoveInv(h, r)

\* A move that waits for its recorder is one of the only host.
LEMMA Hosted ==
  ASSUME NEW h, MovesInv(h), NEW r \in Run, NEW at \in Live, Awaits(r, at)
  PROVE  /\ move[r].at = at /\ move[r].host = h /\ recovery[h] = "done"
         /\ store[h] = "up" /\ job[h].run # r
BY DEF Awaits, MovesInv, MoveInv, Served

LEMMA KindsOfLines ==
  /\ {"started", "commit-started", "commit-completed", "commit-failed"} \subseteq Marks \cup Ends
  /\ \A r : StatusesOf(r) \subseteq Ends
  /\ \A r : Verdict(r) \in Verdicts
BY DEF Marks, Ends, Verdicts, StatusesOf, Verdict

\* A line of move r, as Record writes it.
Recorded(r, kind) ==
  /\ EndsOf(log[r]) = {} /\ log[r] \in Seq(Events)
  /\ \E e \in Events : /\ e.kind = kind /\ e.error = "none"
                      /\ log' = [log EXCEPT ![r] = Append(@, e)]

LEMMA RecordInv ==
  ASSUME NEW h, Store = {h}, TraceInv(h), MovesInv(h), NEW r \in Run,
         NEW at \in Live, Awaits(r, at), NEW kind \in Marks \cup Ends, Record(r, kind)
  PROVE  /\ TraceInv(h)' /\ Recorded(r, kind)
         /\ UNCHANGED <<directory, store>>
<1>1. AppendEvent(h, r, kind)
  BY Hosted DEF Record
<1>2. UNCHANGED <<directory, store>>
  BY <1>1 DEF AppendEvent, AppendLine
<1> QED
  BY <1>1, <1>2, AppendEventInv DEF Recorded

LEMMA TraceKept ==
  ASSUME NEW h, Store = {h}, TraceInv(h), UNCHANGED traceVars
  PROVE  TraceInv(h)'
<1>1. UNCHANGED <<directory, manifest, log, index, store, job, deaths>>
  BY DEF traceVars
<1> QED
  BY <1>1 DEF TraceInv, TraceTypeOK, FilesInv, JobInv, SyncInv, Synced, Known, Said

LEMMA StepTraceInv ==
  ASSUME NEW h, Store = {h}, TraceInv(h), MovesInv(h), NEW r \in Run, Step(r)
  PROVE  TraceInv(h)'
<1>1. CASE Started(r)
  BY <1>1, RecordInv, KindsOfLines DEF Started, Live, Early
<1>2. CASE BeforeCommit(r)
  BY <1>2, RecordInv, KindsOfLines DEF BeforeCommit, Live, Early
<1>3. CASE Commit(r) \/ Reject(r) \/ CommitThrows(r) \/ Audit(r)
  <2>1. UNCHANGED traceVars
    BY <1>3 DEF Commit, Reject, CommitThrows, Audit
  <2> QED
    BY <2>1, TraceKept
<1>4. CASE Observe(r)
  <2>1. PICK kind \in {"commit-completed", "commit-failed"} : Record(r, kind)
    BY <1>4 DEF Observe
  <2>2. Awaits(r, "audited") /\ "audited" \in Live
    BY <1>4 DEF Observe, Live, Resolved
  <2> QED
    BY <2>1, <2>2, RecordInv, KindsOfLines
<1>5. CASE ObserveFailure(r)
  BY <1>5, RecordInv, KindsOfLines DEF ObserveFailure, Live, Throwing
<1>6. CASE Link(r)
  <2>1. PICK at \in {"observed", "audited"} : Awaits(r, at)
    BY <1>6 DEF Link
  <2>2. at \in Live
    BY DEF Live, Resolved
  <2>3. Rewrite(h, r)
    BY <1>6, <2>1, <2>2, Hosted DEF Link
  <2> QED
    BY <2>3, RewriteInv
<1>7. CASE End(r)
  <2>1. PICK at \in {"working", "announced", "failing", "linked"} : Awaits(r, at)
    BY <1>7 DEF End
  <2>2. at \in Live
    BY DEF Live, Early, Resolved, Throwing
  <2>3. PICK status \in StatusesOf(r) : Record(r, status)
    BY <1>7 DEF End
  <2> QED
    BY <2>1, <2>2, <2>3, RecordInv, KindsOfLines
<1>8. CASE Finish(r)
  <2>1. "ended" \in Live /\ Awaits(r, "ended")
    BY <1>8 DEF Finish, Live
  <2>2. Rewrite(h, r)
    BY <1>8, <2>1, Hosted DEF Finish
  <2> QED
    BY <2>2, RewriteInv
<1> QED
  BY <1>1, <1>2, <1>3, <1>4, <1>5, <1>6, <1>7, <1>8 DEF Step

LEMMA WorkTraceInv ==
  ASSUME NEW h, Store = {h}, TraceInv(h), Work(h)
  PROVE  TraceInv(h)'
<1>1. CASE Visit(h)
  <2>1. PICK r \in job[h].todo : Readable(log[r]) /\ (Interrupt(h, r) \/ Reconcile(h, r))
    BY <1>1 DEF Visit
  <2>2. r \in Run /\ job[h].op = "visit"
    BY <1>1 DEF Visit, At, TraceInv, TraceTypeOK, Jobs
  <2> QED
    BY <2>1, <2>2, InterruptInv, ReconcileInv
<1> QED
  BY <1>1, CreateManifestInv, CreateLogInv, WriteIndexInv, WriteManifestInv, LoadIndexInv,
     RepairInv, EndLoadingInv
     DEF Work

LEMMA NextTraceInv ==
  ASSUME NEW h, Store = {h}, TraceInv(h), MovesInv(h), [MoveNext]_moveVars
  PROVE  TraceInv(h)'
<1>1. CASE \E r \in Run : Step(r)
  BY <1>1, StepTraceInv
<1>2. CASE StoreWorks(h)
  BY <1>2, WorkTraceInv DEF StoreWorks
<1>3. CASE Recover(h)
  <2>1. CASE Serve(h)
    BY <2>1, TraceKept DEF Serve
  <2>2. ASSUME NEW r \in Run, Diagnose(h, r)
        PROVE  TraceInv(h)'
    <3>1. PICK verdict \in Verdicts : AppendDiagnostic(h, r, verdict)
      BY <2>2, KindsOfLines DEF Diagnose
    <3> QED
      BY <3>1, AppendDiagnosticInv
  <2> QED
    BY <1>3, <2>1, <2>2 DEF Recover
<1>4. CASE Restart(h)
  BY <1>4, StartInv DEF Restart
<1>5. CASE CrashHost(h)
  BY <1>5, DieInv DEF CrashHost
<1>6. CASE \E r \in Run : Begin(h, r)
  BY <1>6, CreateDirectoryInv DEF Begin
<1>7. CASE RemoveBranch \/ UNCHANGED moveVars
  BY <1>7, TraceKept DEF RemoveBranch, moveVars
<1> QED
  BY <1>1, <1>2, <1>3, <1>4, <1>5, <1>6, <1>7 DEF MoveNext, Progress

LEMMA TraceInitInv ==
  ASSUME NEW h, Store = {h}, TraceInit
  PROVE  TraceInv(h)
<1>1. TraceTypeOK /\ store[h] = "fresh" /\ job[h] = Idle
  BY IdleFields DEF TraceInit, TraceTypeOK
<1>2. \A r \in Run : manifest[r] = NoManifest /\ log[r] = NoLog /\ ~Known(r)
  BY DEF TraceInit, Absent, Known
<1>3. Idle.op = "idle" /\ Idle.run = NoRun
  BY DEF Idle
<1> QED
  BY <1>1, <1>2, <1>3 DEF TraceInv, FilesInv, JobInv, SyncInv, Idle

-----------------------------------------------------------------------------
(* The steps of moves and hosts, and what the traces tell.                 *)

MoveSet == [at : Live \cup {"none", "over", "dead"}, host : Store \cup {NoStore},
            head : Nat, crossed : BOOLEAN, accepted : BOOLEAN]

LEMMA ChainGrows ==
  ASSUME chain \in Seq(Run), NEW r \in Run, chain' = Append(chain, r)
  PROVE  /\ chain' \in Seq(Run) /\ Len(chain) \in Nat /\ Len(chain') = Len(chain) + 1
         /\ \A q : Committed(q)' <=> Committed(q) \/ q = r
<1>1. /\ chain' \in Seq(Run) /\ Len(chain) \in Nat /\ Len(chain') = Len(chain) + 1
      /\ DOMAIN chain' = DOMAIN chain \cup {Len(chain) + 1}
      /\ \A i \in DOMAIN chain : chain'[i] = chain[i]
      /\ chain'[Len(chain) + 1] = r
  OBVIOUS
<1> QED
  BY <1>1 DEF Committed

LEMMA LogGrows ==
  ASSUME TraceTypeOK, NEW r \in Run, log[r] \in Seq(Events), NEW e \in Events,
         log' = [log EXCEPT ![r] = Append(@, e)]
  PROVE  /\ Kinds(r)' = Kinds(r) \cup {e.kind}
         /\ HostInterrupted(r)' => HostInterrupted(r) \/ e.error = "host-restart"
         /\ log'[r] # NoLog
         /\ EndsOf(log[r]) # {} \/ e.kind \in Ends => EndsOf(log'[r]) # {}
         /\ \A q \in Run \ {r} : log'[q] = log[q]
<1>1. log'[r] = Append(log[r], e) /\ \A q \in Run \ {r} : log'[q] = log[q]
  BY DEF TraceTypeOK
<1>2. /\ log'[r] \in Seq(Events)
      /\ DOMAIN log'[r] = DOMAIN log[r] \cup {Len(log[r]) + 1}
      /\ \A i \in DOMAIN log[r] : log'[r][i] = log[r][i]
      /\ log'[r][Len(log[r]) + 1] = e
      /\ EndsOf(log'[r]) = EndsOf(log[r]) \cup IF e.kind \in Ends THEN {Len(log[r]) + 1} ELSE {}
  BY <1>1, AppendedLog
<1>3. log[r] # NoLog /\ log'[r] # NoLog
  BY <1>2, AbsenceAssumption
<1>4. Kinds(r)' = Kinds(r) \cup {e.kind}
  BY <1>2, <1>3 DEF Kinds
<1>5. HostInterrupted(r)' => HostInterrupted(r) \/ e.error = "host-restart"
  BY <1>2, <1>3 DEF HostInterrupted
<1> QED
  BY <1>1, <1>2, <1>3, <1>4, <1>5

LEMMA SameLog ==
  ASSUME NEW r, log'[r] = log[r]
  PROVE  Kinds(r)' = Kinds(r) /\ HostInterrupted(r)' = HostInterrupted(r)
BY DEF Kinds, HostInterrupted

\* What a step leaves alone of run q.
Spared(q) ==
  /\ move'[q] = move[q] /\ audit'[q] = audit[q] /\ log'[q] = log[q]
  /\ Committed(q)' <=> Committed(q)
  /\ q \notin directory => q \notin directory'

Steady(h) ==
  /\ chain \in Seq(Run) /\ Len(chain') \in Nat /\ Len(chain') >= Len(chain)
  /\ recovery[h] = "done" => recovery'[h] = "done"
  /\ Served(h)'

LEMMA MoveKept ==
  ASSUME NEW h, NEW q, MoveInv(h, q), move[q].head \in Nat, Spared(q), Steady(h)
  PROVE  MoveInv(h, q)'
<1>1. Kinds(q)' = Kinds(q) /\ HostInterrupted(q)' = HostInterrupted(q)
  BY SameLog DEF Spared
<1>2. Len(chain) \in Nat
  BY DEF Steady
<1> QED
  BY <1>1, <1>2 DEF MoveInv, Spared, Steady

LEMMA Unextended ==
  ASSUME NEW h, MovesInv(h), UNCHANGED <<chain, recovery>>, store'[h] = store[h]
  PROVE  Steady(h) /\ \A q : Committed(q)' = Committed(q)
<1>1. chain' = chain /\ chain \in Seq(Run) /\ recovery' = recovery
  BY DEF MovesInv, MoveTypeOK
<1>2. Len(chain') \in Nat /\ Len(chain') >= Len(chain)
  BY <1>1
<1>3. Served(h)'
  BY DEF MovesInv, Served
<1> QED
  BY <1>1, <1>2, <1>3 DEF Steady, Committed

\* Only the move of run r goes on, and takes record m.
Goes(r, m) == move' = [move EXCEPT ![r] = m]

LEMMA MoveAt ==
  ASSUME NEW m \in MoveSet, NEW at \in Live, NEW n, n = [m EXCEPT !.at = at]
  PROVE  /\ n \in MoveSet /\ n.at = at /\ n.host = m.host /\ n.head = m.head
         /\ n.crossed = m.crossed /\ n.accepted = m.accepted
BY DEF MoveSet

\* A step that writes a line of move r and takes it further.
LEMMA RecordingStep ==
  ASSUME NEW h, Store = {h}, TraceInv(h), MovesInv(h), NEW r \in Run, NEW kind,
         Recorded(r, kind), NEW to \in Live, To(r, to),
         UNCHANGED <<directory, store, worldVars, recovery>>
  PROVE  /\ MoveTypeOK' /\ Served(h)'
         /\ \A q \in Run \ {r} : MoveInv(h, q)'
         /\ Kinds(r)' = Kinds(r) \cup {kind} /\ (HostInterrupted(r)' => HostInterrupted(r))
         /\ log'[r] # NoLog /\ (kind \in Ends => EndsOf(log'[r]) # {})
         /\ move'[r].at = to /\ move'[r].host = move[r].host /\ move'[r].head = move[r].head
         /\ move'[r].crossed = move[r].crossed /\ move'[r].accepted = move[r].accepted
         /\ audit' = audit /\ chain' = chain /\ Committed(r)' = Committed(r)
         /\ recovery' = recovery /\ store' = store
<1>1. /\ chain' = chain /\ attached' = attached /\ audit' = audit
      /\ directory' = directory /\ store' = store /\ recovery' = recovery
  BY DEF worldVars
<1>2. /\ MoveTypeOK /\ move \in [Run -> MoveSet]
  BY DEF MovesInv, MoveTypeOK, MoveSet
<1>3. /\ move'[r] \in MoveSet /\ move'[r].at = to
      /\ move'[r].host = move[r].host /\ move'[r].head = move[r].head
      /\ move'[r].crossed = move[r].crossed /\ move'[r].accepted = move[r].accepted
      /\ \A q \in Run \ {r} : move'[q] = move[q]
      /\ move' \in [Run -> MoveSet]
  <2>1. PICK m : m = [move[r] EXCEPT !.at = to]
    OBVIOUS
  <2>2. move' = [move EXCEPT ![r] = m]
    BY <2>1 DEF To
  <2>3. /\ m \in MoveSet /\ m.at = to /\ m.host = move[r].host /\ m.head = move[r].head
        /\ m.crossed = move[r].crossed /\ m.accepted = move[r].accepted
    BY <1>2, <2>1, MoveAt
  <2> QED
    BY <1>2, <2>2, <2>3
<1>4. MoveTypeOK'
  BY <1>1, <1>2, <1>3 DEF MoveTypeOK, MoveSet
<1>5. PICK e \in Events : /\ e.kind = kind /\ e.error = "none"
                         /\ log' = [log EXCEPT ![r] = Append(@, e)]
  BY DEF Recorded
<1>6. /\ Kinds(r)' = Kinds(r) \cup {kind} /\ (HostInterrupted(r)' => HostInterrupted(r))
      /\ log'[r] # NoLog /\ (kind \in Ends => EndsOf(log'[r]) # {})
      /\ \A q \in Run \ {r} : log'[q] = log[q]
  BY <1>5, LogGrows DEF Recorded, TraceInv
<1>7. Steady(h) /\ \A q : Committed(q)' = Committed(q)
  BY <1>1, Unextended
<1>8. ASSUME NEW q \in Run \ {r}
      PROVE  MoveInv(h, q)'
  <2>1. Spared(q)
    BY <1>1, <1>3, <1>6, <1>7 DEF Spared
  <2>2. MoveInv(h, q) /\ move[q].head \in Nat
    BY <1>2 DEF MovesInv, MoveSet
  <2> QED
    BY <1>7, <2>1, <2>2, MoveKept
<1> QED
  BY <1>1, <1>3, <1>4, <1>6, <1>7, <1>8 DEF Steady

\* A step of move r that leaves the files alone.
LEMMA QuietStep ==
  ASSUME NEW h, Store = {h}, MovesInv(h), NEW r \in Run, NEW m \in MoveSet, Goes(r, m),
         UNCHANGED <<directory, log, store, recovery>>,
         \/ UNCHANGED chain
         \/ chain' = Append(chain, r),
         UNCHANGED attached, audit' \in [Run -> Audits \cup {NoAudit}],
         \A q \in Run \ {r} : audit'[q] = audit[q]
  PROVE  /\ MoveTypeOK' /\ Served(h)' /\ move'[r] = m
         /\ \A q \in Run \ {r} : MoveInv(h, q)'
         /\ Kinds(r)' = Kinds(r) /\ HostInterrupted(r)' = HostInterrupted(r)
         /\ Len(chain') \in Nat /\ Len(chain) \in Nat
<1>1. MoveTypeOK /\ move \in [Run -> MoveSet] /\ chain \in Seq(Run)
  BY DEF MovesInv, MoveTypeOK, MoveSet
<1>2. move'[r] = m /\ move' \in [Run -> MoveSet] /\ \A q \in Run \ {r} : move'[q] = move[q]
  BY <1>1 DEF Goes
<1>3. /\ chain' \in Seq(Run) /\ Len(chain) \in Nat /\ Len(chain') \in Nat
      /\ Len(chain') >= Len(chain) /\ \A q \in Run \ {r} : Committed(q)' <=> Committed(q)
  <2>1. CASE UNCHANGED chain
    BY <1>1, <2>1 DEF Committed
  <2>2. CASE chain' = Append(chain, r)
    <3>1. /\ chain' \in Seq(Run) /\ Len(chain) \in Nat /\ Len(chain') = Len(chain) + 1
          /\ \A q : Committed(q)' <=> Committed(q) \/ q = r
      BY <1>1, <2>2, ChainGrows
    <3> QED
      BY <3>1
  <2> QED
    BY <2>1, <2>2
<1>4. MoveTypeOK'
  BY <1>1, <1>2, <1>3 DEF MoveTypeOK, MoveSet
<1>5. Steady(h)
  BY <1>1, <1>3 DEF Steady, MovesInv, Served
<1>6. ASSUME NEW q \in Run \ {r}
      PROVE  MoveInv(h, q)'
  <2>1. Spared(q)
    BY <1>2, <1>3 DEF Spared
  <2>2. MoveInv(h, q) /\ move[q].head \in Nat
    BY <1>1 DEF MovesInv, MoveSet
  <2> QED
    BY <1>5, <2>1, <2>2, MoveKept
<1>7. Kinds(r)' = Kinds(r) /\ HostInterrupted(r)' = HostInterrupted(r)
  BY SameLog
<1> QED
  BY <1>2, <1>3, <1>4, <1>5, <1>6, <1>7 DEF Steady

\* The verdict of the engine and its audit.
LEMMA CommitMoves ==
  ASSUME NEW h, Store = {h}, MovesInv(h), NEW r \in Run, Commit(r)
  PROVE  MovesInv(h)'
<1>1. /\ move[r].at = "announced" /\ move[r].host = h /\ recovery[h] = "done"
      /\ MoveTypeOK /\ move[r] \in MoveSet /\ MoveInv(h, r)
  BY Hosted DEF Commit, Live, Early, MovesInv, MoveTypeOK, MoveSet
<1>2. PICK m : /\ m = [move[r] EXCEPT !.at = "resolved", !.crossed = TRUE, !.accepted = TRUE]
               /\ Goes(r, m)
  BY DEF Commit, Cross, Goes
<1>3. /\ m \in MoveSet /\ m.at = "resolved" /\ m.host = h /\ m.head = move[r].head
      /\ m.crossed = TRUE /\ m.accepted = TRUE
  <2>1. "resolved" \in Live
    BY DEF Live, Resolved
  <2> QED
    BY <1>1, <1>2, <2>1 DEF MoveSet
<1>4. /\ chain' = Append(chain, r) /\ Len(chain) = move[r].head
      /\ UNCHANGED <<attached, audit, recovery, directory, log, store>>
  BY DEF Commit, Extend, traceVars
<1>5. /\ MoveTypeOK' /\ Served(h)' /\ move'[r] = m /\ \A q \in Run \ {r} : MoveInv(h, q)'
      /\ Kinds(r)' = Kinds(r) /\ HostInterrupted(r)' = HostInterrupted(r)
  BY <1>1, <1>2, <1>3, <1>4, QuietStep DEF MoveTypeOK
<1>6. Len(chain) \in Nat /\ Len(chain') = Len(chain) + 1 /\ Committed(r)'
  BY <1>1, <1>4, ChainGrows DEF MoveTypeOK
<1>7. Len(chain') > m.head
  BY <1>3, <1>4, <1>6
<1>8. ~HostInterrupted(r) /\ "commit-completed" \notin Kinds(r)
      /\ Kinds(r) \cap ({"committed"} \cup Gone) = {} /\ audit[r] = NoAudit
  BY <1>1 DEF MoveInv, Early, Live, Quiet
<1>9. MoveInv(h, r)'
  BY <1>1, <1>3, <1>4, <1>5, <1>6, <1>7, <1>8
     DEF MoveInv, Early, Resolved, Throwing, Live, Quiet
<1> QED
  BY <1>5, <1>9 DEF MovesInv

LEMMA RejectMoves ==
  ASSUME NEW h, Store = {h}, MovesInv(h), NEW r \in Run, Reject(r)
  PROVE  MovesInv(h)'
<1>1. PICK at \in {"working", "announced"} : Awaits(r, at)
  BY DEF Reject
<1>2. /\ move[r].at = at /\ move[r].host = h /\ recovery[h] = "done" /\ at \in Early
      /\ MoveTypeOK /\ move[r] \in MoveSet /\ MoveInv(h, r)
  BY <1>1, Hosted DEF Live, Early, MovesInv, MoveTypeOK, MoveSet
<1>3. PICK m : /\ Goes(r, m)
               /\ \/ m = [move[r] EXCEPT !.at = "resolved"]
                  \/ m = [move[r] EXCEPT !.at = "resolved", !.crossed = TRUE, !.accepted = FALSE]
  BY DEF Reject, To, Cross, Goes
<1>4. /\ ~move[r].crossed /\ ~move[r].accepted /\ ~Committed(r) /\ ~HostInterrupted(r)
      /\ "commit-completed" \notin Kinds(r) /\ audit[r] = NoAudit
      /\ Kinds(r) \cap ({"committed"} \cup Gone) = {}
  BY <1>2 DEF MoveInv, Early, Live, Quiet
<1>5. m \in MoveSet /\ m.at = "resolved" /\ m.host = h /\ m.head = move[r].head /\ ~m.accepted
  <2>1. "resolved" \in Live
    BY DEF Live, Resolved
  <2> QED
    BY <1>2, <1>3, <1>4, <2>1 DEF MoveSet
<1>6. UNCHANGED <<chain, attached, audit, recovery, directory, log, store>>
  BY DEF Reject, traceVars, worldVars
<1>7. /\ MoveTypeOK' /\ Served(h)' /\ move'[r] = m /\ \A q \in Run \ {r} : MoveInv(h, q)'
      /\ Kinds(r)' = Kinds(r) /\ HostInterrupted(r)' = HostInterrupted(r)
  BY <1>2, <1>3, <1>5, <1>6, QuietStep DEF MoveTypeOK
<1>8. ~Committed(r)'
  BY <1>4, <1>6 DEF Committed
<1>9. MoveInv(h, r)'
  BY <1>2, <1>4, <1>5, <1>6, <1>7, <1>8 DEF MoveInv, Early, Resolved, Throwing, Live, Quiet
<1> QED
  BY <1>7, <1>9 DEF MovesInv

LEMMA ThrowMoves ==
  ASSUME NEW h, Store = {h}, MovesInv(h), NEW r \in Run, CommitThrows(r)
  PROVE  MovesInv(h)'
<1>1. /\ move[r].at = "announced" /\ move[r].host = h /\ recovery[h] = "done"
      /\ MoveTypeOK /\ move[r] \in MoveSet /\ MoveInv(h, r)
  BY Hosted DEF CommitThrows, Live, Early, MovesInv, MoveTypeOK, MoveSet
<1>2. PICK m : /\ m = [move[r] EXCEPT !.at = "throwing", !.crossed = TRUE, !.accepted = FALSE]
               /\ Goes(r, m)
  BY DEF CommitThrows, Cross, Goes
<1>3. /\ m \in MoveSet /\ m.at = "throwing" /\ m.host = h /\ m.head = move[r].head
      /\ m.crossed = TRUE
  <2>1. "throwing" \in Live
    BY DEF Live, Throwing
  <2> QED
    BY <1>1, <1>2, <2>1 DEF MoveSet
<1>4. /\ (chain' = Append(chain, r) /\ Len(chain) = move[r].head) \/ UNCHANGED chain
      /\ UNCHANGED <<attached, audit, recovery, directory, log, store>>
  BY DEF CommitThrows, Extend, traceVars, worldVars
<1>5. /\ MoveTypeOK' /\ Served(h)' /\ move'[r] = m /\ \A q \in Run \ {r} : MoveInv(h, q)'
      /\ Kinds(r)' = Kinds(r) /\ HostInterrupted(r)' = HostInterrupted(r)
  BY <1>1, <1>2, <1>3, <1>4, QuietStep DEF MoveTypeOK
<1>6. /\ ~HostInterrupted(r) /\ "commit-completed" \notin Kinds(r) /\ ~Committed(r)
      /\ Kinds(r) \cap ({"committed"} \cup Gone) = {} /\ audit[r] = NoAudit
  BY <1>1 DEF MoveInv, Early, Live, Quiet
<1>7. Committed(r)' => Len(chain') > m.head
  <2>1. CASE UNCHANGED chain
    BY <1>6, <2>1 DEF Committed
  <2>2. CASE chain' = Append(chain, r) /\ Len(chain) = move[r].head
    <3>1. Len(chain) \in Nat /\ Len(chain') = Len(chain) + 1
      BY <1>1, <2>2, ChainGrows DEF MoveTypeOK
    <3> QED
      BY <1>3, <2>2, <3>1
  <2> QED
    BY <1>4, <2>1, <2>2
<1>8. MoveInv(h, r)'
  BY <1>1, <1>3, <1>4, <1>5, <1>6, <1>7 DEF MoveInv, Early, Resolved, Throwing, Live, Quiet
<1> QED
  BY <1>5, <1>8 DEF MovesInv

LEMMA AuditMoves ==
  ASSUME NEW h, Store = {h}, MovesInv(h), NEW r \in Run, Audit(r)
  PROVE  MovesInv(h)'
<1>1. /\ move[r].at = "resolved" /\ move[r].host = h /\ recovery[h] = "done"
      /\ MoveTypeOK /\ move[r] \in MoveSet /\ MoveInv(h, r)
  BY Hosted DEF Audit, Live, Resolved, MovesInv, MoveTypeOK, MoveSet
<1>2. PICK m : m = [move[r] EXCEPT !.at = "audited"] /\ Goes(r, m)
  BY DEF Audit, To, Goes
<1>3. /\ m \in MoveSet /\ m.at = "audited" /\ m.host = h /\ m.head = move[r].head
      /\ m.crossed = move[r].crossed /\ m.accepted = move[r].accepted
  <2>1. "audited" \in Live
    BY DEF Live, Resolved
  <2> QED
    BY <1>1, <1>2, <2>1 DEF MoveSet
<1>4. UNCHANGED <<chain, attached, recovery, directory, log, store>>
  BY DEF Audit, traceVars
<1>5. PICK a : /\ a = [accepted |-> move[r].accepted, head |-> Len(chain)]
               /\ \/ audit' = [audit EXCEPT ![r] = a]
                  \/ UNCHANGED audit
  BY DEF Audit
<1>6. a \in Audits /\ a.accepted = move[r].accepted
  <2>1. Len(chain) \in Nat /\ move[r].accepted \in BOOLEAN
    BY <1>1 DEF MoveTypeOK, MoveSet
  <2> QED
    BY <1>5, <2>1 DEF Audits
<1>7. /\ audit' \in [Run -> Audits \cup {NoAudit}]
      /\ \A q \in Run \ {r} : audit'[q] = audit[q]
      /\ audit'[r] = a \/ audit'[r] = audit[r]
  BY <1>1, <1>5, <1>6 DEF MoveTypeOK
<1>8. /\ MoveTypeOK' /\ Served(h)' /\ move'[r] = m /\ \A q \in Run \ {r} : MoveInv(h, q)'
      /\ Kinds(r)' = Kinds(r) /\ HostInterrupted(r)' = HostInterrupted(r)
  BY <1>2, <1>3, <1>4, <1>7, QuietStep
<1>9. Committed(r)' = Committed(r)
  BY <1>4 DEF Committed
<1>10. /\ ~HostInterrupted(r) /\ "commit-completed" \notin Kinds(r)
       /\ Kinds(r) \cap ({"committed"} \cup Gone) = {}
       /\ audit[r] # NoAudit => (audit[r].accepted <=> Committed(r))
       /\ move[r].accepted <=> Committed(r)
       /\ move[r].accepted => move[r].crossed
       /\ Committed(r) => Len(chain) > move[r].head
  BY <1>1 DEF MoveInv, Resolved, Live, Quiet
<1>11. audit'[r] # NoAudit => (audit'[r].accepted <=> Committed(r))
  BY <1>6, <1>7, <1>10
<1>12. MoveInv(h, r)'
  BY <1>1, <1>3, <1>4, <1>8, <1>9, <1>10, <1>11 DEF MoveInv, Early, Resolved, Throwing, Live, Quiet
<1> QED
  BY <1>8, <1>12 DEF MovesInv

\* The steps that write a line.
LEMMA RecordMoves ==
  ASSUME NEW h, Store = {h}, TraceInv(h), MovesInv(h), NEW r \in Run,
         NEW from \in Live, Awaits(r, from), NEW to \in Live, To(r, to),
         NEW kind \in Marks \cup Ends, Record(r, kind),
         UNCHANGED <<worldVars, recovery>>,
         \/ from = "created" /\ to = "working" /\ kind = "started"
         \/ from = "working" /\ to = "announced" /\ kind = "commit-started"
         \/ from = "audited" /\ to = "observed" /\ move[r].accepted /\ kind = "commit-completed"
         \/ from = "audited" /\ to = "observed" /\ kind = "commit-failed"
         \/ from = "throwing" /\ to = "failing" /\ kind = "commit-failed"
         \/ /\ from \in {"working", "announced", "failing", "linked"} /\ to = "ended"
            /\ kind \in Ends /\ (kind = "cancelled" => ~move[r].crossed)
  PROVE  MovesInv(h)'
<1>1. /\ move[r].at = from /\ move[r].host = h /\ recovery[h] = "done" /\ store[h] = "up"
      /\ MoveInv(h, r)
  BY Hosted DEF MovesInv
<1>2. Recorded(r, kind) /\ UNCHANGED <<directory, store>>
  BY RecordInv
<1>3. /\ MoveTypeOK' /\ Served(h)' /\ \A q \in Run \ {r} : MoveInv(h, q)'
      /\ Kinds(r)' = Kinds(r) \cup {kind} /\ (HostInterrupted(r)' => HostInterrupted(r))
      /\ log'[r] # NoLog /\ (kind \in Ends => EndsOf(log'[r]) # {})
      /\ move'[r].at = to /\ move'[r].host = move[r].host /\ move'[r].head = move[r].head
      /\ move'[r].crossed = move[r].crossed /\ move'[r].accepted = move[r].accepted
      /\ audit' = audit /\ chain' = chain /\ Committed(r)' = Committed(r)
      /\ recovery' = recovery /\ store' = store
  BY <1>2, RecordingStep
<1>4. /\ ~HostInterrupted(r) /\ Kinds(r) \cap ({"committed"} \cup Gone) = {}
      /\ from \in Early => ~move[r].crossed /\ ~move[r].accepted /\ ~Committed(r)
      /\ from \in Early \cup Throwing => audit[r] = NoAudit
      /\ from \in Resolved => (move[r].accepted <=> Committed(r))
      /\ from \in Resolved => (move[r].accepted => move[r].crossed)
      /\ from \in Throwing => move[r].crossed
      /\ from \in Quiet => "commit-completed" \notin Kinds(r)
      /\ audit[r] # NoAudit => (audit[r].accepted <=> Committed(r))
      /\ "commit-completed" \in Kinds(r) => Committed(r)
      /\ Committed(r) => Len(chain) > move[r].head
  BY <1>1 DEF MoveInv, Live, Early, Throwing, Resolved
<1>5. /\ to \in Early => from \in Early /\ kind \in {"started", "commit-started"}
      /\ to \in Throwing => from \in Throwing /\ kind = "commit-failed"
      /\ to \in Resolved => from \in Resolved
      /\ to \in Quiet => from \in Quiet /\ kind # "commit-completed"
      /\ kind = "commit-completed" => from \in Resolved /\ move[r].accepted
      /\ to = "ended" <=> kind \in Ends
      /\ kind = "cancelled" => ~move[r].crossed /\ from \in Early \cup Throwing \cup Resolved
      /\ kind \notin {"committed", "rejected", "not-observed"}
      /\ to \notin {"none", "over", "dead"}
  BY DEF Early, Resolved, Throwing, Live, Quiet, Ends, Marks
<1>6. /\ kind = "commit-completed" => Committed(r)
      /\ kind = "cancelled" => ~Committed(r) /\ "commit-completed" \notin Kinds(r)
  <2>1. CASE kind = "commit-completed"
    <3>1. from \in Resolved /\ move[r].accepted
      BY <1>5, <2>1
    <3>2. move[r].accepted <=> Committed(r)
      BY <1>4, <3>1
    <3> QED
      BY <2>1, <3>1, <3>2
  <2>2. CASE kind = "cancelled"
    <3>1. from \in Early => ~Committed(r)
      BY <1>4
    <3>2. from \notin Throwing
      BY <1>4, <1>5, <2>2
    <3>3. from \in Resolved => ~Committed(r)
      <4>1. ~move[r].crossed
        BY <1>5, <2>2
      <4> QED
        BY <1>4, <4>1, Zenon
    <3>4. ~Committed(r)
      BY <1>5, <2>2, <3>1, <3>2, <3>3
    <3> QED
      BY <1>4, <2>2, <3>4
  <2> QED
    BY <2>1, <2>2
<1>7. /\ to \in Early => ~move[r].crossed /\ ~move[r].accepted /\ ~Committed(r)
      /\ to \in Early \cup Throwing => audit[r] = NoAudit
      /\ to \in Resolved => (move[r].accepted <=> Committed(r))
      /\ to \in Resolved => (move[r].accepted => move[r].crossed)
      /\ to \in Throwing => move[r].crossed
      /\ to \in Quiet => "commit-completed" \notin Kinds(r)'
      /\ to # "ended" => Kinds(r)' \cap ({"committed"} \cup Gone) = {}
      /\ Kinds(r)' \cap {"commit-completed", "committed"} # {} => Committed(r)
      /\ Kinds(r)' \cap Gone # {} => ~Committed(r)
  BY <1>3, <1>4, <1>5, <1>6 DEF Gone, Ends
<1>8. MoveInv(h, r)'
  BY <1>1, <1>3, <1>4, <1>5, <1>7 DEF MoveInv
<1> QED
  BY <1>3, <1>8 DEF MovesInv

LEMMA RewriteMoves ==
  ASSUME NEW h, Store = {h}, MovesInv(h), NEW r \in Run,
         NEW from \in {"audited", "observed", "ended"}, Awaits(r, from), Rewrite(h, r),
         UNCHANGED <<worldVars, recovery>>,
         \/ from # "ended" /\ To(r, "linked")
         \/ from = "ended" /\ Goes(r, Over(r, "over"))
  PROVE  MovesInv(h)'
<1>1. /\ move[r].at = from /\ move[r].host = h /\ recovery[h] = "done" /\ store[h] = "up"
      /\ MoveTypeOK /\ move[r] \in MoveSet /\ MoveInv(h, r)
  BY Hosted DEF Live, Resolved, MovesInv, MoveTypeOK, MoveSet
<1>2. PICK m : /\ Goes(r, m)
               /\ \/ from # "ended" /\ m = [move[r] EXCEPT !.at = "linked"]
                  \/ from = "ended" /\ m = [NoMove EXCEPT !.at = "over", !.head = move[r].head]
  BY DEF To, Goes, Over
<1>3. /\ m \in MoveSet /\ m.head = move[r].head
      /\ from # "ended" => /\ m.at = "linked" /\ m.host = h
                           /\ m.crossed = move[r].crossed /\ m.accepted = move[r].accepted
      /\ from = "ended" => m.at = "over" /\ m.host = NoStore
  <2>1. CASE from # "ended"
    <3>1. "linked" \in Live
      BY DEF Live, Resolved
    <3> QED
      BY <1>1, <1>2, <2>1, <3>1 DEF MoveSet
  <2>2. CASE from = "ended"
    BY <1>1, <1>2, <2>2 DEF MoveSet, NoMove
  <2> QED
    BY <2>1, <2>2
<1>4. UNCHANGED <<chain, attached, audit, recovery, directory, log, store>>
  BY DEF Rewrite, files, worldVars
<1>5. /\ MoveTypeOK' /\ Served(h)' /\ move'[r] = m /\ \A q \in Run \ {r} : MoveInv(h, q)'
      /\ Kinds(r)' = Kinds(r) /\ HostInterrupted(r)' = HostInterrupted(r)
  BY <1>1, <1>2, <1>3, <1>4, QuietStep DEF MoveTypeOK
<1>6. Committed(r)' = Committed(r)
  BY <1>4 DEF Committed
<1>7. MoveInv(h, r)'
  BY <1>1, <1>3, <1>4, <1>5, <1>6 DEF MoveInv, Early, Resolved, Throwing, Live, Quiet
<1> QED
  BY <1>5, <1>7 DEF MovesInv

LEMMA StepMovesInv ==
  ASSUME NEW h, Store = {h}, TraceInv(h), MovesInv(h), NEW r \in Run, Step(r)
  PROVE  MovesInv(h)'
<1>0. /\ {"created", "working", "announced", "audited", "observed", "throwing", "failing",
           "linked", "ended"} \subseteq Live
      /\ {"started", "commit-started", "commit-completed", "commit-failed"} \subseteq Marks \cup Ends
  BY DEF Live, Early, Resolved, Throwing, Marks
<1>1. CASE Started(r)
  BY <1>0, <1>1, RecordMoves DEF Started
<1>2. CASE BeforeCommit(r)
  BY <1>0, <1>2, RecordMoves DEF BeforeCommit
<1>3. CASE Observe(r)
  <2>1. /\ Awaits(r, "audited") /\ To(r, "observed") /\ UNCHANGED <<worldVars, recovery>>
        /\ \/ move[r].accepted /\ Record(r, "commit-completed")
           \/ Record(r, "commit-failed")
    BY <1>3 DEF Observe
  <2> QED
    BY <1>0, <2>1, RecordMoves
<1>4. CASE ObserveFailure(r)
  BY <1>0, <1>4, RecordMoves DEF ObserveFailure
<1>5. CASE End(r)
  <2>1. PICK at \in {"working", "announced", "failing", "linked"} : Awaits(r, at)
    BY <1>5 DEF End
  <2>2. PICK status \in StatusesOf(r) : Record(r, status)
    BY <1>5 DEF End
  <2>3. status \in Ends /\ (status = "cancelled" => ~move[r].crossed)
    BY <2>2, KindsOfLines DEF StatusesOf
  <2>4. To(r, "ended") /\ UNCHANGED <<worldVars, recovery>>
    BY <1>5 DEF End
  <2> QED
    BY <1>0, <2>1, <2>2, <2>3, <2>4, RecordMoves
<1>6. CASE Link(r)
  <2>1. PICK at \in {"observed", "audited"} : Awaits(r, at)
    BY <1>6 DEF Link
  <2>2. Rewrite(h, r) /\ To(r, "linked") /\ UNCHANGED <<worldVars, recovery>>
    BY <1>0, <1>6, <2>1, Hosted DEF Link
  <2> QED
    BY <2>1, <2>2, RewriteMoves
<1>7. CASE Finish(r)
  <2>1. Awaits(r, "ended") /\ Goes(r, Over(r, "over")) /\ UNCHANGED <<worldVars, recovery>>
    BY <1>7 DEF Finish, Goes
  <2>2. Rewrite(h, r)
    BY <1>0, <1>7, <2>1, Hosted DEF Finish
  <2> QED
    BY <2>1, <2>2, RewriteMoves
<1> QED
  BY <1>1, <1>2, <1>3, <1>4, <1>5, <1>6, <1>7, CommitMoves, RejectMoves, ThrowMoves, AuditMoves
     DEF Step

LEMMA BeginMoves ==
  ASSUME NEW h, Store = {h}, TraceInv(h), MovesInv(h), NEW r \in Run, Begin(h, r)
  PROVE  MovesInv(h)'
<1>1. /\ recovery[h] = "done" /\ move[r].at = "none" /\ store[h] = "up"
      /\ MoveTypeOK /\ move \in [Run -> MoveSet] /\ MoveInv(h, r)
  BY DEF Begin, MovesInv, Served, MoveTypeOK, MoveSet
<1>2. PICK m : /\ m = [move[r] EXCEPT !.at = "created", !.host = h, !.head = Len(chain)]
               /\ Goes(r, m)
  BY <1>1 DEF Begin, Goes
<1>3. /\ m \in MoveSet /\ m.at = "created" /\ m.host = h
      /\ m.crossed = move[r].crossed /\ m.accepted = move[r].accepted
  <2>1. "created" \in Live /\ Len(chain) \in Nat /\ h \in Store
    BY <1>1 DEF Live, Early, MoveTypeOK
  <2>2. move[r] \in MoveSet
    BY <1>1
  <2> QED
    BY <1>2, <2>1, <2>2 DEF MoveSet
<1>4. /\ UNCHANGED <<chain, attached, audit, recovery, log, store>>
      /\ directory' = directory \cup {r}
  BY DEF Begin, CreateDirectory, worldVars
<1>5. move'[r] = m /\ move' \in [Run -> MoveSet] /\ \A q \in Run \ {r} : move'[q] = move[q]
  BY <1>1, <1>2, <1>3 DEF Goes
<1>6. MoveTypeOK'
  BY <1>1, <1>4, <1>5 DEF MoveTypeOK, MoveSet
<1>7. Steady(h) /\ \A q : Committed(q)' = Committed(q)
  BY <1>4, Unextended
<1>8. ASSUME NEW q \in Run \ {r}
      PROVE  MoveInv(h, q)'
  <2>1. Spared(q)
    BY <1>4, <1>5, <1>7 DEF Spared
  <2>2. MoveInv(h, q) /\ move[q].head \in Nat
    BY <1>1 DEF MovesInv, MoveSet
  <2> QED
    BY <1>7, <2>1, <2>2, MoveKept
<1>9. /\ Kinds(r)' = {} /\ ~HostInterrupted(r)' /\ audit[r] = NoAudit /\ ~Committed(r)
      /\ ~move[r].crossed /\ ~move[r].accepted
  <2>1. /\ r \notin directory /\ audit[r] = NoAudit /\ ~Committed(r)
        /\ ~move[r].crossed /\ ~move[r].accepted
    BY <1>1 DEF MoveInv
  <2>2. log'[r] = NoLog
    BY <1>4, <2>1 DEF TraceInv, FilesInv
  <2> QED
    BY <2>1, <2>2 DEF Kinds, HostInterrupted
<1>10. MoveInv(h, r)'
  BY <1>1, <1>3, <1>4, <1>5, <1>7, <1>9 DEF MoveInv, Early, Resolved, Throwing, Live, Quiet
<1> QED
  BY <1>6, <1>7, <1>8, <1>10 DEF MovesInv, Steady

\* A verdict agrees with the history: the audit and the trace of a commit are
\* of a move that is in it, and the head tells that it is not.
LEMMA VerdictIsTrue ==
  ASSUME NEW h, NEW r, MoveInv(h, r)
  PROVE  /\ Verdict(r) = "committed" => Committed(r)
         /\ Verdict(r) \in Gone => ~Committed(r)
<1>1. CASE audit[r] # NoAudit
  BY <1>1 DEF MoveInv, Verdict, Gone
<1>2. CASE audit[r] = NoAudit
  <2>1. "commit-completed" \in Kinds(r) => Committed(r)
    BY DEF MoveInv
  <2>2. Committed(r) => ~(Len(chain) = move[r].head)
    BY DEF MoveInv
  <2> QED
    BY <1>2, <2>1, <2>2 DEF Verdict, Gone
<1> QED
  BY <1>1, <1>2

LEMMA DiagnoseMoves ==
  ASSUME NEW h, Store = {h}, TraceInv(h), MovesInv(h), NEW r \in Run, Diagnose(h, r)
  PROVE  MovesInv(h)'
<1>1. MoveTypeOK /\ MoveInv(h, r) /\ move \in [Run -> MoveSet]
  BY DEF MovesInv, MoveTypeOK, MoveSet
<1>2. PICK verdict \in Verdicts : verdict = Verdict(r) /\ AppendDiagnostic(h, r, verdict)
  BY KindsOfLines DEF Diagnose
<1>3. /\ UNCHANGED <<chain, attached, audit, move, recovery, directory, store>>
  BY DEF Diagnose, worldVars, AppendDiagnostic, AppendLine
<1>4. log[r] \in Seq(Events)
  BY <1>2, AppendDiagnosticInv
<1>5. PICK e \in Events : /\ e.kind = verdict /\ e.error = "none"
                         /\ log' = [log EXCEPT ![r] = Append(@, e)]
  BY <1>2, AppendDiagnosticInv
<1>6. /\ Kinds(r)' = Kinds(r) \cup {verdict} /\ (HostInterrupted(r)' => HostInterrupted(r))
      /\ log'[r] # NoLog /\ (EndsOf(log[r]) # {} => EndsOf(log'[r]) # {})
      /\ \A q \in Run \ {r} : log'[q] = log[q]
  BY <1>4, <1>5, LogGrows DEF TraceInv
<1>7. Steady(h) /\ \A q : Committed(q)' = Committed(q)
  BY <1>3, Unextended
<1>8. ASSUME NEW q \in Run \ {r}
      PROVE  MoveInv(h, q)'
  <2>1. Spared(q)
    BY <1>3, <1>6, <1>7 DEF Spared
  <2>2. MoveInv(h, q) /\ move[q].head \in Nat
    BY <1>1 DEF MovesInv, MoveSet
  <2> QED
    BY <1>7, <2>1, <2>2, MoveKept
<1>9. move[r].at = "dead"
  <2>1. manifest[r].error = "host-restart" /\ store[h] = "up" /\ job[h].op = "idle" /\ Known(r)
    BY DEF Diagnose, Unexplained, AppendDiagnostic, At
  <2>2. manifest[r] = Replayed(log[r])
    BY <2>1, TraceAssumption DEF TraceInv, JobInv, SyncInv, Synced
  <2>3. \E i \in EndsOf(log[r]) : log[r][i].error = "host-restart"
    BY <2>1, <2>2 DEF Replayed
  <2>4. log[r] # NoLog
    BY <1>4, AbsenceAssumption
  <2>5. HostInterrupted(r)
    BY <2>3, <2>4 DEF HostInterrupted, EndsOf
  <2> QED
    BY <1>1, <2>5 DEF MoveInv
<1>10. /\ verdict = "committed" => Committed(r)
       /\ verdict \in Gone => ~Committed(r)
       /\ verdict # "commit-completed"
  BY <1>1, <1>2, VerdictIsTrue DEF Verdicts
<1>11. MoveInv(h, r)'
  <2>1. /\ Kinds(r) \cap {"commit-completed", "committed"} # {} => Committed(r)
        /\ Kinds(r) \cap Gone # {} => ~Committed(r)
    BY <1>1 DEF MoveInv
  <2>2. /\ Kinds(r)' \cap {"commit-completed", "committed"} # {} => Committed(r)
        /\ Kinds(r)' \cap Gone # {} => ~Committed(r)
    BY <1>6, <1>10, <2>1
  <2> QED
    BY <1>1, <1>3, <1>6, <1>7, <1>9, <2>2 DEF MoveInv, Early, Resolved, Throwing, Live, Quiet
<1>12. MoveTypeOK'
  BY <1>1, <1>3 DEF MoveTypeOK
<1> QED
  BY <1>7, <1>8, <1>11, <1>12 DEF MovesInv, Steady

\* A step that leaves moves, audits and chain alone and writes no line.
LEMMA IdleMoves ==
  ASSUME NEW h, MovesInv(h), UNCHANGED <<chain, audit, move, directory>>,
         attached' \in BOOLEAN, recovery' \in [Store -> {"pending", "done"}],
         recovery[h] = "done" => recovery'[h] = "done",
         recovery'[h] = "done" => store'[h] = "up",
         \A q \in Run : log'[q] = log[q] \/ (log[q] = NoLog /\ log'[q] = <<>>)
  PROVE  MovesInv(h)'
<1>1. MoveTypeOK /\ move \in [Run -> MoveSet] /\ chain \in Seq(Run) /\ Len(chain) \in Nat
  BY DEF MovesInv, MoveTypeOK, MoveSet
<1>2. MoveTypeOK'
  BY <1>1 DEF MoveTypeOK
<1>3. Steady(h) /\ \A q : Committed(q)' = Committed(q)
  BY <1>1 DEF Steady, Committed, Served
<1>4. ASSUME NEW q \in Run
      PROVE  MoveInv(h, q)'
  <2>1. MoveInv(h, q) /\ move[q].head \in Nat
    BY <1>1 DEF MovesInv, MoveSet
  <2>2. CASE log'[q] = log[q]
    <3>1. Spared(q)
      BY <1>3, <2>2 DEF Spared
    <3> QED
      BY <1>3, <2>1, <3>1, MoveKept
  <2>3. CASE log[q] = NoLog /\ log'[q] = <<>>
    <3>1. /\ Kinds(q) = {} /\ Kinds(q)' = {} /\ ~HostInterrupted(q) /\ ~HostInterrupted(q)'
      BY <2>3 DEF Kinds, HostInterrupted
    <3> QED
      BY <1>3, <2>1, <2>3, <3>1 DEF MoveInv, Steady
  <2> QED
    BY <2>2, <2>3
<1> QED
  BY <1>2, <1>3, <1>4 DEF MovesInv, Steady

\* Only a run whose process has died is interrupted in the name of a restart.
LEMMA InterruptMoves ==
  ASSUME NEW h, Store = {h}, TraceInv(h), MovesInv(h), NEW r \in Run, r \in job[h].todo,
         job[h].op = "visit", Readable(log[r]), Interrupt(h, r),
         UNCHANGED <<worldVars, move, recovery>>
  PROVE  MovesInv(h)'
<1>1. MoveTypeOK /\ MoveInv(h, r) /\ move \in [Run -> MoveSet]
  BY DEF MovesInv, MoveTypeOK, MoveSet
<1>2. UNCHANGED <<chain, attached, audit, move, recovery, directory, store>>
  BY DEF Interrupt, worldVars
<1>3. EndsOf(log[r]) = {} /\ log[r] \in Seq(Events)
  BY InterruptInv
<1>4. PICK e \in Events : /\ e.kind = "interrupted"
                         /\ log' = [log EXCEPT ![r] = Append(@, e)]
  BY InterruptInv
<1>5. /\ Kinds(r)' = Kinds(r) \cup {"interrupted"} /\ log'[r] # NoLog
      /\ \A q \in Run \ {r} : log'[q] = log[q]
  BY <1>3, <1>4, LogGrows DEF TraceInv
<1>6. Steady(h) /\ \A q : Committed(q)' = Committed(q)
  BY <1>2, Unextended
<1>7. ASSUME NEW q \in Run \ {r}
      PROVE  MoveInv(h, q)'
  <2>1. Spared(q)
    BY <1>2, <1>5, <1>6 DEF Spared
  <2>2. MoveInv(h, q) /\ move[q].head \in Nat
    BY <1>1 DEF MovesInv, MoveSet
  <2> QED
    BY <1>6, <2>1, <2>2, MoveKept
<1>8. move[r].at = "dead"
  <2>1. store[h] = "loading" /\ Known(r) /\ r \in directory /\ recovery[h] # "done"
    BY DEF TraceInv, JobInv, SyncInv, FilesInv, MovesInv, Served
  <2>2. move[r].at \notin Live /\ move[r].at # "none"
    BY <1>1, <2>1 DEF MoveInv
  <2>3. move[r].at # "over"
    BY <1>1, <1>3 DEF MoveInv
  <2> QED
    BY <1>1, <2>2, <2>3 DEF MoveSet
<1>9. MoveInv(h, r)'
  <2>1. /\ Kinds(r) \cap {"commit-completed", "committed"} # {} => Committed(r)
        /\ Kinds(r) \cap Gone # {} => ~Committed(r)
    BY <1>1 DEF MoveInv
  <2>2. /\ Kinds(r)' \cap {"commit-completed", "committed"} # {} => Committed(r)
        /\ Kinds(r)' \cap Gone # {} => ~Committed(r)
    BY <1>5, <2>1 DEF Gone
  <2> QED
    BY <1>1, <1>2, <1>6, <1>8, <2>2 DEF MoveInv, Early, Resolved, Throwing, Live, Quiet
<1>10. MoveTypeOK'
  BY <1>1, <1>2 DEF MoveTypeOK
<1> QED
  BY <1>6, <1>7, <1>9, <1>10 DEF MovesInv, Steady

LEMMA WorkMovesInv ==
  ASSUME NEW h, Store = {h}, TraceInv(h), MovesInv(h), StoreWorks(h)
  PROVE  MovesInv(h)'
<1>1. /\ Work(h) /\ UNCHANGED <<worldVars, move, recovery>>
      /\ UNCHANGED <<chain, attached, audit, move, recovery>> /\ MoveTypeOK
      /\ (recovery[h] = "done" => store[h] = "up") /\ JobInv(h) /\ TraceTypeOK
  BY DEF StoreWorks, worldVars, MovesInv, Served, TraceInv
<1>2. CASE \E r \in job[h].todo : Readable(log[r]) /\ Interrupt(h, r) /\ job[h].op = "visit"
  <2>1. PICK r \in job[h].todo : Readable(log[r]) /\ Interrupt(h, r) /\ job[h].op = "visit"
    BY <1>2
  <2>2. r \in Run
    BY <1>1, <2>1 DEF TraceTypeOK, Jobs
  <2> QED
    BY <1>1, <2>1, <2>2, InterruptMoves
<1>3. CASE CreateLog(h)
  <2>1. PICK r : r = job[h].run
    OBVIOUS
  <2>2. /\ log[r] = NoLog /\ r \in Run /\ log' = [log EXCEPT ![r] = <<>>]
        /\ UNCHANGED <<directory, store>>
    BY <1>1, <1>3, <2>1 DEF CreateLog, At, JobInv
  <2>3. \A q \in Run : log'[q] = log[q] \/ (log[q] = NoLog /\ log'[q] = <<>>)
    BY <1>1, <2>2 DEF TraceTypeOK
  <2> QED
    BY <1>1, <2>2, <2>3, IdleMoves DEF MoveTypeOK
<1>4. CASE LoadIndex(h) \/ EndLoading(h)
  <2>1. UNCHANGED <<directory, log>>
    BY <1>4 DEF LoadIndex, EndLoading, files
  <2>2. recovery[h] # "done"
    BY <1>1, <1>4 DEF LoadIndex, EndLoading, At, JobInv
  <2> QED
    BY <1>1, <2>1, <2>2, IdleMoves DEF MoveTypeOK
<1>5. CASE CreateManifest(h) \/ WriteIndex(h) \/ WriteManifest(h) \/ Repair(h)
           \/ \E r \in job[h].todo : Reconcile(h, r)
  <2>1. UNCHANGED <<directory, log, store>>
    BY <1>5 DEF CreateManifest, WriteIndex, WriteManifest, Repair, Reconcile, files
  <2> QED
    BY <1>1, <2>1, IdleMoves DEF MoveTypeOK
<1> QED
  BY <1>1, <1>2, <1>3, <1>4, <1>5 DEF Work, Visit, At

LEMMA CrashMoves ==
  ASSUME NEW h, Store = {h}, MovesInv(h), CrashHost(h)
  PROVE  MovesInv(h)'
<1>1. /\ MoveTypeOK /\ move \in [Run -> MoveSet] /\ recovery \in [Store -> {"pending", "done"}]
      /\ chain \in Seq(Run)
  BY DEF MovesInv, MoveTypeOK, MoveSet
<1>2. /\ UNCHANGED <<directory, log, chain, attached, audit>>
      /\ recovery' = [recovery EXCEPT ![h] = "pending"]
      /\ move' = [r \in Run |-> IF move[r].host = h THEN Over(r, "dead") ELSE move[r]]
  BY DEF CrashHost, Die, files, worldVars
<1>3. recovery' \in [Store -> {"pending", "done"}] /\ recovery'[h] = "pending"
  BY <1>1, <1>2
<1>4. ASSUME NEW r \in Run
      PROVE  /\ move'[r] \in MoveSet /\ move'[r].head = move[r].head
             /\ \/ move'[r].at = "dead" /\ move'[r].host = NoStore /\ move[r].at \in Live
                \/ move'[r] = move[r] /\ move[r].at \notin Live
  <2>1. MoveInv(h, r) /\ move[r] \in MoveSet /\ h # NoStore
    BY <1>1, MoveAssumption DEF MovesInv
  <2>2. CASE move[r].at \in Live
    <3>1. move'[r] = [NoMove EXCEPT !.at = "dead", !.head = move[r].head]
      BY <1>2, <2>1, <2>2 DEF MoveInv, Over
    <3> QED
      BY <2>1, <2>2, <3>1 DEF MoveSet, NoMove
  <2>3. CASE move[r].at \notin Live
    BY <1>2, <2>1, <2>3 DEF MoveInv
  <2> QED
    BY <2>2, <2>3
<1>5. move' \in [Run -> MoveSet]
  BY <1>2, <1>4
<1>6. MoveTypeOK'
  BY <1>1, <1>2, <1>3, <1>5 DEF MoveTypeOK, MoveSet
<1>7. ASSUME NEW r \in Run
      PROVE  MoveInv(h, r)'
  <2>1. /\ Kinds(r)' = Kinds(r) /\ HostInterrupted(r)' = HostInterrupted(r)
        /\ Committed(r)' = Committed(r) /\ log' = log
    BY <1>2, SameLog DEF Committed
  <2>2. MoveInv(h, r)
    BY DEF MovesInv
  <2>3. CASE move'[r].at = "dead" /\ move'[r].host = NoStore /\ move[r].at \in Live
    <3>1. /\ audit[r] # NoAudit => (audit[r].accepted <=> Committed(r))
          /\ Kinds(r) \cap {"commit-completed", "committed"} # {} => Committed(r)
          /\ Kinds(r) \cap Gone # {} => ~Committed(r)
          /\ Committed(r) => Len(chain) > move[r].head
      BY <2>2 DEF MoveInv
    <3> QED
      BY <1>2, <1>3, <1>4, <2>1, <2>3, <3>1
         DEF MoveInv, Early, Resolved, Throwing, Live, Quiet
  <2>4. CASE move'[r] = move[r] /\ move[r].at \notin Live
    BY <1>2, <1>3, <2>1, <2>2, <2>4 DEF MoveInv, Live
  <2> QED
    BY <1>4, <2>3, <2>4
<1> QED
  BY <1>3, <1>6, <1>7 DEF MovesInv, Served

LEMMA NextMovesInv ==
  ASSUME NEW h, Store = {h}, TraceInv(h), MovesInv(h), [MoveNext]_moveVars
  PROVE  MovesInv(h)'
<1>0. /\ recovery \in [Store -> {"pending", "done"}] /\ attached \in BOOLEAN
      /\ (recovery[h] = "done" => store[h] = "up")
  BY DEF MovesInv, MoveTypeOK, Served
<1>1. CASE \E r \in Run : Step(r)
  BY <1>1, StepMovesInv
<1>2. CASE StoreWorks(h)
  BY <1>2, WorkMovesInv
<1>3. CASE Serve(h)
  <2>1. /\ UNCHANGED <<chain, attached, audit, move, directory, log, store>> /\ store[h] = "up"
        /\ recovery' = [recovery EXCEPT ![h] = "done"]
    BY <1>3 DEF Serve, traceVars, worldVars
  <2> QED
    BY <1>0, <2>1, IdleMoves
<1>4. CASE \E r \in Run : Diagnose(h, r)
  BY <1>4, DiagnoseMoves
<1>5. CASE Restart(h)
  <2>1. /\ UNCHANGED <<chain, attached, audit, move, recovery, directory, log>> /\ store[h] = "down"
    BY <1>5 DEF Restart, Start, files, worldVars
  <2> QED
    BY <1>0, <2>1, IdleMoves
<1>6. CASE CrashHost(h)
  BY <1>6, CrashMoves
<1>7. CASE \E r \in Run : Begin(h, r)
  BY <1>7, BeginMoves
<1>8. CASE RemoveBranch \/ UNCHANGED moveVars
  <2>1. /\ UNCHANGED <<chain, audit, move, recovery, directory, log, store>>
        /\ attached' \in BOOLEAN
    BY <1>0, <1>8 DEF RemoveBranch, moveVars, traceVars, worldVars
  <2> QED
    BY <1>0, <2>1, IdleMoves
<1> QED
  BY <1>1, <1>2, <1>3, <1>4, <1>5, <1>6, <1>7, <1>8 DEF MoveNext, Progress, Recover

LEMMA MoveInitInv ==
  ASSUME NEW h, Store = {h}, MoveInit
  PROVE  TraceInv(h) /\ MovesInv(h)
<1>1. TraceInv(h)
  BY TraceInitInv DEF MoveInit
<1>2. MoveTypeOK
  BY DEF MoveInit, MoveTypeOK, NoMove
<1>3. recovery[h] = "pending"
  BY DEF MoveInit
<1>4. ASSUME NEW r \in Run
      PROVE  MoveInv(h, r)
  <2>1. /\ log[r] = NoLog /\ directory = {} /\ audit[r] = NoAudit /\ move[r] = NoMove
        /\ chain = <<>>
    BY DEF MoveInit, TraceInit
  <2>2. Kinds(r) = {} /\ ~HostInterrupted(r) /\ ~Committed(r)
    BY <2>1 DEF Kinds, HostInterrupted, Committed
  <2> QED
    BY <2>1, <2>2 DEF MoveInv, NoMove, Early, Resolved, Throwing, Live, Quiet
<1> QED
  BY <1>1, <1>2, <1>3, <1>4 DEF MovesInv, Served

LEMMA MoveInductive ==
  ASSUME NEW h, Store = {h}
  PROVE  MoveSpec => [](TraceInv(h) /\ MovesInv(h))
<1>1. MoveInit => TraceInv(h) /\ MovesInv(h)
  BY MoveInitInv
<1>2. TraceInv(h) /\ MovesInv(h) /\ [MoveNext]_moveVars => (TraceInv(h) /\ MovesInv(h))'
  BY NextTraceInv, NextMovesInv
<1> QED
  BY <1>1, <1>2, PTL DEF MoveSpec

\* Every variable of traces, moves and audits keeps its type.
THEOREM MoveTypeCorrect ==
  ASSUME NEW h, Store = {h}
  PROVE  MoveSpec => [](TraceTypeOK /\ MoveTypeOK)
<1>1. TraceInv(h) /\ MovesInv(h) => TraceTypeOK /\ MoveTypeOK
  BY DEF TraceInv, MovesInv
<1> QED
  BY <1>1, MoveInductive, PTL

\* The log of a run can always be read, wherever processes died and whoever
\* writes to it: a recorder, a diagnosis or a recovery.
THEOREM LogsAlwaysReadable ==
  ASSUME NEW h, Store = {h}
  PROVE  MoveSpec => []LogsReadable
<1>1. TraceInv(h) => LogsReadable
  BY DEF TraceInv, FilesInv, LogsReadable
<1> QED
  BY <1>1, MoveInductive, PTL

\* A trace that says that a move was committed is of a move in the history, and
\* one that says that it was cancelled, rejected or not observed is not.
THEOREM TracesTellTheTruth ==
  ASSUME NEW h, Store = {h}
  PROVE  MoveSpec => []TraceTellsTruth
<1>1. MovesInv(h) => TraceTellsTruth
  BY DEF MovesInv, MoveInv, TraceTellsTruth, Gone
<1> QED
  BY <1>1, MoveInductive, PTL

\* With one process at a time, only a run whose process is gone is interrupted
\* in the name of a restart.
THEOREM OnlyTheDeadInterrupted ==
  ASSUME NEW h, Store = {h}
  PROVE  MoveSpec => []InterruptedMeansDead
<1>1. MovesInv(h) => InterruptedMeansDead
  BY DEF MovesInv, MoveInv, InterruptedMeansDead
<1> QED
  BY <1>1, MoveInductive, PTL

\* What a step does to the outcomes that manifest and index show.
OutcomeStands ==
  \A r \in Run :
    /\ manifest[r] # NoManifest /\ manifest[r].status # "running"
         => manifest'[r].status = manifest[r].status
    /\ index[r] \in Ends => index'[r] = index[r]

\* What ends a run in its manifest or the index is the end in its log.
LEMMA SaidEnd ==
  ASSUME NEW h, TraceInv(h), NEW r \in Run, log[r] # NoLog
  PROVE  /\ Replayed(log[r]).status = Ending(log[r])
         /\ manifest[r].status \in Said(r) /\ manifest[r].status # "running"
              => Replayed(log[r]).status = manifest[r].status
         /\ index[r] \in Said(r) /\ index[r] \in Ends => Replayed(log[r]).status = index[r]
<1>1. log[r] \in Seq(Events) /\ Readable(log[r])
  BY DEF TraceInv, FilesInv
<1>2. Replayed(log[r]).status = Ending(log[r])
  BY <1>1, ReplayedType
<1> QED
  BY <1>2, KindsApart DEF Said

LEMMA WorkKeepsOutcome ==
  ASSUME NEW h, Store = {h}, TraceInv(h), Work(h)
  PROVE  OutcomeStands
<1>1. TraceTypeOK /\ JobInv(h) /\ SyncInv(h) /\ \A q \in Run : FilesInv(q)
  BY DEF TraceInv
<1>2. PICK r : r = job[h].run
  OBVIOUS
<1>3. CASE CreateManifest(h)
  <2>1. /\ manifest' = [manifest EXCEPT ![r] = NewManifest] /\ index' = index
        /\ manifest[r] = NoManifest /\ r \in Run
    BY <1>1, <1>2, <1>3 DEF CreateManifest, At, JobInv
  <2> QED
    BY <1>1, <2>1 DEF OutcomeStands, TraceTypeOK
<1>4. CASE WriteManifest(h) \/ Repair(h)
  <2>1. manifest' = [manifest EXCEPT ![r] = job[h].held] /\ index' = index
    BY <1>2, <1>4 DEF WriteManifest, Repair
  <2>2. r \in Run /\ Known(r) /\ job[h].held = Replayed(log[r])
    BY <1>1, <1>2, <1>4 DEF WriteManifest, Repair, At, JobInv, SyncInv
  <2>3. manifest[r].status # "running" => Replayed(log[r]).status = manifest[r].status
    BY <1>1, <2>2, SaidEnd DEF FilesInv
  <2>4. manifest'[r] = Replayed(log[r]) /\ \A q \in Run \ {r} : manifest'[q] = manifest[q]
    BY <1>1, <2>1, <2>2 DEF TraceTypeOK
  <2> QED
    BY <2>1, <2>3, <2>4 DEF OutcomeStands
<1>5. CASE WriteIndex(h)
  <2>1. index' = [index EXCEPT ![r] = job[h].held.status] /\ manifest' = manifest
    BY <1>2, <1>5 DEF WriteIndex
  <2>2. /\ r \in Run /\ log[r] # NoLog /\ job[h].held = Replayed(log[r])
        /\ index[r] \in {"absent"} \cup Said(r)
    BY <1>1, <1>2, <1>5 DEF WriteIndex, At, JobInv
  <2>3. index[r] \in Ends => Replayed(log[r]).status = index[r]
    BY <2>2, SaidEnd DEF Ends
  <2>4. index'[r] = Replayed(log[r]).status /\ \A q \in Run \ {r} : index'[q] = index[q]
    BY <1>1, <2>1, <2>2 DEF TraceTypeOK, Shown
  <2> QED
    BY <2>1, <2>3, <2>4 DEF OutcomeStands
<1>6. CASE EndLoading(h)
  <2>1. /\ index' = job[h].shown /\ manifest' = manifest
        /\ job[h].op = "visit" /\ job[h].todo = {} /\ store[h] = "loading"
    BY <1>1, <1>6 DEF EndLoading, At, JobInv
  <2>2. ASSUME NEW q \in Run, index[q] \in Ends
        PROVE  index'[q] = index[q]
    <3>1. Known(q)
      BY <2>2 DEF Known, Ends
    <3>2. Synced(q) /\ job[h].shown[q] = manifest[q].status
      BY <1>1, <2>1, <3>1 DEF SyncInv
    <3>3. log[q] # NoLog /\ index[q] \in Said(q)
      BY <1>1, <3>1 DEF FilesInv
    <3> QED
      BY <2>1, <2>2, <3>2, <3>3, SaidEnd DEF Synced
  <2> QED
    BY <2>1, <2>2 DEF OutcomeStands
<1>7. CASE CreateLog(h) \/ LoadIndex(h) \/ Visit(h)
  <2>1. manifest' = manifest /\ index' = index
    BY <1>7 DEF CreateLog, LoadIndex, Visit, Interrupt, Reconcile, files
  <2> QED
    BY <2>1 DEF OutcomeStands
<1> QED
  BY <1>3, <1>4, <1>5, <1>6, <1>7 DEF Work

LEMMA NextKeepsOutcome ==
  ASSUME NEW h, Store = {h}, TraceInv(h), MoveNext
  PROVE  OutcomeStands
<1>1. CASE StoreWorks(h)
  BY <1>1, WorkKeepsOutcome DEF StoreWorks
<1>2. CASE \E r \in Run : Step(r)
  <2>1. manifest' = manifest /\ index' = index
    <3>1. PICK r \in Run : Step(r)
      BY <1>2
    <3>2. CASE Started(r) \/ BeforeCommit(r) \/ Observe(r) \/ ObserveFailure(r) \/ End(r)
      <4>1. \E s, kind : AppendEvent(s, r, kind)
        BY <3>2 DEF Started, BeforeCommit, Observe, ObserveFailure, End, Record
      <4> QED
        BY <4>1 DEF AppendEvent, AppendLine
    <3>3. CASE Commit(r) \/ Reject(r) \/ CommitThrows(r) \/ Audit(r)
      BY <3>3 DEF Commit, Reject, CommitThrows, Audit, traceVars
    <3>4. CASE Link(r) \/ Finish(r)
      BY <3>4 DEF Link, Finish, Rewrite, files
    <3> QED
      BY <3>1, <3>2, <3>3, <3>4 DEF Step
  <2> QED
    BY <2>1 DEF OutcomeStands
<1>3. CASE Recover(h) \/ Restart(h) \/ CrashHost(h) \/ (\E r \in Run : Begin(h, r)) \/ RemoveBranch
  <2>1. manifest' = manifest /\ index' = index
    BY <1>3 DEF Recover, Serve, Diagnose, AppendDiagnostic, AppendLine, Restart, Start, CrashHost, Die,
                Begin, CreateDirectory, RemoveBranch, traceVars, files
  <2> QED
    BY <2>1 DEF OutcomeStands
<1> QED
  BY <1>1, <1>2, <1>3 DEF MoveNext, Progress

\* The outcome of a run that its manifest or the index has shown is shown ever
\* after.
THEOREM OutcomesStand ==
  ASSUME NEW h, Store = {h}
  PROVE  MoveSpec => ShownOutcomeStands
<1>1. TraceInv(h) /\ [MoveNext]_moveVars => [OutcomeStands]_moveVars
  BY NextKeepsOutcome
<1>2. MoveSpec => [][OutcomeStands]_moveVars
  BY <1>1, MoveInductive, PTL DEF MoveSpec
<1>3. OutcomeStands <=> \A r \in Run :
        /\ manifest[r] # NoManifest /\ manifest[r].status # "running"
             => manifest'[r].status = manifest[r].status
        /\ index[r] \in Ends => index'[r] = index[r]
  BY DEF OutcomeStands
<1> QED
  BY <1>2, <1>3, PTL DEF ShownOutcomeStands
=============================================================================
