# Formal specification of the novel world harness

The harness compiles a novel into an executable world and lets a player act in
it.  Its governing invariant is `proposal -> validate -> commit -> render`
(`README.md` of the repository): language models only propose, and the host
decides what becomes world history.  This directory specifies the host's
protocols in TLA+: the state that processes, HTTP handlers and files share, and
the steps that change it.  TLC checks small instances; TLAPS proves theorems for
every value of the constants.

Source paths below are relative to the repository root (`src/world/...`).

## 1. The system

| Part | State it keeps | Operations | Talks to | Hard behaviour | What makes it correct |
|---|---|---|---|---|---|
| World store (`world/store.ts`, `world/engine.ts`) | immutable commit objects; per branch `branch.json`, `head.json`, a lock file | genesis, fork, commit, remove, operator unlock | every writer of history | several processes, one file-system step at a time; death between any two | no acknowledged commit is lost, heads name stored histories, locks are never stolen |
| Compiler lock (`util/workspace-lock.ts`) | lock directory, `owner.json`, recovery flock | acquire, release, inspect, recover | all compiler stages, CLI and web | death of the owner, reuse of process ids, competing recoveries | mutual exclusion, only a dead owner is archived |
| Web operations (`web/operation-manager.ts`, `application/play-service.ts`, `application/preparation-service.ts`) | records, idempotency map, abort signals, manifests on disk | start, execute, mark boundary, cancel, shutdown, evict, load | HTTP handlers, tasks, event stream | retries of a request, cancel against commit, shutdown against a task, restart | one operation per request, an outcome is final, "before the commit boundary" is true |
| Mutation journal (`web/mutation-journal.ts`) | one record per key, a queue | initialize, execute, exclusive | every synchronous web command | crash in a mutation, failing writes, duplicates | at most once, success is real, the queue never stops |
| Play sessions (`world/play-session.ts`) | a record per session, `active.json` | create, activate, update, archive, restore, remove, detach, end of a move | moves, removal, catalog | two files written one after the other without a lock | one active session, the pointer agrees, a removed branch stays unplayable unless a client reopens its session |
| Play turn (`world/play-experience.ts`, `world/play-move.ts`, `world/runtime.ts`, `world/player-action.ts`, `world/npc-reaction.ts`) | intent and outcome receipts, the turn's local state, the history | admission, player commit, character reactions, world response, canonical recovery, actors, background, completion, replay | world store, sessions, operations | stages that fail after their commit, stale candidates, repeated moves, crashes | a move acts once, its budget holds, its receipt accounts for it |
| Engine rules, projections, norms, processes, time (`world/`) | derived state | validate, project, replay | play turn | stale checkpoints, numeric edges | a checkpoint plus its tail equals the whole replay |
| Frontier and scheduling (`world/frontier.ts`) | derived ranking | refresh, select | play turn | stale eligibility | what is realized is not offered again |
| Event stream (`web/event-stream.ts`) | sequence number, bounded history, listeners | publish, replay, subscribe | browser | cursor older than the history or than a restart; faulty listeners | no gap that the client cannot see |
| Login interactions (`web/auth-interaction-manager.ts`) | pending prompts | request, answer, abort, timeout | operations | answer, abort and timer race | one resolution |
| Removal and maintenance (`world/removal.ts`, `application/maintenance-service.ts`) | none of its own | preview, execute | journal, stores | a preview that has become stale; many files in turn | nothing outside the preview is removed |
| Traces (`trace/`, `application/play-trace-recovery-service.ts`) | event log and manifest of a run, one index | create, append, finish, initialize, interrupt, diagnose | operations, play, world store | death between log, manifest and index; two processes | what a trace says of the world is true, a shown outcome stands |
| Request budgets (`runtime/model-request-budget.ts`) | counters, hard stop | begin call, admit payload, progress, close | every model call | late callbacks, restarts | limits hold, a stop stays |
| Compile loop (`runtime/compile-loop/`) | `state.json` of each generation, the pointer, the lock | admit, dispatch, repair, verify, stop, resume, new run | child processes, operator | supervisor dies while a child works; resolutions; removed locks | no second worker for uncertain work, allowances hold |
| Proposals and canonical stores (`world/canonical-model.ts`, `compiler/validator.ts`, `compiler/converge.ts`) | proposal files in three directories, rejection reports, immutable revisions, references, evidence bindings | submit, withdraw, accept, reject, converge, quarantine, reset | compiler lock | a commit of six writes that ends after any of them | the model can be read and is what was accepted |
| Batches, receipts, ledgers (`compiler/`) | batch states, append-only ledgers | finish, certify, revise | proposals | crash in the middle of a finish | a decision is taken once and is complete |

The semantic compiler (heuristics and validators over model output), prompts and
tools of the agent, conversation presentation, read models, the command line,
configuration, evaluation and the browser application keep no protocol state of
their own; `PROJECT.json` lists each of them with the reason it is left out.

How the modelled parts meet: a browser command passes the **mutation journal**
or becomes a **web operation**; a move's operation runs one **play turn**; the
turn commits through the **world store** and then points the **play session** at
the new head; preparation runs under the **compiler lock**.  The modules are
separate because each meets the next through a promise that is checked where it
is made: `BranchStore` shows that heads grow by compare-and-set and never lose an
acknowledged commit, and `PlayTurn` takes a head to be the length of such a
history; `OperationManager` shows that two operations of one scope can overlap (`OperationManagerScope.cfg`),
and `PlayTurn` and `PlaySessions` therefore let calls interleave; `WorkspaceLock`
shows that one process at a time is in a compiler command, and `Proposals`
therefore has one job.  `MoveTrace` composes the trace store with the moves of a
host and the diagnosis that the next host makes of them.

## 2. Modules and their correspondence to the code

`PROJECT.json` maps every definition to the lines it stands for.  Operators whose
comment begins with `Mutant:` are plausible bugs; a property is only trusted
because TLC finds it broken when such an operator replaces the right one.

### BranchStore, BranchHistory

`BranchStore` has one action per file-system step of a worker: staging and
publishing a branch directory, reading the head, storing an object, opening the
lock file, comparing and renaming the head, and reading the token before the
unlink.  A commit id is a hash that names its parent, so a commit is the sequence
of its events.  `WriteHeadFails` is the error after the rename (the directory
sync fails), `Crash` and `Restart` may come at any point, `OperatorUnlocks` is the
documented manual removal of a dead process's lock.  `BranchHistory` is what the
store promises: histories of branches extend, fork or disappear as a whole, and
only what is stored is pointed at.

### WorkspaceLock

`mkdir` takes the lock, then `owner.json` is written; release reads, unlinks and
removes.  A recovery takes the kernel lock, checks the owner twice and renames
the directory away.  An owner is a process id and its run, but liveness is tested
on the id alone, as `kill(pid, 0)` does.

### OperationManager, OperationLifecycle

Handlers look up a key, pass the admission check and start; tasks mark the
boundary before their effect (a move) or after it (`LateMark`, a preparation).
Persist errors, shutdown, death, restart and the reload of manifests are actions.
`OperationLifecycle` is the contract a client sees: queued, running, one outcome.

### MutationJournal

`execute` with every place where it can throw, and `exclusive`'s queue; the
journal record is written before and after the mutation; a restart turns running
records into interrupted ones.

### PlaySessions, SessionBook

Each file write of `write`, `updateMetadata`, `removeSession` and
`detachInstance` is a step; the web commands, moves and the removal of an
instance drive them.  An update looks at no status, as in the code, so it can take
a session out of `detached`; `reopened` is a history of the sessions it did that to.
`SessionBook` is the abstract book: a status per session and the few ways it may
change.

### PlayTurn

`lookup`, `begin` and `complete` of the receipts, with the link that publishes a
file succeeding before or after the error; then the stages of
`performPlayTurnInternal` in their order.  Every stage may commit, decline, or
throw with or without its event in the history (`MayLand`), after which the catch
reads the head again as a step of its own, so that another worker's commit can
come between.  What a model proposes and whether the rules accept it is a free
choice; which possibilities are eligible is not: they are those no event up to
the head the stage works on has realized.  The renderer's head check, the budget
arithmetic (an attachment uses one slot, a failed recovery leaves none, addressed
characters reduce the actors) and what is listed in the outcome follow the code.
A lookup that answers from the receipt is one step because receipts are written
once and the history only grows.

### TraceStore, MoveTrace

`TraceStore` is the store alone: a run is a log, a manifest and a line of the
index, written one after the other, and `initialize` repairs and interrupts what
it finds.  `MoveTrace` instantiates it with what `TraceRecorder` writes around a
player move (begin, commit started, commit completed or failed, the outcome) and
with the diagnosis of interrupted moves after a restart, which looks for the
move in the world's history.  A line of the log is appended whole.

### CompileLoop

One supervisor process per command.  Every action ends with a save of
`state.json`, so memory and file agree between two actions; a death is possible
in each place.  Admission (`Settled`, `AdmitFresh`, `Admit`, `AdmitResolved`),
generations (`Stage`, `Publish`), one child (`Start`, `OnSpawn`, `Close`,
`Stopped`, `Tampered`) and the decisions of the loop follow
`supervisor.ts` in its order.  A worker outlives a dead supervisor
(`OrphanEnds`), and the operator removes the lock of a dead supervisor at any
time, as the runbook allows.  `spawned` and `rounds` are histories: what was
really started, against what the file says.

### Proposals

A commit is put, point, assert, bind and move, with a file that is created empty
and filled in a step of its own wherever the code writes in place
(`writeImmutable`) and one step where it renames.  Any write may fail and the
process may die at any write.  Which payload is valid is left open; which
proposals a convergence tries and rejects is computed as
`selectLogicalCandidates` does.  `last` (what was accepted for an artifact) and
`begun` (what the model holds before it is accepted) are histories.  A reset
removes the current revisions of the `Removable` artifacts only: `removeNovelAnalysis`
lists nine kinds and leaves the others, while it purges the proposals of all.

### RequestBudget

A passage through the gates of a session (`Passage`) is one action, because it
runs without an await: all budgets must be usable, then each is charged and saved
in turn until one refuses or cannot save.  A budget that a gate charged before a
later one refused stays charged, as in the code.  `spent` and `stall` are
histories of what really went out.

## 3. Runs

| Run | Instance | Question and result |
|---|---|---|
| `branch_store` | 2 processes, 2 branches, 1 proposal, histories up to 2 | The store keeps acknowledged commits, its lock excludes and is not stolen, and it implements `BranchHistory`. Holds. |
| `lock` | 4 process ids on 2 hosts, each used twice | Mutual exclusion, and recovery archives the dead owner the operator named. Holds. |
| `operations` | 3 requests (2 on one session), 2 handlers, 2 starts, retention 1, 1 restart, fairness | For moves (`LateMark` is empty): idempotency, write-ahead boundary, retention, finality, `OperationLifecycle`, and every accepted operation reaches an outcome. Holds. |
| `journal` | 2 handlers, 3 commands, 2 keys, 2 requests, 2 restarts, fairness | At most once, honest records, final verdicts, every call answered. Holds. |
| `sessions` | 3 sessions, 2 branches, one operation at a time, crashes | Records agree with `active.json`, a session of a removed branch stays unplayable unless a client's update reopens it, archived sessions stay archived, `SessionBook` is implemented. Holds. |
| `sessions_race` | a command and a move at once | `OneActiveSession`. Violated, see 6. |
| `play_turn` | 2 processes, 2 moves, 2 requests, 2 possibilities, 1 slot, histories up to 3 | A move acts once, a possibility is realized once, the budget holds, the receipt accounts for the move, answers agree. Holds. |
| `trace` | 1 host, 2 moves, 2 deaths, fairness | Logs stay readable, shown outcomes stand, traces and diagnoses tell the truth about the world, every run is accounted for. Holds. |
| `trace_stores` | 2 processes on one workspace, 1 death | `InterruptedMeansDead`. Violated, see 6. |
| `compile_loop` | 2 supervisors, 1 incident, 2 patches, 2 generations, 1 crash, 1 resolution, 10 child processes | One worker, saved allowances, settled files. Holds. |
| `proposals` | 3 proposals of 2 artifacts in 2 batches, 2 mishaps | The canonical model can be read and is what was accepted; every decision has its record. Holds. |
| `request_budget` | 2 sessions under 3 budgets, one shared, 2 mishaps | Limits hold for what really went out; a stop stays. Holds. |

**Why the bounds are enough to be interesting.**  Two branches give a fork and
its parent, and two processes every pair of racing operations; a history of two
has a commit on top of a commit.  Process ids used twice give the confusion of a
dead owner with its successor.  Retention 1 with two starts evicts, refuses and
leaves a file behind that a restart has to drop or to refuse; two handlers answer
one request twice.  Two keys with two requests give
repeats, conflicts and independent commands.  Three sessions on two branches give
a previous, a next and an unrelated session.  Three commits are a player's event,
a recovery that lands and fails, and the background event that must then not
follow; two possibilities let those two differ.  Two deaths let a repair be cut
short and repeated.  Two proposals of one artifact give a supersession and a
revision of what is accepted, the third an artifact of its own in another batch's
company, of a kind that a reset leaves in place; two mishaps give a commit that was cut short and a retry, or a rejection
in its place, that is cut short again.  One shared budget between two private
ones makes the order of the gates matter, and a session under a progress budget
has three calls against a window of two.  In `compile_loop` ten commands reach
the delivery after a failed worker, a repair and its verification.

**Constants that are bounds of the exploration, not of the code:** `MaxHistory`,
`MaxRuns`, `MaxId`, `MaxRestarts`, `MaxLog`, `MaxDeaths`, `MaxCommits`,
`MaxGeneration`, `MaxCommands`, `MaxRequests`, `MaxResolutions`, `MaxCrashes`,
`MaxClock`, `MaxMishaps`, `MaxSpent`, and the journal's `MaxCalls`.
`MaxOperations`, `MaxSlots`, `MaxActors`, `MaxDirect`, `RepairsPerIncident` and
the budget's `MaxCalls`, `MaxRequest` and `MaxTotal` are the code's parameters.

**Deadlock** is checked except in `lock`, `operations`, `journal`, `trace`,
`trace_stores`, `compile_loop` and `request_budget`, where the bounded supply of
runs, operations, commands or calls ends.

**Symmetry** is used only where the named elements are interchangeable: workers,
branches and proposals; process ids of one host; moves, requests and
possibilities; supervisors and patches.  No run with a liveness property uses it.

**Fairness.**  Three runs need it.  `operations` takes weak fairness of the
event loop's work: a queued operation is executed, a task ends (its model calls
have timeouts and abort signals), a host that died is started again and reads its
manifests.  Cancel, shutdown, crash and new requests have none.  `journal` takes
weak fairness of each call in the queue and of restart and initialization; that a
client sends anything is never assumed.  `trace` takes weak fairness of the work
a live host has begun (a queued job, a move, a diagnosis) and of starting the host
again; beginning a move and dying have none.

## 4. Proofs

The theorems hold for any number of processes, branches, operations, keys,
sessions and restarts, from the named assumptions on the constants (null values
are not elements, bounds are natural numbers).  Each component has one inductive
invariant and its properties are derived from it; the three components whose state
is in files that outlive their process share a module, `SharedFilesProofs`.  The
theorems with a further hypothesis name it: one operation at a time for the records
of sessions, no late mark for the refinement of an operation and for
`BoundaryCoversEffects`, one host at a time for traces.

| Module | Theorems | What the inductive invariant adds |
|---|---|---|
| `BranchStoreProofs` | types, `MutualExclusion`, `OnlyOwnerUnlocks`, `HistoryStored`, `AcknowledgedKept`, `RefinesHistory` | The lock file on disk is that of the process inside `withLock`; a process about to write a head has compared it under that lock; stored commits have stored ancestors. Without the second, an acknowledged commit could be overwritten by a late head. |
| `SharedFilesProofs`: lock | types, `MutualExclusion`, `ArchivesDeadOwner` | A recovery past its checks holds the mutex and faces the very lock it checked: a dead owner cannot release and nobody can make a directory that exists. |
| `SharedFilesProofs`: budgets | types, `LimitsHold`, `StoppedForGood` | A budget's memory counts at least the calls that went out, and so does its file once one may be in flight; progress never marks more calls than were counted, so a reset of the window hides none; a stop that is saved is known in memory. Without the clause on the file, a restart could grant again what was spent. |
| `SharedFilesProofs`: traces and moves | types, `LogsReadable`, `TraceTellsTruth`, `ShownOutcomeStands`, and that a recovery says *interrupted by the host* only of a move whose host died | `TraceInv` says for each job of the store what log, manifest and index still owe to each other, and that a log has at most one end and nothing but verdicts after it; `MoveInv` ties the place of a move to its log, its audit and the history: a commit is only announced once the history has it, and a verdict is only given on a move that is dead. These are for one host at a time (`Store = {h}`, with any number of restarts); `trace_stores` shows that a second store breaks the last. |
| `OperationManagerProofs` | types, `OneOperationPerRequest`, `BoundaryIsWrittenAhead`, `RetentionHolds`, `TerminalIsFinal`, `LifecycleSpec`, `BoundaryCoversEffects` for moves | A task at work has a record; memory and disk agree up to a boundary mark whose write failed. Retention rests on one argument about finishing times: of the finished operations that an eviction keeps, the first has as many before it as had to go, and all of those went. The refinement of `OperationLifecycle` is for moves (`LateMark = {}`); `OperationManagerLate.cfg` shows that preparations break it. |
| `MutationJournalProofs` | types, `AtMostOnce`, `NothingUnrecorded`, `SuccessIsReal`, `RunningIsAtWork`, `VerdictsStand` | The call at work owns the running record of its key. |
| `PlaySessionsProofs` | types, `PointerAgrees`, `GoneBranchUnplayable`, `ArchivedUntilRestored`, `BookSpec`, `OneActiveSession` | What each place of an operation still owes to the records. All but the types are for one operation at a time, as the `sessions` run; `sessions_race` shows they need it, and `OneActiveSession` also needs that the host does not die between two writes. `BookSpec` has an invariant of its own, which also holds after a crash: what the place of an operation says of its own record and of the pointer, whatever a dead operation has left in the other records. `MayPlay` is the exception of `GoneBranchUnplayable`: only the step of an update extends `reopened`, so a session of a removed branch is idle or active only through a client. |
| `PlayTurnProofs` | types, `MoveHappensOnce`, `PossibilityOnce`, `AnswersAgree`, `OutcomeAccounts`, `BudgetHeld` | Every stage has one shape: at most one event, appended at the head the stage has seen, of the worker's own move. The worker that published the intent of a move is the only one that ever executes it, and it knows every event of that move: without the first a second worker could repeat the action, without the second the receipt could list an event of another move, or miss one of its own. `BudgetHeld` counts events: for each stage, what the move has spent and what its worker may still spend together stay within the grant. |
| `ProposalsProofs` | types, `CanonReadable`, `AcceptedIsTruth`, `DecisionsExplained` | For each place of a commit, which of its files are already whole and what the model already holds: a reference is only set to a whole revision, a file is only moved after the reference and the binding. |
| `CompileLoopProofs` | types, `OneWorker`, `AllowanceHeld`, `SettledStands` | The owner of the lock is the only writer; a worker that may still live keeps the phase `WORKER` on disk, which no admission accepts; a state with nothing pending and no delivery has a verified patch to spare for the next worker, and a patch is counted once. |

**Only model-checked:** the liveness properties `EveryOperationEnds`,
`EveryCallAnswered` and `EveryRunAccounted`, which need fairness and `ENABLED`.
Every invariant and every action property of a passing run is a theorem, under the
hypotheses under which that run checks it.

## 5. What is abstracted

Contents are model values: a proposal, a request fingerprint, a possibility.
Hashes are injective.  A rename, a link and an exclusive open are atomic, as the
code relies on; a directory sync that fails is modelled as an error after the
effect.  Files are not corrupted.  `Proposals` has one source: a submission is
refused unless its evidence is of one source (`assertSingleEvidenceSource`), so the
branch of the reset that puts an artifact again with its evidence of other sources
is left out.  Steps inside one synchronous stretch of
JavaScript are one action; every `await` on shared state is a boundary.
Left out of the modelled parts: upgrades of version 1 session files, legacy lock
owners without a host identity, progress and results of operations, presentation
of a turn (conversation, narration, audit, repair hints).

## 6. Where code and claims differ

* **Two active sessions** (`sessions_race`): two writers demote what each read.
* **A store interrupts runs that are at work** (`trace_stores`): every process that
  opens a trace store ends the runs that the index shows as running, also those of
  a host that lives.

`PROJECT.json` quotes the lines of these two.  More claims are refuted by
configurations that are kept here and can be run by hand; their hazards say so:

* `BranchStoreOrphan.cfg` (`NoOrphans`): a fork can outlive its parent, because
  children are looked for before the lock is taken and a fork takes no lock on its
  parent.
* `OperationManagerScope.cfg` (`OneActivePerScope`): two operations on one session,
  because awaits separate the admission check from the start.
* `OperationManagerLate.cfg` (`BoundaryCoversEffects`): a preparation that ends
  between its write and the mark is recorded as not having crossed.
* `PlaySessionsDetached.cfg` (`GoneForGood`, which is `GoneBranchUnplayable` without
  its exception): `updateSession` and `updateMetadata` do not look at the present
  status, so a client makes a detached session idle and then active, although the
  removal announces that detached sessions "can no longer write world truth"
  (`maintenance-service.ts:97`).  A move on it fails for want of its branch.
* `ProposalsRejected.cfg` (`RejectedNeverTruth`): a commit that ended after the
  reference was set leaves its proposal pending; when it is then rejected, the
  canonical model holds what was rejected.  A failed write is enough when the
  preparation quarantines what was blocked.

Seen while modelling, without a property:

* A bare branch directory is left by a commit that raced a removal; an evicted key
  whose manifest could not be unlinked and that is used again keeps the host from
  starting; a replay can write an older `lastCommitId` over a newer one.
* `writeImmutable` creates and then writes.  A pending proposal that was cut short
  is empty, and every list of the directory throws on it: convergence, reset and
  the web's search fail until it is removed by hand.  An empty rejection report
  makes every later rejection of that id throw, although `ProposalStore.reject`
  says that a retry can complete the transition.  An empty revision makes every
  acceptance of that content fail.  `Proposals` contains all three (`Listable`,
  `Report`, `Conflict`).
* The reset of an analysis leaves the current revisions of eleven kinds in the
  canonical model (scene occurrences, event frames, semantic effects, perception
  observations, acquisitions, utterance expressions, action schemas, event
  executions, action constraints, norm and process templates) and purges their
  proposals (`removal.ts:105-184, 267`); their ids may then be submitted again, and
  rejected while the model holds them.
* The reset of an analysis keeps rejection reports and evidence bindings: an id
  that is submitted and rejected again answers with the old reason.
* A worker that saved a successful result but whose outcome was a cancellation or
  a timeout goes to `BREAK` without a delivery, and may be dispatched again after a
  repair, although `state.ts:22-24` means to keep a success from being repeated.

## 7. Not modelled, and what would come next

`PROJECT.json` gives the reason for every part.  In short: the semantic compiler,
the rules of the engine, projections, norms and frontier are computations on data
without a protocol of their own, and their share of the source is the largest;
the agent, the command line and the browser application are users of the parts
above.  Of the modelled parts: the race of two stores for one index and a failed
append without a death are outside `TraceStore`; two home directories on one
source, and the registry of engineer sessions, are outside `CompileLoop`;
possibility templates, actor models and prepared bundles, which are stores of the
same form, are outside `Proposals`.

Next, each with its own abstract promise where one is worth stating:

1. The finish handshake of a compiler batch and its receipt, on top of `Proposals`.
2. `EventBroker` with the login interactions: cursors, bounded history, listeners
   that fail in the middle of a notification; one resolution of a prompt.
3. `Removal`: preview and execution step by step.
4. Pure algorithms against reference definitions: checkpoint plus tail against
   full replay, temporal constraints, norms and processes coming due.
5. A composition of `OperationManager` with `PlayTurn`: the boundary of an
   operation against the receipt of its move.

Theorems to come: with the modules above; and the refinement of what a restart
says of a move by an abstract account of it.
