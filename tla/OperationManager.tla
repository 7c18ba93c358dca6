-------------------------- MODULE OperationManager --------------------------
(***************************************************************************)
(* The web host's long operations (src/web/operation-manager.ts), with the *)
(* HTTP handlers that start them (application/play-service.ts,             *)
(* application/preparation-service.ts) and the tasks they run.             *)
(*                                                                         *)
(* A Request is an idempotency key kind:scope:clientRequestId.  A snapshot *)
(* keeps the request, the status, the finishing time and whether the       *)
(* commit boundary has been crossed; phase, progress and result are        *)
(* presentation.  Operations are numbered in the order of their creation.  *)
(*                                                                         *)
(* The process may die between any two steps.  An error of persist at the  *)
(* start or the end of execute is an unhandled rejection, which ends the   *)
(* process: it is a Crash here.                                            *)
(***************************************************************************)
EXTENDS Integers, FiniteSets

CONSTANTS
  Request,        \* idempotency keys
  Scope,          \* play sessions and sources
  ScopeOf,        \* the scope of each request
  LateMark,       \* requests whose task marks the boundary after its effect
  Client,         \* concurrent HTTP handlers
  NoSnapshot, NoId, NoRequest,
  MaxOperations,  \* retention
  MaxId,          \* bound: operations created
  MaxRestarts     \* bound: starts of the host after the first

Id == 1 .. MaxId

ASSUME ScopeAssumption == ScopeOf \in [Request -> Scope] /\ LateMark \subseteq Request
ASSUME BoundAssumption ==
  MaxOperations \in Nat \ {0} /\ MaxId \in Nat /\ MaxRestarts \in Nat

Terminal == {"succeeded", "failed", "cancelled", "interrupted"}
Snapshot == [request: Request, status: {"queued", "running"} \cup Terminal,
             crossed: BOOLEAN, finishedAt: Nat]

ASSUME NullAssumption == NoSnapshot \notin Snapshot /\ NoId \notin Int /\ NoRequest \notin Request

VARIABLES
  host,       \* "up", "loading" (initialize), "closing" (after shutdown) or "down"
  record,     \* the records of the process
  index,      \* the idempotency map
  aborted,    \* operations whose AbortSignal fired
  task,       \* where the task of each operation is
  client,     \* what each handler is doing, for which request
  disk,       \* the persisted manifests
  effect,     \* operations whose task has changed the world or the proposals
  clock,      \* the last finishing time
  created,    \* how many operations have been created
  restarts    \* how often the host has been started again

memory == <<record, index, aborted, task>>
bounds == <<created, restarts>>
vars == <<host, memory, client, disk, effect, clock, bounds>>

Idle == [pc |-> "idle", request |-> NoRequest]
NoRecords == [i \in Id |-> NoSnapshot]
NoIndex == [r \in Request |-> NoId]
NoTasks == [i \in Id |-> "none"]

Init ==
  /\ host = "up"
  /\ record = NoRecords /\ index = NoIndex /\ aborted = {} /\ task = NoTasks
  /\ client = [c \in Client |-> Idle]
  /\ disk = NoRecords /\ effect = {}
  /\ clock = 0 /\ created = 0 /\ restarts = 0

isTerminal(s) == s.status \in Terminal
Held(store) == {i \in Id : store[i] # NoSnapshot}
Active == {i \in Held(record) : ~isTerminal(record[i])}
Running == host \in {"up", "closing"}

\* Every change of a snapshot is persisted before its event goes out.
Publish(i, s) ==
  /\ record' = [record EXCEPT ![i] = s]
  /\ disk' = [disk EXCEPT ![i] = s]

-----------------------------------------------------------------------------
(* Retention                                                               *)

Completed(store) == {i \in Held(store) : isTerminal(store[i])}

\* Mutant: one operation too many is retained.
EvictedLate(store) ==
  {i \in Completed(store) :
     Cardinality({j \in Completed(store) : store[j].finishedAt < store[i].finishedAt})
       < Cardinality(Held(store)) - MaxOperations}

\* evictCompleted: the operations that finished first, until there is room
\* for one more.
Evicted(store) ==
  {i \in Completed(store) :
     Cardinality({j \in Completed(store) : store[j].finishedAt < store[i].finishedAt})
       < Cardinality(Held(store)) - MaxOperations + 1}

Without(store, ids) == [i \in Id |-> IF i \in ids THEN NoSnapshot ELSE store[i]]
RemovePersisted(store, ids) == Without(store, ids)

\* Mutant: the key of an evicted operation stays in the idempotency map.
ForgetNothing(ids) == index

Forget(ids) ==
  [r \in Request |-> IF \E i \in ids : record[i].request = r THEN NoId ELSE index[r]]

-----------------------------------------------------------------------------
(* Starting an operation.  The handlers look the request up, check that    *)
(* the scope has no active operation, open a trace run and call start,     *)
(* with awaits between these.                                              *)

Reply(c) == client' = [client EXCEPT ![c] = Idle]

\* findByClientRequest; a known request is answered with its operation.
Lookup(c, r) ==
  /\ host = "up"
  /\ client[c].pc = "idle"
  /\ index[r] = NoId
  /\ client' = [client EXCEPT ![c] = [pc |-> "looked", request |-> r]]
  /\ UNCHANGED <<host, memory, disk, effect, clock, bounds>>

ScopeIsFree(r) == \A i \in Active : ScopeOf[record[i].request] # ScopeOf[r]

\* assertNoActiveOperation, assertNoActiveCompilerOperation.
Admit(c) ==
  /\ client[c].pc = "looked"
  /\ IF ScopeIsFree(client[c].request)
       THEN client' = [client EXCEPT ![c].pc = "admitted"]
       ELSE Reply(c)
  /\ UNCHANGED <<host, memory, disk, effect, clock, bounds>>

\* The key is known by now: its operation is returned, or the input conflicts.
StartKnown(c) ==
  /\ client[c].pc = "admitted"
  /\ index[client[c].request] # NoId
  /\ Reply(c)
  /\ UNCHANGED <<host, memory, disk, effect, clock, bounds>>

HasRoom == Cardinality(Held(record)) < MaxOperations \/ Completed(record) # {}

\* Every retained operation is active: 503.
StartAtCapacity(c) ==
  /\ client[c].pc = "admitted"
  /\ index[client[c].request] = NoId
  /\ ~HasRoom
  /\ Reply(c)
  /\ UNCHANGED <<host, memory, disk, effect, clock, bounds>>

MayStart(c) ==
  /\ client[c].pc = "admitted"
  /\ index[client[c].request] = NoId
  /\ HasRoom

Queued(r) == [request |-> r, status |-> "queued", crossed |-> FALSE, finishedAt |-> 0]

Start(c) ==
  /\ MayStart(c)
  /\ created < MaxId
  /\ created' = created + 1
  /\ LET r == client[c].request
         old == Evicted(record)
     IN  /\ record' = [Without(record, old) EXCEPT ![created'] = Queued(r)]
         /\ disk' = [RemovePersisted(disk, old) EXCEPT ![created'] = Queued(r)]
         /\ index' = [Forget(old) EXCEPT ![r] = created']
  /\ task' = [task EXCEPT ![created'] = "queued"]
  /\ Reply(c)
  /\ UNCHANGED <<host, aborted, effect, clock, restarts>>

\* persist fails: the new record is rolled back, the eviction is not.
StartFails(c) ==
  /\ MayStart(c)
  /\ LET old == Evicted(record)
     IN  /\ record' = Without(record, old)
         /\ disk' = RemovePersisted(disk, old)
         /\ index' = Forget(old)
  /\ Reply(c)
  /\ UNCHANGED <<host, aborted, task, effect, clock, bounds>>

\* removePersisted fails: the record and the key are gone, the file is not.
EvictionFails(c) ==
  /\ MayStart(c)
  /\ Evicted(record) # {}
  /\ record' = Without(record, Evicted(record))
  /\ index' = Forget(Evicted(record))
  /\ Reply(c)
  /\ UNCHANGED <<host, aborted, task, disk, effect, clock, bounds>>

-----------------------------------------------------------------------------
(* execute and the task                                                    *)

At(i, label) == task' = [task EXCEPT ![i] = label]

\* Mutant: an operation that was cancelled in the queue is not executed.
ExecuteUnlessAborted(i) ==
  /\ Running /\ task[i] = "queued"
  /\ IF isTerminal(record[i]) \/ i \in aborted
       THEN At(i, "ended") /\ UNCHANGED <<record, disk>>
       ELSE At(i, "running") /\ Publish(i, [record[i] EXCEPT !.status = "running"])
  /\ UNCHANGED <<host, index, aborted, client, effect, clock, bounds>>

\* The microtask; an operation that is terminal by now is not executed.
Execute(i) ==
  /\ Running /\ task[i] = "queued"
  /\ IF isTerminal(record[i])
       THEN At(i, "ended") /\ UNCHANGED <<record, disk>>
       ELSE At(i, "running") /\ Publish(i, [record[i] EXCEPT !.status = "running"])
  /\ UNCHANGED <<host, index, aborted, client, effect, clock, bounds>>

Late(i) == record[i] # NoSnapshot /\ record[i].request \in LateMark

\* Mutant: the signal is not checked before the boundary is marked.
AtBoundaryUnchecked(i) == task[i] = IF Late(i) THEN "applied" ELSE "running"

\* A move checks its signal and marks the boundary in one turn of the event
\* loop, before it commits; a preparation marks it after a mutating tool.
AtBoundary(i) ==
  IF Late(i) THEN task[i] = "applied" ELSE task[i] = "running" /\ i \notin aborted

Crossed(i) == [record[i] EXCEPT !.crossed = TRUE]

\* Mutant: the boundary is recorded in memory only.
MarkUnpersisted(i) ==
  /\ Running /\ AtBoundary(i)
  /\ record' = IF isTerminal(record[i]) THEN record ELSE [record EXCEPT ![i] = Crossed(i)]
  /\ At(i, "marked")
  /\ UNCHANGED <<host, index, aborted, client, disk, effect, clock, bounds>>

\* markCommitBoundary does nothing once the operation is terminal.
Mark(i) ==
  /\ Running /\ AtBoundary(i)
  /\ IF isTerminal(record[i]) THEN UNCHANGED <<record, disk>> ELSE Publish(i, Crossed(i))
  /\ At(i, "marked")
  /\ UNCHANGED <<host, index, aborted, client, effect, clock, bounds>>

\* persist fails inside markCommitBoundary: the error goes to the task.
MarkFails(i) ==
  /\ Running /\ AtBoundary(i)
  /\ ~isTerminal(record[i])
  /\ record' = [record EXCEPT ![i] = Crossed(i)]
  /\ At(i, "thrown")
  /\ UNCHANGED <<host, index, aborted, client, disk, effect, clock, bounds>>

\* The commit of the move, or the write of the compiler tool.
Apply(i) ==
  /\ Running
  /\ task[i] = IF Late(i) THEN "running" ELSE "marked"
  /\ effect' = effect \cup {i}
  /\ At(i, "applied")
  /\ UNCHANGED <<host, record, index, aborted, client, disk, clock, bounds>>

\* A preparation returns only after it has marked what its tools wrote.
MayReturn(i) == task[i] \in {"running", "marked"} \/ (task[i] = "applied" /\ ~Late(i))
MayThrow(i) == task[i] \in {"running", "marked", "applied", "thrown"}

Finished(s, status) == [s EXCEPT !.status = status, !.finishedAt = clock + 1]

Outcome(i, status) ==
  IF i \in aborted /\ ~record[i].crossed THEN "cancelled" ELSE status

\* Mutant: the outcome replaces an interruption that is already recorded.
EndOver(i, status) ==
  /\ Publish(i, Finished(record[i], Outcome(i, status)))
  /\ clock' = clock + 1
  /\ At(i, "ended")
  /\ UNCHANGED <<host, index, aborted, client, effect, bounds>>

End(i, status) ==
  /\ IF isTerminal(record[i])
       THEN UNCHANGED <<record, disk, clock>>
       ELSE Publish(i, Finished(record[i], Outcome(i, status))) /\ clock' = clock + 1
  /\ At(i, "ended")
  /\ UNCHANGED <<host, index, aborted, client, effect, bounds>>

Return(i) == Running /\ MayReturn(i) /\ End(i, "succeeded")
Throw(i) == Running /\ MayThrow(i) /\ End(i, "failed")

-----------------------------------------------------------------------------
(* cancel, shutdown, crash, restart                                        *)

Cancel(i) ==
  /\ host = "up"
  /\ i \in Active \ aborted
  /\ aborted' = aborted \cup {i}
  /\ Publish(i, record[i])
  /\ UNCHANGED <<host, index, task, client, effect, clock, bounds>>

Position(i) == Cardinality({j \in Active : j <= i})
Closed(i) ==
  [record[i] EXCEPT !.status = "interrupted", !.finishedAt = clock + Position(i)]

\* The host closes once no HTTP request is in flight.
Shutdown ==
  /\ host = "up"
  /\ \A c \in Client : client[c] = Idle
  /\ host' = "closing"
  /\ aborted' = aborted \cup Active
  /\ record' = [i \in Id |-> IF i \in Active THEN Closed(i) ELSE record[i]]
  /\ disk' = [i \in Id |-> IF i \in Active THEN Closed(i) ELSE disk[i]]
  /\ clock' = clock + Cardinality(Active)
  /\ UNCHANGED <<index, task, client, effect, bounds>>

Die ==
  /\ host' = "down"
  /\ record' = NoRecords /\ index' = NoIndex /\ aborted' = {} /\ task' = NoTasks
  /\ client' = [c \in Client |-> Idle]
  /\ UNCHANGED <<effect, clock, bounds>>

Crash == host # "down" /\ restarts < MaxRestarts /\ Die /\ UNCHANGED disk

\* The process dies in start between the removal of the evicted manifest and
\* the write of the new one.
CrashInStart(c) ==
  /\ MayStart(c) /\ restarts < MaxRestarts
  /\ Die
  /\ disk' = RemovePersisted(disk, Evicted(record))

Restart ==
  /\ host = "down" /\ restarts < MaxRestarts
  /\ host' = "loading"
  /\ restarts' = restarts + 1
  /\ UNCHANGED <<memory, client, disk, effect, clock, created>>

Interrupted(s) == Finished(s, "interrupted")

\* loadPersistedOperations rewrites one manifest after the other.
LoadManifest(i) ==
  /\ host = "loading"
  /\ i \in Held(disk) /\ ~isTerminal(disk[i])
  /\ disk' = [disk EXCEPT ![i] = Interrupted(disk[i])]
  /\ clock' = clock + 1
  /\ UNCHANGED <<host, memory, client, effect, bounds>>

AllLoaded == host = "loading" /\ \A i \in Held(disk) : isTerminal(disk[i])
KeysUnique(store) ==
  \A i, j \in Held(store) : store[i].request = store[j].request => i = j

\* The maps are rebuilt; retention is restored if more files were left.
Loaded ==
  /\ AllLoaded
  /\ KeysUnique(disk)
  /\ LET surplus == IF Cardinality(Held(disk)) > MaxOperations THEN Evicted(disk) ELSE {}
         kept == Without(disk, surplus)
     IN  /\ record' = kept /\ disk' = kept
         /\ index' = [r \in Request |-> IF \E i \in Held(kept) : kept[i].request = r
                        THEN CHOOSE i \in Held(kept) : kept[i].request = r
                        ELSE NoId]
  /\ aborted' = Held(record')
  /\ host' = "up"
  /\ UNCHANGED <<task, client, effect, clock, bounds>>

\* "Persisted operations share one idempotency key": the host does not start.
LoadFails ==
  /\ AllLoaded
  /\ ~KeysUnique(disk)
  /\ host' = "down"
  /\ UNCHANGED <<memory, client, disk, effect, clock, bounds>>

-----------------------------------------------------------------------------
Handler(c) ==
  \/ Admit(c) \/ StartKnown(c) \/ StartAtCapacity(c) \/ Start(c) \/ StartFails(c)
  \/ EvictionFails(c)

TaskEnds(i) == Return(i) \/ Throw(i)

Load == (\E i \in Id : LoadManifest(i)) \/ Loaded \/ LoadFails

Next ==
  \/ \E c \in Client : (\E r \in Request : Lookup(c, r)) \/ Handler(c) \/ CrashInStart(c)
  \/ \E i \in Id : Execute(i) \/ Mark(i) \/ MarkFails(i) \/ Apply(i) \/ TaskEnds(i) \/ Cancel(i)
  \/ Shutdown \/ Crash \/ Restart \/ Load

Spec == Init /\ [][Next]_vars

\* Microtasks run; tasks end (model calls have time limits and budgets);
\* a host that died is started again and initialize goes on.
FairSpec ==
  /\ Spec
  /\ \A i \in Id : WF_vars(Execute(i)) /\ WF_vars(TaskEnds(i))
  /\ WF_vars(Restart) /\ WF_vars(Load)

-----------------------------------------------------------------------------
(* Properties.                                                             *)

Steps == {"none", "queued", "running", "marked", "applied", "thrown", "ended"}

\* A snapshot has a finishing time, in the past, when it is terminal.
Dated(s, now) == s # NoSnapshot => s.finishedAt <= now /\ (isTerminal(s) <=> s.finishedAt > 0)

TypeOK ==
  /\ host \in {"up", "loading", "closing", "down"}
  /\ record \in [Id -> Snapshot \cup {NoSnapshot}]
  /\ disk \in [Id -> Snapshot \cup {NoSnapshot}]
  /\ \A i \in Id : Dated(record[i], clock) /\ Dated(disk[i], clock)
  /\ index \in [Request -> Id \cup {NoId}]
  /\ aborted \subseteq Id /\ effect \subseteq Id
  /\ task \in [Id -> Steps]
  /\ client \in [Client -> [pc : {"idle", "looked", "admitted"}, request : Request \cup {NoRequest}]]
  /\ clock \in Nat /\ created \in 0..MaxId /\ restarts \in 0..MaxRestarts

\* One request has one operation: the idempotency map finds the operation of
\* a request whenever the host holds one, and only then, across evictions,
\* failed starts, failed unlinks, crashes and restarts.
OneOperationPerRequest ==
  Running => \A r \in Request, i \in Id :
    index[r] = i <=> (record[i] # NoSnapshot /\ record[i].request = r)

\* The boundary of a move is on disk before the world changes, so that no
\* manifest ever says "not crossed" of a world that has changed.
BoundaryIsWrittenAhead ==
  \A i \in effect \cap Held(disk) : disk[i].request \notin LateMark => disk[i].crossed

\* The outcome of an operation is final: no late end of a task, cancel or
\* restart replaces it, on disk or in the process.
TerminalIsFinal ==
  [][\A i \in Id :
       /\ i \in Held(disk) /\ isTerminal(disk[i]) => disk'[i] \in {disk[i], NoSnapshot}
       /\ i \in Held(record) /\ isTerminal(record[i]) => record'[i] \in {record[i], NoSnapshot}]_vars

\* One eviction makes room: the process never holds more operations than the
\* retention, also when it starts from a disk with files it could not remove.
RetentionHolds == Cardinality(Held(record)) <= MaxOperations

\* What the host promises of an operation: see OperationLifecycle.
Verdict(i) ==
  IF disk[i] = NoSnapshot THEN IF i > created THEN "absent" ELSE "dropped"
  ELSE IF ~isTerminal(disk[i]) THEN "pending"
  ELSE IF disk[i].crossed THEN "maybe" ELSE "unchanged"

Lifecycle == INSTANCE OperationLifecycle WITH
  Operation <- Id, verdict <- [i \in Id |-> Verdict(i)], changed <- effect

LifecycleSpec == Lifecycle!LSpec

\* Every accepted operation gets an outcome (or, having had one, is dropped),
\* whether it is cancelled, its task throws or the host dies.
EveryOperationEnds ==
  \A i \in Id : (i \in Held(disk) /\ ~isTerminal(disk[i])) ~>
                (i \notin Held(disk) \/ isTerminal(disk[i]))

\* "Operation ... is already changing play session": the check of the
\* handlers leaves a scope with at most one active operation.
OneActivePerScope ==
  \A i, j \in Active : ScopeOf[record[i].request] = ScopeOf[record[j].request] => i = j

\* "The host stopped before the operation crossed its commit boundary": no
\* operation that ended short of its boundary has changed anything, the
\* preparations included.
BoundaryCoversEffects ==
  \A i \in effect \cap Held(disk) : isTerminal(disk[i]) => disk[i].crossed
=============================================================================
