----------------------- MODULE OperationManagerProofs -----------------------
(***************************************************************************)
(* The web operations for any number of requests, handlers, operations and *)
(* restarts and any retention.  The inductive invariant says, beyond the   *)
(* properties: a task at work has a record, which is terminal only after a *)
(* shutdown has also fired its signal (TaskInv); what the process holds is *)
(* on disk, at most short of a boundary whose persist failed (MirrorInv);  *)
(* and the boundary of a move at its commit is on disk (BoundaryInv).  The *)
(* idempotency map and the retention are inductive with it as they stand.  *)
(***************************************************************************)
EXTENDS OperationManager, TLAPS, FiniteSetTheorems

AtWork == {"queued", "running", "marked", "applied", "thrown"}

\* Handlers are at work only while the host is up; a process that is not
\* running holds nothing; operations that were not created have no trace.
ProcessInv ==
  /\ \A c \in Client : client[c] # Idle =>
       host = "up" /\ client[c].pc \in {"looked", "admitted"} /\ client[c].request \in Request
  /\ ~Running => record = NoRecords /\ index = NoIndex /\ task = NoTasks
  /\ \A i \in Id : i > created =>
       record[i] = NoSnapshot /\ disk[i] = NoSnapshot /\ i \notin effect /\ task[i] = "none"

TaskInv ==
  \A i \in Id : task[i] \in AtWork =>
    /\ record[i] # NoSnapshot
    /\ isTerminal(record[i]) => host = "closing" /\ i \in aborted

SameButBoundary(s, t) ==
  /\ s.request = t.request /\ s.status = t.status /\ s.finishedAt = t.finishedAt
  /\ t.crossed => s.crossed

MirrorInv ==
  \A i \in Id : Running /\ record[i] # NoSnapshot =>
    disk[i] # NoSnapshot /\ SameButBoundary(record[i], disk[i])

BoundaryInv ==
  \A i \in Id : disk[i] # NoSnapshot /\ disk[i].request \notin LateMark =>
    (i \in effect \/ task[i] \in {"marked", "applied"} => disk[i].crossed)

OpInv == TypeOK /\ ProcessInv /\ TaskInv /\ MirrorInv /\ BoundaryInv

LEMMA SnapshotFields ==
  ASSUME NEW s \in Snapshot
  PROVE  /\ s.request \in Request /\ s.crossed \in BOOLEAN /\ s.finishedAt \in Nat
         /\ s.status \in {"queued", "running"} \cup Terminal
         /\ s # NoSnapshot
BY NullAssumption DEF Snapshot

\* What the writes of execute, markCommitBoundary and the outcomes do to a
\* snapshot.
LEMMA Changed ==
  ASSUME NEW s \in Snapshot, NEW b \in BOOLEAN, NEW n \in Nat,
         NEW v \in {"queued", "running"} \cup Terminal
  PROVE  /\ [s EXCEPT !.crossed = b] \in Snapshot
         /\ [s EXCEPT !.status = v] \in Snapshot
         /\ [s EXCEPT !.status = v, !.finishedAt = n] \in Snapshot
BY DEF Snapshot

LEMMA ChangedFields ==
  ASSUME NEW s \in Snapshot, NEW v, NEW n
  PROVE  LET crossed == [s EXCEPT !.crossed = TRUE]
             moved == [s EXCEPT !.status = v]
             ended == [s EXCEPT !.status = v, !.finishedAt = n]
         IN  /\ crossed.request = s.request /\ crossed.crossed = TRUE
             /\ crossed.status = s.status /\ crossed.finishedAt = s.finishedAt
             /\ moved.request = s.request /\ moved.crossed = s.crossed
             /\ moved.status = v /\ moved.finishedAt = s.finishedAt
             /\ ended.request = s.request /\ ended.crossed = s.crossed
             /\ ended.status = v /\ ended.finishedAt = n
BY DEF Snapshot

LEMMA FinishedTyped ==
  ASSUME clock \in Nat, NEW s \in Snapshot, NEW v \in Terminal
  PROVE  /\ Finished(s, v) \in Snapshot
         /\ Finished(s, v).request = s.request /\ Finished(s, v).crossed = s.crossed
         /\ Finished(s, v).status = v
<1> DEFINE ended == [s EXCEPT !.status = v, !.finishedAt = clock + 1]
<1>1. clock + 1 \in Nat
  OBVIOUS
<1>2. v \in {"queued", "running"} \cup Terminal
  OBVIOUS
<1>3. ended \in Snapshot
  BY <1>1, <1>2, Changed
<1>4. ended.request = s.request /\ ended.crossed = s.crossed /\ ended.status = v
  BY ChangedFields
<1>5. Finished(s, v) = ended
  BY DEF Finished
<1> HIDE DEF ended
<1> QED
  BY <1>3, <1>4, <1>5

LEMMA RunningTyped ==
  ASSUME NEW s \in Snapshot
  PROVE  /\ [s EXCEPT !.status = "running"] \in Snapshot
         /\ [s EXCEPT !.status = "running"] # NoSnapshot
         /\ ~isTerminal([s EXCEPT !.status = "running"])
<1>1. [s EXCEPT !.status = "running"] \in Snapshot
  BY Changed
<1>2. [s EXCEPT !.status = "running"].status = "running"
  BY ChangedFields
<1> QED
  BY <1>1, <1>2, SnapshotFields DEF isTerminal, Terminal

LEMMA EvictedCompleted ==
  ASSUME NEW store
  PROVE  /\ Evicted(store) \subseteq Id
         /\ \A i \in Evicted(store) : store[i] # NoSnapshot /\ isTerminal(store[i])
BY DEF Evicted, Completed, Held

LEMMA IdsFinite ==
  ASSUME NEW S, S \subseteq Id
  PROVE  IsFiniteSet(S) /\ Cardinality(S) \in Nat
<1>1. IsFiniteSet(Id)
  BY BoundAssumption, FS_Interval DEF Id
<1> QED
  BY <1>1, FS_Subset, FS_CardinalityType

LEMMA Positions ==
  ASSUME NEW i \in Active
  PROVE  /\ Position(i) \in Nat /\ Position(i) > 0 /\ Position(i) <= Cardinality(Active)
         /\ Cardinality(Active) \in Nat
<1> DEFINE S == {j \in Active : j <= i}
<1>1. Active \subseteq Id
  BY DEF Active, Held
<1>2. S \subseteq Active /\ S \subseteq Id
  BY <1>1
<1>5. i <= i
  BY <1>1, BoundAssumption DEF Id
<1>6. i \in S
  BY <1>5
<1>3. IsFiniteSet(Active) /\ IsFiniteSet(S)
  BY <1>1, <1>2, IdsFinite
<1>4. Cardinality(S) \in Nat /\ Cardinality(S) <= Cardinality(Active) /\ Cardinality(S) # 0
      /\ Cardinality(Active) \in Nat
  BY <1>2, <1>3, <1>6, FS_Subset, FS_EmptySet, FS_CardinalityType
<1> QED
  BY <1>4 DEF Position

LEMMA ClosedTyped ==
  ASSUME TypeOK, NEW i \in Active
  PROVE  /\ record[i] \in Snapshot /\ Closed(i) \in Snapshot /\ isTerminal(Closed(i))
         /\ Closed(i).request = record[i].request /\ Closed(i).crossed = record[i].crossed
<1>1. record[i] \in Snapshot
  BY DEF TypeOK, Active, Held
<1>2. Position(i) \in Nat /\ clock \in Nat
  BY Positions DEF TypeOK
<1>3. clock + Position(i) \in Nat
  BY <1>2
<1>4. Closed(i) \in Snapshot
  BY <1>1, <1>3, Changed DEF Closed, Terminal
<1> QED
  BY <1>1, <1>4, ChangedFields DEF Closed, isTerminal, Terminal

LEMMA InitInv == Init => OpInv
<1> SUFFICES ASSUME Init
             PROVE  OpInv
  OBVIOUS
<1>1. TypeOK
  BY BoundAssumption DEF Init, TypeOK, Dated, NoRecords, NoIndex, NoTasks, Steps, Idle
<1>2. ProcessInv /\ TaskInv /\ MirrorInv /\ BoundaryInv
  BY DEF Init, ProcessInv, TaskInv, MirrorInv, BoundaryInv, AtWork, NoRecords, NoTasks,
     NoIndex, Running
<1> QED
  BY <1>1, <1>2 DEF OpInv

-----------------------------------------------------------------------------
(* One operation's snapshot is published: the types stay.                  *)

\* The variables other than the two stores keep their types.
TypeRest ==
  /\ host \in {"up", "loading", "closing", "down"}
  /\ index \in [Request -> Id \cup {NoId}]
  /\ aborted \subseteq Id /\ effect \subseteq Id
  /\ task \in [Id -> Steps]
  /\ client \in [Client -> [pc : {"idle", "looked", "admitted"}, request : Request \cup {NoRequest}]]
  /\ clock \in Nat /\ created \in 0..MaxId /\ restarts \in 0..MaxRestarts

LEMMA RestStep ==
  ASSUME TypeOK, ProcessInv, [Next]_vars
  PROVE  TypeRest'
<1>0. TypeRest
  BY DEF TypeOK, TypeRest
<1> USE <1>0 DEF TypeRest, memory, bounds
<1>a. \A c \in Client : Reply(c) =>
        client' \in [Client -> [pc : {"idle", "looked", "admitted"}, request : Request \cup {NoRequest}]]
  BY DEF Reply, Idle
<1>1. ASSUME NEW c \in Client, NEW r \in Request, Lookup(c, r)
      PROVE  TypeRest'
  BY <1>1 DEF Lookup
<1>2. ASSUME NEW c \in Client, Admit(c) \/ StartKnown(c) \/ StartAtCapacity(c)
      PROVE  TypeRest'
  BY <1>2, <1>a DEF Admit, StartKnown, StartAtCapacity
<1>3. ASSUME NEW c \in Client, Start(c)
      PROVE  TypeRest'
  <2>1. created' \in Id /\ created' \in 0..MaxId
    BY <1>3, BoundAssumption DEF Start, Id
  <2>2. client[c].request \in Request
    BY <1>3 DEF Start, MayStart, ProcessInv, Idle
  <2>3. index' \in [Request -> Id \cup {NoId}]
    BY <1>3, <2>1, <2>2 DEF Start, Forget
  <2>4. task' \in [Id -> Steps]
    BY <1>3, <2>1 DEF Start, Steps
  <2> QED
    BY <1>3, <1>a, <2>1, <2>3, <2>4 DEF Start
<1>4. ASSUME NEW c \in Client, StartFails(c) \/ EvictionFails(c)
      PROVE  TypeRest'
  BY <1>4, <1>a DEF StartFails, EvictionFails, Forget
<1>5. ASSUME NEW i \in Id, Execute(i) \/ Mark(i) \/ MarkFails(i) \/ Apply(i)
      PROVE  TypeRest'
  BY <1>5 DEF Execute, Mark, MarkFails, Apply, At, Steps
<1>6. ASSUME NEW i \in Id, TaskEnds(i)
      PROVE  TypeRest'
  BY <1>6 DEF TaskEnds, Return, Throw, End, At, Steps
<1>7. ASSUME NEW i \in Id, Cancel(i)
      PROVE  TypeRest'
  BY <1>7 DEF Cancel, Active, Held
<1>8. CASE Shutdown
  <2>1. Cardinality(Active) \in Nat
    BY IdsFinite DEF Active, Held
  <2>2. Active \subseteq Id
    BY DEF Active, Held
  <2>3. clock' = clock + Cardinality(Active) /\ aborted' = aborted \cup Active
    BY <1>8 DEF Shutdown
  <2> QED
    BY <1>8, <2>1, <2>2, <2>3 DEF Shutdown
<1>9. ASSUME Die
      PROVE  TypeRest'
  BY <1>9 DEF Die, NoIndex, NoTasks, Steps, Idle
<1>10. CASE Restart
  BY <1>10, BoundAssumption DEF Restart
<1>11. ASSUME NEW i \in Id, LoadManifest(i)
       PROVE  TypeRest'
  BY <1>11 DEF LoadManifest
<1>12. CASE Loaded
  <2>1. index' \in [Request -> Id \cup {NoId}]
    BY <1>12 DEF Loaded, Held
  <2> QED
    BY <1>12, <2>1 DEF Loaded, Held
<1>13. CASE LoadFails
  BY <1>13 DEF LoadFails
<1>14. CASE UNCHANGED vars
  BY <1>14 DEF vars
<1> QED
  BY <1>1, <1>2, <1>3, <1>4, <1>5, <1>6, <1>7, <1>8, <1>9, <1>10, <1>11, <1>12, <1>13, <1>14
     DEF Next, Handler, Crash, CrashInStart, Load

Stored(store) == store \in [Id -> Snapshot \cup {NoSnapshot}]

LEMMA PublishTyped ==
  ASSUME Stored(record), Stored(disk), NEW i \in Id, NEW s \in Snapshot, Publish(i, s)
  PROVE  Stored(record') /\ Stored(disk')
BY DEF Publish, Stored

LEMMA WithoutTyped ==
  ASSUME NEW store, Stored(store), NEW ids
  PROVE  Stored(Without(store, ids)) /\ Stored(RemovePersisted(store, ids))
BY DEF Stored, Without, RemovePersisted

LEMMA StoresTyped ==
  ASSUME TypeOK, ProcessInv, TaskInv, [Next]_vars
  PROVE  Stored(record') /\ Stored(disk')
<1>0. /\ Stored(record) /\ Stored(disk)
      /\ \A i \in Id : record[i] # NoSnapshot => record[i] \in Snapshot
      /\ \A i \in Id : disk[i] # NoSnapshot => disk[i] \in Snapshot
  BY DEF TypeOK, Stored
<1> USE <1>0 DEF memory, bounds
<1>1. ASSUME NEW c \in Client, NEW r \in Request, Lookup(c, r)
      PROVE  Stored(record') /\ Stored(disk')
  BY <1>1 DEF Lookup
<1>2. ASSUME NEW c \in Client, Admit(c) \/ StartKnown(c) \/ StartAtCapacity(c)
      PROVE  Stored(record') /\ Stored(disk')
  BY <1>2 DEF Admit, StartKnown, StartAtCapacity
<1>3. ASSUME NEW c \in Client, Start(c)
      PROVE  Stored(record') /\ Stored(disk')
  <2>1. Queued(client[c].request) \in Snapshot
    BY <1>3 DEF Start, MayStart, ProcessInv, Idle, Queued, Snapshot
  <2> QED
    BY <1>3, <2>1, WithoutTyped DEF Start, Stored
<1>4. ASSUME NEW c \in Client, StartFails(c) \/ EvictionFails(c)
      PROVE  Stored(record') /\ Stored(disk')
  BY <1>4, WithoutTyped DEF StartFails, EvictionFails
<1>5. ASSUME NEW i \in Id, Execute(i)
      PROVE  Stored(record') /\ Stored(disk')
  <2>1. record[i] \in Snapshot
    BY <1>5 DEF Execute, TaskInv, AtWork
  <2> QED
    BY <1>5, <2>1, PublishTyped, Changed DEF Execute
<1>6. ASSUME NEW i \in Id, Mark(i) \/ MarkFails(i)
      PROVE  Stored(record') /\ Stored(disk')
  <2>1. record[i] \in Snapshot
    BY <1>6 DEF Mark, MarkFails, AtBoundary, TaskInv, AtWork
  <2>2. Crossed(i) \in Snapshot
    BY <2>1, Changed DEF Crossed
  <2> QED
    BY <1>6, <2>2, PublishTyped DEF Mark, MarkFails, Stored
<1>7. ASSUME NEW i \in Id, Apply(i)
      PROVE  Stored(record') /\ Stored(disk')
  BY <1>7 DEF Apply
<1>8. ASSUME NEW i \in Id, TaskEnds(i)
      PROVE  Stored(record') /\ Stored(disk')
  <2>1. record[i] \in Snapshot
    BY <1>8 DEF TaskEnds, Return, Throw, MayReturn, MayThrow, TaskInv, AtWork
  <2>2. clock + 1 \in Nat
    BY DEF TypeOK
  <2>3. \A v \in {"succeeded", "failed"} : Finished(record[i], Outcome(i, v)) \in Snapshot
    BY <2>1, <2>2, Changed DEF Finished, Outcome, Terminal
  <2> QED
    BY <1>8, <2>3, PublishTyped DEF TaskEnds, Return, Throw, End
<1>9. ASSUME NEW i \in Id, Cancel(i)
      PROVE  Stored(record') /\ Stored(disk')
  <2>1. record[i] \in Snapshot
    BY <1>9 DEF Cancel, Active, Held
  <2> QED
    BY <1>9, <2>1, PublishTyped DEF Cancel
<1>10. CASE Shutdown
  <2>1. \A i \in Active : Closed(i) \in Snapshot
    BY ClosedTyped
  <2> QED
    BY <1>10, <2>1 DEF Shutdown, Stored
<1>11. ASSUME Die, disk' \in {disk, RemovePersisted(disk, Evicted(record))}
       PROVE  Stored(record') /\ Stored(disk')
  BY <1>11, WithoutTyped DEF Die, NoRecords, Stored
<1>12. CASE Restart
  BY <1>12 DEF Restart
<1>13. ASSUME NEW i \in Id, LoadManifest(i)
       PROVE  Stored(record') /\ Stored(disk')
  <2>1. disk[i] \in Snapshot /\ clock + 1 \in Nat
    BY <1>13 DEF LoadManifest, Held, TypeOK
  <2>2. Interrupted(disk[i]) \in Snapshot
    BY <2>1, Changed DEF Interrupted, Finished, Terminal
  <2> QED
    BY <1>13, <2>2 DEF LoadManifest, Stored
<1>14. CASE Loaded
  BY <1>14, WithoutTyped DEF Loaded
<1>15. CASE LoadFails
  BY <1>15 DEF LoadFails
<1>16. CASE UNCHANGED vars
  BY <1>16 DEF vars
<1> QED
  BY <1>1, <1>2, <1>3, <1>4, <1>5, <1>6, <1>7, <1>8, <1>9, <1>10, <1>11, <1>12, <1>13,
     <1>14, <1>15, <1>16 DEF Next, Handler, Crash, CrashInStart, Load

-----------------------------------------------------------------------------
(* Finishing times.                                                        *)

AllDated(store, now) == \A i \in Id : Dated(store[i], now)

LEMMA PublishDated ==
  ASSUME Stored(record), Stored(disk), NEW now, AllDated(record, now), AllDated(disk, now),
         NEW i \in Id, NEW s \in Snapshot, Dated(s, now), Publish(i, s)
  PROVE  AllDated(record', now) /\ AllDated(disk', now)
BY DEF Publish, Stored, AllDated

LEMMA LaterDated ==
  ASSUME NEW store, Stored(store), NEW now \in Nat, NEW then \in Nat, now <= then,
         AllDated(store, now)
  PROVE  AllDated(store, then)
BY DEF AllDated, Dated, Stored, Snapshot

LEMMA FinishedDated ==
  ASSUME clock \in Nat, NEW s \in Snapshot, NEW v \in Terminal
  PROVE  Dated(Finished(s, v), clock + 1)
BY DEF Dated, Finished, Snapshot, isTerminal

LEMMA SameDated ==
  ASSUME NEW s \in Snapshot, NEW now \in Nat, Dated(s, now)
  PROVE  /\ Dated([s EXCEPT !.crossed = TRUE], now)
         /\ ~isTerminal(s) => Dated([s EXCEPT !.status = "running"], now)
<1>1. [s EXCEPT !.crossed = TRUE].status = s.status
      /\ [s EXCEPT !.crossed = TRUE].finishedAt = s.finishedAt
      /\ [s EXCEPT !.status = "running"].status = "running"
      /\ [s EXCEPT !.status = "running"].finishedAt = s.finishedAt
  BY DEF Snapshot
<1>2. s # NoSnapshot /\ s.finishedAt \in Nat
  BY SnapshotFields
<1> QED
  BY <1>1, <1>2 DEF Dated, isTerminal, Terminal

LEMMA WithoutDated ==
  ASSUME NEW store, NEW now, AllDated(store, now), NEW ids
  PROVE  AllDated(Without(store, ids), now) /\ AllDated(RemovePersisted(store, ids), now)
BY DEF AllDated, Without, RemovePersisted, Dated

LEMMA DatedStep ==
  ASSUME TypeOK, ProcessInv, TaskInv, [Next]_vars
  PROVE  AllDated(record', clock') /\ AllDated(disk', clock')
<1>0. /\ Stored(record) /\ Stored(disk)
      /\ AllDated(record, clock) /\ AllDated(disk, clock)
      /\ clock \in Nat /\ clock + 1 \in Nat /\ clock <= clock + 1
      /\ \A i \in Id : record[i] # NoSnapshot => record[i] \in Snapshot
      /\ \A i \in Id : disk[i] # NoSnapshot => disk[i] \in Snapshot
  BY DEF TypeOK, Stored, AllDated
<1> USE <1>0 DEF memory, bounds
<1> DEFINE Goal == AllDated(record', clock') /\ AllDated(disk', clock')
<1>2. ASSUME NEW c \in Client,
             \/ \E r \in Request : Lookup(c, r)
             \/ Admit(c) \/ StartKnown(c) \/ StartAtCapacity(c)
      PROVE  Goal
  BY <1>2 DEF Lookup, Admit, StartKnown, StartAtCapacity
<1>3. ASSUME NEW c \in Client, Start(c)
      PROVE  Goal
  <2>1. Dated(Queued(client[c].request), clock)
    BY DEF Queued, Dated, isTerminal, Terminal
  <2>2. clock' = clock
    BY <1>3 DEF Start
  <2>3. AllDated(record', clock) /\ AllDated(disk', clock)
    BY <1>3, <2>1, WithoutTyped, WithoutDated DEF Start, AllDated, Stored
  <2> QED
    BY <2>2, <2>3
<1>4. ASSUME NEW c \in Client, StartFails(c) \/ EvictionFails(c)
      PROVE  Goal
  BY <1>4, WithoutDated DEF StartFails, EvictionFails
<1>5. ASSUME NEW i \in Id, Execute(i)
      PROVE  Goal
  <2>1. record[i] \in Snapshot /\ Dated(record[i], clock)
    BY <1>5 DEF Execute, TaskInv, AtWork, AllDated
  <2>2. ~isTerminal(record[i]) => /\ [record[i] EXCEPT !.status = "running"] \in Snapshot
                                  /\ Dated([record[i] EXCEPT !.status = "running"], clock)
    BY <2>1, Changed, SameDated
  <2> QED
    BY <1>5, <2>2, PublishDated DEF Execute
<1>6. ASSUME NEW i \in Id, Mark(i) \/ MarkFails(i)
      PROVE  Goal
  <2>1. record[i] \in Snapshot /\ Dated(record[i], clock)
    BY <1>6 DEF Mark, MarkFails, AtBoundary, TaskInv, AtWork, AllDated
  <2>2. Crossed(i) \in Snapshot /\ Dated(Crossed(i), clock)
    BY <2>1, Changed, SameDated DEF Crossed
  <2>3. CASE Mark(i)
    BY <2>3, <2>2, PublishDated DEF Mark
  <2>4. CASE MarkFails(i)
    BY <2>4, <2>2 DEF MarkFails, Stored, AllDated
  <2> QED
    BY <1>6, <2>3, <2>4
<1>7. ASSUME NEW i \in Id, Apply(i)
      PROVE  Goal
  BY <1>7 DEF Apply
<1>8. ASSUME NEW i \in Id, TaskEnds(i)
      PROVE  Goal
  <2>1. record[i] \in Snapshot
    BY <1>8 DEF TaskEnds, Return, Throw, MayReturn, MayThrow, TaskInv, AtWork
  <2>2. \A v \in {"succeeded", "failed"} :
          /\ Finished(record[i], Outcome(i, v)) \in Snapshot
          /\ Dated(Finished(record[i], Outcome(i, v)), clock + 1)
    BY <2>1, Changed, FinishedDated DEF Finished, Outcome, Terminal
  <2>3. AllDated(record, clock + 1) /\ AllDated(disk, clock + 1)
    BY LaterDated
  <2> QED
    BY <1>8, <2>2, <2>3, PublishDated DEF TaskEnds, Return, Throw, End
<1>9. ASSUME NEW i \in Id, Cancel(i)
      PROVE  Goal
  <2>1. record[i] \in Snapshot /\ Dated(record[i], clock)
    BY <1>9 DEF Cancel, Active, Held, AllDated
  <2> QED
    BY <1>9, <2>1, PublishDated DEF Cancel
<1>10. CASE Shutdown
  <2>1. Active \subseteq Id /\ Cardinality(Active) \in Nat
    BY IdsFinite DEF Active, Held
  <2>2. clock' = clock + Cardinality(Active)
    BY <1>10 DEF Shutdown
  <2>3. clock' \in Nat /\ clock <= clock'
    BY <2>1, <2>2
  <2>4. AllDated(record, clock') /\ AllDated(disk, clock')
    BY <2>3, LaterDated
  <2>5. ASSUME NEW i \in Active
        PROVE  Dated(Closed(i), clock')
    <3>1. record[i] \in Snapshot
      BY DEF Active, Held
    <3>2. clock + Position(i) <= clock' /\ clock + Position(i) > 0
      BY <2>2, Positions
    <3> QED
      BY <3>1, <3>2 DEF Closed, Dated, Snapshot, isTerminal, Terminal
  <2> QED
    BY <1>10, <2>4, <2>5 DEF Shutdown, AllDated
<1>11. ASSUME Die, disk' \in {disk, RemovePersisted(disk, Evicted(record))}
       PROVE  Goal
  BY <1>11, WithoutDated DEF Die, NoRecords, AllDated, Dated
<1>12. CASE Restart
  BY <1>12 DEF Restart
<1>13. ASSUME NEW i \in Id, LoadManifest(i)
       PROVE  Goal
  <2>1. disk[i] \in Snapshot
    BY <1>13 DEF LoadManifest, Held
  <2>2. Dated(Interrupted(disk[i]), clock + 1)
    BY <2>1, FinishedDated DEF Interrupted, Terminal
  <2>3. AllDated(record, clock + 1) /\ AllDated(disk, clock + 1)
    BY LaterDated
  <2> QED
    BY <1>13, <2>2, <2>3 DEF LoadManifest, Stored, AllDated
<1>14. CASE Loaded
  BY <1>14, WithoutDated DEF Loaded
<1>15. CASE LoadFails \/ UNCHANGED vars
  BY <1>15 DEF LoadFails, vars
<1> QED
  BY <1>2, <1>3, <1>4, <1>5, <1>6, <1>7, <1>8, <1>9, <1>10, <1>11, <1>12, <1>13,
     <1>14, <1>15 DEF Next, Handler, Crash, CrashInStart, Load

LEMMA TypeStep ==
  ASSUME TypeOK, ProcessInv, TaskInv, [Next]_vars
  PROVE  TypeOK'
BY RestStep, StoresTyped, DatedStep DEF TypeOK, TypeRest, Stored, AllDated

-----------------------------------------------------------------------------
(* Handlers, the process and its tasks.                                    *)

LEMMA ProcessStep ==
  ASSUME TypeOK, ProcessInv, TaskInv, [Next]_vars
  PROVE  ProcessInv'
<1>0. /\ Stored(record) /\ Stored(disk)
      /\ host \in {"up", "loading", "closing", "down"}
      /\ task \in [Id -> Steps] /\ created \in 0..MaxId /\ effect \subseteq Id
      /\ client \in [Client -> [pc : {"idle", "looked", "admitted"}, request : Request \cup {NoRequest}]]
  BY DEF TypeOK, Stored
<1> USE <1>0 DEF memory, bounds, Running
<1>1. ASSUME NEW c \in Client, NEW r \in Request, Lookup(c, r)
      PROVE  ProcessInv'
  BY <1>1 DEF Lookup, ProcessInv, Idle
<1>2. ASSUME NEW c \in Client, Admit(c) \/ StartKnown(c) \/ StartAtCapacity(c)
      PROVE  ProcessInv'
  BY <1>2 DEF Admit, StartKnown, StartAtCapacity, Reply, ProcessInv, Idle
<1>3. ASSUME NEW c \in Client, MayStart(c)
      PROVE  host = "up"
  BY <1>3 DEF MayStart, ProcessInv, Idle
<1>4. ASSUME NEW c \in Client, Start(c)
      PROVE  ProcessInv'
  <2>1. host = "up" /\ host' = host /\ created' = created + 1 /\ effect' = effect
    BY <1>4, <1>3 DEF Start
  <2>2. \A i \in Id : i > created' =>
          record'[i] = NoSnapshot /\ disk'[i] = NoSnapshot /\ task'[i] = "none"
    <3> SUFFICES ASSUME NEW i \in Id, i > created'
                 PROVE  record'[i] = NoSnapshot /\ disk'[i] = NoSnapshot /\ task'[i] = "none"
      OBVIOUS
    <3>1. i > created /\ i # created'
      BY <2>1, BoundAssumption DEF Id
    <3>2. record[i] = NoSnapshot /\ disk[i] = NoSnapshot /\ task[i] = "none"
      BY <3>1 DEF ProcessInv
    <3>3. task'[i] = task[i]
      BY <1>4, <3>1 DEF Start
    <3>4. record'[i] = Without(record, Evicted(record))[i]
      BY <1>4, <3>1 DEF Start, Without
    <3>5. disk'[i] = Without(disk, Evicted(record))[i]
      BY <1>4, <3>1 DEF Start, Without, RemovePersisted
    <3> QED
      BY <3>2, <3>3, <3>4, <3>5 DEF Without
  <2>3. \A i \in Id : i > created' => i > created
    BY <2>1, BoundAssumption DEF Id
  <2> QED
    BY <1>4, <2>1, <2>2, <2>3 DEF Start, Reply, ProcessInv, Idle
<1>5. ASSUME NEW c \in Client, StartFails(c) \/ EvictionFails(c)
      PROVE  ProcessInv'
  BY <1>5, <1>3 DEF StartFails, EvictionFails, Reply, ProcessInv, Idle, Without, RemovePersisted
<1>6. ASSUME NEW i \in Id, Execute(i) \/ Mark(i) \/ MarkFails(i) \/ Apply(i) \/ TaskEnds(i)
      PROVE  ProcessInv'
  <2>1. host \in {"up", "closing"} /\ host' = host /\ client' = client /\ created' = created
    BY <1>6 DEF Execute, Mark, MarkFails, Apply, TaskEnds, Return, Throw, End
  <2>2. task[i] # "none"
    BY <1>6 DEF Execute, Mark, MarkFails, Apply, AtBoundary, TaskEnds, Return, Throw,
       MayReturn, MayThrow
  <2>3. \A j \in Id \ {i} : record'[j] = record[j] /\ disk'[j] = disk[j] /\ task'[j] = task[j]
                            /\ (j \in effect' <=> j \in effect)
    BY <1>6 DEF Execute, Mark, MarkFails, Apply, TaskEnds, Return, Throw, End, Publish, At,
       Stored
  <2> QED
    BY <2>1, <2>2, <2>3 DEF ProcessInv
<1>7. ASSUME NEW i \in Id, Cancel(i)
      PROVE  ProcessInv'
  BY <1>7 DEF Cancel, Publish, Active, Held, ProcessInv, Stored
<1>8. CASE Shutdown
  BY <1>8 DEF Shutdown, Active, Held, ProcessInv
<1>9. ASSUME Die, disk' \in {disk, RemovePersisted(disk, Evicted(record))}
      PROVE  ProcessInv'
  BY <1>9 DEF Die, ProcessInv, Idle, NoRecords, NoIndex, NoTasks, Without, RemovePersisted
<1>10. CASE Restart \/ LoadFails
  BY <1>10 DEF Restart, LoadFails, AllLoaded, ProcessInv
<1>11. ASSUME NEW i \in Id, LoadManifest(i)
       PROVE  ProcessInv'
  BY <1>11 DEF LoadManifest, Held, ProcessInv, Stored
<1>12. CASE Loaded
  BY <1>12 DEF Loaded, AllLoaded, ProcessInv, Without
<1>13. CASE UNCHANGED vars
  BY <1>13 DEF vars, ProcessInv
<1> QED
  BY <1>1, <1>2, <1>4, <1>5, <1>6, <1>7, <1>8, <1>9, <1>10, <1>11, <1>12, <1>13
     DEF Next, Handler, Crash, CrashInStart, Load

LEMMA TaskStep ==
  ASSUME TypeOK, ProcessInv, TaskInv, [Next]_vars
  PROVE  TaskInv'
<1>0. /\ Stored(record) /\ Stored(disk)
      /\ task \in [Id -> Steps] /\ created \in 0..MaxId
      /\ \A i \in Id : record[i] # NoSnapshot => record[i] \in Snapshot
  BY DEF TypeOK, Stored
<1> USE <1>0 DEF memory, bounds, Running, TaskInv
<1>1. ASSUME NEW c \in Client,
             \/ \E r \in Request : Lookup(c, r)
             \/ Admit(c) \/ StartKnown(c) \/ StartAtCapacity(c)
      PROVE  TaskInv'
  BY <1>1 DEF Lookup, Admit, StartKnown, StartAtCapacity
<1>2. ASSUME NEW c \in Client, MayStart(c)
      PROVE  /\ host = "up"
             /\ \A i \in Id : task[i] \in AtWork => i \notin Evicted(record)
  BY <1>2, EvictedCompleted DEF MayStart, ProcessInv, Idle
<1>3. ASSUME NEW c \in Client, Start(c)
      PROVE  TaskInv'
  <2>1. created' \in Id /\ record' = [Without(record, Evicted(record)) EXCEPT
                                       ![created'] = Queued(client[c].request)]
    BY <1>3, BoundAssumption DEF Start, Id
  <2>2. ~isTerminal(Queued(client[c].request)) /\ Queued(client[c].request) # NoSnapshot
    <3>1. client[c].request \in Request
      BY <1>3 DEF Start, MayStart, ProcessInv, Idle
    <3>2. Queued(client[c].request) \in Snapshot
      BY <3>1 DEF Queued, Snapshot
    <3> QED
      BY <3>2, NullAssumption DEF Queued, isTerminal, Terminal
  <2>3. \A i \in Id \ {created'} : record'[i] = IF i \in Evicted(record) THEN NoSnapshot ELSE record[i]
    BY <2>1 DEF Without
  <2>4. record'[created'] = Queued(client[c].request)
    BY <2>1 DEF Without
  <2>5. \A i \in Id \ {created'} : task'[i] = task[i]
    BY <1>3, <2>1 DEF Start
  <2> QED
    BY <1>2, <1>3, <2>2, <2>3, <2>4, <2>5 DEF Start
<1>4. ASSUME NEW c \in Client, StartFails(c) \/ EvictionFails(c)
      PROVE  TaskInv'
  BY <1>2, <1>4 DEF StartFails, EvictionFails, Without
<1>5. ASSUME NEW i \in Id, Execute(i)
      PROVE  TaskInv'
  <2>1. record[i] \in Snapshot
    BY <1>5 DEF Execute, AtWork
  <2>2. /\ [record[i] EXCEPT !.status = "running"] # NoSnapshot
        /\ ~isTerminal([record[i] EXCEPT !.status = "running"])
    BY <2>1, RunningTyped
  <2> QED
    BY <1>5, <2>2 DEF Execute, At, Publish, Stored, AtWork
<1>6. ASSUME NEW i \in Id, Mark(i) \/ MarkFails(i)
      PROVE  TaskInv'
  <2>1. record[i] \in Snapshot /\ task[i] \in AtWork
    BY <1>6 DEF Mark, MarkFails, AtBoundary, AtWork
  <2>2. Crossed(i) # NoSnapshot /\ (isTerminal(Crossed(i)) <=> isTerminal(record[i]))
    BY <2>1, Changed, SnapshotFields DEF isTerminal, Crossed, Snapshot
  <2>3. \A j \in Id : record'[j] \in {record[j], IF i = j THEN Crossed(i) ELSE record[j]}
    BY <1>6 DEF Mark, MarkFails, Publish, Stored
  <2>4. \A j \in Id \ {i} : task'[j] = task[j]
    BY <1>6 DEF Mark, MarkFails, At
  <2> QED
    BY <1>6, <2>1, <2>2, <2>3, <2>4 DEF Mark, MarkFails
<1>7. ASSUME NEW i \in Id, Apply(i)
      PROVE  TaskInv'
  BY <1>7 DEF Apply, At, AtWork
<1>8. ASSUME NEW i \in Id, TaskEnds(i)
      PROVE  TaskInv'
  BY <1>8 DEF TaskEnds, Return, Throw, End, At, Publish, Stored, AtWork
<1>9. ASSUME NEW i \in Id, Cancel(i)
      PROVE  TaskInv'
  BY <1>9 DEF Cancel, Publish, Stored
<1>10. CASE Shutdown
  <2>1. \A i \in Active : Closed(i) # NoSnapshot
    BY ClosedTyped, SnapshotFields
  <2> QED
    BY <1>10, <2>1 DEF Shutdown, Active, Held
<1>11. ASSUME Die
       PROVE  TaskInv'
  BY <1>11 DEF Die, NoTasks, AtWork
<1>12. CASE Restart \/ LoadFails \/ Loaded \/ \E i \in Id : LoadManifest(i)
  <2>1. task' = NoTasks
    BY <1>12 DEF Restart, LoadFails, Loaded, LoadManifest, AllLoaded, ProcessInv
  <2> QED
    BY <2>1 DEF NoTasks, AtWork
<1>13. CASE UNCHANGED vars
  BY <1>13 DEF vars
<1> QED
  BY <1>1, <1>3, <1>4, <1>5, <1>6, <1>7, <1>8, <1>9, <1>10, <1>11, <1>12, <1>13
     DEF Next, Handler, Crash, CrashInStart, Load

-----------------------------------------------------------------------------
(* The disk follows the process.                                           *)

LEMMA MirrorStep ==
  ASSUME TypeOK, ProcessInv, TaskInv, MirrorInv, [Next]_vars
  PROVE  MirrorInv'
<1>0. /\ Stored(record) /\ Stored(disk)
      /\ created \in 0..MaxId
      /\ \A i \in Id : record[i] # NoSnapshot => record[i] \in Snapshot
      /\ \A i \in Id : disk[i] # NoSnapshot => disk[i] \in Snapshot
  BY DEF TypeOK, Stored
<1> USE <1>0 DEF memory, bounds, Running, MirrorInv, SameButBoundary
<1>1. ASSUME NEW c \in Client,
             \/ \E r \in Request : Lookup(c, r)
             \/ Admit(c) \/ StartKnown(c) \/ StartAtCapacity(c)
      PROVE  MirrorInv'
  BY <1>1 DEF Lookup, Admit, StartKnown, StartAtCapacity
<1>2. ASSUME NEW c \in Client, MayStart(c)
      PROVE  host = "up"
  BY <1>2 DEF MayStart, ProcessInv, Idle
<1>3. ASSUME NEW c \in Client, Start(c)
      PROVE  MirrorInv'
  <2>1. created' \in Id
    BY <1>3, BoundAssumption DEF Start, Id
  <2>2. \A i \in Id \ {created'} :
          /\ record'[i] = IF i \in Evicted(record) THEN NoSnapshot ELSE record[i]
          /\ disk'[i] = IF i \in Evicted(record) THEN NoSnapshot ELSE disk[i]
    BY <1>3, <2>1 DEF Start, Without, RemovePersisted
  <2>3. record'[created'] = Queued(client[c].request) /\ disk'[created'] = record'[created']
    BY <1>3, <2>1 DEF Start, Without, RemovePersisted
  <2>4. disk'[created'] # NoSnapshot
    <3>1. Queued(client[c].request) \in Snapshot
      BY <1>3 DEF Start, MayStart, ProcessInv, Idle, Queued, Snapshot
    <3> QED
      BY <3>1, <2>3, SnapshotFields
  <2> QED
    BY <1>2, <1>3, <2>2, <2>3, <2>4 DEF Start
<1>4. ASSUME NEW c \in Client, StartFails(c) \/ EvictionFails(c)
      PROVE  MirrorInv'
  BY <1>2, <1>4 DEF StartFails, EvictionFails, Without, RemovePersisted
<1>5. ASSUME NEW i \in Id, NEW s \in Snapshot, Publish(i, s), host' = host
      PROVE  MirrorInv'
  <2>1. s # NoSnapshot
    BY SnapshotFields
  <2> QED
    BY <1>5, <2>1 DEF Publish, Stored
<1>6. ASSUME NEW i \in Id, Execute(i)
      PROVE  MirrorInv'
  <2>1. record[i] \in Snapshot
    BY <1>6 DEF Execute, AtWork, TaskInv
  <2> QED
    BY <1>5, <1>6, <2>1, RunningTyped DEF Execute
<1>7. ASSUME NEW i \in Id, Mark(i) \/ MarkFails(i)
      PROVE  MirrorInv'
  <2>1. record[i] \in Snapshot
    BY <1>7 DEF Mark, MarkFails, AtBoundary, AtWork, TaskInv
  <2>2. /\ Crossed(i) \in Snapshot /\ Crossed(i).request = record[i].request
        /\ Crossed(i).status = record[i].status /\ Crossed(i).finishedAt = record[i].finishedAt
        /\ Crossed(i).crossed
    BY <2>1, Changed, ChangedFields DEF Crossed
  <2>3. CASE Mark(i)
    BY <1>5, <2>2, <2>3 DEF Mark
  <2>4. CASE MarkFails(i)
    BY <2>1, <2>2, <2>4, SnapshotFields DEF MarkFails, Stored
  <2> QED
    BY <1>7, <2>3, <2>4
<1>8. ASSUME NEW i \in Id, Apply(i)
      PROVE  MirrorInv'
  BY <1>8 DEF Apply
<1>9. ASSUME NEW i \in Id, TaskEnds(i)
      PROVE  MirrorInv'
  <2>1. record[i] \in Snapshot
    BY <1>9 DEF TaskEnds, Return, Throw, MayReturn, MayThrow, TaskInv, AtWork
  <2>2. clock + 1 \in Nat
    BY DEF TypeOK
  <2>3. \A v \in {"succeeded", "failed"} : Finished(record[i], Outcome(i, v)) \in Snapshot
    BY <2>1, <2>2, Changed DEF Finished, Outcome, Terminal
  <2> QED
    BY <1>5, <1>9, <2>3 DEF TaskEnds, Return, Throw, End
<1>10. ASSUME NEW i \in Id, Cancel(i)
       PROVE  MirrorInv'
  <2>1. record[i] \in Snapshot
    BY <1>10 DEF Cancel, Active, Held
  <2> QED
    BY <1>5, <1>10, <2>1 DEF Cancel
<1>11. CASE Shutdown
  <2>1. \A i \in Active : Closed(i) # NoSnapshot
    BY ClosedTyped, SnapshotFields
  <2>2. \A i \in Id : IF i \in Active THEN record'[i] = Closed(i) /\ disk'[i] = Closed(i)
                                      ELSE record'[i] = record[i] /\ disk'[i] = disk[i]
    BY <1>11 DEF Shutdown
  <2> QED
    BY <1>11, <2>1, <2>2 DEF Shutdown
<1>12. ASSUME Die
       PROVE  MirrorInv'
  BY <1>12 DEF Die
<1>13. CASE Restart \/ LoadFails \/ \E i \in Id : LoadManifest(i)
  BY <1>13 DEF Restart, LoadFails, LoadManifest
<1>14. CASE Loaded
  BY <1>14 DEF Loaded
<1>15. CASE UNCHANGED vars
  BY <1>15 DEF vars
<1> QED
  BY <1>1, <1>3, <1>4, <1>6, <1>7, <1>8, <1>9, <1>10, <1>11, <1>12, <1>13, <1>14, <1>15
     DEF Next, Handler, Crash, CrashInStart, Load

-----------------------------------------------------------------------------
(* The boundary of a move is on disk before its effect.                    *)

LEMMA BoundaryStep ==
  ASSUME TypeOK, ProcessInv, TaskInv, MirrorInv, BoundaryInv, [Next]_vars
  PROVE  BoundaryInv'
<1>0. /\ Stored(record) /\ Stored(disk)
      /\ created \in 0..MaxId /\ task \in [Id -> Steps]
      /\ \A i \in Id : record[i] # NoSnapshot => record[i] \in Snapshot
      /\ \A i \in Id : disk[i] # NoSnapshot => disk[i] \in Snapshot
  BY DEF TypeOK, Stored
<1> USE <1>0 DEF memory, bounds, BoundaryInv
<1>1. ASSUME NEW c \in Client,
             \/ \E r \in Request : Lookup(c, r)
             \/ Admit(c) \/ StartKnown(c) \/ StartAtCapacity(c)
      PROVE  BoundaryInv'
  BY <1>1 DEF Lookup, Admit, StartKnown, StartAtCapacity
<1>2. ASSUME NEW c \in Client, Start(c)
      PROVE  BoundaryInv'
  <2>1. created' \in Id /\ created' > created
    BY <1>2, BoundAssumption DEF Start, Id
  <2>2. \A i \in Id \ {created'} :
          disk'[i] = (IF i \in Evicted(record) THEN NoSnapshot ELSE disk[i]) /\ task'[i] = task[i]
    BY <1>2, <2>1 DEF Start, Without, RemovePersisted
  <2>3. task'[created'] = "queued" /\ created' \notin effect /\ effect' = effect
    BY <1>2, <2>1 DEF Start, ProcessInv
  <2> QED
    BY <2>2, <2>3
<1>3. ASSUME NEW c \in Client, StartFails(c) \/ EvictionFails(c)
      PROVE  BoundaryInv'
  BY <1>3 DEF StartFails, EvictionFails, Without, RemovePersisted
<1>4. ASSUME NEW i \in Id, NEW s \in Snapshot, Publish(i, s), Running,
             s.request = record[i].request, record[i] # NoSnapshot,
             record[i].crossed => s.crossed,
             effect' = effect, task'[i] \notin {"marked", "applied"} \/ s.crossed,
             \A j \in Id \ {i} : task'[j] = task[j]
      PROVE  BoundaryInv'
  <2>1. \A j \in Id \ {i} : disk'[j] = disk[j]
    BY <1>4 DEF Publish, Stored
  <2>2. disk'[i] = s
    BY <1>4 DEF Publish, Stored
  <2>3. disk[i] # NoSnapshot /\ disk[i].request = s.request /\ (disk[i].crossed => s.crossed)
    BY <1>4 DEF MirrorInv, SameButBoundary
  <2> QED
    BY <1>4, <2>1, <2>2, <2>3
<1>5. ASSUME NEW i \in Id, Execute(i)
      PROVE  BoundaryInv'
  <2>1. record[i] \in Snapshot
    BY <1>5 DEF Execute, AtWork, TaskInv
  <2>2. CASE isTerminal(record[i])
    BY <1>5, <2>2 DEF Execute, At
  <2>3. CASE ~isTerminal(record[i])
    <3> DEFINE s == [record[i] EXCEPT !.status = "running"]
    <3>1. s \in Snapshot /\ s.request = record[i].request /\ s.crossed = record[i].crossed
      BY <2>1, RunningTyped, ChangedFields
    <3>2. Publish(i, s) /\ task'[i] = "running" /\ \A j \in Id \ {i} : task'[j] = task[j]
      BY <1>5, <2>3 DEF Execute, At
    <3>3. Running /\ effect' = effect /\ record[i] # NoSnapshot
      BY <1>5, <2>1, SnapshotFields DEF Execute
    <3> HIDE DEF s
    <3> QED
      BY <1>4, <3>1, <3>2, <3>3
  <2> QED
    BY <2>2, <2>3
<1>6. ASSUME NEW i \in Id, Mark(i)
      PROVE  BoundaryInv'
  <2>1. record[i] \in Snapshot /\ record[i] # NoSnapshot
    BY <1>6 DEF Mark, AtBoundary, AtWork, TaskInv
  <2>2. Crossed(i) \in Snapshot /\ Crossed(i).request = record[i].request /\ Crossed(i).crossed
    BY <2>1, Changed, ChangedFields DEF Crossed
  <2>3. CASE isTerminal(record[i])
    <3>1. record[i].request \in LateMark
      BY <1>6, <2>3 DEF Mark, AtBoundary, Late, TaskInv, AtWork
    <3>2. disk[i].request \in LateMark
      BY <1>6, <2>1, <3>1 DEF Mark, MirrorInv, SameButBoundary
    <3> QED
      BY <1>6, <2>3, <3>2 DEF Mark, At
  <2>4. CASE ~isTerminal(record[i])
    BY <1>4, <1>6, <2>1, <2>2, <2>4 DEF Mark, At
  <2> QED
    BY <2>3, <2>4
<1>7. ASSUME NEW i \in Id, MarkFails(i)
      PROVE  BoundaryInv'
  BY <1>7 DEF MarkFails, At
<1>8. ASSUME NEW i \in Id, Apply(i)
      PROVE  BoundaryInv'
  <2>1. record[i] # NoSnapshot
    BY <1>8 DEF Apply, AtWork, TaskInv
  <2>2. disk[i].request = record[i].request
    BY <1>8, <2>1 DEF Apply, MirrorInv, SameButBoundary
  <2>3. disk[i].request \notin LateMark => task[i] = "marked"
    BY <1>8, <2>1, <2>2 DEF Apply, Late
  <2> QED
    BY <1>8, <2>3 DEF Apply, At
<1>9. ASSUME NEW i \in Id, TaskEnds(i)
      PROVE  BoundaryInv'
  <2>1. record[i] \in Snapshot /\ record[i] # NoSnapshot
    BY <1>9 DEF TaskEnds, Return, Throw, MayReturn, MayThrow, TaskInv, AtWork
  <2>7. \A v \in {"succeeded", "failed"} : Outcome(i, v) \in Terminal
    BY DEF Outcome, Terminal
  <2>3. \A v \in {"succeeded", "failed"} :
          LET s == Finished(record[i], Outcome(i, v))
          IN  s \in Snapshot /\ s.request = record[i].request /\ s.crossed = record[i].crossed
    BY <2>1, <2>7, FinishedTyped DEF TypeOK
  <2>4. /\ Running /\ effect' = effect /\ task'[i] = "ended"
        /\ \A j \in Id \ {i} : task'[j] = task[j]
    BY <1>9 DEF TaskEnds, Return, Throw, End, At
  <2>5. CASE isTerminal(record[i])
    BY <1>9, <2>4, <2>5 DEF TaskEnds, Return, Throw, End
  <2>6. CASE ~isTerminal(record[i])
    <3>1. \E v \in {"succeeded", "failed"} : Publish(i, Finished(record[i], Outcome(i, v)))
      BY <1>9, <2>6 DEF TaskEnds, Return, Throw, End
    <3> QED
      BY <1>4, <2>1, <2>3, <2>4, <3>1
  <2> QED
    BY <2>5, <2>6
<1>10. ASSUME NEW i \in Id, Cancel(i)
       PROVE  BoundaryInv'
  <2>1. record[i] \in Snapshot /\ record[i] # NoSnapshot
    BY <1>10 DEF Cancel, Active, Held
  <2>2. disk[i] # NoSnapshot /\ SameButBoundary(record[i], disk[i])
    BY <1>10, <2>1 DEF Cancel, MirrorInv, Running
  <2>3. \A j \in Id : disk'[j] = IF j = i THEN record[i] ELSE disk[j]
    BY <1>10 DEF Cancel, Publish, Stored
  <2> QED
    BY <1>10, <2>2, <2>3 DEF Cancel, SameButBoundary
<1>11. CASE Shutdown
  <2>1. \A i \in Active : /\ disk[i] # NoSnapshot /\ SameButBoundary(record[i], disk[i])
                          /\ Closed(i).request = record[i].request
                          /\ Closed(i).crossed = record[i].crossed
    BY <1>11, ClosedTyped DEF Shutdown, MirrorInv, Active, Held, Running
  <2>2. \A i \in Id : disk'[i] = IF i \in Active THEN Closed(i) ELSE disk[i]
    BY <1>11 DEF Shutdown
  <2>3. effect' = effect /\ task' = task
    BY <1>11 DEF Shutdown
  <2> QED
    BY <2>1, <2>2, <2>3 DEF SameButBoundary
<1>12. ASSUME Die, disk' \in {disk, RemovePersisted(disk, Evicted(record))}
       PROVE  BoundaryInv'
  BY <1>12 DEF Die, NoTasks, Without, RemovePersisted
<1>13. CASE Restart \/ LoadFails \/ UNCHANGED vars
  BY <1>13 DEF Restart, LoadFails, vars
<1>14. ASSUME NEW i \in Id, LoadManifest(i)
       PROVE  BoundaryInv'
  <2>1. disk[i] \in Snapshot /\ disk[i] # NoSnapshot
    BY <1>14 DEF LoadManifest, Held
  <2>2. /\ Interrupted(disk[i]).request = disk[i].request
        /\ Interrupted(disk[i]).crossed = disk[i].crossed
    BY <2>1, ChangedFields DEF Interrupted, Finished
  <2>3. \A j \in Id : disk'[j] = IF j = i THEN Interrupted(disk[i]) ELSE disk[j]
    BY <1>14 DEF LoadManifest, Stored
  <2> QED
    BY <1>14, <2>1, <2>2, <2>3 DEF LoadManifest
<1>15. CASE Loaded
  BY <1>15 DEF Loaded, Without
<1> QED
  BY <1>1, <1>2, <1>3, <1>5, <1>6, <1>7, <1>8, <1>9, <1>10, <1>11, <1>12, <1>13, <1>14, <1>15
     DEF Next, Handler, Crash, CrashInStart, Load

LEMMA Inductive == Spec => []OpInv
<1>1. OpInv /\ [Next]_vars => OpInv'
  BY TypeStep, ProcessStep, TaskStep, MirrorStep, BoundaryStep DEF OpInv
<1> QED
  BY <1>1, InitInv, PTL DEF Spec

\* Every variable of the operation manager keeps its type; an operation has
\* a finishing time, in the past, exactly when it has an outcome.
THEOREM TypeCorrect == Spec => []TypeOK
<1>1. OpInv => TypeOK
  BY DEF OpInv
<1> QED
  BY <1>1, Inductive, PTL

\* No manifest of a move says "boundary not crossed" once its world has
\* changed, whatever is cancelled, shut down, evicted, killed or restarted.
THEOREM BoundaryWrittenAhead == Spec => []BoundaryIsWrittenAhead
<1>1. OpInv => BoundaryIsWrittenAhead
  BY DEF OpInv, BoundaryInv, BoundaryIsWrittenAhead, Held, TypeOK
<1> QED
  BY <1>1, Inductive, PTL

\* Without preparations no operation that ended short of its boundary has
\* changed anything: what is wrong with them is the late mark alone.
THEOREM BoundaryCoversMoves ==
  ASSUME LateMark = {}
  PROVE  Spec => []BoundaryCoversEffects
<1>1. BoundaryIsWrittenAhead => BoundaryCoversEffects
  BY DEF BoundaryIsWrittenAhead, BoundaryCoversEffects
<1> QED
  BY <1>1, BoundaryWrittenAhead, PTL

-----------------------------------------------------------------------------
(* Outcomes are final.                                                     *)

Final(store, next) ==
  \A i \in Held(store) : isTerminal(store[i]) => next[i] \in {store[i], NoSnapshot}

LEMMA FinalStep ==
  ASSUME OpInv, [Next]_vars
  PROVE  Final(disk, disk') /\ Final(record, record')
<1>0. /\ Stored(record) /\ Stored(disk) /\ created \in 0..MaxId
      /\ ProcessInv /\ TaskInv /\ MirrorInv
  BY DEF OpInv, TypeOK, Stored
<1> USE <1>0 DEF memory, bounds, Final, Held
<1> DEFINE Goal == Final(disk, disk') /\ Final(record, record')
<1>1. ASSUME NEW c \in Client,
             \/ \E r \in Request : Lookup(c, r)
             \/ Admit(c) \/ StartKnown(c) \/ StartAtCapacity(c)
      PROVE  Goal
  BY <1>1 DEF Lookup, Admit, StartKnown, StartAtCapacity
<1>2. ASSUME NEW c \in Client, Start(c)
      PROVE  Goal
  <2>1. created' \in Id /\ created' > created
    BY <1>2, BoundAssumption DEF Start, Id
  <2>2. \A i \in Id \ {created'} :
          /\ disk'[i] = IF i \in Evicted(record) THEN NoSnapshot ELSE disk[i]
          /\ record'[i] = IF i \in Evicted(record) THEN NoSnapshot ELSE record[i]
    BY <1>2, <2>1 DEF Start, Without, RemovePersisted
  <2>3. disk[created'] = NoSnapshot /\ record[created'] = NoSnapshot
    BY <2>1 DEF ProcessInv
  <2> QED
    BY <2>2, <2>3
<1>3. ASSUME NEW c \in Client, StartFails(c) \/ EvictionFails(c)
      PROVE  Goal
  BY <1>3 DEF StartFails, EvictionFails, Without, RemovePersisted
<1>4. ASSUME NEW i \in Id, NEW s, Publish(i, s), Running,
             record[i] # NoSnapshot, ~isTerminal(record[i])
      PROVE  Goal
  BY <1>4 DEF Publish, Stored, MirrorInv, SameButBoundary, isTerminal
<1>5. ASSUME NEW i \in Id, Execute(i) \/ Mark(i) \/ TaskEnds(i)
      PROVE  Goal
  <2>1. record[i] # NoSnapshot /\ Running
    BY <1>5 DEF Execute, Mark, AtBoundary, TaskEnds, Return, Throw, MayReturn, MayThrow, TaskInv,
       AtWork
  <2>2. CASE isTerminal(record[i])
    BY <1>5, <2>2 DEF Execute, Mark, TaskEnds, Return, Throw, End
  <2>3. CASE ~isTerminal(record[i])
    <3>1. \E s : Publish(i, s)
      BY <1>5, <2>3 DEF Execute, Mark, TaskEnds, Return, Throw, End
    <3> QED
      BY <1>4, <2>1, <2>3, <3>1
  <2> QED
    BY <2>2, <2>3
<1>6. ASSUME NEW i \in Id, MarkFails(i) \/ Apply(i)
      PROVE  Goal
  BY <1>6 DEF MarkFails, Apply, Stored
<1>7. ASSUME NEW i \in Id, Cancel(i)
      PROVE  Goal
  BY <1>4, <1>7 DEF Cancel, Active, Running
<1>8. CASE Shutdown
  <2>1. \A i \in Active : disk[i] # NoSnapshot /\ ~isTerminal(disk[i])
    BY <1>8 DEF Shutdown, MirrorInv, SameButBoundary, Active, Running, isTerminal
  <2> QED
    BY <1>8, <2>1 DEF Shutdown, Active
<1>9. ASSUME Die, disk' \in {disk, RemovePersisted(disk, Evicted(record))}
      PROVE  Goal
  BY <1>9 DEF Die, NoRecords, Without, RemovePersisted
<1>10. CASE Restart \/ LoadFails \/ UNCHANGED vars
  BY <1>10 DEF Restart, LoadFails, vars
<1>11. ASSUME NEW i \in Id, LoadManifest(i)
       PROVE  Goal
  BY <1>11 DEF LoadManifest, Stored
<1>12. CASE Loaded
  <2>1. record = NoRecords
    BY <1>12 DEF Loaded, AllLoaded, ProcessInv, Running
  <2> QED
    BY <1>12, <2>1 DEF Loaded, Without, NoRecords
<1> QED
  BY <1>1, <1>2, <1>3, <1>5, <1>6, <1>7, <1>8, <1>9, <1>10, <1>11, <1>12
     DEF Next, Handler, Crash, CrashInStart, Load

\* The outcome of an operation is final, on disk and in the process, until
\* retention drops it.
THEOREM OutcomesAreFinal == Spec => TerminalIsFinal
<1> DEFINE A == \A i \in Id :
       /\ i \in Held(disk) /\ isTerminal(disk[i]) => disk'[i] \in {disk[i], NoSnapshot}
       /\ i \in Held(record) /\ isTerminal(record[i]) => record'[i] \in {record[i], NoSnapshot}
<1>1. OpInv /\ [Next]_vars => [A]_vars
  BY FinalStep DEF Final
<1> QED
  BY <1>1, Inductive, PTL DEF Spec, TerminalIsFinal

-----------------------------------------------------------------------------
(* The idempotency map.                                                    *)

\* What is evicted goes from the records and from the map together.
LEMMA Forgotten ==
  ASSUME TypeOK, OneOperationPerRequest, Running, NEW q \in Request, NEW i \in Id
  PROVE  LET old == Evicted(record) IN
         Forget(old)[q] = i <=>
           (Without(record, old)[i] # NoSnapshot /\ Without(record, old)[i].request = q)
<1> DEFINE old == Evicted(record)
<1>1. i # NoId
  BY NullAssumption DEF Id
<1>2. /\ \A e \in old : e \in Id /\ record[e] # NoSnapshot
      /\ Forget(old)[q] = IF \E e \in old : record[e].request = q THEN NoId ELSE index[q]
      /\ Without(record, old)[i] = IF i \in old THEN NoSnapshot ELSE record[i]
  BY EvictedCompleted DEF Forget, Without
<1>3. \A e \in Id : index[q] = e <=> (record[e] # NoSnapshot /\ record[e].request = q)
  BY DEF OneOperationPerRequest
<1> QED
  BY <1>1, <1>2, <1>3

LEMMA KeyStep ==
  ASSUME TypeOK, ProcessInv, TaskInv, OneOperationPerRequest, [Next]_vars
  PROVE  OneOperationPerRequest'
<1>0. /\ Stored(record)
      /\ created \in 0..MaxId /\ clock + 1 \in Nat
      /\ \A i \in Id : record[i] # NoSnapshot => record[i] \in Snapshot
  BY DEF TypeOK, Stored
<1> USE <1>0 DEF memory, bounds
<1>1. ASSUME host' = host, UNCHANGED <<record, index>>
      PROVE  OneOperationPerRequest'
  BY <1>1 DEF OneOperationPerRequest, Running
<1>2. ASSUME NEW c \in Client, MayStart(c)
      PROVE  /\ host = "up" /\ Running
             /\ client[c].request \in Request /\ index[client[c].request] = NoId
  BY <1>2 DEF MayStart, ProcessInv, Idle, Running
<1>3. ASSUME NEW c \in Client, Start(c)
      PROVE  OneOperationPerRequest'
  <2> DEFINE old == Evicted(record)
             r == client[c].request
             n == created'
  <2>1. /\ n \in Id /\ record[n] = NoSnapshot
        /\ r \in Request /\ index[r] = NoId /\ Running
    BY <1>2, <1>3, BoundAssumption DEF Start, Id, ProcessInv
  <2>2. \A i \in Id \ {n} : record'[i] = Without(record, old)[i]
    BY <1>3, <2>1 DEF Start, Without
  <2>3. \A q \in Request \ {r} : index'[q] = Forget(old)[q]
    BY <1>3, <2>1 DEF Start, Forget
  <2>4. record'[n] = Queued(r) /\ index'[r] = n
    BY <1>3, <2>1 DEF Start, Without, Forget
  <2>5. Queued(r) # NoSnapshot /\ Queued(r).request = r
    <3>1. Queued(r) \in Snapshot
      BY <2>1 DEF Queued, Snapshot
    <3> QED
      BY <3>1, SnapshotFields DEF Queued
  <2>6. ASSUME NEW q \in Request, NEW i \in Id
        PROVE  index'[q] = i <=> (record'[i] # NoSnapshot /\ record'[i].request = q)
    <3>1. Forget(old)[q] = i <=>
            (Without(record, old)[i] # NoSnapshot /\ Without(record, old)[i].request = q)
      BY <2>1, Forgotten
    <3>2. Without(record, old)[n] = NoSnapshot
      BY <2>1 DEF Without
    <3>3. Forget(old)[r] = NoId /\ NoId # i
      BY <2>1, NullAssumption DEF Forget, Id
    <3>4. CASE i = n /\ q = r
      BY <2>4, <2>5, <3>4
    <3>5. CASE i = n /\ q # r
      BY <2>3, <2>4, <2>5, <3>1, <3>2, <3>5
    <3>6. CASE i # n /\ q = r
      BY <2>2, <2>4, <3>1, <3>3, <3>6
    <3>7. CASE i # n /\ q # r
      BY <2>2, <2>3, <3>1, <3>7
    <3> QED
      BY <3>4, <3>5, <3>6, <3>7
  <2> QED
    BY <2>6 DEF OneOperationPerRequest
<1>4. ASSUME NEW c \in Client, StartFails(c) \/ EvictionFails(c)
      PROVE  OneOperationPerRequest'
  <2>1. /\ record' = Without(record, Evicted(record)) /\ index' = Forget(Evicted(record))
        /\ Running
    BY <1>2, <1>4 DEF StartFails, EvictionFails
  <2> QED
    BY <2>1, Forgotten DEF OneOperationPerRequest
<1>5. ASSUME NEW i \in Id, NEW s \in Snapshot, record[i] # NoSnapshot,
             s.request = record[i].request,
             record' = [record EXCEPT ![i] = s], index' = index, host' = host
      PROVE  OneOperationPerRequest'
  <2>1. s # NoSnapshot
    BY SnapshotFields
  <2>2. \A j \in Id : record'[j] = IF j = i THEN s ELSE record[j]
    BY <1>5 DEF Stored
  <2> QED
    BY <1>5, <2>1, <2>2 DEF OneOperationPerRequest, Running
<1>6. ASSUME NEW i \in Id, Execute(i)
      PROVE  OneOperationPerRequest'
  <2>1. record[i] \in Snapshot /\ record[i] # NoSnapshot
    BY <1>6 DEF Execute, AtWork, TaskInv
  <2>2. CASE isTerminal(record[i])
    BY <1>1, <1>6, <2>2 DEF Execute
  <2>3. CASE ~isTerminal(record[i])
    <3>1. /\ [record[i] EXCEPT !.status = "running"] \in Snapshot
          /\ [record[i] EXCEPT !.status = "running"].request = record[i].request
      BY <2>1, RunningTyped, ChangedFields
    <3> QED
      BY <1>5, <1>6, <2>1, <2>3, <3>1 DEF Execute, Publish
  <2> QED
    BY <2>2, <2>3
<1>7. ASSUME NEW i \in Id, Mark(i) \/ MarkFails(i)
      PROVE  OneOperationPerRequest'
  <2>1. record[i] \in Snapshot /\ record[i] # NoSnapshot
    BY <1>7 DEF Mark, MarkFails, AtBoundary, AtWork, TaskInv
  <2>2. Crossed(i) \in Snapshot /\ Crossed(i).request = record[i].request
    BY <2>1, Changed, ChangedFields DEF Crossed
  <2> QED
    BY <1>1, <1>5, <1>7, <2>1, <2>2 DEF Mark, MarkFails, Publish
<1>8. ASSUME NEW i \in Id, TaskEnds(i)
      PROVE  OneOperationPerRequest'
  <2>1. record[i] \in Snapshot /\ record[i] # NoSnapshot
    BY <1>8 DEF TaskEnds, Return, Throw, MayReturn, MayThrow, TaskInv, AtWork
  <2>2. \A v \in {"succeeded", "failed"} :
          /\ Finished(record[i], Outcome(i, v)) \in Snapshot
          /\ Finished(record[i], Outcome(i, v)).request = record[i].request
    BY <2>1, FinishedTyped DEF Outcome, Terminal, TypeOK
  <2>3. ASSUME NEW v \in {"succeeded", "failed"}, End(i, v)
        PROVE  OneOperationPerRequest'
    BY <1>1, <1>5, <2>1, <2>2, <2>3 DEF End, Publish
  <2> QED
    BY <1>8, <2>3 DEF TaskEnds, Return, Throw
<1>9. ASSUME NEW i \in Id, Cancel(i)
      PROVE  OneOperationPerRequest'
  <2>1. record[i] \in Snapshot /\ record[i] # NoSnapshot
    BY <1>9 DEF Cancel, Active, Held
  <2> QED
    BY <1>5, <1>9, <2>1 DEF Cancel, Publish
<1>10. CASE Shutdown
  <2>1. \A i \in Active : record[i] # NoSnapshot /\ Closed(i) # NoSnapshot
                          /\ Closed(i).request = record[i].request
    BY ClosedTyped, SnapshotFields
  <2>2. \A i \in Id : record'[i] = IF i \in Active THEN Closed(i) ELSE record[i]
    BY <1>10 DEF Shutdown
  <2> QED
    BY <1>10, <2>1, <2>2 DEF Shutdown, OneOperationPerRequest, Running
<1>11. CASE host' \in {"down", "loading"}
  BY <1>11 DEF OneOperationPerRequest, Running
<1>12. CASE Loaded
  <2>1. PICK gone : record' = Without(disk, gone)
    BY <1>12 DEF Loaded
  <2>2. \A i, j \in Id : record'[i] # NoSnapshot /\ record'[j] # NoSnapshot
                         /\ record'[i].request = record'[j].request => i = j
    BY <1>12, <2>1 DEF Loaded, KeysUnique, Held, Without
  <2> DEFINE Named(r) == {i \in Id : record'[i] # NoSnapshot /\ record'[i].request = r}
  <2>3. ASSUME NEW r \in Request
        PROVE  index'[r] = IF Named(r) # {} THEN CHOOSE i \in Held(record') : record'[i].request = r ELSE NoId
    BY <1>12 DEF Loaded, Held
  <2>4. ASSUME NEW r \in Request, NEW i \in Id
        PROVE  index'[r] = i <=> i \in Named(r)
    <3>1. CASE Named(r) = {}
      BY <2>3, <3>1, NullAssumption DEF Id
    <3>2. CASE Named(r) # {}
      <4> DEFINE k == CHOOSE j \in Held(record') : record'[j].request = r
      <4>1. k \in Named(r)
        BY <3>2 DEF Held
      <4>2. index'[r] = k
        BY <2>3, <3>2
      <4> QED
        BY <4>1, <4>2, <2>2
    <3> QED
      BY <3>1, <3>2
  <2> QED
    BY <2>4 DEF OneOperationPerRequest
<1> QED
  BY <1>1, <1>3, <1>4, <1>6, <1>7, <1>8, <1>9, <1>10, <1>11, <1>12
     DEF Next, Handler, Lookup, Admit, StartKnown, StartAtCapacity, Apply, Crash, CrashInStart,
         Die, Restart, Load, LoadManifest, LoadFails, vars

\* Across evictions, failed starts, failed unlinks, crashes and restarts the
\* idempotency map finds the operation of a request exactly when the process
\* holds one, for any retention: a repeated request can never start twice.
THEOREM KeysFindOperations == Spec => []OneOperationPerRequest
<1>1. Init => OneOperationPerRequest
  BY NullAssumption DEF Init, OneOperationPerRequest, NoRecords, NoIndex, Id
<1>2. OpInv /\ OneOperationPerRequest /\ [Next]_vars => OneOperationPerRequest'
  BY KeyStep DEF OpInv
<1> QED
  BY <1>1, <1>2, Inductive, PTL DEF Spec

-----------------------------------------------------------------------------
(* Retention.                                                              *)

\* A set of operations has one that finished first.
LEMMA Earliest ==
  ASSUME NEW S \in SUBSET Id, S # {}, NEW f, \A i \in S : f[i] \in Int
  PROVE  \E b \in S : \A j \in S : ~(f[j] < f[b])
<1> DEFINE before(i) == {j \in S : f[j] < f[i]}
           T == {before(i) : i \in S}
<1>1. IsWellFoundedOn(StrictSubsetOrdering(S), SUBSET S)
  BY IdsFinite, FS_FiniteSubsetsOfFinite, FS_StrictSubsetOrderingWellFounded
<1>2. T \subseteq SUBSET S /\ T # {}
  OBVIOUS
<1>3. PICK x \in T : \A y \in T : ~(<<y, x>> \in StrictSubsetOrdering(S))
  BY <1>1, <1>2, WFMin
<1>4. PICK b \in S : x = before(b)
  BY <1>3
<1>5. ASSUME NEW j \in S, f[j] < f[b]
      PROVE  FALSE
  <2>1. before(j) \subseteq before(b) /\ j \in before(b) /\ j \notin before(j)
    BY <1>5
  <2>2. <<before(j), before(b)>> \in StrictSubsetOrdering(S)
    BY <2>1 DEF StrictSubsetOrdering
  <2> QED
    BY <1>3, <1>4, <2>2
<1> QED
  BY <1>5

\* An eviction leaves room for one operation, if enough have finished: of the
\* finished ones it keeps, the first has enough before it, all of them gone.
LEMMA MakesRoom ==
  ASSUME NEW store, Stored(store),
         Cardinality(Held(store)) - MaxOperations + 1 <= Cardinality(Completed(store))
  PROVE  Cardinality(Held(Without(store, Evicted(store)))) < MaxOperations
<1> DEFINE H == Held(store)
           C == Completed(store)
           E == Evicted(store)
           needed == Cardinality(H) - MaxOperations + 1
           f == [i \in Id |-> store[i].finishedAt]
<1>1. E \subseteq C /\ C \subseteq H /\ H \subseteq Id
  BY DEF Evicted, Completed, Held
<1>2. /\ IsFiniteSet(E) /\ IsFiniteSet(C) /\ IsFiniteSet(H)
      /\ Cardinality(E) \in Nat /\ Cardinality(C) \in Nat /\ Cardinality(H) \in Nat
  <2>1. E \subseteq Id /\ C \subseteq Id
    BY <1>1
  <2> QED
    BY <1>1, <2>1, IdsFinite
<1>3. \A i \in C : f[i] \in Int
  BY <1>1 DEF Stored, Held, Snapshot
<1>4. needed <= Cardinality(E)
  <2>1. CASE C \ E = {}
    <3>1. C = E
      BY <1>1, <2>1
    <3> QED
      BY <3>1
  <2>2. CASE C \ E # {}
    <3>1. PICK b \in C \ E : \A j \in C \ E : ~(f[j] < f[b])
      <4>1. C \ E \in SUBSET Id /\ \A i \in C \ E : f[i] \in Int
        BY <1>1, <1>3
      <4> QED
        BY <2>2, <4>1, Earliest
    <3> DEFINE L == {j \in C : store[j].finishedAt < store[b].finishedAt}
    <3>2. ~(Cardinality(L) < needed)
      BY <3>1 DEF Evicted
    <3>3. L \subseteq E
      BY <1>1, <3>1
    <3>4. Cardinality(L) <= Cardinality(E) /\ Cardinality(L) \in Nat
      BY <1>2, <3>3, FS_Subset, FS_CardinalityType
    <3> QED
      BY <1>2, <3>2, <3>4, BoundAssumption
  <2> QED
    BY <2>1, <2>2
<1>5. Held(Without(store, E)) = H \ E
  BY <1>1 DEF Held, Without
<1>6. Cardinality(H \ E) = Cardinality(H) - Cardinality(E)
  <2>1. H \cap E = E
    BY <1>1
  <2> QED
    BY <1>2, <2>1, FS_Difference
<1> QED
  BY <1>2, <1>4, <1>5, <1>6, BoundAssumption

LEMMA RoomStep ==
  ASSUME TypeOK, ProcessInv, TaskInv, RetentionHolds, [Next]_vars
  PROVE  RetentionHolds'
<1>0. /\ Stored(record) /\ Stored(disk)
      /\ created \in 0..MaxId /\ clock + 1 \in Nat
      /\ Cardinality(Held(record)) \in Nat
  <2>1. Held(record) \subseteq Id
    BY DEF Held
  <2> QED
    BY <2>1, IdsFinite DEF TypeOK, Stored
<1> USE <1>0 DEF memory, bounds
<1>1. ASSUME Held(record') \subseteq Held(record)
      PROVE  RetentionHolds'
  <2>1. Held(record) \subseteq Id /\ Held(record)' = Held(record')
    BY DEF Held
  <2>2. Cardinality(Held(record')) <= Cardinality(Held(record))
        /\ Cardinality(Held(record')) \in Nat
    BY <1>1, <2>1, IdsFinite, FS_Subset, FS_CardinalityType
  <2> QED
    BY <2>1, <2>2, BoundAssumption DEF RetentionHolds
<1>2. ASSUME NEW c \in Client, MayStart(c)
      PROVE  Cardinality(Held(Without(record, Evicted(record)))) < MaxOperations
  <2>1. Completed(record) \subseteq Id
    BY DEF Completed, Held
  <2>2. /\ IsFiniteSet(Completed(record)) /\ Cardinality(Completed(record)) \in Nat
        /\ Completed(record) # {} => Cardinality(Completed(record)) # 0
    BY <2>1, IdsFinite, FS_EmptySet
  <2>3. Cardinality(Held(record)) - MaxOperations + 1 <= Cardinality(Completed(record))
    BY <1>2, <2>2, BoundAssumption DEF MayStart, HasRoom, RetentionHolds
  <2> QED
    BY <2>3, MakesRoom
<1>3. ASSUME NEW c \in Client, Start(c)
      PROVE  RetentionHolds'
  <2> DEFINE kept == Held(Without(record, Evicted(record)))
  <2>1. created' \in Id
    BY <1>3, BoundAssumption DEF Start, Id
  <2>2. Held(record') \subseteq kept \cup {created'}
    BY <1>3, <2>1 DEF Start, Held, Without
  <2>3. kept \in SUBSET Id
    BY DEF Held
  <2>4. IsFiniteSet(kept) /\ Cardinality(kept) \in Nat
    BY <2>3, IdsFinite
  <2>5. /\ IsFiniteSet(kept \cup {created'})
        /\ Cardinality(kept \cup {created'}) <= Cardinality(kept) + 1
        /\ Cardinality(kept \cup {created'}) \in Nat
    <3> HIDE DEF kept
    <3>1. /\ IsFiniteSet(kept \cup {created'})
          /\ Cardinality(kept \cup {created'})
               = IF created' \in kept THEN Cardinality(kept) ELSE Cardinality(kept) + 1
      BY <2>4, FS_AddElement
    <3> QED
      BY <2>4, <3>1
  <2>6. Cardinality(Held(record')) <= Cardinality(kept \cup {created'})
        /\ Cardinality(Held(record')) \in Nat
    BY <2>2, <2>5, FS_Subset, FS_CardinalityType
  <2>7. Cardinality(kept) < MaxOperations
    BY <1>2, <1>3 DEF Start
  <2>8. Held(record)' = Held(record')
    BY DEF Held
  <2> QED
    BY <2>4, <2>5, <2>6, <2>7, <2>8, BoundAssumption DEF RetentionHolds
<1>4. ASSUME NEW c \in Client, StartFails(c) \/ EvictionFails(c)
      PROVE  RetentionHolds'
  <2>1. record' = Without(record, Evicted(record))
    BY <1>4 DEF StartFails, EvictionFails
  <2>2. Held(record') \subseteq Held(record)
    BY <2>1 DEF Held, Without
  <2> QED
    BY <1>1, <2>2
<1>5. ASSUME NEW i \in Id, NEW s, record[i] # NoSnapshot, record' = [record EXCEPT ![i] = s]
      PROVE  RetentionHolds'
  <2>1. Held(record') \subseteq Held(record)
    BY <1>5 DEF Held, Stored
  <2> QED
    BY <1>1, <2>1
<1>6. ASSUME UNCHANGED record
      PROVE  RetentionHolds'
  BY <1>1, <1>6
<1>7. ASSUME NEW i \in Id, Execute(i) \/ Mark(i) \/ MarkFails(i) \/ TaskEnds(i) \/ Cancel(i)
      PROVE  RetentionHolds'
  <2>1. record[i] # NoSnapshot
    BY <1>7 DEF Execute, Mark, MarkFails, AtBoundary, TaskEnds, Return, Throw, MayReturn,
                MayThrow, TaskInv, AtWork, Cancel, Active, Held
  <2>2. UNCHANGED record \/ \E s : record' = [record EXCEPT ![i] = s]
    BY <1>7 DEF Execute, Mark, MarkFails, TaskEnds, Return, Throw, End, Cancel, Publish
  <2> QED
    BY <1>5, <1>6, <2>1, <2>2
<1>8. CASE Shutdown
  <2>1. Held(record') \subseteq Held(record)
    BY <1>8 DEF Shutdown, Held, Active
  <2> QED
    BY <1>1, <2>1
<1>9. CASE record' = NoRecords
  <2>1. Held(record') \subseteq Held(record)
    BY <1>9 DEF Held, NoRecords
  <2> QED
    BY <1>1, <2>1
<1>10. CASE Loaded
  <2>1. Completed(disk) = Held(disk)
    BY <1>10 DEF Loaded, AllLoaded, Completed
  <2>2. Held(disk) \subseteq Id
    BY DEF Held
  <2>3. Cardinality(Held(disk)) \in Nat
    BY <2>2, IdsFinite
  <2>4. Held(record)' = Held(record')
    BY DEF Held
  <2>5. CASE Cardinality(Held(disk)) > MaxOperations
    <3>1. record' = Without(disk, Evicted(disk))
      BY <1>10, <2>5 DEF Loaded
    <3>2. Cardinality(Held(record')) < MaxOperations
      BY <2>1, <2>3, <3>1, MakesRoom, BoundAssumption
    <3>3. Held(record') \subseteq Id
      BY DEF Held
    <3>4. Cardinality(Held(record')) \in Nat
      BY <3>3, IdsFinite
    <3> QED
      BY <2>4, <3>2, <3>4, BoundAssumption DEF RetentionHolds
  <2>6. CASE ~(Cardinality(Held(disk)) > MaxOperations)
    <3>1. record' = Without(disk, {})
      BY <1>10, <2>6 DEF Loaded
    <3>2. Held(record') = Held(disk)
      BY <3>1 DEF Held, Without
    <3> QED
      BY <2>3, <2>4, <2>6, <3>2, BoundAssumption DEF RetentionHolds
  <2> QED
    BY <2>5, <2>6
<1> QED
  BY <1>3, <1>4, <1>6, <1>7, <1>8, <1>9, <1>10
     DEF Next, Handler, Lookup, Admit, StartKnown, StartAtCapacity, Apply, Crash, CrashInStart,
         Die, Restart, Load, LoadManifest, LoadFails, vars

\* The process never holds more operations than the retention, whatever its
\* size, also when it starts from a disk with files it could not remove: one
\* eviction, of those that finished first, always makes room.
THEOREM RetentionAlwaysHolds == Spec => []RetentionHolds
<1>1. Init => RetentionHolds
  <2>1. ASSUME Init
        PROVE  Held(record) = {}
    BY <2>1 DEF Init, Held, NoRecords
  <2> QED
    BY <2>1, FS_EmptySet, BoundAssumption DEF RetentionHolds
<1>2. OpInv /\ RetentionHolds /\ [Next]_vars => RetentionHolds'
  BY RoomStep DEF OpInv
<1> QED
  BY <1>1, <1>2, Inductive, PTL DEF Spec

-----------------------------------------------------------------------------
(* The manager implements OperationLifecycle.                              *)

\* What a step may do to the manifest of an operation.
ManifestMoves(i) ==
  \/ disk'[i] = disk[i] /\ (i > created <=> i > created')
  \/ disk[i] = NoSnapshot /\ i > created /\ disk'[i] # NoSnapshot /\ ~isTerminal(disk'[i])
  \/ /\ disk[i] # NoSnapshot /\ ~isTerminal(disk[i]) /\ disk'[i] # NoSnapshot
     /\ isTerminal(disk'[i]) /\ ~disk'[i].crossed => i \notin effect
  \/ /\ disk[i] # NoSnapshot /\ isTerminal(disk[i]) /\ disk'[i] = NoSnapshot
     /\ ~(i > created')

LEMMA ManifestStep ==
  ASSUME OpInv, LateMark = {}, [Next]_vars
  PROVE  \/ effect' = effect /\ \A i \in Id : ManifestMoves(i)
         \/ \E i \in Id : Apply(i)
<1>0. /\ Stored(record) /\ Stored(disk) /\ created \in 0..MaxId
      /\ ProcessInv /\ TaskInv /\ MirrorInv /\ BoundaryInv
      /\ \A i \in Id : record[i] # NoSnapshot => record[i] \in Snapshot
      /\ \A i \in Id : disk[i] # NoSnapshot => disk[i] \in Snapshot
  BY DEF OpInv, TypeOK, Stored
<1>r. \A i \in Id : disk[i] # NoSnapshot => ~(i > created)
  BY <1>0 DEF ProcessInv
<1>u. \A i \in Id : disk[i] # NoSnapshot /\ ~disk[i].crossed => i \notin effect
  BY <1>0 DEF BoundaryInv, Snapshot
<1> USE <1>0, <1>r, <1>u DEF memory, bounds
<1> DEFINE Goal == effect' = effect /\ \A i \in Id : ManifestMoves(i)
<1>1. ASSUME UNCHANGED <<disk, effect, created>>
      PROVE  Goal
  BY <1>1 DEF ManifestMoves
<1>2. ASSUME NEW ids, \A i \in ids : i \in Id /\ disk[i] # NoSnapshot => isTerminal(disk[i]),
             disk' = RemovePersisted(disk, ids), UNCHANGED <<effect, created>>
      PROVE  Goal
  <2> SUFFICES ASSUME NEW i \in Id
               PROVE  ManifestMoves(i)
    BY <1>2
  <2>1. disk'[i] = IF i \in ids THEN NoSnapshot ELSE disk[i]
    BY <1>2 DEF RemovePersisted, Without
  <2> QED
    BY <1>2, <2>1 DEF ManifestMoves
<1>3. ASSUME Running
      PROVE  \A i \in Evicted(record) : disk[i] # NoSnapshot => isTerminal(disk[i])
  BY <1>3, EvictedCompleted DEF MirrorInv, SameButBoundary, isTerminal
<1>4. ASSUME NEW c \in Client, MayStart(c)
      PROVE  Running
  BY <1>4 DEF MayStart, ProcessInv, Idle, Running
<1>5. ASSUME NEW c \in Client, Start(c)
      PROVE  Goal
  <2>1. created' \in Id /\ created' = created + 1
    BY <1>5, BoundAssumption DEF Start, Id
  <2>2. \A i \in Id \ {created'} : disk'[i] = IF i \in Evicted(record) THEN NoSnapshot ELSE disk[i]
    BY <1>5, <2>1 DEF Start, Without, RemovePersisted
  <2>3. disk'[created'] # NoSnapshot /\ ~isTerminal(disk'[created'])
    <3>1. Queued(client[c].request) \in Snapshot
      BY <1>5 DEF Start, MayStart, ProcessInv, Idle, Queued, Snapshot
    <3>2. ~isTerminal(Queued(client[c].request))
      BY DEF Queued, isTerminal, Terminal
    <3>3. disk'[created'] = Queued(client[c].request)
      BY <1>5, <2>1 DEF Start, Without, RemovePersisted
    <3> QED
      BY <3>1, <3>2, <3>3, SnapshotFields
  <2>4. disk[created'] = NoSnapshot /\ created' > created
    BY <2>1 DEF ProcessInv
  <2>5. \A i \in Evicted(record) : disk[i] # NoSnapshot => isTerminal(disk[i])
    BY <1>3, <1>4, <1>5 DEF Start
  <2>6. ASSUME NEW i \in Id \ {created'}
        PROVE  ManifestMoves(i)
    <3>1. i \in Int /\ (i > created <=> i > created')
      BY <2>1 DEF Id
    <3>2. CASE disk'[i] = disk[i]
      BY <3>1, <3>2 DEF ManifestMoves
    <3>3. CASE disk'[i] # disk[i]
      BY <2>2, <2>5, <3>1, <3>3 DEF ManifestMoves
    <3> QED
      BY <3>2, <3>3
  <2>7. ManifestMoves(created')
    BY <2>3, <2>4 DEF ManifestMoves
  <2> QED
    BY <1>5, <2>6, <2>7 DEF Start
<1>6. ASSUME NEW c \in Client, StartFails(c) \/ EvictionFails(c)
      PROVE  Goal
  <2>1. Running
    BY <1>4, <1>6 DEF StartFails, EvictionFails
  <2> QED
    BY <1>1, <1>2, <1>3, <1>6, <2>1 DEF StartFails, EvictionFails
<1>7. ASSUME NEW i \in Id, NEW s \in Snapshot, Publish(i, s), Running,
             record[i] # NoSnapshot, ~isTerminal(record[i]), record[i].crossed => s.crossed,
             UNCHANGED <<effect, created>>
      PROVE  Goal
  <2>1. /\ disk[i] # NoSnapshot /\ ~isTerminal(disk[i])
        /\ disk[i].crossed => s.crossed
    BY <1>7 DEF MirrorInv, SameButBoundary, isTerminal
  <2>2. disk'[i] = s /\ s # NoSnapshot /\ \A j \in Id \ {i} : disk'[j] = disk[j]
    BY <1>7, SnapshotFields DEF Publish, Stored
  <2>3. ManifestMoves(i)
    BY <2>1, <2>2 DEF ManifestMoves
  <2>4. \A j \in Id \ {i} : ManifestMoves(j)
    BY <1>7, <2>2 DEF ManifestMoves
  <2> QED
    BY <1>7, <2>3, <2>4
<1>8. ASSUME NEW i \in Id, Execute(i) \/ Mark(i) \/ TaskEnds(i)
      PROVE  Goal
  <2>1. record[i] # NoSnapshot /\ record[i] \in Snapshot /\ Running /\ UNCHANGED <<effect, created>>
    BY <1>8 DEF Execute, Mark, AtBoundary, TaskEnds, Return, Throw, End, MayReturn, MayThrow,
       TaskInv, AtWork
  <2>2. CASE isTerminal(record[i])
    BY <1>1, <1>8, <2>1, <2>2 DEF Execute, Mark, TaskEnds, Return, Throw, End
  <2>3. CASE ~isTerminal(record[i])
    <3>1. \E s \in Snapshot : Publish(i, s) /\ (record[i].crossed => s.crossed)
      <4>1. CASE Execute(i)
        <5>1. /\ [record[i] EXCEPT !.status = "running"] \in Snapshot
              /\ [record[i] EXCEPT !.status = "running"].crossed = record[i].crossed
          BY <2>1, RunningTyped, ChangedFields
        <5> QED
          BY <2>3, <4>1, <5>1 DEF Execute
      <4>2. CASE Mark(i)
        <5>1. Crossed(i) \in Snapshot /\ Crossed(i).crossed
          BY <2>1, Changed, ChangedFields DEF Crossed
        <5> QED
          BY <2>3, <4>2, <5>1 DEF Mark
      <4>3. CASE TaskEnds(i)
        <5>1. \A v \in {"succeeded", "failed"} : Outcome(i, v) \in Terminal
          BY DEF Outcome, Terminal
        <5>2. \A v \in {"succeeded", "failed"} :
                LET s == Finished(record[i], Outcome(i, v))
                IN  s \in Snapshot /\ s.crossed = record[i].crossed
          BY <2>1, <5>1, FinishedTyped DEF OpInv, TypeOK
        <5>3. \E v \in {"succeeded", "failed"} : Publish(i, Finished(record[i], Outcome(i, v)))
          BY <2>3, <4>3 DEF TaskEnds, Return, Throw, End
        <5> QED
          BY <5>2, <5>3
      <4> QED
        BY <1>8, <4>1, <4>2, <4>3
    <3> QED
      BY <1>7, <2>1, <2>3, <3>1
  <2> QED
    BY <2>2, <2>3
<1>9. ASSUME NEW i \in Id, Cancel(i)
      PROVE  Goal
  <2>1. record[i] \in Snapshot /\ record[i] # NoSnapshot /\ ~isTerminal(record[i])
    BY <1>9 DEF Cancel, Active, Held
  <2> QED
    BY <1>7, <1>9, <2>1 DEF Cancel, Running
<1>10. CASE Shutdown
  <2>1. \A i \in Active : /\ disk[i] # NoSnapshot /\ ~isTerminal(disk[i])
                          /\ Closed(i) # NoSnapshot
                          /\ disk[i].crossed => Closed(i).crossed
    <3>1. \A i \in Active : Closed(i) # NoSnapshot /\ Closed(i).crossed = record[i].crossed
      BY ClosedTyped, SnapshotFields DEF OpInv
    <3> QED
      BY <1>10, <3>1
         DEF Shutdown, MirrorInv, SameButBoundary, Active, Held, Running, isTerminal
  <2>2. \A i \in Id : disk'[i] = IF i \in Active THEN Closed(i) ELSE disk[i]
    BY <1>10 DEF Shutdown
  <2>3. UNCHANGED <<effect, created>>
    BY <1>10 DEF Shutdown
  <2>4. ASSUME NEW i \in Id
        PROVE  ManifestMoves(i)
    <3>1. CASE i \in Active
      BY <2>1, <2>2, <3>1 DEF ManifestMoves
    <3>2. CASE i \notin Active
      BY <2>2, <2>3, <3>2 DEF ManifestMoves
    <3> QED
      BY <3>1, <3>2
  <2> QED
    BY <2>3, <2>4
<1>11. ASSUME Crash \/ \E c \in Client : CrashInStart(c)
       PROVE  Goal
  BY <1>1, <1>2, <1>3, <1>4, <1>11 DEF Crash, CrashInStart, Die
<1>12. ASSUME NEW i \in Id, LoadManifest(i)
       PROVE  Goal
  <2>1. disk[i] \in Snapshot /\ disk[i] # NoSnapshot /\ ~isTerminal(disk[i])
    BY <1>12 DEF LoadManifest, Held
  <2>2. Interrupted(disk[i]) \in Snapshot /\ Interrupted(disk[i]).crossed = disk[i].crossed
    BY <2>1, FinishedTyped DEF Interrupted, OpInv, TypeOK, Terminal
  <2>3. \A j \in Id : disk'[j] = IF j = i THEN Interrupted(disk[i]) ELSE disk[j]
    BY <1>12 DEF LoadManifest, Stored
  <2>4. ManifestMoves(i)
    BY <2>1, <2>2, <2>3, SnapshotFields DEF ManifestMoves
  <2>5. \A j \in Id \ {i} : ManifestMoves(j)
    BY <1>12, <2>3 DEF ManifestMoves, LoadManifest
  <2> QED
    BY <1>12, <2>4, <2>5 DEF LoadManifest
<1>13. CASE Loaded
  <2>1. \A i \in Id : disk[i] # NoSnapshot => isTerminal(disk[i])
    BY <1>13 DEF Loaded, AllLoaded, Held
  <2>2. PICK ids : disk' = Without(disk, ids)
    BY <1>13 DEF Loaded
  <2>3. UNCHANGED <<effect, created>>
    BY <1>13 DEF Loaded
  <2>4. ASSUME NEW i \in Id
        PROVE  ManifestMoves(i)
    <3>1. disk'[i] = IF i \in ids THEN NoSnapshot ELSE disk[i]
      BY <2>2 DEF Without
    <3> QED
      BY <2>1, <2>3, <3>1 DEF ManifestMoves
  <2> QED
    BY <2>3, <2>4
<1> QED
  BY <1>1, <1>5, <1>6, <1>8, <1>9, <1>10, <1>11, <1>12, <1>13
     DEF Next, Handler, Lookup, Admit, StartKnown, StartAtCapacity, MarkFails, Restart, Load,
         LoadFails, vars

LEMMA VerdictTyped ==
  \A i : Verdict(i) \in {"absent", "pending", "maybe", "unchanged", "dropped"}
BY DEF Verdict

\* How the manifests move is how the verdicts advance.
LEMMA VerdictAdvances ==
  ASSUME OpInv, NEW i \in Id, ManifestMoves(i), effect' = effect
  PROVE  \/ Verdict(i)' = Verdict(i)
         \/ Verdict(i) = "absent" /\ Verdict(i)' = "pending"
         \/ Verdict(i) = "pending" /\ Verdict(i)' = "maybe"
         \/ Verdict(i) = "pending" /\ Verdict(i)' = "unchanged" /\ i \notin effect
         \/ Verdict(i) \in {"maybe", "unchanged"} /\ Verdict(i)' = "dropped"
<1>1. Verdict(i)' = IF disk'[i] = NoSnapshot THEN IF i > created' THEN "absent" ELSE "dropped"
                    ELSE IF ~isTerminal(disk'[i]) THEN "pending"
                    ELSE IF disk'[i].crossed THEN "maybe" ELSE "unchanged"
  BY DEF Verdict, isTerminal
<1> QED
  BY <1>1 DEF ManifestMoves, Verdict

\* A world changes only while its operation is pending, or past its boundary.
LEMMA ApplyIsAllowed ==
  ASSUME OpInv, LateMark = {}, NEW i \in Id, Apply(i)
  PROVE  /\ Verdict(i) \in {"pending", "maybe"}
         /\ effect' = effect \cup {i} /\ UNCHANGED <<disk, created>>
<1>1. record[i] # NoSnapshot /\ task[i] = "marked" /\ Running
  BY DEF Apply, AtWork, OpInv, TaskInv, Late
<1>2. disk[i] # NoSnapshot /\ disk[i].crossed
  BY <1>1 DEF OpInv, MirrorInv, BoundaryInv
<1> QED
  BY <1>2 DEF Apply, Verdict, bounds

LEMMA LifecycleStep ==
  ASSUME OpInv, LateMark = {}, [Next]_vars
  PROVE  [Lifecycle!LNext]_<<[i \in Id |-> Verdict(i)], effect>>
<1> DEFINE verdict == [i \in Id |-> Verdict(i)]
<1>1. CASE effect' = effect /\ \A i \in Id : ManifestMoves(i)
  <2>1. verdict' \in [Id -> {"absent", "pending", "maybe", "unchanged", "dropped"}]
    <3>1. \A i \in Id : Verdict(i)' \in {"absent", "pending", "maybe", "unchanged", "dropped"}
      BY DEF Verdict
    <3> QED
      BY <3>1
  <2>2. \A i \in Id : verdict[i] = Verdict(i) /\ verdict'[i] = Verdict(i)'
    OBVIOUS
  <2>3. \A i \in Id : Lifecycle!Advances(i)
    BY <1>1, <2>2, VerdictAdvances DEF Lifecycle!Advances
  <2> QED
    BY <1>1, <2>1, <2>3 DEF Lifecycle!LNext, Lifecycle!Advance
<1>2. ASSUME NEW i \in Id, Apply(i)
      PROVE  Lifecycle!LNext
  <2>1. /\ Verdict(i) \in {"pending", "maybe"}
        /\ effect' = effect \cup {i} /\ UNCHANGED <<disk, created>>
    BY <1>2, ApplyIsAllowed
  <2>2. verdict' = verdict /\ verdict[i] = Verdict(i)
    BY <2>1 DEF Verdict, isTerminal
  <2>3. Lifecycle!Change(i)
    BY <2>1, <2>2 DEF Lifecycle!Change
  <2> QED
    BY <2>3 DEF Lifecycle!LNext
<1> QED
  BY <1>1, <1>2, ManifestStep

\* The web host keeps what OperationLifecycle promises of its moves (LateMark
\* empty): an operation is accepted once, changes the world only while its
\* verdict leaves that open, and "unchanged" is true for ever, through
\* cancellation, shutdown, crashes and restarts.
THEOREM KeepsLifecycle == ASSUME LateMark = {} PROVE Spec => LifecycleSpec
<1>1. Init => Lifecycle!LInit
  BY DEF Init, Lifecycle!LInit, Verdict, NoRecords, Id
<1>2. OpInv /\ [Next]_vars => [Lifecycle!LNext]_<<[i \in Id |-> Verdict(i)], effect>>
  BY LifecycleStep
<1> QED
  BY <1>1, <1>2, Inductive, PTL DEF Spec, LifecycleSpec, Lifecycle!LSpec, Lifecycle!lifecycle
=============================================================================
