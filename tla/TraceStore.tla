----------------------------- MODULE TraceStore -----------------------------
(***************************************************************************)
(* The observability store (trace/store.ts): for every run an append-only  *)
(* log of events, a manifest that summarises the log, and one index of all *)
(* runs.  The three are separate files, written one after the other; each  *)
(* write of one of them is a step here, and a process may die between any  *)
(* two of them.  initialize() repairs what it finds when a process starts. *)
(*                                                                         *)
(* A store is a TraceStore object of one process.  Its operations queue up *)
(* (exclusive), so a store has one job at a time; the stores of different  *)
(* processes share the files and nothing else.  Who asks for the jobs is   *)
(* MoveTrace's subject.  A line of the log is appended whole.              *)
(***************************************************************************)
EXTENDS Integers, Sequences, FiniteSets

CONSTANTS
  Store,       \* TraceStore objects, each of a process of its own
  Run,
  NoRun,
  NoManifest,
  NoLog,
  MaxDeaths    \* bound: how often a process dies

ASSUME TraceAssumption ==
  /\ NoRun \notin Run
  /\ MaxDeaths \in Nat

Ends == {"succeeded", "failed", "cancelled", "interrupted"}
Statuses == {"running"} \cup Ends
\* The events whose order matters; the others (stages, model calls, tools) are
\* ordinary lines like run.started.
Marks == {"started", "commit-started", "commit-completed", "commit-failed"}
\* What a recovery diagnostic says of the world.
Verdicts == {"committed", "rejected", "not-observed", "unknown"}
\* The error an event carries: HOST_RESTART_INTERRUPTED_RUN or anything else.
Errors == {"none", "host-restart"}

\* kind is the type of the event; a diagnostic's type is its verdict.
Events == [seq : Nat, kind : Marks \cup Ends \cup Verdicts, error : Errors]
Manifests == [status : Statuses, lastSeq : Nat, error : Errors]

ASSUME AbsenceAssumption == NoManifest \notin Manifests /\ NoLog \notin Seq(Events)

VARIABLES
  directory,  \* runs whose directory exists
  manifest,   \* manifest.json of each run
  log,        \* events.jsonl of each run
  index,      \* runs.json: the status it shows of each run, or "absent"
  store,      \* "down", "fresh" (nothing initialised), "loading" or "up"
  job,        \* the operation a store is doing
  deaths

files == <<directory, manifest, log, index>>
traceVars == <<directory, manifest, log, index, store, job, deaths>>

\* A job works on one run with the manifest it has in memory (held);
\* initialize() has the runs it has still to visit (todo) and the index it read
\* (shown).
Absent == [r \in Run |-> "absent"]
Idle == [op |-> "idle", run |-> NoRun, held |-> NoManifest,
         todo |-> {}, shown |-> Absent]

NewManifest == [status |-> "running", lastSeq |-> 0, error |-> "none"]

TraceInit ==
  /\ directory = {}
  /\ manifest = [r \in Run |-> NoManifest]
  /\ log = [r \in Run |-> NoLog]
  /\ index = Absent
  /\ store = [s \in Store |-> "fresh"]
  /\ job = [s \in Store |-> Idle]
  /\ deaths = 0

At(s, op) == job[s].op = op
Become(s, j) == job' = [job EXCEPT ![s] = j]
Known(r) == index[r] # "absent"

-----------------------------------------------------------------------------
(* The log and what it says.                                               *)

\* terminalStatusForEvent and the checks of readEventsAt: the numbers of the
\* lines are contiguous, one event at most ends the run, and after it only
\* diagnostics of a run that ended as interrupted are allowed.
EndsOf(l) == {i \in DOMAIN l : l[i].kind \in Ends}
Readable(l) ==
  /\ \A i \in DOMAIN l : l[i].seq = i
  /\ \A i \in EndsOf(l), k \in DOMAIN l :
       k > i => l[k].kind \in Verdicts /\ l[i].kind = "interrupted"
  /\ \A k \in DOMAIN l :
       l[k].kind \in Verdicts => \E i \in EndsOf(l) : i < k

\* Mutant: the status is reset for the replay and no line sets it again.
ReplayedOpen(l) == [status |-> "running", lastSeq |-> Len(l), error |-> "none"]

\* replayEvents: what the lines of a log make of a new manifest.
Ending(l) == IF EndsOf(l) = {} THEN "running" ELSE l[CHOOSE i \in EndsOf(l) : TRUE].kind
Replayed(l) ==
  [status |-> Ending(l), lastSeq |-> Len(l),
   error |-> IF \E i \in EndsOf(l) : l[i].error = "host-restart"
               THEN "host-restart" ELSE "none"]

\* applyEventToManifest.
Applied(m, e) ==
  [m EXCEPT !.lastSeq = e.seq,
            !.status = IF e.kind \in Ends THEN e.kind ELSE @,
            !.error = IF e.kind \in Ends THEN e.error ELSE @]

-----------------------------------------------------------------------------
(* createRun, after initialize(): directory, manifest, empty log, index.   *)

CreateDirectory(s, r) ==
  /\ store[s] = "up" /\ At(s, "idle") /\ r \notin directory
  /\ directory' = directory \cup {r}
  /\ Become(s, [Idle EXCEPT !.op = "create-manifest", !.run = r])
  /\ UNCHANGED <<manifest, log, index, store, deaths>>

CreateManifest(s) ==
  /\ At(s, "create-manifest")
  /\ manifest' = [manifest EXCEPT ![job[s].run] = NewManifest]
  /\ Become(s, [job[s] EXCEPT !.op = "create-log", !.held = NewManifest])
  /\ UNCHANGED <<directory, log, index, store, deaths>>

CreateLog(s) ==
  /\ At(s, "create-log")
  /\ log' = [log EXCEPT ![job[s].run] = <<>>]
  /\ Become(s, [job[s] EXCEPT !.op = "write-index"])
  /\ UNCHANGED <<directory, manifest, index, store, deaths>>

\* updateIndexEntry, and the end of createRun.  The index is read and written
\* back whole; the operation ends here.  Another process could write between
\* the read and the write and lose its entry: that is left out.
WriteIndex(s) ==
  /\ At(s, "write-index")
  /\ index' = [index EXCEPT ![job[s].run] = job[s].held.status]
  /\ Become(s, Idle)
  /\ UNCHANGED <<directory, manifest, log, store, deaths>>

-----------------------------------------------------------------------------
(* appendEvent, finishRun, updateRun and appendRecoveryDiagnostic.         *)

\* The line is appended first; manifest and index follow.
Line(r, m, kind, error) == [seq |-> m.lastSeq + 1, kind |-> kind, error |-> error]
AppendLine(s, r, kind) ==
  LET e == Line(r, manifest[r], kind, "none") IN
  /\ log' = [log EXCEPT ![r] = Append(@, e)]
  /\ Become(s, [Idle EXCEPT !.op = "write-manifest", !.run = r,
                            !.held = Applied(manifest[r], e)])
  /\ UNCHANGED <<directory, manifest, index, store, deaths>>

\* appendEvent refuses a run that the manifest says has ended.
AppendEvent(s, r, kind) ==
  /\ store[s] = "up" /\ At(s, "idle")
  /\ Known(r) /\ manifest[r].status = "running"
  /\ AppendLine(s, r, kind)

\* updateRun, and finishRun of a run that has the wanted status already, as
\* TraceRecorder.finish calls it after the event: the links change, which are
\* no part of this manifest, and both files are written again.
Rewrite(s, r) ==
  /\ store[s] = "up" /\ At(s, "idle")
  /\ Known(r)
  /\ Become(s, [Idle EXCEPT !.op = "write-manifest", !.run = r, !.held = manifest[r]])
  /\ UNCHANGED <<files, store, deaths>>

\* The diagnostic is for interrupted runs, and one of each code is enough.
AppendDiagnostic(s, r, verdict) ==
  /\ store[s] = "up" /\ At(s, "idle")
  /\ Known(r) /\ manifest[r].status = "interrupted"
  /\ ~\E i \in DOMAIN log[r] : log[r][i].kind = verdict
  /\ AppendLine(s, r, verdict)

WriteManifest(s) ==
  /\ At(s, "write-manifest")
  /\ manifest' = [manifest EXCEPT ![job[s].run] = job[s].held]
  /\ Become(s, [job[s] EXCEPT !.op = "write-index"])
  /\ UNCHANGED <<directory, log, index, store, deaths>>

-----------------------------------------------------------------------------
(* initialize: the first operation of every store.                         *)

LoadIndex(s) ==
  /\ store[s] = "fresh"
  /\ store' = [store EXCEPT ![s] = "loading"]
  /\ Become(s, [Idle EXCEPT !.op = "visit", !.shown = index,
                            !.todo = {r \in Run : Known(r)}])
  /\ UNCHANGED <<files, deaths>>

\* Mutant: the manifest is believed and not compared with the log.
Unreplayed(r) == manifest[r]

\* The manifest a visit of run r starts from: what the log says.
Reconciled(r) == Replayed(log[r])

\* A run that its log leaves running is ended: its process is taken for dead.
Interrupt(s, r) ==
  LET m == Reconciled(r)
      e == Line(r, m, "interrupted", "host-restart")
  IN
  /\ m.status = "running"
  /\ log' = [log EXCEPT ![r] = Append(@, e)]
  /\ Become(s, [job[s] EXCEPT !.op = "repair", !.run = r, !.held = Applied(m, e)])
  /\ UNCHANGED <<directory, manifest, index, store, deaths>>

Reconcile(s, r) ==
  /\ Reconciled(r).status # "running"
  /\ Become(s, [job[s] EXCEPT !.op = "repair", !.run = r, !.held = Reconciled(r)])
  /\ UNCHANGED <<files, store, deaths>>

\* readEventsAt throws, and with it initialize, unless the log is in order.
Visit(s) ==
  /\ At(s, "visit")
  /\ \E r \in job[s].todo : Readable(log[r]) /\ (Interrupt(s, r) \/ Reconcile(s, r))

\* The manifest is written if it differs.
Repair(s) ==
  LET r == job[s].run IN
  /\ At(s, "repair")
  /\ manifest' = [manifest EXCEPT ![r] = job[s].held]
  /\ Become(s, [job[s] EXCEPT !.op = "visit", !.run = NoRun, !.held = NoManifest,
                              !.todo = @ \ {r}, !.shown[r] = job[s].held.status])
  /\ UNCHANGED <<directory, log, index, store, deaths>>

\* All runs were visited: the index is written if one of them changed.
EndLoading(s) ==
  /\ At(s, "visit") /\ job[s].todo = {}
  /\ index' = job[s].shown
  /\ store' = [store EXCEPT ![s] = "up"]
  /\ Become(s, Idle)
  /\ UNCHANGED <<directory, manifest, log, deaths>>

Work(s) ==
  \/ CreateManifest(s) \/ CreateLog(s) \/ WriteIndex(s)
  \/ WriteManifest(s) \/ LoadIndex(s) \/ Visit(s) \/ Repair(s) \/ EndLoading(s)

-----------------------------------------------------------------------------
(* The process of a store dies and is started again.                       *)

Die(s) ==
  /\ store[s] # "down" /\ deaths < MaxDeaths
  /\ store' = [store EXCEPT ![s] = "down"]
  /\ Become(s, Idle)
  /\ deaths' = deaths + 1
  /\ UNCHANGED files

Start(s) ==
  /\ store[s] = "down"
  /\ store' = [store EXCEPT ![s] = "fresh"]
  /\ UNCHANGED <<files, job, deaths>>
=============================================================================
