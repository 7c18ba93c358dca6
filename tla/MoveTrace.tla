----------------------------- MODULE MoveTrace ------------------------------
(***************************************************************************)
(* Player moves on one branch and the traces that are left of them: a move *)
(* of the web host (application/play-service.ts) writes its trace with     *)
(* TraceRecorder (trace/recorder.ts) around the commit of PlayTurn, and a  *)
(* host that starts again says of every interrupted move what became of it *)
(* (application/play-trace-recovery-service.ts), from the turn audit, the  *)
(* trace and the head of the branch.  None of the three is written in one  *)
(* step with the head.                                                     *)
(***************************************************************************)
EXTENDS TraceStore

CONSTANTS
  NoStore,
  NoAudit,
  MaxCommits,  \* bound: commits of the branch
  LastBegin    \* bound: moves begin while no more processes than this have died

\* What an audit says that matters here: the outcome, and the head at its end.
Audits == [accepted : BOOLEAN, head : Nat]

ASSUME MoveAssumption ==
  /\ NoStore \notin Store /\ NoAudit \notin Audits
  /\ MaxCommits \in Nat /\ LastBegin \in Nat

VARIABLES
  chain,     \* the commits of the branch: the run that made each
  attached,  \* the branch exists
  audit,     \* the turn audit of each run
  move,      \* how far each move is, in which process, and the head it expects
  recovery   \* "pending" until the host has explained the interrupted moves

worldVars == <<chain, attached, audit>>
moveVars == <<traceVars, worldVars, move, recovery>>

NoMove == [at |-> "none", host |-> NoStore, head |-> 0, crossed |-> FALSE, accepted |-> FALSE]

MoveInit ==
  /\ TraceInit
  /\ chain = <<>> /\ attached = TRUE
  /\ audit = [r \in Run |-> NoAudit]
  /\ move = [r \in Run |-> NoMove]
  /\ recovery = [s \in Store |-> "pending"]

Committed(r) == \E i \in DOMAIN chain : chain[i] = r
Kinds(r) == IF log[r] = NoLog THEN {} ELSE {log[r][i].kind : i \in DOMAIN log[r]}
HostInterrupted(r) ==
  log[r] # NoLog /\ \E i \in DOMAIN log[r] : log[r][i].error = "host-restart"

-----------------------------------------------------------------------------
(* A move, from startMove to runWithTrace.  The move awaits each job of    *)
(* its recorder.                                                           *)

Awaits(r, at) ==
  /\ move[r].at = at
  /\ store[move[r].host] = "up"
  /\ job[move[r].host].run # r

\* What is left of a move is the head that its manifest names.
Over(r, at) == [NoMove EXCEPT !.at = at, !.head = move[r].head]

To(r, at) == move' = [move EXCEPT ![r].at = at]
Record(r, kind) == AppendEvent(move[r].host, r, kind)

\* TraceRecorder.start.
Begin(s, r) ==
  /\ recovery[s] = "done" /\ move[r].at = "none" /\ attached /\ deaths <= LastBegin
  /\ CreateDirectory(s, r)
  /\ move' = [move EXCEPT ![r] = [@ EXCEPT !.at = "created", !.host = s, !.head = Len(chain)]]
  /\ UNCHANGED <<worldVars, recovery>>

Started(r) ==
  /\ Awaits(r, "created")
  /\ Record(r, "started")
  /\ To(r, "working")
  /\ UNCHANGED <<worldVars, recovery>>

\* beforeCommit: the trace says that the commit is to come, and only then is
\* the boundary crossed and the commit tried.
BeforeCommit(r) ==
  /\ Awaits(r, "working")
  /\ Record(r, "commit-started")
  /\ To(r, "announced")
  /\ UNCHANGED <<worldVars, recovery>>

Cross(r, at, accepted) ==
  move' = [move EXCEPT ![r].at = at, ![r].crossed = TRUE, ![r].accepted = accepted]

\* The compare-and-set of BranchStore.  The events that follow in the same turn
\* are left out: they extend the history behind this one.
Extend(r) ==
  /\ attached /\ Len(chain) = move[r].head /\ Len(chain) < MaxCommits
  /\ chain' = Append(chain, r)
  /\ UNCHANGED <<attached, audit>>

Commit(r) ==
  /\ Awaits(r, "announced")
  /\ Extend(r)
  /\ Cross(r, "resolved", TRUE)
  /\ UNCHANGED <<traceVars, recovery>>

\* The gates or the engine say no, before the boundary or after it.
Reject(r) ==
  /\ \/ Awaits(r, "working") /\ To(r, "resolved")
     \/ Awaits(r, "announced") /\ Cross(r, "resolved", FALSE)
  /\ UNCHANGED <<traceVars, worldVars, recovery>>

\* The commit throws, having moved the head (a directory could not be synced)
\* or not.
CommitThrows(r) ==
  /\ Awaits(r, "announced")
  /\ Extend(r) \/ UNCHANGED worldVars
  /\ Cross(r, "throwing", FALSE)
  /\ UNCHANGED <<traceVars, recovery>>

\* The audit of the turn; a write that fails is only reported.  The final head
\* is that of the turn, and of a rejection what the gates were evaluated at.
Audit(r) ==
  /\ Awaits(r, "resolved")
  /\ To(r, "audited")
  /\ \/ audit' = [audit EXCEPT ![r] = [accepted |-> move[r].accepted, head |-> Len(chain)]]
     \/ UNCHANGED audit
  /\ UNCHANGED <<traceVars, chain, attached, recovery>>

Observe(r) ==
  /\ Awaits(r, "audited") /\ move[r].crossed
  /\ Record(r, IF move[r].accepted THEN "commit-completed" ELSE "commit-failed")
  /\ To(r, "observed")
  /\ UNCHANGED <<worldVars, recovery>>

ObserveFailure(r) ==
  /\ Awaits(r, "throwing")
  /\ Record(r, "commit-failed")
  /\ To(r, "failing")
  /\ UNCHANGED <<worldVars, recovery>>

Unobserved(r) == move[r].at = "audited" /\ ~move[r].crossed

\* recorder.link: head, event, audit and messages of the outcome.
Link(r) ==
  /\ Awaits(r, "observed") \/ (Unobserved(r) /\ Awaits(r, "audited"))
  /\ Rewrite(move[r].host, r)
  /\ To(r, "linked")
  /\ UNCHANGED <<worldVars, recovery>>

\* runWithTrace: what the run ends as, Stop being requested or not.  A move that
\* is stopped or throws early has done nothing.
StatusesOf(r) ==
  LET stopped == IF move[r].crossed THEN "interrupted" ELSE "cancelled" IN
  CASE move[r].at = "linked" -> {"succeeded", stopped}
    [] OTHER -> {"failed", stopped}

\* TraceRecorder.finish: the event, then finishRun.
End(r) ==
  /\ \E at \in {"working", "announced", "failing", "linked"} : Awaits(r, at)
  /\ \E status \in StatusesOf(r) : Record(r, status)
  /\ To(r, "ended")
  /\ UNCHANGED <<worldVars, recovery>>

Finish(r) ==
  /\ Awaits(r, "ended")
  /\ Rewrite(move[r].host, r)
  /\ move' = [move EXCEPT ![r] = Over(r, "over")]
  /\ UNCHANGED <<worldVars, recovery>>

Step(r) ==
  \/ Started(r) \/ BeforeCommit(r) \/ Commit(r) \/ Reject(r) \/ CommitThrows(r) \/ Audit(r)
  \/ Observe(r) \/ ObserveFailure(r) \/ Link(r) \/ End(r) \/ Finish(r)

-----------------------------------------------------------------------------
(* PlayTraceRecoveryService, run by createWebHost before it serves.        *)

\* Mutant: without an audit, a head that has moved proves the commit.
VerdictByHead(r) ==
  CASE audit[r] # NoAudit /\ audit[r].accepted -> "committed"
    [] audit[r] # NoAudit /\ ~audit[r].accepted /\ audit[r].head = move[r].head -> "rejected"
    [] audit[r] = NoAudit /\ attached /\ Len(chain) # move[r].head -> "committed"
    [] audit[r] = NoAudit /\ attached /\ Len(chain) = move[r].head -> "not-observed"
    [] OTHER -> "unknown"

\* diagnose: the audit first, and only if there is none the trace, then the head.
Verdict(r) ==
  CASE audit[r] # NoAudit /\ audit[r].accepted -> "committed"
    [] audit[r] # NoAudit /\ ~audit[r].accepted /\ audit[r].head = move[r].head -> "rejected"
    [] audit[r] = NoAudit /\ "commit-completed" \in Kinds(r) -> "committed"
    [] audit[r] = NoAudit /\ "commit-completed" \notin Kinds(r)
         /\ attached /\ Len(chain) = move[r].head -> "not-observed"
    [] OTHER -> "unknown"

Unexplained(r) ==
  /\ Known(r) /\ manifest[r].status = "interrupted" /\ manifest[r].error = "host-restart"
  /\ Kinds(r) \cap Verdicts = {}

Diagnose(s, r) ==
  /\ recovery[s] = "pending" /\ Unexplained(r)
  /\ AppendDiagnostic(s, r, Verdict(r))
  /\ UNCHANGED <<worldVars, move, recovery>>

\* Mutant: the host serves without waiting for the diagnoses.
ServeAtOnce(s) ==
  /\ recovery[s] = "pending" /\ store[s] = "up" /\ At(s, "idle")
  /\ recovery' = [recovery EXCEPT ![s] = "done"]
  /\ UNCHANGED <<traceVars, worldVars, move>>

Serve(s) ==
  /\ recovery[s] = "pending" /\ store[s] = "up" /\ At(s, "idle")
  /\ \A r \in Run : ~Unexplained(r)
  /\ recovery' = [recovery EXCEPT ![s] = "done"]
  /\ UNCHANGED <<traceVars, worldVars, move>>

Recover(s) == Serve(s) \/ \E r \in Run : Diagnose(s, r)

-----------------------------------------------------------------------------

StoreWorks(s) == Work(s) /\ UNCHANGED <<worldVars, move, recovery>>

\* The moves of a process die with it.
CrashHost(s) ==
  /\ Die(s)
  /\ move' = [r \in Run |-> IF move[r].host = s THEN Over(r, "dead") ELSE move[r]]
  /\ recovery' = [recovery EXCEPT ![s] = "pending"]
  /\ UNCHANGED worldVars

Restart(s) == Start(s) /\ UNCHANGED <<worldVars, move, recovery>>

\* The branch is removed while no host runs; its commits stay.  A removal beside
\* a move is the subject of BranchStore.
RemoveBranch ==
  /\ attached /\ \A s \in Store : store[s] = "down"
  /\ attached' = FALSE
  /\ UNCHANGED <<traceVars, chain, audit, move, recovery>>

\* What goes on by itself.
Progress ==
  \/ \E s \in Store : StoreWorks(s) \/ Recover(s) \/ Restart(s)
  \/ \E r \in Run : Step(r)

MoveNext ==
  \/ Progress
  \/ \E s \in Store : CrashHost(s)
  \/ \E s \in Store, r \in Run : Begin(s, r)
  \/ RemoveBranch

MoveSpec == MoveInit /\ [][MoveNext]_moveVars

\* Files are written, moves end (their model calls have time limits), and a
\* host that died is started again.  No step can be repeated for ever, so one
\* fairness condition for all of them is enough.
FairMoveSpec == MoveSpec /\ WF_moveVars(Progress)

-----------------------------------------------------------------------------
(* Properties.                                                             *)

\* The log of a run can always be read, wherever processes died: its lines are
\* numbered without a gap or a repetition and its end is unique.  readEventsAt
\* throws otherwise, and initialize with it at every start.
LogsReadable == \A r \in Run : log[r] # NoLog => Readable(log[r])

\* The outcome of a run is shown once and for all: whatever manifest and index
\* have said ended it is what they say ever after.
ShownOutcomeStands ==
  [][\A r \in Run :
       /\ manifest[r] # NoManifest /\ manifest[r].status # "running"
            => manifest'[r].status = manifest[r].status
       /\ index[r] \in Ends => index'[r] = index[r]]_moveVars

\* What traces say of the world is true: a move reported as committed is in the
\* history, and one that was cancelled, rejected or not observed is not and will
\* never be, so that asking again does not do it twice.
TraceTellsTruth ==
  \A r \in Run :
    /\ Kinds(r) \cap {"commit-completed", "committed"} # {} => Committed(r)
    /\ Kinds(r) \cap {"cancelled", "rejected", "not-observed"} # {} => ~Committed(r)

\* In the end every run that the index lists has ended, and every move that a
\* restart found unfinished has its diagnosis.
Accounted(r) ==
  /\ log[r] # NoLog /\ EndsOf(log[r]) # {}
  /\ HostInterrupted(r) => Kinds(r) \cap Verdicts # {}
EveryRunAccounted == <>[](\A r \in Run : Known(r) => Accounted(r))

\* A run is interrupted in the name of a restart only if its process is gone
\* ("The Web Host restarted before this run reached a terminal state").
InterruptedMeansDead == \A r \in Run : HostInterrupted(r) => move[r].at = "dead"
=============================================================================
