----------------------------- MODULE Proposals -----------------------------
(***************************************************************************)
(* Proposals and the canonical model (world/canonical-model.ts,            *)
(* compiler/validator.ts, compiler/converge.ts, compiler/proposals.ts):    *)
(* a proposal is a file in pending/, accepted/ or rejected/; accepting it  *)
(* changes the canonical model and its evidence binding, file by file, and *)
(* moves the proposal last.                                                *)
(*                                                                         *)
(* Every command that writes holds the compiler lock (WorkspaceLock), so   *)
(* there is one job at a time; it may fail at any write and its process    *)
(* may die at any write, and the next command finds the files as they are. *)
(*                                                                         *)
(* A proposal id stands for its envelope, for the revision of its payload  *)
(* and for its evidence assertions.  There is one source: a proposal cites *)
(* one source only (assertSingleEvidenceSource), so no artifact here has   *)
(* evidence that would outlast the reset of its source's analysis.         *)
(***************************************************************************)
EXTENDS Naturals

CONSTANTS
  Ids,        \* proposal ids
  Artifacts,  \* logical identities of canonical artifacts
  Batches,    \* compiler batches
  Target,     \* id -> the artifact that its payload revises
  BatchOf,    \* id -> the batch that submits it
  Removable,  \* artifacts of the kinds that a reset removes
  MaxClock,   \* bound: proposals submitted
  MaxMishaps, \* bound: failed writes and deaths
  None

ASSUME ProposalsAssumption ==
  /\ Target \in [Ids -> Artifacts]
  /\ BatchOf \in [Ids -> Batches]
  /\ Removable \subseteq Artifacts
  /\ MaxClock \in Nat /\ MaxMishaps \in Nat
  /\ None \notin Ids

VARIABLES
  file,       \* id -> where its envelope is
  born,       \* id -> createdAt
  report,     \* id -> its rejection report
  revision,   \* id -> the immutable revision of its payload
  assertion,  \* id -> the immutable revisions of its evidence assertions
  ref,        \* artifact -> the revision that is its current one
  bound,      \* artifact -> the proposal its evidence binding was made from
  job,        \* the command that holds the compiler lock
  last,       \* artifact -> the last proposal accepted for it (history)
  begun,      \* proposals that the canonical model holds before they are
              \* accepted (history)
  clock, mishaps
stores == <<file, born, report, revision, assertion, ref, bound>>
vars == <<stores, job, last, begun, clock, mishaps>>

Statuses == {"none", "torn", "pending", "accepted", "rejected"}
Writing == {"none", "torn", "whole"}
Kinds == {"idle", "session", "accept", "converge", "prepare", "discard", "reset"}
Places == {"open", "fill", "next", "report", "fillReport", "retire",
           "put", "fillRevision", "point", "assert", "fillAssertion", "bind",
           "move", "strip", "purge"}
Job == [kind: Kinds, at: Places, p: Ids \cup {None}, drop: SUBSET Ids,
        commit: SUBSET Ids, blocked: SUBSET Ids, mine: SUBSET Ids]
Idle == [kind |-> "idle", at |-> "next", p |-> None, drop |-> {},
         commit |-> {}, blocked |-> {}, mine |-> {}]

TypeOK ==
  /\ file \in [Ids -> Statuses] /\ born \in [Ids -> Nat]
  /\ report \in [Ids -> Writing] /\ revision \in [Ids -> Writing]
  /\ assertion \in [Ids -> Writing]
  /\ ref \in [Artifacts -> Ids \cup {None}]
  /\ bound \in [Artifacts -> Ids \cup {None}]
  /\ job \in Job
  /\ last \in [Artifacts -> Ids \cup {None}] /\ begun \subseteq Ids
  /\ clock \in Nat /\ mishaps \in Nat

Init ==
  /\ file = [p \in Ids |-> "none"] /\ born = [p \in Ids |-> 0]
  /\ report = [p \in Ids |-> "none"] /\ revision = [p \in Ids |-> "none"]
  /\ assertion = [p \in Ids |-> "none"]
  /\ ref = [a \in Artifacts |-> None] /\ bound = [a \in Artifacts |-> None]
  /\ job = Idle
  /\ last = [a \in Artifacts |-> None] /\ begun = {}
  /\ clock = 0 /\ mishaps = 0

Pending == {p \in Ids : file[p] = "pending"}
\* ProposalStore.list parses every envelope of the directory and throws on one
\* that a dying process left empty.
Listable == \A p \in Ids : file[p] # "torn"
At(place) == job.kind # "idle" /\ job.at = place
Goto(place) == job' = [job EXCEPT !.at = place]
History == <<last, begun>>
Bounds == <<clock, mishaps>>

(***************************************************************************)
(* Commands.                                                               *)
(***************************************************************************)
Start(kind, place, commit, drop) ==
  /\ job.kind = "idle"
  /\ job' = [Idle EXCEPT !.kind = kind, !.at = place, !.commit = commit,
                         !.drop = drop]
  /\ UNCHANGED <<stores, last, begun, clock, mishaps>>

\* A compiler session: the tools of its model submit and withdraw.
OpenSession == Start("session", "open", {}, {})
\* The web and the command line; a proposal that is not pending is refused.
Accept(p) == file[p] = "pending" /\ Start("accept", "next", {p}, {})
Reject(p) == file[p] = "pending" /\ Start("discard", "next", {}, {p})
\* rejectPendingCompilerBatchProposals, when a batch ended without a finish.
AbandonBatch(b) ==
  Listable /\ Start("discard", "next", {}, {p \in Pending : BatchOf[p] = b})
\* removeNovelAnalysis
Reset == Start("reset", "strip", {}, {})

\* selectLogicalCandidates: of the pending proposals of one artifact the newest
\* is tried and the others are rejected as superseded.
Superseded ==
  {p \in Pending :
    \E q \in Pending : Target[q] = Target[p] /\ born[q] > born[p]}
\* convergeWorldProposals; "prepare" goes on to quarantine what was blocked.
Converge(kind) ==
  /\ kind \in {"converge", "prepare"}
  /\ Listable
  /\ Start(kind, "next", Pending \ Superseded, Superseded)

Finished == job' = Idle

(***************************************************************************)
(* The tools of a compiler session.                                        *)
(***************************************************************************)
\* ProposalStore.writePending: the same envelope again is a no-op, an id with a
\* history is a collision, and a file that exists is never opened again.
Submit(p) ==
  /\ At("open") /\ file[p] = "none" /\ clock < MaxClock
  /\ file' = [file EXCEPT ![p] = "torn"]
  /\ job' = [job EXCEPT !.at = "fill", !.p = p]
  /\ UNCHANGED <<born, report, revision, assertion, ref, bound, last, begun,
                 clock, mishaps>>

FillProposal ==
  /\ At("fill")
  /\ file' = [file EXCEPT ![job.p] = "pending"]
  /\ born' = [born EXCEPT ![job.p] = clock + 1]
  /\ clock' = clock + 1
  /\ job' = [job EXCEPT !.at = "open", !.p = None, !.mine = @ \cup {job.p}]
  /\ UNCHANGED <<report, revision, assertion, ref, bound, last, begun, mishaps>>

\* Only a submission of this session that still counts is withdrawn.
Withdraw(p) ==
  /\ At("open") /\ p \in job.mine
  /\ job' = [job EXCEPT !.at = "next", !.drop = {p}]
  /\ UNCHANGED <<stores, last, begun, clock, mishaps>>

EndSession ==
  /\ At("open") /\ Finished
  /\ UNCHANGED <<stores, last, begun, clock, mishaps>>

(***************************************************************************)
(* ProposalStore.reject: the report first, then the move.  A report that   *)
(* exists is kept, one that cannot be read makes the call throw.           *)
(***************************************************************************)
\* Mutant: the file is moved before its reason is written.
BeginRejectionMoved(p) ==
  /\ At("next") /\ p \in job.drop
  /\ file' = [file EXCEPT ![p] = "rejected"]
  /\ job' = [job EXCEPT !.at = "report", !.p = p, !.drop = @ \ {p}]
  /\ UNCHANGED <<born, report, revision, assertion, ref, bound, History, Bounds>>

BeginRejection(p) ==
  /\ At("next") /\ p \in job.drop
  /\ job' = [job EXCEPT !.at = "report", !.p = p, !.drop = @ \ {p}]
  /\ UNCHANGED <<stores, History, Bounds>>

\* The call throws: a session tells its model, a command ends.
Thrown ==
  IF job.kind = "session" THEN [job EXCEPT !.at = "open", !.p = None] ELSE Idle

\* recordRejection
Report ==
  /\ At("report")
  /\ \/ /\ report[job.p] = "none"
        /\ report' = [report EXCEPT ![job.p] = "torn"] /\ Goto("fillReport")
     \/ /\ report[job.p] = "whole"
        /\ UNCHANGED report /\ Goto("retire")
     \/ /\ report[job.p] = "torn"
        /\ UNCHANGED report /\ job' = Thrown
  /\ UNCHANGED <<file, born, revision, assertion, ref, bound, History, Bounds>>

FillReport ==
  /\ At("fillReport") /\ Goto("retire")
  /\ report' = [report EXCEPT ![job.p] = "whole"]
  /\ UNCHANGED <<file, born, revision, assertion, ref, bound, History, Bounds>>

Retire ==
  /\ At("retire")
  /\ file' = [file EXCEPT ![job.p] = "rejected"]
  /\ job' = [job EXCEPT !.at = "next", !.p = None, !.mine = @ \ {job.p}]
  /\ UNCHANGED <<born, report, revision, assertion, ref, bound, History, Bounds>>

(***************************************************************************)
(* Validation and commitParsed.  Whether the payload is valid depends on   *)
(* the catalog and the evidence and is left open.                          *)
(***************************************************************************)
Blocked ==
  IF job.kind = "accept" THEN Idle
  ELSE [job EXCEPT !.at = "next", !.p = None,
                   !.commit = @ \ {job.p}, !.blocked = @ \cup {job.p}]

TryCommit(p) ==
  /\ At("next") /\ job.drop = {} /\ p \in job.commit
  /\ \/ job' = [job EXCEPT !.at = "put", !.p = p, !.commit = @ \ {p}]
     \/ job' = [job EXCEPT !.commit = @ \ {p}, !.blocked = @ \cup {p}]
  /\ UNCHANGED <<stores, History, Bounds>>

\* Mutant: a file that exists is taken to be the one to be written.
MatchesByName(writing, p) == writing[p] # "none"

\* writeImmutable: a file that exists must have the same content.
Matches(writing, p) == writing[p] = "whole"

PutRevision ==
  /\ At("put")
  /\ \/ /\ revision[job.p] = "none"
        /\ revision' = [revision EXCEPT ![job.p] = "torn"] /\ Goto("fillRevision")
     \/ /\ Matches(revision, job.p)
        /\ UNCHANGED revision /\ Goto("point")
  /\ UNCHANGED <<file, born, report, assertion, ref, bound, History, Bounds>>

FillRevision ==
  /\ At("fillRevision") /\ Goto("point")
  /\ revision' = [revision EXCEPT ![job.p] = "whole"]
  /\ UNCHANGED <<file, born, report, assertion, ref, bound, History, Bounds>>

\* Mutant: the evidence of the proposal is not bound.
PointUnbound ==
  LET a == Target[job.p] IN
  /\ At("point") /\ Goto("move")
  /\ ref' = [ref EXCEPT ![a] = job.p]
  /\ begun' = {q \in begun : Target[q] # a} \cup {job.p}
  /\ UNCHANGED <<file, born, report, revision, assertion, bound, last, Bounds>>

\* The current revision is replaced by a rename.
Point ==
  LET a == Target[job.p] IN
  /\ At("point") /\ Goto("assert")
  /\ ref' = [ref EXCEPT ![a] = job.p]
  /\ begun' = {q \in begun : Target[q] # a} \cup {job.p}
  /\ UNCHANGED <<file, born, report, revision, assertion, bound, last, Bounds>>

\* EvidenceAssertionStore.replaceForArtifact
PutAssertion ==
  /\ At("assert")
  /\ \/ /\ assertion[job.p] = "none"
        /\ assertion' = [assertion EXCEPT ![job.p] = "torn"] /\ Goto("fillAssertion")
     \/ /\ Matches(assertion, job.p)
        /\ UNCHANGED assertion /\ Goto("bind")
  /\ UNCHANGED <<file, born, report, revision, ref, bound, History, Bounds>>

FillAssertion ==
  /\ At("fillAssertion") /\ Goto("bind")
  /\ assertion' = [assertion EXCEPT ![job.p] = "whole"]
  /\ UNCHANGED <<file, born, report, revision, ref, bound, History, Bounds>>

Bind ==
  /\ At("bind") /\ Goto("move")
  /\ bound' = [bound EXCEPT ![Target[job.p]] = job.p]
  /\ UNCHANGED <<file, born, report, revision, assertion, ref, History, Bounds>>

\* ProposalStore.transition
Move ==
  /\ At("move")
  /\ file' = [file EXCEPT ![job.p] = "accepted"]
  /\ job' = [job EXCEPT !.at = "next", !.p = None]
  /\ last' = [last EXCEPT ![Target[job.p]] = job.p]
  /\ begun' = begun \ {job.p}
  /\ UNCHANGED <<born, report, revision, assertion, ref, bound, Bounds>>

\* "Canonical artifact already exists with different content"
Conflict ==
  /\ \/ At("put") /\ revision[job.p] = "torn"
     \/ At("assert") /\ assertion[job.p] = "torn"
  /\ job' = Blocked
  /\ UNCHANGED <<stores, History, Bounds>>

\* quarantineUncommittableProposals: what is blocked and still pending.
Quarantine ==
  /\ At("next") /\ job.kind = "prepare" /\ job.drop = {} /\ job.commit = {}
  /\ job' = [job EXCEPT !.kind = "discard", !.drop = job.blocked \cap Pending,
                        !.blocked = {}]
  /\ UNCHANGED <<stores, History, Bounds>>

EndJob ==
  /\ At("next") /\ job.kind # "prepare" /\ job.drop = {} /\ job.commit = {}
  /\ IF job.kind = "session" THEN Goto("open") ELSE Finished
  /\ UNCHANGED <<stores, History, Bounds>>

(***************************************************************************)
(* removeNovelAnalysis: the current revisions of nine kinds (entities,     *)
(* propositions, attributions, claims, events, event participations, event *)
(* relations, spatial relations, rules), then the proposals of every kind. *)
(* The current revisions of the other kinds (scene occurrences, event      *)
(* frames, action schemas, norm templates, ...), the immutable revisions,  *)
(* the bindings and the reports stay.                                      *)
(***************************************************************************)
Strip(a) ==
  /\ At("strip") /\ a \in Removable /\ ref[a] # None
  /\ ref' = [ref EXCEPT ![a] = None]
  /\ last' = [last EXCEPT ![a] = None]
  /\ begun' = {q \in begun : Target[q] # a}
  /\ UNCHANGED <<file, born, report, revision, assertion, bound, job, Bounds>>

\* removeForSource lists first, and throws on a file that is not JSON.
Stripped ==
  /\ At("strip") /\ \A a \in Removable : ref[a] = None
  /\ IF Listable THEN Goto("purge") ELSE Finished
  /\ UNCHANGED <<stores, History, Bounds>>

Purge(p) ==
  /\ At("purge") /\ file[p] # "none"
  /\ file' = [file EXCEPT ![p] = "none"]
  /\ UNCHANGED <<born, report, revision, assertion, ref, bound, job, History, Bounds>>

EndReset ==
  /\ At("purge") /\ \A p \in Ids : file[p] = "none"
  /\ Finished
  /\ UNCHANGED <<stores, History, Bounds>>

(***************************************************************************)
(* Mishaps.                                                                *)
(***************************************************************************)
\* A write or a rename fails; what it had to replace is as it was.
WriteFails ==
  /\ job.kind # "idle" /\ job.at \notin {"open", "next"} /\ mishaps < MaxMishaps
  /\ job' = IF job.at \in {"fill", "report", "fillReport", "retire", "strip", "purge"}
            THEN Thrown ELSE Blocked
  /\ mishaps' = mishaps + 1
  /\ UNCHANGED <<stores, History, clock>>

\* The process dies; its lock is recovered (WorkspaceLock).
Die ==
  /\ job.kind # "idle" /\ mishaps < MaxMishaps
  /\ Finished
  /\ mishaps' = mishaps + 1
  /\ UNCHANGED <<stores, History, clock>>

Next ==
  \/ OpenSession \/ EndSession \/ FillProposal \/ Reset
  \/ \E p \in Ids : \/ Submit(p) \/ Withdraw(p) \/ Accept(p) \/ Reject(p)
                    \/ BeginRejection(p) \/ TryCommit(p) \/ Purge(p)
  \/ \E b \in Batches : AbandonBatch(b)
  \/ \E kind \in Kinds : Converge(kind)
  \/ Report \/ FillReport \/ Retire
  \/ PutRevision \/ FillRevision \/ Point \/ PutAssertion \/ FillAssertion
  \/ Bind \/ Move \/ Conflict \/ Quarantine \/ EndJob
  \/ \E a \in Artifacts : Strip(a)
  \/ Stripped \/ EndReset
  \/ WriteFails \/ Die

Spec == Init /\ [][Next]_vars

(***************************************************************************)
(* Properties.                                                             *)
(***************************************************************************)
\* Whatever write failed or was cut short, and however the commands were
\* repeated since, the current revision of an artifact and the assertions its
\* binding names can be read.
CanonReadable ==
  \A a \in Artifacts :
    /\ ref[a] # None => revision[ref[a]] = "whole"
    /\ bound[a] # None => assertion[bound[a]] = "whole"

\* The canonical model is what was accepted last, with the evidence it was
\* accepted with; it can differ only where a commit was begun and not finished.
AcceptedIsTruth ==
  \A a \in Artifacts :
    (\A q \in begun : Target[q] # a) =>
      /\ ref[a] = last[a]
      /\ last[a] # None => bound[a] = last[a]

\* "a retry can complete the transition without ever producing a rejected
\* proposal whose diagnostic was lost" (ProposalStore.reject); and an accepted
\* proposal has all its revisions.
DecisionsExplained ==
  \A p \in Ids :
    /\ file[p] = "rejected" => report[p] = "whole"
    /\ file[p] = "accepted" => revision[p] = "whole" /\ assertion[p] = "whole"

\* "Retired IDs are immutable and never active truth"
\* (docs/agent-tool-recovery.md): what was rejected is not in the model.
RejectedNeverTruth ==
  \A a \in Artifacts : ref[a] # None => file[ref[a]] # "rejected"
=============================================================================
