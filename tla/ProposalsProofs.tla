-------------------------- MODULE ProposalsProofs --------------------------
(***************************************************************************)
(* The canonical model under failed and torn writes, for any number of     *)
(* proposals, artifacts, batches and mishaps.  What makes the properties   *)
(* inductive is the order of the writes: PlaceInv says, for each place of  *)
(* a command, which of its files are already whole and what the canonical  *)
(* model already holds.                                                    *)
(***************************************************************************)
EXTENDS Proposals, TLAPS

\* The places of a commit after the revision, after the reference and after
\* the assertions were written.
Stored == {"point", "assert", "fillAssertion", "bind", "move"}
Pointed == {"assert", "fillAssertion", "bind", "move"}

PlaceInv ==
  /\ job.kind = "idle" => job.at = "next"
  /\ job.at \in {"fill", "report", "fillReport", "retire", "put", "fillRevision"}
                \cup Stored => job.p \in Ids
  /\ job.at = "retire" => report[job.p] = "whole"
  /\ job.at \in Stored => revision[job.p] = "whole"
  /\ job.at \in {"bind", "move"} => assertion[job.p] = "whole"
  /\ job.at \in Pointed => job.p \in begun /\ ref[Target[job.p]] = job.p
  /\ job.at = "move" => bound[Target[job.p]] = job.p

Inv == TypeOK /\ PlaceInv /\ CanonReadable /\ AcceptedIsTruth /\ DecisionsExplained

LEMMA InitInv == Init => Inv
<1> SUFFICES ASSUME Init
             PROVE  Inv
  OBVIOUS
<1> USE ProposalsAssumption DEF Init
<1>1. TypeOK
  BY DEF TypeOK, Statuses, Writing, Job, Idle, Kinds, Places
<1>2. PlaceInv
  BY DEF PlaceInv, Idle, Stored, Pointed
<1>3. CanonReadable
  BY DEF CanonReadable
<1>4. AcceptedIsTruth
  BY DEF AcceptedIsTruth
<1>5. DecisionsExplained
  BY DEF DecisionsExplained
<1> QED
  BY <1>1, <1>2, <1>3, <1>4, <1>5 DEF Inv

(***************************************************************************)
(* Steps that only move the job on.                                        *)
(***************************************************************************)
\* A job that has nothing half written.
Calm(new) == new.at \in {"open", "next", "strip", "purge"}

LEMMA CalmStep ==
  ASSUME Inv, job' \in Job, Calm(job'), job'.kind = "idle" => job'.at = "next",
         UNCHANGED <<stores, last, begun>>, clock' \in Nat, mishaps' \in Nat
  PROVE  Inv'
<1>1. TypeOK'
  BY DEF Inv, TypeOK, stores
<1>2. PlaceInv'
  BY DEF PlaceInv, Calm, Stored, Pointed
<1>3. CanonReadable'
  BY DEF Inv, CanonReadable, stores
<1>4. AcceptedIsTruth'
  BY DEF Inv, AcceptedIsTruth, stores
<1>5. DecisionsExplained'
  BY DEF Inv, DecisionsExplained, stores
<1> QED
  BY <1>1, <1>2, <1>3, <1>4, <1>5 DEF Inv

LEMMA StartStep ==
  ASSUME Inv, NEW kind \in Kinds \ {"idle"}, NEW place \in {"open", "next", "strip"},
         NEW commit \in SUBSET Ids, NEW drop \in SUBSET Ids,
         Start(kind, place, commit, drop)
  PROVE  Inv'
<1>1. job' \in Job /\ Calm(job') /\ job'.kind # "idle"
  BY DEF Start, Job, Idle, Places, Calm
<1>2. UNCHANGED <<stores, last, begun, clock, mishaps>>
  BY DEF Start
<1> QED
  BY <1>1, <1>2, CalmStep DEF Inv, TypeOK

LEMMA OpeningStep ==
  ASSUME Inv,
         \/ OpenSession \/ Reset
         \/ \E p \in Ids : Accept(p) \/ Reject(p)
         \/ \E b \in Batches : AbandonBatch(b)
         \/ \E kind \in Kinds : Converge(kind)
  PROVE  Inv'
<1>1. CASE OpenSession
  BY <1>1, StartStep DEF OpenSession, Kinds
<1>2. CASE Reset
  BY <1>2, StartStep DEF Reset, Kinds
<1>3. ASSUME NEW p \in Ids, Accept(p)
      PROVE  Inv'
  BY <1>3, StartStep DEF Accept, Kinds
<1>4. ASSUME NEW p \in Ids, Reject(p)
      PROVE  Inv'
  BY <1>4, StartStep DEF Reject, Kinds
<1>5. ASSUME NEW b \in Batches, AbandonBatch(b)
      PROVE  Inv'
  <2>1. {p \in Pending : BatchOf[p] = b} \in SUBSET Ids
    BY DEF Pending
  <2> QED
    BY <1>5, <2>1, StartStep DEF AbandonBatch, Kinds
<1>6. ASSUME NEW kind \in Kinds, Converge(kind)
      PROVE  Inv'
  <2>1. Pending \ Superseded \in SUBSET Ids /\ Superseded \in SUBSET Ids
    BY DEF Pending, Superseded
  <2>2. kind \in Kinds \ {"idle"}
    BY <1>6 DEF Converge
  <2> QED
    BY <1>6, <2>1, <2>2, StartStep DEF Converge
<1> QED
  BY <1>1, <1>2, <1>3, <1>4, <1>5, <1>6

LEMMA ThrownJob == Inv => Thrown \in Job /\ Calm(Thrown)
                           /\ (Thrown.kind = "idle" => Thrown.at = "next")
BY DEF Inv, TypeOK, Thrown, Job, Idle, Calm, Kinds, Places

LEMMA BlockedJob ==
  ASSUME Inv, job.p \in Ids, job.kind # "idle"
  PROVE  Blocked \in Job /\ Calm(Blocked) /\ (Blocked.kind = "idle" => Blocked.at = "next")
BY DEF Inv, TypeOK, Blocked, Job, Idle, Calm, Kinds, Places

LEMMA PassingStep ==
  ASSUME Inv,
         \/ EndSession \/ Conflict \/ Quarantine \/ EndJob \/ Stripped \/ EndReset
         \/ WriteFails \/ Die
         \/ \E p \in Ids : Withdraw(p)
  PROVE  Inv'
<1> USE DEF History, Bounds, Finished, Goto
<1>1. Idle \in Job /\ Calm(Idle) /\ Idle.at = "next"
  BY DEF Idle, Job, Kinds, Places, Calm
<1>2. clock \in Nat /\ mishaps \in Nat /\ mishaps + 1 \in Nat /\ job \in Job
  BY DEF Inv, TypeOK
<1>3. CASE EndSession \/ EndReset \/ Die
  BY <1>1, <1>2, <1>3, CalmStep DEF EndSession, EndReset, Die
<1>4. CASE Conflict
  <2>1. job.p \in Ids /\ job.kind # "idle"
    BY <1>4 DEF Conflict, At, Inv, PlaceInv, Stored
  <2> QED
    BY <1>2, <1>4, <2>1, BlockedJob, CalmStep DEF Conflict
<1>5. CASE Quarantine
  <2>1. job' \in Job /\ Calm(job') /\ job'.kind # "idle"
    BY <1>2, <1>5 DEF Quarantine, At, Job, Kinds, Calm, Pending
  <2> QED
    BY <1>2, <1>5, <2>1, CalmStep DEF Quarantine
<1>6. CASE EndJob
  <2>1. job' \in Job /\ Calm(job') /\ (job'.kind = "idle" => job'.at = "next")
    BY <1>1, <1>2, <1>6 DEF EndJob, At, Job, Places, Calm
  <2> QED
    BY <1>2, <1>6, <2>1, CalmStep DEF EndJob
<1>7. CASE Stripped
  <2>1. job' \in Job /\ Calm(job') /\ (job'.kind = "idle" => job'.at = "next")
    BY <1>1, <1>2, <1>7 DEF Stripped, At, Job, Places, Calm
  <2> QED
    BY <1>2, <1>7, <2>1, CalmStep DEF Stripped
<1>8. CASE WriteFails
  <2>1. job' = Thrown \/ (job' = Blocked /\ job.p \in Ids /\ job.kind # "idle")
    <3>1. job.at \in Places \ {"open", "next"}
      BY <1>2, <1>8 DEF WriteFails, Job
    <3> QED
      BY <1>8, <3>1 DEF WriteFails, Inv, PlaceInv, Places, Stored
  <2> QED
    BY <1>2, <1>8, <2>1, ThrownJob, BlockedJob, CalmStep DEF WriteFails
<1>9. ASSUME NEW p \in Ids, Withdraw(p)
      PROVE  Inv'
  <2>1. job' \in Job /\ Calm(job') /\ job'.kind # "idle"
    BY <1>2, <1>9 DEF Withdraw, At, Job, Places, Calm
  <2> QED
    BY <1>2, <1>9, <2>1, CalmStep DEF Withdraw
<1> QED
  BY <1>3, <1>4, <1>5, <1>6, <1>7, <1>8, <1>9

(***************************************************************************)
(* Steps of a command that write.                                          *)
(***************************************************************************)
LEMMA SubmitStep ==
  ASSUME Inv, NEW p \in Ids, Submit(p)
  PROVE  Inv'
<1> USE ProposalsAssumption
        DEF PlaceInv, At, Stored, Pointed, History, Bounds, stores, Goto, Matches
<1>1. TypeOK /\ PlaceInv /\ CanonReadable /\ AcceptedIsTruth /\ DecisionsExplained
  BY DEF Inv
<1>2. TypeOK'
  BY <1>1 DEF TypeOK, Submit, Job, Places, Writing, Statuses
<1>3. PlaceInv'
  BY <1>1, <1>2 DEF TypeOK, Submit, Job, Calm
<1>4. CanonReadable'
  BY <1>1 DEF TypeOK, CanonReadable, Submit
<1>5. AcceptedIsTruth'
  BY <1>1 DEF TypeOK, AcceptedIsTruth, Submit
<1>6. DecisionsExplained'
  BY <1>1 DEF TypeOK, DecisionsExplained, Submit
<1> QED
  BY <1>2, <1>3, <1>4, <1>5, <1>6 DEF Inv

LEMMA FillProposalStep ==
  ASSUME Inv, FillProposal
  PROVE  Inv'
<1> USE ProposalsAssumption
        DEF PlaceInv, At, Stored, Pointed, History, Bounds, stores, Goto, Matches
<1>1. TypeOK /\ PlaceInv /\ CanonReadable /\ AcceptedIsTruth /\ DecisionsExplained
  BY DEF Inv
<1>2. TypeOK'
  <2>1. job \in Job /\ job.p \in Ids
    BY <1>1 DEF TypeOK, FillProposal
  <2>2. job' \in Job
    BY <2>1 DEF FillProposal, Job, Places
  <2> QED
    BY <1>1, <2>2 DEF TypeOK, FillProposal, Statuses
<1>3. PlaceInv'
  BY <1>1, <1>2 DEF TypeOK, FillProposal, Job, Calm
<1>4. CanonReadable'
  BY <1>1 DEF TypeOK, CanonReadable, FillProposal
<1>5. AcceptedIsTruth'
  BY <1>1 DEF TypeOK, AcceptedIsTruth, FillProposal
<1>6. DecisionsExplained'
  BY <1>1 DEF TypeOK, DecisionsExplained, FillProposal
<1> QED
  BY <1>2, <1>3, <1>4, <1>5, <1>6 DEF Inv

LEMMA BeginRejectionStep ==
  ASSUME Inv, NEW p \in Ids, BeginRejection(p)
  PROVE  Inv'
<1> USE ProposalsAssumption
        DEF PlaceInv, At, Stored, Pointed, History, Bounds, stores, Goto, Matches
<1>1. TypeOK /\ PlaceInv /\ CanonReadable /\ AcceptedIsTruth /\ DecisionsExplained
  BY DEF Inv
<1>2. TypeOK'
  BY <1>1 DEF TypeOK, BeginRejection, Job, Places, Writing, Statuses
<1>3. PlaceInv'
  BY <1>1, <1>2 DEF TypeOK, BeginRejection, Job, Calm
<1>4. CanonReadable'
  BY <1>1 DEF TypeOK, CanonReadable, BeginRejection
<1>5. AcceptedIsTruth'
  BY <1>1 DEF TypeOK, AcceptedIsTruth, BeginRejection
<1>6. DecisionsExplained'
  BY <1>1 DEF TypeOK, DecisionsExplained, BeginRejection
<1> QED
  BY <1>2, <1>3, <1>4, <1>5, <1>6 DEF Inv

LEMMA ReportStep ==
  ASSUME Inv, Report
  PROVE  Inv'
<1> USE ProposalsAssumption
        DEF PlaceInv, At, Stored, Pointed, History, Bounds, stores, Goto, Matches
<1>1. TypeOK /\ PlaceInv /\ CanonReadable /\ AcceptedIsTruth /\ DecisionsExplained
  BY DEF Inv
<1>2. TypeOK'
  BY ThrownJob, <1>1 DEF TypeOK, Report, Job, Places, Writing, Statuses
<1>3. PlaceInv'
  BY ThrownJob, <1>1, <1>2 DEF TypeOK, Report, Job, Calm
<1>4. CanonReadable'
  BY <1>1 DEF TypeOK, CanonReadable, Report
<1>5. AcceptedIsTruth'
  BY <1>1 DEF TypeOK, AcceptedIsTruth, Report
<1>6. DecisionsExplained'
  BY <1>1 DEF TypeOK, DecisionsExplained, Report
<1> QED
  BY <1>2, <1>3, <1>4, <1>5, <1>6 DEF Inv

LEMMA FillReportStep ==
  ASSUME Inv, FillReport
  PROVE  Inv'
<1> USE ProposalsAssumption
        DEF PlaceInv, At, Stored, Pointed, History, Bounds, stores, Goto, Matches
<1>1. TypeOK /\ PlaceInv /\ CanonReadable /\ AcceptedIsTruth /\ DecisionsExplained
  BY DEF Inv
<1>2. TypeOK'
  BY <1>1 DEF TypeOK, FillReport, Job, Places, Writing, Statuses
<1>3. PlaceInv'
  BY <1>1, <1>2 DEF TypeOK, FillReport, Job, Calm
<1>4. CanonReadable'
  BY <1>1 DEF TypeOK, CanonReadable, FillReport
<1>5. AcceptedIsTruth'
  BY <1>1 DEF TypeOK, AcceptedIsTruth, FillReport
<1>6. DecisionsExplained'
  BY <1>1 DEF TypeOK, DecisionsExplained, FillReport
<1> QED
  BY <1>2, <1>3, <1>4, <1>5, <1>6 DEF Inv

LEMMA RetireStep ==
  ASSUME Inv, Retire
  PROVE  Inv'
<1> USE ProposalsAssumption
        DEF PlaceInv, At, Stored, Pointed, History, Bounds, stores, Goto, Matches
<1>1. TypeOK /\ PlaceInv /\ CanonReadable /\ AcceptedIsTruth /\ DecisionsExplained
  BY DEF Inv
<1>2. TypeOK'
  BY <1>1 DEF TypeOK, Retire, Job, Places, Writing, Statuses
<1>3. PlaceInv'
  BY <1>1, <1>2 DEF TypeOK, Retire, Job, Calm
<1>4. CanonReadable'
  BY <1>1 DEF TypeOK, CanonReadable, Retire
<1>5. AcceptedIsTruth'
  BY <1>1 DEF TypeOK, AcceptedIsTruth, Retire
<1>6. DecisionsExplained'
  BY <1>1 DEF TypeOK, DecisionsExplained, Retire
<1> QED
  BY <1>2, <1>3, <1>4, <1>5, <1>6 DEF Inv

LEMMA TryCommitStep ==
  ASSUME Inv, NEW p \in Ids, TryCommit(p)
  PROVE  Inv'
<1> USE ProposalsAssumption
        DEF PlaceInv, At, Stored, Pointed, History, Bounds, stores, Goto, Matches
<1>1. TypeOK /\ PlaceInv /\ CanonReadable /\ AcceptedIsTruth /\ DecisionsExplained
  BY DEF Inv
<1> DEFINE committing == [job EXCEPT !.at = "put", !.p = p, !.commit = @ \ {p}]
           refused == [job EXCEPT !.commit = @ \ {p}, !.blocked = @ \cup {p}]
<1>7. job \in Job /\ job.at = "next"
  BY <1>1 DEF TypeOK, TryCommit
<1>8. ASSUME job' = committing
      PROVE  TypeOK' /\ PlaceInv'
  <2>1. job' \in Job /\ job'.at = "put" /\ job'.p \in Ids /\ job'.kind = job.kind
    BY <1>7, <1>8 DEF Job, Places
  <2>2. TypeOK'
    BY <1>1, <2>1 DEF TypeOK, TryCommit
  <2>3. PlaceInv'
    BY <1>1, <2>1 DEF TryCommit
  <2> QED
    BY <2>2, <2>3
<1>9. ASSUME job' = refused
      PROVE  TypeOK' /\ PlaceInv'
  <2>1. job' \in Job /\ job'.at = "next" /\ job'.kind = job.kind
    BY <1>7, <1>9 DEF Job
  <2>2. TypeOK'
    BY <1>1, <2>1 DEF TypeOK, TryCommit
  <2>3. PlaceInv'
    BY <1>1, <2>1 DEF TryCommit
  <2> QED
    BY <2>2, <2>3
<1>2. TypeOK'
  BY <1>8, <1>9 DEF TryCommit
<1>3. PlaceInv'
  BY <1>8, <1>9 DEF TryCommit
<1>4. CanonReadable'
  BY <1>1 DEF TypeOK, CanonReadable, TryCommit
<1>5. AcceptedIsTruth'
  BY <1>1 DEF TypeOK, AcceptedIsTruth, TryCommit
<1>6. DecisionsExplained'
  BY <1>1 DEF TypeOK, DecisionsExplained, TryCommit
<1> QED
  BY <1>2, <1>3, <1>4, <1>5, <1>6 DEF Inv

LEMMA PutRevisionStep ==
  ASSUME Inv, PutRevision
  PROVE  Inv'
<1> USE ProposalsAssumption
        DEF PlaceInv, At, Stored, Pointed, History, Bounds, stores, Goto, Matches
<1>1. TypeOK /\ PlaceInv /\ CanonReadable /\ AcceptedIsTruth /\ DecisionsExplained
  BY DEF Inv
<1>2. TypeOK'
  BY <1>1 DEF TypeOK, PutRevision, Job, Places, Writing, Statuses
<1>3. PlaceInv'
  BY <1>1, <1>2 DEF TypeOK, PutRevision, Job, Calm
<1>4. CanonReadable'
  BY <1>1 DEF TypeOK, CanonReadable, PutRevision
<1>5. AcceptedIsTruth'
  BY <1>1 DEF TypeOK, AcceptedIsTruth, PutRevision
<1>6. DecisionsExplained'
  BY <1>1 DEF TypeOK, DecisionsExplained, PutRevision
<1> QED
  BY <1>2, <1>3, <1>4, <1>5, <1>6 DEF Inv

LEMMA FillRevisionStep ==
  ASSUME Inv, FillRevision
  PROVE  Inv'
<1> USE ProposalsAssumption
        DEF PlaceInv, At, Stored, Pointed, History, Bounds, stores, Goto, Matches
<1>1. TypeOK /\ PlaceInv /\ CanonReadable /\ AcceptedIsTruth /\ DecisionsExplained
  BY DEF Inv
<1>2. TypeOK'
  BY <1>1 DEF TypeOK, FillRevision, Job, Places, Writing, Statuses
<1>3. PlaceInv'
  BY <1>1, <1>2 DEF TypeOK, FillRevision, Job, Calm
<1>4. CanonReadable'
  BY <1>1 DEF TypeOK, CanonReadable, FillRevision
<1>5. AcceptedIsTruth'
  BY <1>1 DEF TypeOK, AcceptedIsTruth, FillRevision
<1>6. DecisionsExplained'
  BY <1>1 DEF TypeOK, DecisionsExplained, FillRevision
<1> QED
  BY <1>2, <1>3, <1>4, <1>5, <1>6 DEF Inv

LEMMA PointStep ==
  ASSUME Inv, Point
  PROVE  Inv'
<1> USE ProposalsAssumption
        DEF PlaceInv, At, Stored, Pointed, History, Bounds, stores, Goto, Matches
<1>1. TypeOK /\ PlaceInv /\ CanonReadable /\ AcceptedIsTruth /\ DecisionsExplained
  BY DEF Inv
<1>2. TypeOK'
  BY <1>1 DEF TypeOK, Point, Job, Places, Writing, Statuses
<1>3. PlaceInv'
  BY <1>1, <1>2 DEF TypeOK, Point, Job, Calm
<1>4. CanonReadable'
  BY <1>1 DEF TypeOK, CanonReadable, Point
<1>5. AcceptedIsTruth'
  BY <1>1 DEF TypeOK, AcceptedIsTruth, Point
<1>6. DecisionsExplained'
  BY <1>1 DEF TypeOK, DecisionsExplained, Point
<1> QED
  BY <1>2, <1>3, <1>4, <1>5, <1>6 DEF Inv

LEMMA PutAssertionStep ==
  ASSUME Inv, PutAssertion
  PROVE  Inv'
<1> USE ProposalsAssumption
        DEF PlaceInv, At, Stored, Pointed, History, Bounds, stores, Goto, Matches
<1>1. TypeOK /\ PlaceInv /\ CanonReadable /\ AcceptedIsTruth /\ DecisionsExplained
  BY DEF Inv
<1>2. TypeOK'
  BY <1>1 DEF TypeOK, PutAssertion, Job, Places, Writing, Statuses
<1>3. PlaceInv'
  BY <1>1, <1>2 DEF TypeOK, PutAssertion, Job, Calm
<1>4. CanonReadable'
  BY <1>1 DEF TypeOK, CanonReadable, PutAssertion
<1>5. AcceptedIsTruth'
  BY <1>1 DEF TypeOK, AcceptedIsTruth, PutAssertion
<1>6. DecisionsExplained'
  BY <1>1 DEF TypeOK, DecisionsExplained, PutAssertion
<1> QED
  BY <1>2, <1>3, <1>4, <1>5, <1>6 DEF Inv

LEMMA FillAssertionStep ==
  ASSUME Inv, FillAssertion
  PROVE  Inv'
<1> USE ProposalsAssumption
        DEF PlaceInv, At, Stored, Pointed, History, Bounds, stores, Goto, Matches
<1>1. TypeOK /\ PlaceInv /\ CanonReadable /\ AcceptedIsTruth /\ DecisionsExplained
  BY DEF Inv
<1>2. TypeOK'
  BY <1>1 DEF TypeOK, FillAssertion, Job, Places, Writing, Statuses
<1>3. PlaceInv'
  BY <1>1, <1>2 DEF TypeOK, FillAssertion, Job, Calm
<1>4. CanonReadable'
  BY <1>1 DEF TypeOK, CanonReadable, FillAssertion
<1>5. AcceptedIsTruth'
  BY <1>1 DEF TypeOK, AcceptedIsTruth, FillAssertion
<1>6. DecisionsExplained'
  BY <1>1 DEF TypeOK, DecisionsExplained, FillAssertion
<1> QED
  BY <1>2, <1>3, <1>4, <1>5, <1>6 DEF Inv

LEMMA BindStep ==
  ASSUME Inv, Bind
  PROVE  Inv'
<1> USE ProposalsAssumption
        DEF PlaceInv, At, Stored, Pointed, History, Bounds, stores, Goto, Matches
<1>1. TypeOK /\ PlaceInv /\ CanonReadable /\ AcceptedIsTruth /\ DecisionsExplained
  BY DEF Inv
<1>2. TypeOK'
  BY <1>1 DEF TypeOK, Bind, Job, Places, Writing, Statuses
<1>3. PlaceInv'
  BY <1>1, <1>2 DEF TypeOK, Bind, Job, Calm
<1>4. CanonReadable'
  BY <1>1 DEF TypeOK, CanonReadable, Bind
<1>5. AcceptedIsTruth'
  BY <1>1 DEF TypeOK, AcceptedIsTruth, Bind
<1>6. DecisionsExplained'
  BY <1>1 DEF TypeOK, DecisionsExplained, Bind
<1> QED
  BY <1>2, <1>3, <1>4, <1>5, <1>6 DEF Inv

LEMMA MoveStep ==
  ASSUME Inv, Move
  PROVE  Inv'
<1> USE ProposalsAssumption
        DEF PlaceInv, At, Stored, Pointed, History, Bounds, stores, Goto, Matches
<1>1. TypeOK /\ PlaceInv /\ CanonReadable /\ AcceptedIsTruth /\ DecisionsExplained
  BY DEF Inv
<1>2. TypeOK'
  BY <1>1 DEF TypeOK, Move, Job, Places, Writing, Statuses
<1>3. PlaceInv'
  BY <1>1, <1>2 DEF TypeOK, Move, Job, Calm
<1>4. CanonReadable'
  BY <1>1 DEF TypeOK, CanonReadable, Move
<1>5. AcceptedIsTruth'
  BY <1>1 DEF TypeOK, AcceptedIsTruth, Move
<1>6. DecisionsExplained'
  BY <1>1 DEF TypeOK, DecisionsExplained, Move
<1> QED
  BY <1>2, <1>3, <1>4, <1>5, <1>6 DEF Inv

LEMMA StripStep ==
  ASSUME Inv, NEW a \in Artifacts, Strip(a)
  PROVE  Inv'
<1> USE ProposalsAssumption
        DEF PlaceInv, At, Stored, Pointed, History, Bounds, stores, Goto, Matches
<1>1. TypeOK /\ PlaceInv /\ CanonReadable /\ AcceptedIsTruth /\ DecisionsExplained
  BY DEF Inv
<1>2. TypeOK'
  BY <1>1 DEF TypeOK, Strip, Job, Places, Writing, Statuses
<1>3. PlaceInv'
  BY <1>1, <1>2 DEF TypeOK, Strip, Job, Calm
<1>4. CanonReadable'
  BY <1>1 DEF TypeOK, CanonReadable, Strip
<1>5. AcceptedIsTruth'
  BY <1>1 DEF TypeOK, AcceptedIsTruth, Strip
<1>6. DecisionsExplained'
  BY <1>1 DEF TypeOK, DecisionsExplained, Strip
<1> QED
  BY <1>2, <1>3, <1>4, <1>5, <1>6 DEF Inv

LEMMA PurgeStep ==
  ASSUME Inv, NEW p \in Ids, Purge(p)
  PROVE  Inv'
<1> USE ProposalsAssumption
        DEF PlaceInv, At, Stored, Pointed, History, Bounds, stores, Goto, Matches
<1>1. TypeOK /\ PlaceInv /\ CanonReadable /\ AcceptedIsTruth /\ DecisionsExplained
  BY DEF Inv
<1>2. TypeOK'
  BY <1>1 DEF TypeOK, Purge, Job, Places, Writing, Statuses
<1>3. PlaceInv'
  BY <1>1, <1>2 DEF TypeOK, Purge, Job, Calm
<1>4. CanonReadable'
  BY <1>1 DEF TypeOK, CanonReadable, Purge
<1>5. AcceptedIsTruth'
  BY <1>1 DEF TypeOK, AcceptedIsTruth, Purge
<1>6. DecisionsExplained'
  BY <1>1 DEF TypeOK, DecisionsExplained, Purge
<1> QED
  BY <1>2, <1>3, <1>4, <1>5, <1>6 DEF Inv

LEMMA InvStep == Inv /\ [Next]_vars => Inv'
<1> SUFFICES ASSUME Inv, [Next]_vars
             PROVE  Inv'
  OBVIOUS
<1>1. CASE UNCHANGED vars
  BY <1>1 DEF vars, stores, Inv, TypeOK, PlaceInv, CanonReadable, AcceptedIsTruth,
     DecisionsExplained
<1>2. CASE Next
  BY <1>2, OpeningStep, PassingStep, SubmitStep, FillProposalStep, BeginRejectionStep,
     ReportStep, FillReportStep, RetireStep, TryCommitStep, PutRevisionStep,
     FillRevisionStep, PointStep, PutAssertionStep, FillAssertionStep, BindStep,
     MoveStep, StripStep, PurgeStep DEF Next
<1> QED
  BY <1>1, <1>2

\* The places of commands and the properties hold in every reachable state.
THEOREM Invariance == Spec => []Inv
BY InitInv, InvStep, PTL DEF Spec

\* Every variable keeps its type, for any number of proposals and artifacts.
THEOREM TypeCorrect == Spec => []TypeOK
<1>1. Inv => TypeOK
  BY DEF Inv
<1> QED
  BY <1>1, Invariance, PTL

\* No reference or binding ever names a file that was cut short, whatever
\* writes fail (CanonicalModelStore.put, replaceForArtifact).
THEOREM CanonAlwaysReadable == Spec => []CanonReadable
<1>1. Inv => CanonReadable
  BY DEF Inv
<1> QED
  BY <1>1, Invariance, PTL

\* Outside unfinished commits the canonical model is what was accepted last,
\* with the evidence it was accepted with (commitParsed).
THEOREM AcceptedStaysTruth == Spec => []AcceptedIsTruth
<1>1. Inv => AcceptedIsTruth
  BY DEF Inv
<1> QED
  BY <1>1, Invariance, PTL

\* A rejected proposal has a whole report and an accepted one all its
\* revisions (ProposalStore.reject, commitParsed).
THEOREM DecisionsStayExplained == Spec => []DecisionsExplained
<1>1. Inv => DecisionsExplained
  BY DEF Inv
<1> QED
  BY <1>1, Invariance, PTL
=============================================================================
