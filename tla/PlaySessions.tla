---------------------------- MODULE PlaySessions ----------------------------
(***************************************************************************)
(* The play sessions of a workspace (src/world/play-session.ts): one       *)
(* record file per session and the pointer active.json, with the web       *)
(* commands (application/play-service.ts, maintenance-service.ts), the     *)
(* moves that activate their session, and the removal of world instances   *)
(* (world/removal.ts).                                                     *)
(*                                                                         *)
(* Of a session only the status is kept; titles, actors and heads are      *)
(* data.  Every file write is a step of its own; reads that directly       *)
(* follow each other are one step.  Version 1 files and the sessions that  *)
(* the CLI names after their branch are left out.                          *)
(***************************************************************************)
CONSTANTS
  Session, Branch,
  BranchOf,        \* the branch a session plays on
  Worker,          \* what runs concurrently
  KindsOf,         \* the operations each worker carries out
  NoSession,
  CrashesAllowed

Kinds == {"create", "activate", "update", "restore", "remove", "detach", "drop", "move"}

ASSUME WorkerAssumption == KindsOf \in [Worker -> SUBSET Kinds]
ASSUME SessionAssumption ==
  /\ BranchOf \in [Session -> Branch] /\ NoSession \notin Session
  /\ \A b \in Branch : \E s \in Session : BranchOf[s] = b

VARIABLES
  record,     \* the status in the record file of each session, or "none"
  pointer,    \* the session of active.json, or NoSession
  used,       \* sessions that have been created
  branches,   \* world instances that exist
  job,        \* what each worker is doing
  crashed,    \* whether the host has died in the middle of something
  reopened    \* sessions that a client's update took out of "detached" (history)

vars == <<record, pointer, used, branches, job, crashed, reopened>>

Status == {"none", "idle", "active", "archived", "detached"}
Job(kind, at, s, seen) ==
  [kind |-> kind, at |-> at, session |-> s, seen |-> seen, prev |-> NoSession, todo |-> {}]

Free == Job("none", "done", NoSession, "none")

Init ==
  /\ record = [s \in Session |-> "none"]
  /\ pointer = NoSession
  /\ used = {} /\ branches = Branch
  /\ job = [w \in Worker |-> Free]
  /\ crashed = FALSE /\ reopened = {}

\* getById, listInstances: the copy in active.json hides the record.
Seen(s) == IF pointer = s THEN "active" ELSE record[s]

Playable == {"idle", "active"}
OnBranch(s) == BranchOf[s] \in branches
Save(s, status) == record' = [record EXCEPT ![s] = status]

\* assertNoActiveOperation, instanceBlockers.
NoMoveOn(S) == \A w \in Worker : job[w].kind = "move" => job[w].session \notin S

Begin(w, kind, s, at) ==
  /\ job[w] = Free /\ kind \in KindsOf[w]
  /\ job' = [job EXCEPT ![w] = Job(kind, at, s, Seen(s))]

At(w, at) == job[w].at = at
Go(w, at) == job' = [job EXCEPT ![w].at = at]
Done(w) == job' = [job EXCEPT ![w] = Free]

-----------------------------------------------------------------------------
(* write: demote the previous session, write the record, move the pointer  *)

\* choosePlayExperience with a new identity.
Create(w, s) ==
  /\ s \notin used /\ OnBranch(s)
  /\ \A other \in Worker : job[other].session # s
  /\ Begin(w, "create", s, "write")
  /\ UNCHANGED <<record, pointer, used, branches, crashed, reopened>>

\* Mutant: an archived session is as good as an idle one.
ActivateArchived(w, s) ==
  /\ Seen(s) \in Playable \cup {"archived"}
  /\ Begin(w, "activate", s, "write")
  /\ UNCHANGED <<record, pointer, used, branches, crashed, reopened>>

\* activate refuses sessions that are unknown, archived or detached.
Activate(w, s) ==
  /\ Seen(s) \in Playable
  /\ Begin(w, "activate", s, "write")
  /\ UNCHANGED <<record, pointer, used, branches, crashed, reopened>>

ReadPrevious(w) ==
  /\ At(w, "write")
  /\ job' = [job EXCEPT ![w].prev = pointer,
               ![w].at = IF pointer \in {NoSession, job[w].session} THEN "promote" ELSE "demote"]
  /\ UNCHANGED <<record, pointer, used, branches, crashed, reopened>>

\* Mutant: the record of the previous session is left as it is.
DemoteNobody(w) ==
  /\ At(w, "demote")
  /\ Go(w, "promote")
  /\ UNCHANGED <<record, pointer, used, branches, crashed, reopened>>

Demote(w) ==
  /\ At(w, "demote")
  /\ Save(job[w].prev, "idle")
  /\ Go(w, "promote")
  /\ UNCHANGED <<pointer, used, branches, crashed, reopened>>

\* Mutant: only the pointer is written.
PromoteSkipped(w) ==
  /\ At(w, "promote")
  /\ Go(w, "point")
  /\ UNCHANGED <<record, pointer, used, branches, crashed, reopened>>

Promote(w) ==
  /\ At(w, "promote")
  /\ Save(job[w].session, "active")
  /\ used' = used \cup {job[w].session}
  /\ Go(w, "point")
  /\ UNCHANGED <<pointer, branches, crashed, reopened>>

Point(w) ==
  /\ At(w, "point")
  /\ pointer' = job[w].session
  /\ CASE job[w].kind = "move" /\ job[w].seen # "persisted" -> Go(w, "turn")
       [] job[w].kind = "create" -> Go(w, "title")
       [] OTHER -> Done(w)
  /\ UNCHANGED <<record, used, branches, crashed, reopened>>

\* createSessionOnce: a session whose title is not the wanted one is updated.
Entitle(w) ==
  /\ At(w, "title")
  /\ \/ /\ Seen(job[w].session) # "none"
        /\ job' = [job EXCEPT ![w].at = "patch", ![w].seen = Seen(job[w].session)]
     \/ Done(w)
  /\ UNCHANGED <<record, pointer, used, branches, crashed, reopened>>

-----------------------------------------------------------------------------
(* updateMetadata, restore, removeSession                                  *)

\* A new status, or a new title, which rewrites the status that was read.
\* Neither updateSession nor updateMetadata looks at the present status: a
\* detached session can be made idle or archived.
Update(w, s, status) ==
  /\ Seen(s) # "none" /\ status \in {"idle", "archived", Seen(s)}
  /\ NoMoveOn({s})
  /\ job[w] = Free /\ "update" \in KindsOf[w]
  /\ job' = [job EXCEPT ![w] = Job("update", "patch", s, status)]
  /\ UNCHANGED <<record, pointer, used, branches, crashed, reopened>>

Patch(w) ==
  /\ At(w, "patch")
  /\ Save(job[w].session, job[w].seen)
  /\ reopened' = reopened \cup {s \in {job[w].session} : record[s] = "detached" /\ job[w].seen # "detached"}
  /\ Go(w, "check")
  /\ UNCHANGED <<pointer, used, branches, crashed>>

Restore(w, s) ==
  /\ Seen(s) = "archived"
  /\ Begin(w, "restore", s, "revive")
  /\ UNCHANGED <<record, pointer, used, branches, crashed, reopened>>

Revive(w) ==
  /\ At(w, "revive")
  /\ Save(job[w].session, "idle")
  /\ Done(w)
  /\ UNCHANGED <<pointer, used, branches, crashed, reopened>>

Remove(w, s) ==
  /\ Seen(s) # "none" /\ NoMoveOn({s})
  /\ Begin(w, "remove", s, "erase")
  /\ UNCHANGED <<record, pointer, used, branches, crashed, reopened>>

Erase(w) ==
  /\ At(w, "erase")
  /\ Save(job[w].session, "none")
  /\ Go(w, "check")
  /\ UNCHANGED <<pointer, used, branches, crashed, reopened>>

\* The pointer is read again after the record was written or removed.
Check(w) ==
  /\ At(w, "check")
  /\ IF pointer = job[w].session THEN Go(w, "repoint") ELSE Done(w)
  /\ UNCHANGED <<record, pointer, used, branches, crashed, reopened>>

Repoint(w) ==
  /\ At(w, "repoint")
  /\ pointer' = IF job[w].kind # "remove" /\ job[w].seen = "active" THEN job[w].session ELSE NoSession
  /\ Done(w)
  /\ UNCHANGED <<record, used, branches, crashed, reopened>>

-----------------------------------------------------------------------------
(* removeWorldInstance with detachInstance (web) or removeInstance (CLI)   *)

SessionsOn(b) == {s \in Session : BranchOf[s] = b}

RemoveBranch(w, b, kind) ==
  /\ kind \in {"detach", "drop"}
  /\ b \in branches /\ (kind = "detach" => NoMoveOn(SessionsOn(b)))
  /\ branches' = branches \ {b}
  /\ Begin(w, kind, CHOOSE s \in SessionsOn(b) : TRUE, "list")
  /\ UNCHANGED <<record, pointer, used, crashed, reopened>>

Removed(w) == BranchOf[job[w].session]

\* Mutant: only the active session of the branch is detached.
ListActive(w) ==
  /\ At(w, "list")
  /\ job' = [job EXCEPT ![w].prev = pointer, ![w].at = "each",
               ![w].todo = {s \in SessionsOn(Removed(w)) : Seen(s) = "active"}]
  /\ UNCHANGED <<record, pointer, used, branches, crashed, reopened>>

List(w) ==
  /\ At(w, "list")
  /\ job' = [job EXCEPT ![w].prev = pointer, ![w].at = "each",
               ![w].todo = {s \in SessionsOn(Removed(w)) : Seen(s) # "none"}]
  /\ UNCHANGED <<record, pointer, used, branches, crashed, reopened>>

Each(w, s) ==
  /\ At(w, "each") /\ s \in job[w].todo
  /\ Save(s, IF job[w].kind = "detach" THEN "detached" ELSE "none")
  /\ job' = [job EXCEPT ![w].todo = @ \ {s}]
  /\ UNCHANGED <<pointer, used, branches, crashed, reopened>>

Clear(w) ==
  /\ At(w, "each") /\ job[w].todo = {}
  /\ IF job[w].prev # NoSession /\ BranchOf[job[w].prev] = Removed(w)
       THEN pointer' = NoSession /\ Go(w, "next")
       ELSE Done(w) /\ UNCHANGED pointer
  /\ UNCHANGED <<record, used, branches, crashed, reopened>>

\* The idle session that was updated last is activated.
ActivateNext(w) ==
  /\ At(w, "next")
  /\ IF \E s \in Session : Seen(s) = "idle"
       THEN \E s \in Session :
              /\ Seen(s) = "idle"
              /\ job' = [job EXCEPT ![w].session = s, ![w].at = "write"]
       ELSE Done(w)
  /\ UNCHANGED <<record, pointer, used, branches, crashed, reopened>>

-----------------------------------------------------------------------------
(* Moves: the session is activated before the turn, and written again      *)
(* after it, whatever has become of it.                                    *)

StartMove(w, s) ==
  /\ Seen(s) \in Playable /\ OnBranch(s) /\ NoMoveOn({s})
  /\ Begin(w, "move", s, "enter")
  /\ UNCHANGED <<record, pointer, used, branches, crashed, reopened>>

\* requireWritableSession and assertExpectedHead, then activate.
EnterMove(w) ==
  /\ At(w, "enter")
  /\ IF Seen(job[w].session) \in Playable /\ OnBranch(job[w].session) THEN Go(w, "write") ELSE Done(w)
  /\ UNCHANGED <<record, pointer, used, branches, crashed, reopened>>

\* persistPlaySession; a narration or a failed move ends without it.
EndTurn(w) ==
  /\ At(w, "turn")
  /\ \/ job' = [job EXCEPT ![w].at = "write", ![w].seen = "persisted"]
     \/ Done(w)
  /\ UNCHANGED <<record, pointer, used, branches, crashed, reopened>>

Crash ==
  /\ CrashesAllowed
  /\ job' = [w \in Worker |-> Free]
  /\ crashed' = (crashed \/ \E w \in Worker : job[w] # Free)
  /\ UNCHANGED <<record, pointer, used, branches, reopened>>

Command(w) ==
  \/ \E s \in Session : Create(w, s) \/ Activate(w, s) \/ Restore(w, s) \/ Remove(w, s) \/ StartMove(w, s)
  \/ \E s \in Session, status \in Status : Update(w, s, status)
  \/ \E b \in Branch, kind \in {"detach", "drop"} : RemoveBranch(w, b, kind)

Work(w) ==
  \/ ReadPrevious(w) \/ Demote(w) \/ Promote(w) \/ Point(w) \/ Entitle(w)
  \/ Patch(w) \/ Revive(w) \/ Erase(w) \/ Check(w) \/ Repoint(w)
  \/ List(w) \/ (\E s \in Session : Each(w, s)) \/ Clear(w) \/ ActivateNext(w)
  \/ EnterMove(w) \/ EndTurn(w)

Next == (\E w \in Worker : Command(w) \/ Work(w)) \/ Crash

Spec == Init /\ [][Next]_vars

-----------------------------------------------------------------------------
(* Properties.                                                             *)

Places == {"done", "write", "demote", "promote", "point", "title", "patch", "check", "revive", "erase",
           "repoint", "list", "each", "next", "enter", "turn"}

\* Types, and: what has a record or is pointed at has been created.
TypeOK ==
  /\ record \in [Session -> Status]
  /\ pointer \in Session \cup {NoSession}
  /\ used \subseteq Session /\ branches \subseteq Branch /\ crashed \in BOOLEAN /\ reopened \subseteq Session
  /\ job \in [Worker -> [kind: Kinds \cup {"none"}, at: Places, session: Session \cup {NoSession},
                         seen: Status \cup {"persisted"}, prev: Session \cup {NoSession},
                         todo: SUBSET Session]]
  /\ \A s \in Session : record[s] # "none" \/ pointer = s => s \in used

Quiet == \A w \in Worker : job[w] = Free

\* Between operations the record that reads active is the one that
\* active.json names, however sessions were created, switched, archived,
\* restored, removed and detached before.
PointerAgrees ==
  Quiet /\ ~crashed => \A s \in Session : record[s] = "active" <=> pointer = s

\* "One branch has at most one writable active play session": between
\* operations no two sessions of a branch read active, whatever ran beside
\* what.
OneActiveSession ==
  Quiet => \A s, t \in Session :
    BranchOf[s] = BranchOf[t] /\ Seen(s) = "active" /\ Seen(t) = "active" => s = t

\* The sessions of a removed world instance are history: between operations
\* none of them is idle or active, except those that a client's update has
\* taken out of "detached".  No activation, move, title, restoration or removal
\* of another instance makes such an exception.
GoneBranchUnplayable ==
  Quiet /\ ~crashed =>
    \A s \in Session : ~OnBranch(s) /\ s \notin reopened => Seen(s) \in {"none", "detached"}

\* The same without the exception, which PlaySessionsDetached.cfg refutes.
GoneForGood ==
  Quiet /\ ~crashed => \A s \in Session : ~OnBranch(s) => Seen(s) \in {"none", "detached"}

\* An archived session stays archived until it is restored, updated, detached
\* or removed itself: no switch of another session, no creation and no
\* removal of another branch brings it back.
ArchivedUntilRestored ==
  [][\A s \in Session :
       ~crashed /\ record[s] = "archived" /\ record'[s] \in Playable =>
         \E w \in Worker : job[w].session = s /\ job[w].kind \in {"restore", "update"}]_vars

\* Seen from its pointer, the store implements SessionBook, also across
\* crashes between its file writes.
BookStatus(s) ==
  IF pointer = s THEN "active" ELSE IF record[s] = "active" THEN "idle" ELSE record[s]

Book == INSTANCE SessionBook WITH status <- [s \in Session |-> BookStatus(s)], opened <- used

BookSpec == Book!BookSpec
=============================================================================
