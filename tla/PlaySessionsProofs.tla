------------------------- MODULE PlaySessionsProofs -------------------------
(***************************************************************************)
(* Play sessions for any numbers of sessions, branches and workers: types, *)
(* and, for one worker, the agreement of the records with active.json and  *)
(* the fate of archived sessions and of the sessions of removed branches.  *)
(*                                                                         *)
(* An operation rewrites one file at a time, so the invariant says what    *)
(* each place of an operation owes to the next (WriteInv, PatchInv,        *)
(* DetachInv); in all other places records and pointer agree.              *)
(***************************************************************************)
EXTENDS PlaySessions, TLAPS

\* What an operation knows of the sessions it holds.
CreatedInv ==
  /\ pointer \in used \cup {NoSession}
  /\ \A w \in Worker :
       /\ job[w].at # "done" => job[w].session \in Session
       /\ job[w].at \in {"point", "title", "patch", "revive", "erase", "check", "repoint", "enter", "turn"} =>
            job[w].session \in used
       /\ job[w].prev \in used \cup {NoSession} /\ job[w].todo \subseteq used
       /\ job[w].at = "demote" => job[w].prev \in used
       /\ job[w].at = "patch" => job[w].seen \in Status \ {"none"}

TypeInv == TypeOK /\ CreatedInv

JobSet == [kind: Kinds \cup {"none"}, at: Places, session: Session \cup {NoSession},
           seen: Status \cup {"persisted"}, prev: Session \cup {NoSession}, todo: SUBSET Session]

LEMMA JobFields ==
  ASSUME TypeOK, NEW w \in Worker
  PROVE  /\ job[w] \in JobSet
         /\ job[w].kind \in Kinds \cup {"none"} /\ job[w].at \in Places
         /\ job[w].session \in Session \cup {NoSession} /\ job[w].seen \in Status \cup {"persisted"}
         /\ job[w].prev \in Session \cup {NoSession} /\ job[w].todo \subseteq Session
BY DEF TypeOK, JobSet

\* An operation that begins.
LEMMA BeginTyped ==
  ASSUME NEW w \in Worker, NEW kind \in KindsOf[w] \cup {"none"}, NEW at \in Places,
         NEW s \in Session \cup {NoSession}, NEW seen \in Status
  PROVE  /\ kind \in Kinds \cup {"none"}
         /\ Job(kind, at, s, seen) \in
              JobSet
         /\ Job(kind, at, s, seen).kind = kind /\ Job(kind, at, s, seen).at = at
         /\ Job(kind, at, s, seen).session = s /\ Job(kind, at, s, seen).seen = seen
         /\ Job(kind, at, s, seen).prev = NoSession /\ Job(kind, at, s, seen).todo = {}
BY WorkerAssumption DEF Job, JobSet

LEMMA SeenTyped ==
  ASSUME TypeOK, NEW s \in Session
  PROVE  Seen(s) \in Status /\ (Seen(s) # "none" => s \in used)
BY DEF TypeOK, Seen, Status

\* A saved record, of a session that has been created.
LEMMA SaveTyped ==
  ASSUME TypeOK, NEW s \in used, NEW status \in Status, Save(s, status)
  PROVE  /\ record' \in [Session -> Status]
         /\ \A t \in Session : record'[t] # "none" => t \in used
BY DEF TypeOK, Save

LEMMA InitTyped == Init => TypeInv
<1> SUFFICES ASSUME Init PROVE TypeInv
  OBVIOUS
<1>1. \A w \in Worker : job[w] = Job("none", "done", NoSession, "none")
  BY DEF Init, Free
<1>2. TypeOK
  <2>1. Job("none", "done", NoSession, "none") \in
          JobSet
    BY DEF Job, JobSet, Status, Places
  <2> QED
    BY <2>1, SessionAssumption DEF Init, TypeOK, JobSet, Status, Free
<1>3. CreatedInv
  BY <1>1 DEF Init, CreatedInv, Job
<1> QED
  BY <1>2, <1>3 DEF TypeInv

\* Any step of an operation that only changes its own job keeps the types.
LEMMA JobTyped ==
  ASSUME TypeInv, NEW w \in Worker,
         NEW j \in JobSet,
         job' = [job EXCEPT ![w] = j],
         record' \in [Session -> Status], pointer' \in used' \cup {NoSession},
         used \subseteq used', used' \subseteq Session, branches' \subseteq Branch, crashed' \in BOOLEAN,
         reopened' \subseteq Session,
         \A t \in Session : record'[t] # "none" => t \in used',
         j.at # "done" => j.session \in Session,
         j.at \in {"point", "title", "patch", "revive", "erase", "check", "repoint", "enter", "turn"} => j.session \in used',
         j.prev \in used' \cup {NoSession}, j.todo \subseteq used',
         j.at = "demote" => j.prev \in used',
         j.at = "patch" => j.seen \in Status \ {"none"}
  PROVE  TypeInv'
<1>1. TypeOK'
  BY SessionAssumption DEF TypeInv, TypeOK, JobSet
<1>2. ASSUME NEW v \in Worker
      PROVE  /\ job'[v].at # "done" => job'[v].session \in Session
             /\ job'[v].at \in {"point", "title", "patch", "revive", "erase", "check", "repoint", "enter", "turn"} =>
                  job'[v].session \in used'
             /\ job'[v].prev \in used' \cup {NoSession} /\ job'[v].todo \subseteq used'
             /\ job'[v].at = "demote" => job'[v].prev \in used'
             /\ job'[v].at = "patch" => job'[v].seen \in Status \ {"none"}
  <2>1. CASE v = w
    BY <2>1 DEF TypeInv, TypeOK
  <2>2. CASE v # w
    <3>1. job'[v] = job[v]
      BY <2>2 DEF TypeInv, TypeOK
    <3> QED
      BY <3>1 DEF TypeInv, CreatedInv
  <2> QED
    BY <2>1, <2>2
<1> QED
  BY <1>1, <1>2 DEF TypeInv, CreatedInv

LEMMA CommandTyped == ASSUME TypeInv, NEW w \in Worker, Command(w) PROVE TypeInv'
<1> USE DEF TypeInv
<1>w. /\ record \in [Session -> Status] /\ pointer \in used \cup {NoSession} /\ used \subseteq Session
      /\ branches \subseteq Branch /\ crashed \in BOOLEAN /\ reopened \subseteq Session
      /\ \A t \in Session : record[t] # "none" => t \in used
  BY DEF TypeOK, CreatedInv
<1>1. ASSUME NEW s \in Session, NEW kind \in KindsOf[w], NEW at \in {"write", "revive", "erase", "enter", "patch", "list"},
             NEW seen \in Status,
             job' = [job EXCEPT ![w] = Job(kind, at, s, seen)], at \in {"write", "list"} \/ s \in used,
             at = "patch" => seen # "none",
             UNCHANGED <<record, pointer, used, crashed, reopened>>, branches' \subseteq branches
      PROVE  TypeInv'
  <2> DEFINE j == Job(kind, at, s, seen)
  <2>1. /\ j \in JobSet
        /\ j.at = at /\ j.session = s /\ j.seen = seen /\ j.prev = NoSession /\ j.todo = {}
    BY BeginTyped DEF Places
  <2>2. job' = [job EXCEPT ![w] = j]
    BY <1>1
  <2> HIDE DEF j
  <2> QED
    BY <1>1, <1>w, <2>1, <2>2, JobTyped
<1>2. ASSUME NEW s \in Session, NEW kind, NEW at \in {"write", "revive", "erase", "enter", "list"},
             Begin(w, kind, s, at), at \in {"write", "list"} \/ s \in used,
             UNCHANGED <<record, pointer, used, crashed, reopened>>, branches' \subseteq branches
      PROVE  TypeInv'
  BY <1>1, <1>2, SeenTyped DEF Begin
<1>3. ASSUME NEW s \in Session, Create(w, s) \/ Activate(w, s) \/ Restore(w, s) \/ Remove(w, s) \/ StartMove(w, s)
      PROVE  TypeInv'
  <2>1. Seen(s) # "none" => s \in used
    BY SeenTyped
  <2>2. CASE Create(w, s)
    BY <1>2, <2>2 DEF Create
  <2>3. CASE Activate(w, s)
    BY <1>2, <2>3 DEF Activate
  <2>4. CASE Restore(w, s)
    BY <1>2, <2>1, <2>4 DEF Restore
  <2>5. CASE Remove(w, s)
    BY <1>2, <2>1, <2>5 DEF Remove
  <2>6. CASE StartMove(w, s)
    BY <1>2, <2>1, <2>6 DEF StartMove, Playable
  <2> QED
    BY <1>3, <2>2, <2>3, <2>4, <2>5, <2>6
<1>4. ASSUME NEW s \in Session, NEW status \in Status, Update(w, s, status) PROVE TypeInv'
  <2>1. status # "none" /\ s \in used
    BY <1>4, SeenTyped DEF Update
  <2> QED
    BY <1>1, <1>4, <2>1 DEF Update
<1>5. ASSUME NEW b \in Branch, NEW kind \in {"detach", "drop"}, RemoveBranch(w, b, kind) PROVE TypeInv'
  <2> DEFINE s == CHOOSE s \in SessionsOn(b) : TRUE
  <2>1. s \in Session
    BY SessionAssumption DEF SessionsOn
  <2>2. Begin(w, kind, s, "list") /\ branches' \subseteq branches /\ UNCHANGED <<record, pointer, used, crashed, reopened>>
    BY <1>5 DEF RemoveBranch
  <2> HIDE DEF s
  <2> QED
    BY <1>2, <2>1, <2>2
<1> QED
  BY <1>3, <1>4, <1>5 DEF Command

Held == {"point", "title", "patch", "revive", "erase", "check", "repoint", "enter", "turn"}

\* A step that moves an operation on, or ends it.
LEMMA StepTyped ==
  ASSUME TypeInv, NEW w \in Worker, job[w].at # "done",
         record' \in [Session -> Status], pointer' \in used' \cup {NoSession},
         used \subseteq used', used' \subseteq Session, branches' = branches, crashed' = crashed,
         reopened' \subseteq Session,
         \A t \in Session : record'[t] # "none" => t \in used',
         NEW j \in JobSet, job' = [job EXCEPT ![w] = j],
         j.at # "done" => j.session \in Session,
         j.at \in Held => j.session \in used', j.prev \in used \cup {NoSession}, j.todo \subseteq used,
         j.at = "demote" => j.prev # NoSession, j.at = "patch" => j.seen \in Status \ {"none"}
  PROVE  TypeInv'
<1>1. branches' \subseteq Branch /\ crashed' \in BOOLEAN
  BY DEF TypeInv, TypeOK
<1>2. j.prev \in used' \cup {NoSession} /\ j.todo \subseteq used'
  OBVIOUS
<1> QED
  BY <1>1, <1>2, JobTyped DEF Held

LEMMA DoneTyped ==
  ASSUME NEW w \in Worker, Done(w)
  PROVE  \E j \in JobSet : job' = [job EXCEPT ![w] = j] /\ j.at = "done" /\ j.prev = NoSession /\ j.todo = {}
<1>1. /\ Free \in JobSet /\ Free.at = "done" /\ Free.prev = NoSession /\ Free.todo = {}
  BY DEF Free, Job, JobSet, Places, Status
<1> QED
  BY <1>1 DEF Done

\* A step that changes nothing of the job but the place.
LEMMA GoTyped ==
  ASSUME TypeInv, NEW w \in Worker, NEW at \in Places, Go(w, at)
  PROVE  \E j \in JobSet : /\ job' = [job EXCEPT ![w] = j] /\ j.at = at /\ j.session = job[w].session
                           /\ j.prev = job[w].prev /\ j.todo = job[w].todo
<1> DEFINE j == [job[w] EXCEPT !.at = at]
<1>1. /\ j \in JobSet /\ j.at = at /\ j.session = job[w].session /\ j.prev = job[w].prev /\ j.todo = job[w].todo
  BY JobFields DEF JobSet, TypeInv
<1>2. job' = [job EXCEPT ![w] = j]
  BY DEF Go
<1> QED
  BY <1>1, <1>2

LEMMA WorkTyped == ASSUME TypeInv, NEW w \in Worker, Work(w) PROVE TypeInv'
<1>w. /\ record \in [Session -> Status] /\ pointer \in used \cup {NoSession} /\ used \subseteq Session
      /\ reopened \subseteq Session /\ \A t \in Session : record[t] # "none" => t \in used
  BY DEF TypeInv, TypeOK, CreatedInv
<1>j. /\ job[w].at \in Places /\ job[w].seen \in Status \cup {"persisted"}
      /\ job[w].at # "done" => job[w].session \in Session
      /\ job[w].at \in Held => job[w].session \in used
      /\ job[w].prev \in used \cup {NoSession} /\ job[w].todo \in SUBSET used
      /\ job[w].at = "demote" => job[w].prev \in used
      /\ job[w].at = "patch" => job[w].seen \in Status \ {"none"}
  BY JobFields DEF TypeInv, CreatedInv, Held
\* Steps that go on with the same job, with records, pointer and sessions of their own types.
<1>g. ASSUME NEW at \in Places \ {"demote", "patch"}, job[w].at # "done", Done(w) \/ Go(w, at),
             at \in Held => job[w].session \in used',
             record' \in [Session -> Status], pointer' \in used' \cup {NoSession},
             used \subseteq used', used' \subseteq Session, branches' = branches, crashed' = crashed,
             reopened' \subseteq Session,
             \A t \in Session : record'[t] # "none" => t \in used'
      PROVE  TypeInv'
  <2>1. CASE Done(w)
    <3>1. PICK j \in JobSet : job' = [job EXCEPT ![w] = j] /\ j.at = "done" /\ j.prev = NoSession /\ j.todo = {}
      BY <2>1, DoneTyped
    <3> QED
      BY <1>g, <3>1, StepTyped DEF Held
  <2>2. CASE Go(w, at)
    <3>1. PICK j \in JobSet : /\ job' = [job EXCEPT ![w] = j] /\ j.at = at /\ j.session = job[w].session
                             /\ j.prev = job[w].prev /\ j.todo = job[w].todo
      BY <2>2, GoTyped
    <3> QED
      BY <1>g, <1>j, <3>1, StepTyped
  <2> QED
    BY <1>g, <2>1, <2>2
<1>d. ASSUME job[w].at # "done", Done(w),
             record' \in [Session -> Status], pointer' \in used \cup {NoSession},
             used' = used, branches' = branches, crashed' = crashed, reopened' = reopened,
             \A t \in Session : record'[t] # "none" => t \in used
      PROVE  TypeInv'
  <2>1. PICK j \in JobSet : job' = [job EXCEPT ![w] = j] /\ j.at = "done" /\ j.prev = NoSession /\ j.todo = {}
    BY <1>d, DoneTyped
  <2> QED
    BY <1>d, <1>w, <2>1, StepTyped DEF Held
<1>s. ASSUME job[w].at # "done", UNCHANGED <<pointer, used, branches, crashed, reopened>>,
             record' \in [Session -> Status], \A t \in Session : record'[t] # "none" => t \in used,
             NEW j \in JobSet, job' = [job EXCEPT ![w] = j],
             j.at # "done" => j.session \in Session,
             j.at \in Held => j.session \in used, j.prev \in used \cup {NoSession}, j.todo \subseteq used,
             j.at = "demote" => j.prev # NoSession, j.at = "patch" => j.seen \in Status \ {"none"}
      PROVE  TypeInv'
  BY <1>s, <1>w, StepTyped
<1>t. job[w] \in JobSet
  BY JobFields DEF TypeInv
<1>1. CASE ReadPrevious(w)
  <2> DEFINE at == IF pointer \in {NoSession, job[w].session} THEN "promote" ELSE "demote"
             j == [job[w] EXCEPT !.prev = pointer, !.at = at]
  <2>1. at \in Places /\ at \notin Held /\ (at = "demote" => pointer # NoSession) /\ at \notin {"patch", "done"}
    BY DEF Places, Held
  <2>2. job' = [job EXCEPT ![w] = j] /\ job[w].at # "done" /\ UNCHANGED <<record, pointer, used, branches, crashed, reopened>>
    BY <1>1 DEF ReadPrevious, At
  <2> HIDE DEF at
  <2>3. j \in JobSet /\ j.at = at /\ j.session = job[w].session /\ j.prev = pointer /\ j.todo = job[w].todo
    BY <1>t, <1>w, <2>1 DEF JobSet
  <2> HIDE DEF j
  <2> QED
    BY <1>w, <1>j, <1>s, <2>1, <2>2, <2>3
<1>2. CASE Demote(w)
  <2>1. job[w].prev \in used /\ "idle" \in Status
    BY <1>2, <1>j DEF Demote, At, Status
  <2> QED
    BY <1>2, <1>g, <1>w, <2>1, SaveTyped DEF Demote, At, Places, Held, TypeInv
<1>3. CASE Promote(w)
  <2>1. used' = used \cup {job[w].session} /\ job[w].session \in Session
    BY <1>3, <1>j DEF Promote, At
  <2>2. record' \in [Session -> Status] /\ \A t \in Session : record'[t] # "none" => t \in used'
    BY <1>3, <1>w, <2>1 DEF Promote, Save, Status
  <2> QED
    BY <1>3, <1>g, <1>w, <2>1, <2>2 DEF Promote, At, Places, Held
<1>4. CASE Point(w)
  <2>1. pointer' \in used' \cup {NoSession}
    BY <1>4, <1>j DEF Point, At, Held
  <2>2. Go(w, "turn") \/ Go(w, "title") \/ Done(w)
    BY <1>4 DEF Point
  <2> QED
    BY <1>4, <1>g, <1>j, <1>w, <2>1, <2>2 DEF Point, At, Places, Held
<1>5. CASE Entitle(w)
  <2>1. CASE Done(w)
    BY <1>5, <1>w, <2>1, <1>d DEF Entitle, At
  <2>2. CASE ~Done(w)
    <3> DEFINE seen == Seen(job[w].session)
               j == [job[w] EXCEPT !.at = "patch", !.seen = seen]
    <3>1. job[w].session \in used /\ seen \in Status \ {"none"}
      BY <1>5, <1>j, <1>w, <2>2, SeenTyped DEF Entitle, At, Held, TypeInv
    <3>2. job' = [job EXCEPT ![w] = j] /\ job[w].at # "done" /\ UNCHANGED <<record, pointer, used, branches, crashed, reopened>>
      BY <1>5, <2>2 DEF Entitle, At
    <3> HIDE DEF seen
    <3>3. /\ j \in JobSet /\ j.at = "patch" /\ j.session = job[w].session /\ j.prev = job[w].prev
          /\ j.todo = job[w].todo /\ j.seen = seen
      BY <1>t, <3>1 DEF JobSet, Places
    <3> HIDE DEF j
    <3> QED
      BY <1>w, <1>j, <1>s, <3>1, <3>2, <3>3
  <2> QED
    BY <2>1, <2>2
<1>6. CASE Patch(w)
  <2>1. job[w].session \in used /\ job[w].seen \in Status
    BY <1>6, <1>j DEF Patch, At, Held
  <2>2. reopened' \subseteq Session
    BY <1>6, <1>w, <2>1 DEF Patch
  <2> QED
    BY <1>6, <1>g, <1>w, <2>1, <2>2, SaveTyped DEF Patch, At, Places, Held, TypeInv
<1>7. CASE Revive(w)
  <2>1. job[w].session \in used /\ "idle" \in Status
    BY <1>7, <1>j DEF Revive, At, Held, Status
  <2> QED
    BY <1>7, <1>w, <2>1, <1>d, SaveTyped DEF Revive, At, TypeInv
<1>8. CASE Erase(w)
  <2>1. job[w].session \in used /\ "none" \in Status
    BY <1>8, <1>j DEF Erase, At, Held, Status
  <2> QED
    BY <1>8, <1>g, <1>w, <2>1, SaveTyped DEF Erase, At, Places, Held, TypeInv
<1>9. CASE Check(w)
  BY <1>9, <1>g, <1>j, <1>w DEF Check, At, Places, Held
<1>10. CASE Repoint(w)
  <2>1. pointer' \in used' \cup {NoSession}
    BY <1>10, <1>j DEF Repoint, At, Held
  <2> QED
    BY <1>10, <1>w, <2>1, <1>d DEF Repoint, At
<1>11. CASE List(w)
  <2> DEFINE todo == {s \in SessionsOn(Removed(w)) : Seen(s) # "none"}
             j == [job[w] EXCEPT !.prev = pointer, !.at = "each", !.todo = todo]
  <2>1. todo \in SUBSET used
    BY SeenTyped DEF SessionsOn, TypeInv
  <2>2. job' = [job EXCEPT ![w] = j] /\ job[w].at # "done" /\ UNCHANGED <<record, pointer, used, branches, crashed, reopened>>
    BY <1>11 DEF List, At
  <2> HIDE DEF todo
  <2>3. /\ j \in JobSet /\ j.at = "each" /\ j.session = job[w].session /\ j.prev = pointer /\ j.todo = todo
    BY <1>t, <1>w, <2>1 DEF JobSet, Places
  <2> HIDE DEF j
  <2> QED
    BY <1>w, <1>j, <1>s, <2>1, <2>2, <2>3 DEF Held
<1>12. ASSUME NEW s \in Session, Each(w, s) PROVE TypeInv'
  <2> DEFINE todo == job[w].todo \ {s}
  <2>1. s \in used /\ todo \in SUBSET used
    BY <1>12, <1>j DEF Each
  <2>2. record' \in [Session -> Status] /\ \A t \in Session : record'[t] # "none" => t \in used
    BY <1>12, <2>1, SaveTyped DEF Each, Status, TypeInv
  <2> DEFINE j == [job[w] EXCEPT !.todo = todo]
  <2>3. job' = [job EXCEPT ![w] = j] /\ job[w].at = "each" /\ UNCHANGED <<pointer, used, branches, crashed, reopened>>
    BY <1>12 DEF Each, At
  <2> HIDE DEF todo
  <2>4. j \in JobSet /\ j.at = "each" /\ j.session = job[w].session /\ j.prev = job[w].prev /\ j.todo = todo
    BY <1>t, <1>w, <2>1, <2>3 DEF JobSet
  <2> HIDE DEF j
  <2> QED
    BY <1>w, <1>j, <1>s, <2>1, <2>2, <2>3, <2>4 DEF Held
<1>13. CASE Clear(w)
  <2>1. pointer' \in used' \cup {NoSession}
    BY <1>13, <1>w DEF Clear
  <2> QED
    BY <1>13, <1>g, <1>w, <2>1 DEF Clear, At, Places, Held
<1>14. CASE ActivateNext(w)
  <2>1. CASE Done(w)
    BY <1>14, <1>w, <2>1, <1>d DEF ActivateNext, At
  <2>2. CASE ~Done(w)
    <3>1. PICK s \in Session : job' = [job EXCEPT ![w].session = s, ![w].at = "write"]
      BY <1>14, <2>2 DEF ActivateNext
    <3> DEFINE j == [job[w] EXCEPT !.session = s, !.at = "write"]
    <3>2. job' = [job EXCEPT ![w] = j] /\ job[w].at # "done" /\ UNCHANGED <<record, pointer, used, branches, crashed, reopened>>
      BY <1>14, <3>1 DEF ActivateNext, At
    <3>3. j \in JobSet /\ j.at = "write" /\ j.session = s /\ j.prev = job[w].prev /\ j.todo = job[w].todo
      BY <1>t DEF JobSet, Places
    <3> HIDE DEF j
    <3> QED
      BY <1>w, <1>j, <1>s, <3>2, <3>3 DEF Held
  <2> QED
    BY <2>1, <2>2
<1>15. CASE EnterMove(w)
  BY <1>15, <1>g, <1>w DEF EnterMove, At, Places, Held
<1>16. CASE EndTurn(w)
  <2>1. CASE Done(w)
    BY <1>16, <1>w, <2>1, <1>d DEF EndTurn, At
  <2>2. CASE ~Done(w)
    <3> DEFINE j == [job[w] EXCEPT !.at = "write", !.seen = "persisted"]
    <3>1. job' = [job EXCEPT ![w] = j] /\ job[w].at # "done" /\ UNCHANGED <<record, pointer, used, branches, crashed, reopened>>
      BY <1>16, <2>2 DEF EndTurn, At
    <3>2. j \in JobSet /\ j.at = "write" /\ j.session = job[w].session /\ j.prev = job[w].prev /\ j.todo = job[w].todo
      BY <1>t DEF JobSet, Places
    <3> HIDE DEF j
    <3> QED
      BY <1>w, <1>j, <1>s, <3>1, <3>2 DEF Held
  <2> QED
    BY <2>1, <2>2
<1> QED
  BY <1>1, <1>2, <1>3, <1>4, <1>5, <1>6, <1>7, <1>8, <1>9, <1>10, <1>11, <1>12, <1>13, <1>14, <1>15, <1>16 DEF Work

LEMMA CrashTyped == ASSUME TypeInv, Crash PROVE TypeInv'
<1>1. job' = [w \in Worker |-> Job("none", "done", NoSession, "none")] /\ UNCHANGED <<record, pointer, used, branches, reopened>>
  BY DEF Crash, Free
<1>2. crashed' \in BOOLEAN
  BY DEF Crash, TypeInv, TypeOK
<1>3. Job("none", "done", NoSession, "none") \in
        JobSet
  BY DEF Job, JobSet, Status, Places
<1>4. TypeOK'
  BY <1>1, <1>2, <1>3 DEF TypeInv, TypeOK, JobSet
<1>5. CreatedInv'
  BY <1>1 DEF TypeInv, CreatedInv, Job
<1> QED
  BY <1>4, <1>5 DEF TypeInv

\* Types, and: only sessions that were created are recorded, pointed at, or
\* rewritten by an operation.
THEOREM AlwaysTyped == Spec => []TypeInv
<1>1. ASSUME TypeInv, UNCHANGED vars PROVE TypeInv'
  BY <1>1 DEF TypeInv, TypeOK, CreatedInv, vars
<1>2. TypeInv /\ [Next]_vars => TypeInv'
  BY <1>1, CommandTyped, WorkTyped, CrashTyped DEF Next
<1> QED
  BY InitTyped, <1>2, PTL DEF Spec

THEOREM TypeCorrect == Spec => []TypeOK
<1>1. TypeInv => TypeOK
  BY DEF TypeInv
<1> QED
  BY AlwaysTyped, <1>1, PTL

-----------------------------------------------------------------------------
(* One operation at a time, as the journal runs the commands.              *)

Agree == \A t \in Session : record[t] = "active" <=> pointer = t

\* What may be idle or active: the sessions on branches that exist, and those
\* that a client has reopened.
MayPlay(t) == OnBranch(t) \/ t \in reopened

\* Apart from the sessions on b.
GoneBut(b) == \A t \in Session : ~MayPlay(t) /\ BranchOf[t] # b => record[t] \in {"none", "detached"}

Gone == \A t \in Session : ~MayPlay(t) => record[t] \in {"none", "detached"}

Settled == {"done", "write", "demote", "title", "patch", "revive", "erase", "list", "next", "enter", "turn"}

WriteInv(w) ==
  LET s == job[w].session IN
  /\ job[w].at \in {"write", "demote", "promote", "point"} => MayPlay(s) /\ record[s] # "archived"
  /\ job[w].at = "demote" => job[w].prev = pointer /\ pointer # s
  /\ job[w].at = "promote" => \A t \in Session : t # s => record[t] # "active"
  /\ job[w].at = "point" => \A t \in Session : record[t] = "active" <=> t = s
  /\ job[w].at \in {"title", "turn"} => MayPlay(s) /\ record[s] = "active"
  /\ job[w].at = "title" => job[w].kind = "create"

PatchInv(w) ==
  LET s == job[w].session IN
  /\ job[w].at = "patch" =>
       /\ job[w].kind \in {"update", "create"} /\ (job[w].kind = "create" => record[s] = "active")
       /\ job[w].seen = "active" => pointer = s
       /\ record[s] # "none"
  /\ job[w].at = "revive" => job[w].kind = "restore" /\ record[s] = "archived"
  /\ job[w].at = "erase" => job[w].kind = "remove"
  /\ job[w].at \in {"check", "repoint"} =>
       /\ \A t \in Session : t # s => (record[t] = "active" <=> pointer = t)
       /\ record[s] = "active" <=> job[w].kind # "remove" /\ job[w].seen = "active"
       /\ record[s] = "active" => pointer = s
  /\ job[w].at = "repoint" => pointer = s

DetachInv(w) ==
  LET b == Removed(w) IN
  /\ job[w].at \in {"list", "each"} => b \notin branches /\ GoneBut(b)
  /\ job[w].at = "each" =>
       /\ job[w].prev = pointer /\ job[w].todo \subseteq SessionsOn(b)
       /\ \A t \in Session : record[t] = "active" => pointer = t
       /\ \A t \in Session : pointer = t /\ record[t] # "active" => BranchOf[t] = b
       /\ \A t \in Session : BranchOf[t] = b /\ t \notin job[w].todo => record[t] \in {"none", "detached"}
  /\ job[w].at \notin {"list", "each"} => Gone

WorkerInv(w) == (job[w].at \in Settled => Agree) /\ WriteInv(w) /\ PatchInv(w) /\ DetachInv(w)

SequentialInv == ~crashed => \A w \in Worker : WorkerInv(w)

LEMMA BeginNow ==
  ASSUME TypeInv, NEW w \in Worker, NEW kind, NEW s, NEW at, NEW seen, job' = [job EXCEPT ![w] = Job(kind, at, s, seen)]
  PROVE  job'[w].kind = kind /\ job'[w].at = at /\ job'[w].session = s /\ job'[w].seen = seen
BY DEF Job, TypeInv, TypeOK

LEMMA GoNow ==
  ASSUME TypeInv, NEW w \in Worker, NEW at, Go(w, at)
  PROVE  /\ job'[w].kind = job[w].kind /\ job'[w].at = at /\ job'[w].session = job[w].session
         /\ job'[w].seen = job[w].seen /\ job'[w].prev = job[w].prev /\ job'[w].todo = job[w].todo
BY JobFields DEF Go, TypeInv, TypeOK, JobSet

LEMMA DoneNow == ASSUME TypeInv, NEW w \in Worker, Done(w) PROVE job'[w].at = "done"
BY DEF Done, Free, Job, TypeInv, TypeOK

\* Where records and pointer agree, what a session is seen as is its record.
LEMMA SeenIsRecord ==
  ASSUME Agree, NEW s \in Session
  PROVE  Seen(s) = record[s]
BY DEF Agree, Seen

\* An operation that begins finds records and pointer in agreement.
LEMMA CommandSequential ==
  ASSUME TypeInv, NEW w \in Worker, WorkerInv(w), Command(w)
  PROVE  WorkerInv(w)'
<1>1. CASE job[w].at = "done"
  <2>1. Agree /\ Gone
    BY <1>1 DEF WorkerInv, Settled, DetachInv
  <2>2. \A s \in Session : Seen(s) = record[s]
    BY <2>1, SeenIsRecord
  <2>3. ASSUME NEW s \in Session, Create(w, s) \/ Activate(w, s) PROVE WorkerInv(w)'
    <3>1. /\ job'[w].at = "write" /\ job'[w].session = s
          /\ UNCHANGED <<record, pointer, used, branches, crashed, reopened>>
      BY <2>3, BeginNow DEF Create, Activate, Begin
    <3>2. MayPlay(s) /\ record[s] # "archived"
      <4>1. CASE Create(w, s)
        BY <4>1 DEF Create, TypeInv, TypeOK, MayPlay
      <4>2. CASE Activate(w, s)
        BY <2>1, <2>2, <4>2, SessionAssumption DEF Activate, Playable, Gone, MayPlay, OnBranch
      <4> QED
        BY <2>3, <4>1, <4>2
    <3> QED
      BY <2>1, <3>1, <3>2 DEF WorkerInv, WriteInv, PatchInv, DetachInv, Agree, Gone, MayPlay, OnBranch
  <2>4. ASSUME NEW s \in Session, Restore(w, s) \/ Remove(w, s) \/ StartMove(w, s) PROVE WorkerInv(w)'
    <3>1. /\ job'[w].session = s /\ UNCHANGED <<record, pointer, used, branches, crashed, reopened>>
          /\ \/ job'[w].at = "revive" /\ job'[w].kind = "restore" /\ record[s] = "archived"
             \/ job'[w].at = "erase" /\ job'[w].kind = "remove"
             \/ job'[w].at = "enter"
      BY <2>2, <2>4, BeginNow DEF Restore, Remove, StartMove, Begin
    <3> QED
      BY <2>1, <3>1 DEF WorkerInv, WriteInv, PatchInv, DetachInv, Agree, Gone, MayPlay, OnBranch
  <2>5. ASSUME NEW s \in Session, NEW status \in Status, Update(w, s, status) PROVE WorkerInv(w)'
    <3>1. /\ job'[w].at = "patch" /\ job'[w].kind = "update" /\ job'[w].session = s /\ job'[w].seen = status
          /\ UNCHANGED <<record, pointer, used, branches, crashed, reopened>>
      <4>1. /\ job' = [job EXCEPT ![w] = Job("update", "patch", s, status)]
            /\ UNCHANGED <<record, pointer, used, branches, crashed, reopened>>
        BY <2>5 DEF Update
      <4>2. job'[w].at = "patch" /\ job'[w].kind = "update" /\ job'[w].session = s /\ job'[w].seen = status
        BY <4>1 DEF Job, TypeInv, TypeOK
      <4> QED
        BY <4>1, <4>2
    <3>2. record[s] # "none" /\ (status = "active" => record[s] = "active")
      BY <2>2, <2>5 DEF Update
    <3>3. status = "active" => pointer = s
      BY <2>1, <3>2 DEF Agree
    <3> QED
      BY <2>1, <3>1, <3>2, <3>3 DEF WorkerInv, WriteInv, PatchInv, DetachInv, Agree, Gone, MayPlay, OnBranch
  <2>6. ASSUME NEW b \in Branch, NEW kind \in {"detach", "drop"}, RemoveBranch(w, b, kind) PROVE WorkerInv(w)'
    <3> DEFINE s == CHOOSE s \in SessionsOn(b) : TRUE
    <3>1. s \in Session /\ BranchOf[s] = b
      BY SessionAssumption DEF SessionsOn
    <3>2. /\ job'[w].at = "list" /\ job'[w].session = s /\ branches' = branches \ {b}
          /\ UNCHANGED <<record, pointer, used, crashed, reopened>>
      BY <2>6, BeginNow DEF RemoveBranch, Begin
    <3> HIDE DEF s
    <3> QED
      BY <2>1, <3>1, <3>2, SessionAssumption
      DEF WorkerInv, WriteInv, PatchInv, DetachInv, Agree, Gone, GoneBut, Removed, MayPlay, OnBranch
  <2> QED
    BY <2>3, <2>4, <2>5, <2>6 DEF Command
<1>2. CASE job[w].at # "done"
  <2>1. job[w] # Free
    BY <1>2 DEF Free, Job
  <2> QED
    BY <2>1 DEF Command, Create, Activate, Restore, Remove, StartMove, Update, RemoveBranch, Begin
<1> QED
  BY <1>1, <1>2

\* write: from the agreement of before to that of after.
LEMMA WriteSequential ==
  ASSUME TypeInv, NEW w \in Worker, WorkerInv(w),
         ReadPrevious(w) \/ Demote(w) \/ Promote(w) \/ Point(w) \/ Entitle(w)
  PROVE  WorkerInv(w)'
<1> DEFINE s == job[w].session
<1>w. record \in [Session -> Status] /\ pointer \in Session \cup {NoSession} /\ NoSession \notin Session
  BY SessionAssumption DEF TypeInv, TypeOK
<1>s. job[w].at # "done" => s \in Session
  BY DEF TypeInv, CreatedInv
<1>b. branches' = branches /\ reopened' = reopened
  BY DEF ReadPrevious, Demote, Promote, Point, Entitle
<1>1. CASE ReadPrevious(w)
  <2>1. /\ job'[w].at = (IF pointer \in {NoSession, s} THEN "promote" ELSE "demote")
        /\ job'[w].session = s /\ job'[w].prev = pointer /\ UNCHANGED <<record, pointer>>
    BY <1>1, JobFields DEF ReadPrevious, TypeInv, TypeOK, JobSet
  <2>2. Agree /\ Gone /\ MayPlay(s) /\ record[s] # "archived"
    BY <1>1 DEF ReadPrevious, At, WorkerInv, WriteInv, DetachInv, Settled
  <2> QED
    BY <1>b, <1>w, <2>1, <2>2 DEF WorkerInv, WriteInv, PatchInv, DetachInv, Agree, Gone, Settled, MayPlay, OnBranch
<1>2. CASE Demote(w)
  <2>1. /\ job'[w].at = "promote" /\ job'[w].session = s
        /\ record' = [record EXCEPT ![pointer] = "idle"] /\ pointer' = pointer
    BY <1>2, GoNow DEF Demote, At, Save, WorkerInv, WriteInv
  <2>2. Agree /\ Gone /\ MayPlay(s) /\ record[s] # "archived" /\ pointer # s /\ s \in Session /\ pointer \in Session
    BY <1>2, <1>s, JobFields DEF Demote, At, WorkerInv, WriteInv, DetachInv, Settled, TypeInv, CreatedInv, TypeOK
  <2>3. record[pointer] = "active"
    BY <2>2 DEF Agree
  <2>4. MayPlay(pointer)
    BY <2>2, <2>3 DEF Gone
  <2> QED
    BY <1>b, <1>w, <2>1, <2>2, <2>4 DEF WorkerInv, WriteInv, PatchInv, DetachInv, Agree, Gone, Settled, MayPlay, OnBranch
<1>3. CASE Promote(w)
  <2>1. job'[w].at = "point" /\ job'[w].session = s /\ record' = [record EXCEPT ![s] = "active"] /\ pointer' = pointer
    BY <1>3, GoNow DEF Promote, Save
  <2>2. /\ Gone /\ MayPlay(s) /\ s \in Session
        /\ \A t \in Session : t # s => record[t] # "active"
    BY <1>3, <1>s DEF Promote, At, WorkerInv, WriteInv, DetachInv
  <2> QED
    BY <1>b, <1>w, <2>1, <2>2 DEF WorkerInv, WriteInv, PatchInv, DetachInv, Gone, Settled, MayPlay, OnBranch
<1>4. CASE Point(w)
  <2>1. /\ Gone /\ MayPlay(s) /\ s \in Session /\ record' = record /\ pointer' = s
        /\ \A t \in Session : record[t] = "active" <=> t = s
    BY <1>4, <1>s DEF Point, At, WorkerInv, WriteInv, DetachInv
  <2>2. \/ job'[w].at = "done"
        \/ job'[w].at = "turn" /\ job'[w].session = s
        \/ job'[w].at = "title" /\ job'[w].session = s /\ job'[w].kind = "create"
    <3>1. Go(w, "turn") \/ (Go(w, "title") /\ job[w].kind = "create") \/ Done(w)
      BY <1>4 DEF Point
    <3> QED
      BY <3>1, GoNow, DoneNow
  <2> QED
    BY <1>b, <1>w, <2>1, <2>2 DEF WorkerInv, WriteInv, PatchInv, DetachInv, Agree, Gone, Settled, MayPlay, OnBranch
<1>5. CASE Entitle(w)
  <2>1. Agree /\ Gone /\ MayPlay(s) /\ s \in Session /\ record[s] = "active" /\ UNCHANGED <<record, pointer>>
    BY <1>5, <1>s DEF Entitle, At, WorkerInv, WriteInv, DetachInv, Settled
  <2>2. Seen(s) = "active" /\ pointer = s
    BY <2>1, SeenIsRecord DEF Agree
  <2>3. \/ job'[w].at = "done"
        \/ /\ job'[w].at = "patch" /\ job'[w].session = s /\ job'[w].seen = "active"
           /\ job'[w].kind = job[w].kind
    BY <1>5, <2>2, DoneNow, JobFields DEF Entitle, TypeInv, TypeOK, JobSet
  <2>4. job[w].kind = "create"
    BY <1>5 DEF Entitle, At, WorkerInv, WriteInv
  <2> QED
    BY <1>b, <1>w, <2>1, <2>2, <2>3, <2>4 DEF WorkerInv, WriteInv, PatchInv, DetachInv, Agree, Gone, Settled, MayPlay, OnBranch
<1> QED
  BY <1>1, <1>2, <1>3, <1>4, <1>5

\* updateMetadata, restore and removeSession.
LEMMA PatchSequential ==
  ASSUME TypeInv, NEW w \in Worker, WorkerInv(w),
         Patch(w) \/ Revive(w) \/ Erase(w) \/ Check(w) \/ Repoint(w)
  PROVE  WorkerInv(w)'
<1> DEFINE s == job[w].session
<1>w. record \in [Session -> Status] /\ pointer \in Session \cup {NoSession} /\ NoSession \notin Session
  BY SessionAssumption DEF TypeInv, TypeOK
<1>s. /\ job[w].at # "done" => s \in Session
      /\ Gone /\ branches' = branches
  BY DEF TypeInv, CreatedInv, WorkerInv, DetachInv, Patch, Revive, Erase, Check, Repoint, At
<1>1. CASE Patch(w)
  <2>1. /\ job'[w].at = "check" /\ job'[w].session = s /\ job'[w].kind = job[w].kind /\ job'[w].seen = job[w].seen
        /\ record' = [record EXCEPT ![s] = job[w].seen] /\ pointer' = pointer
        /\ reopened' = reopened \cup {t \in {s} : record[t] = "detached" /\ job[w].seen # "detached"}
    BY <1>1, GoNow DEF Patch, Save
  <2>2. /\ Agree /\ s \in Session /\ record[s] # "none" /\ job[w].kind \in {"update", "create"}
        /\ (job[w].seen = "active" => pointer = s)
    BY <1>1, <1>s DEF Patch, At, WorkerInv, PatchInv, Settled
  <2>3. Gone'
    <3>1. ASSUME NEW t \in Session, ~MayPlay(t)'
          PROVE  record'[t] \in {"none", "detached"}
      <4>1. ~MayPlay(t) /\ t \notin reopened'
        BY <1>s, <2>1, <3>1 DEF MayPlay, OnBranch
      <4>2. record[t] \in {"none", "detached"}
        BY <1>s, <4>1 DEF Gone
      <4>3. CASE t = s
        BY <1>w, <2>1, <2>2, <4>1, <4>2, <4>3
      <4> QED
        BY <1>w, <2>1, <4>2, <4>3
    <3> QED
      BY <3>1 DEF Gone
  <2> QED
    BY <1>s, <1>w, <2>1, <2>2, <2>3 DEF WorkerInv, WriteInv, PatchInv, DetachInv, Agree, Gone, Settled, MayPlay, OnBranch
<1>2. CASE Revive(w)
  <2>1. /\ job'[w].at = "done" /\ record' = [record EXCEPT ![s] = "idle"] /\ pointer' = pointer
        /\ reopened' = reopened
    BY <1>2, DoneNow DEF Revive, Save
  <2>2. Agree /\ s \in Session /\ record[s] = "archived"
    BY <1>2, <1>s DEF Revive, At, WorkerInv, PatchInv, Settled
  <2>3. pointer # s /\ MayPlay(s)
    BY <1>s, <2>2 DEF Agree, Gone
  <2> QED
    BY <1>s, <1>w, <2>1, <2>2, <2>3 DEF WorkerInv, WriteInv, PatchInv, DetachInv, Agree, Gone, Settled, MayPlay, OnBranch
<1>3. CASE Erase(w)
  <2>1. /\ job'[w].at = "check" /\ job'[w].session = s /\ job'[w].kind = job[w].kind
        /\ record' = [record EXCEPT ![s] = "none"] /\ pointer' = pointer /\ reopened' = reopened
    BY <1>3, GoNow DEF Erase, Save
  <2>2. Agree /\ s \in Session /\ job[w].kind = "remove"
    BY <1>3, <1>s DEF Erase, At, WorkerInv, PatchInv, Settled
  <2> QED
    BY <1>s, <1>w, <2>1, <2>2 DEF WorkerInv, WriteInv, PatchInv, DetachInv, Agree, Gone, Settled, MayPlay, OnBranch
<1>4. CASE Check(w)
  <2>1. /\ s \in Session /\ UNCHANGED <<record, pointer, reopened>>
        /\ \A t \in Session : t # s => (record[t] = "active" <=> pointer = t)
        /\ record[s] = "active" <=> job[w].kind # "remove" /\ job[w].seen = "active"
        /\ record[s] = "active" => pointer = s
    BY <1>4, <1>s DEF Check, At, WorkerInv, PatchInv
  <2>2. CASE pointer = s
    <3>1. /\ job'[w].at = "repoint" /\ job'[w].session = s /\ job'[w].kind = job[w].kind /\ job'[w].seen = job[w].seen
      BY <1>4, <2>2, GoNow DEF Check
    <3> QED
      BY <1>s, <1>w, <2>1, <2>2, <3>1 DEF WorkerInv, WriteInv, PatchInv, DetachInv, Gone, Settled, MayPlay, OnBranch
  <2>3. CASE pointer # s
    <3>1. job'[w].at = "done"
      BY <1>4, <2>3, DoneNow DEF Check
    <3> QED
      BY <1>s, <1>w, <2>1, <2>3, <3>1 DEF WorkerInv, WriteInv, PatchInv, DetachInv, Agree, Gone, Settled, MayPlay, OnBranch
  <2> QED
    BY <2>2, <2>3
<1>5. CASE Repoint(w)
  <2>1. /\ s \in Session /\ UNCHANGED <<record, reopened>> /\ pointer = s
        /\ \A t \in Session : t # s => (record[t] = "active" <=> pointer = t)
        /\ record[s] = "active" <=> job[w].kind # "remove" /\ job[w].seen = "active"
    BY <1>5, <1>s DEF Repoint, At, WorkerInv, PatchInv
  <2>2. job'[w].at = "done" /\ pointer' = (IF record[s] = "active" THEN s ELSE NoSession)
    BY <1>5, <2>1, DoneNow DEF Repoint
  <2> QED
    BY <1>s, <1>w, <2>1, <2>2 DEF WorkerInv, WriteInv, PatchInv, DetachInv, Agree, Gone, Settled, MayPlay, OnBranch
<1> QED
  BY <1>1, <1>2, <1>3, <1>4, <1>5

\* detachInstance and removeInstance, and the steps of a move.
LEMMA DetachSequential ==
  ASSUME TypeInv, NEW w \in Worker, WorkerInv(w),
         \/ List(w) \/ (\E s \in Session : Each(w, s)) \/ Clear(w) \/ ActivateNext(w)
         \/ EnterMove(w) \/ EndTurn(w)
  PROVE  WorkerInv(w)'
<1> DEFINE s == job[w].session
           b == Removed(w)
<1>w. /\ record \in [Session -> Status] /\ pointer \in Session \cup {NoSession} /\ NoSession \notin Session
      /\ branches' = branches /\ reopened' = reopened
  BY SessionAssumption DEF TypeInv, TypeOK, List, Each, Clear, ActivateNext, EnterMove, EndTurn
<1>s. job[w].at # "done" => s \in Session
  BY DEF TypeInv, CreatedInv
<1>1. CASE List(w)
  <2> DEFINE todo == {t \in SessionsOn(b) : Seen(t) # "none"}
  <2>1. Agree /\ b \notin branches /\ GoneBut(b) /\ UNCHANGED <<record, pointer>>
    BY <1>1 DEF List, At, WorkerInv, DetachInv, Settled
  <2>2. \A t \in Session : BranchOf[t] = b /\ t \notin todo => record[t] = "none"
    BY <2>1, SeenIsRecord DEF SessionsOn
  <2>3. job' = [job EXCEPT ![w].prev = pointer, ![w].at = "each", ![w].todo = todo]
    BY <1>1 DEF List
  <2> HIDE DEF todo
  <2>4. job'[w].at = "each" /\ job'[w].session = s /\ job'[w].prev = pointer /\ job'[w].todo = todo
    BY <2>3, JobFields DEF TypeInv, TypeOK, JobSet
  <2>5. todo \subseteq SessionsOn(b)
    BY DEF todo
  <2> QED
    BY <1>w, <2>1, <2>2, <2>4, <2>5
    DEF WorkerInv, WriteInv, PatchInv, DetachInv, Agree, GoneBut, Removed, SessionsOn, Settled, MayPlay, OnBranch
<1>2. ASSUME NEW t \in Session, Each(w, t) PROVE WorkerInv(w)'
  <2>1. PICK status \in {"none", "detached"} : record' = [record EXCEPT ![t] = status]
    BY <1>2 DEF Each, Save
  <2>2. job'[w].at = "each" /\ job'[w].session = s /\ job'[w].prev = job[w].prev /\ job'[w].todo = job[w].todo \ {t}
    BY <1>2, JobFields DEF Each, At, TypeInv, TypeOK, JobSet
  <2>3. /\ b \notin branches /\ GoneBut(b) /\ job[w].prev = pointer /\ pointer' = pointer
        /\ job[w].todo \subseteq SessionsOn(b)
        /\ \A u \in Session : record[u] = "active" => pointer = u
        /\ \A u \in Session : pointer = u /\ record[u] # "active" => BranchOf[u] = b
        /\ \A u \in Session : BranchOf[u] = b /\ u \notin job[w].todo => record[u] \in {"none", "detached"}
    BY <1>2 DEF Each, At, WorkerInv, DetachInv
  <2>4. BranchOf[t] = b
    <3>1. t \in job[w].todo
      BY <1>2 DEF Each
    <3> QED
      BY <1>2, <3>1 DEF Each, At, WorkerInv, DetachInv, SessionsOn
  <2> QED
    BY <1>w, <2>1, <2>2, <2>3, <2>4
    DEF WorkerInv, WriteInv, PatchInv, DetachInv, GoneBut, Removed, SessionsOn, Settled, MayPlay, OnBranch
<1>3. CASE Clear(w)
  <2>1. /\ b \notin branches /\ GoneBut(b) /\ job[w].prev = pointer /\ job[w].todo = {} /\ record' = record
        /\ \A u \in Session : record[u] = "active" => pointer = u
        /\ \A u \in Session : pointer = u /\ record[u] # "active" => BranchOf[u] = b
        /\ \A u \in Session : BranchOf[u] = b => record[u] \in {"none", "detached"}
    BY <1>3 DEF Clear, At, WorkerInv, DetachInv
  <2>2. Gone
    BY <2>1 DEF Gone, GoneBut
  <2>3. CASE pointer # NoSession /\ BranchOf[pointer] = b
    <3>1. job'[w].at = "next" /\ pointer' = NoSession
      BY <1>3, <2>1, <2>3, GoNow DEF Clear
    <3> QED
      BY <1>w, <2>1, <2>2, <2>3, <3>1 DEF WorkerInv, WriteInv, PatchInv, DetachInv, Agree, Gone, Settled, MayPlay, OnBranch
  <2>4. CASE ~(pointer # NoSession /\ BranchOf[pointer] = b)
    <3>1. job'[w].at = "done" /\ pointer' = pointer
      BY <1>3, <2>1, <2>4, DoneNow DEF Clear
    <3> QED
      BY <1>w, <2>1, <2>2, <2>4, <3>1 DEF WorkerInv, WriteInv, PatchInv, DetachInv, Agree, Gone, Settled, MayPlay, OnBranch
  <2> QED
    BY <2>3, <2>4
<1>4. CASE ActivateNext(w)
  <2>1. Agree /\ Gone /\ UNCHANGED <<record, pointer>>
    BY <1>4 DEF ActivateNext, At, WorkerInv, DetachInv, Settled
  <2>2. CASE Done(w)
    BY <1>w, <2>1, <2>2, DoneNow DEF WorkerInv, WriteInv, PatchInv, DetachInv, Agree, Gone, Settled, MayPlay, OnBranch
  <2>3. CASE ~Done(w)
    <3>1. PICK t \in Session : Seen(t) = "idle" /\ job' = [job EXCEPT ![w].session = t, ![w].at = "write"]
      BY <1>4, <2>3 DEF ActivateNext
    <3>2. record[t] = "idle" /\ MayPlay(t)
      BY <2>1, <3>1, SeenIsRecord DEF Gone, MayPlay, OnBranch
    <3>3. job'[w].at = "write" /\ job'[w].session = t
      BY <3>1, JobFields DEF TypeInv, TypeOK, JobSet
    <3> QED
      BY <1>w, <2>1, <3>2, <3>3 DEF WorkerInv, WriteInv, PatchInv, DetachInv, Agree, Gone, Settled, MayPlay, OnBranch
  <2> QED
    BY <2>2, <2>3
<1>5. CASE EnterMove(w)
  <2>1. Agree /\ Gone /\ UNCHANGED <<record, pointer>> /\ s \in Session
    BY <1>5, <1>s DEF EnterMove, At, WorkerInv, DetachInv, Settled
  <2>2. \/ job'[w].at = "done"
        \/ job'[w].at = "write" /\ job'[w].session = s /\ record[s] # "archived" /\ MayPlay(s)
    BY <1>5, <2>1, SeenIsRecord, GoNow, DoneNow DEF EnterMove, Playable, MayPlay
  <2> QED
    BY <1>w, <2>1, <2>2 DEF WorkerInv, WriteInv, PatchInv, DetachInv, Agree, Gone, Settled, MayPlay, OnBranch
<1>6. CASE EndTurn(w)
  <2>1. Agree /\ Gone /\ UNCHANGED <<record, pointer>> /\ MayPlay(s) /\ record[s] = "active"
    BY <1>6 DEF EndTurn, At, WorkerInv, WriteInv, DetachInv, Settled
  <2>2. job'[w].at = "done" \/ (job'[w].at = "write" /\ job'[w].session = s)
    BY <1>6, DoneNow, JobFields DEF EndTurn, TypeInv, TypeOK, JobSet
  <2> QED
    BY <1>w, <2>1, <2>2 DEF WorkerInv, WriteInv, PatchInv, DetachInv, Agree, Gone, Settled, MayPlay, OnBranch
<1> QED
  BY <1>1, <1>2, <1>3, <1>4, <1>5, <1>6

\* With one worker.
LEMMA Sequential ==
  ASSUME NEW w, Worker = {w}
  PROVE  Spec => [](TypeInv /\ SequentialInv)
<1>1. Init => SequentialInv
  <2>1. Init => Job("none", "done", NoSession, "none").at = "done"
    BY DEF Job
  <2> QED
    BY <2>1, SessionAssumption
    DEF Init, Free, SequentialInv, WorkerInv, WriteInv, PatchInv, DetachInv, Agree, Gone, Settled, MayPlay, OnBranch
<1>2. ASSUME TypeInv, SequentialInv, [Next]_vars PROVE SequentialInv'
  <2>1. CASE UNCHANGED vars
    BY <1>2, <2>1
    DEF vars, SequentialInv, WorkerInv, WriteInv, PatchInv, DetachInv, Agree, Gone, GoneBut, Removed, SessionsOn, MayPlay, OnBranch
  <2>2. CASE Command(w)
    <3>1. crashed' = crashed
      BY <2>2 DEF Command, Create, Activate, Restore, Remove, StartMove, Update, RemoveBranch
    <3> QED
      BY <1>2, <2>2, <3>1, CommandSequential DEF SequentialInv
  <2>3. CASE Work(w)
    <3>1. crashed' = crashed
      BY <2>3 DEF Work, ReadPrevious, Demote, Promote, Point, Entitle, Patch, Revive, Erase, Check, Repoint,
                  List, Each, Clear, ActivateNext, EnterMove, EndTurn
    <3> QED
      BY <1>2, <2>3, <3>1, WriteSequential, PatchSequential, DetachSequential DEF Work, SequentialInv
  <2>4. CASE Crash
    <3>1. ~crashed' => job[w] = Free /\ job'[w] = Free /\ ~crashed /\ UNCHANGED <<record, pointer, branches, reopened>>
      BY <2>4 DEF Crash
    <3>2. Free.at = "done"
      BY DEF Free, Job
    <3> QED
      BY <1>2, <3>1, <3>2
      DEF SequentialInv, WorkerInv, WriteInv, PatchInv, DetachInv, Agree, Gone, Settled, MayPlay, OnBranch
  <2> QED
    BY <1>2, <2>1, <2>2, <2>3, <2>4 DEF Next
<1> QED
  BY <1>1, <1>2, AlwaysTyped, PTL DEF Spec

LEMMA SettledAgree ==
  ASSUME NEW w, Worker = {w}, TypeInv, SequentialInv
  PROVE  PointerAgrees /\ GoneBranchUnplayable
<1> SUFFICES ASSUME Quiet, ~crashed
             PROVE  /\ \A s \in Session : record[s] = "active" <=> pointer = s
                    /\ \A s \in Session : ~OnBranch(s) /\ s \notin reopened => Seen(s) \in {"none", "detached"}
  BY DEF PointerAgrees, GoneBranchUnplayable
<1>1. job[w].at = "done"
  BY DEF Quiet, Free, Job
<1>2. Agree /\ Gone
  BY <1>1 DEF SequentialInv, WorkerInv, DetachInv, Settled
<1> QED
  BY <1>2, SeenIsRecord DEF Agree, Gone, MayPlay

\* Between operations active.json names the session whose record reads
\* active, whatever sequence of operations ran, on any number of sessions and
\* branches.
THEOREM RecordsAgree ==
  ASSUME NEW w, Worker = {w}
  PROVE  Spec => []PointerAgrees
<1>1. TypeInv /\ SequentialInv => PointerAgrees
  BY SettledAgree
<1> QED
  BY <1>1, Sequential, PTL

\* A host that does not die in the middle of an operation leaves every one whole.
LEMMA NeverCrashed ==
  ASSUME ~CrashesAllowed
  PROVE  Spec => []~crashed
<1>1. Init => ~crashed
  BY DEF Init
<1>2. ASSUME ~crashed, [Next]_vars
      PROVE  ~crashed'
  <2>1. ASSUME NEW w \in Worker, Command(w)
        PROVE  crashed' = crashed
    BY <2>1 DEF Command, Create, Activate, Restore, Remove, StartMove, Update, RemoveBranch
  <2>2. ASSUME NEW w \in Worker, Work(w)
        PROVE  crashed' = crashed
    BY <2>2 DEF Work, ReadPrevious, Demote, Promote, Point, Entitle, Patch, Revive, Erase,
                Check, Repoint, List, Each, Clear, ActivateNext, EnterMove, EndTurn
  <2>3. ~Crash
    BY DEF Crash
  <2> QED
    BY <1>2, <2>1, <2>2, <2>3 DEF Next, vars
<1> QED
  BY <1>1, <1>2, PTL DEF Spec

\* Two sessions of a branch never read active between the operations of one
\* worker that does not die: the two that sessions_race finds need a second
\* worker, and those of a death need the death.
THEOREM OneActiveAlone ==
  ASSUME NEW w, Worker = {w}, ~CrashesAllowed
  PROVE  Spec => []OneActiveSession
<1>1. PointerAgrees /\ ~crashed => OneActiveSession
  BY DEF PointerAgrees, OneActiveSession, Seen
<1> QED
  BY <1>1, RecordsAgree, NeverCrashed, PTL

\* Between operations no session of a removed world instance is idle or
\* active unless a client's update has taken it out of "detached", which no
\* check prevents: none of switching, archiving, restoring, repairing, playing
\* and removing brings one back.
THEOREM GoneStaysUnplayable ==
  ASSUME NEW w, Worker = {w}
  PROVE  Spec => []GoneBranchUnplayable
<1>1. TypeInv /\ SequentialInv => GoneBranchUnplayable
  BY SettledAgree
<1> QED
  BY <1>1, Sequential, PTL

\* No operation on another session brings an archived session back.
THEOREM ArchivedStays ==
  ASSUME NEW one, Worker = {one}
  PROVE  Spec => ArchivedUntilRestored
<1>1. TypeInv /\ SequentialInv /\ [Next]_vars =>
        [\A s \in Session :
           ~crashed /\ record[s] = "archived" /\ record'[s] \in Playable =>
             \E w \in Worker : job[w].session = s /\ job[w].kind \in {"restore", "update"}]_vars
  <2> SUFFICES ASSUME TypeInv, SequentialInv, [Next]_vars, NEW s \in Session, ~crashed, record[s] = "archived", record'[s] \in Playable
               PROVE  job[one].session = s /\ job[one].kind \in {"restore", "update"}
    OBVIOUS
  <2>1. record' # record /\ WorkerInv(one)
    BY DEF Playable, SequentialInv
  <2>2. Work(one)
    BY <2>1 DEF Next, vars, Crash, Command, Create, Activate, Restore, Remove, StartMove, Update, RemoveBranch
  <2>3. \/ Demote(one) \/ Promote(one) \/ Patch(one) \/ Revive(one) \/ Erase(one) \/ \E t \in Session : Each(one, t)
    BY <2>1, <2>2 DEF Work, ReadPrevious, Point, Entitle, Check, Repoint, List, Clear, ActivateNext, EnterMove, EndTurn
  <2>w. record \in [Session -> Status]
    BY DEF TypeInv, TypeOK
  <2>4. CASE Demote(one)
    <3>1. job[one].prev = pointer /\ Agree
      BY <2>1, <2>4 DEF Demote, At, WorkerInv, WriteInv, Settled
    <3> QED
      BY <2>4, <2>w, <3>1 DEF Demote, Save, Agree, Playable
  <2>5. CASE Promote(one)
    BY <2>1, <2>5, <2>w DEF Promote, At, Save, WorkerInv, WriteInv, Playable
  <2>6. CASE Patch(one)
    BY <2>1, <2>6, <2>w DEF Patch, At, Save, WorkerInv, PatchInv, Playable
  <2>7. CASE Revive(one)
    BY <2>1, <2>7, <2>w DEF Revive, At, Save, WorkerInv, PatchInv, Playable
  <2>8. CASE Erase(one)
    BY <2>8, <2>w DEF Erase, Save, Playable
  <2>9. CASE \E t \in Session : Each(one, t)
    BY <2>9, <2>w DEF Each, Save, Playable
  <2> QED
    BY <2>3, <2>4, <2>5, <2>6, <2>7, <2>8, <2>9
<1>2. Spec => [](TypeInv /\ SequentialInv)
  BY Sequential
<1> QED
  BY <1>1, <1>2, PTL DEF Spec, ArchivedUntilRestored

-----------------------------------------------------------------------------
(* The store implements SessionBook, also after crashes: what the place of *)
(* an operation says of the records and the pointer, whatever a dead       *)
(* operation has left in the other records.                                *)

BookWrite(w) ==
  LET s == job[w].session IN
  /\ job[w].at \in {"write", "demote", "promote"} =>
       pointer = s \/ record[s] \in Playable \/ s \notin used
  /\ job[w].at = "demote" => job[w].prev = pointer /\ pointer # s
  /\ job[w].at \in {"promote", "point"} => pointer \in {NoSession, s} \/ record[pointer] = "idle"
  /\ job[w].at = "point" => record[s] = "active"
  /\ job[w].at \in {"title", "turn"} => pointer = s
  /\ job[w].at = "title" => job[w].kind = "create"

BookPatch(w) ==
  LET s == job[w].session
      kept == Status \ {"none"} IN
  /\ job[w].at = "patch" =>
       /\ job[w].kind # "remove" /\ job[w].seen \in kept /\ (pointer = s \/ record[s] # "none")
       /\ job[w].seen = "detached" => record[s] = "detached" /\ pointer # s
  /\ job[w].at = "revive" => record[s] = "archived" /\ pointer # s
  /\ job[w].at = "erase" => job[w].kind = "remove" /\ (pointer = s \/ record[s] # "none")
  /\ job[w].at \in {"check", "repoint"} =>
       IF job[w].kind = "remove" THEN record[s] = "none"
                                 ELSE record[s] = job[w].seen /\ job[w].seen \in kept
  /\ job[w].at \in {"check", "repoint"} /\ job[w].kind # "remove" /\ job[w].seen = "detached" => pointer # s
  /\ job[w].at = "repoint" => pointer = s

BookDetach(w) ==
  LET gone == IF job[w].kind = "detach" THEN "detached" ELSE "none" IN
  /\ job[w].at \in {"list", "each"} => Removed(w) \notin branches
  /\ job[w].at = "each" =>
       /\ job[w].prev = pointer /\ job[w].todo \subseteq SessionsOn(Removed(w))
       /\ \A t \in job[w].todo : pointer = t \/ record[t] # "none"
       /\ \A t \in SessionsOn(Removed(w)) \ job[w].todo : pointer = t => record[t] = gone

BookInv(w) == BookWrite(w) /\ BookPatch(w) /\ BookDetach(w)

ShownBook == <<[s \in Session |-> BookStatus(s)], used, branches>>

\* A step that the book does not show.
LEMMA Unshown ==
  ASSUME UNCHANGED <<used, branches>>, \A t \in Session : BookStatus(t)' = BookStatus(t)
  PROVE  UNCHANGED ShownBook
BY DEF ShownBook

\* A step that the book shows of one session.
LEMMA ShownOf ==
  ASSUME NEW s \in Session, NEW word, BookStatus(s)' = word,
         \A t \in Session \ {s} : BookStatus(t)' = BookStatus(t)
  PROVE  Book!Become(s, word)
BY DEF Book!Become

\* What a record that is written shows.
LEMMA SavedShows ==
  ASSUME TypeInv, NEW s \in Session, NEW word, Save(s, word), pointer' = pointer
  PROVE  /\ \A t \in Session \ {s} : BookStatus(t)' = BookStatus(t)
         /\ BookStatus(s)' = IF pointer = s THEN "active" ELSE IF word = "active" THEN "idle" ELSE word
         /\ record'[s] = word /\ \A t \in Session \ {s} : record'[t] = record[t]
BY DEF BookStatus, Save, TypeInv, TypeOK

\* What a pointer that is moved shows.
LEMMA PointedShows ==
  ASSUME record' = record, NEW t \in Session
  PROVE  BookStatus(t)' = IF pointer' = t THEN "active"
                          ELSE IF record[t] = "active" THEN "idle" ELSE record[t]
BY DEF BookStatus

\* An operation that begins.
LEMMA BegunNow ==
  ASSUME TypeInv, NEW w \in Worker, NEW kind, NEW s, NEW at, Begin(w, kind, s, at)
  PROVE  job'[w].kind = kind /\ job'[w].at = at /\ job'[w].session = s
<1>1. job' = [job EXCEPT ![w] = Job(kind, at, s, Seen(s))]
  BY DEF Begin
<1> QED
  BY <1>1 DEF Job, TypeInv, TypeOK

LEMMA CommandBook ==
  ASSUME TypeInv, NEW w \in Worker, BookInv(w), Command(w)
  PROVE  BookInv(w)' /\ [Book!BookNext]_ShownBook
<1>w. /\ record \in [Session -> Status] /\ pointer \in used \cup {NoSession} /\ NoSession \notin Session
      /\ used \subseteq Session
      /\ \A t \in Session : record[t] # "none" \/ pointer = t => t \in used
  BY SessionAssumption DEF TypeInv, TypeOK, CreatedInv
<1>f. job[w] = Free => job[w].at = "done"
  BY DEF Free, Job
<1> DEFINE Shown(s) == /\ UNCHANGED <<record, pointer, used, branches>>
                       /\ job'[w].session = s
<1>0. ASSUME UNCHANGED <<record, pointer, used, branches>>
      PROVE  [Book!BookNext]_ShownBook
  BY <1>0, Unshown DEF BookStatus
<1>1. ASSUME NEW s \in Session, Create(w, s) \/ Activate(w, s)
      PROVE  BookInv(w)' /\ [Book!BookNext]_ShownBook
  <2>1. job'[w].at = "write" /\ job'[w].session = s /\ UNCHANGED <<record, pointer, used, branches>>
    BY <1>1, BegunNow DEF Create, Activate
  <2>2. pointer = s \/ record[s] \in Playable \/ s \notin used
    BY <1>1 DEF Create, Activate, Seen
  <2> QED
    BY <1>0, <2>1, <2>2 DEF BookInv, BookWrite, BookPatch, BookDetach
<1>2. ASSUME NEW s \in Session, Restore(w, s)
      PROVE  BookInv(w)' /\ [Book!BookNext]_ShownBook
  <2>1. job'[w].at = "revive" /\ job'[w].session = s /\ UNCHANGED <<record, pointer, used, branches>>
    BY <1>2, BegunNow DEF Restore
  <2>2. pointer # s /\ record[s] = "archived"
    BY <1>2 DEF Restore, Seen
  <2> QED
    BY <1>0, <2>1, <2>2 DEF BookInv, BookWrite, BookPatch, BookDetach
<1>3. ASSUME NEW s \in Session, Remove(w, s)
      PROVE  BookInv(w)' /\ [Book!BookNext]_ShownBook
  <2>1. /\ job'[w].at = "erase" /\ job'[w].session = s /\ job'[w].kind = "remove"
        /\ UNCHANGED <<record, pointer, used, branches>>
    BY <1>3, BegunNow DEF Remove
  <2>2. pointer = s \/ record[s] # "none"
    BY <1>3 DEF Remove, Seen
  <2> QED
    BY <1>0, <2>1, <2>2 DEF BookInv, BookWrite, BookPatch, BookDetach
<1>4. ASSUME NEW s \in Session, StartMove(w, s)
      PROVE  BookInv(w)' /\ [Book!BookNext]_ShownBook
  <2>1. job'[w].at = "enter" /\ UNCHANGED <<record, pointer, used, branches>>
    BY <1>4, BegunNow DEF StartMove
  <2> QED
    BY <1>0, <2>1 DEF BookInv, BookWrite, BookPatch, BookDetach
<1>5. ASSUME NEW s \in Session, NEW status \in Status, Update(w, s, status)
      PROVE  BookInv(w)' /\ [Book!BookNext]_ShownBook
  <2>1. /\ job'[w].at = "patch" /\ job'[w].session = s /\ job'[w].kind = "update"
        /\ job'[w].seen = status /\ UNCHANGED <<record, pointer, used, branches>>
    <3>1. /\ job' = [job EXCEPT ![w] = Job("update", "patch", s, status)]
          /\ UNCHANGED <<record, pointer, used, branches>>
      BY <1>5 DEF Update
    <3> QED
      BY <3>1 DEF Job, TypeInv, TypeOK
  <2>2. status \in Status \ {"none"} /\ (status = "detached" => record[s] = "detached" /\ pointer # s)
    BY <1>5 DEF Update, Seen, Status
  <2>3. pointer = s \/ record[s] # "none"
    BY <1>5 DEF Update, Seen
  <2> QED
    BY <1>0, <2>1, <2>2, <2>3 DEF BookInv, BookWrite, BookPatch, BookDetach
<1>6. ASSUME NEW b \in Branch, NEW kind \in {"detach", "drop"}, RemoveBranch(w, b, kind)
      PROVE  BookInv(w)' /\ [Book!BookNext]_ShownBook
  <2> DEFINE s == CHOOSE t \in SessionsOn(b) : TRUE
  <2>1. s \in Session /\ BranchOf[s] = b
    BY SessionAssumption DEF SessionsOn
  <2>2. /\ job'[w].at = "list" /\ job'[w].session = s /\ b \in branches
        /\ branches' = branches \ {b} /\ UNCHANGED <<record, pointer, used>>
    BY <1>6, BeginNow DEF RemoveBranch, Begin
  <2>3. BookInv(w)'
    BY <2>1, <2>2 DEF BookInv, BookWrite, BookPatch, BookDetach, Removed
  <2>4. [t \in Session |-> BookStatus(t)]' = [t \in Session |-> BookStatus(t)]
    BY <2>2 DEF BookStatus
  <2>5. Book!RemoveBranch(BranchOf[s])
    BY <2>1, <2>2, <2>4 DEF Book!RemoveBranch
  <2> QED
    BY <2>1, <2>3, <2>5 DEF Book!BookNext
<1> QED
  BY <1>1, <1>2, <1>3, <1>4, <1>5, <1>6 DEF Command

LEMMA WriteBook ==
  ASSUME TypeInv, NEW w \in Worker, BookInv(w), NEW s, s = job[w].session,
         ReadPrevious(w) \/ Demote(w) \/ Promote(w) \/ Point(w) \/ Entitle(w)
  PROVE  BookInv(w)' /\ [Book!BookNext]_ShownBook
<1>w. /\ record \in [Session -> Status] /\ pointer \in used \cup {NoSession} /\ NoSession \notin Session
      /\ used \subseteq Session /\ s \in Session
      /\ \A t \in Session : record[t] # "none" \/ pointer = t => t \in used
  BY SessionAssumption DEF TypeInv, TypeOK, CreatedInv, ReadPrevious, Demote, Promote, Point, Entitle, At
<1>b. branches' = branches
  BY DEF ReadPrevious, Demote, Promote, Point, Entitle
<1>0. ASSUME UNCHANGED <<record, pointer, used>>
      PROVE  [Book!BookNext]_ShownBook
  BY <1>b, <1>0, Unshown DEF BookStatus
<1>1. CASE ReadPrevious(w)
  <2>1. /\ job'[w].at = (IF pointer \in {NoSession, s} THEN "promote" ELSE "demote")
        /\ job'[w].session = s /\ job'[w].prev = pointer /\ UNCHANGED <<record, pointer, used>>
    BY <1>1, JobFields DEF ReadPrevious, TypeInv, TypeOK, JobSet
  <2>2. pointer = s \/ record[s] \in Playable \/ s \notin used
    BY <1>1 DEF ReadPrevious, At, BookInv, BookWrite
  <2> QED
    BY <1>0, <1>b, <2>1, <2>2 DEF BookInv, BookWrite, BookPatch, BookDetach
<1>2. CASE Demote(w)
  <2>1. /\ job'[w].at = "promote" /\ job'[w].session = s /\ Save(pointer, "idle")
        /\ pointer' = pointer /\ used' = used /\ pointer # s
        /\ pointer = s \/ record[s] \in Playable \/ s \notin used
    BY <1>2, GoNow DEF Demote, At, BookInv, BookWrite
  <2>2. pointer \in Session
    BY <1>2, <1>w DEF Demote, At, TypeInv, CreatedInv, BookInv, BookWrite
  <2>3. /\ \A t \in Session : BookStatus(t)' = BookStatus(t)
        /\ record'[pointer] = "idle" /\ record'[s] = record[s]
    BY <1>w, <2>1, <2>2, SavedShows DEF BookStatus
  <2>4. BookInv(w)'
    BY <2>1, <2>3 DEF BookInv, BookWrite, BookPatch, BookDetach
  <2> QED
    BY <1>b, <2>1, <2>3, <2>4, Unshown
<1>3. CASE Promote(w)
  <2>1. /\ job'[w].at = "point" /\ job'[w].session = s /\ Save(s, "active")
        /\ pointer' = pointer /\ used' = used \cup {s}
        /\ pointer = s \/ record[s] \in Playable \/ s \notin used
        /\ pointer \in {NoSession, s} \/ record[pointer] = "idle"
    BY <1>3, GoNow DEF Promote, At, BookInv, BookWrite
  <2>2. /\ \A t \in Session \ {s} : BookStatus(t)' = BookStatus(t)
        /\ BookStatus(s)' = IF pointer = s THEN "active" ELSE "idle"
        /\ record'[s] = "active" /\ \A t \in Session \ {s} : record'[t] = record[t]
    BY <1>w, <2>1, SavedShows
  <2>3. BookInv(w)'
    BY <1>w, <2>1, <2>2 DEF BookInv, BookWrite, BookPatch, BookDetach
  <2>4. CASE s \in used
    <3>1. BookStatus(s)' = BookStatus(s) /\ used' = used
      BY <2>1, <2>2, <2>4 DEF BookStatus, Playable
    <3> QED
      BY <1>b, <2>2, <2>3, <3>1, Unshown
  <2>5. CASE s \notin used
    <3>1. pointer # s
      BY <1>w, <2>5
    <3>2. Book!Become(s, "idle")
      BY <1>w, <2>2, <3>1, ShownOf
    <3>3. Book!Open(s)
      BY <1>b, <2>1, <2>5, <3>2 DEF Book!Open
    <3> QED
      BY <1>w, <2>3, <3>3 DEF Book!BookNext
  <2> QED
    BY <2>4, <2>5
<1>4. CASE Point(w)
  <2>1. /\ record' = record /\ pointer' = s /\ used' = used /\ record[s] = "active"
        /\ pointer \in {NoSession, s} \/ record[pointer] = "idle"
    BY <1>4 DEF Point, At, BookInv, BookWrite
  <2>2. \/ job'[w].at = "done"
        \/ job'[w].at = "turn" /\ job'[w].session = s
        \/ job'[w].at = "title" /\ job'[w].session = s /\ job'[w].kind = "create"
    <3>1. \/ Go(w, "turn") \/ Done(w)
          \/ Go(w, "title") /\ job[w].kind = "create"
      BY <1>4 DEF Point
    <3> QED
      BY <3>1, GoNow, DoneNow
  <2>3. BookInv(w)'
    BY <2>1, <2>2 DEF BookInv, BookWrite, BookPatch, BookDetach
  <2>4. CASE pointer = s
    BY <1>0, <2>1, <2>3, <2>4
  <2>5. CASE pointer # s
    <3>1. BookStatus(s) = "idle" /\ BookStatus(s)' = "active"
      BY <2>1, <2>5 DEF BookStatus
    <3>2. ASSUME NEW t \in Session \ {s}
          PROVE  BookStatus(t)' = IF BookStatus(t) = "active" THEN "idle" ELSE BookStatus(t)
      BY <1>w, <2>1, PointedShows DEF BookStatus
    <3>3. Book!Switch(s)
      BY <1>b, <1>w, <2>1, <3>1, <3>2 DEF Book!Switch
    <3> QED
      BY <1>w, <2>3, <3>3 DEF Book!BookNext
  <2> QED
    BY <2>4, <2>5
<1>5. CASE Entitle(w)
  <2>1. pointer = s /\ UNCHANGED <<record, pointer, used>>
    BY <1>5 DEF Entitle, At, BookInv, BookWrite
  <2>2. \/ job'[w].at = "done"
        \/ /\ job'[w].at = "patch" /\ job'[w].session = s /\ job'[w].seen = "active"
           /\ job'[w].kind = job[w].kind
    <3>1. Seen(s) = "active"
      BY <2>1 DEF Seen
    <3>2. \/ Done(w)
          \/ job' = [job EXCEPT ![w].at = "patch", ![w].seen = "active"]
      BY <1>5, <3>1 DEF Entitle
    <3>3. CASE job' = [job EXCEPT ![w].at = "patch", ![w].seen = "active"]
      BY <3>3, JobFields DEF TypeInv, TypeOK, JobSet
    <3> QED
      BY <3>2, <3>3, DoneNow
  <2>3. job[w].kind # "remove"
    BY <1>5 DEF Entitle, At, BookInv, BookWrite
  <2> QED
    BY <1>0, <2>1, <2>2, <2>3 DEF BookInv, BookWrite, BookPatch, BookDetach, Status
<1> QED
  BY <1>1, <1>2, <1>3, <1>4, <1>5

LEMMA PatchBook ==
  ASSUME TypeInv, NEW w \in Worker, BookInv(w), NEW s, s = job[w].session,
         Patch(w) \/ Revive(w) \/ Erase(w) \/ Check(w) \/ Repoint(w)
  PROVE  BookInv(w)' /\ [Book!BookNext]_ShownBook
<1> DEFINE kept == Status \ {"none"}
<1>w. /\ record \in [Session -> Status] /\ NoSession \notin Session /\ s \in Session
      /\ UNCHANGED <<used, branches>>
  BY SessionAssumption DEF TypeInv, TypeOK, CreatedInv, Patch, Revive, Erase, Check, Repoint, At
<1>0. ASSUME \A t \in Session : BookStatus(t)' = BookStatus(t)
      PROVE  [Book!BookNext]_ShownBook
  BY <1>w, <1>0, Unshown
<1>1. CASE Patch(w)
  <2>1. /\ job'[w].at = "check" /\ job'[w].session = s /\ job'[w].kind = job[w].kind
        /\ job'[w].seen = job[w].seen /\ Save(s, job[w].seen) /\ pointer' = pointer
        /\ job[w].kind # "remove" /\ job[w].seen \in kept /\ (pointer = s \/ record[s] # "none")
        /\ job[w].seen = "detached" => record[s] = "detached" /\ pointer # s
    BY <1>1, GoNow DEF Patch, At, BookInv, BookPatch
  <2>2. /\ \A t \in Session \ {s} : BookStatus(t)' = BookStatus(t)
        /\ BookStatus(s)' = IF pointer = s THEN "active"
                            ELSE IF job[w].seen = "active" THEN "idle" ELSE job[w].seen
        /\ record'[s] = job[w].seen
    BY <1>w, <2>1, SavedShows
  <2>3. BookInv(w)'
    BY <2>1, <2>2 DEF BookInv, BookWrite, BookPatch, BookDetach
  <2>4. CASE BookStatus(s)' = BookStatus(s)
    BY <1>0, <2>2, <2>3, <2>4
  <2>5. CASE BookStatus(s)' # BookStatus(s)
    <3>1. \/ BookStatus(s) = "archived" /\ BookStatus(s)' = "idle"
          \/ BookStatus(s) = "idle" /\ BookStatus(s)' = "archived"
          \/ BookStatus(s) = "detached" /\ BookStatus(s)' \in {"idle", "archived"}
      BY <1>w, <2>1, <2>2, <2>5 DEF BookStatus, Status
    <3>2. Book!Become(s, BookStatus(s)')
      BY <1>w, <2>2, ShownOf
    <3>3. Book!Rest(s) \/ Book!Archive(s) \/ Book!Reopen(s)
      BY <1>w, <3>1, <3>2 DEF Book!Rest, Book!Archive, Book!Reopen
    <3> QED
      BY <1>w, <2>3, <3>3 DEF Book!BookNext
  <2> QED
    BY <2>4, <2>5
<1>2. CASE Revive(w)
  <2>1. /\ job'[w].at = "done" /\ Save(s, "idle") /\ pointer' = pointer
        /\ pointer # s /\ record[s] = "archived"
    BY <1>2, DoneNow DEF Revive, At, BookInv, BookPatch
  <2>2. Book!Become(s, "idle") /\ BookStatus(s) = "archived"
    BY <1>w, <2>1, SavedShows, ShownOf DEF BookStatus
  <2>3. Book!Rest(s)
    BY <1>w, <2>2 DEF Book!Rest
  <2> QED
    BY <1>w, <2>1, <2>3 DEF Book!BookNext, BookInv, BookWrite, BookPatch, BookDetach
<1>3. CASE Erase(w)
  <2>1. /\ job'[w].at = "check" /\ job'[w].session = s /\ job'[w].kind = job[w].kind
        /\ Save(s, "none") /\ pointer' = pointer
        /\ job[w].kind = "remove" /\ (pointer = s \/ record[s] # "none")
    BY <1>3, GoNow DEF Erase, At, BookInv, BookPatch
  <2>2. /\ \A t \in Session \ {s} : BookStatus(t)' = BookStatus(t)
        /\ BookStatus(s)' = IF pointer = s THEN "active" ELSE "none"
        /\ record'[s] = "none"
    BY <1>w, <2>1, SavedShows
  <2>3. BookInv(w)'
    BY <2>1, <2>2 DEF BookInv, BookWrite, BookPatch, BookDetach
  <2>4. CASE pointer = s
    BY <1>0, <2>2, <2>3, <2>4 DEF BookStatus
  <2>5. CASE pointer # s
    <3>1. BookStatus(s) # "none" /\ Book!Become(s, "none")
      BY <1>w, <2>1, <2>2, <2>5, ShownOf DEF BookStatus
    <3>2. Book!Remove(s)
      BY <1>w, <3>1 DEF Book!Remove
    <3> QED
      BY <1>w, <2>3, <3>2 DEF Book!BookNext
  <2> QED
    BY <2>4, <2>5
<1>4. CASE Check(w)
  <2>1. UNCHANGED <<record, pointer>>
    BY <1>4 DEF Check
  <2>2. \/ job'[w].at = "done"
        \/ /\ job'[w].at = "repoint" /\ job'[w].session = s /\ job'[w].kind = job[w].kind
           /\ job'[w].seen = job[w].seen /\ pointer = s
    BY <1>4, GoNow, DoneNow DEF Check
  <2>3. IF job[w].kind = "remove" THEN record[s] = "none"
                                  ELSE /\ record[s] = job[w].seen /\ job[w].seen \in kept
                                       /\ job[w].seen = "detached" => pointer # s
    BY <1>4 DEF Check, At, BookInv, BookPatch
  <2> QED
    BY <1>0, <2>1, <2>2, <2>3 DEF BookStatus, BookInv, BookWrite, BookPatch, BookDetach
<1>5. CASE Repoint(w)
  <2>1. /\ record' = record /\ pointer = s /\ job'[w].at = "done"
        /\ pointer' = IF job[w].kind # "remove" /\ job[w].seen = "active" THEN s ELSE NoSession
        /\ IF job[w].kind = "remove" THEN record[s] = "none"
                                     ELSE record[s] = job[w].seen /\ job[w].seen \in kept \ {"detached"}
    BY <1>5, DoneNow DEF Repoint, At, BookInv, BookPatch
  <2>2. BookInv(w)'
    BY <2>1 DEF BookInv, BookWrite, BookPatch, BookDetach
  <2>3. \A t \in Session \ {s} : BookStatus(t)' = BookStatus(t)
    BY <1>w, <2>1 DEF BookStatus
  <2>4. CASE pointer' = s
    BY <1>0, <2>1, <2>2, <2>3, <2>4 DEF BookStatus
  <2>5. CASE pointer' # s
    <3>1. BookStatus(s) = "active" /\ BookStatus(s)' = record[s] /\ record[s] \in {"none", "idle", "archived"}
      BY <2>1, <2>5 DEF BookStatus, Status
    <3>2. Book!Become(s, record[s])
      BY <1>w, <2>3, <3>1, ShownOf
    <3>3. Book!Remove(s) \/ Book!Rest(s) \/ Book!Archive(s)
      BY <1>w, <3>1, <3>2 DEF Book!Remove, Book!Rest, Book!Archive
    <3> QED
      BY <1>w, <2>2, <3>3 DEF Book!BookNext
  <2> QED
    BY <2>4, <2>5
<1> QED
  BY <1>1, <1>2, <1>3, <1>4, <1>5

LEMMA DetachBook ==
  ASSUME TypeInv, NEW w \in Worker, BookInv(w),
         \/ List(w) \/ (\E s \in Session : Each(w, s)) \/ Clear(w) \/ ActivateNext(w)
         \/ EnterMove(w) \/ EndTurn(w)
  PROVE  BookInv(w)' /\ [Book!BookNext]_ShownBook
<1> DEFINE s == job[w].session
           b == Removed(w)
           gone == IF job[w].kind = "detach" THEN "detached" ELSE "none"
<1>w. /\ record \in [Session -> Status] /\ pointer \in Session \cup {NoSession} /\ NoSession \notin Session
      /\ UNCHANGED <<used, branches>>
  BY SessionAssumption DEF TypeInv, TypeOK, List, Each, Clear, ActivateNext, EnterMove, EndTurn
<1>0. ASSUME UNCHANGED <<record, pointer>>
      PROVE  [Book!BookNext]_ShownBook
  BY <1>w, <1>0, Unshown DEF BookStatus
<1>1. CASE List(w)
  <2>1. /\ job'[w].at = "each" /\ job'[w].session = s /\ job'[w].prev = pointer
        /\ job'[w].kind = job[w].kind
        /\ job'[w].todo = {t \in SessionsOn(b) : Seen(t) # "none"}
        /\ UNCHANGED <<record, pointer>> /\ b \notin branches
    BY <1>1, JobFields DEF List, At, TypeInv, TypeOK, JobSet, BookInv, BookDetach
  <2>2. Removed(w)' = b
    BY <2>1 DEF Removed
  <2>3. \A t \in SessionsOn(b) : Seen(t) = IF pointer = t THEN "active" ELSE record[t]
    BY DEF Seen
  <2>4. BookInv(w)'
    BY <1>w, <2>1, <2>2, <2>3 DEF BookInv, BookWrite, BookPatch, BookDetach, SessionsOn
  <2> QED
    BY <1>0, <2>1, <2>4
<1>2. ASSUME NEW t \in Session, Each(w, t)
      PROVE  BookInv(w)' /\ [Book!BookNext]_ShownBook
  <2>1. /\ job'[w].at = "each" /\ job'[w].session = s /\ job'[w].prev = job[w].prev
        /\ job'[w].kind = job[w].kind /\ job'[w].todo = job[w].todo \ {t}
    BY <1>2, JobFields DEF Each, At, TypeInv, TypeOK, JobSet
  <2>2. /\ t \in job[w].todo /\ BranchOf[t] = b /\ b \notin branches /\ pointer' = pointer
        /\ Save(t, gone) /\ job[w].prev = pointer /\ job[w].todo \subseteq SessionsOn(b)
        /\ \A u \in job[w].todo : pointer = u \/ record[u] # "none"
        /\ \A u \in SessionsOn(b) \ job[w].todo : pointer = u => record[u] = gone
    BY <1>2 DEF Each, At, BookInv, BookDetach, SessionsOn
  <2>3. /\ \A u \in Session \ {t} : BookStatus(u)' = BookStatus(u)
        /\ BookStatus(t)' = IF pointer = t THEN "active" ELSE gone
        /\ record'[t] = gone /\ \A u \in Session \ {t} : record'[u] = record[u]
    BY <1>w, <2>2, SavedShows
  <2>4. Removed(w)' = b
    BY <2>1 DEF Removed
  <2>5. BookInv(w)'
    BY <1>w, <2>1, <2>2, <2>3, <2>4 DEF BookInv, BookWrite, BookPatch, BookDetach, SessionsOn
  <2>6. CASE pointer = t
    <3>1. \A u \in Session : BookStatus(u)' = BookStatus(u)
      BY <2>3, <2>6 DEF BookStatus
    <3> QED
      BY <1>w, <2>5, <3>1, Unshown
  <2>7. CASE pointer # t
    <3>0. BookStatus(t) # "none"
      BY <2>2, <2>7 DEF BookStatus
    <3>1. BookStatus(t) # "none" /\ Book!Become(t, gone)
      <4>1. BookStatus(t)' = gone
        BY <2>3, <2>7
      <4> HIDE DEF gone
      <4> QED
        BY <2>3, <3>0, <4>1, ShownOf
    <3>2. Book!Detach(t) \/ Book!Remove(t)
      BY <1>w, <2>2, <3>1 DEF Book!Detach, Book!Remove
    <3> QED
      BY <1>w, <2>5, <3>2 DEF Book!BookNext
  <2> QED
    BY <2>6, <2>7
<1>3. CASE Clear(w)
  <2>1. /\ job[w].prev = pointer /\ job[w].todo = {} /\ record' = record /\ b \notin branches
        /\ \A t \in SessionsOn(b) : pointer = t => record[t] = gone
    BY <1>3 DEF Clear, At, BookInv, BookDetach
  <2>2. job'[w].at \in {"next", "done"}
    BY <1>3, GoNow, DoneNow DEF Clear
  <2>3. BookInv(w)'
    BY <2>2 DEF BookInv, BookWrite, BookPatch, BookDetach
  <2>4. CASE pointer' = pointer
    BY <1>0, <2>1, <2>3, <2>4
  <2>5. CASE pointer' # pointer
    <3>1. pointer \in Session /\ BranchOf[pointer] = b /\ pointer' = NoSession
      BY <1>3, <1>w, <2>1, <2>5 DEF Clear
    <3>2. record[pointer] = gone
      BY <2>1, <3>1 DEF SessionsOn
    <3>3. BookStatus(pointer) = "active" /\ Book!Become(pointer, gone)
      <4>1. \A t \in Session \ {pointer} : BookStatus(t)' = BookStatus(t)
        BY <1>w, <2>1, <3>1, PointedShows DEF BookStatus
      <4>2. BookStatus(pointer) = "active"
        BY DEF BookStatus
      <4>3. (IF pointer' = pointer THEN "active"
             ELSE IF record'[pointer] = "active" THEN "idle" ELSE record'[pointer]) = gone
        BY <2>1, <2>5, <3>2
      <4>4. \A t \in Session : t = pointer => BookStatus(t)' = gone
        BY <1>w, <2>1, <3>1, <3>2, PointedShows
      <4>5. \A t \in Session : t = pointer => Book!Become(t, gone)
        BY <4>1, <4>4, ShownOf
      <4> QED
        BY <3>1, <4>2, <4>5
    <3>4. Book!Detach(pointer) \/ Book!Remove(pointer)
      BY <1>w, <2>1, <3>1, <3>3 DEF Book!Detach, Book!Remove
    <3> QED
      BY <2>3, <3>1, <3>4 DEF Book!BookNext
  <2> QED
    BY <2>4, <2>5
<1>4. CASE ActivateNext(w)
  <2>1. UNCHANGED <<record, pointer>>
    BY <1>4 DEF ActivateNext
  <2>2. \/ job'[w].at = "done"
        \/ \E t \in Session : Seen(t) = "idle" /\ job'[w].at = "write" /\ job'[w].session = t
    <3>1. \/ Done(w)
          \/ \E t \in Session :
               /\ Seen(t) = "idle"
               /\ job' = [job EXCEPT ![w].session = t, ![w].at = "write"]
      BY <1>4 DEF ActivateNext
    <3>2. ASSUME NEW t \in Session, job' = [job EXCEPT ![w].session = t, ![w].at = "write"]
          PROVE  job'[w].at = "write" /\ job'[w].session = t
      BY <3>2, JobFields DEF TypeInv, TypeOK, JobSet
    <3> QED
      BY <3>1, <3>2, DoneNow
  <2> QED
    BY <1>0, <1>w, <2>1, <2>2 DEF BookInv, BookWrite, BookPatch, BookDetach, Seen, Playable
<1>5. CASE EnterMove(w)
  <2>1. UNCHANGED <<record, pointer>>
    BY <1>5 DEF EnterMove
  <2>2. \/ job'[w].at = "done"
        \/ job'[w].at = "write" /\ job'[w].session = s /\ Seen(s) \in Playable
    BY <1>5, GoNow, DoneNow DEF EnterMove
  <2> QED
    BY <1>0, <1>w, <2>1, <2>2 DEF BookInv, BookWrite, BookPatch, BookDetach, Seen
<1>6. CASE EndTurn(w)
  <2>1. UNCHANGED <<record, pointer>> /\ pointer = s
    BY <1>6 DEF EndTurn, At, BookInv, BookWrite
  <2>2. job'[w].at = "done" \/ (job'[w].at = "write" /\ job'[w].session = s)
    BY <1>6, DoneNow, JobFields DEF EndTurn, TypeInv, TypeOK, JobSet
  <2> QED
    BY <1>0, <2>1, <2>2 DEF BookInv, BookWrite, BookPatch, BookDetach
<1> QED
  BY <1>1, <1>2, <1>3, <1>4, <1>5, <1>6

\* The files of the store, as active.json shows them, implement SessionBook,
\* also when the host dies between two of them: the active session changes in
\* one step, a removed session never comes back, a session is detached only
\* when its branch is gone, and only a client's update takes it out of that.
\* One operation runs at a time.
THEOREM KeepsBook ==
  ASSUME NEW w, Worker = {w}
  PROVE  Spec => BookSpec
<1>1. ASSUME Init
      PROVE  Book!BookInit /\ BookInv(w)
  <2>1. Book!BookInit
    BY <1>1, SessionAssumption DEF Init, Book!BookInit, BookStatus
  <2>2. job[w].at = "done"
    BY <1>1 DEF Init, Free, Job
  <2> QED
    BY <2>1, <2>2 DEF BookInv, BookWrite, BookPatch, BookDetach
<1>2. ASSUME TypeInv, BookInv(w), [Next]_vars
      PROVE  BookInv(w)' /\ [Book!BookNext]_ShownBook
  <2>1. CASE UNCHANGED vars
    BY <2>1, <1>2, Unshown
       DEF vars, BookStatus, BookInv, BookWrite, BookPatch, BookDetach, Removed
  <2>2. CASE Crash
    <3>1. job'[w].at = "done" /\ UNCHANGED <<record, pointer, used, branches>>
      BY <2>2 DEF Crash, Free, Job
    <3> QED
      BY <3>1, Unshown DEF BookStatus, BookInv, BookWrite, BookPatch, BookDetach
  <2>3. CASE Command(w)
    BY <1>2, <2>3, CommandBook
  <2>4. CASE Work(w)
    BY <1>2, <2>4, WriteBook, PatchBook, DetachBook DEF Work
  <2> QED
    BY <1>2, <2>1, <2>2, <2>3, <2>4 DEF Next
<1>3. Spec => [](TypeInv /\ BookInv(w))
  BY <1>1, <1>2, AlwaysTyped, PTL DEF Spec
<1> QED
  BY <1>1, <1>2, <1>3, PTL DEF Spec, BookSpec, Book!BookSpec, ShownBook
=============================================================================
