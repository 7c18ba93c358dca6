------------------------------ MODULE PlayTurn ------------------------------
(***************************************************************************)
(* One turn of the player (world/play-experience.ts performPlayTurn) on    *)
(* one branch: the receipts that make a move happen at most once           *)
(* (world/play-move.ts), the stages that commit events (the player's own,  *)
(* npc-reaction.ts, and respondToPlayer, recoverCanonicalTrajectory and    *)
(* move of runtime.ts).  The session record written at the end is          *)
(* PlaySessions' subject.                                                  *)
(*                                                                         *)
(* Workers are calls in one or several processes (web host, command line); *)
(* moves of one session can overlap, see OneActivePerScope in              *)
(* OperationManager.  A head is the length of the history: heads only grow *)
(* by compare-and-set, as BranchStore shows.  What a model proposes and    *)
(* what the engine's rules accept is a free choice.                        *)
(***************************************************************************)
EXTENDS Integers, Sequences, FiniteSets

CONSTANTS
  Worker, Move, Request,
  Possibility,     \* what the frontier can offer
  NoRequest, NoOutcome, NoMove, NoPossibility,
  MaxSlots,        \* most background slots a turn can grant
  MaxActors,       \* advanceActors
  MaxDirect,       \* most characters a move addresses
  MaxLog           \* bound: commits of the branch

ASSUME BoundAssumption ==
  MaxSlots \in Nat /\ MaxActors \in Nat /\ MaxDirect \in Nat /\ MaxLog \in Nat

\* What a receipt records: the final head, the events it lists and whether a
\* stage reported an error.
Outcome == [head : Nat, listed : SUBSET Nat, failed : BOOLEAN]

ASSUME NullAssumption ==
  /\ NoRequest \notin Request /\ NoMove \notin Move /\ NoPossibility \notin Possibility
  /\ NoOutcome \notin Outcome

VARIABLES
  log,       \* the committed events of the branch
  intent,    \* intent.json of each move: the request it was admitted for
  outcome,   \* outcome.json of each move
  job,       \* what each worker is doing
  told       \* history: the outcomes returned to clients

vars == <<log, intent, outcome, job, told>>

Idle == [pc |-> "idle", move |-> NoMove, request |-> NoRequest, head |-> 0,
         listed |-> {}, pending |-> {}, failed |-> FALSE,
         slots |-> 0, direct |-> 0, left |-> 0]

Init ==
  /\ log = <<>>
  /\ intent = [m \in Move |-> NoRequest] /\ outcome = [m \in Move |-> NoOutcome]
  /\ job = [w \in Worker |-> Idle]
  /\ told = {}

At(w, label) == job[w].pc = label
Become(w, j) == job' = [job EXCEPT ![w] = j]
Goto(w, label) == Become(w, [job[w] EXCEPT !.pc = label])
Finish(w) == Become(w, Idle)
Excess(n, m) == IF n > m THEN n - m ELSE 0

receipts == <<intent, outcome, told>>

Tell(m, r, o) == told' = told \cup {[move |-> m, request |-> r, outcome |-> o]}

-----------------------------------------------------------------------------
(* PlayMoveStore: lookup and begin                                         *)

\* No intent: the move is new.  The head the turn is to build on is read; actor,
\* affordance, sources and the expected head are checked against it, and a
\* refusal changes nothing.
Open(w, m, r) ==
  /\ At(w, "idle") /\ intent[m] = NoRequest
  /\ Become(w, [Idle EXCEPT !.pc = "begin", !.move = m, !.request = r, !.head = Len(log)])
  /\ UNCHANGED <<log, receipts>>

\* PLAY_MOVE_ID_CONFLICT, or PLAY_MOVE_RECOVERY_REQUIRED for want of a receipt.
LookupRefuses(w, m, r) ==
  /\ At(w, "idle") /\ intent[m] # NoRequest
  /\ intent[m] # r \/ outcome[m] = NoOutcome
  /\ UNCHANGED vars

\* replayPlayMove: the saved outcome, whose head must be in the history, answers.
Replay(m, r) ==
  /\ intent[m] = r /\ outcome[m] # NoOutcome
  /\ IF outcome[m].head > Len(log) THEN UNCHANGED told ELSE Tell(m, r, outcome[m])

LookupSaved(w, m, r) ==
  /\ At(w, "idle")
  /\ Replay(m, r)
  /\ UNCHANGED <<log, intent, outcome, job>>

\* Mutant: the admission is remembered by the process only.
BeginInMemory(w) ==
  /\ At(w, "begin") /\ intent[job[w].move] = NoRequest
  /\ Goto(w, "player")
  /\ UNCHANGED <<log, receipts>>

\* link() publishes the intent unless there is one.
Begin(w) ==
  /\ At(w, "begin") /\ intent[job[w].move] = NoRequest
  /\ intent' = [intent EXCEPT ![job[w].move] = job[w].request]
  /\ Goto(w, "player")
  /\ UNCHANGED <<log, outcome, told>>

\* Another call was faster: its outcome is looked up, for want of which this
\* one is refused.
BeginTaken(w) ==
  LET m == job[w].move IN
  /\ At(w, "begin") /\ intent[m] # NoRequest
  /\ \/ Replay(m, job[w].request)
     \/ /\ intent[m] # job[w].request \/ outcome[m] = NoOutcome
        /\ UNCHANGED told
  /\ Finish(w)
  /\ UNCHANGED <<log, intent, outcome>>

\* publish throws, before the link or after it.
BeginFails(w) ==
  /\ At(w, "begin")
  /\ \/ UNCHANGED intent
     \/ /\ intent[job[w].move] = NoRequest
        /\ intent' = [intent EXCEPT ![job[w].move] = job[w].request]
  /\ Finish(w)
  /\ UNCHANGED <<log, outcome, told>>

-----------------------------------------------------------------------------
(* Commits.  WorldEngine.commitProposal rejects a proposal whose expected  *)
(* parent is not the head, and updateHead throws when the head has moved   *)
(* in the meantime: an event is appended at the head it was proposed at.   *)
(* An error may still come after the head was written.                     *)

\* Mutant: the head is not compared.
AtHeadAnyway(w) == Len(log) < MaxLog

AtHead(w) == Len(log) = job[w].head /\ Len(log) < MaxLog

Extend(w, lane, p, slots) ==
  log' = Append(log, [lane |-> lane, move |-> job[w].move, poss |-> p, slots |-> slots])

\* The frontier at the job's head offers what no event up to there realizes.
Eligible(w) == {p \in Possibility : \A i \in 1 .. job[w].head : log[i].poss # p}

\* A stage that throws has committed nothing, or its event landed anyway.
MayLand(w, lane, ps) ==
  \/ UNCHANGED log
  \/ AtHead(w) /\ \E p \in ps : Extend(w, lane, p, 0)

Event == Len(log) + 1

-----------------------------------------------------------------------------
(* PlayerTurnService.turn                                                  *)

\* The engine accepts: the event may realize a possibility, and grants the
\* background slots (requested, one for a wait, one for a divergence).
PlayerCommits(w) ==
  /\ At(w, "player") /\ AtHead(w)
  /\ \E p \in Eligible(w) \cup {NoPossibility}, slots \in 0..MaxSlots, direct \in 0..MaxDirect :
       /\ Extend(w, "player", p, slots)
       /\ Become(w, [job[w] EXCEPT !.pc = "render", !.head = Event, !.listed = {Event},
                                   !.slots = slots, !.direct = direct])
  /\ UNCHANGED receipts

PlayerLost(w) ==
  /\ At(w, "player") /\ AtHead(w)
  /\ \E p \in Eligible(w) \cup {NoPossibility}, slots \in 0..MaxSlots :
       Extend(w, "player", p, slots)
  /\ Finish(w)
  /\ UNCHANGED receipts

\* Rejected by translation, scope, knowledge or engine: no stage follows.
PlayerRejected(w) ==
  /\ At(w, "player")
  /\ Become(w, [job[w] EXCEPT !.pc = "publish", !.head = Len(log)])
  /\ UNCHANGED <<log, receipts>>

\* renderAt refuses to render at a head the branch has left.
Render(w) ==
  /\ At(w, "render") /\ Len(log) = job[w].head
  /\ Goto(w, "npc")
  /\ UNCHANGED <<log, receipts>>

\* PLAY_MOVE_RECOVERY_REQUIRED: "The admitted move stopped".
Throws(w) ==
  /\ job[w].pc \in {"player", "render", "npcFailed", "worldFailed",
                    "recoverFailed", "moveFailed"}
  /\ Finish(w)
  /\ UNCHANGED <<log, receipts>>

-----------------------------------------------------------------------------
(* respondToNpcInteractions: the addressed characters answer in turn.      *)

NpcStarts(w) ==
  /\ At(w, "npc")
  /\ Become(w, IF job[w].direct = 0 THEN [job[w] EXCEPT !.pc = "world"]
               ELSE [job[w] EXCEPT !.pc = "npcs", !.head = Len(log), !.left = job[w].direct])
  /\ UNCHANGED <<log, receipts>>

NpcCommits(w) ==
  /\ At(w, "npcs") /\ job[w].left > 0 /\ AtHead(w)
  /\ Extend(w, "npc", NoPossibility, 0)
  /\ Become(w, [job[w] EXCEPT !.head = Event, !.left = @ - 1, !.pending = @ \cup {Event}])
  /\ UNCHANGED receipts

NpcIsSilent(w) ==
  /\ At(w, "npcs") /\ job[w].left > 0
  /\ Become(w, [job[w] EXCEPT !.left = @ - 1])
  /\ UNCHANGED <<log, receipts>>

\* One character's failure is noted; the next one starts from the new head.
NpcFails(w) ==
  /\ At(w, "npcs") /\ job[w].left > 0
  /\ MayLand(w, "npc", {NoPossibility})
  /\ Become(w, [job[w] EXCEPT !.head = Len(log'), !.left = @ - 1, !.failed = TRUE])
  /\ UNCHANGED receipts

NpcsDone(w) ==
  /\ At(w, "npcs") /\ job[w].left = 0
  /\ Become(w, [job[w] EXCEPT !.pc = "world", !.listed = @ \cup job[w].pending, !.pending = {}])
  /\ UNCHANGED <<log, receipts>>

\* The batch itself throws: what it has committed is not reported.
NpcsThrow(w) ==
  /\ At(w, "npcs")
  /\ Become(w, [job[w] EXCEPT !.pc = "npcFailed", !.pending = {}])
  /\ UNCHANGED <<log, receipts>>

-----------------------------------------------------------------------------
(* respondToPlayer, then recoverCanonicalTrajectory: one event each at     *)
(* most, at the head the stage before has left.                            *)

WorldResponds(w) ==
  /\ At(w, "world") /\ AtHead(w)
  /\ \E p \in Eligible(w) : Extend(w, "world", p, 0)
  /\ Become(w, [job[w] EXCEPT !.pc = "recover", !.head = Event, !.listed = @ \cup {Event}])
  /\ UNCHANGED receipts

WorldIsSilent(w) ==
  /\ At(w, "world")
  /\ Goto(w, "recover")
  /\ UNCHANGED <<log, receipts>>

WorldFails(w) ==
  /\ At(w, "world")
  /\ MayLand(w, "world", Eligible(w))
  /\ Goto(w, "worldFailed")
  /\ UNCHANGED receipts

\* An attachment uses up one background slot.
Recovers(w) ==
  /\ At(w, "recover") /\ AtHead(w)
  /\ \E p \in Eligible(w) : Extend(w, "recovery", p, 0)
  /\ Become(w, [job[w] EXCEPT !.pc = "move", !.head = Event, !.listed = @ \cup {Event},
                              !.slots = Excess(@, 1)])
  /\ UNCHANGED receipts

RecoversNothing(w) ==
  /\ At(w, "recover")
  /\ Goto(w, "move")
  /\ UNCHANGED <<log, receipts>>

\* Mutant: after a failed recovery the background stage goes on.
RecoveryFailsOpen(w) ==
  /\ At(w, "recover")
  /\ MayLand(w, "recovery", Eligible(w))
  /\ Goto(w, "recoverFailed")
  /\ UNCHANGED receipts

\* "A failed recovery stops background scheduling for this turn."
RecoveryFails(w) ==
  /\ At(w, "recover")
  /\ MayLand(w, "recovery", Eligible(w))
  /\ Become(w, [job[w] EXCEPT !.pc = "recoverFailed", !.slots = 0])
  /\ UNCHANGED receipts

-----------------------------------------------------------------------------
(* WorldRuntime.move without a player proposal                             *)

MoveStarts(w) ==
  /\ At(w, "move")
  /\ Become(w, [job[w] EXCEPT !.pc = "actors", !.head = Len(log),
                              !.left = Excess(MaxActors, job[w].direct), !.direct = 0])
  /\ UNCHANGED <<log, receipts>>

ActorCommits(w) ==
  /\ At(w, "actors") /\ job[w].left > 0 /\ AtHead(w)
  /\ Extend(w, "actor", NoPossibility, 0)
  /\ Become(w, [job[w] EXCEPT !.head = Event, !.left = @ - 1, !.pending = @ \cup {Event}])
  /\ UNCHANGED receipts

\* No candidate is left, or the engine rejects the rest.
ActorsDone(w) ==
  /\ At(w, "actors")
  /\ Become(w, [job[w] EXCEPT !.pc = "background", !.left = 0])
  /\ UNCHANGED <<log, receipts>>

\* A candidate that is invalid, or stale because another worker has moved the
\* head, is set aside for the next one.
BackgroundCommits(w) ==
  /\ At(w, "background") /\ job[w].slots > 0 /\ AtHead(w)
  /\ \E p \in Eligible(w) : Extend(w, "background", p, 0)
  /\ Become(w, [job[w] EXCEPT !.head = Event, !.slots = @ - 1, !.pending = @ \cup {Event}])
  /\ UNCHANGED receipts

\* Mutant: the background events are not reported.
MoveDoneSilently(w) ==
  /\ At(w, "background")
  /\ Become(w, [job[w] EXCEPT !.pc = "publish", !.pending = {}])
  /\ UNCHANGED <<log, receipts>>

MoveDone(w) ==
  /\ At(w, "background")
  /\ Become(w, [job[w] EXCEPT !.pc = "publish", !.listed = @ \cup job[w].pending,
                              !.pending = {}, !.slots = 0])
  /\ UNCHANGED <<log, receipts>>

\* What this call has committed so far is not reported.
MoveFails(w) ==
  /\ At(w, "actors") \/ At(w, "background")
  /\ IF At(w, "actors")
       THEN MayLand(w, "actor", IF job[w].left > 0 THEN {NoPossibility} ELSE {})
       ELSE MayLand(w, "background", IF job[w].slots > 0 THEN Eligible(w) ELSE {})
  /\ Become(w, [job[w] EXCEPT !.pc = "moveFailed", !.pending = {}, !.slots = 0])
  /\ UNCHANGED receipts

-----------------------------------------------------------------------------
(* Every stage catches its error, notes it and reads the head again.       *)

AfterFailure == [npcFailed |-> "world", worldFailed |-> "recover",
                 recoverFailed |-> "move", moveFailed |-> "publish"]

Catches(w) ==
  /\ job[w].pc \in DOMAIN AfterFailure
  /\ Become(w, [job[w] EXCEPT !.pc = AfterFailure[job[w].pc], !.failed = TRUE,
                              !.head = Len(log), !.left = 0])
  /\ UNCHANGED <<log, receipts>>

-----------------------------------------------------------------------------
(* PlayMoveStore.complete                                                  *)

Result(w) == [head |-> job[w].head, listed |-> job[w].listed, failed |-> job[w].failed]

\* Mutant: the outcome is returned without its receipt.
CompleteUnpublished(w) ==
  /\ At(w, "publish")
  /\ Tell(job[w].move, job[w].request, Result(w))
  /\ Finish(w)
  /\ UNCHANGED <<log, intent, outcome>>

Complete(w) ==
  /\ At(w, "publish") /\ outcome[job[w].move] = NoOutcome
  /\ outcome' = [outcome EXCEPT ![job[w].move] = Result(w)]
  /\ Tell(job[w].move, job[w].request, Result(w))
  /\ Finish(w)
  /\ UNCHANGED <<log, intent>>

\* publish throws, before the link or after it.
CompleteFails(w) ==
  /\ At(w, "publish")
  /\ \/ UNCHANGED outcome
     \/ /\ outcome[job[w].move] = NoOutcome
        /\ outcome' = [outcome EXCEPT ![job[w].move] = Result(w)]
  /\ Finish(w)
  /\ UNCHANGED <<log, intent, told>>

-----------------------------------------------------------------------------
\* The process of the worker dies.
Crash(w) ==
  /\ ~At(w, "idle")
  /\ Finish(w)
  /\ UNCHANGED <<log, receipts>>

Admission(w) ==
  \/ \E m \in Move, r \in Request :
       Open(w, m, r) \/ LookupRefuses(w, m, r) \/ LookupSaved(w, m, r)
  \/ Begin(w) \/ BeginTaken(w) \/ BeginFails(w)

Stages(w) ==
  \/ PlayerCommits(w) \/ PlayerLost(w) \/ PlayerRejected(w) \/ Render(w) \/ Throws(w)
  \/ NpcStarts(w) \/ NpcCommits(w) \/ NpcIsSilent(w) \/ NpcFails(w) \/ NpcsDone(w) \/ NpcsThrow(w)
  \/ WorldResponds(w) \/ WorldIsSilent(w) \/ WorldFails(w)
  \/ Recovers(w) \/ RecoversNothing(w) \/ RecoveryFails(w)
  \/ MoveStarts(w) \/ ActorCommits(w) \/ ActorsDone(w)
  \/ BackgroundCommits(w) \/ MoveDone(w) \/ MoveFails(w)
  \/ Catches(w) \/ Complete(w) \/ CompleteFails(w)

Next == \E w \in Worker : Admission(w) \/ Stages(w) \/ Crash(w)

Spec == Init /\ [][Next]_vars

-----------------------------------------------------------------------------
(* Properties.                                                             *)

Lanes == {"player", "npc", "world", "recovery", "actor", "background"}
Executing == {"player", "render", "npc", "npcs", "world", "recover", "move", "actors",
              "background", "publish"} \cup DOMAIN AfterFailure

Job == [pc : {"idle", "begin"} \cup Executing, move : Move \cup {NoMove},
        request : Request \cup {NoRequest}, head : Nat, listed : SUBSET Nat,
        pending : SUBSET Nat, failed : BOOLEAN, slots : 0..MaxSlots,
        direct : 0..MaxDirect, left : Nat]

TypeOK ==
  /\ log \in Seq([lane : Lanes, move : Move, poss : Possibility \cup {NoPossibility}, slots : Nat])
  /\ intent \in [Move -> Request \cup {NoRequest}]
  /\ outcome \in [Move -> Outcome \cup {NoOutcome}]
  /\ job \in [Worker -> Job]
  /\ \A w \in Worker : job[w].head <= Len(log) /\ (~At(w, "idle") => job[w].move \in Move)
  /\ told \subseteq [move : Move, request : Request, outcome : Outcome]

Of(m, lanes) == {i \in 1 .. Len(log) : log[i].move = m /\ log[i].lane \in lanes}
Own(m) == Of(m, Lanes)
Many(m, lane) == Cardinality(Of(m, {lane}))
Larger(a, b) == IF a > b THEN a ELSE b

\* PlayMoveStore: "An exclusive immutable intent prevents two workers from
\* executing one move."  However calls overlap, crash and are repeated, the
\* player's action of a move is committed at most once, only for an admitted
\* move, and what the world does because of a move comes after that action.
MoveHappensOnce ==
  \A m \in Move :
    /\ \A i, j \in Of(m, {"player"}) : i = j
    /\ Own(m) # {} => intent[m] # NoRequest
    /\ \A i \in Own(m) : \E j \in Of(m, {"player"}) : j <= i

\* A story possibility is realized by one event only, although the player, the
\* world's response, the recovery and the background of several workers all
\* choose from eligibility computed at an earlier head.
PossibilityOnce ==
  \A i, j \in 1 .. Len(log) :
    log[i].poss # NoPossibility /\ log[i].poss = log[j].poss => i = j

\* The slots the player's event has granted to a move.
Granted(m) == LET player == Of(m, {"player"}) IN
              IF player = {} THEN 0 ELSE log[CHOOSE i \in player : TRUE].slots

\* performPlayTurn: an attachment consumes one progression slot ("do not
\* silently chain a second world event in the same slot"), a failed recovery
\* does not open the gate, and characters act within one common budget: the
\* background of a move stays within what its player's event has granted, even
\* when a stage reports failure after its commit has landed.
BudgetHeld ==
  \A m \in Move :
    /\ Many(m, "recovery") <= 1 /\ Many(m, "world") <= 1
    /\ Many(m, "background") <= Excess(Granted(m), Many(m, "recovery"))
    /\ Many(m, "actor") + Many(m, "npc") <= Larger(MaxActors, MaxDirect)

\* The receipt of a move accounts for it: every event the move has committed
\* is in the history of its final head, nothing else is listed, and unless a
\* stage reported an error the list is complete.
OutcomeAccounts ==
  \A m \in Move : outcome[m] # NoOutcome =>
    /\ \A i \in Own(m) : i <= outcome[m].head
    /\ outcome[m].listed \subseteq Own(m)
    /\ ~outcome[m].failed => outcome[m].listed = Own(m)

\* Every client that was answered got the one outcome that is on disk, for
\* the request the move was admitted with: a retry, on the same or another
\* process, before or after a crash, cannot get another answer.
AnswersAgree ==
  \A t \in told : outcome[t.move] = t.outcome /\ intent[t.move] = t.request
=============================================================================
