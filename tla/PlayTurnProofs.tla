--------------------------- MODULE PlayTurnProofs ---------------------------
(***************************************************************************)
(* The turn for any workers, moves, requests and possibilities.  Every     *)
(* step of a stage has one shape (StageStep): at most one event, appended  *)
(* at the head the stage has seen, of the move of its worker.  The         *)
(* invariants rest on that shape and on the receipts: the worker that      *)
(* published the intent of a move is the only one that ever executes it.   *)
(***************************************************************************)
EXTENDS PlayTurn, TLAPS, SequenceTheorems, FiniteSetTheorems

Entry == [lane : Lanes, move : Move, poss : Possibility \cup {NoPossibility}, slots : Nat]

\* The stages that follow the player's event.
Staged == Executing \ {"player", "publish"}

\* A worker that is not idle knows its request.
RequestInv == \A w \in Worker : ~At(w, "idle") => job[w].request \in Request

TypeInv == TypeOK /\ RequestInv

Appends(w, lane) ==
  /\ AtHead(w)
  /\ \E p \in Eligible(w) \cup {NoPossibility}, slots \in 0..MaxSlots : Extend(w, lane, p, slots)

StageStep(w) ==
  /\ UNCHANGED receipts
  /\ job[w].pc \in Executing \ {"publish"}
  /\ log' = log \/ \E lane \in Lanes :
       /\ Appends(w, lane)
       /\ lane = "player" <=> At(w, "player")
  /\ \/ Finish(w)
     \/ \E j \in Job :
          /\ Become(w, j)
          /\ j.move = job[w].move /\ j.request = job[w].request /\ j.head <= Len(log')
          /\ j.pc \in Executing \ {"player"}
          /\ j.pc \in Staged /\ At(w, "player") => log' # log

LEMMA IdleTyped == Idle \in Job /\ Idle.pc = "idle" /\ Idle.head = 0
BY BoundAssumption DEF Idle, Job

LEMMA JobTyped ==
  ASSUME TypeOK, NEW w \in Worker
  PROVE  /\ job[w] \in Job
         /\ job[w].pc \in {"idle", "begin"} \cup Executing
         /\ job[w].head \in Nat /\ job[w].head <= Len(log) /\ Len(log) \in Nat
         /\ job[w].listed \subseteq Nat /\ job[w].pending \subseteq Nat
         /\ job[w].failed \in BOOLEAN /\ job[w].slots \in 0..MaxSlots
         /\ job[w].direct \in 0..MaxDirect /\ job[w].left \in Nat
         /\ job[w].move \in Move \cup {NoMove} /\ job[w].request \in Request \cup {NoRequest}
         /\ ~At(w, "idle") => job[w].move \in Move
<1>1. job[w] \in Job /\ log \in Seq(Entry)
  BY DEF TypeOK, Entry
<1> QED
  BY <1>1 DEF TypeOK, Job

LEMMA Appended ==
  ASSUME TypeOK, NEW w \in Worker, ~At(w, "idle"), NEW lane \in Lanes,
         NEW p \in Possibility \cup {NoPossibility}, NEW slots \in Nat, Extend(w, lane, p, slots)
  PROVE  /\ log' \in Seq(Entry) /\ Len(log') = Len(log) + 1 /\ log' # log
         /\ \A i \in 1 .. Len(log) : log'[i] = log[i]
         /\ log'[Len(log) + 1] = [lane |-> lane, move |-> job[w].move, poss |-> p, slots |-> slots]
<1> DEFINE e == [lane |-> lane, move |-> job[w].move, poss |-> p, slots |-> slots]
<1>1. log \in Seq(Entry) /\ e \in Entry
  BY JobTyped DEF TypeOK, Entry
<1>2. log' = Append(log, e)
  BY DEF Extend
<1> QED
  BY <1>1, <1>2, AppendProperties

-----------------------------------------------------------------------------
(* Every stage has the shape.                                              *)

LEMMA Land ==
  ASSUME TypeOK, NEW w \in Worker, NEW lane \in Lanes, NEW ps, MayLand(w, lane, ps),
         ps \subseteq Eligible(w) \cup {NoPossibility},
         lane = "player" <=> At(w, "player")
  PROVE  log' = log \/ \E l \in Lanes : Appends(w, l) /\ (l = "player" <=> At(w, "player"))
<1>1. 0 \in 0..MaxSlots
  BY BoundAssumption
<1> QED
  BY <1>1 DEF MayLand, Appends

LEMMA LogGrows ==
  ASSUME TypeOK, NEW w \in Worker, ~At(w, "idle"),
         log' = log \/ \E l \in Lanes : Appends(w, l) /\ (l = "player" <=> At(w, "player"))
  PROVE  Len(log') \in Nat /\ (log' = log \/ Len(log') = Len(log) + 1)
<1>1. CASE log' = log
  BY <1>1, JobTyped
<1>2. ASSUME NEW l \in Lanes, Appends(w, l)
      PROVE  Len(log') = Len(log) + 1
  <2>1. PICK p \in Eligible(w) \cup {NoPossibility}, slots \in 0..MaxSlots : Extend(w, l, p, slots)
    BY <1>2 DEF Appends
  <2>2. p \in Possibility \cup {NoPossibility} /\ slots \in Nat
    BY BoundAssumption DEF Eligible
  <2> QED
    BY <2>1, <2>2, Appended
<1> QED
  BY <1>1, <1>2, JobTyped

Failures == {"npcFailed", "worldFailed", "recoverFailed", "moveFailed"}

LEMMA FailureLabels ==
  /\ DOMAIN AfterFailure = Failures
  /\ \A x \in Failures : AfterFailure[x] \in {"world", "recover", "move", "publish"}
BY DEF AfterFailure, Failures

LEMMA Labels ==
  /\ Executing = {"player", "render", "npc", "npcs", "world", "recover", "move", "actors",
                  "background", "publish"} \cup Failures
  /\ Staged = {"render", "npc", "npcs", "world", "recover", "move", "actors", "background"}
                \cup Failures
BY FailureLabels DEF Executing, Staged, Failures

\* j is another record of the same move.
Keeps(j, b) == j \in Job /\ j.move = b.move /\ j.request = b.request

\* What is left to show of an action that goes on without an event, and of one
\* that commits.
LEMMA GoesOn ==
  ASSUME TypeOK, NEW w \in Worker, NEW j, Become(w, j), Keeps(j, job[w]), UNCHANGED <<log, receipts>>,
         job[w].pc \in Staged, j.head <= Len(log), j.pc \in Executing \ {"player"}
  PROVE  StageStep(w)
BY Labels DEF StageStep, At, Keeps, Failures

LEMMA GoesOnAfter ==
  ASSUME TypeOK, NEW w \in Worker, NEW j, Become(w, j), Keeps(j, job[w]), UNCHANGED receipts,
         NEW lane \in Lanes, NEW p \in Eligible(w) \cup {NoPossibility}, NEW slots \in 0..MaxSlots,
         AtHead(w), Extend(w, lane, p, slots),
         job[w].pc \in Executing \ {"publish"}, lane = "player" <=> At(w, "player"),
         j.head = Event, j.pc \in Executing \ {"player"}
  PROVE  StageStep(w)
<1>1. p \in Possibility \cup {NoPossibility} /\ slots \in Nat /\ ~At(w, "idle")
  BY BoundAssumption, Labels DEF Eligible, At, Failures
<1>2. log' # log /\ Len(log') = Event /\ Event \in Nat
  <2>1. Len(log) \in Nat
    BY JobTyped
  <2>2. log' # log /\ Len(log') = Len(log) + 1
    BY <1>1, Appended
  <2> QED
    BY <2>1, <2>2 DEF Event
<1>3. Appends(w, lane)
  BY DEF Appends
<1> QED
  BY <1>2, <1>3 DEF StageStep, Keeps

\* A stage that fails, after a commit or without one.
LEMMA GoesOnAnyhow ==
  ASSUME TypeOK, NEW w \in Worker, NEW j, Become(w, j), Keeps(j, job[w]), UNCHANGED receipts,
         NEW lane \in Lanes \ {"player"}, NEW ps, ps \subseteq Eligible(w) \cup {NoPossibility},
         MayLand(w, lane, ps), job[w].pc \in Staged,
         j.head = job[w].head \/ j.head = Len(log'), j.pc \in Executing \ {"player"}
  PROVE  StageStep(w)
<1>1. job[w].pc \in Executing \ {"publish"} /\ ~At(w, "player") /\ ~At(w, "idle")
  BY Labels DEF At, Failures
<1>2. log' = log \/ \E l \in Lanes : Appends(w, l) /\ (l = "player" <=> At(w, "player"))
  BY <1>1, Land
<1>3. Len(log') \in Nat /\ (log' = log \/ Len(log') = Len(log) + 1)
  BY <1>1, <1>2, LogGrows
<1>4. j.head <= Len(log')
  BY <1>3, JobTyped
<1> QED
  BY <1>1, <1>2, <1>4 DEF StageStep, Keeps

\* The records that the stages make.
LEMMA Edits ==
  ASSUME NEW b \in Job, NEW x \in Executing, NEW e \in Nat, NEW n \in Nat
  PROVE  /\ Keeps([b EXCEPT !.pc = x], b)
         /\ Keeps([b EXCEPT !.pc = x, !.head = e], b)
         /\ Keeps([b EXCEPT !.pc = x, !.head = e, !.left = n], b)
         /\ Keeps([b EXCEPT !.pc = x, !.head = e, !.listed = @ \cup {e}], b)
         /\ Keeps([b EXCEPT !.pc = x, !.left = 0], b)
         /\ Keeps([b EXCEPT !.pc = x, !.failed = TRUE, !.head = e, !.left = 0], b)
         /\ Keeps([b EXCEPT !.pc = x, !.pending = {}], b)
         /\ Keeps([b EXCEPT !.pc = x, !.listed = @ \cup b.pending, !.pending = {}], b)
BY DEF Keeps, Job

LEMMA SlotEdits ==
  ASSUME NEW b \in Job, NEW x \in Executing, NEW e \in Nat, NEW n \in Nat,
         NEW slots \in 0..MaxSlots, NEW direct \in 0..MaxDirect
  PROVE  /\ Keeps([b EXCEPT !.pc = x, !.head = e, !.listed = {e}, !.slots = slots,
                            !.direct = direct], b)
         /\ Keeps([b EXCEPT !.pc = x, !.slots = slots], b)
         /\ Keeps([b EXCEPT !.pc = x, !.head = e, !.listed = @ \cup {e}, !.slots = slots], b)
         /\ Keeps([b EXCEPT !.pc = x, !.head = e, !.left = n, !.direct = direct], b)
         /\ Keeps([b EXCEPT !.head = e, !.slots = slots, !.pending = @ \cup {e}], b)
         /\ Keeps([b EXCEPT !.pc = x, !.listed = @ \cup b.pending, !.pending = {},
                            !.slots = slots], b)
         /\ Keeps([b EXCEPT !.pc = x, !.pending = {}, !.slots = slots], b)
BY DEF Keeps, Job

LEMMA TurnEdits ==
  ASSUME NEW b \in Job, b.left > 0, NEW e \in Nat
  PROVE  /\ Keeps([b EXCEPT !.left = @ - 1], b)
         /\ Keeps([b EXCEPT !.head = e, !.left = @ - 1, !.pending = @ \cup {e}], b)
         /\ Keeps([b EXCEPT !.head = e, !.left = @ - 1, !.failed = TRUE], b)
<1>1. b.left - 1 \in Nat
  BY DEF Job
<1>2. Keeps([b EXCEPT !.left = @ - 1], b)
  BY <1>1 DEF Keeps, Job
<1>3. Keeps([b EXCEPT !.head = e, !.left = @ - 1, !.pending = @ \cup {e}], b)
  BY <1>1 DEF Keeps, Job
<1>4. Keeps([b EXCEPT !.head = e, !.left = @ - 1, !.failed = TRUE], b)
  BY <1>1 DEF Keeps, Job
<1> QED
  BY <1>2, <1>3, <1>4

LEMMA PlayerStage ==
  ASSUME TypeOK, NEW w \in Worker,
         PlayerCommits(w) \/ PlayerLost(w) \/ PlayerRejected(w) \/ Render(w) \/ Throws(w)
  PROVE  StageStep(w)
<1>f. job[w] \in Job /\ Len(log) \in Nat /\ job[w].head <= Len(log) /\ Event \in Nat
  BY JobTyped DEF Event
<1>1. CASE PlayerCommits(w)
  <2>1. PICK p \in Eligible(w) \cup {NoPossibility}, slots \in 0..MaxSlots, direct \in 0..MaxDirect :
          /\ Extend(w, "player", p, slots)
          /\ Become(w, [job[w] EXCEPT !.pc = "render", !.head = Event, !.listed = {Event},
                                      !.slots = slots, !.direct = direct])
    BY <1>1 DEF PlayerCommits
  <2> DEFINE j == [job[w] EXCEPT !.pc = "render", !.head = Event, !.listed = {Event},
                                 !.slots = slots, !.direct = direct]
  <2>2. AtHead(w) /\ At(w, "player") /\ job[w].pc = "player" /\ UNCHANGED receipts /\ "player" \in Lanes
    BY <1>1 DEF PlayerCommits, At, Lanes
  <2>3. "render" \in Executing \ {"player"} /\ "player" \in Executing \ {"publish"}
    BY Labels
  <2>4. Keeps(j, job[w]) /\ j.head = Event /\ j.pc = "render"
    BY <1>f, <2>3, SlotEdits DEF Job
  <2> HIDE DEF j
  <2> QED
    BY <2>1, <2>2, <2>3, <2>4, GoesOnAfter DEF j
<1>2. CASE PlayerLost(w)
  <2>1. Appends(w, "player") /\ "player" \in Lanes /\ job[w].pc = "player"
    BY <1>2 DEF PlayerLost, Appends, Lanes, At
  <2> QED
    BY <1>2, <2>1, Labels DEF PlayerLost, StageStep, At
<1>3. CASE PlayerRejected(w)
  <2> DEFINE j == [job[w] EXCEPT !.pc = "publish", !.head = Len(log)]
  <2>1. Become(w, j) /\ UNCHANGED <<log, receipts>> /\ job[w].pc = "player"
    BY <1>3 DEF PlayerRejected, At
  <2>2. "publish" \in Executing \ {"player"} /\ "publish" \notin Staged /\ "player" \in Executing \ {"publish"}
    BY Labels DEF Failures
  <2>3. Keeps(j, job[w]) /\ j.head = Len(log) /\ j.pc = "publish"
    BY <1>f, <2>2, Edits DEF Job
  <2> HIDE DEF j
  <2> QED
    BY <1>f, <2>1, <2>2, <2>3 DEF StageStep, Keeps
<1>4. CASE Render(w)
  <2> DEFINE j == [job[w] EXCEPT !.pc = "npc"]
  <2>1. Become(w, j) /\ UNCHANGED <<log, receipts>> /\ job[w].pc = "render"
    BY <1>4 DEF Render, Goto, At
  <2>2. "npc" \in Executing \ {"player"} /\ "render" \in Staged
    BY Labels
  <2>3. Keeps(j, job[w]) /\ j.head = job[w].head /\ j.pc = "npc"
    BY <1>f, <2>2, Edits DEF Job
  <2> HIDE DEF j
  <2> QED
    BY <1>f, <2>1, <2>2, <2>3, GoesOn
<1>5. CASE Throws(w)
  BY <1>5, Labels DEF Throws, StageStep, Failures
<1> QED
  BY <1>1, <1>2, <1>3, <1>4, <1>5

LEMMA LandedLength ==
  ASSUME TypeOK, NEW w \in Worker, NEW lane \in Lanes \ {"player"}, NEW ps,
         ps \subseteq Eligible(w) \cup {NoPossibility}, MayLand(w, lane, ps), job[w].pc \in Staged
  PROVE  Len(log') \in Nat
<1>1. ~At(w, "player") /\ ~At(w, "idle")
  BY Labels DEF At, Failures
<1> QED
  BY <1>1, Land, LogGrows

LEMMA NpcStage ==
  ASSUME TypeOK, NEW w \in Worker,
         NpcStarts(w) \/ NpcCommits(w) \/ NpcIsSilent(w) \/ NpcFails(w) \/ NpcsDone(w) \/ NpcsThrow(w)
  PROVE  StageStep(w)
<1>f. /\ job[w] \in Job /\ Len(log) \in Nat /\ job[w].head \in Nat /\ job[w].head <= Len(log)
      /\ Event \in Nat /\ job[w].slots \in 0..MaxSlots /\ job[w].direct \in 0..MaxDirect
      /\ job[w].direct \in Nat /\ 0 \in 0..MaxSlots /\ 0 \in 0..MaxDirect /\ 0 \in Nat
  BY JobTyped, BoundAssumption DEF Event
<1>1. CASE NpcStarts(w)
  <2>1. UNCHANGED <<log, receipts>> /\ job[w].pc = "npc"
    BY <1>1 DEF NpcStarts, At
  <2>2. {"world", "npcs"} \subseteq Executing \ {"player"} /\ "npc" \in Staged
    BY Labels
  <2>3. CASE job[w].direct = 0
    <3> DEFINE j == [job[w] EXCEPT !.pc = "world"]
    <3>1. Become(w, j)
      BY <1>1, <2>3 DEF NpcStarts
    <3>2. Keeps(j, job[w]) /\ j.head = job[w].head /\ j.pc = "world"
      BY <1>f, <2>2, Edits DEF Job
    <3> HIDE DEF j
    <3> QED
      BY <1>f, <2>1, <2>2, <3>1, <3>2, GoesOn
  <2>4. CASE job[w].direct # 0
    <3> DEFINE j == [job[w] EXCEPT !.pc = "npcs", !.head = Len(log), !.left = job[w].direct]
    <3>1. Become(w, j)
      BY <1>1, <2>4 DEF NpcStarts
    <3>2. Keeps(j, job[w]) /\ j.head = Len(log) /\ j.pc = "npcs"
      BY <1>f, <2>2, Edits DEF Job
    <3> HIDE DEF j
    <3> QED
      BY <1>f, <2>1, <2>2, <3>1, <3>2, GoesOn
  <2> QED
    BY <2>3, <2>4
<1>2. CASE NpcCommits(w)
  <2> DEFINE j == [job[w] EXCEPT !.head = Event, !.left = @ - 1, !.pending = @ \cup {Event}]
  <2>1. /\ Become(w, j) /\ UNCHANGED receipts /\ job[w].pc = "npcs" /\ ~At(w, "player")
        /\ job[w].left > 0 /\ AtHead(w) /\ "npc" \in Lanes /\ Extend(w, "npc", NoPossibility, 0)
    BY <1>2 DEF NpcCommits, At, Lanes
  <2>2. "npcs" \in Executing \ {"player"} /\ "npcs" \in Executing \ {"publish"}
    BY Labels
  <2>3. Keeps(j, job[w]) /\ j.head = Event /\ j.pc = "npcs"
    BY <1>f, <2>1, TurnEdits DEF Job
  <2> HIDE DEF j
  <2> QED
    BY <1>f, <2>1, <2>2, <2>3, GoesOnAfter
<1>3. CASE NpcIsSilent(w)
  <2> DEFINE j == [job[w] EXCEPT !.left = @ - 1]
  <2>1. Become(w, j) /\ UNCHANGED <<log, receipts>> /\ job[w].pc = "npcs" /\ job[w].left > 0
    BY <1>3 DEF NpcIsSilent, At
  <2>2. "npcs" \in Executing \ {"player"} /\ "npcs" \in Staged
    BY Labels DEF Failures
  <2>3. Keeps(j, job[w]) /\ j.head = job[w].head /\ j.pc = "npcs"
    BY <1>f, <2>1, <2>2, TurnEdits DEF Job
  <2> HIDE DEF j
  <2> QED
    BY <1>f, <2>1, <2>2, <2>3, GoesOn
<1>4. CASE NpcFails(w)
  <2> DEFINE j == [job[w] EXCEPT !.head = Len(log'), !.left = @ - 1, !.failed = TRUE]
  <2>1. /\ Become(w, j) /\ UNCHANGED receipts /\ job[w].pc = "npcs" /\ job[w].left > 0
        /\ MayLand(w, "npc", {NoPossibility}) /\ "npc" \in Lanes \ {"player"}
    BY <1>4 DEF NpcFails, Goto, At, Lanes
  <2>2. "npcs" \in Executing \ {"player"} /\ "npcs" \in Staged
    BY Labels DEF Failures
  <2>n. Len(log') \in Nat
    BY <2>1, <2>2, LandedLength
  <2>3. Keeps(j, job[w]) /\ j.head = Len(log') /\ j.pc = "npcs"
    BY <1>f, <2>1, <2>2, <2>n, TurnEdits DEF Job
  <2> HIDE DEF j
  <2> QED
    BY <2>1, <2>2, <2>3, GoesOnAnyhow
<1>5. CASE NpcsDone(w)
  <2> DEFINE j == [job[w] EXCEPT !.pc = "world", !.listed = @ \cup job[w].pending, !.pending = {}]
  <2>1. Become(w, j) /\ UNCHANGED <<log, receipts>> /\ job[w].pc = "npcs"
    BY <1>5 DEF NpcsDone, At
  <2>2. "world" \in Executing \ {"player"} /\ "npcs" \in Staged
    BY Labels DEF Failures
  <2>3. Keeps(j, job[w]) /\ j.head = job[w].head /\ j.pc = "world"
    BY <1>f, <2>1, <2>2, Edits DEF Job
  <2> HIDE DEF j
  <2> QED
    BY <1>f, <2>1, <2>2, <2>3, GoesOn
<1>6. CASE NpcsThrow(w)
  <2> DEFINE j == [job[w] EXCEPT !.pc = "npcFailed", !.pending = {}]
  <2>1. Become(w, j) /\ UNCHANGED <<log, receipts>> /\ job[w].pc = "npcs"
    BY <1>6 DEF NpcsThrow, At
  <2>2. "npcFailed" \in Executing \ {"player"} /\ "npcs" \in Staged
    BY Labels DEF Failures
  <2>3. Keeps(j, job[w]) /\ j.head = job[w].head /\ j.pc = "npcFailed"
    BY <1>f, <2>1, <2>2, Edits DEF Job
  <2> HIDE DEF j
  <2> QED
    BY <1>f, <2>1, <2>2, <2>3, GoesOn
<1> QED
  BY <1>1, <1>2, <1>3, <1>4, <1>5, <1>6

LEMMA WorldStage ==
  ASSUME TypeOK, NEW w \in Worker,
         WorldResponds(w) \/ WorldIsSilent(w) \/ WorldFails(w) \/ Recovers(w) \/ RecoversNothing(w) \/ RecoveryFails(w)
  PROVE  StageStep(w)
<1>f. /\ job[w] \in Job /\ Len(log) \in Nat /\ job[w].head \in Nat /\ job[w].head <= Len(log)
      /\ Event \in Nat /\ job[w].slots \in 0..MaxSlots /\ job[w].direct \in 0..MaxDirect
      /\ job[w].direct \in Nat /\ 0 \in 0..MaxSlots /\ 0 \in 0..MaxDirect /\ 0 \in Nat
  BY JobTyped, BoundAssumption DEF Event
<1>s. 0 \in 0..MaxSlots
  BY BoundAssumption
<1>x. Excess(job[w].slots, 1) \in 0..MaxSlots
  BY <1>f, BoundAssumption DEF Excess
<1>1. CASE WorldResponds(w)
  <2>1. PICK p \in Eligible(w) : Extend(w, "world", p, 0)
    BY <1>1 DEF WorldResponds
  <2> DEFINE j == [job[w] EXCEPT !.pc = "recover", !.head = Event, !.listed = @ \cup {Event}]
  <2>2. /\ Become(w, j) /\ UNCHANGED receipts /\ job[w].pc = "world" /\ ~At(w, "player")
        /\ AtHead(w) /\ "world" \in Lanes
    BY <1>1 DEF WorldResponds, At, Lanes
  <2>3. "recover" \in Executing \ {"player"} /\ "world" \in Executing \ {"publish"}
    BY Labels
  <2>4. Keeps(j, job[w]) /\ j.head = Event /\ j.pc = "recover"
    BY <1>f, <2>2, <2>3, Edits DEF Job
  <2> HIDE DEF j
  <2> QED
    BY <1>s, <2>1, <2>2, <2>3, <2>4, GoesOnAfter
<1>2. CASE WorldIsSilent(w)
  <2> DEFINE j == [job[w] EXCEPT !.pc = "recover"]
  <2>1. Become(w, j) /\ UNCHANGED <<log, receipts>> /\ job[w].pc = "world"
    BY <1>2 DEF WorldIsSilent, At, Goto
  <2>2. "recover" \in Executing \ {"player"} /\ "world" \in Staged
    BY Labels DEF Failures
  <2>3. Keeps(j, job[w]) /\ j.head = job[w].head /\ j.pc = "recover"
    BY <1>f, <2>1, <2>2, Edits DEF Job
  <2> HIDE DEF j
  <2> QED
    BY <1>f, <2>1, <2>2, <2>3, GoesOn
<1>3. CASE WorldFails(w)
  <2> DEFINE j == [job[w] EXCEPT !.pc = "worldFailed"]
  <2>1. /\ Become(w, j) /\ UNCHANGED receipts /\ job[w].pc = "world"
        /\ MayLand(w, "world", Eligible(w)) /\ "world" \in Lanes \ {"player"}
    BY <1>3 DEF WorldFails, Goto, At, Lanes
  <2>2. "worldFailed" \in Executing \ {"player"} /\ "world" \in Staged
    BY Labels DEF Failures
  <2>n. Len(log') \in Nat
    BY <2>1, <2>2, LandedLength
  <2>3. Keeps(j, job[w]) /\ j.head = job[w].head /\ j.pc = "worldFailed"
    BY <1>f, <2>1, <2>2, <2>n, Edits DEF Job
  <2> HIDE DEF j
  <2> QED
    BY <2>1, <2>2, <2>3, GoesOnAnyhow
<1>4. CASE Recovers(w)
  <2>1. PICK p \in Eligible(w) : Extend(w, "recovery", p, 0)
    BY <1>4 DEF Recovers
  <2> DEFINE j == [job[w] EXCEPT !.pc = "move", !.head = Event, !.listed = @ \cup {Event},
                                 !.slots = Excess(@, 1)]
  <2>2. /\ Become(w, j) /\ UNCHANGED receipts /\ job[w].pc = "recover" /\ ~At(w, "player")
        /\ AtHead(w) /\ "recovery" \in Lanes
    BY <1>4 DEF Recovers, At, Lanes
  <2>3. "move" \in Executing \ {"player"} /\ "recover" \in Executing \ {"publish"}
    BY Labels
  <2>4. Keeps(j, job[w]) /\ j.head = Event /\ j.pc = "move"
    BY <1>f, <2>2, <2>3, SlotEdits, <1>x DEF Job
  <2> HIDE DEF j
  <2> QED
    BY <1>s, <2>1, <2>2, <2>3, <2>4, GoesOnAfter
<1>5. CASE RecoversNothing(w)
  <2> DEFINE j == [job[w] EXCEPT !.pc = "move"]
  <2>1. Become(w, j) /\ UNCHANGED <<log, receipts>> /\ job[w].pc = "recover"
    BY <1>5 DEF RecoversNothing, At, Goto
  <2>2. "move" \in Executing \ {"player"} /\ "recover" \in Staged
    BY Labels DEF Failures
  <2>3. Keeps(j, job[w]) /\ j.head = job[w].head /\ j.pc = "move"
    BY <1>f, <2>1, <2>2, Edits DEF Job
  <2> HIDE DEF j
  <2> QED
    BY <1>f, <2>1, <2>2, <2>3, GoesOn
<1>6. CASE RecoveryFails(w)
  <2> DEFINE j == [job[w] EXCEPT !.pc = "recoverFailed", !.slots = 0]
  <2>1. /\ Become(w, j) /\ UNCHANGED receipts /\ job[w].pc = "recover"
        /\ MayLand(w, "recovery", Eligible(w)) /\ "recovery" \in Lanes \ {"player"}
    BY <1>6 DEF RecoveryFails, Goto, At, Lanes
  <2>2. "recoverFailed" \in Executing \ {"player"} /\ "recover" \in Staged
    BY Labels DEF Failures
  <2>n. Len(log') \in Nat
    BY <2>1, <2>2, LandedLength
  <2>3. Keeps(j, job[w]) /\ j.head = job[w].head /\ j.pc = "recoverFailed"
    BY <1>f, <2>1, <2>2, <2>n, SlotEdits DEF Job
  <2> HIDE DEF j
  <2> QED
    BY <2>1, <2>2, <2>3, GoesOnAnyhow
<1> QED
  BY <1>1, <1>2, <1>3, <1>4, <1>5, <1>6

LEMMA BackgroundStage ==
  ASSUME TypeOK, NEW w \in Worker,
         MoveStarts(w) \/ ActorCommits(w) \/ ActorsDone(w)
           \/ BackgroundCommits(w) \/ MoveDone(w) \/ MoveFails(w) \/ Catches(w)
  PROVE  StageStep(w)
<1>f. /\ job[w] \in Job /\ Len(log) \in Nat /\ job[w].head \in Nat /\ job[w].head <= Len(log)
      /\ Event \in Nat /\ job[w].slots \in 0..MaxSlots /\ job[w].direct \in 0..MaxDirect
      /\ job[w].direct \in Nat /\ 0 \in 0..MaxSlots /\ 0 \in 0..MaxDirect /\ 0 \in Nat
  BY JobTyped, BoundAssumption DEF Event
<1>s. 0 \in 0..MaxSlots
  BY BoundAssumption
<1>x. Excess(MaxActors, job[w].direct) \in Nat
  BY <1>f, BoundAssumption DEF Excess
<1>1. CASE MoveStarts(w)
  <2> DEFINE j == [job[w] EXCEPT !.pc = "actors", !.head = Len(log),
                                 !.left = Excess(MaxActors, job[w].direct), !.direct = 0]
  <2>1. Become(w, j) /\ UNCHANGED <<log, receipts>> /\ job[w].pc = "move"
    BY <1>1 DEF MoveStarts, At
  <2>2. "actors" \in Executing \ {"player"} /\ "move" \in Staged
    BY Labels DEF Failures
  <2>3. Keeps(j, job[w]) /\ j.head = Len(log) /\ j.pc = "actors"
    BY <1>f, <2>1, <2>2, SlotEdits, <1>x DEF Job
  <2> HIDE DEF j
  <2> QED
    BY <1>f, <2>1, <2>2, <2>3, GoesOn
<1>2. CASE ActorCommits(w)
  <2> DEFINE j == [job[w] EXCEPT !.head = Event, !.left = @ - 1, !.pending = @ \cup {Event}]
  <2>1. /\ Become(w, j) /\ UNCHANGED receipts /\ job[w].pc = "actors" /\ ~At(w, "player")
        /\ job[w].left > 0 /\ AtHead(w) /\ "actor" \in Lanes /\ Extend(w, "actor", NoPossibility, 0)
    BY <1>2 DEF ActorCommits, At, Lanes
  <2>2. "actors" \in Executing \ {"player"} /\ "actors" \in Executing \ {"publish"}
    BY Labels
  <2>3. Keeps(j, job[w]) /\ j.head = Event /\ j.pc = "actors"
    BY <1>f, <2>1, TurnEdits DEF Job
  <2> HIDE DEF j
  <2> QED
    BY <1>f, <2>1, <2>2, <2>3, GoesOnAfter
<1>3. CASE ActorsDone(w)
  <2> DEFINE j == [job[w] EXCEPT !.pc = "background", !.left = 0]
  <2>1. Become(w, j) /\ UNCHANGED <<log, receipts>> /\ job[w].pc = "actors"
    BY <1>3 DEF ActorsDone, At
  <2>2. "background" \in Executing \ {"player"} /\ "actors" \in Staged
    BY Labels DEF Failures
  <2>3. Keeps(j, job[w]) /\ j.head = job[w].head /\ j.pc = "background"
    BY <1>f, <2>1, <2>2, Edits DEF Job
  <2> HIDE DEF j
  <2> QED
    BY <1>f, <2>1, <2>2, <2>3, GoesOn
<1>4. CASE BackgroundCommits(w)
  <2>1. PICK p \in Eligible(w) : Extend(w, "background", p, 0)
    BY <1>4 DEF BackgroundCommits
  <2> DEFINE j == [job[w] EXCEPT !.head = Event, !.slots = @ - 1, !.pending = @ \cup {Event}]
  <2>2. /\ Become(w, j) /\ UNCHANGED receipts /\ job[w].pc = "background" /\ ~At(w, "player")
        /\ AtHead(w) /\ "background" \in Lanes /\ job[w].slots > 0
    BY <1>4 DEF BackgroundCommits, At, Lanes
  <2>3. "background" \in Executing \ {"player"} /\ "background" \in Executing \ {"publish"}
    BY Labels
  <2>s. job[w].slots - 1 \in 0..MaxSlots
    BY <1>f, <2>2, BoundAssumption
  <2>4. Keeps(j, job[w]) /\ j.head = Event /\ j.pc = "background"
    BY <1>f, <2>2, <2>3, SlotEdits, <2>s DEF Job
  <2> HIDE DEF j
  <2> QED
    BY <1>s, <2>1, <2>2, <2>3, <2>4, GoesOnAfter
<1>5. CASE MoveDone(w)
  <2> DEFINE j == [job[w] EXCEPT !.pc = "publish", !.listed = @ \cup job[w].pending,
                                 !.pending = {}, !.slots = 0]
  <2>1. Become(w, j) /\ UNCHANGED <<log, receipts>> /\ job[w].pc = "background"
    BY <1>5 DEF MoveDone, At
  <2>2. "publish" \in Executing \ {"player"} /\ "background" \in Staged
    BY Labels DEF Failures
  <2>3. Keeps(j, job[w]) /\ j.head = job[w].head /\ j.pc = "publish"
    BY <1>f, <2>1, <2>2, SlotEdits DEF Job
  <2> HIDE DEF j
  <2> QED
    BY <1>f, <2>1, <2>2, <2>3, GoesOn
<1>6. CASE MoveFails(w)
  <2> DEFINE j == [job[w] EXCEPT !.pc = "moveFailed", !.pending = {}, !.slots = 0]
             lane == IF At(w, "actors") THEN "actor" ELSE "background"
             ps == IF At(w, "actors") THEN IF job[w].left > 0 THEN {NoPossibility} ELSE {}
                   ELSE IF job[w].slots > 0 THEN Eligible(w) ELSE {}
  <2>1. /\ Become(w, j) /\ UNCHANGED receipts /\ job[w].pc \in {"actors", "background"}
        /\ lane \in Lanes \ {"player"} /\ ps \subseteq Eligible(w) \cup {NoPossibility}
    BY <1>6 DEF MoveFails, At, Lanes
  <2>2. MayLand(w, lane, ps)
    BY <1>6 DEF MoveFails
  <2>3. "moveFailed" \in Executing \ {"player"} /\ {"actors", "background"} \subseteq Staged
    BY Labels DEF Failures
  <2>4. Keeps(j, job[w]) /\ j.head = job[w].head /\ j.pc = "moveFailed"
    BY <1>f, <2>3, SlotEdits DEF Job
  <2> HIDE DEF j, lane, ps
  <2> QED
    BY <2>1, <2>2, <2>3, <2>4, GoesOnAnyhow
<1>7. CASE Catches(w)
  <2> DEFINE x == AfterFailure[job[w].pc]
             j == [job[w] EXCEPT !.pc = x, !.failed = TRUE, !.head = Len(log), !.left = 0]
  <2>1. Become(w, j) /\ UNCHANGED <<log, receipts>> /\ job[w].pc \in Failures
    BY <1>7, FailureLabels DEF Catches
  <2>2. x \in Executing \ {"player"} /\ Failures \subseteq Staged
    BY <2>1, FailureLabels, Labels
  <2> HIDE DEF x
  <2>3. Keeps(j, job[w]) /\ j.head = Len(log) /\ j.pc = x
    BY <1>f, <2>2, Edits DEF Job
  <2> HIDE DEF j
  <2> QED
    BY <1>f, <2>1, <2>2, <2>3, GoesOn
<1> QED
  BY <1>1, <1>2, <1>3, <1>4, <1>5, <1>6, <1>7

Staging(w) ==
  \/ PlayerCommits(w) \/ PlayerLost(w) \/ PlayerRejected(w) \/ Render(w) \/ Throws(w)
  \/ NpcStarts(w) \/ NpcCommits(w) \/ NpcIsSilent(w) \/ NpcFails(w) \/ NpcsDone(w) \/ NpcsThrow(w)
  \/ WorldResponds(w) \/ WorldIsSilent(w) \/ WorldFails(w)
  \/ Recovers(w) \/ RecoversNothing(w) \/ RecoveryFails(w)
  \/ MoveStarts(w) \/ ActorCommits(w) \/ ActorsDone(w)
  \/ BackgroundCommits(w) \/ MoveDone(w) \/ MoveFails(w) \/ Catches(w)

LEMMA EveryStage ==
  ASSUME TypeOK, NEW w \in Worker, Staging(w)
  PROVE  StageStep(w)
BY PlayerStage, NpcStage, WorldStage, BackgroundStage DEF Staging

\* The steps of a worker, as the proofs below take them.
LEMMA Steps ==
  ASSUME TypeOK, [Next]_vars
  PROVE  \/ UNCHANGED vars
         \/ \E w \in Worker :
              \/ \E m \in Move, r \in Request : Open(w, m, r) \/ LookupSaved(w, m, r)
              \/ Begin(w) \/ BeginTaken(w) \/ BeginFails(w)
              \/ StageStep(w) \/ Complete(w) \/ CompleteFails(w) \/ Crash(w)
<1>1. ASSUME NEW w \in Worker, Stages(w)
      PROVE  StageStep(w) \/ Complete(w) \/ CompleteFails(w)
  BY <1>1, EveryStage DEF Stages, Staging
<1>2. ASSUME NEW w \in Worker, Admission(w)
      PROVE  \/ UNCHANGED vars
             \/ \E m \in Move, r \in Request : Open(w, m, r) \/ LookupSaved(w, m, r)
             \/ Begin(w) \/ BeginTaken(w) \/ BeginFails(w)
  BY <1>2 DEF Admission, LookupRefuses
<1> QED
  BY <1>1, <1>2 DEF Next

-----------------------------------------------------------------------------
(* Types                                                                   *)

LEMMA Becomes ==
  ASSUME TypeOK, NEW w \in Worker, NEW j \in Job, Become(w, j)
  PROVE  /\ job' \in [Worker -> Job] /\ job'[w] = j
         /\ \A v \in Worker \ {w} : job'[v] = job[v]
BY DEF TypeOK, Become

LEMMA Finishes ==
  ASSUME TypeOK, NEW w \in Worker, Finish(w)
  PROVE  /\ job' \in [Worker -> Job] /\ job'[w] = Idle /\ Idle.pc = "idle" /\ Idle.head = 0
         /\ \A v \in Worker \ {w} : job'[v] = job[v]
BY Becomes, IdleTyped DEF Finish

\* The part of the type invariant that speaks of jobs.
JobsTyped ==
  /\ job \in [Worker -> Job]
  /\ \A w \in Worker : job[w].head <= Len(log) /\ (~At(w, "idle") => job[w].move \in Move)
  /\ RequestInv

LEMMA FinishTyped ==
  ASSUME TypeInv, NEW w \in Worker, Finish(w), Len(log') \in Nat, Len(log) <= Len(log')
  PROVE  JobsTyped'
<1>1. /\ job' \in [Worker -> Job] /\ job'[w] = Idle /\ Idle.pc = "idle" /\ Idle.head = 0
      /\ \A v \in Worker \ {w} : job'[v] = job[v]
  BY Finishes DEF TypeInv
<1>2. ASSUME NEW v \in Worker
      PROVE  /\ job'[v].head <= Len(log')
             /\ ~(At(v, "idle")') => job'[v].move \in Move /\ job'[v].request \in Request
  <2>1. CASE v = w
    BY <1>1, <2>1 DEF At
  <2>2. CASE v # w
    <3>1. job'[v] = job[v] /\ job[v].head <= Len(log) /\ job[v].head \in Nat /\ Len(log) \in Nat
      BY <1>1, <2>2, JobTyped DEF TypeInv
    <3>2. ~At(v, "idle") => job[v].move \in Move /\ job[v].request \in Request
      BY DEF TypeInv, TypeOK, RequestInv
    <3> QED
      BY <3>1, <3>2 DEF At
  <2> QED
    BY <2>1, <2>2
<1> QED
  BY <1>1, <1>2 DEF JobsTyped, RequestInv

LEMMA BecomeTyped ==
  ASSUME TypeInv, NEW w \in Worker, NEW j \in Job, Become(w, j),
         j.move \in Move, j.request \in Request, j.head <= Len(log'),
         Len(log') \in Nat, Len(log) <= Len(log')
  PROVE  JobsTyped'
<1>1. job' \in [Worker -> Job] /\ job'[w] = j /\ \A v \in Worker \ {w} : job'[v] = job[v]
  BY Becomes DEF TypeInv
<1>2. ASSUME NEW v \in Worker
      PROVE  /\ job'[v].head <= Len(log')
             /\ ~(At(v, "idle")') => job'[v].move \in Move /\ job'[v].request \in Request
  <2>1. CASE v = w
    BY <1>1, <2>1 DEF At
  <2>2. CASE v # w
    <3>1. job'[v] = job[v] /\ job[v].head <= Len(log) /\ job[v].head \in Nat /\ Len(log) \in Nat
      BY <1>1, <2>2, JobTyped DEF TypeInv
    <3>2. ~At(v, "idle") => job[v].move \in Move /\ job[v].request \in Request
      BY DEF TypeInv, TypeOK, RequestInv
    <3> QED
      BY <3>1, <3>2 DEF At
  <2> QED
    BY <2>1, <2>2
<1> QED
  BY <1>1, <1>2 DEF JobsTyped, RequestInv

LEMMA InitTyped == Init => TypeInv
<1> SUFFICES ASSUME Init PROVE TypeInv
  OBVIOUS
<1>1. job \in [Worker -> Job] /\ \A w \in Worker : job[w] = Idle
  BY IdleTyped DEF Init
<1>2. log = <<>> /\ log \in Seq(Entry) /\ Len(log) = 0
  BY EmptySeq DEF Init
<1>3. \A w \in Worker : job[w].head <= Len(log) /\ At(w, "idle")
  BY <1>1, <1>2, IdleTyped DEF At
<1>4. intent \in [Move -> Request \cup {NoRequest}] /\ outcome \in [Move -> Outcome \cup {NoOutcome}]
  BY DEF Init
<1>5. told = {}
  BY DEF Init
<1> QED
  BY <1>1, <1>2, <1>3, <1>4, <1>5 DEF TypeInv, TypeOK, RequestInv, Entry

LEMMA StageLog ==
  ASSUME TypeOK, NEW w \in Worker, StageStep(w)
  PROVE  /\ ~At(w, "idle") /\ log' \in Seq(Entry) /\ Len(log') \in Nat /\ Len(log) <= Len(log')
         /\ \A i \in 1 .. Len(log) : log'[i] = log[i]
         /\ \/ log' = log
            \/ \E lane \in Lanes, p \in Possibility \cup {NoPossibility}, slots \in Nat :
                 /\ AtHead(w) /\ (p # NoPossibility => p \in Eligible(w))
                 /\ lane = "player" <=> At(w, "player")
                 /\ Len(log') = Len(log) + 1
                 /\ log'[Len(log) + 1] = [lane |-> lane, move |-> job[w].move, poss |-> p, slots |-> slots]
<1>1. ~At(w, "idle")
  BY Labels DEF StageStep, At, Failures
<1>2. CASE log' = log
  BY <1>1, <1>2, JobTyped DEF TypeOK, Entry
<1>3. ASSUME NEW lane \in Lanes, Appends(w, lane), lane = "player" <=> At(w, "player")
      PROVE  /\ log' \in Seq(Entry) /\ Len(log') = Len(log) + 1
             /\ \A i \in 1 .. Len(log) : log'[i] = log[i]
             /\ \E p \in Possibility \cup {NoPossibility}, slots \in Nat :
                  /\ AtHead(w) /\ (p # NoPossibility => p \in Eligible(w))
                  /\ log'[Len(log) + 1] = [lane |-> lane, move |-> job[w].move, poss |-> p, slots |-> slots]
  <2>1. PICK p \in Eligible(w) \cup {NoPossibility}, slots \in 0..MaxSlots : Extend(w, lane, p, slots)
    BY <1>3 DEF Appends
  <2>2. p \in Possibility \cup {NoPossibility} /\ slots \in Nat
    BY BoundAssumption DEF Eligible
  <2>3. AtHead(w) /\ (p # NoPossibility => p \in Eligible(w))
    BY <1>3 DEF Appends
  <2>4. /\ log' \in Seq(Entry) /\ Len(log') = Len(log) + 1
        /\ \A i \in 1 .. Len(log) : log'[i] = log[i]
        /\ log'[Len(log) + 1] = [lane |-> lane, move |-> job[w].move, poss |-> p, slots |-> slots]
    BY <1>1, <2>1, <2>2, Appended
  <2> QED
    BY <2>2, <2>3, <2>4
<1>4. Len(log) \in Nat
  BY JobTyped
<1>5. CASE log' # log
  <2>1. PICK lane \in Lanes : Appends(w, lane) /\ (lane = "player" <=> At(w, "player"))
    BY <1>5 DEF StageStep
  <2>2. /\ log' \in Seq(Entry) /\ Len(log') = Len(log) + 1
        /\ \A i \in 1 .. Len(log) : log'[i] = log[i]
    BY <1>3, <2>1
  <2>3. \E p \in Possibility \cup {NoPossibility}, slots \in Nat :
          /\ AtHead(w) /\ (p # NoPossibility => p \in Eligible(w))
          /\ log'[Len(log) + 1] = [lane |-> lane, move |-> job[w].move, poss |-> p, slots |-> slots]
    BY <1>3, <2>1
  <2>4. Len(log') \in Nat /\ Len(log) <= Len(log')
    BY <1>4, <2>2
  <2> QED
    BY <1>1, <2>1, <2>2, <2>3, <2>4
<1> QED
  BY <1>2, <1>5

\* A worker is at one of the labels.
LEMMA AtTyped ==
  ASSUME TypeInv, NEW w \in Worker, ~At(w, "idle")
  PROVE  job[w].move \in Move /\ job[w].request \in Request
BY DEF TypeInv, TypeOK, RequestInv

LEMMA StageTyped ==
  ASSUME TypeInv, NEW w \in Worker, StageStep(w)
  PROVE  TypeInv'
<1> USE DEF TypeInv
<1>1. ~At(w, "idle") /\ log' \in Seq(Entry) /\ Len(log') \in Nat /\ Len(log) <= Len(log')
  BY StageLog
<1>2. job[w].move \in Move /\ job[w].request \in Request
  BY <1>1, AtTyped
<1>3. JobsTyped'
  <2>1. CASE Finish(w)
    BY <1>1, <2>1, FinishTyped
  <2>2. ASSUME NEW j \in Job, Become(w, j), j.move = job[w].move, j.request = job[w].request,
               j.head <= Len(log')
        PROVE  JobsTyped'
    BY <1>1, <1>2, <2>2, BecomeTyped
  <2> QED
    BY <2>1, <2>2 DEF StageStep
<1>4. UNCHANGED receipts
  BY DEF StageStep
<1> QED
  BY <1>1, <1>3, <1>4 DEF TypeOK, JobsTyped, receipts, Entry

\* A step that leaves the log alone.
LEMMA RestTyped ==
  ASSUME TypeInv, UNCHANGED log, JobsTyped', intent' \in [Move -> Request \cup {NoRequest}],
         outcome' \in [Move -> Outcome \cup {NoOutcome}],
         told' \subseteq [move : Move, request : Request, outcome : Outcome]
  PROVE  TypeInv'
BY DEF TypeInv, TypeOK, JobsTyped

LEMMA ReceiptsTyped ==
  ASSUME TypeInv
  PROVE  /\ intent \in [Move -> Request \cup {NoRequest}]
         /\ outcome \in [Move -> Outcome \cup {NoOutcome}]
         /\ told \subseteq [move : Move, request : Request, outcome : Outcome]
         /\ Len(log) \in Nat
<1>1. log \in Seq(Entry)
  BY DEF TypeInv, TypeOK, Entry
<1> QED
  BY <1>1, LenProperties DEF TypeInv, TypeOK

LEMMA ReplayTyped ==
  ASSUME TypeInv, NEW m \in Move, NEW r \in Request, Replay(m, r)
  PROVE  told' \subseteq [move : Move, request : Request, outcome : Outcome]
<1>1. outcome[m] \in Outcome
  BY ReceiptsTyped DEF Replay
<1> QED
  BY <1>1, ReceiptsTyped DEF Replay, Tell

LEMMA ResultTyped ==
  ASSUME TypeInv, NEW w \in Worker
  PROVE  Result(w) \in Outcome
BY JobTyped DEF TypeInv, Result, Outcome

LEMMA TypeStep ==
  ASSUME TypeInv, [Next]_vars
  PROVE  TypeInv'
<1> USE ReceiptsTyped
<1>s. TypeOK
  BY DEF TypeInv
<1>0. CASE UNCHANGED vars
  BY <1>0 DEF vars, TypeInv, TypeOK, RequestInv, At
<1>1. ASSUME NEW w \in Worker, NEW m \in Move, NEW r \in Request, Open(w, m, r)
      PROVE  TypeInv'
  <2> DEFINE j == [Idle EXCEPT !.pc = "begin", !.move = m, !.request = r, !.head = Len(log)]
  <2>1. j \in Job /\ j.move = m /\ j.request = r /\ j.head = Len(log)
    BY IdleTyped DEF Idle, Job
  <2>2. Become(w, j) /\ UNCHANGED <<log, receipts>>
    BY <1>1 DEF Open
  <2> HIDE DEF j
  <2>3. JobsTyped'
    BY <2>1, <2>2, BecomeTyped
  <2> QED
    BY <2>2, <2>3, RestTyped DEF receipts
<1>2. ASSUME NEW w \in Worker, NEW m \in Move, NEW r \in Request, LookupSaved(w, m, r)
      PROVE  TypeInv'
  <2>1. JobsTyped'
    BY <1>2 DEF LookupSaved, JobsTyped, TypeInv, TypeOK, RequestInv, At
  <2> QED
    BY <1>2, <2>1, ReplayTyped, RestTyped DEF LookupSaved
<1>3. ASSUME NEW w \in Worker, Begin(w)
      PROVE  TypeInv'
  <2> DEFINE j == [job[w] EXCEPT !.pc = "player"]
  <2>1. job[w].move \in Move /\ job[w].request \in Request
    BY <1>3, AtTyped DEF Begin, At
  <2>2. Keeps(j, job[w]) /\ j.head = job[w].head /\ job[w].head <= Len(log)
    BY <1>s, JobTyped, Labels, Edits DEF Job
  <2>3. Become(w, j) /\ UNCHANGED <<log, outcome, told>>
    BY <1>3 DEF Begin, Goto
  <2> HIDE DEF j
  <2>4. JobsTyped'
    BY <2>1, <2>2, <2>3, BecomeTyped DEF Keeps
  <2>5. intent' \in [Move -> Request \cup {NoRequest}]
    BY <1>3, <2>1 DEF Begin
  <2> QED
    BY <2>3, <2>4, <2>5, RestTyped
<1>4. ASSUME NEW w \in Worker, BeginTaken(w)
      PROVE  TypeInv'
  <2>1. job[w].move \in Move /\ job[w].request \in Request
    BY <1>4, AtTyped DEF BeginTaken, At
  <2>2. JobsTyped'
    BY <1>4, FinishTyped DEF BeginTaken
  <2> QED
    BY <1>4, <2>1, <2>2, ReplayTyped, RestTyped DEF BeginTaken
<1>5. ASSUME NEW w \in Worker, BeginFails(w)
      PROVE  TypeInv'
  <2>1. job[w].move \in Move /\ job[w].request \in Request
    BY <1>5, AtTyped DEF BeginFails, At
  <2>2. JobsTyped'
    BY <1>5, FinishTyped DEF BeginFails
  <2>3. intent' \in [Move -> Request \cup {NoRequest}]
    BY <1>5, <2>1 DEF BeginFails
  <2> QED
    BY <1>5, <2>2, <2>3, RestTyped DEF BeginFails
<1>6. ASSUME NEW w \in Worker, StageStep(w)
      PROVE  TypeInv'
  BY <1>6, StageTyped
<1>7. ASSUME NEW w \in Worker, Complete(w) \/ CompleteFails(w)
      PROVE  TypeInv'
  <2>1. job[w].move \in Move /\ job[w].request \in Request /\ Result(w) \in Outcome
    BY <1>7, AtTyped, ResultTyped DEF Complete, CompleteFails, At
  <2>2. JobsTyped'
    BY <1>7, FinishTyped DEF Complete, CompleteFails
  <2>3. CASE Complete(w)
    <3>1. outcome' \in [Move -> Outcome \cup {NoOutcome}]
      BY <2>1, <2>3 DEF Complete
    <3>2. told' \subseteq [move : Move, request : Request, outcome : Outcome]
      BY <2>1, <2>3 DEF Complete, Tell
    <3> QED
      BY <2>2, <2>3, <3>1, <3>2, RestTyped DEF Complete
  <2>4. CASE CompleteFails(w)
    <3>1. outcome' \in [Move -> Outcome \cup {NoOutcome}]
      BY <2>1, <2>4 DEF CompleteFails
    <3> QED
      BY <2>2, <2>4, <3>1, RestTyped DEF CompleteFails
  <2> QED
    BY <1>7, <2>3, <2>4
<1>8. ASSUME NEW w \in Worker, Crash(w)
      PROVE  TypeInv'
  <2>1. JobsTyped'
    BY <1>8, FinishTyped DEF Crash
  <2> QED
    BY <1>8, <2>1, RestTyped DEF Crash, receipts
<1> QED
  BY <1>s, <1>0, <1>1, <1>2, <1>3, <1>4, <1>5, <1>6, <1>7, <1>8, Steps

-----------------------------------------------------------------------------
(* Possibilities                                                           *)

LEMMA PossibilityStep ==
  ASSUME TypeInv, PossibilityOnce, [Next]_vars
  PROVE  PossibilityOnce'
<1>s. TypeOK /\ Len(log) \in Nat
  BY ReceiptsTyped DEF TypeInv
<1>1. CASE log' = log
  BY <1>1 DEF PossibilityOnce
<1>2. ASSUME NEW w \in Worker, StageStep(w)
      PROVE  PossibilityOnce'
  <2>1. CASE log' = log
    BY <1>1, <2>1
  <2>2. ASSUME NEW p \in Possibility \cup {NoPossibility}, AtHead(w),
               p # NoPossibility => p \in Eligible(w),
               Len(log') = Len(log) + 1, log'[Len(log) + 1].poss = p,
               \A i \in 1 .. Len(log) : log'[i] = log[i]
        PROVE  PossibilityOnce'
    <3>1. ASSUME NEW i \in 1 .. Len(log), p # NoPossibility
          PROVE  log[i].poss # p
      BY <2>2, <3>1 DEF Eligible, AtHead
    <3>2. \A i \in 1 .. Len(log') : i \in 1 .. Len(log) \/ i = Len(log) + 1
      BY <1>s, <2>2
    <3> SUFFICES ASSUME NEW i \in 1 .. Len(log'), NEW j \in 1 .. Len(log'),
                        log'[i].poss # NoPossibility, log'[i].poss = log'[j].poss
                 PROVE  i = j
      BY DEF PossibilityOnce
    <3>3. CASE i \in 1 .. Len(log) /\ j \in 1 .. Len(log)
      BY <2>2, <3>3 DEF PossibilityOnce
    <3>4. CASE i \in 1 .. Len(log) /\ j = Len(log) + 1
      BY <2>2, <3>1, <3>4
    <3>5. CASE i = Len(log) + 1 /\ j \in 1 .. Len(log)
      BY <2>2, <3>1, <3>5
    <3> QED
      BY <3>2, <3>3, <3>4, <3>5
  <2>3. CASE log' # log
    <3>1. PICK lane \in Lanes, p \in Possibility \cup {NoPossibility}, slots \in Nat :
            /\ AtHead(w) /\ (p # NoPossibility => p \in Eligible(w))
            /\ Len(log') = Len(log) + 1
            /\ log'[Len(log) + 1] = [lane |-> lane, move |-> job[w].move, poss |-> p, slots |-> slots]
      BY <1>s, <1>2, <2>3, StageLog
    <3>2. \A i \in 1 .. Len(log) : log'[i] = log[i]
      BY <1>s, <1>2, StageLog
    <3>3. log'[Len(log) + 1].poss = p
      BY <3>1
    <3>4. AtHead(w) /\ (p # NoPossibility => p \in Eligible(w)) /\ Len(log') = Len(log) + 1
      BY <3>1
    <3> HIDE <3>1
    <3> QED
      BY <2>2, <3>2, <3>3, <3>4
  <2> QED
    BY <2>1, <2>3
<1>3. ASSUME NEW w \in Worker,
             \/ \E m \in Move, r \in Request : Open(w, m, r) \/ LookupSaved(w, m, r)
             \/ Begin(w) \/ BeginTaken(w) \/ BeginFails(w)
             \/ Complete(w) \/ CompleteFails(w) \/ Crash(w)
      PROVE  log' = log
  BY <1>3 DEF Open, LookupSaved, Begin, BeginTaken, BeginFails, Complete, CompleteFails, Crash
<1>4. CASE UNCHANGED vars
  BY <1>1, <1>4 DEF vars
<1> QED
  BY <1>s, <1>1, <1>2, <1>3, <1>4, Steps

-----------------------------------------------------------------------------
(* Receipts: who executes a move                                           *)

Executes(w, m) == job[w].pc \in Executing /\ job[w].move = m

OwnerInv ==
  /\ \A w \in Worker, m \in Move : Executes(w, m) => intent[m] = job[w].request
  /\ \A m \in Move : \A v, w \in Worker : Executes(v, m) /\ Executes(w, m) => v = w
  /\ \A m \in Move : outcome[m] # NoOutcome =>
       intent[m] # NoRequest /\ \A w \in Worker : ~Executes(w, m)

AnswerInv == TypeInv /\ OwnerInv /\ AnswersAgree

LEMMA IdleExecutesNothing ==
  /\ Idle.pc \notin Executing
  /\ "begin" \notin Executing /\ {"player", "publish"} \subseteq Executing
BY Labels, IdleTyped DEF Failures

\* A worker that ends, with the receipts as they are.
LEMMA EndOwner ==
  ASSUME AnswerInv, NEW w \in Worker, Finish(w), UNCHANGED <<intent, outcome>>
  PROVE  OwnerInv'
<1>1. job'[w] = Idle /\ \A v \in Worker \ {w} : job'[v] = job[v]
  BY Finishes DEF AnswerInv, TypeInv
<1>2. \A v \in Worker, m \in Move : Executes(v, m)' => Executes(v, m) /\ job'[v] = job[v]
  BY <1>1, IdleExecutesNothing DEF Executes
<1> QED
  BY <1>2 DEF AnswerInv, OwnerInv

LEMMA StageOwner ==
  ASSUME AnswerInv, NEW w \in Worker, StageStep(w)
  PROVE  OwnerInv' /\ AnswersAgree'
<1>s. TypeOK
  BY DEF AnswerInv, TypeInv
<1>1. UNCHANGED <<intent, outcome, told>>
  BY DEF StageStep, receipts
<1>2. AnswersAgree'
  BY <1>1 DEF AnswerInv, AnswersAgree
<1>3. CASE Finish(w)
  <2>1. UNCHANGED <<intent, outcome>>
    BY <1>1
  <2> QED
    BY <1>2, <1>3, <2>1, EndOwner
<1>4. ASSUME NEW j \in Job, Become(w, j), j.move = job[w].move, j.request = job[w].request
      PROVE  OwnerInv'
  <2>1. job'[w] = j /\ \A v \in Worker \ {w} : job'[v] = job[v]
    BY <1>s, <1>4, Becomes
  <2>2. job[w].pc \in Executing
    BY DEF StageStep
  <2>3. \A v \in Worker, m \in Move : Executes(v, m)' => Executes(v, m) /\ job'[v].request = job[v].request
    BY <1>4, <2>1, <2>2 DEF Executes
  <2> QED
    BY <1>1, <2>3 DEF AnswerInv, OwnerInv
<1> QED
  BY <1>2, <1>3, <1>4 DEF StageStep

\* What is answered from the receipts is what is there.
LEMMA ReplayAgrees ==
  ASSUME AnswersAgree, NEW m \in Move, NEW r \in Request, Replay(m, r), UNCHANGED <<intent, outcome>>
  PROVE  AnswersAgree'
BY DEF AnswersAgree, Replay, Tell

LEMMA AnswerStep ==
  ASSUME AnswerInv, [Next]_vars
  PROVE  AnswerInv'
<1> USE DEF AnswerInv
<1>s. TypeOK /\ TypeInv'
  BY TypeStep DEF TypeInv
<1>0. CASE UNCHANGED vars
  BY <1>s, <1>0 DEF vars, OwnerInv, AnswersAgree, Executes
<1>1. ASSUME NEW w \in Worker, NEW m \in Move, NEW r \in Request, Open(w, m, r)
      PROVE  AnswerInv'
  <2> DEFINE j == [Idle EXCEPT !.pc = "begin", !.move = m, !.request = r, !.head = Len(log)]
  <2>1. j \in Job /\ j.pc = "begin"
    BY IdleTyped, ReceiptsTyped DEF Idle, Job
  <2>2. Become(w, j) /\ UNCHANGED <<log, receipts>>
    BY <1>1 DEF Open
  <2> HIDE DEF j
  <2>3. job'[w] = j /\ \A v \in Worker \ {w} : job'[v] = job[v]
    BY <1>s, <2>1, <2>2, Becomes
  <2>4. \A v \in Worker, n \in Move : Executes(v, n)' => Executes(v, n) /\ job'[v] = job[v]
    BY <2>1, <2>3, IdleExecutesNothing DEF Executes
  <2> QED
    BY <1>s, <2>2, <2>4 DEF OwnerInv, AnswersAgree, receipts
<1>2. ASSUME NEW w \in Worker, NEW m \in Move, NEW r \in Request, LookupSaved(w, m, r)
      PROVE  AnswerInv'
  <2>1. AnswersAgree'
    BY <1>2, ReplayAgrees DEF LookupSaved
  <2> QED
    BY <1>s, <1>2, <2>1 DEF LookupSaved, OwnerInv, Executes
<1>3. ASSUME NEW w \in Worker, Begin(w)
      PROVE  AnswerInv'
  <2> DEFINE n == job[w].move
             j == [job[w] EXCEPT !.pc = "player"]
  <2>1. n \in Move /\ job[w].request \in Request /\ intent[n] = NoRequest /\ job[w].request # NoRequest
    BY <1>3, AtTyped, NullAssumption DEF Begin, At
  <2>2. Keeps(j, job[w])
    BY <1>s, JobTyped, Labels, Edits
  <2>3. Become(w, j) /\ UNCHANGED <<log, outcome, told>>
    BY <1>3 DEF Begin, Goto
  <2>4. intent' = [intent EXCEPT ![n] = job[w].request] /\ intent \in [Move -> Request \cup {NoRequest}]
    BY <1>3, ReceiptsTyped DEF Begin
  <2> HIDE DEF j, n
  <2>5. job'[w] = j /\ \A v \in Worker \ {w} : job'[v] = job[v]
    BY <1>s, <2>2, <2>3, Becomes DEF Keeps
  <2>6. intent'[n] = job[w].request /\ \A m \in Move \ {n} : intent'[m] = intent[m]
    BY <2>1, <2>4
  <2>7. \A v \in Worker : Executes(v, n) => intent[n] = job[v].request /\ job[v].request \in Request
    BY AtTyped, Labels DEF OwnerInv, Executes, At, Failures
  <2>8. \A v \in Worker : ~Executes(v, n)
    BY <2>1, <2>7, NullAssumption
  <2>9. outcome[n] = NoOutcome
    BY <2>1 DEF OwnerInv
  <2>10. \A v \in Worker, m \in Move :
           Executes(v, m)' => \/ Executes(v, m) /\ job'[v] = job[v] /\ m # n
                              \/ v = w /\ m = n /\ job'[v].request = job[w].request
    BY <2>2, <2>5, <2>8 DEF Executes, Keeps, n
  <2>11. OwnerInv'
    BY <2>1, <2>3, <2>6, <2>8, <2>9, <2>10 DEF OwnerInv
  <2>12. AnswersAgree'
    <3> SUFFICES ASSUME NEW t \in told
                 PROVE  outcome[t.move] = t.outcome /\ intent'[t.move] = t.request
      BY <2>3 DEF AnswersAgree
    <3>1. t.move \in Move /\ t.request \in Request
      BY ReceiptsTyped
    <3>2. outcome[t.move] = t.outcome /\ intent[t.move] = t.request
      BY DEF AnswersAgree
    <3> QED
      BY <2>1, <2>6, <3>1, <3>2, NullAssumption
  <2> QED
    BY <1>s, <2>11, <2>12
<1>4. ASSUME NEW w \in Worker, BeginTaken(w)
      PROVE  AnswerInv'
  <2>1. job[w].move \in Move /\ job[w].request \in Request
    BY <1>4, AtTyped DEF BeginTaken, At
  <2>2. OwnerInv'
    BY <1>4, EndOwner DEF BeginTaken
  <2>3. CASE Replay(job[w].move, job[w].request)
    BY <1>s, <1>4, <2>1, <2>2, <2>3, ReplayAgrees DEF BeginTaken
  <2>4. CASE UNCHANGED told
    BY <1>s, <1>4, <2>2, <2>4 DEF BeginTaken, AnswersAgree
  <2> QED
    BY <1>4, <2>3, <2>4 DEF BeginTaken
<1>5. ASSUME NEW w \in Worker, BeginFails(w)
      PROVE  AnswerInv'
  <2> DEFINE n == job[w].move
  <2>1. n \in Move /\ job[w].request \in Request
    BY <1>5, AtTyped DEF BeginFails, At
  <2>2. Finish(w) /\ UNCHANGED <<log, outcome, told>>
    BY <1>5 DEF BeginFails
  <2>3. \A m \in Move : intent[m] # NoRequest => intent'[m] = intent[m]
    BY <1>5, <2>1, ReceiptsTyped DEF BeginFails
  <2>4. job'[w] = Idle /\ \A v \in Worker \ {w} : job'[v] = job[v]
    BY <1>s, <2>2, Finishes
  <2>5. \A v \in Worker, m \in Move : Executes(v, m)' => Executes(v, m) /\ job'[v] = job[v]
    BY <2>4, IdleExecutesNothing DEF Executes
  <2>6. \A v \in Worker, m \in Move : Executes(v, m) => intent[m] = job[v].request /\ job[v].request \in Request
    BY AtTyped, Labels DEF OwnerInv, Executes, At, Failures
  <2>7. OwnerInv'
    BY <2>2, <2>3, <2>5, <2>6, NullAssumption DEF OwnerInv
  <2>8. AnswersAgree'
    <3> SUFFICES ASSUME NEW t \in told
                 PROVE  outcome[t.move] = t.outcome /\ intent'[t.move] = t.request
      BY <2>2 DEF AnswersAgree
    <3>1. t.move \in Move /\ t.request \in Request
      BY ReceiptsTyped
    <3>2. outcome[t.move] = t.outcome /\ intent[t.move] = t.request
      BY DEF AnswersAgree
    <3> QED
      BY <2>3, <3>1, <3>2, NullAssumption
  <2> QED
    BY <1>s, <2>7, <2>8
<1>6. ASSUME NEW w \in Worker, StageStep(w)
      PROVE  AnswerInv'
  BY <1>s, <1>6, StageOwner
<1>7. ASSUME NEW w \in Worker, Complete(w) \/ CompleteFails(w)
      PROVE  AnswerInv'
  <2> DEFINE o == Result(w)
  <2>0. PICK n \in Move : n = job[w].move
    BY <1>7, AtTyped DEF Complete, CompleteFails, At
  <2>1. /\ n \in Move /\ job[w].request \in Request /\ o \in Outcome /\ Executes(w, n)
        /\ intent[n] = job[w].request /\ o # NoOutcome
    <3>1. job[w].request \in Request /\ o \in Outcome /\ job[w].pc \in Executing
      BY <1>7, AtTyped, ResultTyped, IdleExecutesNothing DEF Complete, CompleteFails, At
    <3> QED
      BY <2>0, <3>1, NullAssumption DEF Executes, OwnerInv
  <2>2. Finish(w) /\ UNCHANGED <<log, intent>>
    BY <1>7 DEF Complete, CompleteFails
  <2>3. job'[w] = Idle /\ \A v \in Worker \ {w} : job'[v] = job[v]
    BY <1>s, <2>2, Finishes
  <2>4. \A v \in Worker, m \in Move : Executes(v, m)' => Executes(v, m) /\ job'[v] = job[v] /\ v # w
    BY <2>3, IdleExecutesNothing DEF Executes
  <2>5. \/ outcome' = outcome
        \/ outcome[n] = NoOutcome /\ outcome' = [outcome EXCEPT ![n] = o]
    BY <1>7, <2>0 DEF Complete, CompleteFails
  <2> HIDE DEF o
  <2>6. /\ \A m \in Move : outcome[m] # NoOutcome => outcome'[m] = outcome[m]
        /\ \A m \in Move \ {n} : outcome'[m] = outcome[m]
    BY <2>1, <2>5, ReceiptsTyped
  <2>7. outcome'[n] # NoOutcome => intent[n] # NoRequest /\ \A v \in Worker : ~Executes(v, n)'
    <3>1. intent[n] # NoRequest
      BY <2>1, NullAssumption
    <3>2. ASSUME NEW v \in Worker, Executes(v, n)'
          PROVE  FALSE
      BY <2>1, <2>4, <3>2 DEF OwnerInv
    <3> QED
      BY <3>1, <3>2
  <2>8. OwnerInv'
    <3>1. \A v \in Worker, m \in Move : Executes(v, m)' => intent'[m] = job'[v].request
      BY <2>2, <2>4 DEF OwnerInv
    <3>2. \A m \in Move : \A u, v \in Worker : Executes(u, m)' /\ Executes(v, m)' => u = v
      BY <2>4 DEF OwnerInv
    <3>3. ASSUME NEW m \in Move, outcome'[m] # NoOutcome
          PROVE  intent'[m] # NoRequest /\ \A v \in Worker : ~Executes(v, m)'
      <4>1. CASE m = n
        BY <2>2, <2>7, <3>3, <4>1
      <4>2. CASE m # n
        BY <2>2, <2>4, <2>6, <3>3, <4>2 DEF OwnerInv
      <4> QED
        BY <4>1, <4>2
    <3> QED
      BY <3>1, <3>2, <3>3 DEF OwnerInv
  <2>9. ASSUME NEW t \in told
        PROVE  outcome'[t.move] = t.outcome /\ intent'[t.move] = t.request
    <3>1. t.move \in Move /\ t.outcome \in Outcome
      BY ReceiptsTyped
    <3>2. outcome[t.move] = t.outcome /\ intent[t.move] = t.request
      BY DEF AnswersAgree
    <3> QED
      BY <2>2, <2>6, <3>1, <3>2, NullAssumption
  <2>10. CASE Complete(w)
    <3>1. told' = told \cup {[move |-> n, request |-> job[w].request, outcome |-> o]} /\ outcome'[n] = o
      BY <2>0, <2>1, <2>10, ReceiptsTyped DEF Complete, Tell, o
    <3>2. AnswersAgree'
      BY <2>1, <2>2, <2>9, <3>1 DEF AnswersAgree
    <3> QED
      BY <1>s, <2>8, <3>2
  <2>11. CASE CompleteFails(w)
    <3>1. told' = told
      BY <2>11 DEF CompleteFails
    <3> QED
      BY <1>s, <2>8, <2>9, <3>1 DEF AnswersAgree
  <2> QED
    BY <1>7, <2>10, <2>11
<1>8. ASSUME NEW w \in Worker, Crash(w)
      PROVE  AnswerInv'
  <2>1. Finish(w) /\ UNCHANGED <<intent, outcome, told>>
    BY <1>8 DEF Crash, receipts
  <2> QED
    BY <1>s, <2>1, EndOwner DEF AnswersAgree
<1> QED
  BY <1>s, <1>0, <1>1, <1>2, <1>3, <1>4, <1>5, <1>6, <1>7, <1>8, Steps

-----------------------------------------------------------------------------
(* A move happens once                                                     *)

MoveInv ==
  /\ MoveHappensOnce
  /\ \A w \in Worker, m \in Move : Executes(w, m) /\ At(w, "player") => Own(m) = {}
  /\ \A w \in Worker, m \in Move : Executes(w, m) /\ job[w].pc \in Staged => Of(m, {"player"}) # {}

TurnInv == AnswerInv /\ MoveInv

\* Every step that is not a stage's.
RestStep(w) ==
  \/ \E m \in Move, r \in Request : Open(w, m, r) \/ LookupSaved(w, m, r)
  \/ Begin(w) \/ BeginTaken(w) \/ BeginFails(w)
  \/ Complete(w) \/ CompleteFails(w) \/ Crash(w)

LEMMA Rest ==
  ASSUME AnswerInv, NEW w \in Worker, RestStep(w)
  PROVE  /\ log' = log
         /\ \A m \in Move : intent[m] # NoRequest => intent'[m] # NoRequest
         /\ \A v \in Worker, m \in Move : Executes(v, m)' =>
              \/ Executes(v, m) /\ job'[v] = job[v]
              \/ /\ v = w /\ Begin(w) /\ job[w].move = m /\ intent[m] = NoRequest
                 /\ job'[v] = [job[v] EXCEPT !.pc = "player"]
<1>s. TypeOK /\ intent \in [Move -> Request \cup {NoRequest}]
  BY ReceiptsTyped DEF AnswerInv, TypeInv
<1>1. ASSUME Finish(w)
      PROVE  \A v \in Worker, m \in Move : Executes(v, m)' => Executes(v, m) /\ job'[v] = job[v]
  <2>1. job'[w] = Idle /\ \A v \in Worker \ {w} : job'[v] = job[v]
    BY <1>s, <1>1, Finishes
  <2> QED
    BY <2>1, IdleExecutesNothing DEF Executes
<1>2. ASSUME NEW m \in Move, NEW r \in Request, Open(w, m, r)
      PROVE  \A v \in Worker, n \in Move : Executes(v, n)' => Executes(v, n) /\ job'[v] = job[v]
  <2> DEFINE j == [Idle EXCEPT !.pc = "begin", !.move = m, !.request = r, !.head = Len(log)]
  <2>1. j \in Job /\ j.pc = "begin"
    BY IdleTyped, ReceiptsTyped DEF Idle, Job, AnswerInv
  <2>2. Become(w, j)
    BY <1>2 DEF Open
  <2> HIDE DEF j
  <2>3. job'[w] = j /\ \A v \in Worker \ {w} : job'[v] = job[v]
    BY <1>s, <2>1, <2>2, Becomes
  <2> QED
    BY <2>1, <2>3, IdleExecutesNothing DEF Executes
<1>3. CASE \E m \in Move, r \in Request : Open(w, m, r)
  BY <1>2, <1>3 DEF Open, receipts
<1>4. CASE \E m \in Move, r \in Request : LookupSaved(w, m, r)
  BY <1>4 DEF LookupSaved, Executes
<1>5. CASE Begin(w)
  <2> DEFINE j == [job[w] EXCEPT !.pc = "player"]
  <2>0. PICK n \in Move : n = job[w].move
    BY <1>5, AtTyped DEF Begin, At, AnswerInv
  <2>1. /\ intent[n] = NoRequest /\ job[w].request \in Request /\ job[w].request # NoRequest
        /\ intent' = [intent EXCEPT ![n] = job[w].request] /\ log' = log
    BY <1>5, <2>0, AtTyped, NullAssumption DEF Begin, At, AnswerInv
  <2>2. Become(w, j) /\ Keeps(j, job[w])
    BY <1>s, <1>5, JobTyped, Labels, Edits DEF Begin, Goto
  <2> HIDE DEF j
  <2>3. job'[w] = j /\ \A v \in Worker \ {w} : job'[v] = job[v]
    BY <1>s, <2>2, Becomes DEF Keeps
  <2>4. \A m \in Move : intent[m] # NoRequest => intent'[m] # NoRequest
    BY <1>s, <2>1
  <2>5. \A v \in Worker, m \in Move : Executes(v, m)' =>
          \/ Executes(v, m) /\ job'[v] = job[v]
          \/ v = w /\ m = n
    BY <2>0, <2>2, <2>3 DEF Executes, Keeps
  <2> QED
    BY <1>5, <2>0, <2>1, <2>3, <2>4, <2>5 DEF j
<1>6. CASE BeginTaken(w) \/ Crash(w)
  BY <1>1, <1>6 DEF BeginTaken, Crash, receipts
<1>7. CASE BeginFails(w)
  <2>1. job[w].move \in Move /\ job[w].request \in Request
    BY <1>7, AtTyped DEF BeginFails, At, AnswerInv
  <2>2. \A m \in Move : intent[m] # NoRequest => intent'[m] # NoRequest
    BY <1>s, <1>7, <2>1, NullAssumption DEF BeginFails
  <2> QED
    BY <1>1, <1>7, <2>2 DEF BeginFails
<1>8. CASE Complete(w) \/ CompleteFails(w)
  BY <1>1, <1>8 DEF Complete, CompleteFails
<1> QED
  BY <1>3, <1>4, <1>5, <1>6, <1>7, <1>8 DEF RestStep

\* What a stage adds to the events of a move.
LEMMA StageEvents ==
  ASSUME AnswerInv, NEW w \in Worker, StageStep(w), NEW n \in Move, n = job[w].move
  PROVE  /\ Executes(w, n)
         /\ \A m \in Move \ {n} : \A lanes : Of(m, lanes)' = Of(m, lanes)
         /\ \/ log' = log /\ \A lanes : Of(n, lanes)' = Of(n, lanes)
            \/ \E lane \in Lanes :
                 /\ log' # log /\ Len(log) = job[w].head /\ Len(log') = Len(log) + 1
                 /\ lane = "player" <=> At(w, "player")
                 /\ \A lanes : Of(n, lanes)' =
                      IF lane \in lanes THEN Of(n, lanes) \cup {Event} ELSE Of(n, lanes)
<1>s. TypeOK /\ Len(log) \in Nat
  BY ReceiptsTyped DEF AnswerInv, TypeInv
<1>1. Executes(w, n)
  BY DEF StageStep, Executes
<1>2. CASE log' = log
  BY <1>1, <1>2 DEF Of
<1>3. CASE log' # log
  <2>1. PICK lane \in Lanes, p \in Possibility \cup {NoPossibility}, slots \in Nat :
          /\ AtHead(w) /\ (p # NoPossibility => p \in Eligible(w))
          /\ lane = "player" <=> At(w, "player")
          /\ Len(log') = Len(log) + 1
          /\ log'[Len(log) + 1] = [lane |-> lane, move |-> job[w].move, poss |-> p, slots |-> slots]
    BY <1>s, <1>3, StageLog
  <2>2. \A i \in 1 .. Len(log) : log'[i] = log[i]
    BY <1>s, StageLog
  <2>3. /\ log'[Event].lane = lane /\ log'[Event].move = n /\ Len(log') = Event /\ Event = Len(log) + 1
        /\ lane = "player" <=> At(w, "player")
        /\ Len(log) = job[w].head
    BY <2>1 DEF Event, AtHead
  <2>4. \A i : i \in 1 .. Len(log') <=> i \in 1 .. Len(log) \/ i = Event
    BY <1>s, <2>3
  <2>5. ASSUME NEW m \in Move, NEW lanes
        PROVE  Of(m, lanes)' = {i \in 1 .. Len(log') : log'[i].move = m /\ log'[i].lane \in lanes}
    BY DEF Of
  <2>6. ASSUME NEW m \in Move \ {n}, NEW lanes
        PROVE  Of(m, lanes)' = Of(m, lanes)
    BY <2>2, <2>3, <2>4, <2>5, <2>6 DEF Of
  <2>7. ASSUME NEW lanes
        PROVE  Of(n, lanes)' = IF lane \in lanes THEN Of(n, lanes) \cup {Event} ELSE Of(n, lanes)
    BY <2>2, <2>3, <2>4, <2>5, <2>7 DEF Of
  <2> QED
    BY <1>1, <1>3, <2>3, <2>6, <2>7
<1> QED
  BY <1>2, <1>3

LEMMA MoveRest ==
  ASSUME TurnInv, NEW w \in Worker, RestStep(w)
  PROVE  MoveInv'
<1> USE DEF TurnInv
<1>1. \A m \in Move : intent[m] # NoRequest => intent'[m] # NoRequest
  BY Rest
<1>2. \A m \in Move : \A lanes : Of(m, lanes)' = Of(m, lanes)
  BY Rest DEF Of
<1>3. MoveHappensOnce'
  BY <1>1, <1>2 DEF MoveInv, MoveHappensOnce, Own
<1>4. ASSUME NEW v \in Worker, NEW m \in Move, Executes(v, m)'
      PROVE  /\ At(v, "player")' => Own(m)' = {}
             /\ job'[v].pc \in Staged => Of(m, {"player"})' # {}
  <2>1. CASE Executes(v, m) /\ job'[v] = job[v]
    BY <1>2, <2>1 DEF MoveInv, Own, At
  <2>2. CASE v = w /\ Begin(w) /\ intent[m] = NoRequest /\ job'[v] = [job[v] EXCEPT !.pc = "player"]
    <3>1. job[w] \in Job
      BY JobTyped DEF AnswerInv, TypeInv
    <3>2. job'[v].pc = "player" /\ "player" \notin Staged
      BY <2>2, <3>1, Labels DEF Job, Failures
    <3>3. Own(m) = {}
      BY <2>2 DEF MoveInv, MoveHappensOnce
    <3> QED
      BY <1>2, <3>2, <3>3 DEF Own
  <2> QED
    BY <1>4, <2>1, <2>2, Rest
<1> QED
  BY <1>3, <1>4 DEF MoveInv

\* The job of a worker after one of its stages.
LEMMA StageJob ==
  ASSUME AnswerInv, NEW w \in Worker, StageStep(w)
  PROVE  /\ \A v \in Worker \ {w} : job'[v] = job[v]
         /\ \/ job'[w].pc = "idle"
            \/ /\ job'[w].move = job[w].move
               /\ job'[w].pc \in Executing \ {"player"}
               /\ job'[w].pc \in Staged /\ At(w, "player") => log' # log
<1>s. TypeOK
  BY DEF AnswerInv, TypeInv
<1>1. CASE Finish(w)
  BY <1>s, <1>1, Finishes
<1>2. ASSUME NEW j \in Job, Become(w, j), j.move = job[w].move, j.pc \in Executing \ {"player"},
             j.pc \in Staged /\ At(w, "player") => log' # log
      PROVE  /\ \A v \in Worker \ {w} : job'[v] = job[v]
             /\ job'[w].move = job[w].move
             /\ job'[w].pc \in Executing \ {"player"}
             /\ job'[w].pc \in Staged /\ At(w, "player") => log' # log
  BY <1>s, <1>2, Becomes
<1> QED
  BY <1>1, <1>2 DEF StageStep

LEMMA MoveStep ==
  ASSUME TurnInv, NEW w \in Worker, StageStep(w)
  PROVE  MoveInv'
<1> USE DEF TurnInv
<1>s. TypeOK /\ Len(log) \in Nat
  BY ReceiptsTyped DEF AnswerInv, TypeInv
<1>0. PICK n \in Move : n = job[w].move
  BY <1>s, StageLog, AtTyped DEF AnswerInv
<1>1. Executes(w, n) /\ intent[n] # NoRequest
  <2>1. Executes(w, n) /\ ~At(w, "idle")
    BY <1>s, <1>0, StageEvents, StageLog
  <2> QED
    BY <1>0, <2>1, AtTyped, NullAssumption DEF AnswerInv, OwnerInv
<1>2. \A m \in Move \ {n} : \A lanes : Of(m, lanes)' = Of(m, lanes)
  BY <1>0, StageEvents
<1>3. \A v \in Worker \ {w}, m \in Move : Executes(v, m) => m # n
  BY <1>1 DEF AnswerInv, OwnerInv
<1>4. UNCHANGED intent
  BY DEF StageStep, receipts
<1>5. job[w].pc \in Staged \cup {"player"}
  BY Labels DEF StageStep, Staged
<1>6. /\ At(w, "player") => Own(n) = {}
      /\ ~At(w, "player") => Of(n, {"player"}) # {}
  BY <1>1, <1>5 DEF MoveInv, At
\* The player's action is there when a stage has followed it.
<1> DEFINE Follows ==
      /\ \A i, j \in Of(n, {"player"})' : i = j
      /\ \A i \in Own(n)' : \E j \in Of(n, {"player"})' : j <= i
      /\ ~At(w, "player") \/ log' # log => Of(n, {"player"})' # {}
<1>7. Follows
  <2>1. CASE log' = log /\ \A lanes : Of(n, lanes)' = Of(n, lanes)
    BY <1>6, <2>1 DEF MoveInv, MoveHappensOnce, Own
  <2>2. ASSUME NEW lane \in Lanes, log' # log, lane = "player" <=> At(w, "player"),
               \A lanes : Of(n, lanes)' = IF lane \in lanes THEN Of(n, lanes) \cup {Event} ELSE Of(n, lanes)
        PROVE  Follows
    <3>1. Own(n)' = Own(n) \cup {Event} /\ Event \in Nat
      BY <1>s, <2>2 DEF Own, Event
    <3>2. \A i \in Own(n) : i <= Event
      BY <1>s DEF Own, Of, Event
    <3>3. Of(n, {"player"}) \subseteq Own(n)
      BY DEF Own, Of, Lanes
    <3>4. CASE At(w, "player")
      <4>1. Of(n, {"player"})' = {Event} /\ Own(n)' = {Event}
        BY <1>6, <2>2, <3>1, <3>3, <3>4
      <4> QED
        BY <3>1, <4>1
    <3>5. CASE ~At(w, "player")
      <4>1. Of(n, {"player"})' = Of(n, {"player"})
        BY <2>2, <3>5
      <4>2. PICK k \in Of(n, {"player"}) : TRUE
        BY <1>6, <3>5
      <4>3. ASSUME NEW i \in Own(n)'
            PROVE  \E j \in Of(n, {"player"})' : j <= i
        <5>1. CASE i \in Own(n)
          BY <4>1, <5>1 DEF MoveInv, MoveHappensOnce
        <5>2. CASE i = Event
          BY <3>2, <3>3, <4>1, <4>2, <5>2
        <5> QED
          BY <3>1, <5>1, <5>2
      <4> QED
        BY <4>1, <4>2, <4>3 DEF MoveInv, MoveHappensOnce
    <3> QED
      BY <3>4, <3>5
  <2> HIDE DEF Follows
  <2>3. CASE log' # log
    <3>0. \/ log' = log
          \/ \E lane \in Lanes :
               /\ log' # log /\ Len(log) = job[w].head /\ Len(log') = Len(log) + 1
               /\ lane = "player" <=> At(w, "player")
               /\ \A lanes : Of(n, lanes)' =
                    IF lane \in lanes THEN Of(n, lanes) \cup {Event} ELSE Of(n, lanes)
      BY <1>0, StageEvents, ZenonT(60)
    <3>1. PICK lane \in Lanes :
            /\ log' # log
            /\ lane = "player" <=> At(w, "player")
            /\ \A lanes : Of(n, lanes)' =
                 IF lane \in lanes THEN Of(n, lanes) \cup {Event} ELSE Of(n, lanes)
      BY <2>3, <3>0, Zenon
    <3> QED
      BY <2>2, <2>3, <3>1
  <2>4. CASE log' = log
    <3>1. \A lanes : Of(n, lanes)' = Of(n, lanes)
      BY <2>4 DEF Of
    <3> QED
      BY <2>1, <2>4, <3>1
  <2> QED
    BY <2>3, <2>4
<1>8. MoveHappensOnce'
  <2> SUFFICES ASSUME NEW m \in Move
               PROVE  /\ \A i, j \in Of(m, {"player"})' : i = j
                      /\ Own(m)' # {} => intent'[m] # NoRequest
                      /\ \A i \in Own(m)' : \E j \in Of(m, {"player"})' : j <= i
    BY DEF MoveHappensOnce
  <2>1. CASE m = n
    BY <1>1, <1>4, <1>7, <2>1
  <2>2. CASE m # n
    BY <1>2, <1>4, <2>2 DEF MoveInv, MoveHappensOnce, Own
  <2> QED
    BY <2>1, <2>2
<1>9. ASSUME NEW v \in Worker, NEW m \in Move, Executes(v, m)'
      PROVE  /\ At(v, "player")' => Own(m)' = {}
             /\ job'[v].pc \in Staged => Of(m, {"player"})' # {}
  <2>1. CASE v = w
    <3>1. /\ job'[w].pc \in Executing \ {"player"} /\ job'[w].move = job[w].move
          /\ job'[w].pc \in Staged /\ At(w, "player") => log' # log
      BY <1>9, <2>1, StageJob, IdleExecutesNothing, IdleTyped DEF Executes
    <3>2. m = n
      BY <1>0, <1>9, <2>1, <3>1 DEF Executes
    <3> QED
      BY <1>7, <2>1, <3>1, <3>2 DEF At
  <2>2. CASE v # w
    <3>1. job'[v] = job[v] /\ Executes(v, m) /\ m # n
      BY <1>3, <1>9, <2>2, StageJob DEF Executes
    <3> QED
      BY <1>2, <3>1 DEF MoveInv, Own, At
  <2> QED
    BY <2>1, <2>2
<1> QED
  BY <1>8, <1>9 DEF MoveInv

LEMMA TurnStep ==
  ASSUME TurnInv, [Next]_vars
  PROVE  TurnInv'
<1>1. AnswerInv'
  BY AnswerStep DEF TurnInv
<1>2. MoveInv'
  <2>1. CASE UNCHANGED vars
    <3>1. MoveInv /\ UNCHANGED <<log, intent, job>>
      BY <2>1 DEF vars, TurnInv
    <3> QED
      BY <3>1 DEF MoveInv, MoveHappensOnce, Own, Of, Executes, At
  <2>2. CASE \E w \in Worker : RestStep(w) \/ StageStep(w)
    BY <2>2, MoveRest, MoveStep
  <2> QED
    BY <2>1, <2>2, Steps DEF TurnInv, AnswerInv, TypeInv, RestStep
<1> QED
  BY <1>1, <1>2 DEF TurnInv

-----------------------------------------------------------------------------
(* Receipts account for their moves                                        *)

InBatch == {"npcs", "actors", "background"}
Added == IF log' = log THEN {} ELSE {Event}

\* What a stage of w does to the events its job knows of, j being the job after it.
Accounts(w, j) ==
  /\ job[w].failed \/ job[w].pc \in Failures => j.failed \/ j.pc \in Failures
  /\ j.listed \cup j.pending \subseteq job[w].listed \cup job[w].pending \cup Added
  /\ ~j.failed /\ j.pc \notin Failures =>
       j.listed \cup j.pending = job[w].listed \cup job[w].pending \cup Added
  /\ j.pc \notin Failures =>
       j.head = Len(log') \/ (j.head = job[w].head /\ log' = log /\ job[w].pc \notin Failures)
  /\ (job[w].pc \notin InBatch => job[w].pending = {}) => (j.pc \notin InBatch => j.pending = {})

AccountStep(w) == Finish(w) \/ Accounts(w, job'[w])

LEMMA BecomesThis ==
  ASSUME TypeOK, NEW w \in Worker, NEW j, Become(w, j)
  PROVE  job'[w] = j
BY DEF TypeOK, Become

LEMMA AppendedOne ==
  ASSUME TypeOK, NEW w \in Worker, ~At(w, "idle"), NEW lane \in Lanes,
         NEW p \in Eligible(w) \cup {NoPossibility}, NEW slots \in 0..MaxSlots,
         Extend(w, lane, p, slots)
  PROVE  Added = {Event} /\ Len(log') = Event
<1>1. p \in Possibility \cup {NoPossibility} /\ slots \in Nat
  BY BoundAssumption DEF Eligible
<1> QED
  BY <1>1, Appended DEF Added, Event

LEMMA PlayerAccounts ==
  ASSUME TypeOK, NEW w \in Worker,
         PlayerCommits(w) \/ PlayerLost(w) \/ PlayerRejected(w) \/ Render(w) \/ Throws(w),
         At(w, "player") => job[w].listed = {}
  PROVE  AccountStep(w)
<1>f. job[w] \in Job /\ 0 \in 0..MaxSlots
  BY JobTyped, BoundAssumption
<1>1. CASE PlayerCommits(w)
  <2>p. PICK p \in Eligible(w) \cup {NoPossibility}, slots \in 0..MaxSlots, direct \in 0..MaxDirect :
          /\ Extend(w, "player", p, slots)
          /\ Become(w, [job[w] EXCEPT !.pc = "render", !.head = Event, !.listed = {Event},
                                      !.slots = slots, !.direct = direct])
    BY <1>1 DEF PlayerCommits
  <2> DEFINE j == [job[w] EXCEPT !.pc = "render", !.head = Event, !.listed = {Event},
                                 !.slots = slots, !.direct = direct]
  <2>1. /\ Become(w, j) /\ job[w].pc = "player" /\ ~At(w, "idle") /\ "player" \in Lanes
    BY <1>1, <2>p DEF PlayerCommits, At, Lanes
  <2>2. Added = {Event} /\ Len(log') = Event
    BY <1>f, <2>p, <2>1, AppendedOne
  <2>3. /\ j.pc = "render" /\ j.head = Event /\ j.failed = job[w].failed
        /\ j.listed = {Event} /\ j.pending = job[w].pending
    BY <1>f, <2>1 DEF Job
  <2>4. job'[w] = j
    BY <2>1, BecomesThis
  <2> HIDE DEF j
  <2> QED
    BY <2>1, <2>2, <2>3, <2>4 DEF At, AccountStep, Accounts, InBatch, Failures
<1>2. CASE PlayerLost(w) \/ Throws(w)
  BY <1>2 DEF PlayerLost, Throws, AccountStep
<1>3. CASE PlayerRejected(w)
  <2> DEFINE j == [job[w] EXCEPT !.pc = "publish", !.head = Len(log)]
  <2>1. Become(w, j) /\ log' = log /\ job[w].pc = "player"
    BY <1>3 DEF PlayerRejected, At, Goto
  <2>3. /\ j.pc = "publish" /\ j.head = Len(log) /\ j.failed = job[w].failed
        /\ j.listed = job[w].listed /\ j.pending = job[w].pending
    BY <1>f, <2>1 DEF Job
  <2>4. job'[w] = j
    BY <2>1, BecomesThis
  <2> HIDE DEF j
  <2> QED
    BY <2>1, <2>3, <2>4 DEF AccountStep, Accounts, InBatch, Failures, Added
<1>4. CASE Render(w)
  <2> DEFINE j == [job[w] EXCEPT !.pc = "npc"]
  <2>1. Become(w, j) /\ log' = log /\ job[w].pc = "render"
    BY <1>4 DEF Render, At, Goto
  <2>3. /\ j.pc = "npc" /\ j.head = job[w].head /\ j.failed = job[w].failed
        /\ j.listed = job[w].listed /\ j.pending = job[w].pending
    BY <1>f, <2>1 DEF Job
  <2>4. job'[w] = j
    BY <2>1, BecomesThis
  <2> HIDE DEF j
  <2> QED
    BY <2>1, <2>3, <2>4 DEF AccountStep, Accounts, InBatch, Failures, Added
<1> QED
  BY <1>1, <1>2, <1>3, <1>4

LEMMA NpcAccounts ==
  ASSUME TypeOK, NEW w \in Worker,
         NpcStarts(w) \/ NpcCommits(w) \/ NpcIsSilent(w) \/ NpcFails(w) \/ NpcsDone(w) \/ NpcsThrow(w)
  PROVE  AccountStep(w)
<1>f. job[w] \in Job /\ 0 \in 0..MaxSlots
  BY JobTyped, BoundAssumption
<1>1. CASE NpcStarts(w)
  <2> DEFINE j == IF job[w].direct = 0 THEN [job[w] EXCEPT !.pc = "world"]
                  ELSE [job[w] EXCEPT !.pc = "npcs", !.head = Len(log), !.left = job[w].direct]
  <2>1. Become(w, j) /\ log' = log /\ job[w].pc = "npc"
    BY <1>1 DEF NpcStarts, At
  <2>3. /\ j.pc \in {"world", "npcs"} /\ j.head \in {job[w].head, Len(log)} /\ j.failed = job[w].failed
        /\ j.listed = job[w].listed /\ j.pending = job[w].pending
    BY <1>f, <2>1 DEF Job
  <2>4. job'[w] = j
    BY <2>1, BecomesThis
  <2> HIDE DEF j
  <2> QED
    BY <2>1, <2>3, <2>4 DEF AccountStep, Accounts, InBatch, Failures, Added
<1>2. CASE NpcCommits(w)
  <2> DEFINE j == [job[w] EXCEPT !.head = Event, !.left = @ - 1, !.pending = @ \cup {Event}]
  <2>1. /\ Become(w, j) /\ job[w].pc = "npcs" /\ ~At(w, "idle")
        /\ Extend(w, "npc", NoPossibility, 0) /\ "npc" \in Lanes
    BY <1>2 DEF NpcCommits, At, Lanes
  <2>2. Added = {Event} /\ Len(log') = Event
    BY <1>f, <2>1, AppendedOne
  <2>3. /\ j.pc = "npcs" /\ j.head = Event /\ j.failed = job[w].failed
        /\ j.listed = job[w].listed /\ j.pending = job[w].pending \cup {Event}
    BY <1>f, <2>1 DEF Job
  <2>4. job'[w] = j
    BY <2>1, BecomesThis
  <2> HIDE DEF j
  <2> QED
    BY <2>1, <2>2, <2>3, <2>4 DEF AccountStep, Accounts, InBatch, Failures
<1>3. CASE NpcIsSilent(w)
  <2> DEFINE j == [job[w] EXCEPT !.left = @ - 1]
  <2>1. Become(w, j) /\ log' = log /\ job[w].pc = "npcs"
    BY <1>3 DEF NpcIsSilent, At, Goto
  <2>3. /\ j.pc = "npcs" /\ j.head = job[w].head /\ j.failed = job[w].failed
        /\ j.listed = job[w].listed /\ j.pending = job[w].pending
    BY <1>f, <2>1 DEF Job
  <2>4. job'[w] = j
    BY <2>1, BecomesThis
  <2> HIDE DEF j
  <2> QED
    BY <2>1, <2>3, <2>4 DEF AccountStep, Accounts, InBatch, Failures, Added
<1>4. CASE NpcFails(w)
  <2> DEFINE j == [job[w] EXCEPT !.head = Len(log'), !.left = @ - 1, !.failed = TRUE]
  <2>1. Become(w, j) /\ job[w].pc \in {"npcs"}
    BY <1>4 DEF NpcFails, At, Goto
  <2>3. /\ j.pc = "npcs" /\ j.head = Len(log') /\ j.failed = TRUE
        /\ j.listed = job[w].listed /\ j.pending = job[w].pending
    BY <1>f, <2>1 DEF Job
  <2>4. job'[w] = j
    BY <2>1, BecomesThis
  <2> HIDE DEF j
  <2> QED
    BY <2>1, <2>3, <2>4 DEF AccountStep, Accounts, InBatch, Failures, Added
<1>5. CASE NpcsDone(w)
  <2> DEFINE j == [job[w] EXCEPT !.pc = "world", !.listed = @ \cup job[w].pending, !.pending = {}]
  <2>1. Become(w, j) /\ log' = log /\ job[w].pc = "npcs"
    BY <1>5 DEF NpcsDone, At, Goto
  <2>3. /\ j.pc = "world" /\ j.head = job[w].head /\ j.failed = job[w].failed
        /\ j.listed = job[w].listed \cup job[w].pending /\ j.pending = {}
    BY <1>f, <2>1 DEF Job
  <2>4. job'[w] = j
    BY <2>1, BecomesThis
  <2> HIDE DEF j
  <2> QED
    BY <2>1, <2>3, <2>4 DEF AccountStep, Accounts, InBatch, Failures, Added
<1>6. CASE NpcsThrow(w)
  <2> DEFINE j == [job[w] EXCEPT !.pc = "npcFailed", !.pending = {}]
  <2>1. Become(w, j) /\ log' = log /\ job[w].pc = "npcs"
    BY <1>6 DEF NpcsThrow, At, Goto
  <2>3. /\ j.pc = "npcFailed" /\ j.head = job[w].head /\ j.failed = job[w].failed
        /\ j.listed = job[w].listed /\ j.pending = {}
    BY <1>f, <2>1 DEF Job
  <2>4. job'[w] = j
    BY <2>1, BecomesThis
  <2> HIDE DEF j
  <2> QED
    BY <2>1, <2>3, <2>4 DEF AccountStep, Accounts, InBatch, Failures, Added
<1> QED
  BY <1>1, <1>2, <1>3, <1>4, <1>5, <1>6

LEMMA WorldAccounts ==
  ASSUME TypeOK, NEW w \in Worker,
         WorldResponds(w) \/ WorldIsSilent(w) \/ WorldFails(w)
           \/ Recovers(w) \/ RecoversNothing(w) \/ RecoveryFails(w)
  PROVE  AccountStep(w)
<1>f. job[w] \in Job /\ 0 \in 0..MaxSlots
  BY JobTyped, BoundAssumption
<1>1. CASE WorldResponds(w)
  <2>p. PICK p \in Eligible(w) : Extend(w, "world", p, 0)
    BY <1>1 DEF WorldResponds
  <2> DEFINE j == [job[w] EXCEPT !.pc = "recover", !.head = Event, !.listed = @ \cup {Event}]
  <2>1. Become(w, j) /\ job[w].pc = "world" /\ ~At(w, "idle") /\ "world" \in Lanes
    BY <1>1 DEF WorldResponds, At, Lanes
  <2>2. Added = {Event} /\ Len(log') = Event
    BY <1>f, <2>p, <2>1, AppendedOne
  <2>3. /\ j.pc = "recover" /\ j.head = Event /\ j.failed = job[w].failed
        /\ j.listed = job[w].listed \cup {Event} /\ j.pending = job[w].pending
    BY <1>f, <2>1 DEF Job
  <2>4. job'[w] = j
    BY <2>1, BecomesThis
  <2> HIDE DEF j
  <2> QED
    BY <2>1, <2>2, <2>3, <2>4 DEF AccountStep, Accounts, InBatch, Failures
<1>2. CASE WorldIsSilent(w)
  <2> DEFINE j == [job[w] EXCEPT !.pc = "recover"]
  <2>1. Become(w, j) /\ log' = log /\ job[w].pc = "world"
    BY <1>2 DEF WorldIsSilent, At, Goto
  <2>3. /\ j.pc = "recover" /\ j.head = job[w].head /\ j.failed = job[w].failed
        /\ j.listed = job[w].listed /\ j.pending = job[w].pending
    BY <1>f, <2>1 DEF Job
  <2>4. job'[w] = j
    BY <2>1, BecomesThis
  <2> HIDE DEF j
  <2> QED
    BY <2>1, <2>3, <2>4 DEF AccountStep, Accounts, InBatch, Failures, Added
<1>3. CASE WorldFails(w)
  <2> DEFINE j == [job[w] EXCEPT !.pc = "worldFailed"]
  <2>1. Become(w, j) /\ job[w].pc \in {"world"}
    BY <1>3 DEF WorldFails, At, Goto
  <2>3. /\ j.pc = "worldFailed" /\ j.head = job[w].head /\ j.failed = job[w].failed
        /\ j.listed = job[w].listed /\ j.pending = job[w].pending
    BY <1>f, <2>1 DEF Job
  <2>4. job'[w] = j
    BY <2>1, BecomesThis
  <2> HIDE DEF j
  <2> QED
    BY <2>1, <2>3, <2>4 DEF AccountStep, Accounts, InBatch, Failures, Added
<1>4. CASE Recovers(w)
  <2>p. PICK p \in Eligible(w) : Extend(w, "recovery", p, 0)
    BY <1>4 DEF Recovers
  <2> DEFINE j == [job[w] EXCEPT !.pc = "move", !.head = Event, !.listed = @ \cup {Event},
                                 !.slots = Excess(@, 1)]
  <2>1. Become(w, j) /\ job[w].pc = "recover" /\ ~At(w, "idle") /\ "recovery" \in Lanes
    BY <1>4 DEF Recovers, At, Lanes
  <2>2. Added = {Event} /\ Len(log') = Event
    BY <1>f, <2>p, <2>1, AppendedOne
  <2>3. /\ j.pc = "move" /\ j.head = Event /\ j.failed = job[w].failed
        /\ j.listed = job[w].listed \cup {Event} /\ j.pending = job[w].pending
    BY <1>f, <2>1 DEF Job
  <2>4. job'[w] = j
    BY <2>1, BecomesThis
  <2> HIDE DEF j
  <2> QED
    BY <2>1, <2>2, <2>3, <2>4 DEF AccountStep, Accounts, InBatch, Failures
<1>5. CASE RecoversNothing(w)
  <2> DEFINE j == [job[w] EXCEPT !.pc = "move"]
  <2>1. Become(w, j) /\ log' = log /\ job[w].pc = "recover"
    BY <1>5 DEF RecoversNothing, At, Goto
  <2>3. /\ j.pc = "move" /\ j.head = job[w].head /\ j.failed = job[w].failed
        /\ j.listed = job[w].listed /\ j.pending = job[w].pending
    BY <1>f, <2>1 DEF Job
  <2>4. job'[w] = j
    BY <2>1, BecomesThis
  <2> HIDE DEF j
  <2> QED
    BY <2>1, <2>3, <2>4 DEF AccountStep, Accounts, InBatch, Failures, Added
<1>6. CASE RecoveryFails(w)
  <2> DEFINE j == [job[w] EXCEPT !.pc = "recoverFailed", !.slots = 0]
  <2>1. Become(w, j) /\ job[w].pc \in {"recover"}
    BY <1>6 DEF RecoveryFails, At, Goto
  <2>3. /\ j.pc = "recoverFailed" /\ j.head = job[w].head /\ j.failed = job[w].failed
        /\ j.listed = job[w].listed /\ j.pending = job[w].pending
    BY <1>f, <2>1 DEF Job
  <2>4. job'[w] = j
    BY <2>1, BecomesThis
  <2> HIDE DEF j
  <2> QED
    BY <2>1, <2>3, <2>4 DEF AccountStep, Accounts, InBatch, Failures, Added
<1> QED
  BY <1>1, <1>2, <1>3, <1>4, <1>5, <1>6

LEMMA MoveAccounts ==
  ASSUME TypeOK, NEW w \in Worker,
         MoveStarts(w) \/ ActorCommits(w) \/ ActorsDone(w) \/ BackgroundCommits(w)
           \/ MoveDone(w) \/ MoveFails(w) \/ Catches(w)
  PROVE  AccountStep(w)
<1>f. job[w] \in Job /\ 0 \in 0..MaxSlots
  BY JobTyped, BoundAssumption
<1>1. CASE MoveStarts(w)
  <2> DEFINE j == [job[w] EXCEPT !.pc = "actors", !.head = Len(log),
                                 !.left = Excess(MaxActors, job[w].direct), !.direct = 0]
  <2>1. Become(w, j) /\ log' = log /\ job[w].pc = "move"
    BY <1>1 DEF MoveStarts, At, Goto
  <2>3. /\ j.pc = "actors" /\ j.head = Len(log) /\ j.failed = job[w].failed
        /\ j.listed = job[w].listed /\ j.pending = job[w].pending
    BY <1>f, <2>1 DEF Job
  <2>4. job'[w] = j
    BY <2>1, BecomesThis
  <2> HIDE DEF j
  <2> QED
    BY <2>1, <2>3, <2>4 DEF AccountStep, Accounts, InBatch, Failures, Added
<1>2. CASE ActorCommits(w)
  <2> DEFINE j == [job[w] EXCEPT !.head = Event, !.left = @ - 1, !.pending = @ \cup {Event}]
  <2>1. /\ Become(w, j) /\ job[w].pc = "actors" /\ ~At(w, "idle")
        /\ Extend(w, "actor", NoPossibility, 0) /\ "actor" \in Lanes
    BY <1>2 DEF ActorCommits, At, Lanes
  <2>2. Added = {Event} /\ Len(log') = Event
    BY <1>f, <2>1, AppendedOne
  <2>3. /\ j.pc = "actors" /\ j.head = Event /\ j.failed = job[w].failed
        /\ j.listed = job[w].listed /\ j.pending = job[w].pending \cup {Event}
    BY <1>f, <2>1 DEF Job
  <2>4. job'[w] = j
    BY <2>1, BecomesThis
  <2> HIDE DEF j
  <2> QED
    BY <2>1, <2>2, <2>3, <2>4 DEF AccountStep, Accounts, InBatch, Failures
<1>3. CASE ActorsDone(w)
  <2> DEFINE j == [job[w] EXCEPT !.pc = "background", !.left = 0]
  <2>1. Become(w, j) /\ log' = log /\ job[w].pc = "actors"
    BY <1>3 DEF ActorsDone, At, Goto
  <2>3. /\ j.pc = "background" /\ j.head = job[w].head /\ j.failed = job[w].failed
        /\ j.listed = job[w].listed /\ j.pending = job[w].pending
    BY <1>f, <2>1 DEF Job
  <2>4. job'[w] = j
    BY <2>1, BecomesThis
  <2> HIDE DEF j
  <2> QED
    BY <2>1, <2>3, <2>4 DEF AccountStep, Accounts, InBatch, Failures, Added
<1>4. CASE BackgroundCommits(w)
  <2>p. PICK p \in Eligible(w) : Extend(w, "background", p, 0)
    BY <1>4 DEF BackgroundCommits
  <2> DEFINE j == [job[w] EXCEPT !.head = Event, !.slots = @ - 1, !.pending = @ \cup {Event}]
  <2>1. Become(w, j) /\ job[w].pc = "background" /\ ~At(w, "idle") /\ "background" \in Lanes
    BY <1>4 DEF BackgroundCommits, At, Lanes
  <2>2. Added = {Event} /\ Len(log') = Event
    BY <1>f, <2>p, <2>1, AppendedOne
  <2>3. /\ j.pc = "background" /\ j.head = Event /\ j.failed = job[w].failed
        /\ j.listed = job[w].listed /\ j.pending = job[w].pending \cup {Event}
    BY <1>f, <2>1 DEF Job
  <2>4. job'[w] = j
    BY <2>1, BecomesThis
  <2> HIDE DEF j
  <2> QED
    BY <2>1, <2>2, <2>3, <2>4 DEF AccountStep, Accounts, InBatch, Failures
<1>5. CASE MoveDone(w)
  <2> DEFINE j == [job[w] EXCEPT !.pc = "publish", !.listed = @ \cup job[w].pending,
                                 !.pending = {}, !.slots = 0]
  <2>1. Become(w, j) /\ log' = log /\ job[w].pc = "background"
    BY <1>5 DEF MoveDone, At, Goto
  <2>3. /\ j.pc = "publish" /\ j.head = job[w].head /\ j.failed = job[w].failed
        /\ j.listed = job[w].listed \cup job[w].pending /\ j.pending = {}
    BY <1>f, <2>1 DEF Job
  <2>4. job'[w] = j
    BY <2>1, BecomesThis
  <2> HIDE DEF j
  <2> QED
    BY <2>1, <2>3, <2>4 DEF AccountStep, Accounts, InBatch, Failures, Added
<1>6. CASE MoveFails(w)
  <2> DEFINE j == [job[w] EXCEPT !.pc = "moveFailed", !.pending = {}, !.slots = 0]
  <2>1. Become(w, j) /\ job[w].pc \in {"actors", "background"}
    BY <1>6 DEF MoveFails, At, Goto
  <2>3. /\ j.pc = "moveFailed" /\ j.head = job[w].head /\ j.failed = job[w].failed
        /\ j.listed = job[w].listed /\ j.pending = {}
    BY <1>f, <2>1 DEF Job
  <2>4. job'[w] = j
    BY <2>1, BecomesThis
  <2> HIDE DEF j
  <2> QED
    BY <2>1, <2>3, <2>4 DEF AccountStep, Accounts, InBatch, Failures, Added
<1>7. CASE Catches(w)
  <2> DEFINE x == AfterFailure[job[w].pc]
             j == [job[w] EXCEPT !.pc = x, !.failed = TRUE, !.head = Len(log), !.left = 0]
  <2>1. Become(w, j) /\ log' = log /\ job[w].pc \in Failures
    BY <1>7, FailureLabels DEF Catches
  <2>2. x \in {"world", "recover", "move", "publish"}
    BY <2>1, FailureLabels
  <2> HIDE DEF x
  <2>3. /\ j.pc = x /\ j.head = Len(log) /\ j.failed = TRUE
        /\ j.listed = job[w].listed /\ j.pending = job[w].pending
    BY <1>f, <2>1 DEF Job
  <2>4. job'[w] = j
    BY <2>1, BecomesThis
  <2> HIDE DEF j
  <2> QED
    BY <2>1, <2>2, <2>3, <2>4 DEF AccountStep, Accounts, InBatch, Failures, Added
<1> QED
  BY <1>1, <1>2, <1>3, <1>4, <1>5, <1>6, <1>7

\* What w knows of the events of the move m it executes.
Knows(w, m) ==
  /\ job[w].pc \notin Failures => \A i \in Own(m) : i <= job[w].head
  /\ job[w].listed \cup job[w].pending \subseteq Own(m)
  /\ ~job[w].failed /\ job[w].pc \notin Failures => job[w].listed \cup job[w].pending = Own(m)
  /\ job[w].pc \notin InBatch => job[w].pending = {}

Blank(w) == job[w].listed = {} /\ job[w].pending = {}

AccountInv ==
  /\ OutcomeAccounts
  /\ \A w \in Worker, m \in Move : Executes(w, m) => Knows(w, m)
  /\ \A w \in Worker : At(w, "begin") => Blank(w)

PlayInv == TurnInv /\ PossibilityOnce /\ AccountInv

LEMMA StageAccounts ==
  ASSUME TurnInv, AccountInv, NEW w \in Worker, Staging(w)
  PROVE  AccountStep(w)
<1>1. TypeOK /\ StageStep(w)
  BY EveryStage DEF TurnInv, AnswerInv, TypeInv
<1>2. At(w, "player") => job[w].listed = {}
  <2>1. PICK n \in Move : n = job[w].move
    BY <1>1, StageLog, AtTyped DEF TurnInv, AnswerInv
  <2>2. Executes(w, n)
    BY <1>1, <2>1 DEF StageStep, Executes
  <2> QED
    BY <2>2 DEF TurnInv, MoveInv, AccountInv, Knows
<1> QED
  BY <1>1, <1>2, PlayerAccounts, NpcAccounts, WorldAccounts, MoveAccounts DEF Staging

LEMMA AccountStage ==
  ASSUME TurnInv, AccountInv, NEW w \in Worker, StageStep(w), AccountStep(w)
  PROVE  AccountInv'
<1> USE DEF TurnInv
<1>s. TypeOK /\ Len(log) \in Nat
  BY ReceiptsTyped DEF AnswerInv, TypeInv
<1>0. PICK n \in Move : n = job[w].move
  BY <1>s, StageLog, AtTyped DEF AnswerInv
<1>1. Executes(w, n) /\ outcome[n] = NoOutcome
  BY <1>0, StageEvents DEF AnswerInv, OwnerInv
<1>2. \A m \in Move \ {n} : Own(m)' = Own(m)
  BY <1>0, StageEvents DEF Own
<1>3. Own(n)' = Own(n) \cup Added
  <2>1. CASE log' = log
    BY <2>1 DEF Own, Of, Added
  <2>2. CASE log' # log
    <3>1. PICK lane \in Lanes :
            /\ log' # log /\ Len(log) = job[w].head /\ Len(log') = Len(log) + 1
            /\ lane = "player" <=> At(w, "player")
            /\ \A lanes : Of(n, lanes)' =
                 IF lane \in lanes THEN Of(n, lanes) \cup {Event} ELSE Of(n, lanes)
      BY <1>0, <2>2, StageEvents
    <3> QED
      BY <2>2, <3>1 DEF Own, Added
  <2> QED
    BY <2>1, <2>2
<1>4. \A v \in Worker \ {w} : job'[v] = job[v] /\ ~Executes(v, n)
  BY <1>1, StageJob DEF AnswerInv, OwnerInv
<1>5. UNCHANGED outcome
  BY DEF StageStep, receipts
<1>6. OutcomeAccounts'
  BY <1>1, <1>2, <1>5 DEF AccountInv, OutcomeAccounts
<1>7. Knows(w, n)
  BY <1>1 DEF AccountInv
<1>8. job'[w].pc # "begin" /\ (job'[w].pc \in Executing => job'[w].move = n /\ Knows(w, n)')
  <2>1. CASE Finish(w)
    BY <1>s, <2>1, Finishes, IdleExecutesNothing
  <2>2. CASE Accounts(w, job'[w]) /\ ~Finish(w)
    <3> DEFINE j == job'[w]
    <3>1. j.pc = "idle" \/ (j.pc \in Executing /\ j.move = n)
      BY <1>0, StageJob
    <3>2. \A i \in Own(n)' : i <= Len(log')
      BY DEF Own, Of
    <3>3. j.pc \notin Failures => \A i \in Own(n)' : i <= j.head
      BY <1>3, <1>7, <2>2, <3>2 DEF Accounts, Knows, Added
    <3>4. j.listed \cup j.pending \subseteq Own(n)'
      BY <1>3, <1>7, <2>2 DEF Accounts, Knows
    <3>5. ~j.failed /\ j.pc \notin Failures => j.listed \cup j.pending = Own(n)'
      BY <1>3, <1>7, <2>2 DEF Accounts, Knows
    <3>6. j.pc \notin InBatch => j.pending = {}
      BY <1>7, <2>2 DEF Accounts, Knows
    <3>7. Knows(w, n)'
      BY <3>3, <3>4, <3>5, <3>6 DEF Knows
    <3> QED
      BY <3>1, <3>7, IdleExecutesNothing, IdleTyped
  <2> QED
    BY <2>1, <2>2 DEF AccountStep
<1>9. ASSUME NEW v \in Worker, NEW m \in Move, Executes(v, m)'
      PROVE  Knows(v, m)'
  <2>1. CASE v = w
    BY <1>8, <1>9, <2>1 DEF Executes
  <2>2. CASE v # w
    <3>1. job'[v] = job[v] /\ Executes(v, m) /\ m # n
      BY <1>4, <1>9, <2>2 DEF Executes
    <3>2. Own(m)' = Own(m) /\ Knows(v, m)
      BY <1>2, <3>1 DEF AccountInv
    <3> QED
      BY <3>1, <3>2 DEF Knows
  <2> QED
    BY <2>1, <2>2
<1>10. \A v \in Worker : At(v, "begin")' => Blank(v)'
  BY <1>4, <1>8 DEF AccountInv, At, Blank
<1> QED
  BY <1>6, <1>9, <1>10 DEF AccountInv

\* Only an opened move begins, and it knows of no events.
LEMMA BlankRest ==
  ASSUME TurnInv, AccountInv, NEW w \in Worker, RestStep(w)
  PROVE  \A v \in Worker : At(v, "begin")' => Blank(v)'
<1>s. TypeOK
  BY DEF TurnInv, AnswerInv, TypeInv
<1>1. CASE Finish(w)
  BY <1>s, <1>1, Finishes DEF AccountInv, At, Blank
<1>2. ASSUME NEW m \in Move, NEW r \in Request, Open(w, m, r)
      PROVE  \A v \in Worker : At(v, "begin")' => Blank(v)'
  <2> DEFINE j == [Idle EXCEPT !.pc = "begin", !.move = m, !.request = r, !.head = Len(log)]
  <2>1. j \in Job /\ j.listed = {} /\ j.pending = {}
    BY IdleTyped, ReceiptsTyped DEF Idle, Job, TurnInv, AnswerInv
  <2>2. Become(w, j)
    BY <1>2 DEF Open
  <2> HIDE DEF j
  <2>3. job'[w] = j /\ \A v \in Worker \ {w} : job'[v] = job[v]
    BY <1>s, <2>1, <2>2, Becomes
  <2> QED
    BY <2>1, <2>3 DEF AccountInv, At, Blank
<1>3. CASE Begin(w)
  <2> DEFINE j == [job[w] EXCEPT !.pc = "player"]
  <2>1. Become(w, j) /\ Keeps(j, job[w])
    BY <1>s, <1>3, JobTyped, Labels, Edits DEF Begin, Goto
  <2>2. job[w] \in Job
    BY <1>s, JobTyped
  <2>3. j.pc = "player"
    BY <2>2 DEF Job
  <2> HIDE DEF j
  <2>4. job'[w] = j /\ \A v \in Worker \ {w} : job'[v] = job[v]
    BY <1>s, <2>1, Becomes DEF Keeps
  <2> QED
    BY <2>3, <2>4 DEF AccountInv, At, Blank
<1>4. CASE UNCHANGED job
  BY <1>4 DEF AccountInv, At, Blank
<1> QED
  BY <1>1, <1>2, <1>3, <1>4
     DEF RestStep, LookupSaved, BeginTaken, BeginFails, Complete, CompleteFails, Crash

LEMMA AccountRest ==
  ASSUME TurnInv, AccountInv, NEW w \in Worker, RestStep(w)
  PROVE  AccountInv'
<1> USE DEF TurnInv
<1>1. \A m \in Move : Own(m)' = Own(m)
  BY Rest DEF Own, Of
<1>2. ASSUME NEW v \in Worker, NEW m \in Move, Executes(v, m)'
      PROVE  Knows(v, m)'
  <2>1. CASE Executes(v, m) /\ job'[v] = job[v]
    <3>1. Knows(v, m)
      BY <2>1 DEF AccountInv
    <3> QED
      BY <1>1, <2>1, <3>1 DEF Knows
  <2>2. CASE v = w /\ Begin(w) /\ intent[m] = NoRequest /\ job'[v] = [job[v] EXCEPT !.pc = "player"]
    <3>1. job[w] \in Job /\ Blank(w)
      BY <2>2, JobTyped DEF AnswerInv, TypeInv, AccountInv, Begin
    <3>2. job'[v].listed = {} /\ job'[v].pending = {}
      BY <2>2, <3>1 DEF Job, Blank
    <3>3. Own(m) = {}
      BY <2>2 DEF MoveInv, MoveHappensOnce
    <3> QED
      BY <1>1, <3>2, <3>3 DEF Knows
  <2> QED
    BY <1>2, <2>1, <2>2, Rest
<1>3. OutcomeAccounts'
  <2>1. CASE UNCHANGED outcome
    BY <1>1, <2>1 DEF AccountInv, OutcomeAccounts
  <2>2. CASE Complete(w) \/ CompleteFails(w)
    <3>1. PICK n \in Move : n = job[w].move
      BY <2>2, AtTyped DEF Complete, CompleteFails, At, AnswerInv
    <3>2. job[w].pc = "publish"
      BY <2>2 DEF Complete, CompleteFails, At
    <3>3. Knows(w, n)
      BY <3>1, <3>2, IdleExecutesNothing DEF AccountInv, Executes
    <3>4. /\ Result(w).head = job[w].head /\ Result(w).listed = job[w].listed
          /\ Result(w).failed = job[w].failed
      BY DEF Result
    <3>5. "publish" \notin Failures /\ "publish" \notin InBatch
      BY DEF Failures, InBatch
    <3>6. /\ \A i \in Own(n) : i <= Result(w).head
          /\ Result(w).listed \subseteq Own(n)
          /\ ~Result(w).failed => Result(w).listed = Own(n)
      BY <3>2, <3>3, <3>4, <3>5 DEF Knows
    <3>7. \/ outcome' = outcome
          \/ outcome' = [outcome EXCEPT ![n] = Result(w)]
      BY <2>2, <3>1 DEF Complete, CompleteFails
    <3>8. \A m \in Move : outcome'[m] = outcome[m] \/ (m = n /\ outcome'[m] = Result(w))
      BY <3>7, ReceiptsTyped DEF AnswerInv
    <3> QED
      BY <1>1, <3>6, <3>8 DEF AccountInv, OutcomeAccounts
  <2> QED
    BY <2>1, <2>2
       DEF RestStep, Open, LookupSaved, Begin, BeginTaken, BeginFails, Crash, receipts
<1> QED
  BY <1>2, <1>3, BlankRest DEF AccountInv

LEMMA AccountingStep ==
  ASSUME TurnInv, AccountInv, [Next]_vars
  PROVE  AccountInv'
<1>1. CASE UNCHANGED vars
  <2>1. AccountInv /\ UNCHANGED <<log, outcome, job>>
    BY <1>1 DEF vars
  <2> QED
    BY <2>1 DEF AccountInv, OutcomeAccounts, Knows, Own, Of, Executes, At, Blank
<1>2. ASSUME NEW w \in Worker, Staging(w)
      PROVE  AccountInv'
  BY <1>2, EveryStage, StageAccounts, AccountStage DEF TurnInv, AnswerInv, TypeInv
<1>3. ASSUME NEW w \in Worker, RestStep(w)
      PROVE  AccountInv'
  BY <1>3, AccountRest
<1>4. [Next]_vars => UNCHANGED vars \/ \E w \in Worker : Staging(w) \/ RestStep(w)
  BY DEF Next, Stages, Staging, Admission, LookupRefuses, RestStep
<1> QED
  BY <1>1, <1>2, <1>3, <1>4

LEMMA InitTurn == Init => PlayInv
<1> SUFFICES ASSUME Init PROVE PlayInv
  OBVIOUS
<1>1. TypeInv
  BY InitTyped
<1>2. \A w \in Worker, m \in Move : ~Executes(w, m)
  BY IdleExecutesNothing DEF Init, Executes
<1>3. 1 .. Len(log) = {} /\ told = {} /\ \A m \in Move : outcome[m] = NoOutcome
  BY DEF Init
<1>4. OwnerInv /\ AnswersAgree
  BY <1>2, <1>3 DEF OwnerInv, AnswersAgree
<1>5. MoveInv /\ PossibilityOnce
  BY <1>2, <1>3 DEF MoveInv, MoveHappensOnce, Own, Of, PossibilityOnce
<1>6. AccountInv
  BY <1>2, <1>3, IdleTyped DEF Init, AccountInv, OutcomeAccounts, Blank, At
<1> QED
  BY <1>1, <1>4, <1>5, <1>6 DEF PlayInv, TurnInv, AnswerInv

LEMMA Inductive == Spec => []PlayInv
<1>1. PlayInv /\ [Next]_vars => PlayInv'
  BY TurnStep, PossibilityStep, AccountingStep DEF PlayInv, TurnInv, AnswerInv
<1> QED
  BY InitTurn, <1>1, PTL DEF Spec

-----------------------------------------------------------------------------
\* The jobs, the history and the receipts of play-move.ts have their types.
THEOREM TypeCorrect == Spec => []TypeOK
<1>1. PlayInv => TypeOK
  BY DEF PlayInv, TurnInv, AnswerInv, TypeInv
<1> QED
  BY Inductive, <1>1, PTL

\* However many workers are given a move and die with it, performPlayTurn
\* commits the player's action of the move at most once.
THEOREM OncePerMove == Spec => []MoveHappensOnce
<1>1. PlayInv => MoveHappensOnce
  BY DEF PlayInv, TurnInv, MoveInv
<1> QED
  BY Inductive, <1>1, PTL

\* No possibility of the frontier is realized twice, whichever stages of
\* whichever turns choose it.
THEOREM OncePerPossibility == Spec => []PossibilityOnce
<1>1. PlayInv => PossibilityOnce
  BY DEF PlayInv
<1> QED
  BY Inductive, <1>1, PTL

\* All answers to a move are the outcome on disk, for the admitted request.
THEOREM OneAnswer == Spec => []AnswersAgree
<1>1. PlayInv => AnswersAgree
  BY DEF PlayInv, TurnInv, AnswerInv
<1> QED
  BY Inductive, <1>1, PTL

\* The outcome saved for a move lists only events of that move and none is later
\* than its head; unless a stage reported an error, it lists them all.
THEOREM ReceiptsAccount == Spec => []OutcomeAccounts
<1>1. PlayInv => OutcomeAccounts
  BY DEF PlayInv, AccountInv
<1> QED
  BY Inductive, <1>1, PTL

-----------------------------------------------------------------------------
(* The budget of a turn                                                    *)

Budgeted(m) ==
  /\ Many(m, "recovery") <= 1 /\ Many(m, "world") <= 1
  /\ Many(m, "background") <= Excess(Granted(m), Many(m, "recovery"))
  /\ Many(m, "actor") + Many(m, "npc") <= Larger(MaxActors, MaxDirect)

BeforeWorld == {"player", "render", "npc", "npcs", "npcFailed", "world"}
BeforeRecovery == BeforeWorld \cup {"worldFailed", "recover"}

\* What the worker that executes m has spent, and has left to spend.
Spent(w, m) ==
  LET acts == Many(m, "actor") + Many(m, "npc") IN
  /\ job[w].pc \in BeforeWorld => Many(m, "world") = 0
  /\ job[w].pc \in BeforeRecovery \cup {"recoverFailed"} => Many(m, "background") = 0
  /\ job[w].pc \in BeforeRecovery => Many(m, "recovery") = 0
  /\ job[w].pc \in BeforeRecovery \ {"player"} => job[w].slots = Granted(m)
  /\ job[w].pc = "recoverFailed" => job[w].slots = 0
  /\ job[w].pc \in {"move", "actors", "background"} =>
       Many(m, "background") + job[w].slots <= Excess(Granted(m), Many(m, "recovery"))
  /\ job[w].pc \in {"player", "render", "npc"} => acts = 0
  /\ job[w].pc = "npcs" => acts + job[w].left <= job[w].direct
  /\ job[w].pc \in {"npcFailed", "world", "worldFailed", "recover", "recoverFailed", "move"} =>
       acts <= job[w].direct
  /\ job[w].pc = "actors" => acts + job[w].left <= Larger(MaxActors, MaxDirect)

BudgetInv ==
  /\ \A m \in Move : Budgeted(m)
  /\ \A w \in Worker, m \in Move : Executes(w, m) => Spent(w, m)

\* The counts of a typed history.
LEMMA Counts ==
  ASSUME TypeOK, NEW m
  PROVE  /\ \A lanes : Of(m, lanes) \subseteq 1 .. Len(log) /\ IsFiniteSet(Of(m, lanes))
         /\ \A lane : Many(m, lane) \in Nat
         /\ Granted(m) \in Nat
<1>1. Len(log) \in Nat /\ log \in Seq(Entry)
  BY DEF TypeOK, Entry
<1>2. \A lanes : Of(m, lanes) \subseteq 1 .. Len(log)
  BY DEF Of
<1>3. \A lanes : IsFiniteSet(Of(m, lanes))
  <2>1. IsFiniteSet(1 .. Len(log))
    BY <1>1, FS_Interval
  <2> QED
    BY <1>2, <2>1, FS_Subset
<1>4. \A lane : Many(m, lane) \in Nat
  BY <1>3, FS_CardinalityType DEF Many
<1>5. Granted(m) \in Nat
  <2>1. CASE Of(m, {"player"}) = {}
    BY <2>1 DEF Granted
  <2>2. CASE Of(m, {"player"}) # {}
    <3> DEFINE i == CHOOSE k \in Of(m, {"player"}) : TRUE
    <3>1. i \in 1 .. Len(log)
      BY <1>2, <2>2
    <3>2. Granted(m) = log[i].slots
      BY <2>2 DEF Granted
    <3> HIDE DEF i
    <3>3. log[i] \in Entry
      BY <1>1, <3>1
    <3> QED
      BY <3>2, <3>3 DEF Entry
  <2> QED
    BY <2>1, <2>2
<1> QED
  BY <1>2, <1>3, <1>4, <1>5

\* An append of w counts once, for its own move and lane.
LEMMA Counted ==
  ASSUME TypeOK, NEW w \in Worker, ~At(w, "idle"), NEW lane \in Lanes,
         NEW p \in Possibility \cup {NoPossibility}, NEW slots \in Nat, Extend(w, lane, p, slots),
         NEW n \in Move, n = job[w].move
  PROVE  /\ Many(n, lane)' = Many(n, lane) + 1
         /\ \A l \in Lanes \ {lane} : Many(n, l)' = Many(n, l)
         /\ \A m \in Move \ {n} : Granted(m)' = Granted(m) /\ \A l : Many(m, l)' = Many(m, l)
         /\ lane # "player" => Granted(n)' = Granted(n)
         /\ lane = "player" /\ Of(n, {"player"}) = {} => Granted(n)' = slots
<1> DEFINE k == Len(log) + 1
           e == [lane |-> lane, move |-> n, poss |-> p, slots |-> slots]
<1>1. /\ log' \in Seq(Entry) /\ Len(log') = k /\ Len(log) \in Nat
      /\ \A i \in 1 .. Len(log) : log'[i] = log[i]
      /\ log'[k] = e
  BY Appended, JobTyped
<1>2. \A i : i \in 1 .. Len(log') <=> i \in 1 .. Len(log) \/ i = k
  BY <1>1
<1>3. e.lane = lane /\ e.move = n /\ e.slots = slots
  OBVIOUS
<1> HIDE DEF e
<1>4. ASSUME NEW m, NEW lanes
      PROVE  Of(m, lanes)' = IF m = n /\ lane \in lanes THEN Of(m, lanes) \cup {k} ELSE Of(m, lanes)
  BY <1>1, <1>2, <1>3 DEF Of
<1>5. ASSUME NEW m, NEW lanes
      PROVE  k \notin Of(m, lanes) /\ IsFiniteSet(Of(m, lanes))
  <2>1. Of(m, lanes) \subseteq 1 .. Len(log) /\ IsFiniteSet(Of(m, lanes))
    BY Counts
  <2> QED
    BY <1>1, <2>1
<1>6. Many(n, lane)' = Many(n, lane) + 1
  <2>1. Of(n, {lane})' = Of(n, {lane}) \cup {k}
    BY <1>4
  <2> QED
    BY <1>5, <2>1, FS_AddElement DEF Many
<1>7. \A m, l : m # n \/ l # lane => Many(m, l)' = Many(m, l)
  BY <1>4 DEF Many
<1>8. ASSUME NEW m, m # n \/ lane # "player"
      PROVE  Granted(m)' = Granted(m)
  <2>1. Of(m, {"player"})' = Of(m, {"player"})
    BY <1>4, <1>8
  <2>2. CASE Of(m, {"player"}) = {}
    BY <2>1, <2>2 DEF Granted
  <2>3. CASE Of(m, {"player"}) # {}
    <3>1. (CHOOSE i \in Of(m, {"player"}) : TRUE)' = (CHOOSE i \in Of(m, {"player"}) : TRUE)
      BY <2>1
    <3>2. (CHOOSE i \in Of(m, {"player"}) : TRUE) \in 1 .. Len(log)
      BY <2>3, Counts
    <3>3. Granted(m) = log[CHOOSE i \in Of(m, {"player"}) : TRUE].slots
      BY <2>3 DEF Granted
    <3>4. Granted(m)' = log'[(CHOOSE i \in Of(m, {"player"}) : TRUE)'].slots
      BY <2>1, <2>3 DEF Granted
    <3> QED
      BY <1>1, <3>1, <3>2, <3>3, <3>4
  <2> QED
    BY <2>2, <2>3
<1>9. ASSUME lane = "player", Of(n, {"player"}) = {}
      PROVE  Granted(n)' = slots
  <2>1. Of(n, {"player"})' = {k}
    BY <1>4, <1>9
  <2>2. (CHOOSE i \in Of(n, {"player"}) : TRUE)' = k
    BY <2>1
  <2>3. Granted(n)' = log'[(CHOOSE i \in Of(n, {"player"}) : TRUE)'].slots
    BY <2>1 DEF Granted
  <2> QED
    BY <1>1, <1>3, <2>2, <2>3
<1> QED
  BY <1>6, <1>7, <1>8, <1>9

LEMMA Uncounted ==
  ASSUME log' = log, NEW m
  PROVE  Granted(m)' = Granted(m) /\ \A l : Many(m, l)' = Many(m, l)
BY DEF Granted, Many, Of

LEMMA LandCounted ==
  ASSUME TypeOK, NEW w \in Worker, ~At(w, "idle"), NEW lane \in Lanes \ {"player"}, NEW ps,
         ps \subseteq Possibility \cup {NoPossibility}, MayLand(w, lane, ps), NEW n \in Move, n = job[w].move
  PROVE  /\ Many(n, lane)' = Many(n, lane) \/ (ps # {} /\ Many(n, lane)' = Many(n, lane) + 1)
         /\ \A l \in Lanes \ {lane} : Many(n, l)' = Many(n, l)
         /\ Granted(n)' = Granted(n)
<1>1. CASE log' = log
  BY <1>1, Uncounted
<1>2. ASSUME NEW p \in ps, Extend(w, lane, p, 0)
      PROVE  /\ Many(n, lane)' = Many(n, lane) + 1
             /\ \A l \in Lanes \ {lane} : Many(n, l)' = Many(n, l)
             /\ Granted(n)' = Granted(n)
  BY <1>2, Counted
<1> QED
  BY <1>1, <1>2 DEF MayLand

\* A stage keeps the budget of its move n.
Thrifty(w, n) == Budgeted(n)' /\ (job'[w].pc \in Executing => Spent(w, n)')

\* The numbers that the proofs below calculate with.
Numbers(w, n) ==
  /\ Many(n, "recovery") \in Nat /\ Many(n, "world") \in Nat /\ Many(n, "background") \in Nat
  /\ Many(n, "actor") \in Nat /\ Many(n, "npc") \in Nat /\ Granted(n) \in Nat
  /\ job[w].left \in Nat /\ job[w].slots \in Nat /\ job[w].direct \in Nat /\ job[w].direct <= MaxDirect
  /\ MaxActors \in Nat /\ MaxDirect \in Nat

LEMMA AllNumbers ==
  ASSUME TypeOK, NEW w \in Worker, NEW n
  PROVE  Numbers(w, n)
<1>1. /\ \A lane : Many(n, lane) \in Nat
      /\ Granted(n) \in Nat
  BY Counts
<1>2. job[w].left \in Nat /\ job[w].slots \in 0..MaxSlots /\ job[w].direct \in 0..MaxDirect
  BY JobTyped
<1> QED
  BY <1>1, <1>2, BoundAssumption DEF Numbers

LEMMA PlayerThrift ==
  ASSUME TypeOK, NEW w \in Worker, NEW n \in Move, n = job[w].move, Budgeted(n), Spent(w, n),
         At(w, "player") => Of(n, {"player"}) = {},
         PlayerCommits(w) \/ PlayerLost(w) \/ PlayerRejected(w) \/ Render(w) \/ Throws(w)
  PROVE  Thrifty(w, n)
<1>f. job[w] \in Job /\ Numbers(w, n)
  BY JobTyped, AllNumbers
<1>s. ASSUME At(w, "player"), NEW p \in Eligible(w) \cup {NoPossibility}, NEW slots \in 0 .. MaxSlots,
             Extend(w, "player", p, slots)
      PROVE  /\ Granted(n)' = slots /\ slots \in Nat
             /\ \A l \in Lanes \ {"player"} : Many(n, l)' = Many(n, l)
  <2>1. p \in Possibility \cup {NoPossibility} /\ slots \in Nat
    BY <1>s, BoundAssumption DEF Eligible
  <2>2. ~At(w, "idle") /\ "player" \in Lanes
    BY <1>s DEF At, Lanes
  <2> QED
    BY <1>s, <2>1, <2>2, Counted
<1>t. Lanes \ {"player"} = {"npc", "world", "recovery", "actor", "background"}
  BY DEF Lanes
<1>1. CASE PlayerCommits(w)
  <2>p. PICK p \in Eligible(w) \cup {NoPossibility}, slots \in 0..MaxSlots, direct \in 0..MaxDirect :
          /\ Extend(w, "player", p, slots)
          /\ Become(w, [job[w] EXCEPT !.pc = "render", !.head = Event, !.listed = {Event},
                                      !.slots = slots, !.direct = direct])
    BY <1>1 DEF PlayerCommits
  <2> DEFINE j == [job[w] EXCEPT !.pc = "render", !.head = Event, !.listed = {Event},
                                 !.slots = slots, !.direct = direct]
  <2>1. /\ Granted(n)' = slots /\ slots \in Nat /\ job[w].pc = "player"
        /\ \A l \in Lanes \ {"player"} : Many(n, l)' = Many(n, l)
    BY <1>1, <1>s, <2>p DEF PlayerCommits, At
  <2>2. j.pc = "render" /\ j.slots = slots
    BY <1>f DEF Job
  <2>3. job'[w] = j
    BY <2>p, BecomesThis
  <2> HIDE DEF j
  <2> QED
    BY <1>f, <1>t, <2>1, <2>2, <2>3
       DEF Thrifty, Budgeted, Spent, Numbers, Excess, Larger, BeforeWorld, BeforeRecovery
<1>2. CASE PlayerLost(w)
  <2>1. PICK p \in Eligible(w) \cup {NoPossibility}, slots \in 0..MaxSlots : Extend(w, "player", p, slots)
    BY <1>2 DEF PlayerLost
  <2>2. /\ Granted(n)' = slots /\ slots \in Nat /\ job[w].pc = "player"
        /\ \A l \in Lanes \ {"player"} : Many(n, l)' = Many(n, l)
    BY <1>2, <1>s, <2>1 DEF PlayerLost, At
  <2>3. job'[w].pc \notin Executing
    BY <1>2, Finishes, IdleExecutesNothing DEF PlayerLost
  <2> QED
    BY <1>f, <1>t, <2>2, <2>3
       DEF Thrifty, Budgeted, Spent, Numbers, Excess, Larger, BeforeWorld, BeforeRecovery
<1>3. CASE Throws(w)
  <2>1. job'[w].pc \notin Executing /\ log' = log
    BY <1>3, Finishes, IdleExecutesNothing DEF Throws
  <2> QED
    BY <2>1, Uncounted DEF Thrifty, Budgeted
<1>4. CASE PlayerRejected(w)
  <2> DEFINE j == [job[w] EXCEPT !.pc = "publish", !.head = Len(log)]
  <2>1. Become(w, j) /\ log' = log
    BY <1>4 DEF PlayerRejected
  <2>2. j.pc = "publish"
    BY <1>f DEF Job
  <2>3. job'[w] = j
    BY <2>1, BecomesThis
  <2> HIDE DEF j
  <2> QED
    BY <2>1, <2>2, <2>3, Uncounted DEF Thrifty, Budgeted, Spent, BeforeWorld, BeforeRecovery
<1>5. CASE Render(w)
  <2> DEFINE j == [job[w] EXCEPT !.pc = "npc"]
  <2>1. Become(w, j) /\ log' = log /\ job[w].pc = "render"
    BY <1>5 DEF Render, Goto, At
  <2>2. j.pc = "npc" /\ j.slots = job[w].slots
    BY <1>f DEF Job
  <2>3. job'[w] = j
    BY <2>1, BecomesThis
  <2> HIDE DEF j
  <2> QED
    BY <2>1, <2>2, <2>3, Uncounted DEF Thrifty, Budgeted, Spent, BeforeWorld, BeforeRecovery
<1> QED
  BY <1>1, <1>2, <1>3, <1>4, <1>5

LEMMA NpcThrift ==
  ASSUME TypeOK, NEW w \in Worker, NEW n \in Move, n = job[w].move, Budgeted(n), Spent(w, n),
         NpcStarts(w) \/ NpcCommits(w) \/ NpcIsSilent(w) \/ NpcFails(w) \/ NpcsDone(w) \/ NpcsThrow(w)
  PROVE  Thrifty(w, n)
<1>f. job[w] \in Job /\ Numbers(w, n)
  BY JobTyped, AllNumbers
<1>t. Lanes = {"player", "npc", "world", "recovery", "actor", "background"}
  BY DEF Lanes
<1>1. CASE NpcStarts(w)
  <2> DEFINE j == IF job[w].direct = 0 THEN [job[w] EXCEPT !.pc = "world"]
                  ELSE [job[w] EXCEPT !.pc = "npcs", !.head = Len(log), !.left = job[w].direct]
  <2>1. Become(w, j) /\ log' = log /\ job[w].pc = "npc"
    BY <1>1 DEF NpcStarts, At, Goto
  <2>2. /\ j.slots = job[w].slots /\ j.direct = job[w].direct
        /\ j.pc = "world" \/ (j.pc = "npcs" /\ j.left = job[w].direct)
    BY <1>f, <2>1 DEF Job, Numbers
  <2>3. job'[w] = j
    BY <2>1, BecomesThis
  <2> HIDE DEF j
  <2>4. Granted(n)' = Granted(n) /\ \A l : Many(n, l)' = Many(n, l)
    BY <2>1, Uncounted
  <2> QED
    BY <1>f, <2>1, <2>2, <2>3, <2>4
       DEF Thrifty, Budgeted, Spent, Numbers, Excess, Larger, BeforeWorld, BeforeRecovery
<1>2. CASE NpcCommits(w)
  <2>p. Extend(w, "npc", NoPossibility, 0)
    BY <1>2 DEF NpcCommits
  <2> DEFINE j == [job[w] EXCEPT !.head = Event, !.left = @ - 1, !.pending = @ \cup {Event}]
  <2>1. Become(w, j) /\ job[w].pc = "npcs" /\ ~At(w, "idle")
    BY <1>2 DEF NpcCommits, At
  <2>2. /\ j.pc = "npcs" /\ j.slots = job[w].slots /\ j.direct = job[w].direct
        /\ j.left = job[w].left - 1 /\ job[w].left > 0
    BY <1>f, <1>2, <2>1 DEF Job, Numbers, NpcCommits
  <2>3. job'[w] = j
    BY <2>1, BecomesThis
  <2> HIDE DEF j
  <2>5. /\ Many(n, "npc")' = Many(n, "npc") + 1 /\ Granted(n)' = Granted(n)
        /\ \A l \in Lanes \ {"npc"} : Many(n, l)' = Many(n, l)
    BY <1>t, <2>p, <2>1, Counted
  <2> QED
    BY <1>f, <1>t, <2>1, <2>2, <2>3, <2>5
       DEF Thrifty, Budgeted, Spent, Numbers, Excess, Larger, BeforeWorld, BeforeRecovery
<1>3. CASE NpcIsSilent(w)
  <2> DEFINE j == [job[w] EXCEPT !.left = @ - 1]
  <2>1. Become(w, j) /\ log' = log /\ job[w].pc = "npcs"
    BY <1>3 DEF NpcIsSilent, At, Goto
  <2>2. /\ j.pc = "npcs" /\ j.slots = job[w].slots /\ j.direct = job[w].direct
        /\ j.left = job[w].left - 1
    BY <1>f, <2>1 DEF Job, Numbers
  <2>3. job'[w] = j
    BY <2>1, BecomesThis
  <2> HIDE DEF j
  <2>4. Granted(n)' = Granted(n) /\ \A l : Many(n, l)' = Many(n, l)
    BY <2>1, Uncounted
  <2> QED
    BY <1>f, <2>1, <2>2, <2>3, <2>4
       DEF Thrifty, Budgeted, Spent, Numbers, Excess, Larger, BeforeWorld, BeforeRecovery
<1>4. CASE NpcFails(w)
  <2> DEFINE j == [job[w] EXCEPT !.head = Len(log'), !.left = @ - 1, !.failed = TRUE]
  <2>1. /\ Become(w, j) /\ job[w].pc = "npcs" /\ ~At(w, "idle")
        /\ MayLand(w, "npc", {NoPossibility})
    BY <1>4 DEF NpcFails, At, Goto
  <2>2. /\ j.pc = "npcs" /\ j.slots = job[w].slots /\ j.direct = job[w].direct
        /\ j.left = job[w].left - 1 /\ job[w].left > 0
    BY <1>f, <1>4, <2>1 DEF Job, Numbers, NpcFails
  <2>3. job'[w] = j
    BY <2>1, BecomesThis
  <2> HIDE DEF j
  <2>4. {NoPossibility} \subseteq Possibility \cup {NoPossibility}
    BY DEF Eligible
  <2>5. /\ Many(n, "npc")' \in {Many(n, "npc"), Many(n, "npc") + 1} /\ Granted(n)' = Granted(n)
        /\ \A l \in Lanes \ {"npc"} : Many(n, l)' = Many(n, l)
    BY <1>t, <2>1, <2>4, LandCounted
  <2> QED
    BY <1>f, <1>t, <2>1, <2>2, <2>3, <2>5
       DEF Thrifty, Budgeted, Spent, Numbers, Excess, Larger, BeforeWorld, BeforeRecovery
<1>5. CASE NpcsDone(w)
  <2> DEFINE j == [job[w] EXCEPT !.pc = "world", !.listed = @ \cup job[w].pending, !.pending = {}]
  <2>1. Become(w, j) /\ log' = log /\ job[w].pc = "npcs"
    BY <1>5 DEF NpcsDone, At, Goto
  <2>2. j.pc = "world" /\ j.slots = job[w].slots /\ j.direct = job[w].direct
    BY <1>f, <2>1 DEF Job, Numbers
  <2>3. job'[w] = j
    BY <2>1, BecomesThis
  <2> HIDE DEF j
  <2>4. Granted(n)' = Granted(n) /\ \A l : Many(n, l)' = Many(n, l)
    BY <2>1, Uncounted
  <2> QED
    BY <1>f, <2>1, <2>2, <2>3, <2>4
       DEF Thrifty, Budgeted, Spent, Numbers, Excess, Larger, BeforeWorld, BeforeRecovery
<1>6. CASE NpcsThrow(w)
  <2> DEFINE j == [job[w] EXCEPT !.pc = "npcFailed", !.pending = {}]
  <2>1. Become(w, j) /\ log' = log /\ job[w].pc = "npcs"
    BY <1>6 DEF NpcsThrow, At, Goto
  <2>2. j.pc = "npcFailed" /\ j.slots = job[w].slots /\ j.direct = job[w].direct
    BY <1>f, <2>1 DEF Job, Numbers
  <2>3. job'[w] = j
    BY <2>1, BecomesThis
  <2> HIDE DEF j
  <2>4. Granted(n)' = Granted(n) /\ \A l : Many(n, l)' = Many(n, l)
    BY <2>1, Uncounted
  <2> QED
    BY <1>f, <2>1, <2>2, <2>3, <2>4
       DEF Thrifty, Budgeted, Spent, Numbers, Excess, Larger, BeforeWorld, BeforeRecovery
<1> QED
  BY <1>1, <1>2, <1>3, <1>4, <1>5, <1>6

LEMMA WorldThrift ==
  ASSUME TypeOK, NEW w \in Worker, NEW n \in Move, n = job[w].move, Budgeted(n), Spent(w, n),
         WorldResponds(w) \/ WorldIsSilent(w) \/ WorldFails(w)
           \/ Recovers(w) \/ RecoversNothing(w) \/ RecoveryFails(w)
  PROVE  Thrifty(w, n)
<1>f. job[w] \in Job /\ Numbers(w, n)
  BY JobTyped, AllNumbers
<1>t. Lanes = {"player", "npc", "world", "recovery", "actor", "background"}
  BY DEF Lanes
<1>1. CASE WorldResponds(w)
  <2>p. PICK p \in Eligible(w) : Extend(w, "world", p, 0)
    BY <1>1 DEF WorldResponds
  <2> DEFINE j == [job[w] EXCEPT !.pc = "recover", !.head = Event, !.listed = @ \cup {Event}]
  <2>1. Become(w, j) /\ job[w].pc = "world" /\ ~At(w, "idle")
    BY <1>1 DEF WorldResponds, At
  <2>2. j.pc = "recover" /\ j.slots = job[w].slots /\ j.direct = job[w].direct
    BY <1>f, <1>1, <2>1 DEF Job, Numbers, WorldResponds
  <2>3. job'[w] = j
    BY <2>1, BecomesThis
  <2> HIDE DEF j
  <2>4. p \in Possibility \cup {NoPossibility}
    BY DEF Eligible
  <2>5. /\ Many(n, "world")' = Many(n, "world") + 1 /\ Granted(n)' = Granted(n)
        /\ \A l \in Lanes \ {"world"} : Many(n, l)' = Many(n, l)
    BY <1>t, <2>p, <2>1, <2>4, Counted
  <2> QED
    BY <1>f, <1>t, <2>1, <2>2, <2>3, <2>5
       DEF Thrifty, Budgeted, Spent, Numbers, Excess, Larger, BeforeWorld, BeforeRecovery
<1>2. CASE WorldIsSilent(w)
  <2> DEFINE j == [job[w] EXCEPT !.pc = "recover"]
  <2>1. Become(w, j) /\ log' = log /\ job[w].pc = "world"
    BY <1>2 DEF WorldIsSilent, At, Goto
  <2>2. j.pc = "recover" /\ j.slots = job[w].slots /\ j.direct = job[w].direct
    BY <1>f, <2>1 DEF Job, Numbers
  <2>3. job'[w] = j
    BY <2>1, BecomesThis
  <2> HIDE DEF j
  <2>4. Granted(n)' = Granted(n) /\ \A l : Many(n, l)' = Many(n, l)
    BY <2>1, Uncounted
  <2> QED
    BY <1>f, <2>1, <2>2, <2>3, <2>4
       DEF Thrifty, Budgeted, Spent, Numbers, Excess, Larger, BeforeWorld, BeforeRecovery
<1>3. CASE WorldFails(w)
  <2> DEFINE j == [job[w] EXCEPT !.pc = "worldFailed"]
  <2>1. /\ Become(w, j) /\ job[w].pc = "world" /\ ~At(w, "idle")
        /\ MayLand(w, "world", Eligible(w))
    BY <1>3 DEF WorldFails, At, Goto
  <2>2. j.pc = "worldFailed" /\ j.slots = job[w].slots /\ j.direct = job[w].direct
    BY <1>f, <1>3, <2>1 DEF Job, Numbers, WorldFails
  <2>3. job'[w] = j
    BY <2>1, BecomesThis
  <2> HIDE DEF j
  <2>4. Eligible(w) \subseteq Possibility \cup {NoPossibility}
    BY DEF Eligible
  <2>5. /\ Many(n, "world")' \in {Many(n, "world"), Many(n, "world") + 1} /\ Granted(n)' = Granted(n)
        /\ \A l \in Lanes \ {"world"} : Many(n, l)' = Many(n, l)
    BY <1>t, <2>1, <2>4, LandCounted
  <2> QED
    BY <1>f, <1>t, <2>1, <2>2, <2>3, <2>5
       DEF Thrifty, Budgeted, Spent, Numbers, Excess, Larger, BeforeWorld, BeforeRecovery
<1>4. CASE Recovers(w)
  <2>p. PICK p \in Eligible(w) : Extend(w, "recovery", p, 0)
    BY <1>4 DEF Recovers
  <2> DEFINE j == [job[w] EXCEPT !.pc = "move", !.head = Event, !.listed = @ \cup {Event},
                                 !.slots = Excess(@, 1)]
  <2>1. Become(w, j) /\ job[w].pc = "recover" /\ ~At(w, "idle")
    BY <1>4 DEF Recovers, At
  <2>2. j.pc = "move" /\ j.slots = Excess(job[w].slots, 1) /\ j.direct = job[w].direct
    BY <1>f, <1>4, <2>1 DEF Job, Numbers, Recovers
  <2>3. job'[w] = j
    BY <2>1, BecomesThis
  <2> HIDE DEF j
  <2>4. p \in Possibility \cup {NoPossibility}
    BY DEF Eligible
  <2>5. /\ Many(n, "recovery")' = Many(n, "recovery") + 1 /\ Granted(n)' = Granted(n)
        /\ \A l \in Lanes \ {"recovery"} : Many(n, l)' = Many(n, l)
    BY <1>t, <2>p, <2>1, <2>4, Counted
  <2> QED
    BY <1>f, <1>t, <2>1, <2>2, <2>3, <2>5
       DEF Thrifty, Budgeted, Spent, Numbers, Excess, Larger, BeforeWorld, BeforeRecovery
<1>5. CASE RecoversNothing(w)
  <2> DEFINE j == [job[w] EXCEPT !.pc = "move"]
  <2>1. Become(w, j) /\ log' = log /\ job[w].pc = "recover"
    BY <1>5 DEF RecoversNothing, At, Goto
  <2>2. j.pc = "move" /\ j.slots = job[w].slots /\ j.direct = job[w].direct
    BY <1>f, <2>1 DEF Job, Numbers
  <2>3. job'[w] = j
    BY <2>1, BecomesThis
  <2> HIDE DEF j
  <2>4. Granted(n)' = Granted(n) /\ \A l : Many(n, l)' = Many(n, l)
    BY <2>1, Uncounted
  <2> QED
    BY <1>f, <2>1, <2>2, <2>3, <2>4
       DEF Thrifty, Budgeted, Spent, Numbers, Excess, Larger, BeforeWorld, BeforeRecovery
<1>6. CASE RecoveryFails(w)
  <2> DEFINE j == [job[w] EXCEPT !.pc = "recoverFailed", !.slots = 0]
  <2>1. /\ Become(w, j) /\ job[w].pc = "recover" /\ ~At(w, "idle")
        /\ MayLand(w, "recovery", Eligible(w))
    BY <1>6 DEF RecoveryFails, At, Goto
  <2>2. j.pc = "recoverFailed" /\ j.slots = 0 /\ j.direct = job[w].direct
    BY <1>f, <1>6, <2>1 DEF Job, Numbers, RecoveryFails
  <2>3. job'[w] = j
    BY <2>1, BecomesThis
  <2> HIDE DEF j
  <2>4. Eligible(w) \subseteq Possibility \cup {NoPossibility}
    BY DEF Eligible
  <2>5. /\ Many(n, "recovery")' \in {Many(n, "recovery"), Many(n, "recovery") + 1} /\ Granted(n)' = Granted(n)
        /\ \A l \in Lanes \ {"recovery"} : Many(n, l)' = Many(n, l)
    BY <1>t, <2>1, <2>4, LandCounted
  <2> QED
    BY <1>f, <1>t, <2>1, <2>2, <2>3, <2>5
       DEF Thrifty, Budgeted, Spent, Numbers, Excess, Larger, BeforeWorld, BeforeRecovery
<1> QED
  BY <1>1, <1>2, <1>3, <1>4, <1>5, <1>6

LEMMA MoveThrift ==
  ASSUME TypeOK, NEW w \in Worker, NEW n \in Move, n = job[w].move, Budgeted(n), Spent(w, n),
         MoveStarts(w) \/ ActorCommits(w) \/ ActorsDone(w) \/ BackgroundCommits(w)
           \/ MoveDone(w) \/ MoveFails(w) \/ Catches(w)
  PROVE  Thrifty(w, n)
<1>f. job[w] \in Job /\ Numbers(w, n)
  BY JobTyped, AllNumbers
<1>t. Lanes = {"player", "npc", "world", "recovery", "actor", "background"}
  BY DEF Lanes
<1>1. CASE MoveStarts(w)
  <2> DEFINE j == [job[w] EXCEPT !.pc = "actors", !.head = Len(log),
                                 !.left = Excess(MaxActors, job[w].direct), !.direct = 0]
  <2>1. Become(w, j) /\ log' = log /\ job[w].pc = "move"
    BY <1>1 DEF MoveStarts, At, Goto
  <2>2. j.pc = "actors" /\ j.slots = job[w].slots /\ j.left = Excess(MaxActors, job[w].direct)
    BY <1>f, <2>1 DEF Job, Numbers
  <2>3. job'[w] = j
    BY <2>1, BecomesThis
  <2> HIDE DEF j
  <2>4. Granted(n)' = Granted(n) /\ \A l : Many(n, l)' = Many(n, l)
    BY <2>1, Uncounted
  <2> QED
    BY <1>f, <2>1, <2>2, <2>3, <2>4
       DEF Thrifty, Budgeted, Spent, Numbers, Excess, Larger, BeforeWorld, BeforeRecovery
<1>2. CASE ActorCommits(w)
  <2>p. Extend(w, "actor", NoPossibility, 0)
    BY <1>2 DEF ActorCommits
  <2> DEFINE j == [job[w] EXCEPT !.head = Event, !.left = @ - 1, !.pending = @ \cup {Event}]
  <2>1. Become(w, j) /\ job[w].pc = "actors" /\ ~At(w, "idle")
    BY <1>2 DEF ActorCommits, At
  <2>2. /\ j.pc = "actors" /\ j.slots = job[w].slots
        /\ j.left = job[w].left - 1 /\ job[w].left > 0
    BY <1>f, <1>2, <2>1 DEF Job, Numbers, ActorCommits
  <2>3. job'[w] = j
    BY <2>1, BecomesThis
  <2> HIDE DEF j
  <2>5. /\ Many(n, "actor")' = Many(n, "actor") + 1 /\ Granted(n)' = Granted(n)
        /\ \A l \in Lanes \ {"actor"} : Many(n, l)' = Many(n, l)
    BY <1>t, <2>p, <2>1, Counted
  <2> QED
    BY <1>f, <1>t, <2>1, <2>2, <2>3, <2>5
       DEF Thrifty, Budgeted, Spent, Numbers, Excess, Larger, BeforeWorld, BeforeRecovery
<1>3. CASE ActorsDone(w)
  <2> DEFINE j == [job[w] EXCEPT !.pc = "background", !.left = 0]
  <2>1. Become(w, j) /\ log' = log /\ job[w].pc = "actors"
    BY <1>3 DEF ActorsDone, At, Goto
  <2>2. j.pc = "background" /\ j.slots = job[w].slots
    BY <1>f, <2>1 DEF Job, Numbers
  <2>3. job'[w] = j
    BY <2>1, BecomesThis
  <2> HIDE DEF j
  <2>4. Granted(n)' = Granted(n) /\ \A l : Many(n, l)' = Many(n, l)
    BY <2>1, Uncounted
  <2> QED
    BY <1>f, <2>1, <2>2, <2>3, <2>4
       DEF Thrifty, Budgeted, Spent, Numbers, Excess, Larger, BeforeWorld, BeforeRecovery
<1>4. CASE BackgroundCommits(w)
  <2>p. PICK p \in Eligible(w) : Extend(w, "background", p, 0)
    BY <1>4 DEF BackgroundCommits
  <2> DEFINE j == [job[w] EXCEPT !.head = Event, !.slots = @ - 1, !.pending = @ \cup {Event}]
  <2>1. Become(w, j) /\ job[w].pc = "background" /\ ~At(w, "idle")
    BY <1>4 DEF BackgroundCommits, At
  <2>2. j.pc = "background" /\ j.slots = job[w].slots - 1 /\ job[w].slots > 0
    BY <1>f, <1>4, <2>1 DEF Job, Numbers, BackgroundCommits
  <2>3. job'[w] = j
    BY <2>1, BecomesThis
  <2> HIDE DEF j
  <2>4. p \in Possibility \cup {NoPossibility}
    BY DEF Eligible
  <2>5. /\ Many(n, "background")' = Many(n, "background") + 1 /\ Granted(n)' = Granted(n)
        /\ \A l \in Lanes \ {"background"} : Many(n, l)' = Many(n, l)
    BY <1>t, <2>p, <2>1, <2>4, Counted
  <2> QED
    BY <1>f, <1>t, <2>1, <2>2, <2>3, <2>5
       DEF Thrifty, Budgeted, Spent, Numbers, Excess, Larger, BeforeWorld, BeforeRecovery
<1>5. CASE MoveDone(w)
  <2> DEFINE j == [job[w] EXCEPT !.pc = "publish", !.listed = @ \cup job[w].pending,
                                 !.pending = {}, !.slots = 0]
  <2>1. Become(w, j) /\ log' = log /\ job[w].pc = "background"
    BY <1>5 DEF MoveDone, At, Goto
  <2>2. j.pc = "publish"
    BY <1>f, <2>1 DEF Job, Numbers
  <2>3. job'[w] = j
    BY <2>1, BecomesThis
  <2> HIDE DEF j
  <2>4. Granted(n)' = Granted(n) /\ \A l : Many(n, l)' = Many(n, l)
    BY <2>1, Uncounted
  <2> QED
    BY <1>f, <2>1, <2>2, <2>3, <2>4
       DEF Thrifty, Budgeted, Spent, Numbers, Excess, Larger, BeforeWorld, BeforeRecovery
<1>6. CASE MoveFails(w)
  <2> DEFINE j == [job[w] EXCEPT !.pc = "moveFailed", !.pending = {}, !.slots = 0]
  <2>1. Become(w, j) /\ job[w].pc \in {"actors", "background"} /\ ~At(w, "idle")
    BY <1>6 DEF MoveFails, At
  <2>2. j.pc = "moveFailed"
    BY <1>f DEF Job
  <2>3. job'[w] = j
    BY <2>1, BecomesThis
  <2> HIDE DEF j
  <2>4. CASE job[w].pc = "actors"
    <3> DEFINE ps == IF job[w].left > 0 THEN {NoPossibility} ELSE {}
    <3>1. MayLand(w, "actor", ps) /\ ps \subseteq Possibility \cup {NoPossibility}
      BY <1>6, <2>4 DEF MoveFails, At
    <3>2. ps # {} => job[w].left > 0
      OBVIOUS
    <3> HIDE DEF ps
    <3>3. /\ Many(n, "actor")' = Many(n, "actor") \/ (ps # {} /\ Many(n, "actor")' = Many(n, "actor") + 1)
          /\ Granted(n)' = Granted(n) /\ \A l \in Lanes \ {"actor"} : Many(n, l)' = Many(n, l)
      BY <1>t, <2>1, <3>1, LandCounted
    <3> QED
      BY <1>f, <1>t, <2>2, <2>3, <2>4, <3>2, <3>3
         DEF Thrifty, Budgeted, Spent, Numbers, Excess, Larger, BeforeWorld, BeforeRecovery
  <2>5. CASE job[w].pc = "background"
    <3> DEFINE ps == IF job[w].slots > 0 THEN Eligible(w) ELSE {}
    <3>1. MayLand(w, "background", ps) /\ ps \subseteq Possibility \cup {NoPossibility}
      BY <1>6, <2>5 DEF MoveFails, At, Eligible
    <3>2. ps # {} => job[w].slots > 0
      OBVIOUS
    <3> HIDE DEF ps
    <3>3. /\ \/ Many(n, "background")' = Many(n, "background")
             \/ ps # {} /\ Many(n, "background")' = Many(n, "background") + 1
          /\ Granted(n)' = Granted(n) /\ \A l \in Lanes \ {"background"} : Many(n, l)' = Many(n, l)
      BY <1>t, <2>1, <3>1, LandCounted
    <3> QED
      BY <1>f, <1>t, <2>2, <2>3, <2>5, <3>2, <3>3
         DEF Thrifty, Budgeted, Spent, Numbers, Excess, Larger, BeforeWorld, BeforeRecovery
  <2> QED
    BY <2>1, <2>4, <2>5
<1>7. CASE Catches(w)
  <2> DEFINE x == AfterFailure[job[w].pc]
             j == [job[w] EXCEPT !.pc = x, !.failed = TRUE, !.head = Len(log), !.left = 0]
  <2>1. Become(w, j) /\ log' = log /\ job[w].pc \in Failures
    BY <1>7, FailureLabels DEF Catches
  <2>2. \/ job[w].pc = "npcFailed" /\ x = "world"
        \/ job[w].pc = "worldFailed" /\ x = "recover"
        \/ job[w].pc = "recoverFailed" /\ x = "move"
        \/ job[w].pc = "moveFailed" /\ x = "publish"
    BY <2>1 DEF AfterFailure, Failures
  <2> HIDE DEF x
  <2>3. j.pc = x /\ j.slots = job[w].slots /\ j.direct = job[w].direct
    BY <1>f DEF Job
  <2>4. job'[w] = j
    BY <2>1, BecomesThis
  <2> HIDE DEF j
  <2>5. Granted(n)' = Granted(n) /\ \A l : Many(n, l)' = Many(n, l)
    BY <2>1, Uncounted
  <2> QED
    BY <1>f, <2>1, <2>2, <2>3, <2>4, <2>5
       DEF Thrifty, Budgeted, Spent, Numbers, Excess, Larger, BeforeWorld, BeforeRecovery
<1> QED
  BY <1>1, <1>2, <1>3, <1>4, <1>5, <1>6, <1>7

LEMMA StageThrift ==
  ASSUME TurnInv, BudgetInv, NEW w \in Worker, Staging(w)
  PROVE  BudgetInv'
<1>1. TypeOK /\ StageStep(w)
  BY EveryStage DEF TurnInv, AnswerInv, TypeInv
<1>2. PICK n \in Move : n = job[w].move
  BY <1>1, StageLog, AtTyped DEF TurnInv, AnswerInv
<1>3. Executes(w, n)
  BY <1>1, <1>2 DEF StageStep, Executes
<1>4. At(w, "player") => Of(n, {"player"}) = {}
  <2>1. Of(n, {"player"}) \subseteq Own(n)
    BY DEF Of, Own, Lanes
  <2> QED
    BY <1>3, <2>1 DEF TurnInv, MoveInv
<1>5. Thrifty(w, n)
  BY <1>1, <1>2, <1>3, <1>4, PlayerThrift, NpcThrift, WorldThrift, MoveThrift DEF Staging, BudgetInv
<1>6. \A m \in Move \ {n} : Granted(m)' = Granted(m) /\ \A l : Many(m, l)' = Many(m, l)
  <2>1. CASE log' = log
    BY <2>1, Uncounted
  <2>2. CASE log' # log
    <3>1. PICK lane \in Lanes : Appends(w, lane)
      BY <1>1, <2>2 DEF StageStep
    <3>2. PICK p \in Eligible(w) \cup {NoPossibility}, slots \in 0..MaxSlots : Extend(w, lane, p, slots)
      BY <3>1 DEF Appends
    <3>3. p \in Possibility \cup {NoPossibility} /\ slots \in Nat /\ ~At(w, "idle")
      BY <1>1, StageLog, BoundAssumption DEF Eligible
    <3> QED
      BY <1>1, <1>2, <3>2, <3>3, Counted
  <2> QED
    BY <2>1, <2>2
<1>7. \A v \in Worker \ {w} : job'[v] = job[v] /\ ~Executes(v, n)
  BY <1>1, <1>3, StageJob DEF TurnInv, AnswerInv, OwnerInv
<1>8. ASSUME NEW m \in Move
      PROVE  Budgeted(m)'
  BY <1>5, <1>6 DEF Thrifty, BudgetInv, Budgeted
<1>9. ASSUME NEW v \in Worker, NEW m \in Move, Executes(v, m)'
      PROVE  Spent(v, m)'
  <2>1. CASE v = w
    <3>1. m = n /\ job'[w].pc \in Executing
      BY <1>1, <1>2, <1>9, <2>1, StageJob, IdleExecutesNothing, IdleTyped DEF Executes, TurnInv
    <3> QED
      BY <1>5, <2>1, <3>1 DEF Thrifty
  <2>2. CASE v # w
    <3>1. job'[v] = job[v] /\ Executes(v, m) /\ m # n
      BY <1>7, <1>9, <2>2 DEF Executes
    <3>2. Spent(v, m)
      BY <3>1 DEF BudgetInv
    <3> QED
      BY <1>6, <3>1, <3>2 DEF Spent
  <2> QED
    BY <2>1, <2>2
<1> QED
  BY <1>8, <1>9 DEF BudgetInv

\* An admitted move has spent nothing.
LEMMA RestThrift ==
  ASSUME TurnInv, BudgetInv, NEW w \in Worker, RestStep(w)
  PROVE  BudgetInv'
<1>1. log' = log
  BY Rest DEF TurnInv
<1>2. \A m \in Move : Granted(m)' = Granted(m) /\ \A l : Many(m, l)' = Many(m, l)
  BY <1>1, Uncounted
<1>3. \A m \in Move : Budgeted(m)'
  BY <1>2 DEF BudgetInv, Budgeted
<1>4. ASSUME NEW v \in Worker, NEW m \in Move, Executes(v, m)'
      PROVE  Spent(v, m)'
  <2>1. CASE Executes(v, m) /\ job'[v] = job[v]
    <3>1. Spent(v, m)
      BY <2>1 DEF BudgetInv
    <3> QED
      BY <1>2, <2>1, <3>1 DEF Spent
  <2>2. CASE intent[m] = NoRequest /\ job'[v] = [job[v] EXCEPT !.pc = "player"]
    <3>1. job'[v].pc = "player"
      <4>1. job[v] \in Job
        BY JobTyped DEF TurnInv, AnswerInv, TypeInv
      <4> QED
        BY <2>2, <4>1 DEF Job
    <3>2. Own(m) = {}
      BY <2>2 DEF TurnInv, MoveInv, MoveHappensOnce
    <3>3. \A l \in Lanes : Many(m, l) = 0
      <4>1. \A l \in Lanes : Of(m, {l}) = {}
        BY <3>2 DEF Own, Of
      <4> QED
        BY <4>1, FS_EmptySet DEF Many
    <3>4. {"npc", "world", "recovery", "actor", "background"} \subseteq Lanes
      BY DEF Lanes
    <3> QED
      BY <1>2, <3>1, <3>3, <3>4 DEF Spent, BeforeWorld, BeforeRecovery
  <2> QED
    BY <1>4, <2>1, <2>2, Rest DEF TurnInv
<1> QED
  BY <1>3, <1>4 DEF BudgetInv

LEMMA BudgetStep ==
  ASSUME TurnInv, BudgetInv, [Next]_vars
  PROVE  BudgetInv'
<1>1. CASE UNCHANGED vars
  <2>1. log' = log /\ job' = job
    BY <1>1 DEF vars
  <2>2. \A m : Granted(m)' = Granted(m) /\ \A l : Many(m, l)' = Many(m, l)
    BY <2>1, Uncounted
  <2> QED
    BY <2>1, <2>2 DEF BudgetInv, Budgeted, Spent, Executes
<1>2. [Next]_vars => UNCHANGED vars \/ \E w \in Worker : Staging(w) \/ RestStep(w)
  BY DEF Next, Stages, Staging, Admission, LookupRefuses, RestStep
<1> QED
  BY <1>1, <1>2, StageThrift, RestThrift

LEMMA InitBudget == ASSUME Init PROVE BudgetInv
<1>1. \A w \in Worker, m \in Move : ~Executes(w, m)
  BY IdleExecutesNothing DEF Init, Executes
<1>2. \A m, lanes : Of(m, lanes) = {}
  BY DEF Init, Of
<1>3. \A m, l : Many(m, l) = 0
  BY <1>2, FS_EmptySet DEF Many
<1>4. \A m : Granted(m) = 0
  BY <1>2 DEF Granted
<1>5. \A m \in Move : Budgeted(m)
  BY <1>3, <1>4, BoundAssumption DEF Budgeted, Excess, Larger
<1> QED
  BY <1>1, <1>5 DEF BudgetInv

\* performPlayTurn keeps the budget of a move, whatever fails and whoever
\* plays beside it: one recovery and one response of the world at most, no
\* more background events than its player's event has granted, less the one a
\* recovery takes, and no more acting characters than allowed.
THEOREM BudgetAlwaysHeld == Spec => []BudgetHeld
<1>1. Init => BudgetInv
  BY InitBudget
<1>2. PlayInv /\ BudgetInv /\ [Next]_vars => BudgetInv'
  BY BudgetStep DEF PlayInv
<1>3. BudgetInv => BudgetHeld
  BY DEF BudgetInv, BudgetHeld, Budgeted
<1> QED
  BY Inductive, <1>1, <1>2, <1>3, PTL DEF Spec
=============================================================================
