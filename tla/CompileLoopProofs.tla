------------------------- MODULE CompileLoopProofs -------------------------
(***************************************************************************)
(* The compile loop for any number of supervisors, incidents, patches,     *)
(* generations, crashes and resolutions.  Three facts carry the proof: the *)
(* owner of the lock is the only supervisor that writes (OwnerInv), each   *)
(* state file pays for what its generation has started (Sound), and each   *)
(* place of the owner's process promises what the next step relies on      *)
(* (Poised).  A worker that outlived its supervisor keeps the phase WORKER *)
(* on disk, which no admission accepts (LiveInv).                          *)
(***************************************************************************)
EXTENDS CompileLoop, FiniteSetTheorems, TLAPS

\* Places of a process whose state was admitted, and of one with a command.
Inside == {"admitted", "loop", "call", "spawned", "running", "closed",
           "throwing", "leaving"}
Working == {"call", "spawned", "running", "closed"}

\* State file d of generation g, of which n workers and r rounds were started.
Sound(g, d, n, r) ==
  /\ IsFiniteSet(d.patches)
  /\ d.phase = "NONE" => d = Absent
  /\ d.previous # None => d.previous.gen < g
  /\ n <= d.workers /\ d.workers <= 1 + Cardinality(d.patches)
  /\ d.pending = None /\ d.delivery = 0 /\ d.phase # "DONE"
       => d.workers <= Cardinality(d.patches)
  /\ \A k \in Keys : r[k] <= d.failures[k] /\ d.failures[k] <= RepairsPerIncident

\* What a process p inside relies on in the state file d of its generation.
Poised(p, d, n, r) ==
  /\ p.at \in Inside => d.phase # "NONE" /\ (d.phase = "DONE" => d.delivery # 0)
  /\ p.at = "loop" => d.delivery = 0
  /\ p.at \in Working =>
       /\ p.cmd \in {"before", "worker", "repair", "review", "types", "tests"}
            => d.delivery = 0
       /\ p.cmd = "before" => d.pending = None
       /\ p.cmd = "delivery" => d.delivery # 0
       /\ p.cmd \in {"review", "types", "tests"} => p.patch \in Patches \ d.patches
       /\ p.cmd = "worker" /\ p.at # "closed" => d.phase = "WORKER"
  /\ p.at = "call" /\ p.cmd = "worker" => n < d.workers
  /\ p.at = "call" /\ p.cmd = "repair"
       => d.pending \in Keys /\ r[d.pending] < d.failures[d.pending]

SoundInv == \A g \in Generations : Sound(g, disk[g], spawned[g], rounds[g])

OwnerInv ==
  \A s \in Supervisors :
    /\ run[s].at \notin {"off", "asked"} => lock = s
    /\ run[s].at \in Inside \cup {"locked"} => run[s].gen = pointer
    /\ run[s].at = "publish" => /\ run[s].gen > pointer
                                /\ disk[run[s].gen].phase = "READY"
    /\ Poised(run[s], disk[run[s].gen], spawned[run[s].gen], rounds[run[s].gen])

LiveInv ==
  /\ live # {} => /\ live = {<<pointer, disk[pointer].workers>>}
                  /\ disk[pointer].phase = "WORKER"
  /\ \A s \in Supervisors :
       run[s].at \in Inside \cup {"publish"} /\ ~(Child(s) /\ run[s].cmd = "worker")
         => live = {}

Inv == TypeOK /\ SoundInv /\ OwnerInv /\ LiveInv

\* The step that SettledStands speaks of.
Stand ==
  /\ \A g \in Generations : disk[g].delivery # 0 =>
        /\ disk'[g].delivery = disk[g].delivery
        /\ disk'[g].workers = disk[g].workers /\ spawned'[g] = spawned[g]
  /\ \A g \in Generations : g < pointer => disk'[g] = disk[g]
  /\ pointer' >= pointer

(***************************************************************************)
(* Initial states.                                                         *)
(***************************************************************************)
LEMMA AbsentState == Absent \in State /\ LegacyDone \in State
BY DEF Absent, LegacyDone, State, Phases

LEMMA FreshState ==
  ASSUME NEW stamp \in Stamp \cup {None}
  PROVE  Fresh(stamp) \in State
BY DEF Fresh, Absent, State, Phases

LEMMA ZeroInGenerations == 0 \in Generations /\ Generations \subseteq Nat
BY LoopAssumption DEF Generations

LEMMA AbsentSound ==
  ASSUME NEW g \in Generations, NEW n, NEW r, n = 0, r = [k \in Keys |-> 0]
  PROVE  Sound(g, Absent, n, r) /\ Sound(g, LegacyDone, n, r)
<1>1. IsFiniteSet({}) /\ Cardinality({}) = 0
  BY FS_EmptySet
<1>2. Absent.patches = {} /\ LegacyDone.patches = {}
  BY DEF Absent, LegacyDone
<1> QED
  BY <1>1, <1>2, LoopAssumption DEF Sound, Absent, LegacyDone

LEMMA InitInv == Init => Inv
<1> SUFFICES ASSUME Init
             PROVE  Inv
  OBVIOUS
<1>1. disk \in [Generations -> State]
  BY AbsentState DEF Init
<1>2. TypeOK
  BY <1>1, ZeroInGenerations DEF Init, TypeOK, Off, Process, Places
<1>3. SoundInv
  BY AbsentSound DEF Init, SoundInv
<1>4. OwnerInv
  BY DEF Init, OwnerInv, Off, Poised, Inside, Working
<1>5. LiveInv
  BY DEF Init, LiveInv, Off, Inside
<1> QED
  BY <1>2, <1>3, <1>4, <1>5 DEF Inv

(***************************************************************************)
(* A step of the owner: it saves state d, becomes process p and is inside. *)
(***************************************************************************)
Advance(s, p, d) ==
  /\ run[s].at \in Inside \cup {"locked"}
  /\ p \in Process /\ d \in State /\ p.at \in Inside /\ p.gen = run[s].gen
  /\ run' = [run EXCEPT ![s] = p] /\ disk' = [disk EXCEPT ![pointer] = d]
  /\ UNCHANGED <<pointer, lock, requests, crashes>>
  /\ resolutions' \in {resolutions, resolutions + 1}
  /\ receipt' \in [Generations -> {"none", "failed", "succeeded"}]
  /\ spawned' \in [Generations -> Nat] /\ rounds' \in [Generations -> [Keys -> Nat]]
  /\ \A g \in Generations \ {pointer} :
       spawned'[g] = spawned[g] /\ rounds'[g] = rounds[g]
  /\ Sound(pointer, d, spawned'[pointer], rounds'[pointer])
  /\ Poised(p, d, spawned'[pointer], rounds'[pointer])
  /\ \/ live' = {}
     \/ /\ live' = {<<pointer, d.workers>>} /\ d.phase = "WORKER"
        /\ p.at \in {"spawned", "running"} /\ p.cmd = "worker"
  /\ disk[pointer].delivery # 0 =>
       /\ d.delivery = disk[pointer].delivery /\ d.workers = disk[pointer].workers
       /\ spawned'[pointer] = spawned[pointer]

LEMMA OwnerStep ==
  ASSUME Inv, NEW s \in Supervisors, NEW p, NEW d, Advance(s, p, d)
  PROVE  Inv' /\ Stand
<1> USE ZeroInGenerations
<1>1. pointer \in Generations /\ run[s].gen = pointer /\ lock = s
  BY DEF Inv, TypeOK, OwnerInv, Advance, Inside
<1>2. disk'[pointer] = d /\ \A g \in Generations \ {pointer} : disk'[g] = disk[g]
  BY <1>1 DEF Advance, Inv, TypeOK
<1>3. run'[s] = p /\ \A t \in Supervisors \ {s} : run'[t] = run[t]
  BY DEF Advance, Inv, TypeOK
<1>4. \A t \in Supervisors \ {s} : run[t].at \in {"off", "asked"}
  BY <1>1 DEF Inv, OwnerInv
<1>5. TypeOK'
  <2>1. live' \subseteq Generations \X Nat
    BY <1>1 DEF Advance, State
  <2>2. disk' \in [Generations -> State] /\ run' \in [Supervisors -> Process]
    BY <1>1 DEF Advance, Inv, TypeOK
  <2> QED
    BY <2>1, <2>2 DEF Advance, Inv, TypeOK
<1>6. SoundInv'
  <2> SUFFICES ASSUME NEW g \in Generations
               PROVE  Sound(g, disk'[g], spawned'[g], rounds'[g])
    BY DEF SoundInv
  <2>1. CASE g = pointer
    BY <1>2, <2>1 DEF Advance
  <2>2. CASE g # pointer
    <3>1. disk'[g] = disk[g] /\ spawned'[g] = spawned[g] /\ rounds'[g] = rounds[g]
      BY <1>2, <2>2 DEF Advance
    <3> QED
      BY <3>1 DEF Inv, SoundInv
  <2> QED
    BY <2>1, <2>2
<1>7. OwnerInv'
  <2> SUFFICES ASSUME NEW t \in Supervisors
               PROVE  /\ run'[t].at \notin {"off", "asked"} => lock' = t
                      /\ run'[t].at \in Inside \cup {"locked"} => run'[t].gen = pointer'
                      /\ run'[t].at = "publish" => /\ run'[t].gen > pointer'
                                                   /\ disk'[run'[t].gen].phase = "READY"
                      /\ Poised(run'[t], disk'[run'[t].gen], spawned'[run'[t].gen],
                                rounds'[run'[t].gen])
    BY DEF OwnerInv
  <2>1. CASE t = s
    BY <1>1, <1>2, <1>3, <2>1 DEF Advance, Inside
  <2>2. CASE t # s
    <3>1. run'[t].at \in {"off", "asked"}
      BY <1>3, <1>4, <2>2
    <3> QED
      BY <3>1 DEF Poised, Inside, Working
  <2> QED
    BY <2>1, <2>2
<1>8. LiveInv'
  BY <1>1, <1>2, <1>3, <1>4 DEF LiveInv, Advance, Inside, Child
<1>9. Stand
  <2>1. pointer' = pointer /\ pointer \in Nat
    BY <1>1 DEF Advance
  <2>2. \A g \in Generations : g < pointer => disk'[g] = disk[g]
    BY <1>2, <2>1
  <2>3. \A g \in Generations \ {pointer} : spawned'[g] = spawned[g]
    BY DEF Advance
  <2>4. disk[pointer].delivery # 0 =>
          /\ disk'[pointer].delivery = disk[pointer].delivery
          /\ disk'[pointer].workers = disk[pointer].workers
          /\ spawned'[pointer] = spawned[pointer]
    BY <1>2 DEF Advance
  <2>5. \A g \in Generations : disk[g].delivery # 0 =>
          /\ disk'[g].delivery = disk[g].delivery
          /\ disk'[g].workers = disk[g].workers /\ spawned'[g] = spawned[g]
    <3> SUFFICES ASSUME NEW g \in Generations, disk[g].delivery # 0
                 PROVE  /\ disk'[g].delivery = disk[g].delivery
                        /\ disk'[g].workers = disk[g].workers /\ spawned'[g] = spawned[g]
      OBVIOUS
    <3>1. CASE g = pointer
      BY <2>4, <3>1
    <3>2. CASE g # pointer
      <4>1. disk'[g] = disk[g]
        BY <1>2, <3>2
      <4> QED
        BY <2>3, <3>2, <4>1
    <3> QED
      BY <3>1, <3>2
  <2>6. pointer' >= pointer
    BY <2>1
  <2> QED
    BY <2>2, <2>5, <2>6 DEF Stand
<1> QED
  BY <1>5, <1>6, <1>7, <1>8, <1>9 DEF Inv

\* What the owner inside may use of the invariant.
LEMMA OwnerFacts ==
  ASSUME Inv, NEW s \in Supervisors, run[s].at \in Inside
  PROVE  /\ pointer \in Generations /\ run[s].gen = pointer /\ run[s] \in Process
         /\ Mine(s) = disk[pointer] /\ disk[pointer] \in State
         /\ spawned \in [Generations -> Nat]
         /\ rounds \in [Generations -> [Keys -> Nat]]
         /\ receipt \in [Generations -> {"none", "failed", "succeeded"}]
         /\ Sound(pointer, disk[pointer], spawned[pointer], rounds[pointer])
         /\ Poised(run[s], disk[pointer], spawned[pointer], rounds[pointer])
         /\ ~(Child(s) /\ run[s].cmd = "worker") => live = {}
         /\ live # {} => live = {<<pointer, disk[pointer].workers>>}
         /\ disk = [disk EXCEPT ![pointer] = disk[pointer]]
BY DEF Inv, TypeOK, OwnerInv, SoundInv, LiveInv, Mine, Inside

\* Most steps leave the workers, the engineers and the receipts alone.
Still == UNCHANGED <<pointer, lock, receipt, live, spawned, rounds,
                     requests, resolutions, crashes>>

LEMMA StillStep ==
  ASSUME Inv, NEW s \in Supervisors, run[s].at \in Inside,
         ~(Child(s) /\ run[s].cmd = "worker"), Still,
         NEW p \in Process, NEW d \in State, p.at \in Inside, p.gen = run[s].gen,
         run' = [run EXCEPT ![s] = p], disk' = [disk EXCEPT ![pointer] = d],
         Sound(pointer, d, spawned[pointer], rounds[pointer]),
         Poised(p, d, spawned[pointer], rounds[pointer]),
         disk[pointer].delivery # 0 =>
           d.delivery = disk[pointer].delivery /\ d.workers = disk[pointer].workers
  PROVE  Inv' /\ Stand
<1>1. Advance(s, p, d)
  BY OwnerFacts DEF Advance, Still
<1> QED
  BY <1>1, OwnerStep

(***************************************************************************)
(* Child processes.                                                        *)
(***************************************************************************)
LEMMA StartInv ==
  ASSUME Inv, NEW s \in Supervisors, Start(s)
  PROVE  Inv' /\ Stand
<1> DEFINE p == [run[s] EXCEPT !.at = "spawned"]
           d == [disk[pointer] EXCEPT !.commands = @ + 1]
<1>1. run[s].at = "call" /\ run[s].at \in Inside
  BY DEF Start, Inside
<1>2. live = {}
  BY <1>1, OwnerFacts DEF Child
<1>3. p \in Process /\ p.at = "spawned" /\ p.cmd = run[s].cmd /\ p.gen = run[s].gen
      /\ p.patch = run[s].patch /\ p.at \in Inside
  BY <1>1, OwnerFacts DEF Process, Places, Inside
<1>4. d \in State /\ d.phase # "NONE" /\ d.workers = disk[pointer].workers
      /\ d.patches = disk[pointer].patches /\ d.delivery = disk[pointer].delivery
      /\ d.phase = disk[pointer].phase /\ d.pending = disk[pointer].pending
      /\ d.previous = disk[pointer].previous /\ d.failures = disk[pointer].failures
  <2>1. disk[pointer] \in State /\ disk[pointer].phase # "NONE"
    BY <1>1, OwnerFacts DEF Poised
  <2> QED
    BY <2>1 DEF State
<1>5. run' = [run EXCEPT ![s] = p] /\ disk' = [disk EXCEPT ![pointer] = d]
  BY <1>1, OwnerFacts DEF Start, Go, Persist
<1>6. CASE run[s].cmd = "worker"
  <2>1. spawned' = [spawned EXCEPT ![pointer] = @ + 1] /\ rounds' = rounds
        /\ live' = {<<pointer, d.workers>>}
    BY <1>1, <1>2, <1>4, <1>6, OwnerFacts DEF Start
  <2>2. Poised(run[s], disk[pointer], spawned[pointer], rounds[pointer])
        /\ Sound(pointer, disk[pointer], spawned[pointer], rounds[pointer])
        /\ spawned[pointer] \in Nat /\ disk[pointer].workers \in Nat
    BY <1>1, OwnerFacts DEF State
  <2>3. spawned[pointer] < disk[pointer].workers /\ disk[pointer].phase = "WORKER"
        /\ disk[pointer].delivery = 0
    BY <1>1, <1>6, <2>2 DEF Poised, Working
  <2>4. spawned'[pointer] = spawned[pointer] + 1
    BY <1>1, <2>1, OwnerFacts
  <2>5. Sound(pointer, d, spawned'[pointer], rounds'[pointer])
    BY <1>4, <2>1, <2>2, <2>3, <2>4 DEF Sound
  <2>6. Poised(p, d, spawned'[pointer], rounds'[pointer])
    BY <1>3, <1>4, <1>6, <2>3 DEF Poised
  <2>7. spawned' \in [Generations -> Nat]
    BY <1>1, <2>1, OwnerFacts
  <2>8. Advance(s, p, d)
    BY <1>1, <1>3, <1>4, <1>5, <1>6, <2>1, <2>3, <2>5, <2>6, <2>7, OwnerFacts
    DEF Advance, Start, budget
  <2> QED
    BY <2>8, OwnerStep
<1>7. CASE run[s].cmd = "repair"
  <2>1. rounds' = [rounds EXCEPT ![pointer][disk[pointer].pending] = @ + 1]
        /\ spawned' = spawned /\ live' = {}
    BY <1>1, <1>2, <1>7, OwnerFacts DEF Start
  <2>2. Poised(run[s], disk[pointer], spawned[pointer], rounds[pointer])
        /\ Sound(pointer, disk[pointer], spawned[pointer], rounds[pointer])
        /\ rounds[pointer] \in [Keys -> Nat] /\ disk[pointer].failures \in [Keys -> Nat]
    BY <1>1, OwnerFacts DEF State
  <2>3. disk[pointer].pending \in Keys
        /\ rounds[pointer][disk[pointer].pending] < disk[pointer].failures[disk[pointer].pending]
        /\ disk[pointer].delivery = 0
    BY <1>1, <1>7, <2>2 DEF Poised, Working
  <2>4. rounds'[pointer] = [rounds[pointer] EXCEPT ![disk[pointer].pending] = @ + 1]
        /\ \A g \in Generations \ {pointer} : rounds'[g] = rounds[g]
    BY <1>1, <2>1, OwnerFacts
  <2>5. rounds' \in [Generations -> [Keys -> Nat]]
    BY <1>1, <2>1, <2>3, OwnerFacts
  <2>6. \A k \in Keys : rounds'[pointer][k] <= d.failures[k]
    BY <1>4, <2>2, <2>3, <2>4 DEF Sound
  <2>7. Sound(pointer, d, spawned'[pointer], rounds'[pointer])
    BY <1>4, <2>1, <2>2, <2>6 DEF Sound
  <2>8. Poised(p, d, spawned'[pointer], rounds'[pointer])
    BY <1>1, <1>3, <1>4, <1>7, <2>2 DEF Poised, Inside, Working
  <2>9. Advance(s, p, d)
    BY <1>1, <1>3, <1>4, <1>5, <2>1, <2>4, <2>5, <2>7, <2>8, OwnerFacts
    DEF Advance, Start, budget
  <2> QED
    BY <2>9, OwnerStep
<1>8. CASE run[s].cmd \notin {"worker", "repair"}
  <2>1. Still
    BY <1>8 DEF Start, Still, budget
  <2>2. Poised(run[s], disk[pointer], spawned[pointer], rounds[pointer])
        /\ Sound(pointer, disk[pointer], spawned[pointer], rounds[pointer])
    BY <1>1, OwnerFacts
  <2>3. Poised(p, d, spawned[pointer], rounds[pointer])
    BY <1>1, <1>3, <1>4, <1>8, <2>2 DEF Poised, Inside, Working
  <2>4. Sound(pointer, d, spawned[pointer], rounds[pointer])
    BY <1>4, <2>2 DEF Sound
  <2> QED
    BY <1>1, <1>3, <1>4, <1>5, <1>8, <2>1, <2>3, <2>4, StillStep DEF Child
<1> QED
  BY <1>6, <1>7, <1>8

(***************************************************************************)
(* Decisions of the owner that start or end no worker.                     *)
(***************************************************************************)
LEMMA BeginInv ==
  ASSUME Inv, NEW s \in Supervisors, Begin(s)
  PROVE  Inv' /\ Stand
<1> DEFINE p == [run[s] EXCEPT !.at = "call", !.cmd = "inspect"]
           d == disk[pointer]
<1>1. run[s].at \in Inside /\ ~(Child(s) /\ run[s].cmd = "worker")
  BY DEF Begin, Inside, Child, Back, Ok
<1>2. run[s] \in Process /\ disk[pointer] \in State /\ Mine(s) = disk[pointer]
      /\ run[s].gen = pointer /\ disk = [disk EXCEPT ![pointer] = disk[pointer]]
      /\ Sound(pointer, disk[pointer], spawned[pointer], rounds[pointer])
      /\ Poised(run[s], disk[pointer], spawned[pointer], rounds[pointer])
  BY <1>1, OwnerFacts
<1>3. Still /\ run' = [run EXCEPT ![s] = p] /\ disk' = [disk EXCEPT ![pointer] = d]
  BY <1>2 DEF Begin, Still, Quiet, world, budget, Go, Call, Persist
<1>4. p \in Process /\ p.at = "call" /\ p.cmd = "inspect" /\ p.gen = run[s].gen
      /\ p.patch = run[s].patch
  BY <1>2 DEF Begin, Process, Places, Labels
<1>5. d \in State /\ d.workers = disk[pointer].workers
      /\ d.failures = disk[pointer].failures
      /\ d.pending = disk[pointer].pending /\ d.patches = disk[pointer].patches
      /\ d.delivery = disk[pointer].delivery
      /\ d.previous = disk[pointer].previous /\ d.phase = disk[pointer].phase
  BY <1>2 DEF State, Phases
<1>6. Sound(pointer, d, spawned[pointer], rounds[pointer])
  BY <1>1, <1>2, <1>5, LoopAssumption DEF Begin, Sound, Poised, Working, Back, Ok
<1>7. Poised(p, d, spawned[pointer], rounds[pointer])
  BY <1>2, <1>4, <1>5 DEF Begin, Poised, Inside, Working, Back, Ok
<1>8. disk[pointer].delivery # 0 =>
        d.delivery = disk[pointer].delivery /\ d.workers = disk[pointer].workers
  BY <1>2, <1>5 DEF Begin, Poised, Working, Back, Ok
<1> QED
  BY <1>1, <1>3, <1>4, <1>5, <1>6, <1>7, <1>8, StillStep DEF Inside

LEMMA InspectedCleanInv ==
  ASSUME Inv, NEW s \in Supervisors, Inspected(s), disk' = disk
  PROVE  Inv' /\ Stand
<1> DEFINE p == [run[s] EXCEPT !.at = "loop"]
           d == disk[pointer]
<1>1. run[s].at \in Inside /\ ~(Child(s) /\ run[s].cmd = "worker")
  BY DEF Inspected, Inside, Child, Back, Ok
<1>2. run[s] \in Process /\ disk[pointer] \in State /\ Mine(s) = disk[pointer]
      /\ run[s].gen = pointer /\ disk = [disk EXCEPT ![pointer] = disk[pointer]]
      /\ Sound(pointer, disk[pointer], spawned[pointer], rounds[pointer])
      /\ Poised(run[s], disk[pointer], spawned[pointer], rounds[pointer])
  BY <1>1, OwnerFacts
<1>3. Still /\ run' = [run EXCEPT ![s] = p] /\ disk' = [disk EXCEPT ![pointer] = d]
  BY <1>2 DEF Inspected, Still, Quiet, world, budget, Go, Call, Persist
<1>4. p \in Process /\ p.at = "loop" /\ p.cmd = run[s].cmd /\ p.gen = run[s].gen
      /\ p.patch = run[s].patch
  BY <1>2 DEF Inspected, Process, Places, Labels
<1>5. d \in State /\ d.workers = disk[pointer].workers
      /\ d.failures = disk[pointer].failures
      /\ d.pending = disk[pointer].pending /\ d.patches = disk[pointer].patches
      /\ d.delivery = disk[pointer].delivery
      /\ d.previous = disk[pointer].previous /\ d.phase = disk[pointer].phase
  BY <1>2 DEF State, Phases
<1>6. Sound(pointer, d, spawned[pointer], rounds[pointer])
  BY <1>1, <1>2, <1>5, LoopAssumption DEF Inspected, Sound, Poised, Working, Back, Ok
<1>7. Poised(p, d, spawned[pointer], rounds[pointer])
  BY <1>2, <1>4, <1>5 DEF Inspected, Poised, Inside, Working, Back, Ok
<1>8. disk[pointer].delivery # 0 =>
        d.delivery = disk[pointer].delivery /\ d.workers = disk[pointer].workers
  BY <1>2, <1>5 DEF Inspected, Poised, Working, Back, Ok
<1> QED
  BY <1>1, <1>3, <1>4, <1>5, <1>6, <1>7, <1>8, StillStep DEF Inside

LEMMA InspectedBlockedInv ==
  ASSUME Inv, NEW s \in Supervisors, NEW k \in Keys, Inspected(s), Persist(s, [Mine(s) EXCEPT !.pending = k])
  PROVE  Inv' /\ Stand
<1> DEFINE p == [run[s] EXCEPT !.at = "loop"]
           d == [disk[pointer] EXCEPT !.pending = k]
<1>1. run[s].at \in Inside /\ ~(Child(s) /\ run[s].cmd = "worker")
  BY DEF Inspected, Inside, Child, Back, Ok
<1>2. run[s] \in Process /\ disk[pointer] \in State /\ Mine(s) = disk[pointer]
      /\ run[s].gen = pointer /\ disk = [disk EXCEPT ![pointer] = disk[pointer]]
      /\ Sound(pointer, disk[pointer], spawned[pointer], rounds[pointer])
      /\ Poised(run[s], disk[pointer], spawned[pointer], rounds[pointer])
  BY <1>1, OwnerFacts
<1>3. Still /\ run' = [run EXCEPT ![s] = p] /\ disk' = [disk EXCEPT ![pointer] = d]
  BY <1>2 DEF Inspected, Still, Quiet, world, budget, Go, Call, Persist
<1>4. p \in Process /\ p.at = "loop" /\ p.cmd = run[s].cmd /\ p.gen = run[s].gen
      /\ p.patch = run[s].patch
  BY <1>2 DEF Inspected, Process, Places, Labels
<1>5. d \in State /\ d.pending = k /\ d.workers = disk[pointer].workers
      /\ d.failures = disk[pointer].failures
      /\ d.patches = disk[pointer].patches
      /\ d.delivery = disk[pointer].delivery
      /\ d.previous = disk[pointer].previous /\ d.phase = disk[pointer].phase
  BY <1>2 DEF State, Phases
<1>6. Sound(pointer, d, spawned[pointer], rounds[pointer])
  BY <1>1, <1>2, <1>5, LoopAssumption DEF Inspected, Sound, Poised, Working, Back, Ok
<1>7. Poised(p, d, spawned[pointer], rounds[pointer])
  BY <1>2, <1>4, <1>5 DEF Inspected, Poised, Inside, Working, Back, Ok
<1>8. disk[pointer].delivery # 0 =>
        d.delivery = disk[pointer].delivery /\ d.workers = disk[pointer].workers
  BY <1>2, <1>5 DEF Inspected, Poised, Working, Back, Ok
<1> QED
  BY <1>1, <1>3, <1>4, <1>5, <1>6, <1>7, <1>8, StillStep DEF Inside

LEMMA VerifyDeliveryInv ==
  ASSUME Inv, NEW s \in Supervisors, VerifyDelivery(s)
  PROVE  Inv' /\ Stand
<1> DEFINE p == [run[s] EXCEPT !.at = "call", !.cmd = "delivery"]
           d == [disk[pointer] EXCEPT !.phase = "VERIFY"]
<1>1. run[s].at \in Inside /\ ~(Child(s) /\ run[s].cmd = "worker")
  BY DEF VerifyDelivery, Inside, Child, Back, Ok
<1>2. run[s] \in Process /\ disk[pointer] \in State /\ Mine(s) = disk[pointer]
      /\ run[s].gen = pointer /\ disk = [disk EXCEPT ![pointer] = disk[pointer]]
      /\ Sound(pointer, disk[pointer], spawned[pointer], rounds[pointer])
      /\ Poised(run[s], disk[pointer], spawned[pointer], rounds[pointer])
  BY <1>1, OwnerFacts
<1>3. Still /\ run' = [run EXCEPT ![s] = p] /\ disk' = [disk EXCEPT ![pointer] = d]
  BY <1>2 DEF VerifyDelivery, Still, Quiet, world, budget, Go, Call, Persist
<1>4. p \in Process /\ p.at = "call" /\ p.cmd = "delivery" /\ p.gen = run[s].gen
      /\ p.patch = run[s].patch
  BY <1>2 DEF VerifyDelivery, Process, Places, Labels
<1>5. d \in State /\ d.phase = "VERIFY" /\ d.workers = disk[pointer].workers
      /\ d.failures = disk[pointer].failures
      /\ d.pending = disk[pointer].pending /\ d.patches = disk[pointer].patches
      /\ d.delivery = disk[pointer].delivery
      /\ d.previous = disk[pointer].previous
  BY <1>2 DEF State, Phases
<1>6. Sound(pointer, d, spawned[pointer], rounds[pointer])
  BY <1>1, <1>2, <1>5, LoopAssumption DEF VerifyDelivery, Sound, Poised, Working, Back, Ok
<1>7. Poised(p, d, spawned[pointer], rounds[pointer])
  BY <1>2, <1>4, <1>5 DEF VerifyDelivery, Poised, Inside, Working, Back, Ok
<1>8. disk[pointer].delivery # 0 =>
        d.delivery = disk[pointer].delivery /\ d.workers = disk[pointer].workers
  BY <1>2, <1>5 DEF VerifyDelivery, Poised, Working, Back, Ok
<1> QED
  BY <1>1, <1>3, <1>4, <1>5, <1>6, <1>7, <1>8, StillStep DEF Inside

LEMMA DeliveredInv ==
  ASSUME Inv, NEW s \in Supervisors, Delivered(s)
  PROVE  Inv' /\ Stand
<1> DEFINE p == [run[s] EXCEPT !.at = "leaving"]
           d == [disk[pointer] EXCEPT !.pending = None, !.phase = "DONE"]
<1>1. run[s].at \in Inside /\ ~(Child(s) /\ run[s].cmd = "worker")
  BY DEF Delivered, Inside, Child, Back, Ok
<1>2. run[s] \in Process /\ disk[pointer] \in State /\ Mine(s) = disk[pointer]
      /\ run[s].gen = pointer /\ disk = [disk EXCEPT ![pointer] = disk[pointer]]
      /\ Sound(pointer, disk[pointer], spawned[pointer], rounds[pointer])
      /\ Poised(run[s], disk[pointer], spawned[pointer], rounds[pointer])
  BY <1>1, OwnerFacts
<1>3. Still /\ run' = [run EXCEPT ![s] = p] /\ disk' = [disk EXCEPT ![pointer] = d]
  BY <1>2 DEF Delivered, Still, Quiet, world, budget, Go, Call, Persist
<1>4. p \in Process /\ p.at = "leaving" /\ p.cmd = run[s].cmd /\ p.gen = run[s].gen
      /\ p.patch = run[s].patch
  BY <1>2 DEF Delivered, Process, Places, Labels
<1>5. d \in State /\ d.pending = None /\ d.phase = "DONE"
      /\ d.workers = disk[pointer].workers
      /\ d.failures = disk[pointer].failures
      /\ d.patches = disk[pointer].patches
      /\ d.delivery = disk[pointer].delivery
      /\ d.previous = disk[pointer].previous
  BY <1>2 DEF State, Phases
<1>6. Sound(pointer, d, spawned[pointer], rounds[pointer])
  BY <1>1, <1>2, <1>5, LoopAssumption DEF Delivered, Sound, Poised, Working, Back, Ok
<1>7. Poised(p, d, spawned[pointer], rounds[pointer])
  BY <1>2, <1>4, <1>5 DEF Delivered, Poised, Inside, Working, Back, Ok
<1>8. disk[pointer].delivery # 0 =>
        d.delivery = disk[pointer].delivery /\ d.workers = disk[pointer].workers
  BY <1>2, <1>5 DEF Delivered, Poised, Working, Back, Ok
<1> QED
  BY <1>1, <1>3, <1>4, <1>5, <1>6, <1>7, <1>8, StillStep DEF Inside

LEMMA ProposeInv ==
  ASSUME Inv, NEW s \in Supervisors, NEW q \in Patches \ Mine(s).patches, Propose(s),
         run' = [run EXCEPT ![s].at = "call", ![s].cmd = "review", ![s].patch = q]
  PROVE  Inv' /\ Stand
<1> DEFINE p == [run[s] EXCEPT !.at = "call", !.cmd = "review", !.patch = q]
           d == [disk[pointer] EXCEPT !.phase = "VERIFY"]
<1>1. run[s].at \in Inside /\ ~(Child(s) /\ run[s].cmd = "worker")
  BY DEF Propose, Inside, Child, Back, Ok
<1>2. run[s] \in Process /\ disk[pointer] \in State /\ Mine(s) = disk[pointer]
      /\ run[s].gen = pointer /\ disk = [disk EXCEPT ![pointer] = disk[pointer]]
      /\ Sound(pointer, disk[pointer], spawned[pointer], rounds[pointer])
      /\ Poised(run[s], disk[pointer], spawned[pointer], rounds[pointer])
  BY <1>1, OwnerFacts
<1>3. Still /\ run' = [run EXCEPT ![s] = p] /\ disk' = [disk EXCEPT ![pointer] = d]
  BY <1>2 DEF Propose, Still, Quiet, world, budget, Go, Call, Persist
<1>4. p \in Process /\ p.at = "call" /\ p.cmd = "review" /\ p.patch = q /\ p.gen = run[s].gen
  BY <1>2 DEF Propose, Process, Places, Labels
<1>5. d \in State /\ d.phase = "VERIFY" /\ d.workers = disk[pointer].workers
      /\ d.failures = disk[pointer].failures
      /\ d.pending = disk[pointer].pending /\ d.patches = disk[pointer].patches
      /\ d.delivery = disk[pointer].delivery
      /\ d.previous = disk[pointer].previous
  BY <1>2 DEF State, Phases
<1>6. Sound(pointer, d, spawned[pointer], rounds[pointer])
  BY <1>1, <1>2, <1>5, LoopAssumption DEF Propose, Sound, Poised, Working, Back, Ok
<1>7. Poised(p, d, spawned[pointer], rounds[pointer])
  BY <1>2, <1>4, <1>5 DEF Propose, Poised, Inside, Working, Back, Ok
<1>8. disk[pointer].delivery # 0 =>
        d.delivery = disk[pointer].delivery /\ d.workers = disk[pointer].workers
  BY <1>2, <1>5 DEF Propose, Poised, Working, Back, Ok
<1> QED
  BY <1>1, <1>3, <1>4, <1>5, <1>6, <1>7, <1>8, StillStep DEF Inside

LEMMA ReviewedInv ==
  ASSUME Inv, NEW s \in Supervisors, Reviewed(s)
  PROVE  Inv' /\ Stand
<1> DEFINE p == [run[s] EXCEPT !.at = "call", !.cmd = "types"]
           d == disk[pointer]
<1>1. run[s].at \in Inside /\ ~(Child(s) /\ run[s].cmd = "worker")
  BY DEF Reviewed, Inside, Child, Back, Ok
<1>2. run[s] \in Process /\ disk[pointer] \in State /\ Mine(s) = disk[pointer]
      /\ run[s].gen = pointer /\ disk = [disk EXCEPT ![pointer] = disk[pointer]]
      /\ Sound(pointer, disk[pointer], spawned[pointer], rounds[pointer])
      /\ Poised(run[s], disk[pointer], spawned[pointer], rounds[pointer])
  BY <1>1, OwnerFacts
<1>3. Still /\ run' = [run EXCEPT ![s] = p] /\ disk' = [disk EXCEPT ![pointer] = d]
  BY <1>2 DEF Reviewed, Still, Quiet, world, budget, Go, Call, Persist
<1>4. p \in Process /\ p.at = "call" /\ p.cmd = "types" /\ p.gen = run[s].gen
      /\ p.patch = run[s].patch
  BY <1>2 DEF Reviewed, Process, Places, Labels
<1>5. d \in State /\ d.workers = disk[pointer].workers
      /\ d.failures = disk[pointer].failures
      /\ d.pending = disk[pointer].pending /\ d.patches = disk[pointer].patches
      /\ d.delivery = disk[pointer].delivery
      /\ d.previous = disk[pointer].previous /\ d.phase = disk[pointer].phase
  BY <1>2 DEF State, Phases
<1>6. Sound(pointer, d, spawned[pointer], rounds[pointer])
  BY <1>1, <1>2, <1>5, LoopAssumption DEF Reviewed, Sound, Poised, Working, Back, Ok
<1>7. Poised(p, d, spawned[pointer], rounds[pointer])
  BY <1>2, <1>4, <1>5 DEF Reviewed, Poised, Inside, Working, Back, Ok
<1>8. disk[pointer].delivery # 0 =>
        d.delivery = disk[pointer].delivery /\ d.workers = disk[pointer].workers
  BY <1>2, <1>5 DEF Reviewed, Poised, Working, Back, Ok
<1> QED
  BY <1>1, <1>3, <1>4, <1>5, <1>6, <1>7, <1>8, StillStep DEF Inside

LEMMA TypedInv ==
  ASSUME Inv, NEW s \in Supervisors, Typed(s)
  PROVE  Inv' /\ Stand
<1> DEFINE p == [run[s] EXCEPT !.at = "call", !.cmd = "tests"]
           d == disk[pointer]
<1>1. run[s].at \in Inside /\ ~(Child(s) /\ run[s].cmd = "worker")
  BY DEF Typed, Inside, Child, Back, Ok
<1>2. run[s] \in Process /\ disk[pointer] \in State /\ Mine(s) = disk[pointer]
      /\ run[s].gen = pointer /\ disk = [disk EXCEPT ![pointer] = disk[pointer]]
      /\ Sound(pointer, disk[pointer], spawned[pointer], rounds[pointer])
      /\ Poised(run[s], disk[pointer], spawned[pointer], rounds[pointer])
  BY <1>1, OwnerFacts
<1>3. Still /\ run' = [run EXCEPT ![s] = p] /\ disk' = [disk EXCEPT ![pointer] = d]
  BY <1>2 DEF Typed, Still, Quiet, world, budget, Go, Call, Persist
<1>4. p \in Process /\ p.at = "call" /\ p.cmd = "tests" /\ p.gen = run[s].gen
      /\ p.patch = run[s].patch
  BY <1>2 DEF Typed, Process, Places, Labels
<1>5. d \in State /\ d.workers = disk[pointer].workers
      /\ d.failures = disk[pointer].failures
      /\ d.pending = disk[pointer].pending /\ d.patches = disk[pointer].patches
      /\ d.delivery = disk[pointer].delivery
      /\ d.previous = disk[pointer].previous /\ d.phase = disk[pointer].phase
  BY <1>2 DEF State, Phases
<1>6. Sound(pointer, d, spawned[pointer], rounds[pointer])
  BY <1>1, <1>2, <1>5, LoopAssumption DEF Typed, Sound, Poised, Working, Back, Ok
<1>7. Poised(p, d, spawned[pointer], rounds[pointer])
  BY <1>2, <1>4, <1>5 DEF Typed, Poised, Inside, Working, Back, Ok
<1>8. disk[pointer].delivery # 0 =>
        d.delivery = disk[pointer].delivery /\ d.workers = disk[pointer].workers
  BY <1>2, <1>5 DEF Typed, Poised, Working, Back, Ok
<1> QED
  BY <1>1, <1>3, <1>4, <1>5, <1>6, <1>7, <1>8, StillStep DEF Inside

LEMMA IncompleteInv ==
  ASSUME Inv, NEW s \in Supervisors, Incomplete(s)
  PROVE  Inv' /\ Stand
<1> DEFINE p == [run[s] EXCEPT !.at = "loop"]
           d == disk[pointer]
<1>1. run[s].at \in Inside /\ ~(Child(s) /\ run[s].cmd = "worker")
  BY DEF Incomplete, Inside, Child, Back, Ok
<1>2. run[s] \in Process /\ disk[pointer] \in State /\ Mine(s) = disk[pointer]
      /\ run[s].gen = pointer /\ disk = [disk EXCEPT ![pointer] = disk[pointer]]
      /\ Sound(pointer, disk[pointer], spawned[pointer], rounds[pointer])
      /\ Poised(run[s], disk[pointer], spawned[pointer], rounds[pointer])
  BY <1>1, OwnerFacts
<1>3. Still /\ run' = [run EXCEPT ![s] = p] /\ disk' = [disk EXCEPT ![pointer] = d]
  BY <1>2 DEF Incomplete, Still, Quiet, world, budget, Go, Call, Persist
<1>4. p \in Process /\ p.at = "loop" /\ p.cmd = run[s].cmd /\ p.gen = run[s].gen
      /\ p.patch = run[s].patch
  BY <1>2 DEF Incomplete, Process, Places, Labels
<1>5. d \in State /\ d.workers = disk[pointer].workers
      /\ d.failures = disk[pointer].failures
      /\ d.pending = disk[pointer].pending /\ d.patches = disk[pointer].patches
      /\ d.delivery = disk[pointer].delivery
      /\ d.previous = disk[pointer].previous /\ d.phase = disk[pointer].phase
  BY <1>2 DEF State, Phases
<1>6. Sound(pointer, d, spawned[pointer], rounds[pointer])
  BY <1>1, <1>2, <1>5, LoopAssumption DEF Incomplete, Sound, Poised, Working, Back, Ok
<1>7. Poised(p, d, spawned[pointer], rounds[pointer])
  BY <1>2, <1>4, <1>5 DEF Incomplete, Poised, Inside, Working, Back, Ok
<1>8. disk[pointer].delivery # 0 =>
        d.delivery = disk[pointer].delivery /\ d.workers = disk[pointer].workers
  BY <1>2, <1>5 DEF Incomplete, Poised, Working, Back, Ok
<1> QED
  BY <1>1, <1>3, <1>4, <1>5, <1>6, <1>7, <1>8, StillStep DEF Inside

LEMMA ProceedInv ==
  ASSUME Inv, NEW s \in Supervisors, Proceed(s)
  PROVE  Inv' /\ Stand
<1> DEFINE p == [run[s] EXCEPT !.at = "call", !.cmd = "before"]
           d == disk[pointer]
<1>1. run[s].at \in Inside /\ ~(Child(s) /\ run[s].cmd = "worker")
  BY DEF Proceed, Inside, Child, Back, Ok
<1>2. run[s] \in Process /\ disk[pointer] \in State /\ Mine(s) = disk[pointer]
      /\ run[s].gen = pointer /\ disk = [disk EXCEPT ![pointer] = disk[pointer]]
      /\ Sound(pointer, disk[pointer], spawned[pointer], rounds[pointer])
      /\ Poised(run[s], disk[pointer], spawned[pointer], rounds[pointer])
  BY <1>1, OwnerFacts
<1>3. Still /\ run' = [run EXCEPT ![s] = p] /\ disk' = [disk EXCEPT ![pointer] = d]
  BY <1>2 DEF Proceed, Still, Quiet, world, budget, Go, Call, Persist
<1>4. p \in Process /\ p.at = "call" /\ p.cmd = "before" /\ p.gen = run[s].gen
      /\ p.patch = run[s].patch
  BY <1>2 DEF Proceed, Process, Places, Labels
<1>5. d \in State /\ d.workers = disk[pointer].workers
      /\ d.failures = disk[pointer].failures
      /\ d.pending = disk[pointer].pending /\ d.patches = disk[pointer].patches
      /\ d.delivery = disk[pointer].delivery
      /\ d.previous = disk[pointer].previous /\ d.phase = disk[pointer].phase
  BY <1>2 DEF State, Phases
<1>6. Sound(pointer, d, spawned[pointer], rounds[pointer])
  BY <1>1, <1>2, <1>5, LoopAssumption DEF Proceed, Sound, Poised, Working, Back, Ok
<1>7. Poised(p, d, spawned[pointer], rounds[pointer])
  BY <1>2, <1>4, <1>5 DEF Proceed, Poised, Inside, Working, Back, Ok
<1>8. disk[pointer].delivery # 0 =>
        d.delivery = disk[pointer].delivery /\ d.workers = disk[pointer].workers
  BY <1>2, <1>5 DEF Proceed, Poised, Working, Back, Ok
<1> QED
  BY <1>1, <1>3, <1>4, <1>5, <1>6, <1>7, <1>8, StillStep DEF Inside

LEMMA FailedInv ==
  ASSUME Inv, NEW s \in Supervisors, NEW k \in Keys, Failed(s), Persist(s, [Mine(s) EXCEPT !.pending = k, !.phase = "READY"])
  PROVE  Inv' /\ Stand
<1> DEFINE p == [run[s] EXCEPT !.at = "loop"]
           d == [disk[pointer] EXCEPT !.pending = k, !.phase = "READY"]
<1>1. run[s].at \in Inside /\ ~(Child(s) /\ run[s].cmd = "worker")
  BY DEF Failed, Inside, Child, Back, Ok
<1>2. run[s] \in Process /\ disk[pointer] \in State /\ Mine(s) = disk[pointer]
      /\ run[s].gen = pointer /\ disk = [disk EXCEPT ![pointer] = disk[pointer]]
      /\ Sound(pointer, disk[pointer], spawned[pointer], rounds[pointer])
      /\ Poised(run[s], disk[pointer], spawned[pointer], rounds[pointer])
  BY <1>1, OwnerFacts
<1>3. Still /\ run' = [run EXCEPT ![s] = p] /\ disk' = [disk EXCEPT ![pointer] = d]
  BY <1>2 DEF Failed, Still, Quiet, world, budget, Go, Call, Persist
<1>4. p \in Process /\ p.at = "loop" /\ p.cmd = run[s].cmd /\ p.gen = run[s].gen
      /\ p.patch = run[s].patch
  BY <1>2 DEF Failed, Process, Places, Labels
<1>5. d \in State /\ d.pending = k /\ d.phase = "READY"
      /\ d.workers = disk[pointer].workers
      /\ d.failures = disk[pointer].failures
      /\ d.patches = disk[pointer].patches
      /\ d.delivery = disk[pointer].delivery
      /\ d.previous = disk[pointer].previous
  BY <1>2 DEF State, Phases
<1>6. Sound(pointer, d, spawned[pointer], rounds[pointer])
  BY <1>1, <1>2, <1>5, LoopAssumption DEF Failed, Sound, Poised, Working, Back, Ok
<1>7. Poised(p, d, spawned[pointer], rounds[pointer])
  BY <1>2, <1>4, <1>5 DEF Failed, Poised, Inside, Working, Back, Ok
<1>8. disk[pointer].delivery # 0 =>
        d.delivery = disk[pointer].delivery /\ d.workers = disk[pointer].workers
  BY <1>2, <1>5 DEF Failed, Poised, Working, Back, Ok
<1> QED
  BY <1>1, <1>3, <1>4, <1>5, <1>6, <1>7, <1>8, StillStep DEF Inside

LEMMA ThrowInv ==
  ASSUME Inv, NEW s \in Supervisors, Throw(s)
  PROVE  Inv' /\ Stand
<1> DEFINE p == [run[s] EXCEPT !.at = "leaving"]
           d == [disk[pointer] EXCEPT !.phase = "BREAK"]
<1>1. run[s].at \in Inside /\ ~(Child(s) /\ run[s].cmd = "worker")
  BY DEF Throw, Inside, Child, Back, Ok
<1>2. run[s] \in Process /\ disk[pointer] \in State /\ Mine(s) = disk[pointer]
      /\ run[s].gen = pointer /\ disk = [disk EXCEPT ![pointer] = disk[pointer]]
      /\ Sound(pointer, disk[pointer], spawned[pointer], rounds[pointer])
      /\ Poised(run[s], disk[pointer], spawned[pointer], rounds[pointer])
  BY <1>1, OwnerFacts
<1>3. Still /\ run' = [run EXCEPT ![s] = p] /\ disk' = [disk EXCEPT ![pointer] = d]
  BY <1>2 DEF Throw, Still, Quiet, world, budget, Go, Call, Persist
<1>4. p \in Process /\ p.at = "leaving" /\ p.cmd = run[s].cmd /\ p.gen = run[s].gen
      /\ p.patch = run[s].patch
  BY <1>2 DEF Throw, Process, Places, Labels
<1>5. d \in State /\ d.phase = "BREAK" /\ d.workers = disk[pointer].workers
      /\ d.failures = disk[pointer].failures
      /\ d.pending = disk[pointer].pending /\ d.patches = disk[pointer].patches
      /\ d.delivery = disk[pointer].delivery
      /\ d.previous = disk[pointer].previous
  BY <1>2 DEF State, Phases
<1>6. Sound(pointer, d, spawned[pointer], rounds[pointer])
  BY <1>1, <1>2, <1>5, LoopAssumption DEF Throw, Sound, Poised, Working, Back, Ok
<1>7. Poised(p, d, spawned[pointer], rounds[pointer])
  BY <1>2, <1>4, <1>5 DEF Throw, Poised, Inside, Working, Back, Ok
<1>8. disk[pointer].delivery # 0 =>
        d.delivery = disk[pointer].delivery /\ d.workers = disk[pointer].workers
  BY <1>2, <1>5 DEF Throw, Poised, Working, Back, Ok
<1> QED
  BY <1>1, <1>3, <1>4, <1>5, <1>6, <1>7, <1>8, StillStep DEF Inside

LEMMA ChargeState ==
  ASSUME NEW d \in State, d.pending \in Keys
  PROVE  /\ Charge(d) \in State
         /\ Charge(d).phase = "REPAIR" /\ Charge(d).workers = d.workers
         /\ Charge(d).pending = d.pending /\ Charge(d).patches = d.patches
         /\ Charge(d).delivery = d.delivery /\ Charge(d).previous = d.previous
         /\ Charge(d).failures = [d.failures EXCEPT ![d.pending] = @ + 1]
<1>1. d.failures \in [Keys -> Nat]
  BY DEF State
<1>2. [d.failures EXCEPT ![d.pending] = @ + 1] \in [Keys -> Nat]
  BY <1>1
<1>3. Charge(d) = [d EXCEPT !.failures = [d.failures EXCEPT ![d.pending] = @ + 1],
                            !.phase = "REPAIR"]
  BY DEF Charge, State
<1> QED
  BY <1>2, <1>3 DEF State, Phases

LEMMA AttemptState ==
  ASSUME NEW d \in State, NEW k \in Keys
  PROVE  /\ Attempt(d, k) \in State
         /\ Attempt(d, k).phase = "WORKER" /\ Attempt(d, k).workers = d.workers + 1
         /\ Attempt(d, k).pending = k /\ Attempt(d, k).patches = d.patches
         /\ Attempt(d, k).delivery = d.delivery /\ Attempt(d, k).previous = d.previous
         /\ Attempt(d, k).failures = d.failures
<1>1. d.workers + 1 \in Nat /\ "WORKER" \in Phases /\ k \in Keys \cup {None}
  BY DEF State, Phases
<1>2. Attempt(d, k) = [d EXCEPT !.workers = d.workers + 1, !.pending = k, !.phase = "WORKER"]
  BY DEF Attempt, State
<1>3. Attempt(d, k) \in State
  BY <1>1, <1>2 DEF State
<1> QED
  BY <1>2, <1>3 DEF State

LEMMA RepairInv ==
  ASSUME Inv, NEW s \in Supervisors, Repair(s)
  PROVE  Inv' /\ Stand
<1> DEFINE p == [run[s] EXCEPT !.at = "call", !.cmd = "repair"]
           d == Charge(disk[pointer])
<1>1. run[s].at \in Inside /\ ~(Child(s) /\ run[s].cmd = "worker")
  BY DEF Repair, Inside, Child
<1>2. run[s] \in Process /\ disk[pointer] \in State /\ Mine(s) = disk[pointer]
      /\ run[s].gen = pointer /\ disk = [disk EXCEPT ![pointer] = disk[pointer]]
      /\ Sound(pointer, disk[pointer], spawned[pointer], rounds[pointer])
      /\ Poised(run[s], disk[pointer], spawned[pointer], rounds[pointer])
  BY <1>1, OwnerFacts
<1>3. Still /\ run' = [run EXCEPT ![s] = p] /\ disk' = [disk EXCEPT ![pointer] = d]
  BY <1>2 DEF Repair, Still, Quiet, world, budget, Call, Persist
<1>4. p \in Process /\ p.at = "call" /\ p.cmd = "repair" /\ p.gen = run[s].gen
  BY <1>2 DEF Process, Places, Labels
<1>5. disk[pointer].pending \in Keys /\ disk[pointer].failures \in [Keys -> Nat]
      /\ disk[pointer].failures[disk[pointer].pending] < RepairsPerIncident
      /\ disk[pointer].delivery = 0 /\ RepairsPerIncident \in Nat
  BY <1>2, LoopAssumption DEF Repair, State, Poised
<1>6. d \in State /\ d.phase = "REPAIR" /\ d.workers = disk[pointer].workers
      /\ d.pending = disk[pointer].pending /\ d.patches = disk[pointer].patches
      /\ d.delivery = 0 /\ d.previous = disk[pointer].previous
      /\ d.failures = [disk[pointer].failures EXCEPT ![disk[pointer].pending] = @ + 1]
  BY <1>2, <1>5, ChargeState
<1>7. rounds[pointer] \in [Keys -> Nat]
  BY <1>1, OwnerFacts
<1>8. \A k \in Keys : /\ rounds[pointer][k] <= d.failures[k]
                      /\ d.failures[k] <= RepairsPerIncident
  <2> SUFFICES ASSUME NEW k \in Keys
               PROVE  rounds[pointer][k] <= d.failures[k] /\ d.failures[k] <= RepairsPerIncident
    OBVIOUS
  <2>1. rounds[pointer][k] \in Nat /\ disk[pointer].failures[k] \in Nat
        /\ rounds[pointer][k] <= disk[pointer].failures[k]
        /\ disk[pointer].failures[k] <= RepairsPerIncident
    BY <1>2, <1>5, <1>7 DEF Sound
  <2> QED
    BY <1>5, <1>6, <2>1
<1>9. Sound(pointer, d, spawned[pointer], rounds[pointer])
  BY <1>2, <1>5, <1>6, <1>8, LoopAssumption DEF Sound
<1>10. rounds[pointer][d.pending] < d.failures[d.pending]
  BY <1>2, <1>5, <1>6, <1>7 DEF Sound
<1>11. Poised(p, d, spawned[pointer], rounds[pointer])
  BY <1>4, <1>5, <1>6, <1>10 DEF Poised
<1> QED
  BY <1>1, <1>3, <1>4, <1>5, <1>6, <1>9, <1>11, StillStep DEF Inside

\* A verified patch is one that was not counted before: it pays for a worker.
LEMMA VerifiedInv ==
  ASSUME Inv, NEW s \in Supervisors, Verified(s)
  PROVE  Inv' /\ Stand
<1> DEFINE p == [run[s] EXCEPT !.at = "call", !.cmd = "before", !.host = FALSE,
                               !.patch = None]
           d == [disk[pointer] EXCEPT !.patches = @ \cup {run[s].patch},
                                      !.pending = None, !.phase = "READY"]
<1>1. run[s].at \in Inside /\ ~(Child(s) /\ run[s].cmd = "worker")
  BY DEF Verified, Back, Ok, Inside, Child
<1>2. run[s] \in Process /\ disk[pointer] \in State /\ Mine(s) = disk[pointer]
      /\ run[s].gen = pointer /\ disk = [disk EXCEPT ![pointer] = disk[pointer]]
      /\ Sound(pointer, disk[pointer], spawned[pointer], rounds[pointer])
      /\ Poised(run[s], disk[pointer], spawned[pointer], rounds[pointer])
  BY <1>1, OwnerFacts
<1>3. Still /\ run' = [run EXCEPT ![s] = p] /\ disk' = [disk EXCEPT ![pointer] = d]
  BY <1>2 DEF Verified, Still, Quiet, world, budget, Persist
<1>4. p \in Process /\ p.at = "call" /\ p.cmd = "before" /\ p.gen = run[s].gen
  BY <1>2 DEF Process, Places, Labels
<1>5. run[s].patch \in Patches \ disk[pointer].patches /\ disk[pointer].delivery = 0
  BY <1>2 DEF Verified, Back, Ok, Poised, Working
<1>6. d \in State /\ d.phase = "READY" /\ d.workers = disk[pointer].workers
      /\ d.pending = None /\ d.patches = disk[pointer].patches \cup {run[s].patch}
      /\ d.delivery = 0 /\ d.previous = disk[pointer].previous
      /\ d.failures = disk[pointer].failures
  BY <1>2, <1>5 DEF State, Phases
<1>7. IsFiniteSet(d.patches) /\ Cardinality(disk[pointer].patches) \in Nat
      /\ Cardinality(d.patches) = Cardinality(disk[pointer].patches) + 1
  <2>1. IsFiniteSet(disk[pointer].patches) /\ run[s].patch \notin disk[pointer].patches
    BY <1>2, <1>5 DEF Sound
  <2> QED
    BY <1>6, <2>1, FS_AddElement, FS_CardinalityType
<1>8. Sound(pointer, d, spawned[pointer], rounds[pointer])
  <2>1. d.workers \in Nat /\ d.workers <= 1 + Cardinality(disk[pointer].patches)
    BY <1>2, <1>6 DEF Sound, State
  <2>2. d.workers <= Cardinality(d.patches) /\ d.workers <= 1 + Cardinality(d.patches)
    BY <1>7, <2>1
  <2> QED
    BY <1>2, <1>6, <1>7, <2>2 DEF Sound
<1>9. Poised(p, d, spawned[pointer], rounds[pointer])
  BY <1>4, <1>6 DEF Poised
<1> QED
  BY <1>1, <1>3, <1>4, <1>5, <1>6, <1>8, <1>9, StillStep DEF Inside

(***************************************************************************)
(* Workers.                                                                *)
(***************************************************************************)
LEMMA DispatchInv ==
  ASSUME Inv, NEW s \in Supervisors, Dispatch(s)
  PROVE  Inv' /\ Stand
<1> PICK k \in Keys : Persist(s, Attempt(Mine(s), k))
  BY DEF Dispatch
<1> DEFINE p == [run[s] EXCEPT !.at = "call", !.cmd = "worker"]
           d == Attempt(disk[pointer], k)
<1>1. run[s].at = "closed" /\ run[s].cmd = "before" /\ run[s].at \in Inside
  BY DEF Dispatch, Back, Ok, Inside
<1>2. run[s] \in Process /\ disk[pointer] \in State /\ Mine(s) = disk[pointer]
      /\ run[s].gen = pointer /\ disk = [disk EXCEPT ![pointer] = disk[pointer]]
      /\ Sound(pointer, disk[pointer], spawned[pointer], rounds[pointer])
      /\ Poised(run[s], disk[pointer], spawned[pointer], rounds[pointer])
  BY <1>1, OwnerFacts
<1>3. pointer \in Generations /\ live = {} /\ spawned \in [Generations -> Nat]
      /\ rounds \in [Generations -> [Keys -> Nat]]
      /\ receipt \in [Generations -> {"none", "failed", "succeeded"}]
  BY <1>1, OwnerFacts DEF Child
<1>4. run' = [run EXCEPT ![s] = p] /\ disk' = [disk EXCEPT ![pointer] = d]
      /\ receipt' = [receipt EXCEPT ![pointer] = "none"]
      /\ UNCHANGED <<pointer, lock, live, spawned, rounds, requests, resolutions, crashes>>
  BY <1>2 DEF Dispatch, budget, Call, Persist
<1>5. p \in Process /\ p.at = "call" /\ p.cmd = "worker" /\ p.gen = run[s].gen
  BY <1>2 DEF Process, Places, Labels
<1>6. disk[pointer].pending = None /\ disk[pointer].delivery = 0
      /\ disk[pointer].phase # "DONE"
  BY <1>1, <1>2 DEF Poised, Inside, Working
<1>7. d \in State /\ d.phase = "WORKER" /\ d.workers = disk[pointer].workers + 1
      /\ d.pending = k /\ d.patches = disk[pointer].patches /\ d.delivery = 0
      /\ d.previous = disk[pointer].previous /\ d.failures = disk[pointer].failures
  BY <1>2, <1>6, AttemptState
<1>8. disk[pointer].workers \in Nat /\ spawned[pointer] \in Nat
      /\ Cardinality(disk[pointer].patches) \in Nat
      /\ disk[pointer].workers <= Cardinality(disk[pointer].patches)
      /\ spawned[pointer] <= disk[pointer].workers
  BY <1>2, <1>3, <1>6, FS_CardinalityType DEF Sound, State
<1>9. Sound(pointer, d, spawned[pointer], rounds[pointer])
  <2>1. spawned[pointer] <= d.workers /\ d.workers <= 1 + Cardinality(d.patches)
    BY <1>7, <1>8
  <2> QED
    BY <1>2, <1>7, <2>1, LoopAssumption DEF Sound
<1>10. Poised(p, d, spawned[pointer], rounds[pointer])
  BY <1>5, <1>7, <1>8 DEF Poised
<1>11. Advance(s, p, d)
  BY <1>1, <1>3, <1>4, <1>5, <1>6, <1>7, <1>9, <1>10 DEF Advance, Inside
<1> QED
  BY <1>11, OwnerStep

LEMMA OnSpawnInv ==
  ASSUME Inv, NEW s \in Supervisors, OnSpawn(s)
  PROVE  Inv' /\ Stand
<1> DEFINE p == [run[s] EXCEPT !.at = "running"]
           d == [disk[pointer] EXCEPT !.child = TRUE]
<1>1. run[s].at = "spawned" /\ run[s].at \in Inside
  BY DEF OnSpawn, Inside
<1>2. run[s] \in Process /\ disk[pointer] \in State /\ Mine(s) = disk[pointer]
      /\ run[s].gen = pointer /\ disk = [disk EXCEPT ![pointer] = disk[pointer]]
      /\ Sound(pointer, disk[pointer], spawned[pointer], rounds[pointer])
      /\ Poised(run[s], disk[pointer], spawned[pointer], rounds[pointer])
  BY <1>1, OwnerFacts
<1>3. pointer \in Generations /\ spawned \in [Generations -> Nat]
      /\ rounds \in [Generations -> [Keys -> Nat]]
      /\ receipt \in [Generations -> {"none", "failed", "succeeded"}]
      /\ (live # {} => live = {<<pointer, disk[pointer].workers>>})
      /\ (run[s].cmd # "worker" => live = {})
  BY <1>1, OwnerFacts
<1>4. run' = [run EXCEPT ![s] = p] /\ disk' = [disk EXCEPT ![pointer] = d]
      /\ UNCHANGED <<pointer, lock, receipt, live, spawned, rounds,
                     requests, resolutions, crashes>>
  BY <1>2 DEF OnSpawn, world, budget, Go, Persist
<1>5. p \in Process /\ p.at = "running" /\ p.cmd = run[s].cmd /\ p.gen = run[s].gen
      /\ p.patch = run[s].patch
  BY <1>2 DEF Process, Places
<1>6. d \in State /\ d.phase = disk[pointer].phase /\ d.workers = disk[pointer].workers
      /\ d.pending = disk[pointer].pending /\ d.patches = disk[pointer].patches
      /\ d.delivery = disk[pointer].delivery /\ d.previous = disk[pointer].previous
      /\ d.failures = disk[pointer].failures /\ d.phase # "NONE"
  BY <1>1, <1>2 DEF State, Poised
<1>7. Sound(pointer, d, spawned[pointer], rounds[pointer])
  BY <1>2, <1>6 DEF Sound
<1>8. Poised(p, d, spawned[pointer], rounds[pointer])
  BY <1>1, <1>2, <1>5, <1>6 DEF Poised, Inside, Working
<1>9. live # {} => d.phase = "WORKER" /\ p.cmd = "worker"
  BY <1>1, <1>2, <1>3, <1>5, <1>6 DEF Poised, Working
<1>10. Advance(s, p, d)
  BY <1>1, <1>3, <1>4, <1>5, <1>6, <1>7, <1>8, <1>9 DEF Advance, Inside
<1> QED
  BY <1>10, OwnerStep

\* A child that ended or was stopped leaves no worker behind.
LEMMA EndingInv ==
  ASSUME Inv, NEW s \in Supervisors, NEW p \in Process,
         NEW d \in {disk[pointer], [disk[pointer] EXCEPT !.child = FALSE]},
         Child(s), p.at \in {"closed", "throwing"}, p.cmd = run[s].cmd,
         p.gen = run[s].gen, p.patch = run[s].patch,
         run' = [run EXCEPT ![s] = p], disk' = [disk EXCEPT ![pointer] = d], Gone(s),
         UNCHANGED <<pointer, lock, receipt, spawned, rounds,
                     requests, resolutions, crashes>>
  PROVE  Inv' /\ Stand
<1>1. run[s].at \in {"spawned", "running"} /\ run[s].at \in Inside
  BY DEF Child, Inside
<1>2. run[s] \in Process /\ disk[pointer] \in State /\ Mine(s) = disk[pointer]
      /\ run[s].gen = pointer /\ disk = [disk EXCEPT ![pointer] = disk[pointer]]
      /\ Sound(pointer, disk[pointer], spawned[pointer], rounds[pointer])
      /\ Poised(run[s], disk[pointer], spawned[pointer], rounds[pointer])
  BY <1>1, OwnerFacts
<1>3. pointer \in Generations /\ spawned \in [Generations -> Nat]
      /\ rounds \in [Generations -> [Keys -> Nat]]
      /\ receipt \in [Generations -> {"none", "failed", "succeeded"}]
      /\ (live # {} => live = {<<pointer, disk[pointer].workers>>})
      /\ (run[s].cmd # "worker" => live = {})
  BY <1>1, OwnerFacts
<1>4. live' = {}
  BY <1>2, <1>3 DEF Gone
<1>5. d \in State /\ d.phase = disk[pointer].phase /\ d.workers = disk[pointer].workers
      /\ d.pending = disk[pointer].pending /\ d.patches = disk[pointer].patches
      /\ d.delivery = disk[pointer].delivery /\ d.previous = disk[pointer].previous
      /\ d.failures = disk[pointer].failures /\ d.phase # "NONE"
  BY <1>1, <1>2 DEF State, Poised
<1>6. Sound(pointer, d, spawned[pointer], rounds[pointer])
  BY <1>2, <1>5 DEF Sound
<1>7. Poised(p, d, spawned[pointer], rounds[pointer])
  BY <1>1, <1>2, <1>5 DEF Poised, Inside, Working
<1>8. Advance(s, p, d)
  BY <1>1, <1>3, <1>4, <1>5, <1>6, <1>7 DEF Advance, Inside
<1> QED
  BY <1>8, OwnerStep

LEMMA CloseInv ==
  ASSUME Inv, NEW s \in Supervisors, NEW out \in {"ok", "fail"}, Close(s, out)
  PROVE  Inv' /\ Stand
<1>1. Child(s) /\ run[s].at \in Inside
  BY DEF Close, Child, Inside
<1>2. run[s] \in Process /\ Mine(s) = disk[pointer] /\ run[s].gen = pointer
  BY <1>1, OwnerFacts
<1> DEFINE p == [run[s] EXCEPT !.at = "closed", !.out = out]
<1>3. p \in Process /\ p.at = "closed" /\ p.cmd = run[s].cmd /\ p.gen = run[s].gen
      /\ p.patch = run[s].patch
  BY <1>2 DEF Process, Places
<1>4. run' = [run EXCEPT ![s] = p] /\ Gone(s)
      /\ disk' = [disk EXCEPT ![pointer] = [disk[pointer] EXCEPT !.child = FALSE]]
      /\ UNCHANGED <<pointer, lock, receipt, spawned, rounds,
                     requests, resolutions, crashes>>
  BY <1>2 DEF Close, Persist, budget
<1> QED
  BY <1>1, <1>3, <1>4, EndingInv

LEMMA StoppedInv ==
  ASSUME Inv, NEW s \in Supervisors, Stopped(s) \/ Tampered(s)
  PROVE  Inv' /\ Stand
<1>1. Child(s) /\ run[s].at \in Inside
  BY DEF Stopped, Tampered, Child, Inside
<1>2. run[s] \in Process /\ Mine(s) = disk[pointer] /\ run[s].gen = pointer
      /\ disk = [disk EXCEPT ![pointer] = disk[pointer]]
  BY <1>1, OwnerFacts
<1> DEFINE p == [run[s] EXCEPT !.at = "throwing"]
<1>3. p \in Process /\ p.at = "throwing" /\ p.cmd = run[s].cmd /\ p.gen = run[s].gen
      /\ p.patch = run[s].patch
  BY <1>2 DEF Process, Places
<1>4. run' = [run EXCEPT ![s] = p] /\ Gone(s)
      /\ UNCHANGED <<pointer, lock, receipt, spawned, rounds,
                     requests, resolutions, crashes>>
  BY <1>2 DEF Stopped, Tampered, Go, budget
<1>5. disk' = [disk EXCEPT ![pointer] = [disk[pointer] EXCEPT !.child = FALSE]]
      \/ disk' = [disk EXCEPT ![pointer] = disk[pointer]]
  BY <1>2 DEF Stopped, Tampered, Persist
<1> QED
  BY <1>1, <1>3, <1>4, <1>5, EndingInv

LEMMA WorkedInv ==
  ASSUME Inv, NEW s \in Supervisors, Worked(s)
  PROVE  Inv' /\ Stand
<1> DEFINE p == [run[s] EXCEPT !.at = "call", !.cmd = "after"]
           d == IF run[s].out = "ok"
                THEN [disk[pointer] EXCEPT !.delivery = disk[pointer].workers]
                ELSE disk[pointer]
<1>1. run[s].at = "closed" /\ run[s].cmd = "worker" /\ run[s].at \in Inside /\ ~Child(s)
  BY DEF Worked, Back, Inside, Child
<1>2. run[s] \in Process /\ disk[pointer] \in State /\ Mine(s) = disk[pointer]
      /\ run[s].gen = pointer /\ disk = [disk EXCEPT ![pointer] = disk[pointer]]
      /\ Sound(pointer, disk[pointer], spawned[pointer], rounds[pointer])
      /\ Poised(run[s], disk[pointer], spawned[pointer], rounds[pointer])
  BY <1>1, OwnerFacts
<1>3. Still /\ run' = [run EXCEPT ![s] = p] /\ disk' = [disk EXCEPT ![pointer] = d]
  BY <1>2 DEF Worked, Still, Quiet, world, budget, Call, Persist
<1>4. p \in Process /\ p.at = "call" /\ p.cmd = "after" /\ p.gen = run[s].gen
  BY <1>2 DEF Process, Places, Labels
<1>5. disk[pointer].delivery = 0 /\ disk[pointer].phase \notin {"NONE", "DONE"}
  BY <1>1, <1>2 DEF Poised, Inside, Working
<1>6. d \in State /\ d.phase = disk[pointer].phase /\ d.workers = disk[pointer].workers
      /\ d.pending = disk[pointer].pending /\ d.patches = disk[pointer].patches
      /\ (d.delivery = disk[pointer].delivery \/ d.delivery = disk[pointer].workers)
      /\ d.previous = disk[pointer].previous /\ d.failures = disk[pointer].failures
  BY <1>2 DEF State
<1>7. Sound(pointer, d, spawned[pointer], rounds[pointer])
  BY <1>2, <1>5, <1>6 DEF Sound
<1>8. Poised(p, d, spawned[pointer], rounds[pointer])
  BY <1>4, <1>5, <1>6 DEF Poised
<1> QED
  BY <1>1, <1>3, <1>4, <1>5, <1>6, <1>7, <1>8, StillStep DEF Inside


(***************************************************************************)
(* Admission.                                                              *)
(***************************************************************************)
LEMMA LockedFacts ==
  ASSUME Inv, NEW s \in Supervisors, run[s].at = "locked"
  PROVE  /\ pointer \in Generations /\ run[s].gen = pointer /\ run[s] \in Process
         /\ Mine(s) = disk[pointer] /\ disk[pointer] \in State
         /\ spawned \in [Generations -> Nat]
         /\ rounds \in [Generations -> [Keys -> Nat]]
         /\ receipt \in [Generations -> {"none", "failed", "succeeded"}]
         /\ Sound(pointer, disk[pointer], spawned[pointer], rounds[pointer])
         /\ disk[pointer].phase # "WORKER" => live = {}
         /\ resolutions \in Nat
BY DEF Inv, TypeOK, OwnerInv, SoundInv, LiveInv, Mine, Inside

LEMMA FreshSound ==
  ASSUME NEW g \in Generations, NEW n, NEW r, Sound(g, Absent, n, r),
         NEW stamp, stamp # None => stamp.gen < g
  PROVE  Sound(g, Fresh(stamp), n, r)
<1>1. Fresh(stamp).phase = "READY" /\ Fresh(stamp).workers = Absent.workers
      /\ Fresh(stamp).failures = Absent.failures /\ Fresh(stamp).pending = None
      /\ Fresh(stamp).patches = Absent.patches /\ Fresh(stamp).delivery = 0
      /\ Fresh(stamp).previous = stamp
  BY DEF Fresh, Absent
<1>2. Absent.workers = 0 /\ Absent.patches = {} /\ Cardinality({}) = 0
  BY FS_EmptySet DEF Absent
<1> QED
  BY <1>1, <1>2 DEF Sound

LEMMA AdmitFreshInv ==
  ASSUME Inv, NEW s \in Supervisors, AdmitFresh(s)
  PROVE  Inv' /\ Stand
<1> DEFINE p == [run[s] EXCEPT !.at = "admitted"]
           d == Fresh(None)
<1>1. run[s].at = "locked" /\ disk[pointer].phase = "NONE" /\ disk[pointer] = Absent
      /\ live = {}
  BY LockedFacts DEF AdmitFresh, Sound
<1>2. p \in Process /\ p.at = "admitted" /\ p.gen = run[s].gen
  BY <1>1, LockedFacts DEF Process, Places
<1>3. d \in State /\ d.phase = "READY"
  BY FreshState DEF Fresh, Absent
<1>4. run' = [run EXCEPT ![s] = p] /\ disk' = [disk EXCEPT ![pointer] = d]
      /\ UNCHANGED <<pointer, lock, receipt, live, spawned, rounds,
                     requests, resolutions, crashes>>
  BY <1>1, LockedFacts DEF AdmitFresh, Persist, Go, world, budget
<1>5. Sound(pointer, d, spawned[pointer], rounds[pointer])
  BY <1>1, LockedFacts, FreshSound
<1>6. Poised(p, d, spawned[pointer], rounds[pointer])
  BY <1>2, <1>3 DEF Poised, Working
<1>7. disk[pointer].delivery = 0
  BY <1>1 DEF Absent
<1>8. Advance(s, p, d)
  BY <1>1, <1>2, <1>3, <1>4, <1>5, <1>6, <1>7, LockedFacts DEF Advance, Inside
<1> QED
  BY <1>8, OwnerStep

LEMMA AdmitInv ==
  ASSUME Inv, NEW s \in Supervisors, Admit(s)
  PROVE  Inv' /\ Stand
<1> DEFINE p == [run[s] EXCEPT !.at = "admitted"]
           old == disk[pointer]
           d == IF old.phase = "DONE" /\ old.delivery = 0
                THEN [old EXCEPT !.delivery = old.workers] ELSE old
<1>1. run[s].at = "locked" /\ old \in State /\ old.phase \in {"READY", "DONE"}
      /\ (old.phase = "DONE" => old.workers >= 1) /\ live = {}
  BY LockedFacts DEF Admit, Settled
<1>2. p \in Process /\ p.at = "admitted" /\ p.gen = run[s].gen
  BY <1>1, LockedFacts DEF Process, Places
<1>3. d \in State /\ d.phase = old.phase /\ d.workers = old.workers
      /\ d.pending = old.pending /\ d.patches = old.patches
      /\ d.previous = old.previous /\ d.failures = old.failures
      /\ (old.delivery # 0 => d.delivery = old.delivery)
      /\ (d.phase = "DONE" => d.delivery # 0)
      /\ (d.delivery = 0 => old.delivery = 0)
  BY <1>1 DEF State
<1>4. run' = [run EXCEPT ![s] = p] /\ disk' = [disk EXCEPT ![pointer] = d]
      /\ UNCHANGED <<pointer, lock, receipt, live, spawned, rounds,
                     requests, resolutions, crashes>>
  BY <1>1, LockedFacts DEF Admit, Persist, Go, world, budget
<1>5. Sound(pointer, d, spawned[pointer], rounds[pointer])
  BY <1>1, <1>3, LockedFacts DEF Sound
<1>6. Poised(p, d, spawned[pointer], rounds[pointer])
  BY <1>1, <1>2, <1>3 DEF Poised, Working
<1>7. Advance(s, p, d)
  BY <1>1, <1>2, <1>3, <1>4, <1>5, <1>6, LockedFacts DEF Advance, Inside
<1> QED
  BY <1>7, OwnerStep

LEMMA RestStep ==
  ASSUME Inv, UNCHANGED <<disk, pointer, spawned, rounds>>,
         receipt' \in [Generations -> {"none", "failed", "succeeded"}],
         live' \subseteq live, run' \in [Supervisors -> Process],
         lock' \in Supervisors \cup {"free", "stale"},
         requests' \in Nat, resolutions' \in Nat, crashes' \in Nat,
         \A t \in Supervisors :
           /\ \/ run'[t] = run[t]
              \/ run'[t].at \in {"off", "asked"}
              \/ run'[t].at = "locked" /\ run'[t].gen = pointer
           /\ run'[t].at \notin {"off", "asked"} => lock' = t
  PROVE  Inv' /\ Stand
<1>1. TypeOK'
  BY DEF Inv, TypeOK
<1>2. SoundInv'
  BY DEF Inv, SoundInv
<1>3. OwnerInv'
  <2> SUFFICES ASSUME NEW t \in Supervisors
               PROVE  /\ run'[t].at \notin {"off", "asked"} => lock' = t
                      /\ run'[t].at \in Inside \cup {"locked"} => run'[t].gen = pointer
                      /\ run'[t].at = "publish" => /\ run'[t].gen > pointer
                                                   /\ disk[run'[t].gen].phase = "READY"
                      /\ Poised(run'[t], disk[run'[t].gen], spawned[run'[t].gen],
                                rounds[run'[t].gen])
    BY DEF OwnerInv
  <2>1. CASE run'[t] = run[t]
    BY <2>1 DEF Inv, OwnerInv
  <2>2. CASE run'[t].at \in {"off", "asked"} \/ (run'[t].at = "locked" /\ run'[t].gen = pointer)
    BY <2>2 DEF Poised, Inside, Working
  <2> QED
    BY <2>1, <2>2
<1>4. LiveInv'
  <2>1. live' = {} \/ live' = live
    BY DEF Inv, LiveInv
  <2>2. \A t \in Supervisors : run'[t].at \in Inside \cup {"publish"} => run'[t] = run[t]
    BY DEF Inside
  <2> QED
    BY <2>1, <2>2 DEF Inv, LiveInv, Child
<1>5. Stand
  <2>1. pointer \in Nat
    BY ZeroInGenerations DEF Inv, TypeOK
  <2> QED
    BY <2>1 DEF Stand
<1> QED
  BY <1>1, <1>2, <1>3, <1>4, <1>5 DEF Inv

LEMMA AdmitResolvedInv ==
  ASSUME Inv, NEW s \in Supervisors, AdmitResolved(s)
  PROVE  Inv' /\ Stand
<1> DEFINE host == run[s].ask.kind = "host"
           p == [run[s] EXCEPT !.at = "admitted", !.host = host]
           old == disk[pointer]
           d == [old EXCEPT !.phase = "READY", !.resolutions = @ + 1]
<1>1. run[s].at = "locked" /\ old \in State /\ old.phase = "BREAK" /\ live = {}
      /\ host \in BOOLEAN
  BY LockedFacts DEF AdmitResolved
<1>2. p \in Process /\ p.at = "admitted" /\ p.gen = run[s].gen
  BY <1>1, LockedFacts DEF Process, Places
<1>3. d \in State /\ d.phase = "READY" /\ d.workers = old.workers
      /\ d.pending = old.pending /\ d.patches = old.patches
      /\ d.previous = old.previous /\ d.failures = old.failures
      /\ d.delivery = old.delivery
  <2>1. old.resolutions + 1 \in Nat /\ "READY" \in Phases
    BY <1>1 DEF State, Phases
  <2>2. d = [old EXCEPT !.phase = "READY", !.resolutions = old.resolutions + 1]
    BY <1>1 DEF State
  <2>3. d \in State
    BY <1>1, <2>1, <2>2 DEF State
  <2> QED
    BY <1>1, <2>2, <2>3 DEF State
<1>4. run' = [run EXCEPT ![s] = p] /\ disk' = [disk EXCEPT ![pointer] = d]
      /\ UNCHANGED <<pointer, lock, receipt, live, spawned, rounds, requests, crashes>>
      /\ resolutions' = resolutions + 1
  BY <1>1, LockedFacts DEF AdmitResolved, Persist, world
<1>5. Sound(pointer, d, spawned[pointer], rounds[pointer])
  BY <1>1, <1>3, LockedFacts DEF Sound
<1>6. Poised(p, d, spawned[pointer], rounds[pointer])
  BY <1>2, <1>3 DEF Poised, Working
<1>7. Advance(s, p, d)
  BY <1>1, <1>2, <1>3, <1>4, <1>5, <1>6, LockedFacts DEF Advance, Inside
<1> QED
  BY <1>7, OwnerStep

\* A generation is staged beyond the pointer, so no settled file changes.
LEMMA StageInv ==
  ASSUME Inv, NEW s \in Supervisors, Stage(s)
  PROVE  Inv' /\ Stand
<1> DEFINE key == run[s].ask.key
<1> USE ZeroInGenerations
<1>1. run[s].at = "locked" /\ lock = s /\ disk[pointer].phase = "DONE" /\ live = {}
      /\ pointer \in Generations /\ key = StateHash(pointer)
  BY LockedFacts DEF Stage, Inv, OwnerInv, Inside
<1>2. key \in Stamp /\ key.gen = pointer /\ key # None
  BY <1>1, LockedFacts, StampAssumption DEF StateHash, Stamp, State
<1>3. PICK g \in Generations :
        /\ \/ disk[g].previous = key /\ disk[g].phase = "READY" /\ disk' = disk
           \/ /\ disk[g].phase = "NONE" /\ g > pointer
              /\ disk' = [disk EXCEPT ![g] = Fresh(key)]
        /\ run' = [run EXCEPT ![s].at = "publish", ![s].gen = g]
  BY DEF Stage
<1>4. Sound(g, disk[g], spawned[g], rounds[g]) /\ disk \in [Generations -> State]
      /\ run \in [Supervisors -> Process]
  BY DEF Inv, SoundInv, TypeOK
<1>5. g > pointer
  BY <1>1, <1>2, <1>3, <1>4 DEF Sound
<1>6. disk[g].phase = "NONE" => disk[g] = Absent
  BY <1>4 DEF Sound
<1>7. Fresh(key) \in State /\ Fresh(key).phase = "READY"
  BY <1>2, FreshState DEF Fresh, Absent
<1>8. /\ disk' \in [Generations -> State] /\ disk'[g].phase = "READY"
      /\ \A h \in Generations \ {g} : disk'[h] = disk[h]
  BY <1>3, <1>4, <1>7
<1>9. /\ run' \in [Supervisors -> Process] /\ run'[s].at = "publish" /\ run'[s].gen = g
      /\ \A t \in Supervisors \ {s} : run'[t] = run[t] /\ run[t].at \in {"off", "asked"}
  BY <1>1, <1>3, <1>4 DEF Inv, OwnerInv, Process, Places
<1>10. UNCHANGED <<pointer, lock, receipt, live, spawned, rounds,
                   requests, resolutions, crashes>>
  BY DEF Stage, world, budget
<1>11. TypeOK'
  BY <1>8, <1>9, <1>10 DEF Inv, TypeOK
<1>12. SoundInv'
  <2> SUFFICES ASSUME NEW h \in Generations
               PROVE  Sound(h, disk'[h], spawned[h], rounds[h])
    BY <1>10 DEF SoundInv
  <2>1. Sound(h, disk[h], spawned[h], rounds[h])
    BY DEF Inv, SoundInv
  <2>2. CASE disk'[h] = disk[h]
    BY <2>1, <2>2
  <2>3. CASE disk'[h] # disk[h]
    <3>1. h = g /\ disk[g] = Absent /\ disk'[g] = Fresh(key)
      BY <1>3, <1>4, <1>6, <1>8, <2>3
    <3>2. Sound(g, Fresh(key), spawned[g], rounds[g])
      BY <1>2, <1>4, <1>5, <3>1, FreshSound
    <3> QED
      BY <3>1, <3>2
  <2> QED
    BY <2>2, <2>3
<1>13. OwnerInv'
  <2> SUFFICES ASSUME NEW t \in Supervisors
               PROVE  /\ run'[t].at \notin {"off", "asked"} => lock = t
                      /\ run'[t].at \in Inside \cup {"locked"} => run'[t].gen = pointer
                      /\ run'[t].at = "publish" => /\ run'[t].gen > pointer
                                                   /\ disk'[run'[t].gen].phase = "READY"
                      /\ Poised(run'[t], disk'[run'[t].gen], spawned[run'[t].gen],
                                rounds[run'[t].gen])
    BY <1>10 DEF OwnerInv
  <2>1. CASE t = s
    BY <1>1, <1>5, <1>8, <1>9, <2>1 DEF Poised, Inside, Working
  <2>2. CASE t # s
    <3>1. run'[t].at \in {"off", "asked"}
      BY <1>9, <2>2
    <3> QED
      BY <3>1 DEF Poised, Inside, Working
  <2> QED
    BY <2>1, <2>2
<1>14. LiveInv'
  BY <1>1, <1>10 DEF LiveInv
<1>15. Stand
  <2>1. \A h \in Generations : disk[h].delivery # 0 => disk'[h] = disk[h]
    BY <1>3, <1>6, <1>8 DEF Absent
  <2>2. \A h \in Generations : h < pointer => disk'[h] = disk[h]
    BY <1>1, <1>5, <1>8
  <2> QED
    BY <1>1, <1>10, <2>1, <2>2 DEF Stand
<1> QED
  BY <1>11, <1>12, <1>13, <1>14, <1>15 DEF Inv

LEMMA PublishInv ==
  ASSUME Inv, NEW s \in Supervisors, Publish(s)
  PROVE  Inv' /\ Stand
<1> USE ZeroInGenerations
<1>1. run[s].at = "publish" /\ lock = s /\ live = {} /\ pointer \in Generations
      /\ run[s].gen > pointer /\ disk[run[s].gen].phase = "READY"
      /\ run \in [Supervisors -> Process] /\ run[s].gen \in Generations
  BY DEF Publish, Inv, TypeOK, OwnerInv, LiveInv, Child, Process
<1>2. UNCHANGED <<disk, lock, receipt, live, spawned, rounds,
                  requests, resolutions, crashes>>
      /\ pointer' = run[s].gen
  BY DEF Publish, world, budget
<1>3. /\ run' \in [Supervisors -> Process] /\ run'[s].at = "admitted"
      /\ run'[s].gen = run[s].gen
      /\ \A t \in Supervisors \ {s} : run'[t] = run[t] /\ run[t].at \in {"off", "asked"}
  BY <1>1 DEF Publish, Go, Inv, OwnerInv, Process, Places
<1>4. TypeOK'
  BY <1>1, <1>2, <1>3 DEF Inv, TypeOK
<1>5. SoundInv'
  BY <1>2 DEF Inv, SoundInv
<1>6. OwnerInv'
  <2> SUFFICES ASSUME NEW t \in Supervisors
               PROVE  /\ run'[t].at \notin {"off", "asked"} => lock = t
                      /\ run'[t].at \in Inside \cup {"locked"} => run'[t].gen = run[s].gen
                      /\ run'[t].at # "publish"
                      /\ Poised(run'[t], disk[run'[t].gen], spawned[run'[t].gen],
                                rounds[run'[t].gen])
    BY <1>2 DEF OwnerInv
  <2>1. CASE t = s
    BY <1>1, <1>3, <2>1 DEF Poised, Working
  <2>2. CASE t # s
    <3>1. run'[t].at \in {"off", "asked"}
      BY <1>3, <2>2
    <3> QED
      BY <3>1 DEF Poised, Inside, Working
  <2> QED
    BY <2>1, <2>2
<1>7. LiveInv'
  BY <1>1, <1>2 DEF LiveInv
<1>8. Stand
  <2>1. pointer \in Nat /\ run[s].gen \in Nat
    BY <1>1
  <2>2. pointer' >= pointer
    BY <1>1, <1>2, <2>1
  <2> QED
    BY <1>2, <2>2 DEF Stand
<1> QED
  BY <1>4, <1>5, <1>6, <1>7, <1>8 DEF Inv

(***************************************************************************)
(* Steps that write no state file.                                         *)
(***************************************************************************)
LEMMA ComingInv ==
  ASSUME Inv, NEW s \in Supervisors,
         \/ \E kind \in {"plain", "resume", "host", "newrun"} : Ask(s, kind)
         \/ Lock(s) \/ LockPresent(s)
  PROVE  Inv' /\ Stand
<1> USE DEF world, budget
<1>1. ASSUME NEW kind \in {"plain", "resume", "host", "newrun"}, Ask(s, kind)
      PROVE  Inv' /\ Stand
  <2>1. {StateHash(pointer), disk[pointer].previous} \ {None} \subseteq Stamp
    BY DEF Inv, TypeOK, StateHash, Stamp, State
  <2>2. PICK key \in Stamp : run' = [run EXCEPT ![s].at = "asked",
                                                ![s].ask = [kind |-> kind, key |-> key]]
    BY <1>1, <2>1 DEF Ask
  <2>3. run' \in [Supervisors -> Process]
    <3>1. run[s] \in Process /\ [kind |-> kind, key |-> key] \in Request
      BY DEF Inv, TypeOK, Request
    <3>2. [run[s] EXCEPT !.at = "asked", !.ask = [kind |-> kind, key |-> key]] \in Process
      BY <3>1 DEF Process, Places
    <3> QED
      BY <2>2, <3>2 DEF Inv, TypeOK
  <2>4. run'[s].at = "asked" /\ \A t \in Supervisors \ {s} : run'[t] = run[t]
    BY <2>2 DEF Inv, TypeOK, Process
  <2>5. \A t \in Supervisors :
          /\ run'[t] = run[t] \/ run'[t].at \in {"off", "asked"}
          /\ run'[t].at \notin {"off", "asked"} => lock = t
    BY <2>4 DEF Inv, OwnerInv
  <2>6. UNCHANGED <<disk, pointer, lock, receipt, live, spawned, rounds,
                    resolutions, crashes>>
        /\ requests' = requests + 1
    BY <1>1 DEF Ask
  <2>7. TypeOK
    BY DEF Inv
  <2> QED
    BY <2>3, <2>5, <2>6, <2>7, RestStep DEF TypeOK
<1>2. CASE Lock(s)
  <2>1. run' \in [Supervisors -> Process] /\ run'[s].at = "locked" /\ run'[s].gen = pointer
        /\ \A t \in Supervisors \ {s} : run'[t] = run[t]
    <3>1. run[s] \in Process /\ pointer \in Generations
      BY DEF Inv, TypeOK
    <3>2. [run[s] EXCEPT !.at = "locked", !.gen = pointer] \in Process
      BY <3>1 DEF Process, Places
    <3> QED
      BY <1>2, <3>1, <3>2 DEF Lock, Inv, TypeOK, Process
  <2>2. \A t \in Supervisors : run[t].at \in {"off", "asked"}
    BY <1>2, LoopAssumption DEF Lock, Inv, OwnerInv
  <2> QED
    BY <1>2, <2>1, <2>2, RestStep DEF Lock, Inv, TypeOK
<1>3. CASE LockPresent(s)
  <2>1. run' \in [Supervisors -> Process] /\ run'[s].at = "off"
        /\ \A t \in Supervisors \ {s} : run'[t] = run[t]
    BY <1>3, ZeroInGenerations DEF LockPresent, Inv, TypeOK, Process, Places, Off
  <2> QED
    BY <1>3, <2>1, RestStep DEF LockPresent, Inv, TypeOK, OwnerInv
<1> QED
  BY <1>1, <1>2, <1>3

LEMMA GoingInv ==
  ASSUME Inv, NEW s \in Supervisors, Leave(s) \/ Refuse(s) \/ Crash(s)
  PROVE  Inv' /\ Stand
<1> USE DEF world, budget
<1>1. run' \in [Supervisors -> Process] /\ run'[s].at = "off"
      /\ \A t \in Supervisors \ {s} : run'[t] = run[t]
  <2>1. run' = [run EXCEPT ![s] = Off] /\ run \in [Supervisors -> Process]
    BY DEF Leave, Refuse, Crash, Inv, TypeOK
  <2>2. Off \in Process /\ Off.at = "off"
    BY ZeroInGenerations DEF Process, Places, Off
  <2> QED
    BY <2>1, <2>2
<1>2. \A t \in Supervisors \ {s} : lock = s => run'[t].at \in {"off", "asked"}
  BY <1>1 DEF Inv, OwnerInv
<1>3. \A t \in Supervisors : run'[t].at \notin {"off", "asked"} => lock = t /\ t # s
  BY <1>1 DEF Inv, OwnerInv
<1>4. CASE Refuse(s)
  <2>1. lock = s /\ lock' = "free"
    BY <1>4 DEF Refuse, Inv, OwnerInv
  <2> QED
    BY <1>1, <1>2, <1>4, <2>1, RestStep DEF Refuse, Inv, TypeOK
<1>5. CASE Leave(s) \/ Crash(s)
  <2>1. lock' \in Supervisors \cup {"free", "stale"} /\ (lock # s => lock' = lock)
    BY <1>5 DEF Leave, Crash, Inv, TypeOK
  <2>2. crashes' \in Nat
    BY <1>5 DEF Leave, Crash, Inv, TypeOK
  <2> QED
    BY <1>1, <1>3, <1>5, <2>1, <2>2, RestStep DEF Leave, Crash, Inv, TypeOK
<1> QED
  BY <1>4, <1>5

LEMMA WorldInv ==
  ASSUME Inv, OperatorUnlocks \/ \E w \in live : WorkerSaves(w) \/ OrphanEnds(w)
  PROVE  Inv' /\ Stand
<1> USE DEF world, budget
<1>1. CASE OperatorUnlocks
  <2>1. \A t \in Supervisors : run[t].at \in {"off", "asked"}
    BY <1>1, LoopAssumption DEF OperatorUnlocks, Inv, OwnerInv
  <2> QED
    BY <1>1, <2>1, RestStep DEF OperatorUnlocks, Inv, TypeOK
<1>2. ASSUME NEW w \in live, WorkerSaves(w)
      PROVE  Inv' /\ Stand
  <2>1. receipt' \in [Generations -> {"none", "failed", "succeeded"}]
    BY <1>2 DEF WorkerSaves, Inv, TypeOK
  <2> QED
    BY <1>2, <2>1, RestStep DEF WorkerSaves, Inv, TypeOK, OwnerInv
<1>3. ASSUME NEW w \in live, OrphanEnds(w)
      PROVE  Inv' /\ Stand
  BY <1>3, RestStep DEF OrphanEnds, Inv, TypeOK, OwnerInv
<1> QED
  BY <1>1, <1>2, <1>3

(***************************************************************************)
(* Every step.                                                             *)
(***************************************************************************)
LEMMA NextInv == Inv /\ [Next]_vars => Inv' /\ (Stand \/ UNCHANGED vars)
<1> SUFFICES ASSUME Inv, [Next]_vars
             PROVE  Inv' /\ (Stand \/ UNCHANGED vars)
  OBVIOUS
<1>1. CASE UNCHANGED vars
  <2>1. TypeOK' /\ SoundInv' /\ LiveInv'
    BY <1>1 DEF vars, Inv, TypeOK, SoundInv, LiveInv, Child
  <2>2. OwnerInv'
    BY <1>1 DEF vars, Inv, OwnerInv
  <2> QED
    BY <1>1, <2>1, <2>2 DEF Inv
<1>2. ASSUME NEW s \in Supervisors, Opening(s)
      PROVE  Inv' /\ Stand
  BY <1>2, ComingInv, AdmitFreshInv, AdmitInv, AdmitResolvedInv, StageInv, PublishInv,
     BeginInv, GoingInv DEF Opening
<1>3. ASSUME NEW s \in Supervisors, Commanding(s)
      PROVE  Inv' /\ Stand
  BY <1>3, StartInv, OnSpawnInv, StoppedInv, CloseInv DEF Commanding
<1>4. ASSUME NEW s \in Supervisors, Inspected(s)
      PROVE  Inv' /\ Stand
  <2>1. Mine(s) = disk[pointer] /\ disk = [disk EXCEPT ![pointer] = disk[pointer]]
        /\ run[s].gen = pointer
    BY <1>4, OwnerFacts DEF Inspected, Back, Ok, Inside
  <2>2. disk' = disk \/ \E k \in Keys : Persist(s, [Mine(s) EXCEPT !.pending = k])
    BY <1>4, <2>1 DEF Inspected, Persist
  <2> QED
    BY <1>4, <2>2, InspectedCleanInv, InspectedBlockedInv
<1>5. ASSUME NEW s \in Supervisors, Propose(s)
      PROVE  Inv' /\ Stand
  <2>1. PICK q \in Patches \ Mine(s).patches :
          run' = [run EXCEPT ![s].at = "call", ![s].cmd = "review", ![s].patch = q]
    BY <1>5 DEF Propose
  <2> QED
    BY <1>5, <2>1, ProposeInv
<1>6. ASSUME NEW s \in Supervisors, Failed(s)
      PROVE  Inv' /\ Stand
  <2>1. PICK k \in Keys : Persist(s, [Mine(s) EXCEPT !.pending = k, !.phase = "READY"])
    BY <1>6 DEF Failed
  <2> QED
    BY <1>6, <2>1, FailedInv
<1>7. ASSUME NEW s \in Supervisors, Deciding(s)
      PROVE  Inv' /\ Stand
  BY <1>4, <1>5, <1>6, <1>7, VerifyDeliveryInv, DeliveredInv, RepairInv, ReviewedInv,
     TypedInv, IncompleteInv, VerifiedInv, ProceedInv, DispatchInv, WorkedInv, ThrowInv,
     GoingInv DEF Deciding
<1> QED
  BY <1>1, <1>2, <1>3, <1>7, GoingInv, WorldInv DEF Next

LEMMA OneWorkerFollows == Inv => OneWorker
BY DEF Inv, LiveInv, OneWorker

LEMMA AllowanceFollows == Inv => AllowanceHeld
<1> SUFFICES ASSUME Inv, NEW g \in Generations
             PROVE  DispatchEarned(g) /\ RoundsCounted(g)
  BY DEF AllowanceHeld
<1>1. Sound(g, disk[g], spawned[g], rounds[g])
  BY DEF Inv, SoundInv
<1>2. spawned[g] \in Nat /\ disk[g].workers \in Nat /\ Cardinality(disk[g].patches) \in Nat
  BY <1>1, FS_CardinalityType DEF Inv, TypeOK, State, Sound
<1> QED
  BY <1>1, <1>2 DEF Sound, DispatchEarned, RoundsCounted

\* The promises of the places and of the state files hold in every state.
THEOREM Invariance == Spec => []Inv
<1>1. Inv /\ [Next]_vars => Inv'
  BY NextInv
<1> QED
  BY <1>1, InitInv, PTL DEF Spec

\* Every variable keeps its type, for any bounds and any number of supervisors.
THEOREM TypeCorrect == Spec => []TypeOK
<1>1. Inv => TypeOK
  BY DEF Inv
<1> QED
  BY <1>1, Invariance, PTL

\* There is never more than one worker process, whatever supervisors die and
\* whenever their locks are removed (supervisor.ts:85).
THEOREM NeverTwoWorkers == Spec => []OneWorker
BY Invariance, OneWorkerFollows, PTL

\* Each worker after the first is paid for by a verified patch of its own, and
\* no incident gets more repairs than its allowance (supervisor.ts:272, 315).
THEOREM AllowanceAlwaysHeld == Spec => []AllowanceHeld
BY Invariance, AllowanceFollows, PTL

\* A pinned delivery stays, and a replaced generation never changes again
\* (state.ts:22, supervisor.ts:129).
THEOREM SettledAlwaysStands == Spec => SettledStands
<1>1. Inv /\ [Next]_vars => [Stand]_vars
  BY NextInv
<1>2. [][Stand]_vars => SettledStands
  BY PTL DEF Stand, SettledStands
<1> QED
  BY <1>1, <1>2, Invariance, PTL DEF Spec
=============================================================================
