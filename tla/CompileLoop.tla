---------------------------- MODULE CompileLoop ----------------------------
(***************************************************************************)
(* The compile loop of one source (runtime/compile-loop/supervisor.ts): a  *)
(* supervisor process that starts one child process after another (status, *)
(* worker, engineer, reviewer, checks) and keeps all that it has spent in  *)
(* one state file per generation.  A supervisor may die at any point, an   *)
(* operator may then remove its lock and start another one, with or        *)
(* without a resolution for a retained stop.                               *)
(*                                                                         *)
(* Each action ends with a save of the state file, so the owner's memory   *)
(* and the file agree between two actions: "disk" stands for both.         *)
(***************************************************************************)
EXTENDS Naturals, FiniteSets

CONSTANTS
  Supervisors,        \* invocations of the command that may run at once
  Keys,               \* incident identities (digest of phase, work and error)
  Patches,            \* fingerprints a cumulative patch may have
  MaxGeneration,      \* bound: generations of the source
  RepairsPerIncident, \* limits.repairsPerIncident
  MaxCommands,        \* bound: child processes one generation starts
  MaxRequests,        \* bound: commands the operator gives
  MaxResolutions,     \* bound: resolutions of retained stops
  MaxCrashes,         \* bound: deaths of supervisors
  None

ASSUME LoopAssumption ==
  /\ {MaxGeneration, RepairsPerIncident, MaxCommands, MaxRequests,
      MaxResolutions, MaxCrashes} \subseteq Nat
  /\ None \notin Keys \cup Patches \cup Supervisors
  /\ "free" \notin Supervisors /\ "stale" \notin Supervisors

Generations == 0 .. MaxGeneration

VARIABLES
  disk,     \* generation -> its state.json
  pointer,  \* current-generation.json: the generation in use (0 = base)
  receipt,  \* generation -> the result file of its latest worker
  lock,     \* supervisor.lock: "free", its live owner, or "stale" (owner dead)
  run,      \* supervisor -> what its process is doing
  live,     \* worker processes that run: <<generation, number>>
  spawned,  \* generation -> workers started so far
  rounds,   \* generation -> incident -> repair sessions started so far
  requests, resolutions, crashes
vars == <<disk, pointer, receipt, lock, run, live, spawned, rounds,
          requests, resolutions, crashes>>

Phases == {"NONE", "READY", "WORKER", "REPAIR", "VERIFY", "BREAK", "DONE"}
Labels == {"inspect", "before", "after", "worker", "repair", "review",
           "types", "tests", "delivery"}
Places == {"off", "asked", "locked", "publish", "admitted", "loop", "call",
           "spawned", "running", "closed", "throwing", "leaving"}

Stamp == [gen: Generations, commands: Nat, resolutions: Nat, phase: Phases]
\* The placeholder is no state hash.
ASSUME StampAssumption == None \notin Stamp
State == [phase: Phases, workers: Nat, commands: Nat, failures: [Keys -> Nat],
          child: BOOLEAN, pending: Keys \cup {None}, patches: SUBSET Patches,
          delivery: Nat, resolutions: Nat, previous: Stamp \cup {None}]
Request == [kind: {"plain", "resume", "host", "newrun"}, key: Stamp]
Process == [at: Places, cmd: Labels \cup {None}, gen: Generations,
            ask: Request \cup {None}, out: {"ok", "fail", "none"},
            host: BOOLEAN, patch: Patches \cup {None}]

Absent == [phase |-> "NONE", workers |-> 0, commands |-> 0,
           failures |-> [k \in Keys |-> 0], child |-> FALSE, pending |-> None,
           patches |-> {}, delivery |-> 0, resolutions |-> 0, previous |-> None]
Fresh(previous) == [Absent EXCEPT !.phase = "READY", !.previous = previous]
\* A record finished by an older program, which kept no delivery receipt.
LegacyDone == [Absent EXCEPT !.phase = "DONE", !.workers = 1, !.commands = 1]

Off == [at |-> "off", cmd |-> None, gen |-> 0, ask |-> None, out |-> "none",
        host |-> FALSE, patch |-> None]

Init ==
  /\ \E first \in {Absent, LegacyDone} :
       disk = [g \in Generations |-> IF g = 0 THEN first ELSE Absent]
  /\ pointer = 0
  /\ receipt \in [Generations -> {"none", "succeeded"}]
  /\ \A g \in Generations : g # 0 \/ disk[0] = Absent => receipt[g] = "none"
  /\ lock = "free"
  /\ run = [s \in Supervisors |-> Off]
  /\ live = {}
  /\ spawned = [g \in Generations |-> 0]
  /\ rounds = [g \in Generations |-> [k \in Keys |-> 0]]
  /\ requests = 0 /\ resolutions = 0 /\ crashes = 0

-----------------------------------------------------------------------------
(* Helpers.                                                                *)

\* supervision.stateHash: tells any two settled states of a source apart.
StateHash(g) == [gen |-> g, commands |-> disk[g].commands,
                 resolutions |-> disk[g].resolutions, phase |-> disk[g].phase]

Mine(s) == disk[run[s].gen]
Persist(s, state) == disk' = [disk EXCEPT ![run[s].gen] = state]
Go(s, place) == run' = [run EXCEPT ![s].at = place]
Call(s, label) == run' = [run EXCEPT ![s].at = "call", ![s].cmd = label]
Back(s, label) == run[s].at = "closed" /\ run[s].cmd = label
Child(s) == run[s].at \in {"spawned", "running"}

world == <<receipt, live, spawned, rounds>>
budget == <<requests, resolutions, crashes>>

-----------------------------------------------------------------------------
(* The operator's command and the admission of the saved state.            *)

\* The operator gives a command with the hash that status shows now; a new
\* run may also be given with the token that made the present generation, and
\* a resolution is given only for a stop.
Ask(s, kind) ==
  /\ run[s].at = "off" /\ requests < MaxRequests
  /\ kind \in {"resume", "host"} => disk[pointer].phase = "BREAK"
  /\ \E key \in {StateHash(pointer), disk[pointer].previous} \ {None} :
       /\ key = StateHash(pointer) \/ kind = "newrun"
       /\ run' = [run EXCEPT ![s].at = "asked",
                             ![s].ask = [kind |-> kind, key |-> key]]
  /\ requests' = requests + 1
  /\ UNCHANGED <<disk, pointer, lock, resolutions, crashes, world>>

\* writeFileSync(lock, ..., { flag: "wx" }), then the active directory.
Lock(s) ==
  /\ run[s].at = "asked" /\ lock = "free"
  /\ lock' = s
  /\ run' = [run EXCEPT ![s].at = "locked", ![s].gen = pointer]
  /\ UNCHANGED <<disk, pointer, world, budget>>

LockPresent(s) ==
  /\ run[s].at = "asked" /\ lock # "free"
  /\ run' = [run EXCEPT ![s] = Off]
  /\ UNCHANGED <<disk, pointer, lock, world, budget>>

\* Mutant: only the process id is looked at, not the phase.
SettledByPid(state) ==
  /\ ~state.child
  /\ state.phase = "DONE" => state.workers >= 1
  /\ state.delivery # 0 => state.delivery = state.workers

\* What a saved state must satisfy before anything may run from it.
Settled(state) ==
  /\ ~state.child /\ state.phase \in {"READY", "BREAK", "DONE"}
  /\ state.phase = "DONE" => state.workers >= 1
  /\ state.delivery # 0 => state.delivery = state.workers

\* A new run asks for another directory than the one in use.
Elsewhere(s) ==
  run[s].ask.kind = "newrun" /\ Mine(s).previous # run[s].ask.key

\* No state file yet: policy, request and a READY state are written.
AdmitFresh(s) ==
  /\ run[s].at = "locked" /\ Mine(s).phase = "NONE"
  /\ run[s].ask.kind \in {"plain", "resume"}
  /\ Persist(s, Fresh(None)) /\ Go(s, "admitted")
  /\ UNCHANGED <<pointer, lock, world, budget>>

\* A READY or DONE state goes on; a DONE record without a pinned receipt
\* reserves the verification of its worker.
Admit(s) ==
  /\ run[s].at = "locked" /\ ~Elsewhere(s)
  /\ Settled(Mine(s)) /\ Mine(s).phase # "BREAK"
  /\ run[s].ask.kind # "host"
  /\ Persist(s, IF Mine(s).phase = "DONE" /\ Mine(s).delivery = 0
                THEN [Mine(s) EXCEPT !.delivery = Mine(s).workers]
                ELSE Mine(s))
  /\ Go(s, "admitted")
  /\ UNCHANGED <<pointer, lock, world, budget>>

\* A retained stop needs a resolution bound to exactly this state.
AdmitResolved(s) ==
  /\ run[s].at = "locked" /\ Mine(s).phase = "BREAK" /\ Settled(Mine(s))
  /\ run[s].ask.kind \in {"resume", "host"}
  /\ run[s].ask.key = StateHash(run[s].gen)
  /\ run[s].ask.kind = "host" => Mine(s).pending # None /\ Mine(s).delivery = 0
  /\ resolutions < MaxResolutions
  /\ Persist(s, [Mine(s) EXCEPT !.phase = "READY", !.resolutions = @ + 1])
  /\ run' = [run EXCEPT ![s].at = "admitted",
                        ![s].host = run[s].ask.kind = "host"]
  /\ resolutions' = resolutions + 1
  /\ UNCHANGED <<pointer, lock, requests, crashes, world>>

\* Only the exact DONE state starts a generation.  Its directory is named by
\* the hash, so an earlier attempt's staged state is found again.
Stage(s) ==
  /\ run[s].at = "locked" /\ Elsewhere(s)
  /\ Mine(s).phase = "DONE" /\ ~Mine(s).child
  /\ run[s].ask.key = StateHash(run[s].gen)
  /\ \E g \in Generations :
       /\ \/ disk[g].previous = run[s].ask.key
             /\ disk[g].workers = 0 /\ disk[g].phase = "READY"
             /\ disk' = disk
          \/ /\ disk[g].phase = "NONE" /\ g > pointer
             /\ \A h \in Generations : disk[h].previous # run[s].ask.key
             /\ \A h \in Generations : disk[h].phase = "NONE" => h >= g
             /\ disk' = [disk EXCEPT ![g] = Fresh(run[s].ask.key)]
       /\ run' = [run EXCEPT ![s].at = "publish", ![s].gen = g]
  /\ UNCHANGED <<pointer, lock, world, budget>>

\* The pointer moves only after the generation's state is on disk.
Publish(s) ==
  /\ run[s].at = "publish"
  /\ pointer' = run[s].gen /\ Go(s, "admitted")
  /\ UNCHANGED <<disk, lock, world, budget>>

\* The state a generation was made from must still be what it was.
Begin(s) ==
  /\ run[s].at = "admitted"
  /\ LET p == Mine(s).previous IN p # None => StateHash(p.gen) = p
  /\ Call(s, "inspect")
  /\ UNCHANGED <<disk, pointer, lock, world, budget>>

\* A refusal before admission leaves every record as it was.
Refuse(s) ==
  /\ run[s].at \in {"locked", "publish"}
  /\ run' = [run EXCEPT ![s] = Off] /\ lock' = "free"
  /\ UNCHANGED <<disk, pointer, world, budget>>

-----------------------------------------------------------------------------
(* One child process.                                                      *)

\* The count is saved, then the process starts.
Start(s) ==
  /\ run[s].at = "call" /\ Mine(s).commands < MaxCommands
  /\ Persist(s, [Mine(s) EXCEPT !.commands = @ + 1])
  /\ Go(s, "spawned")
  /\ LET g == run[s].gen IN
       /\ live' = IF run[s].cmd = "worker" THEN live \cup {<<g, Mine(s).workers>>}
                  ELSE live
       /\ spawned' = IF run[s].cmd = "worker" THEN [spawned EXCEPT ![g] = @ + 1]
                     ELSE spawned
       /\ rounds' = IF run[s].cmd = "repair"
                    THEN [rounds EXCEPT ![g][Mine(s).pending] = @ + 1] ELSE rounds
  /\ UNCHANGED <<pointer, receipt, lock, budget>>

\* onSpawn: the process id is saved.
OnSpawn(s) ==
  /\ run[s].at = "spawned"
  /\ Persist(s, [Mine(s) EXCEPT !.child = TRUE])
  /\ Go(s, "running")
  /\ UNCHANGED <<pointer, lock, world, budget>>

Gone(s) == live' = IF run[s].cmd = "worker"
                   THEN live \ {<<run[s].gen, Mine(s).workers>>} ELSE live

\* A worker exits with 0 exactly when it has saved a result that succeeded.
Exit(s, out) ==
  run[s].cmd = "worker" => (out = "ok") = (receipt[run[s].gen] = "succeeded")

\* The process has ended and childPid is cleared.
Close(s, out) ==
  /\ Child(s) /\ Exit(s, out)
  /\ Persist(s, [Mine(s) EXCEPT !.child = FALSE])
  /\ run' = [run EXCEPT ![s].at = "closed", ![s].out = out]
  /\ Gone(s)
  /\ UNCHANGED <<pointer, receipt, lock, spawned, rounds, budget>>

\* It was cancelled, timed out or killed: childPid is cleared, then the
\* command throws.
Stopped(s) ==
  /\ Child(s)
  /\ Persist(s, [Mine(s) EXCEPT !.child = FALSE])
  /\ Go(s, "throwing") /\ Gone(s)
  /\ UNCHANGED <<pointer, receipt, lock, spawned, rounds, budget>>

\* It changed a sealed record: the command throws and childPid stays.
Tampered(s) ==
  /\ Child(s)
  /\ Go(s, "throwing") /\ Gone(s)
  /\ UNCHANGED <<disk, pointer, receipt, lock, spawned, rounds, budget>>

-----------------------------------------------------------------------------
(* What the supervisor does with an outcome.                               *)

Quiet == UNCHANGED <<pointer, lock, world, budget>>
Ok(s, label) == Back(s, label) /\ run[s].out = "ok"

\* Mutant: a retained delivery is not looked at after a restart.
InspectedAnew(s) ==
  /\ Ok(s, "inspect")
  /\ disk' = disk /\ Go(s, "loop") /\ Quiet

\* The first status: a compilation that stands blocked becomes an incident.
Inspected(s) ==
  /\ Ok(s, "inspect") /\ Mine(s).delivery = 0
  /\ \/ Persist(s, Mine(s))
     \/ Mine(s).pending = None
        /\ \E k \in Keys : Persist(s, [Mine(s) EXCEPT !.pending = k])
  /\ Go(s, "loop") /\ Quiet

\* verifyDelivery: the retained worker is checked and never run again.
VerifyDelivery(s) ==
  /\ Ok(s, "inspect") \/ Ok(s, "after")
  /\ Mine(s).delivery # 0 /\ Mine(s).delivery = Mine(s).workers
  /\ receipt[run[s].gen] = "succeeded"
  /\ Persist(s, [Mine(s) EXCEPT !.phase = "VERIFY"])
  /\ Call(s, "delivery") /\ Quiet

Delivered(s) ==
  /\ Ok(s, "delivery")
  /\ Persist(s, [Mine(s) EXCEPT !.pending = None, !.phase = "DONE"])
  /\ Go(s, "leaving") /\ Quiet

\* A round of engineering is charged before the engineer starts.
Charge(state) == [state EXCEPT !.failures[state.pending] = @ + 1,
                               !.phase = "REPAIR"]
Repair(s) ==
  /\ run[s].at = "loop" /\ Mine(s).pending # None /\ ~run[s].host
  /\ Mine(s).failures[Mine(s).pending] < RepairsPerIncident
  /\ Persist(s, Charge(Mine(s)))
  /\ Call(s, "repair") /\ Quiet

\* The patch that stands in the checkout, from the engineer or from the
\* host, goes to review unless it was verified before.
Propose(s) ==
  /\ Ok(s, "repair") \/ (run[s].at = "loop" /\ Mine(s).pending # None /\ run[s].host)
  /\ \E p \in Patches \ Mine(s).patches :
       run' = [run EXCEPT ![s].at = "call", ![s].cmd = "review", ![s].patch = p]
  /\ Persist(s, [Mine(s) EXCEPT !.phase = "VERIFY"])
  /\ Quiet

Reviewed(s) == Ok(s, "review") /\ Call(s, "types") /\ disk' = disk /\ Quiet
Typed(s) == Ok(s, "types") /\ Call(s, "tests") /\ disk' = disk /\ Quiet

\* The review or a check found the patch incomplete: back to the engineer.
Incomplete(s) ==
  /\ \/ Ok(s, "review")
     \/ (Back(s, "types") \/ Back(s, "tests")) /\ run[s].out = "fail"
  /\ ~run[s].host
  /\ Go(s, "loop") /\ disk' = disk /\ Quiet

Verified(s) ==
  /\ Ok(s, "tests")
  /\ Persist(s, [Mine(s) EXCEPT !.patches = @ \cup {run[s].patch},
                                !.pending = None, !.phase = "READY"])
  /\ run' = [run EXCEPT ![s].at = "call", ![s].cmd = "before",
                        ![s].host = FALSE, ![s].patch = None]
  /\ Quiet

\* Nothing is pending: the loop goes straight to the compiler.
Proceed(s) ==
  /\ run[s].at = "loop" /\ Mine(s).pending = None
  /\ Call(s, "before") /\ disk' = disk /\ Quiet

\* Mutant: nothing is pending while the worker runs.
AttemptUnmarked(state, k) == [state EXCEPT !.workers = @ + 1, !.phase = "WORKER"]

\* The dispatch is itself an incident until its outcome is known.
Attempt(state, k) == [state EXCEPT !.workers = @ + 1, !.pending = k,
                                   !.phase = "WORKER"]
Dispatch(s) ==
  /\ Ok(s, "before")
  /\ \E k \in Keys : Persist(s, Attempt(Mine(s), k))
  /\ receipt' = [receipt EXCEPT ![run[s].gen] = "none"]
  /\ Call(s, "worker")
  /\ UNCHANGED <<pointer, lock, live, spawned, rounds, budget>>

\* A worker that succeeded is pinned as the delivery.
Worked(s) ==
  /\ Back(s, "worker")
  /\ Persist(s, IF run[s].out = "ok" THEN [Mine(s) EXCEPT !.delivery = Mine(s).workers]
                ELSE Mine(s))
  /\ Call(s, "after") /\ Quiet

Failed(s) ==
  /\ Ok(s, "after") /\ Mine(s).delivery = 0
  /\ \E k \in Keys : Persist(s, [Mine(s) EXCEPT !.pending = k, !.phase = "READY"])
  /\ Go(s, "loop") /\ Quiet

\* Any check that fails, an abort or an exhausted allowance: a retained stop.
Throw(s) ==
  /\ run[s].at \in {"admitted", "loop", "call", "closed", "throwing"}
  /\ Persist(s, [Mine(s) EXCEPT !.phase = "BREAK"])
  /\ Go(s, "leaving") /\ Quiet

\* finally: the lock is unlinked when it holds the own token.
Leave(s) ==
  /\ run[s].at = "leaving"
  /\ run' = [run EXCEPT ![s] = Off]
  /\ lock' = IF lock = s THEN "free" ELSE lock
  /\ UNCHANGED <<disk, pointer, world, budget>>

-----------------------------------------------------------------------------
(* Workers, crashes and the operator.                                      *)

WorkerSaves(w) ==
  /\ w \in live /\ receipt[w[1]] = "none"
  /\ \E r \in {"failed", "succeeded"} : receipt' = [receipt EXCEPT ![w[1]] = r]
  /\ UNCHANGED <<disk, pointer, lock, run, live, spawned, rounds, budget>>

Supervised(w) ==
  \E s \in Supervisors : Child(s) /\ run[s].cmd = "worker" /\ run[s].gen = w[1]

OrphanEnds(w) ==
  /\ w \in live /\ ~Supervised(w)
  /\ live' = live \ {w}
  /\ UNCHANGED <<disk, pointer, receipt, lock, run, spawned, rounds, budget>>

Crash(s) ==
  /\ run[s].at # "off" /\ crashes < MaxCrashes
  /\ run' = [run EXCEPT ![s] = Off]
  /\ lock' = IF lock = s THEN "stale" ELSE lock
  /\ crashes' = crashes + 1
  /\ UNCHANGED <<disk, pointer, world, requests, resolutions>>

\* The operator removes the lock of a supervisor that is known to be dead.
OperatorUnlocks ==
  /\ lock = "stale" /\ lock' = "free"
  /\ UNCHANGED <<disk, pointer, run, world, budget>>

Opening(s) ==
  \/ \E kind \in {"plain", "resume", "host", "newrun"} : Ask(s, kind)
  \/ Lock(s) \/ LockPresent(s) \/ AdmitFresh(s) \/ Admit(s) \/ AdmitResolved(s)
  \/ Stage(s) \/ Publish(s) \/ Begin(s) \/ Refuse(s)
Commanding(s) ==
  \/ Start(s) \/ OnSpawn(s) \/ Stopped(s) \/ Tampered(s)
  \/ \E out \in {"ok", "fail"} : Close(s, out)
Deciding(s) ==
  \/ Inspected(s) \/ VerifyDelivery(s) \/ Delivered(s) \/ Repair(s) \/ Propose(s)
  \/ Reviewed(s) \/ Typed(s) \/ Incomplete(s) \/ Verified(s) \/ Proceed(s)
  \/ Dispatch(s) \/ Worked(s) \/ Failed(s) \/ Throw(s) \/ Leave(s)

Next ==
  \/ \E s \in Supervisors : Opening(s) \/ Commanding(s) \/ Deciding(s) \/ Crash(s)
  \/ \E w \in live : WorkerSaves(w) \/ OrphanEnds(w)
  \/ OperatorUnlocks

Spec == Init /\ [][Next]_vars

-----------------------------------------------------------------------------
(* Properties.                                                             *)

\* Every variable keeps its type.
TypeOK ==
  /\ disk \in [Generations -> State]
  /\ pointer \in Generations
  /\ receipt \in [Generations -> {"none", "failed", "succeeded"}]
  /\ lock \in Supervisors \cup {"free", "stale"}
  /\ run \in [Supervisors -> Process]
  /\ live \subseteq Generations \X Nat
  /\ spawned \in [Generations -> Nat]
  /\ rounds \in [Generations -> [Keys -> Nat]]
  /\ requests \in Nat /\ resolutions \in Nat /\ crashes \in Nat

\* There is never more than one worker process, although a dead supervisor's
\* worker may outlive it and the operator may remove the lock and start
\* another supervisor at once (supervisor.ts:85, "never redispatch uncertain
\* work").
OneWorker == \A v, w \in live : v = w

\* Each worker that was started is counted in the file beforehand, and each
\* after the first is paid for by a patch of its own that passed the review
\* and the checks, over crashes, stops and resolutions (supervisor.ts:315).
DispatchEarned(g) ==
  /\ spawned[g] <= disk[g].workers
  /\ spawned[g] <= 1 + Cardinality(disk[g].patches)

\* No incident gets more repair sessions than its allowance: a round is on
\* disk before the engineer starts and no resolution gives it back
\* (supervisor.ts:272-275).
RoundsCounted(g) ==
  \A k \in Keys : /\ rounds[g][k] <= disk[g].failures[k]
                  /\ disk[g].failures[k] <= RepairsPerIncident
AllowanceHeld == \A g \in Generations : DispatchEarned(g) /\ RoundsCounted(g)

\* A pinned delivery stays and its worker remains the last one (state.ts:22),
\* and the state of a generation that was replaced never changes again
\* (supervisor.ts:129-133).
SettledStands ==
  [][/\ \A g \in Generations : disk[g].delivery # 0 =>
          /\ disk'[g].delivery = disk[g].delivery
          /\ disk'[g].workers = disk[g].workers /\ spawned'[g] = spawned[g]
     /\ \A g \in Generations : g < pointer => disk'[g] = disk[g]
     /\ pointer' >= pointer]_vars
=============================================================================
