--------------------------- MODULE MutationJournal ---------------------------
(***************************************************************************)
(* The durable idempotency of the short web commands                       *)
(* (src/web/mutation-journal.ts).  A command names a Key kind:scope:       *)
(* clientRequestId and carries the Fingerprint of its request.  Commands   *)
(* go through one queue; each writes a running record, changes the         *)
(* workspace, and replaces the record by its verdict.                      *)
(*                                                                         *)
(* atomicWrite is one step (a temporary file and a rename) that may fail,  *)
(* and the process may die between any two steps.                          *)
(***************************************************************************)
EXTENDS Naturals, Sequences

CONSTANTS
  Key,          \* idempotency keys
  Fingerprint,  \* request fingerprints
  Call,         \* concurrent HTTP handlers
  NoRecord, NoKey, NoFingerprint,
  MaxCalls,     \* bound: commands sent
  MaxRestarts   \* bound: starts of the host after the first

ASSUME BoundAssumption == MaxCalls \in Nat /\ MaxRestarts \in Nat

Verdicts == {"succeeded", "failed", "interrupted"}
Record == [print: Fingerprint, status: {"running"} \cup Verdicts]

ASSUME NullAssumption == NoRecord \notin Record /\ NoKey \notin Key /\ NoFingerprint \notin Fingerprint

VARIABLES
  host,      \* "up", "loading" (initialize) or "down"
  journal,   \* the records on disk
  queue,     \* the calls inside exclusive, the one at work first
  call,      \* where each handler is, with which command
  changed,   \* commands whose mutate has changed the workspace
  complete,  \* commands whose mutate has returned
  begun,     \* how often a mutate of each key has been started
  told,      \* answers that reached a client
  sent, restarts

bounds == <<sent, restarts>>
vars == <<host, journal, queue, call, changed, complete, begun, told, bounds>>

Idle == [pc |-> "idle", key |-> NoKey, print |-> NoFingerprint]
Command == Key \X Fingerprint

Init ==
  /\ host = "up"
  /\ journal = [k \in Key |-> NoRecord]
  /\ queue = <<>> /\ call = [c \in Call |-> Idle]
  /\ changed = {} /\ complete = {} /\ begun = [k \in Key |-> 0] /\ told = {}
  /\ sent = 0 /\ restarts = 0

Has(k) == journal[k] # NoRecord
Asked(c) == <<call[c].key, call[c].print>>
Previous(c) == journal[call[c].key]

\* The call is the one at work and has come to pc.
Turn(c, pc) == host = "up" /\ queue # <<>> /\ Head(queue) = c /\ call[c].pc = pc

At(c, pc) == call' = [call EXCEPT ![c].pc = pc]

\* Mutant: a call that was answered with an error keeps its place.
AnswerStuck(c, word) ==
  /\ told' = told \cup {[command |-> Asked(c), word |-> word]}
  /\ queue' = IF word = "error" THEN queue ELSE Tail(queue)
  /\ call' = [call EXCEPT ![c] = Idle]

\* exclusive goes on with the next call whether this one threw or not.
Answer(c, word) ==
  /\ told' = told \cup {[command |-> Asked(c), word |-> word]}
  /\ queue' = Tail(queue)
  /\ call' = [call EXCEPT ![c] = Idle]

WriteVerdict(c, status) ==
  journal' = [journal EXCEPT ![call[c].key] = [print |-> call[c].print, status |-> status]]

Send(c, k, p) ==
  /\ host = "up" /\ call[c].pc = "idle" /\ sent < MaxCalls
  /\ call' = [call EXCEPT ![c] = [pc |-> "queued", key |-> k, print |-> p]]
  /\ queue' = Append(queue, c)
  /\ sent' = sent + 1
  /\ UNCHANGED <<host, journal, changed, complete, begun, told, restarts>>

\* Mutant: the fingerprint of the request is not compared.
VerdictForAny(c) ==
  IF Previous(c).status = "succeeded" THEN "reused"
  ELSE IF Previous(c).status = "failed" THEN "failure" ELSE "interrupted"

Verdict(c) ==
  IF Previous(c).print # call[c].print THEN "conflict"
  ELSE IF Previous(c).status = "succeeded" THEN "reused"
  ELSE IF Previous(c).status = "failed" THEN "failure" ELSE "interrupted"

\* The key is known: the stored outcome is the answer.
Recall(c) ==
  /\ Turn(c, "queued")
  /\ Has(call[c].key)
  /\ Answer(c, Verdict(c))
  /\ UNCHANGED <<host, journal, changed, complete, begun, bounds>>

\* Mutant: the running record stays in memory.
BeginUnrecorded(c) ==
  /\ Turn(c, "queued")
  /\ ~Has(call[c].key)
  /\ begun' = [begun EXCEPT ![call[c].key] = @ + 1]
  /\ At(c, "mutating")
  /\ UNCHANGED <<host, journal, queue, changed, complete, told, bounds>>

\* The running record is on disk before mutate is called.
Begin(c) ==
  /\ Turn(c, "queued")
  /\ ~Has(call[c].key)
  /\ WriteVerdict(c, "running")
  /\ begun' = [begun EXCEPT ![call[c].key] = @ + 1]
  /\ At(c, "mutating")
  /\ UNCHANGED <<host, queue, changed, complete, told, bounds>>

\* The record cannot be read, or the running record cannot be written.
BeginFails(c) ==
  /\ Turn(c, "queued")
  /\ Answer(c, "error")
  /\ UNCHANGED <<host, journal, changed, complete, begun, bounds>>

\* mutate, in several writes of which this is one; it returns or throws.
Change(c) ==
  /\ Turn(c, "mutating")
  /\ changed' = changed \cup {Asked(c)}
  /\ UNCHANGED <<host, journal, queue, call, complete, begun, told, bounds>>

MutateReturns(c) ==
  /\ Turn(c, "mutating")
  /\ changed' = changed \cup {Asked(c)}
  /\ complete' = complete \cup {Asked(c)}
  /\ At(c, "returned")
  /\ UNCHANGED <<host, journal, queue, begun, told, bounds>>

MutateThrows(c) ==
  /\ Turn(c, "mutating")
  /\ At(c, "thrown")
  /\ UNCHANGED <<host, journal, queue, changed, complete, begun, told, bounds>>

RecordSuccess(c) ==
  /\ Turn(c, "returned")
  /\ WriteVerdict(c, "succeeded")
  /\ Answer(c, "value")
  /\ UNCHANGED <<host, changed, complete, begun, bounds>>

\* The catch of execute covers this write, too.
RecordSuccessFails(c) ==
  /\ Turn(c, "returned")
  /\ At(c, "thrown")
  /\ UNCHANGED <<host, journal, queue, changed, complete, begun, told, bounds>>

RecordFailure(c) ==
  /\ Turn(c, "thrown")
  /\ WriteVerdict(c, "failed")
  /\ Answer(c, "error")
  /\ UNCHANGED <<host, changed, complete, begun, bounds>>

\* The record stays "running" until the next initialize.
RecordFailureFails(c) ==
  /\ Turn(c, "thrown")
  /\ Answer(c, "error")
  /\ UNCHANGED <<host, journal, changed, complete, begun, bounds>>

Crash ==
  /\ host # "down" /\ restarts < MaxRestarts
  /\ host' = "down"
  /\ queue' = <<>> /\ call' = [c \in Call |-> Idle]
  /\ UNCHANGED <<journal, changed, complete, begun, told, bounds>>

Restart ==
  /\ host = "down" /\ restarts < MaxRestarts
  /\ host' = "loading"
  /\ restarts' = restarts + 1
  /\ UNCHANGED <<journal, queue, call, changed, complete, begun, told, sent>>

\* Mutant: initialize interrupts every record it finds.
StaleAny(k) == Has(k)

Stale(k) == Has(k) /\ journal[k].status = "running"

\* initialize marks one record after the other.
Interrupt(k) ==
  /\ host = "loading" /\ Stale(k)
  /\ journal' = [journal EXCEPT ![k].status = "interrupted"]
  /\ UNCHANGED <<host, queue, call, changed, complete, begun, told, bounds>>

\* Mutant: the host is up before the records are dealt with.
InitializedEarly ==
  /\ host = "loading"
  /\ host' = "up"
  /\ UNCHANGED <<journal, queue, call, changed, complete, begun, told, bounds>>

Initialized ==
  /\ host = "loading" /\ \A k \in Key : ~Stale(k)
  /\ host' = "up"
  /\ UNCHANGED <<journal, queue, call, changed, complete, begun, told, bounds>>

Execute(c) ==
  \/ Recall(c) \/ Begin(c) \/ BeginFails(c)
  \/ MutateReturns(c) \/ MutateThrows(c)
  \/ RecordSuccess(c) \/ RecordSuccessFails(c) \/ RecordFailure(c) \/ RecordFailureFails(c)

Initialize == (\E k \in Key : Interrupt(k)) \/ Initialized

Next ==
  \/ \E c \in Call : (\E k \in Key, p \in Fingerprint : Send(c, k, p)) \/ Execute(c) \/ Change(c)
  \/ Crash \/ Restart \/ Initialize

Spec == Init /\ [][Next]_vars

\* Promises settle: mutate returns or throws, file writes complete or fail,
\* and a host that died is started again.
FairSpec ==
  /\ Spec
  /\ \A c \in Call : WF_vars(Execute(c))
  /\ WF_vars(Restart) /\ WF_vars(Initialize)

-----------------------------------------------------------------------------
(* Properties.                                                             *)

Words == {"value", "reused", "failure", "conflict", "interrupted", "error"}

\* Types, and: at most the first of the queue is at work.
TypeOK ==
  /\ host \in {"up", "loading", "down"}
  /\ journal \in [Key -> Record \cup {NoRecord}]
  /\ queue \in Seq(Call)
  /\ call \in [Call -> [pc: {"queued", "mutating", "returned", "thrown"}, key: Key, print: Fingerprint]
                         \cup {Idle}]
  /\ \A c \in Call : call[c].pc \in {"mutating", "returned", "thrown"} =>
       queue # <<>> /\ Head(queue) = c
  /\ changed \subseteq Command /\ complete \subseteq changed
  /\ begun \in [Key -> Nat]
  /\ told \subseteq [command: Command, word: Words]
  /\ sent \in 0..MaxCalls /\ restarts \in 0..MaxRestarts

\* However often a command is sent, resent after an error, or met by a crash,
\* its mutation is started at most once.
AtMostOnce == \A k \in Key : begun[k] <= 1

\* The workspace never holds a change of a command that the journal does not
\* know, and the record carries the fingerprint of that very command.
NothingUnrecorded ==
  \A command \in changed : Has(command[1]) /\ journal[command[1]].print = command[2]

\* Whoever is told of a success asked for exactly what was done, completely,
\* and a later reader of the journal is told the same.
SuccessIsReal ==
  \A t \in told : t.word \in {"value", "reused"} =>
    t.command \in complete /\ journal[t.command[1]] = [print |-> t.command[2], status |-> "succeeded"]

\* A verdict is final: retries and restarts never replace it, so the answers
\* to one command can never disagree.
VerdictsStand ==
  [][\A k \in Key : Has(k) /\ journal[k].status \in Verdicts => journal'[k] = journal[k]]_vars

\* "A process crash leaves an explicit interrupted record": once the host is
\* up again, what was cut off reads interrupted, and only the call at work
\* reads running, except after a failure of the disk itself.
RunningIsAtWork ==
  host = "up" => \A k \in Key : Has(k) /\ journal[k].status = "running" =>
    \/ \E c \in Call : call[c].pc \in {"mutating", "returned", "thrown"} /\ call[c].key = k
    \/ \E t \in told : t.command = <<k, journal[k].print>> /\ t.word = "error"

\* Every call is answered, unless its host dies.
EveryCallAnswered ==
  \A c \in Call : (call[c].pc # "idle") ~> (call[c].pc = "idle")
=============================================================================
