------------------------ MODULE MutationJournalProofs ------------------------
(***************************************************************************)
(* The journal for any keys, handlers, commands and restarts.  What makes  *)
(* the properties inductive is that the call at work owns the running      *)
(* record of its key (WorkInv): no other call is at work, because only the *)
(* first of the queue is, and no record but a running one is ever written  *)
(* over.                                                                   *)
(***************************************************************************)
EXTENDS MutationJournal, TLAPS, SequenceTheorems

Working == {"mutating", "returned", "thrown"}

WorkInv ==
  \A c \in Call : call[c].pc \in Working =>
    /\ Has(call[c].key)
    /\ Previous(c).print = call[c].print /\ Previous(c).status = "running"
    /\ call[c].pc = "returned" => Asked(c) \in complete

\* A host that is not up has no calls.
HostInv == host # "up" => \A c \in Call : call[c] = Idle

BegunInv == \A k \in Key : begun[k] <= 1 /\ (begun[k] = 1 => Has(k))

\* Only what is complete is recorded as a success.
SucceededInv ==
  \A k \in Key : Has(k) /\ journal[k].status = "succeeded" => <<k, journal[k].print>> \in complete

JournalInv ==
  TypeOK /\ WorkInv /\ HostInv /\ BegunInv /\ SucceededInv /\ NothingUnrecorded /\ SuccessIsReal /\ RunningIsAtWork

LEMMA RecordFields ==
  ASSUME NEW r \in Record
  PROVE  r.print \in Fingerprint /\ r.status \in {"running"} \cup Verdicts /\ r # NoRecord
BY NullAssumption DEF Record

LEMMA InitInv == Init => JournalInv
<1> SUFFICES ASSUME Init PROVE JournalInv
  OBVIOUS
<1>1. TypeOK
  BY BoundAssumption DEF Init, TypeOK, Idle
<1>2. WorkInv /\ HostInv /\ RunningIsAtWork
  BY DEF Init, WorkInv, HostInv, Idle, Working, RunningIsAtWork, Has
<1>3. BegunInv /\ SucceededInv /\ NothingUnrecorded /\ SuccessIsReal
  BY DEF Init, BegunInv, SucceededInv, Has, NothingUnrecorded, SuccessIsReal
<1> QED
  BY <1>1, <1>2, <1>3 DEF JournalInv

\* The call at work is the only one.
LEMMA Alone ==
  ASSUME TypeOK, NEW c \in Call, NEW d \in Call, queue # <<>>, Head(queue) = c,
         call[d].pc \in Working
  PROVE  d = c
BY DEF TypeOK, Working

LEMMA CallFields ==
  ASSUME TypeOK, NEW c \in Call, call[c].pc # "idle"
  PROVE  /\ call[c] \in [pc: {"queued", "mutating", "returned", "thrown"}, key: Key, print: Fingerprint]
         /\ call[c].key \in Key /\ call[c].print \in Fingerprint
         /\ call[c].pc \in {"queued", "mutating", "returned", "thrown"}
         /\ Asked(c) \in Command
BY DEF TypeOK, Idle, Asked, Command

\* Answering a call makes it idle, moves on in the queue and tells one word.
LEMMA Answered ==
  ASSUME TypeOK, NEW c \in Call, NEW word \in Words, Answer(c, word),
         queue # <<>>, Head(queue) = c, call[c].pc # "idle"
  PROVE  /\ queue' \in Seq(Call)
         /\ call'[c] = Idle /\ \A d \in Call \ {c} : call'[d] = call[d]
         /\ call' \in [Call -> [pc: {"queued", "mutating", "returned", "thrown"}, key: Key,
                                print: Fingerprint] \cup {Idle}]
         /\ \A d \in Call : call'[d].pc \notin Working
         /\ told' \subseteq [command: Command, word: Words]
         /\ told \subseteq told'
         /\ \A t \in told' \ told : t.command = Asked(c) /\ t.word = word
<1>1. Asked(c) \in Command
  BY CallFields
<1>2. queue' \in Seq(Call)
  BY DEF Answer, TypeOK
<1>3. call'[c] = Idle /\ \A d \in Call \ {c} : call'[d] = call[d]
  BY DEF Answer, TypeOK
<1>4. call' \in [Call -> [pc: {"queued", "mutating", "returned", "thrown"}, key: Key,
                                print: Fingerprint] \cup {Idle}]
  BY DEF Answer, TypeOK
<1>5. ASSUME NEW d \in Call PROVE call'[d].pc \notin Working
  BY <1>3, Alone DEF Idle, Working
<1>6. /\ told' \subseteq [command: Command, word: Words]
      /\ told \subseteq told'
      /\ \A t \in told' \ told : t.command = Asked(c) /\ t.word = word
  BY <1>1 DEF Answer, TypeOK
<1> QED
  BY <1>2, <1>3, <1>4, <1>5, <1>6

\* A step of the call at work.
LEMMA Stepped ==
  ASSUME TypeOK, NEW c \in Call, NEW pc \in Working, At(c, pc), queue' = queue,
         queue # <<>>, Head(queue) = c, call[c].pc # "idle"
  PROVE  /\ call' \in [Call -> [pc: {"queued", "mutating", "returned", "thrown"}, key: Key,
                                print: Fingerprint] \cup {Idle}]
         /\ call'[c].pc = pc /\ call'[c].key = call[c].key /\ call'[c].print = call[c].print
         /\ Asked(c)' = Asked(c)
         /\ \A d \in Call \ {c} : call'[d] = call[d] /\ call[d].pc \notin Working
         /\ \A d \in Call : call'[d].pc \in Working => queue' # <<>> /\ Head(queue') = d
<1>0. call[c] \in [pc: {"queued", "mutating", "returned", "thrown"}, key: Key, print: Fingerprint]
  BY CallFields
<1>1. call' = [call EXCEPT ![c] = [call[c] EXCEPT !.pc = pc]] /\ call \in [Call -> [pc: {"queued", "mutating", "returned", "thrown"}, key: Key,
                                print: Fingerprint] \cup {Idle}]
  BY DEF At, TypeOK
<1>2. /\ call'[c] = [call[c] EXCEPT !.pc = pc]
      /\ \A d \in Call \ {c} : call'[d] = call[d]
  BY <1>1
<1>3. [call[c] EXCEPT !.pc = pc] \in [pc: {"queued", "mutating", "returned", "thrown"}, key: Key, print: Fingerprint]
  BY <1>0 DEF Working
<1>4. call'[c].pc = pc /\ call'[c].key = call[c].key /\ call'[c].print = call[c].print
  BY <1>0, <1>2
<1>5. call' \in [Call -> [pc: {"queued", "mutating", "returned", "thrown"}, key: Key,
                                print: Fingerprint] \cup {Idle}]
  BY <1>1, <1>3
<1>6. \A d \in Call \ {c} : call[d].pc \notin Working
  BY Alone
<1> QED
  BY <1>2, <1>4, <1>5, <1>6 DEF Asked

-----------------------------------------------------------------------------
(* Types                                                                   *)

LEMMA TypeStep ==
  ASSUME JournalInv, [Next]_vars
  PROVE  TypeOK'
<1> USE DEF JournalInv
<1>0. TypeOK
  OBVIOUS
<1>1. CASE UNCHANGED vars
  BY <1>0, <1>1 DEF vars, bounds, TypeOK
<1>2. ASSUME NEW c \in Call, NEW k \in Key, NEW p \in Fingerprint, Send(c, k, p) PROVE TypeOK'
  <2>1. queue' \in Seq(Call) /\ (queue # <<>> => queue' # <<>> /\ Head(queue') = Head(queue))
    BY <1>0, <1>2 DEF Send, TypeOK
  <2>2. call' = [call EXCEPT ![c] = [pc |-> "queued", key |-> k, print |-> p]]
    BY <1>2 DEF Send
  <2>3. /\ call' \in [Call -> [pc: {"queued", "mutating", "returned", "thrown"}, key: Key,
                               print: Fingerprint] \cup {Idle}]
        /\ call'[c].pc = "queued" /\ \A d \in Call \ {c} : call'[d] = call[d]
    BY <1>0, <2>2 DEF TypeOK
  <2>4. sent' \in 0..MaxCalls
    BY <1>0, <1>2, BoundAssumption DEF Send, TypeOK
  <2> QED
    BY <1>0, <1>2, <2>1, <2>3, <2>4 DEF Send, TypeOK
<1>3. ASSUME NEW c \in Call, Recall(c) PROVE TypeOK'
  <2>1. Verdict(c) \in Words
    BY DEF Verdict, Words
  <2>2. queue # <<>> /\ Head(queue) = c /\ call[c].pc = "queued"
    BY <1>3 DEF Recall, Turn
  <2> QED
    BY <1>0, <1>3, <2>1, <2>2, Answered DEF Recall, TypeOK, bounds, Working
<1>4. ASSUME NEW c \in Call, Begin(c) PROVE TypeOK'
  <2>1. Turn(c, "queued") /\ At(c, "mutating") /\ UNCHANGED <<host, queue, changed, complete, told, bounds>>
        /\ WriteVerdict(c, "running") /\ begun' = [begun EXCEPT ![call[c].key] = @ + 1]
    BY <1>4 DEF Begin
  <2>2. queue # <<>> /\ Head(queue) = c /\ call[c].pc = "queued" /\ call[c].key \in Key /\ call[c].print \in Fingerprint
    BY <1>0, <2>1, CallFields DEF Turn
  <2>3. begun' \in [Key -> Nat] /\ journal' \in [Key -> Record \cup {NoRecord}]
    BY <1>0, <2>1, <2>2 DEF WriteVerdict, Record, TypeOK
  <2> QED
    BY <1>0, <2>1, <2>2, <2>3, Stepped DEF TypeOK, bounds, Working
<1>5. ASSUME NEW c \in Call, BeginFails(c) \/ RecordFailureFails(c) PROVE TypeOK'
  <2>1. queue # <<>> /\ Head(queue) = c /\ call[c].pc # "idle" /\ Answer(c, "error")
        /\ UNCHANGED <<host, journal, changed, complete, begun, bounds>>
    BY <1>5 DEF BeginFails, RecordFailureFails, Turn
  <2> QED
    BY <1>0, <2>1, Answered DEF TypeOK, bounds, Working, Words
<1>6. ASSUME NEW c \in Call, Change(c) PROVE TypeOK'
  <2>1. Asked(c) \in Command
    BY <1>0, <1>6, CallFields DEF Change, Turn
  <2> QED
    BY <1>0, <1>6, <2>1 DEF Change, TypeOK, bounds
<1>7. ASSUME NEW c \in Call, MutateReturns(c) PROVE TypeOK'
  <2>1. queue # <<>> /\ Head(queue) = c /\ call[c].pc = "mutating" /\ At(c, "returned") /\ Asked(c) \in Command
    BY <1>0, <1>7, CallFields DEF MutateReturns, Turn
  <2> QED
    BY <1>0, <1>7, <2>1, Stepped DEF MutateReturns, TypeOK, bounds, Working
<1>8. ASSUME NEW c \in Call, MutateThrows(c) \/ RecordSuccessFails(c) PROVE TypeOK'
  <2>1. queue # <<>> /\ Head(queue) = c /\ call[c].pc # "idle" /\ At(c, "thrown")
        /\ UNCHANGED <<host, journal, queue, changed, complete, begun, told, bounds>>
    BY <1>8 DEF MutateThrows, RecordSuccessFails, Turn
  <2> QED
    BY <1>0, <2>1, Stepped DEF TypeOK, bounds, Working
<1>9. ASSUME NEW c \in Call, NEW v \in Verdicts, NEW word \in Words, NEW pc \in Working,
             Turn(c, pc), WriteVerdict(c, v), Answer(c, word),
             UNCHANGED <<host, changed, complete, begun, bounds>>
      PROVE  TypeOK'
  <2>1. queue # <<>> /\ Head(queue) = c /\ call[c].pc # "idle" /\ call[c].key \in Key /\ call[c].print \in Fingerprint
    BY <1>0, <1>9, CallFields DEF Turn, Working
  <2>2. journal' \in [Key -> Record \cup {NoRecord}]
    BY <1>0, <1>9, <2>1 DEF WriteVerdict, Record, TypeOK
  <2> QED
    BY <1>0, <1>9, <2>1, <2>2, Answered DEF TypeOK, bounds, Working
<1>10. ASSUME NEW c \in Call, RecordSuccess(c) \/ RecordFailure(c) PROVE TypeOK'
  BY <1>9, <1>10 DEF RecordSuccess, RecordFailure, Verdicts, Words, Working
<1>11. CASE Crash
  BY <1>0, <1>11 DEF Crash, TypeOK, bounds, Idle
<1>12. CASE Restart
  BY <1>0, <1>12, BoundAssumption DEF Restart, TypeOK, bounds
<1>13. ASSUME NEW k \in Key, Interrupt(k) PROVE TypeOK'
  <2>1. journal[k] \in Record
    BY <1>0, <1>13 DEF Interrupt, Stale, Has, TypeOK
  <2>2. [journal[k] EXCEPT !.status = "interrupted"] \in Record
    BY <2>1 DEF Record, Verdicts
  <2>3. journal' \in [Key -> Record \cup {NoRecord}]
    BY <1>0, <1>13, <2>2 DEF Interrupt, TypeOK
  <2> QED
    BY <1>0, <1>13, <2>3 DEF Interrupt, TypeOK, bounds
<1>14. CASE Initialized
  BY <1>0, <1>14 DEF Initialized, TypeOK, bounds
<1> QED
  BY <1>1, <1>2, <1>3, <1>4, <1>5, <1>6, <1>7, <1>8, <1>10, <1>11, <1>12, <1>13, <1>14
     DEF Next, Execute, Initialize

-----------------------------------------------------------------------------
(* What a step may do to the records                                       *)

LEMMA Written ==
  ASSUME TypeOK, NEW c \in Call, NEW status \in {"running"} \cup Verdicts,
         call[c].pc # "idle", WriteVerdict(c, status)
  PROVE  \E k \in Key :
         /\ k = call[c].key /\ Has(k)'
         /\ journal'[k].print = call[c].print /\ journal'[k].status = status
         /\ \A other \in Key \ {k} : journal'[other] = journal[other]
<1>1. call[c].key \in Key /\ call[c].print \in Fingerprint
  BY CallFields
<1> DEFINE r == [print |-> call[c].print, status |-> status]
<1>2. r \in Record /\ r.print = call[c].print /\ r.status = status
  BY <1>1 DEF Record
<1>3. journal' = [journal EXCEPT ![call[c].key] = r]
  BY DEF WriteVerdict
<1> HIDE DEF r
<1>4. journal'[call[c].key] = r /\ \A other \in Key \ {call[c].key} : journal'[other] = journal[other]
  BY <1>1, <1>3 DEF TypeOK
<1>5. ASSUME NEW k \in Key, journal'[k] = r PROVE Has(k)'
  BY <1>2, <1>5, NullAssumption DEF Has
<1> QED
  BY <1>1, <1>2, <1>4, <1>5

\* A record is created, or a running record gets its verdict.
MayBecome(k) ==
  \/ journal'[k] = journal[k]
  \/ Has(k)' /\ ~Has(k)
  \/ Has(k)' /\ Has(k) /\ journal[k].status = "running" /\ journal'[k].print = journal[k].print

\* No actions but these touch the journal.
JournalActions ==
  \/ \E c \in Call : Begin(c) \/ RecordSuccess(c) \/ RecordFailure(c)
  \/ \E k \in Key : Interrupt(k)

LEMMA OtherActions ==
  ASSUME [Next]_vars, ~JournalActions
  PROVE  UNCHANGED journal
BY DEF JournalActions, Next, vars, bounds, Send, Execute, Initialize, Recall, BeginFails, Change,
       MutateReturns, MutateThrows, RecordSuccessFails, RecordFailureFails, Crash, Restart, Initialized

LEMMA RecordStep ==
  ASSUME JournalInv, [Next]_vars
  PROVE  \A k \in Key : MayBecome(k)
<1> USE DEF JournalInv
<1>1. CASE ~JournalActions
  BY <1>1, OtherActions DEF MayBecome
<1>2. ASSUME NEW c \in Call, Begin(c) PROVE \A k \in Key : MayBecome(k)
  <2>1. PICK k \in Key : /\ k = call[c].key /\ Has(k)'
                         /\ \A other \in Key \ {k} : journal'[other] = journal[other]
    BY <1>2, Written DEF Begin, Turn
  <2>2. ~Has(k)
    BY <1>2, <2>1 DEF Begin
  <2> QED
    BY <2>1, <2>2 DEF MayBecome
<1>3. ASSUME NEW c \in Call, RecordSuccess(c) \/ RecordFailure(c)
      PROVE  \A k \in Key : MayBecome(k)
  <2>1. /\ call[c].pc \in Working /\ call[c].pc # "idle"
        /\ \E v \in Verdicts : WriteVerdict(c, v)
    BY <1>3 DEF RecordSuccess, RecordFailure, Turn, Working, Verdicts
  <2>2. Has(call[c].key) /\ journal[call[c].key].status = "running"
        /\ journal[call[c].key].print = call[c].print
    BY <2>1 DEF WorkInv, Previous
  <2>3. PICK k \in Key : /\ k = call[c].key /\ Has(k)' /\ journal'[k].print = call[c].print
                         /\ \A other \in Key \ {k} : journal'[other] = journal[other]
    BY <2>1, Written
  <2> QED
    BY <2>2, <2>3 DEF MayBecome
<1>4. ASSUME NEW k \in Key, Interrupt(k) PROVE \A other \in Key : MayBecome(other)
  <2>1. journal[k] \in Record /\ Has(k) /\ journal[k].status = "running"
    BY <1>4 DEF Interrupt, Stale, Has, TypeOK
  <2> DEFINE r == [journal[k] EXCEPT !.status = "interrupted"]
  <2>2. r \in Record /\ r.print = journal[k].print
    BY <2>1 DEF Record, Verdicts
  <2>3. journal' = [journal EXCEPT ![k] = r]
    BY <1>4 DEF Interrupt
  <2> HIDE DEF r
  <2>4. journal'[k] = r /\ \A other \in Key \ {k} : journal'[other] = journal[other]
    BY <2>3 DEF TypeOK
  <2> QED
    BY <2>1, <2>2, <2>4, RecordFields DEF MayBecome, Has
<1> QED
  BY <1>1, <1>2, <1>3, <1>4 DEF JournalActions

LEMMA BegunStep ==
  ASSUME JournalInv, [Next]_vars
  PROVE  BegunInv'
<1> USE DEF JournalInv
<1>1. \A k \in Key : Has(k) => Has(k)'
  BY RecordStep DEF MayBecome, Has
<1>2. ASSUME NEW c \in Call, Begin(c) PROVE BegunInv'
  <2>1. PICK k \in Key : k = call[c].key /\ Has(k)'
    BY <1>2, Written DEF Begin, Turn
  <2>2. ~Has(k)
    BY <1>2, <2>1 DEF Begin
  <2>3. begun[k] = 0
    BY <2>2 DEF BegunInv, TypeOK
  <2>4. begun'[k] = 1 /\ \A other \in Key \ {k} : begun'[other] = begun[other]
    BY <1>2, <2>1, <2>3 DEF Begin, TypeOK
  <2> QED
    BY <1>1, <2>1, <2>4 DEF BegunInv
<1>3. CASE \A c \in Call : ~Begin(c)
  <2>1. UNCHANGED begun
    BY <1>3 DEF Next, vars, bounds, Send, Execute, Initialize, Recall, BeginFails, Change,
       MutateReturns, MutateThrows, RecordSuccess, RecordSuccessFails, RecordFailure,
       RecordFailureFails, Crash, Restart, Interrupt, Initialized
  <2> QED
    BY <1>1, <2>1 DEF BegunInv
<1> QED
  BY <1>2, <1>3

-----------------------------------------------------------------------------
(* The call at work owns the running record                                *)

LEMMA WorkStep ==
  ASSUME JournalInv, [Next]_vars
  PROVE  WorkInv'
<1> USE DEF JournalInv
<1>1. CASE UNCHANGED vars
  BY <1>1 DEF vars, WorkInv, Previous, Asked, Has
<1>2. ASSUME NEW c \in Call, NEW k \in Key, NEW p \in Fingerprint, Send(c, k, p) PROVE WorkInv'
  BY <1>2 DEF Send, WorkInv, Previous, Asked, Has, TypeOK, Working
<1>3. ASSUME NEW c \in Call, NEW word \in Words, Answer(c, word),
             queue # <<>>, Head(queue) = c, call[c].pc # "idle"
      PROVE  WorkInv'
  BY <1>3, Answered DEF WorkInv
<1>4. ASSUME NEW c \in Call,
             Recall(c) \/ BeginFails(c) \/ RecordSuccess(c) \/ RecordFailure(c) \/ RecordFailureFails(c)
      PROVE  WorkInv'
  <2>1. Verdict(c) \in Words /\ "error" \in Words /\ "value" \in Words
    BY DEF Verdict, Words
  <2>2. \E word \in Words : Answer(c, word)
    BY <1>4, <2>1 DEF Recall, BeginFails, RecordSuccess, RecordFailure, RecordFailureFails
  <2>3. queue # <<>> /\ Head(queue) = c /\ call[c].pc # "idle"
    BY <1>4 DEF Recall, BeginFails, RecordSuccess, RecordFailure, RecordFailureFails, Turn
  <2> QED
    BY <1>3, <2>2, <2>3
<1>5. ASSUME NEW c \in Call, Begin(c) PROVE WorkInv'
  <2>1. queue # <<>> /\ Head(queue) = c /\ call[c].pc # "idle" /\ At(c, "mutating") /\ queue' = queue
        /\ WriteVerdict(c, "running")
    BY <1>5 DEF Begin, Turn
  <2>2. /\ call'[c].pc = "mutating" /\ call'[c].key = call[c].key /\ call'[c].print = call[c].print
        /\ \A d \in Call \ {c} : call'[d].pc \notin Working
    BY <2>1, Stepped DEF Working
  <2>3. PICK k \in Key : /\ k = call[c].key /\ Has(k)'
                         /\ journal'[k].print = call[c].print /\ journal'[k].status = "running"
    BY <2>1, Written
  <2> QED
    BY <2>2, <2>3 DEF WorkInv, Previous, Has
<1>6. ASSUME NEW c \in Call, Change(c) PROVE WorkInv'
  BY <1>6 DEF Change, WorkInv, Previous, Asked, Has
<1>7. ASSUME NEW c \in Call, MutateReturns(c) \/ MutateThrows(c) \/ RecordSuccessFails(c)
      PROVE  WorkInv'
  <2>1. /\ queue # <<>> /\ Head(queue) = c /\ call[c].pc \in Working /\ call[c].pc # "idle"
        /\ UNCHANGED <<journal, queue>>
        /\ At(c, "thrown") \/ (At(c, "returned") /\ Asked(c) \in complete')
    BY <1>7 DEF MutateReturns, MutateThrows, RecordSuccessFails, Turn, Working
  <2>2. /\ call'[c].pc \in {"thrown", "returned"}
        /\ call'[c].pc = "returned" => Asked(c) \in complete'
        /\ call'[c].key = call[c].key /\ call'[c].print = call[c].print /\ Asked(c)' = Asked(c)
        /\ \A d \in Call \ {c} : call'[d].pc \notin Working
    BY <2>1, Stepped DEF Working
  <2>3. Has(call[c].key) /\ Previous(c).print = call[c].print /\ Previous(c).status = "running"
    BY <2>1 DEF WorkInv
  <2> QED
    BY <2>1, <2>2, <2>3 DEF WorkInv, Previous, Has
<1>8. CASE Crash
  BY <1>8 DEF Crash, WorkInv, Idle, Working
<1>9. CASE Restart \/ Initialized
  BY <1>9 DEF Restart, Initialized, WorkInv, Previous, Asked, Has
<1>10. ASSUME NEW k \in Key, Interrupt(k) PROVE WorkInv'
  <2>1. \A c \in Call : call[c].pc \notin Working
    BY <1>10 DEF Interrupt, HostInv, Idle, Working
  <2> QED
    BY <1>10, <2>1 DEF Interrupt, WorkInv
<1> QED
  BY <1>1, <1>2, <1>4, <1>5, <1>6, <1>7, <1>8, <1>9, <1>10 DEF Next, Execute, Initialize

LEMMA HostStep ==
  ASSUME JournalInv, [Next]_vars
  PROVE  HostInv'
<1> USE DEF JournalInv
<1>1. CASE UNCHANGED <<host, call>>
  BY <1>1 DEF HostInv
<1>2. CASE host = "up" /\ host' = "up"
  BY <1>2 DEF HostInv
<1>3. CASE Crash \/ Restart \/ Initialize
  BY <1>3 DEF Crash, Restart, Initialize, Interrupt, Initialized, HostInv, bounds
<1>4. CASE \E c \in Call : (\E k \in Key, p \in Fingerprint : Send(c, k, p)) \/ Execute(c) \/ Change(c)
  BY <1>2, <1>4 DEF Send, Execute, Change, Recall, Begin, BeginFails, MutateReturns, MutateThrows,
     RecordSuccess, RecordSuccessFails, RecordFailure, RecordFailureFails, Turn
<1> QED
  BY <1>1, <1>3, <1>4 DEF Next, vars

-----------------------------------------------------------------------------
(* The properties                                                          *)

LEMMA UnrecordedStep ==
  ASSUME JournalInv, [Next]_vars
  PROVE  NothingUnrecorded'
<1> USE DEF JournalInv
<1>1. ASSUME NEW command \in changed
      PROVE  command[1] \in Key /\ Has(command[1])' /\ journal'[command[1]].print = command[2]
  <2>1. command[1] \in Key
    BY DEF TypeOK, Command
  <2>2. Has(command[1]) /\ journal[command[1]].print = command[2]
    BY DEF NothingUnrecorded
  <2> QED
    BY <2>1, <2>2, RecordStep DEF MayBecome, Has
<1>2. CASE changed' = changed
  BY <1>1, <1>2 DEF NothingUnrecorded
<1>3. ASSUME NEW c \in Call, Change(c) \/ MutateReturns(c) PROVE NothingUnrecorded'
  <2>1. changed' = changed \cup {Asked(c)} /\ journal' = journal /\ call[c].pc \in Working
    BY <1>3 DEF Change, MutateReturns, Turn, Working
  <2>2. PICK k \in Key, p \in Fingerprint : k = call[c].key /\ p = call[c].print
    BY <2>1, CallFields DEF Working
  <2>3. Has(k) /\ journal[k].print = p
    BY <2>1, <2>2 DEF WorkInv, Previous
  <2>4. changed' = changed \cup {<<k, p>>} /\ Has(k)' /\ journal'[k].print = p
    BY <2>1, <2>2, <2>3 DEF Asked, Has
  <2> QED
    BY <1>1, <2>4 DEF NothingUnrecorded
<1> QED
  BY <1>2, <1>3 DEF Next, vars, bounds, Send, Execute, Initialize, Recall, Begin, BeginFails,
       MutateThrows, RecordSuccess, RecordSuccessFails, RecordFailure,
       RecordFailureFails, Crash, Restart, Interrupt, Initialized

LEMMA SucceededStep ==
  ASSUME JournalInv, [Next]_vars
  PROVE  SucceededInv'
<1> USE DEF JournalInv
<1>1. complete \subseteq complete'
  BY DEF Next, vars, bounds, Send, Execute, Initialize, Recall, Begin, BeginFails, Change,
       MutateReturns, MutateThrows, RecordSuccess, RecordSuccessFails, RecordFailure,
       RecordFailureFails, Crash, Restart, Interrupt, Initialized
<1>2. CASE ~JournalActions
  BY <1>1, <1>2, OtherActions DEF SucceededInv, Has
<1>3. ASSUME NEW c \in Call, NEW v \in {"running"} \cup Verdicts, WriteVerdict(c, v), call[c].pc # "idle",
             v = "succeeded" => Asked(c) \in complete
      PROVE  SucceededInv'
  BY <1>1, <1>3, Written DEF SucceededInv, Has, Asked
<1>4. ASSUME NEW c \in Call, Begin(c) \/ RecordSuccess(c) \/ RecordFailure(c) PROVE SucceededInv'
  <2>1. CASE Begin(c)
    BY <1>3, <2>1 DEF Begin, Turn
  <2>2. CASE RecordFailure(c)
    BY <1>3, <2>2 DEF RecordFailure, Turn, Verdicts
  <2>3. CASE RecordSuccess(c)
    <3>1. Asked(c) \in complete
      BY <2>3 DEF RecordSuccess, Turn, WorkInv, Working
    <3> QED
      BY <1>3, <2>3, <3>1 DEF RecordSuccess, Turn, Verdicts
  <2> QED
    BY <1>4, <2>1, <2>2, <2>3
<1>5. ASSUME NEW k \in Key, Interrupt(k) PROVE SucceededInv'
  <2>1. journal[k] \in Record
    BY <1>5 DEF Interrupt, Stale, Has, TypeOK
  <2>2. [journal[k] EXCEPT !.status = "interrupted"].status = "interrupted"
    BY <2>1 DEF Record
  <2>3. journal'[k].status = "interrupted" /\ \A other \in Key \ {k} : journal'[other] = journal[other]
    BY <1>5, <2>2 DEF Interrupt, TypeOK
  <2> QED
    BY <1>1, <2>3 DEF SucceededInv, Has
<1> QED
  BY <1>2, <1>4, <1>5 DEF JournalActions

Success(t, done, store) ==
  /\ t.command \in done
  /\ store[t.command[1]] = [print |-> t.command[2], status |-> "succeeded"]

LEMMA SuccessStep ==
  ASSUME JournalInv, [Next]_vars
  PROVE  SuccessIsReal'
<1> USE DEF JournalInv
<1>1. complete \subseteq complete'
  BY DEF Next, vars, bounds, Send, Execute, Initialize, Recall, Begin, BeginFails, Change,
       MutateReturns, MutateThrows, RecordSuccess, RecordSuccessFails, RecordFailure,
       RecordFailureFails, Crash, Restart, Interrupt, Initialized
<1>2. ASSUME NEW t \in told, t.word \in {"value", "reused"} PROVE Success(t, complete', journal')
  <2>1. t.command[1] \in Key
    BY DEF TypeOK, Command
  <2>2. Success(t, complete, journal)
    BY <1>2 DEF SuccessIsReal, Success
  <2>3. journal[t.command[1]] \in Record \cup {NoRecord} /\ journal[t.command[1]].status = "succeeded"
    BY <2>1, <2>2 DEF TypeOK, Success
  <2>4. Has(t.command[1])
    <3>1. [print |-> t.command[2], status |-> "succeeded"] \in Record
      BY DEF TypeOK, Command, Record, Verdicts
    <3> QED
      BY <2>2, <3>1, NullAssumption DEF Success, Has
  <2>5. journal'[t.command[1]] = journal[t.command[1]]
    BY <2>1, <2>3, <2>4, RecordStep DEF MayBecome
  <2> QED
    BY <1>1, <2>2, <2>5 DEF Success
<1>3. ASSUME \A t \in told' \ told : t.word \in {"value", "reused"} => Success(t, complete', journal')
      PROVE  SuccessIsReal'
  BY <1>2, <1>3 DEF SuccessIsReal, Success
<1>4. ASSUME NEW c \in Call, Recall(c) PROVE SuccessIsReal'
  <2>1. queue # <<>> /\ Head(queue) = c /\ call[c].pc = "queued" /\ call[c].key \in Key
        /\ Answer(c, Verdict(c)) /\ Verdict(c) \in Words
    BY <1>4, CallFields DEF Recall, Turn, Verdict, Words
  <2>2. \A t \in told' \ told : t.command = Asked(c) /\ t.word = Verdict(c)
    BY <2>1, Answered
  <2>3. journal' = journal /\ complete' = complete /\ Has(call[c].key)
    BY <1>4 DEF Recall
  <2>4. ASSUME Verdict(c) \in {"value", "reused"} PROVE Success([command |-> Asked(c)], complete, journal)
    <3>1. Previous(c).print = call[c].print /\ Previous(c).status = "succeeded"
      BY <2>4 DEF Verdict
    <3>2. Previous(c) \in Record
      BY <2>1, <2>3 DEF Previous, Has, TypeOK
    <3>3. Previous(c) = [print |-> call[c].print, status |-> "succeeded"]
      BY <3>1, <3>2 DEF Record
    <3>4. Asked(c) \in complete
      BY <2>1, <3>1, <2>3 DEF SucceededInv, Asked, Previous
    <3> QED
      BY <3>3, <3>4 DEF Success, Asked, Previous
  <2> QED
    BY <1>3, <2>2, <2>3, <2>4 DEF Success
<1>5. ASSUME NEW c \in Call, RecordSuccess(c) PROVE SuccessIsReal'
  <2>1. queue # <<>> /\ Head(queue) = c /\ call[c].pc = "returned" /\ call[c].key \in Key
        /\ call[c].print \in Fingerprint /\ Answer(c, "value") /\ "value" \in Words
    BY <1>5, CallFields DEF RecordSuccess, Turn, Words
  <2>2. \A t \in told' \ told : t.command = Asked(c)
    BY <2>1, Answered
  <2>3. journal'[call[c].key] = [print |-> call[c].print, status |-> "succeeded"]
    BY <1>5, <2>1 DEF RecordSuccess, WriteVerdict, TypeOK
  <2>4. Asked(c) \in complete'
    BY <1>1, <2>1 DEF WorkInv, Working
  <2> QED
    BY <1>3, <2>2, <2>3, <2>4 DEF Success, Asked
<1>6. ASSUME NEW c \in Call, BeginFails(c) \/ RecordFailure(c) \/ RecordFailureFails(c)
      PROVE  SuccessIsReal'
  <2>1. queue # <<>> /\ Head(queue) = c /\ call[c].pc # "idle" /\ Answer(c, "error") /\ "error" \in Words
    BY <1>6 DEF BeginFails, RecordFailure, RecordFailureFails, Turn, Words
  <2>2. \A t \in told' \ told : t.word = "error"
    BY <2>1, Answered
  <2> QED
    BY <1>3, <2>2
<1>7. CASE told' = told
  BY <1>3, <1>7
<1> QED
  BY <1>4, <1>5, <1>6, <1>7 DEF Next, vars, bounds, Send, Execute, Initialize, Begin, Change,
       MutateReturns, MutateThrows, RecordSuccessFails, Crash, Restart, Interrupt, Initialized

LEMMA RunningStep ==
  ASSUME JournalInv, [Next]_vars
  PROVE  RunningIsAtWork'
<1> USE DEF JournalInv
<1> DEFINE Excused(k) ==
      \/ \E c \in Call : call[c].pc \in Working /\ call[c].key = k
      \/ \E t \in told : t.command = <<k, journal[k].print>> /\ t.word = "error"
<1>1. CASE UNCHANGED vars
  BY <1>1 DEF vars, RunningIsAtWork, Has
<1>2. CASE Crash \/ Restart \/ Initialize
  BY <1>2 DEF Crash, Restart, Initialize, Interrupt, Initialized, Stale, RunningIsAtWork, Has
<1>3. ASSUME NEW c \in Call, NEW k \in Key, NEW p \in Fingerprint, Send(c, k, p)
      PROVE  RunningIsAtWork'
  BY <1>3 DEF Send, RunningIsAtWork, Has, TypeOK
<1>4. ASSUME NEW c \in Call, Change(c) PROVE RunningIsAtWork'
  BY <1>4 DEF Change, RunningIsAtWork, Has
<1>5. ASSUME NEW c \in Call, MutateReturns(c) \/ MutateThrows(c) \/ RecordSuccessFails(c)
      PROVE  RunningIsAtWork'
  <2>1. /\ queue # <<>> /\ Head(queue) = c /\ call[c].pc # "idle" /\ host = "up"
        /\ UNCHANGED <<host, journal, queue, told>> /\ \E pc \in Working : At(c, pc)
    BY <1>5 DEF MutateReturns, MutateThrows, RecordSuccessFails, Turn, Working
  <2>2. call'[c].pc \in Working /\ call'[c].key = call[c].key
        /\ \A d \in Call \ {c} : call'[d] = call[d]
    BY <2>1, Stepped
  <2> QED
    BY <2>1, <2>2 DEF RunningIsAtWork, Has, Working
<1>6. ASSUME NEW c \in Call, Begin(c) PROVE RunningIsAtWork'
  <2>1. /\ queue # <<>> /\ Head(queue) = c /\ call[c].pc # "idle" /\ host = "up" /\ At(c, "mutating")
        /\ UNCHANGED <<host, queue, told>> /\ WriteVerdict(c, "running")
    BY <1>6 DEF Begin, Turn
  <2>2. call'[c].pc = "mutating" /\ call'[c].key = call[c].key
        /\ \A d \in Call \ {c} : call'[d] = call[d]
    BY <2>1, Stepped DEF Working
  <2>3. PICK k \in Key : /\ k = call[c].key
                         /\ \A other \in Key \ {k} : journal'[other] = journal[other]
    BY <2>1, Written
  <2>4. ASSUME NEW other \in Key \ {k}, Has(other)', journal'[other].status = "running"
        PROVE  Excused(other)'
    <3>1. Excused(other)
      BY <2>1, <2>3, <2>4 DEF RunningIsAtWork, Has, Working
    <3> QED
      BY <2>1, <2>2, <2>3, <3>1 DEF Working
  <2>5. Excused(k)'
    BY <2>2, <2>3 DEF Working
  <2> QED
    BY <2>4, <2>5 DEF RunningIsAtWork, Working
<1>7. ASSUME NEW c \in Call, Recall(c) \/ BeginFails(c) PROVE RunningIsAtWork'
  <2>1. /\ queue # <<>> /\ Head(queue) = c /\ call[c].pc = "queued" /\ host = "up"
        /\ UNCHANGED <<host, journal>> /\ \E word \in Words : Answer(c, word)
    BY <1>7 DEF Recall, BeginFails, Turn, Words, Verdict
  <2>2. told \subseteq told' /\ \A d \in Call \ {c} : call'[d] = call[d]
    BY <2>1, Answered
  <2> QED
    BY <2>1, <2>2 DEF RunningIsAtWork, Has
<1>8. ASSUME NEW c \in Call, RecordSuccess(c) \/ RecordFailure(c) PROVE RunningIsAtWork'
  <2>1. /\ queue # <<>> /\ Head(queue) = c /\ call[c].pc # "idle" /\ host = "up" /\ host' = host
        /\ \E word \in Words : Answer(c, word)
        /\ \E v \in Verdicts : WriteVerdict(c, v)
    BY <1>8 DEF RecordSuccess, RecordFailure, Turn, Words, Verdicts
  <2>2. told \subseteq told' /\ \A d \in Call \ {c} : call'[d] = call[d]
    BY <2>1, Answered
  <2>3. PICK k \in Key : /\ k = call[c].key /\ journal'[k].status \in Verdicts
                         /\ \A other \in Key \ {k} : journal'[other] = journal[other]
    BY <2>1, Written
  <2>4. ASSUME NEW other \in Key \ {k}, Has(other)', journal'[other].status = "running"
        PROVE  Excused(other)'
    <3>1. Excused(other)
      BY <2>1, <2>3, <2>4 DEF RunningIsAtWork, Has, Working
    <3> QED
      BY <2>2, <2>3, <3>1
  <2> QED
    BY <2>3, <2>4 DEF RunningIsAtWork, Verdicts, Working
<1>9. ASSUME NEW c \in Call, RecordFailureFails(c) PROVE RunningIsAtWork'
  <2>1. /\ queue # <<>> /\ Head(queue) = c /\ call[c].pc = "thrown" /\ host = "up"
        /\ UNCHANGED <<host, journal>> /\ Answer(c, "error") /\ "error" \in Words
    BY <1>9 DEF RecordFailureFails, Turn, Words
  <2>2. told \subseteq told' /\ \A d \in Call \ {c} : call'[d] = call[d]
    BY <2>1, Answered
  <2>3. PICK t \in told' : t.command = Asked(c) /\ t.word = "error"
    <3>1. [command |-> Asked(c), word |-> "error"] \in told'
      BY <2>1 DEF Answer
    <3> QED
      BY <3>1
  <2>4. Asked(c) = <<call[c].key, journal[call[c].key].print>>
    BY <2>1 DEF WorkInv, Working, Asked, Previous
  <2> QED
    BY <2>1, <2>2, <2>3, <2>4 DEF RunningIsAtWork, Has
<1> QED
  BY <1>1, <1>2, <1>3, <1>4, <1>5, <1>6, <1>7, <1>8, <1>9 DEF Next, Execute

LEMMA Inductive == JournalInv /\ [Next]_vars => JournalInv'
BY TypeStep, WorkStep, HostStep, BegunStep, SucceededStep, UnrecordedStep, SuccessStep, RunningStep
   DEF JournalInv

LEMMA Invariant == Spec => []JournalInv
BY InitInv, Inductive, PTL DEF Spec

\* Records, queue and calls have their types, and only the first call of the
\* queue is at work.
THEOREM TypeCorrect == Spec => []TypeOK
<1>1. JournalInv => TypeOK
  BY DEF JournalInv
<1> QED
  BY Invariant, <1>1, PTL

\* The mutation of a key is started at most once, whatever is resent, fails
\* or crashes.
THEOREM MutatedAtMostOnce == Spec => []AtMostOnce
<1>1. JournalInv => AtMostOnce
  BY DEF JournalInv, BegunInv, AtMostOnce
<1> QED
  BY Invariant, <1>1, PTL

\* No change of the workspace is unknown to the journal.
THEOREM ChangesAreRecorded == Spec => []NothingUnrecorded
<1>1. JournalInv => NothingUnrecorded
  BY DEF JournalInv
<1> QED
  BY Invariant, <1>1, PTL

\* Whoever is told that a command succeeded, by its own execution or from the
\* journal, asked for exactly the command that was executed to its end, and the
\* record of its key says so.
THEOREM ToldSuccessIsReal == Spec => []SuccessIsReal
<1>1. JournalInv => SuccessIsReal
  BY DEF JournalInv
<1> QED
  BY Invariant, <1>1, PTL

\* A record that is running belongs to a call at work, or to one whose failure
\* was told when it could not be recorded.
THEOREM RunningRecordsAreWorked == Spec => []RunningIsAtWork
<1>1. JournalInv => RunningIsAtWork
  BY DEF JournalInv
<1> QED
  BY Invariant, <1>1, PTL

\* A verdict is never replaced.
THEOREM VerdictsAreFinal == Spec => VerdictsStand
<1>1. JournalInv /\ [Next]_vars =>
        [\A k \in Key : Has(k) /\ journal[k].status \in Verdicts => journal'[k] = journal[k]]_vars
  <2> SUFFICES ASSUME JournalInv, [Next]_vars, NEW k \in Key, Has(k), journal[k].status \in Verdicts
               PROVE  journal'[k] = journal[k]
    OBVIOUS
  <2> QED
    BY RecordStep DEF MayBecome, Verdicts
<1> QED
  BY Invariant, <1>1, PTL DEF Spec, VerdictsStand
=============================================================================
