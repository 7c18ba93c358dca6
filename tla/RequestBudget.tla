--------------------------- MODULE RequestBudget ---------------------------
(***************************************************************************)
(* Budgets of model requests (runtime/model-request-budget.ts) and the     *)
(* gates that agent/model-request-budget.ts puts before a model: a call    *)
(* passes every budget it is under (the turn's, the adapter's, the         *)
(* review's), first when it begins and again, later, for each physical     *)
(* payload.  Calls of several agents overlap, a turn may end while they    *)
(* are under way, the save of a budget may fail, and the process may       *)
(* restart with the budgets that were saved.                               *)
(*                                                                         *)
(* JavaScript runs one gate passage to its end, so it is one action.       *)
(***************************************************************************)
EXTENDS Naturals, Sequences

CONSTANTS
  Budgets,
  Kept,         \* budgets whose state is saved
  Calls,        \* model sessions
  Gates,        \* session -> the budgets it is under, in order
  CallsMode,    \* budget -> "enforce", "observe" or "progress"
  Bytes,        \* budget -> are byte limits enforced (else observed)
  MaxCalls,     \* limits.maxModelCalls
  MaxRequest,   \* limits.maxRequestBytes
  MaxTotal,     \* limits.maxTotalPayloadBytes
  Sizes,        \* sizes of requests
  Milestones,
  MaxSpent,     \* bound: calls and payloads under one budget
  MaxMishaps    \* bound: failing saves and restarts

ASSUME BudgetAssumption ==
  /\ Kept \subseteq Budgets
  /\ Gates \in [Calls -> Seq(Budgets)]
  /\ \A c \in Calls : \A i, j \in 1 .. Len(Gates[c]) :
        Gates[c][i] = Gates[c][j] => i = j
  /\ CallsMode \in [Budgets -> {"enforce", "observe", "progress"}]
  /\ Bytes \in [Budgets -> BOOLEAN]
  /\ {MaxCalls, MaxRequest, MaxTotal} \subseteq Nat \ {0}
  /\ Sizes \subseteq Nat
  /\ {MaxSpent, MaxMishaps} \subseteq Nat

VARIABLES
  mem,      \* budget -> the object in memory
  disk,     \* budget -> what was saved of it last
  open,     \* sessions whose call has begun and whose payload may be sent
  spent,    \* budget -> calls, payloads and bytes let through (history)
  stall,    \* budget -> calls let through since a milestone was saved (history)
  mishaps
budgetVars == <<mem, disk, open, spent, stall, mishaps>>

Usage == [calls: Nat, payloads: Nat, bytes: Nat]
Saved == [usage: Usage, failed: BOOLEAN, mark: Nat, seen: SUBSET Milestones]
Object == [usage: Usage, failed: BOOLEAN, mark: Nat, seen: SUBSET Milestones,
           closed: BOOLEAN]

BudgetTypeOK ==
  /\ mem \in [Budgets -> Object] /\ disk \in [Budgets -> Saved]
  /\ open \subseteq Calls
  /\ spent \in [Budgets -> Usage] /\ stall \in [Budgets -> Nat]
  /\ mishaps \in Nat

Zero == [calls |-> 0, payloads |-> 0, bytes |-> 0]
Unused == [usage |-> Zero, failed |-> FALSE, mark |-> 0, seen |-> {}]
\* Mutant: the constructor takes over the counters only.
LoadedUsable(saved) ==
  [usage |-> saved.usage, failed |-> FALSE, mark |-> saved.mark,
   seen |-> saved.seen, closed |-> FALSE]

\* The constructor takes over what was saved, a hard stop included.
Loaded(saved) ==
  [usage |-> saved.usage, failed |-> saved.failed, mark |-> saved.mark,
   seen |-> saved.seen, closed |-> FALSE]
Image(b) ==
  [usage |-> b.usage, failed |-> b.failed, mark |-> b.mark, seen |-> b.seen]

BudgetInit ==
  /\ mem = [b \in Budgets |-> Loaded(Unused)]
  /\ disk = [b \in Budgets |-> Unused]
  /\ open = {}
  /\ spent = [b \in Budgets |-> Zero] /\ stall = [b \in Budgets |-> 0]
  /\ mishaps = 0

Usable(b) == ~mem[b].failed /\ ~mem[b].closed
Failed(object) == [object EXCEPT !.failed = TRUE]

(***************************************************************************)
(* persist: budgets whose objects become those of "next"; the saves of     *)
(* "broken" fail, which stops the budget in memory only.                   *)
(***************************************************************************)
Broken == IF mishaps < MaxMishaps THEN {{}} \cup {{b} : b \in Kept} ELSE {{}}
Persist(changed, next, broken) ==
  /\ mem' = [b \in Budgets |->
       IF b \notin changed THEN mem[b]
       ELSE IF b \in broken THEN Failed(next[b]) ELSE next[b]]
  /\ disk' = [b \in Budgets |->
       IF b \in (changed \cap Kept) \ broken THEN Image(next[b]) ELSE disk[b]]
  /\ mishaps' = IF broken = {} THEN mishaps ELSE mishaps + 1

(***************************************************************************)
(* A passage through the gates of a session.  All must be usable; then     *)
(* each is charged in turn until one refuses or cannot save its charge.    *)
(* A closed budget that is still asked fails for good.                     *)
(***************************************************************************)
Before(c, i) == {Gates[c][j] : j \in 1 .. i - 1}
Passage(c, refuses, charged, broken, through) ==
  LET here == 1 .. Len(Gates[c])
      first(S) == {i \in here : Gates[c][i] \in S /\ Before(c, i) \cap S = {}}
      unusable == {b \in Before(c, Len(Gates[c]) + 1) : ~Usable(b)}
      stops == refuses \cup broken
      failed == [b \in Budgets |-> Failed(mem[b])]
  IN \/ \E i \in first(unusable) :
          LET b == Gates[c][i] IN
          /\ broken \subseteq {b} /\ (mem[b].failed => broken = {})
          /\ Persist(IF mem[b].failed THEN {} ELSE {b}, failed, broken)
          /\ open' = open \ {c} /\ UNCHANGED <<spent, stall>>
     \/ /\ unusable = {}
        /\ \E i \in first(stops) :
             LET b == Gates[c][i] IN
             /\ broken \subseteq {b}
             /\ Persist(Before(c, i + 1),
                        IF b \in refuses THEN [charged EXCEPT ![b] = failed[b]]
                        ELSE charged, broken)
        /\ open' = open \ {c} /\ UNCHANGED <<spent, stall>>
     \/ /\ unusable = {} /\ first(stops) = {} /\ broken = {}
        /\ Persist(Before(c, Len(Gates[c]) + 1), charged, broken)
        /\ through

Under(c) == Before(c, Len(Gates[c]) + 1)
TooLarge(b, size) == Bytes[b] /\ size > MaxRequest

\* beginCall
NoCallLeft(b) ==
  \/ CallsMode[b] = "enforce" /\ mem[b].usage.calls >= MaxCalls
  \/ CallsMode[b] = "progress" /\ mem[b].usage.calls - mem[b].mark >= MaxCalls

BeginCall(c, size, broken) ==
  /\ c \notin open
  /\ \A b \in Under(c) : spent[b].calls < MaxSpent
  /\ Passage(c, {b \in Budgets : NoCallLeft(b) \/ TooLarge(b, size)},
             [b \in Budgets |-> [mem[b] EXCEPT !.usage.calls = @ + 1]], broken,
             /\ open' = open \cup {c}
             /\ spent' = [b \in Budgets |-> IF b \in Under(c)
                  THEN [spent[b] EXCEPT !.calls = @ + 1] ELSE spent[b]]
             /\ stall' = [b \in Budgets |->
                  IF b \in Under(c) THEN stall[b] + 1 ELSE stall[b]])

\* admitPayload, at the first sending and at every retry of the provider
AdmitPayload(c, size, broken) ==
  /\ c \in open
  /\ \A b \in Under(c) : spent[b].payloads < MaxSpent
  /\ Passage(c, {b \in Budgets : \/ TooLarge(b, size)
                                 \/ Bytes[b] /\ mem[b].usage.bytes + size > MaxTotal},
             [b \in Budgets |-> [mem[b] EXCEPT !.usage.payloads = @ + 1,
                                               !.usage.bytes = @ + size]], broken,
             /\ spent' = [b \in Budgets |-> IF b \in Under(c)
                  THEN [spent[b] EXCEPT !.payloads = @ + 1, !.bytes = @ + size]
                  ELSE spent[b]]
             /\ UNCHANGED <<open, stall>>)

\* The model answered, or its session was given up.
EndCall(c) ==
  /\ c \in open /\ open' = open \ {c}
  /\ UNCHANGED <<mem, disk, spent, stall, mishaps>>

(***************************************************************************)
(* recordValidatedProgress; a milestone counts once.                       *)
(***************************************************************************)
\* Mutant: a milestone that is reported again counts again.
IsNewAlways(b, m) == TRUE

IsNew(b, m) == m \notin mem[b].seen
RecordValidatedProgress(b, m, broken) ==
  /\ CallsMode[b] = "progress" /\ ~mem[b].failed /\ broken \subseteq {b}
  /\ IF mem[b].closed
     THEN /\ Persist({b}, [mem EXCEPT ![b] = Failed(@)], broken)
          /\ UNCHANGED stall
     ELSE /\ IsNew(b, m)
          /\ Persist({b}, [mem EXCEPT ![b].seen = @ \cup {m},
                                      ![b].mark = mem[b].usage.calls], broken)
          /\ stall' = IF broken = {} /\ m \notin mem[b].seen
                      THEN [stall EXCEPT ![b] = 0] ELSE stall
  /\ UNCHANGED <<open, spent>>

\* The host operation ends; calls that are under way keep the closed gate.
Close(b) ==
  /\ ~mem[b].closed
  /\ mem' = [mem EXCEPT ![b].closed = TRUE]
  /\ UNCHANGED <<disk, open, spent, stall, mishaps>>

\* A new process: saved budgets go on, the others are new ones.
NewProcess ==
  /\ mishaps < MaxMishaps /\ mishaps' = mishaps + 1
  /\ disk' = [b \in Budgets |-> IF b \in Kept THEN disk[b] ELSE Unused]
  /\ mem' = [b \in Budgets |-> Loaded(disk'[b])]
  /\ open' = {}
  /\ spent' = [b \in Budgets |-> IF b \in Kept THEN spent[b] ELSE Zero]
  /\ stall' = [b \in Budgets |-> IF b \in Kept THEN stall[b] ELSE 0]

BudgetNext ==
  \/ \E c \in Calls, size \in Sizes, broken \in Broken :
       BeginCall(c, size, broken) \/ AdmitPayload(c, size, broken)
  \/ \E b \in Budgets, m \in Milestones, broken \in Broken :
       RecordValidatedProgress(b, m, broken)
  \/ \E c \in Calls : EndCall(c)
  \/ \E b \in Budgets : Close(b)
  \/ NewProcess

BudgetSpec == BudgetInit /\ [][BudgetNext]_budgetVars

(***************************************************************************)
(* Properties.                                                             *)
(***************************************************************************)
\* However calls, retries, failing saves and restarts interleave, a request
\* that went out is counted in the saved state of every budget it is under,
\* and no enforced limit is passed; in progress mode a restart renews no
\* window, and only a milestone that is new does.
LimitsHold ==
  \A b \in Budgets :
    /\ CallsMode[b] = "enforce" => spent[b].calls <= MaxCalls
    /\ CallsMode[b] = "progress" => stall[b] <= MaxCalls
    /\ Bytes[b] => spent[b].bytes <= MaxTotal
    /\ b \in Kept => /\ spent[b].calls <= disk[b].usage.calls
                     /\ spent[b].payloads <= disk[b].usage.payloads
                     /\ spent[b].bytes <= disk[b].usage.bytes

\* "An ended host operation cannot dispatch late callbacks into another turn",
\* and a hard stop that was saved outlives every restart.
StoppedForGood ==
  [][\A b \in Budgets :
       /\ spent'[b].payloads > spent[b].payloads =>
            ~mem[b].closed /\ ~mem[b].failed /\ ~disk[b].failed
       /\ b \in Kept /\ disk[b].failed => disk'[b].failed]_budgetVars
=============================================================================
