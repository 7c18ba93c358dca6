------------------------- MODULE OperationLifecycle -------------------------
(***************************************************************************)
(* What the web host promises of a long operation, whatever happens to the *)
(* process: it is accepted once, changes the world only while it is        *)
(* pending or when its verdict leaves that open ("maybe"), and its verdict *)
(* stays until the manifest is dropped by retention.  The verdict          *)
(* "unchanged" (the operation ended before its commit boundary) is true    *)
(* when it is given and stays true.                                        *)
(***************************************************************************)
CONSTANT Operation

VARIABLES verdict, changed

lifecycle == <<verdict, changed>>

LInit == verdict = [i \in Operation |-> "absent"] /\ changed = {}

Change(i) ==
  /\ verdict[i] \in {"pending", "maybe"}
  /\ changed' = changed \cup {i}
  /\ UNCHANGED verdict

\* Several operations may get their verdict at once, and one be accepted
\* while others are dropped.
Advances(i) ==
  \/ verdict'[i] = verdict[i]
  \/ verdict[i] = "absent" /\ verdict'[i] = "pending"
  \/ verdict[i] = "pending" /\ verdict'[i] = "maybe"
  \/ verdict[i] = "pending" /\ verdict'[i] = "unchanged" /\ i \notin changed
  \/ verdict[i] \in {"maybe", "unchanged"} /\ verdict'[i] = "dropped"

Advance ==
  /\ verdict' \in [Operation -> {"absent", "pending", "maybe", "unchanged", "dropped"}]
  /\ \A i \in Operation : Advances(i)
  /\ UNCHANGED changed

LNext == Advance \/ \E i \in Operation : Change(i)

LSpec == LInit /\ [][LNext]_lifecycle

\* The promise in one sentence: an operation that ended before its commit
\* boundary has not changed anything.
UnchangedIsTrue == \A i \in Operation : verdict[i] = "unchanged" => i \notin changed
=============================================================================
