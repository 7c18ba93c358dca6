--------------------------- MODULE BranchHistory ---------------------------
(***************************************************************************)
(* What BranchStore promises: every branch is a register holding a commit, *)
(* which is made at once, moves from a commit to one of its children, and  *)
(* is removed at once.  Commits are stored for ever, parents first.        *)
(***************************************************************************)
EXTENDS Naturals, Sequences

CONSTANTS Branch, Proposal

VARIABLES
  history,      \* the history of each branch, <<>> when it does not exist
  stored        \* the commits stored so far

Event == [branch: Branch, proposal: Proposal]
NoCommit == <<>>

Init ==
  /\ history = [b \in Branch |-> NoCommit]
  /\ stored = {}

\* A first commit, or a child of a stored one.
Store(e) ==
  /\ \E c \in stored \cup {NoCommit} : stored' = stored \cup {Append(c, e)}
  /\ UNCHANGED history

\* A branch starts at a stored commit: its genesis, or another's commit.
Create(b) ==
  /\ history[b] = NoCommit
  /\ \E c \in stored : history' = [history EXCEPT ![b] = c]
  /\ UNCHANGED stored

\* Compare-and-swap: the head moves to a stored child of itself.
Advance(b, e) ==
  /\ history[b] # NoCommit
  /\ Append(history[b], e) \in stored
  /\ history' = [history EXCEPT ![b] = Append(@, e)]
  /\ UNCHANGED stored

Remove(b) ==
  /\ history[b] # NoCommit
  /\ history' = [history EXCEPT ![b] = NoCommit]
  /\ UNCHANGED stored

Next ==
  \/ \E e \in Event : Store(e)
  \/ \E b \in Branch : Create(b) \/ Remove(b)
  \/ \E b \in Branch, e \in Event : Advance(b, e)

Spec == Init /\ [][Next]_<<history, stored>>
=============================================================================
