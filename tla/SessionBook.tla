---------------------------- MODULE SessionBook ----------------------------
(***************************************************************************)
(* What a workspace promises of its play sessions: the active session is   *)
(* replaced in one step; a session becomes active only when it is idle; a  *)
(* removed session never comes back; a session is detached only when its   *)
(* branch is gone, and then only its removal or a client's update is left. *)
(***************************************************************************)
CONSTANTS Session, BranchOf

VARIABLES
  status,    \* of each session: "none", "idle", "active", "archived", "detached"
  opened,    \* sessions that were created
  branches   \* branches that exist

BookInit == status = [s \in Session |-> "none"] /\ opened = {}

Become(s, word) == status' = [status EXCEPT ![s] = word]

\* Identifiers are drawn at random and never used again.
Open(s) ==
  /\ s \notin opened
  /\ opened' = opened \cup {s}
  /\ Become(s, "idle")
  /\ UNCHANGED branches

Switch(s) ==
  /\ status[s] = "idle"
  /\ status' = [t \in Session |->
       IF t = s THEN "active" ELSE IF status[t] = "active" THEN "idle" ELSE status[t]]
  /\ UNCHANGED <<opened, branches>>

Archive(s) ==
  /\ status[s] \in {"idle", "active"}
  /\ Become(s, "archived")
  /\ UNCHANGED <<opened, branches>>

\* A restored session, or an active one that is put aside, is idle.
Rest(s) ==
  /\ status[s] \in {"active", "archived"}
  /\ Become(s, "idle")
  /\ UNCHANGED <<opened, branches>>

Remove(s) ==
  /\ status[s] # "none"
  /\ Become(s, "none")
  /\ UNCHANGED <<opened, branches>>

RemoveBranch(b) ==
  /\ b \in branches
  /\ branches' = branches \ {b}
  /\ UNCHANGED <<status, opened>>

Detach(s) ==
  /\ BranchOf[s] \notin branches /\ status[s] # "none"
  /\ Become(s, "detached")
  /\ UNCHANGED <<opened, branches>>

\* A client's update of a detached session is not refused.
Reopen(s) ==
  /\ status[s] = "detached"
  /\ Become(s, "idle") \/ Become(s, "archived")
  /\ UNCHANGED <<opened, branches>>

BookNext ==
  \/ \E s \in Session : Open(s) \/ Switch(s) \/ Archive(s) \/ Rest(s)
                       \/ Remove(s) \/ Detach(s) \/ Reopen(s)
  \/ \E s \in Session : RemoveBranch(BranchOf[s])

BookSpec == BookInit /\ [][BookNext]_<<status, opened, branches>>
=============================================================================
