--------------------------- MODULE TicketWorkflow ---------------------------
(***************************************************************************)
(* What the ticket workflow promises whoever reads the board, with no word *)
(* about how a ticket is worked on: a ready ticket with finished           *)
(* dependencies is claimed by one worker, its result is admitted by a      *)
(* gate, an admitted ticket is handed to review, and only operators take   *)
(* it further or send it back.  Automation never finishes a ticket and     *)
(* never silently reverts one (autonomous-coding-session-contract.md).     *)
(***************************************************************************)
EXTENDS TicketBoard

CONSTANTS
  Workers,        \* who may claim a ticket
  NoWorker,       \* nobody has claimed the ticket
  InitialBoards   \* the boards a repository may start with

VARIABLES
  status,    \* ticket id -> status
  worker,    \* ticket id -> the worker that claimed it last
  admitted   \* the claimed tickets whose change the gate let through

workflowVars == <<status, worker, admitted>>

Init ==
  /\ status \in InitialBoards
  /\ worker = [t \in Tickets |-> NoWorker]
  /\ admitted = {}

FinishedDependencies(t) ==
  \A i \in DOMAIN DependsOn[t] : status[DependsOn[t][i]] \in {"done", "absent"}

Claim(t, w) ==
  /\ status[t] = "ready"
  /\ FinishedDependencies(t)
  /\ status' = [status EXCEPT ![t] = "claimed"]
  /\ worker' = [worker EXCEPT ![t] = w]
  /\ UNCHANGED admitted

Admit(t) ==
  /\ status[t] = "claimed"
  /\ t \notin admitted
  /\ admitted' = admitted \cup {t}
  /\ UNCHANGED <<status, worker>>

\* The worker dies or its report fails: the ticket stays claimed.
Withdraw(t) ==
  /\ t \in admitted
  /\ admitted' = admitted \ {t}
  /\ UNCHANGED <<status, worker>>

HandToReview(t) ==
  /\ t \in admitted
  /\ status' = [status EXCEPT ![t] = "needs_review"]
  /\ admitted' = admitted \ {t}
  /\ UNCHANGED worker

Finish(t) ==
  /\ status[t] = "needs_review"
  /\ status' = [status EXCEPT ![t] = "done"]
  /\ UNCHANGED <<worker, admitted>>

Archive(t) ==
  /\ status[t] = "done"
  /\ status' = [status EXCEPT ![t] = "absent"]
  /\ UNCHANGED <<worker, admitted>>

SendBack(t) ==
  /\ status[t] \in {"claimed", "needs_review"}
  /\ t \notin admitted
  /\ status' = [status EXCEPT ![t] = "ready"]
  /\ worker' = [worker EXCEPT ![t] = NoWorker]
  /\ UNCHANGED admitted

Next ==
  \E t \in Tickets :
    \/ \E w \in Workers : Claim(t, w)
    \/ Admit(t) \/ Withdraw(t) \/ HandToReview(t)
    \/ Finish(t) \/ Archive(t) \/ SendBack(t)

Spec == Init /\ [][Next]_workflowVars
=============================================================================
