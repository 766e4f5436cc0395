----------------------------- MODULE TicketBoard -----------------------------
(***************************************************************************)
(* The ticket board as the scanner of src/higgs_agent/tickets/scanner.py   *)
(* sees it: which ticket files the index holds, which of them are ready,   *)
(* why the others are not, and in which order ready ones are dispatched.   *)
(* A board is a function from ticket ids to statuses.  "absent" stands for *)
(* an id with no usable file: archived, malformed or duplicated, all of    *)
(* which scan_ticket_directory leaves out of its index.                    *)
(***************************************************************************)
EXTENDS Integers, Sequences

CONSTANTS
  Tickets,    \* the ticket ids that exist or are named as dependencies
  DependsOn,  \* DependsOn[t]: the depends_on list of t, in file order
  Priority,   \* Priority[t]: the priority string of t
  IdOrder     \* IdOrder[t]: the place of t's id in string order

Priorities == {"p0", "p1", "p2", "other"}
Statuses   == {"ready", "claimed", "needs_review", "done", "absent"}
Boards     == [Tickets -> Statuses]

ASSUME BoardAssumption ==
  /\ DependsOn \in [Tickets -> Seq(Tickets)]
  /\ Priority \in [Tickets -> Priorities]
  /\ IdOrder \in [Tickets -> Nat]
  /\ \A t, u \in Tickets : IdOrder[t] = IdOrder[u] => t = u

\* PRIORITY_ORDER.get(priority, 99)
PriorityOrder(p) == CASE p = "p0" -> 0 [] p = "p1" -> 1 [] p = "p2" -> 2
                      [] OTHER -> 99

\* The sort key (priority, id) of select_ready_tickets.
Before(t, u) ==
  \/ PriorityOrder(Priority[t]) < PriorityOrder(Priority[u])
  \/ /\ PriorityOrder(Priority[t]) = PriorityOrder(Priority[u])
     /\ IdOrder[t] < IdOrder[u]

\* The records scan_ticket_directory puts in ticket_index.
Indexed(board) == {t \in Tickets : board[t] # "absent"}

\* The places of t's depends_on list at which _evaluate_ticket returns.
UnmetDependencies(board, t) ==
  {i \in DOMAIN DependsOn[t] : board[DependsOn[t][i]] # "done"}

\* The decision of _evaluate_ticket, without the ids its reason string quotes.
Reason(board, t) ==
  LET unmet == UnmetDependencies(board, t)
      first == CHOOSE i \in unmet : \A j \in unmet : i <= j
  IN  CASE board[t] # "ready" -> "status"
        [] board[t] = "ready" /\ unmet = {} -> "ready"
        [] OTHER -> IF board[DependsOn[t][first]] = "absent"
                    THEN "missing_dependency" ELSE "blocked_by_dependency"

DependencyReasons == {"missing_dependency", "blocked_by_dependency"}

Eligible(board) == {t \in Indexed(board) : Reason(board, t) = "ready"}

\* select_next_ready_ticket returns t.
IsNextReady(board, t) ==
  /\ t \in Eligible(board)
  /\ \A u \in Eligible(board) : u = t \/ Before(t, u)

\* The tickets whose decision carries a dependency reason.
DependencyBlocked(board) ==
  {t \in Indexed(board) : Reason(board, t) \in DependencyReasons}
=============================================================================
