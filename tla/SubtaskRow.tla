----------------------------- MODULE SubtaskRow -----------------------------
(***************************************************************************)
(* The guarded writes on the rows of a Task's Subtasks                     *)
(* (db/models/subtasks.ts).  Each is a synchronous statement, which        *)
(* returns the table as it leaves it; a write whose row is not in a status *)
(* it starts from matches nothing and leaves the table alone.              *)
(***************************************************************************)

RowStates == {"pending", "running", "completed", "failed", "canceled"}
Settled == {"completed", "failed", "canceled"}

\* Regression: a write that no longer asks what the row says.
TransitionAnyway(rows, s, from, to) == [rows EXCEPT ![s] = to]

Transition(rows, s, from, to) ==
  IF rows[s] \in from THEN [rows EXCEPT ![s] = to] ELSE rows

\* The claim, which only one of several executions wins.
Start(rows, s) == Transition(rows, s, {"pending"}, "running")

Complete(rows, s) == Transition(rows, s, {"running"}, "completed")

\* A claimed row may fail, and one that nobody came to claim.
Fail(rows, s) == Transition(rows, s, {"running", "pending"}, "failed")

CancelRunning(rows, s) == Transition(rows, s, {"running"}, "canceled")

\* All pending rows of the Task in one statement; running ones are left alone.
CancelPending(rows) ==
  [s \in DOMAIN rows |-> IF rows[s] = "pending" THEN "canceled" ELSE rows[s]]
=============================================================================
