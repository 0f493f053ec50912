------------------------------ MODULE TaskRow ------------------------------
(***************************************************************************)
(* One row of the notify_tasks table (db/models/tasks.ts): the A2A states  *)
(* a task goes through and the guards of the writes that move it.  Every   *)
(* write is a synchronous read-check-write inside the caller's Durable     *)
(* Object, so each guard is an operator over the stored state and the      *)
(* modules that hold a row evaluate it and assign in one atomic step.      *)
(***************************************************************************)

\* "none" is the absence of a row; the rest are the states this code builds.
States == {"none", "submitted", "working", "completed", "failed",
           "canceled", "rejected"}

\* The states a task never leaves.
Terminal == {"completed", "failed", "canceled", "rejected"}

\* The states cancel() accepts as a source.
Cancelable == {"submitted", "working"}

\* The states a turn's terminal Task can have.
Verdicts == {"completed", "failed"}

----------------------------------------------------------------------------
\* Regression of save()'s guard.

\* A verdict written over a canceled row.
SaveAppliesOverCanceled(stored, incoming) ==
  \/ stored \in {"none", "canceled"}
  \/ ~ \/ incoming = "canceled" /\ stored \notin Cancelable
       \/ stored \in Terminal /\ incoming \in Terminal /\ stored # incoming

----------------------------------------------------------------------------
\* save(): whether writing a task in state `incoming` over a row in state
\* `stored` applies.  A missing row is inserted.
SaveApplies(stored, incoming) ==
  \/ stored = "none"
  \/ ~ \/ stored = "canceled" /\ incoming # "canceled"
       \/ incoming = "canceled" /\ stored \notin Cancelable \cup {"canceled"}
       \/ stored \in Terminal /\ incoming \in Terminal /\ stored # incoming

\* cancel(): flips only a submitted or working row.
CancelApplies(stored) == stored \in Cancelable

\* markWorking(): the state it leaves, and whether it tells the turn to stop.
MarkedWorking(stored) == IF stored = "submitted" THEN "working" ELSE stored
SaysCanceled(stored) == stored = "canceled"
=============================================================================
