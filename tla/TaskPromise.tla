---------------------------- MODULE TaskPromise ----------------------------
(***************************************************************************)
(* What a gatekeeper is promised about one task it dispatched, with no     *)
(* Workflow, steps or retries: the task is accepted, worked on and either  *)
(* settled or canceled; once settled, the settled Task and no other is     *)
(* told to the gatekeeper, any number of times; a canceled task is never   *)
(* told.  Delivery implements this specification, and Edge does up to an   *)
(* acknowledgement that replaces a settled Task.                           *)
(***************************************************************************)
EXTENDS TaskRow

CONSTANTS Docs,    \* the Tasks a row can hold, records with a `state` field
          Nothing  \* what the gatekeeper has been told before a callback

VARIABLES task,  \* the stored Task
          told   \* the Task of the last callback, or Nothing

vars == <<task, told>>

Init == /\ task \in {d \in Docs : d.state = "none"}
        /\ told = Nothing

Accept == /\ task.state = "none"
          /\ \E d \in Docs : d.state = "submitted" /\ task' = d
          /\ UNCHANGED told

Work == /\ task.state = "submitted"
        /\ task' = [task EXCEPT !.state = "working"]
        /\ UNCHANGED told

\* A repeated acknowledgement may show an open task as it was.
Reshow == /\ task.state = "working"
          /\ task' = [task EXCEPT !.state = "submitted"]
          /\ UNCHANGED told

Cancel == /\ task.state \in Cancelable
          /\ task' = [task EXCEPT !.state = "canceled"]
          /\ UNCHANGED told

\* The verdict is written, or re-written in the same state before any callback
\* has gone out: from the first callback on the stored Task is fixed.
Settle == /\ told = Nothing
          /\ \E d \in Docs :
               /\ d.state \in Verdicts
               /\ task.state \in Cancelable \cup {d.state}
               /\ task' = d
          /\ UNCHANGED told

Tell == /\ task.state \in Verdicts
        /\ told' = task
        /\ UNCHANGED task

Next == Accept \/ Work \/ Reshow \/ Cancel \/ Settle \/ Tell

Spec == Init /\ [][Next]_vars
=============================================================================
