-------------------------------- MODULE Edge --------------------------------
(***************************************************************************)
(* The accepting side of one task: several dispatches of the same message, *)
(* each an A2AExecutor.execute (a2a/executor.ts) inside the a2a-js request *)
(* handler, which stores whatever Task the executor publishes through      *)
(* DurableTaskStore.save (a2a/task-store.ts).  The published Task is the   *)
(* one beginTask returned, so by the time it is stored it may be old.      *)
(*                                                                         *)
(* Delivery's row, Workflow and cancellations are taken as they are; its   *)
(* Accept and StartTurn are replaced by the steps of a dispatch.           *)
(***************************************************************************)
EXTENDS Delivery, FiniteSets

CONSTANT Dispatches  \* the dispatches of this message, first and retries

VARIABLES dispatch,  \* each dispatch: how far it is, and the Task it holds
          late       \* history: an acknowledgement replaced a settled Task

edgeVars == <<vars, dispatch, late>>

EdgeTypeOK ==
  /\ TypeOK
  /\ dispatch \in [Dispatches -> [at : {"unsent", "begun", "started", "acked", "dead"},
                                  task : Tasks]]
  /\ late \in BOOLEAN

EdgeInit == /\ Init
            /\ dispatch = [d \in Dispatches |-> [at |-> "unsent", task |-> Absent]]
            /\ late = FALSE

\* beginTask: the row of this messageId, inserted on first sight.
Begin(d) ==
  /\ dispatch[d].at = "unsent"
  /\ row' = IF row.state = "none" THEN [Absent EXCEPT !.state = "submitted"] ELSE row
  /\ dispatch' = [dispatch EXCEPT ![d] = [at |-> "begun", task |-> row']]
  /\ UNCHANGED <<pc, path, tries, answer, built, heard, late>>

\* Regression: a dispatch that finds the row considers the turn started.
StartOnlyFirst(d) ==
  /\ dispatch[d].at = "begun"
  /\ pc' = IF \A e \in Dispatches \ {d} : dispatch[e].at = "unsent"
              THEN "working" ELSE pc
  /\ dispatch' = [dispatch EXCEPT ![d].at = "started"]
  /\ UNCHANGED <<row, path, tries, answer, built, heard, late>>

\* startTurn: creates the instance named for the messageId, or finds it there.
Start(d) ==
  /\ dispatch[d].at = "begun"
  /\ pc' = IF pc = "absent" THEN "working" ELSE pc
  /\ dispatch' = [dispatch EXCEPT ![d].at = "started"]
  /\ UNCHANGED <<row, path, tries, answer, built, heard, late>>

\* The published Task is saved under the row's guard and sent as the answer.
Acknowledge(d) ==
  /\ dispatch[d].at = "started"
  /\ row' = IF SaveApplies(row.state, dispatch[d].task.state)
              THEN dispatch[d].task ELSE row
  /\ late' = (late \/ (row.state \in Terminal /\ row' # row))
  /\ dispatch' = [dispatch EXCEPT ![d].at = "acked"]
  /\ UNCHANGED <<pc, path, tries, answer, built, heard>>

\* A dispatch that dies on the way; the gatekeeper sends another.
Die(d) ==
  /\ dispatch[d].at \in {"begun", "started"}
  /\ \E e \in Dispatches : dispatch[e].at = "unsent"
  /\ dispatch' = [dispatch EXCEPT ![d].at = "dead"]
  /\ UNCHANGED <<vars, late>>

Request(d) == Begin(d) \/ Start(d) \/ Acknowledge(d)

EdgeNext == \/ \E d \in Dispatches : Request(d) \/ Die(d)
            \/ (Cancel \/ Workflow \/ Finished) /\ UNCHANGED <<dispatch, late>>

EdgeSpec == EdgeInit /\ [][EdgeNext]_edgeVars

\* A dispatch is served or dies, a dead one is followed by another (Die keeps
\* one in reserve), and the engine drives the instance.
EdgeFairSpec == /\ EdgeSpec
                /\ \A d \in Dispatches : WF_edgeVars(Request(d))
                /\ WF_edgeVars(Workflow /\ UNCHANGED <<dispatch, late>>)

-----------------------------------------------------------------------------
\* A canceled task stays canceled, against the turn's writes and against every
\* old Task a dispatch may still save.
CanceledIsFinal ==
  [][row.state = "canceled" => row'.state = "canceled"]_edgeVars

\* The gatekeeper never hears two different Tasks, even when an old Task saved
\* by a dispatch has reopened the row: then save()'s guard no longer holds the
\* recovery back and only TaskAlreadyTerminalError does.
OneVerdict == Cardinality(heard) <= 1

\* An accepted task gets its turn, and the turn ends, although dispatches die
\* between beginTask and startTurn: both are idempotent, so a retry heals it.
AcceptedTurnEnds == (row.state # "none") ~> (pc \in {"ended", "errored"})

\* Unless an acknowledgement came that late, a normal end without a callback
\* is a cancellation, or the one case in which every attempt of `complete` was
\* lost although its write had applied.
EndedIsTold == late \/ EndedIsToldOrCanceled

\* Up to an acknowledgement that late, all that dispatches, Workflow and
\* cancellations do together is what TaskPromise allows: the gatekeeper is told
\* the settled Task and no other, and a canceled one never.
KeepsPromiseUntilLate ==
  Promise!Init /\ [][late' \/ [Promise!Next]_(Promise!vars)]_edgeVars

\* db/models/tasks.ts: the terminal states are "the states a task never leaves".
TerminalNeverLeft ==
  [][row.state \in Terminal => row'.state \in Terminal]_edgeVars
=============================================================================
