------------------------------ MODULE Delivery ------------------------------
(***************************************************************************)
(* The life of one task as its Workflow instance drives it: runHandleTask  *)
(* (round/workflow.ts) around deliverTerminalTask and                      *)
(* deliverAbandonedTask (a2a/deliver.ts), against the task's row in the    *)
(* caller's Durable Object and cancellations arriving at any time.         *)
(*                                                                         *)
(* The round loop is one step here, with every outcome it can have;        *)
(* RoundLoop opens it up.                                                  *)
(*                                                                         *)
(* A durable step (step.do) runs its body up to MaxAttempts times.  An     *)
(* attempt takes effect and is recorded, takes effect and is lost (the     *)
(* call's answer never arrives), or fails before any effect.  A step whose *)
(* attempts are spent throws; a recorded result is never recomputed.       *)
(***************************************************************************)
EXTENDS TaskRow, Naturals

CONSTANTS MaxAttempts,  \* attempts a durable step gets before it throws
          Sweeps        \* whether the agent has children to sweep

ASSUME DeliveryAssumption == /\ MaxAttempts \in Nat \ {0}
                             /\ Sweeps \in BOOLEAN

VARIABLES row,    \* the stored Task
          pc,     \* where the Workflow instance is
          path,   \* "main": ordinary delivery; "abandoned": the recovery
          tries,  \* attempts the current step has lost
          answer, \* what the round loop ended with
          built,  \* the recorded result of the `complete` step
          heard   \* the Tasks the gatekeeper received in callbacks

vars == <<row, pc, path, tries, answer, built, heard>>

\* Who the words of a Task come from: nobody yet, the reply, the host's
\* failureCopy for a typed failure, or the policy's taskFailed copy.
Answers == {"reply", "failure copy", "task failed"}
Texts == Answers \cup {""}

\* terminal() runs inside each attempt of `complete`, so each attempt stamps a
\* Task of its own.
Tasks == [state : States, text : Texts, stamp : 0..MaxAttempts]

Places == {"absent", "working", "rounds", "complete", "sweep", "notify",
           "ended", "errored"}

Absent == [state |-> "none", text |-> "", stamp |-> 0]

TypeOK == /\ row \in Tasks
          /\ pc \in Places
          /\ path \in {"main", "abandoned"}
          /\ tries \in 0..(MaxAttempts - 1)
          /\ answer \in Texts
          /\ built \in Tasks
          /\ heard \in SUBSET Tasks

Init == /\ row = Absent
        /\ pc = "absent"
        /\ path = "main"
        /\ tries = 0
        /\ answer = ""
        /\ built = Absent
        /\ heard = {}

-----------------------------------------------------------------------------
(* The edge.                                                               *)

\* A2AExecutor.execute, first half: beginTask inserts the submitted row.  A
\* dispatch retry finds the row by messageId and changes nothing.
Accept == /\ row.state = "none"
          /\ row' = [Absent EXCEPT !.state = "submitted"]
          /\ UNCHANGED <<pc, path, tries, answer, built, heard>>

\* Second half: startTurn creates the instance named for the messageId.  An
\* instance that already exists is left alone.
StartTurn == /\ row.state # "none"
             /\ pc = "absent"
             /\ pc' = "working"
             /\ UNCHANGED <<row, path, tries, answer, built, heard>>

\* CancelTask, by either entry (DynamicAgent.cancelTask or saveTask of a
\* canceled Task): both end in markCanceled and the same guard.
Cancel == /\ CancelApplies(row.state)
          /\ row' = [row EXCEPT !.state = "canceled"]
          /\ UNCHANGED <<pc, path, tries, answer, built, heard>>

-----------------------------------------------------------------------------
(* Durable steps.                                                          *)

Goto(place) == pc' = place /\ tries' = 0

\* Regression: no TaskAlreadyTerminalError, the recovery runs for a callback
\* fault too.
ThrowAlwaysRecovers ==
  /\ tries' = 0
  /\ \/ /\ pc = "sweep"
        /\ pc' = "notify" /\ UNCHANGED path
     \/ /\ path = "main" /\ pc # "sweep"
        /\ pc' = "complete" /\ path' = "abandoned"
     \/ /\ path = "abandoned" /\ pc # "sweep"
        /\ pc' = "errored" /\ UNCHANGED path

\* What a step whose attempts are spent leads to.  A sweep's fault is
\* swallowed.  A callback that failed after its Task was saved
\* (TaskAlreadyTerminalError) and any fault of the recovery itself error the
\* instance; everything else is recovered by deliverAbandonedTask.
Throw ==
  /\ tries' = 0
  /\ \/ /\ pc = "sweep"
        /\ pc' = "notify" /\ UNCHANGED path
     \/ /\ path = "main" /\ pc \notin {"sweep", "notify"}
        /\ pc' = "complete" /\ path' = "abandoned"
     \/ /\ \/ pc = "notify"
           \/ path = "abandoned" /\ pc # "sweep"
        /\ pc' = "errored" /\ UNCHANGED path

\* An attempt was lost: another one, or the step throws.
Lose == \/ /\ tries + 1 < MaxAttempts
           /\ tries' = tries + 1
           /\ UNCHANGED <<pc, path>>
        \/ /\ tries + 1 = MaxAttempts
           /\ Throw

\* The attempt fails before the body had any effect.
FailAttempt == /\ pc \in {"working", "complete", "sweep", "notify"}
               /\ Lose
               /\ UNCHANGED <<row, answer, built, heard>>

\* The step `working`: markWorking's verdict decides whether the turn runs.
Working ==
  /\ pc = "working"
  /\ row' = [row EXCEPT !.state = MarkedWorking(row.state)]
  /\ \/ /\ Goto(IF SaysCanceled(row.state) THEN "ended" ELSE "rounds")
        /\ UNCHANGED path
     \/ Lose
  /\ UNCHANGED <<answer, built, heard>>

-----------------------------------------------------------------------------
(* The round loop, by its outcomes.                                        *)

\* A round replied, or failed with a kind, or there was no round left: an
\* ordinary delivery follows.
RoundsAnswer == /\ pc = "rounds"
                /\ answer' \in Answers
                /\ Goto("complete")
                /\ UNCHANGED <<row, path, built, heard>>

\* A round, or the scan after one, found the task canceled.
RoundsCanceled == /\ pc = "rounds"
                  /\ row.state = "canceled"
                  /\ Goto("ended")
                  /\ UNCHANGED <<row, path, answer, built, heard>>

\* A step of the loop exhausted its attempts.
RoundsThrow == /\ pc = "rounds"
               /\ Throw
               /\ UNCHANGED <<row, answer, built, heard>>

-----------------------------------------------------------------------------
(* Delivery.                                                               *)

\* The Task this attempt of `complete` builds.
TerminalTask ==
  [state |-> IF path = "main" /\ answer = "reply" THEN "completed" ELSE "failed",
   text |-> IF path = "main" THEN answer ELSE "task failed",
   stamp |-> tries]

AfterComplete == IF Sweeps THEN "sweep" ELSE "notify"

\* Regression: the callback not keyed on the verdict of the guarded write.
CompleteUnchecked ==
  /\ pc = "complete"
  /\ IF SaveApplies(row.state, TerminalTask.state)
       THEN row' = TerminalTask
       ELSE UNCHANGED row
  /\ \/ /\ built' = TerminalTask
        /\ Goto(AfterComplete)
        /\ UNCHANGED path
     \/ Lose /\ UNCHANGED built
  /\ UNCHANGED <<answer, heard>>

\* The guarded write, which is also the cancellation check: a refused write
\* ends the instance with no callback.
Complete ==
  /\ pc = "complete"
  /\ LET applies == SaveApplies(row.state, TerminalTask.state) IN
     /\ row' = IF applies THEN TerminalTask ELSE row
     /\ \/ /\ built' = IF applies THEN TerminalTask ELSE built
           /\ Goto(IF applies THEN AfterComplete ELSE "ended")
           /\ UNCHANGED path
        \/ Lose /\ UNCHANGED built
  /\ UNCHANGED <<answer, heard>>

\* The best-effort child sweep; its own effect is in SubtaskBranch.
Sweep == /\ pc = "sweep"
         /\ Goto("notify")
         /\ UNCHANGED <<row, path, answer, built, heard>>

\* postNotification: the gatekeeper has the Task, whether or not its answer is
\* a 2xx, or comes back at all.
Post(task) == heard' = heard \cup {task}

\* The callback POST of the recorded Task.
Notify == /\ pc = "notify"
          /\ Post(built)
          /\ \/ Goto("ended") /\ UNCHANGED path
             \/ Lose
          /\ UNCHANGED <<row, answer, built>>

-----------------------------------------------------------------------------
\* The instance has returned or errored and the row can no longer move: the
\* end of the story, not a deadlock.
Finished == /\ pc \in {"ended", "errored"}
            /\ ~CancelApplies(row.state)
            /\ UNCHANGED vars

Workflow == \/ Working \/ RoundsAnswer \/ RoundsCanceled \/ RoundsThrow
            \/ Complete \/ Sweep \/ Notify \/ FailAttempt

Next == Accept \/ StartTurn \/ Cancel \/ Workflow \/ Finished

Spec == Init /\ [][Next]_vars

-----------------------------------------------------------------------------
(* Properties.                                                             *)

\* Whatever callback the gatekeeper has received, it is exactly the Task the
\* row holds, then and ever after: no callback for a canceled task, no two
\* callbacks that differ, none that a later write contradicts (deliver.ts keys
\* the callback on the guarded write and builds the Task inside the step).
HeardIsStored == heard \subseteq {row}

\* An instance that ends leaves the task settled, whichever path it took: the
\* recovery exists because a turn once died with its task still `working`.
EndedIsSettled == pc = "ended" => row.state \in Terminal

\* A normal end without a callback is a cancellation, with one exception the
\* code does have: every attempt of `complete` was lost although its write had
\* applied, so the recovery's write is refused by the row it is recovering.
EndedIsToldOrCanceled ==
  pc = "ended" => \/ row.state = "canceled"
                  \/ row \in heard
                  \/ /\ path = "abandoned" /\ built = Absent
                     /\ row.text = "reply"

\* A task never leaves a terminal state, and once the gatekeeper has been told
\* nothing about the stored Task changes any more.
SettledStays == [][ /\ row.state \in Terminal => row'.state = row.state
                    /\ heard # {} => row' = row ]_vars

\* deliver.ts: the recovery rethrows when delivery fails, so a normal end means
\* the user was answered or had canceled.
NoSilentEnd == pc = "ended" => row.state = "canceled" \/ heard # {}

-----------------------------------------------------------------------------
(* Refinement.                                                             *)

Told == IF heard = {} THEN Absent ELSE CHOOSE t \in heard : TRUE

Promise == INSTANCE TaskPromise WITH
             Docs <- Tasks, Nothing <- Absent, task <- row, told <- Told

\* Delivery keeps the promise made to the gatekeeper.
KeepsPromise == Promise!Spec
=============================================================================
