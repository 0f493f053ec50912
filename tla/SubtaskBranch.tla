---------------------------- MODULE SubtaskBranch ----------------------------
(***************************************************************************)
(* One round's delegated Subtasks, from the scan to the sweep: the         *)
(* Workflow's branches (runBranch, executeSubtasks in round/workflow.ts),  *)
(* the parent Durable Object's handlers (executeSubtaskChunk, failSubtask, *)
(* onTaskCanceled, sweepTaskChildren in round/agent.ts), the guarded rows  *)
(* (db/models/subtasks.ts) and the managed child of each Subtask           *)
(* (executeChunk, abortRun in subagent/index.ts).                          *)
(*                                                                         *)
(* A handler runs without interruption between two awaits that leave the   *)
(* object (the child's RPC, a plugin, a callback POST); each such stretch  *)
(* is one action.  A Workflow attempt is one call of the handler; the call *)
(* outlives the attempt when the Workflow gives up on it.                  *)
(***************************************************************************)
EXTENDS Naturals, FiniteSets, SubtaskRow

CONSTANTS Subtasks,    \* the rows of the round
          Unusable,    \* those whose Recipe does not validate
          Calls,       \* slots for concurrent calls of one Subtask's handler
          NoOne,       \* neither a Subtask nor a call
          MaxTurns,    \* a Recipe's turn budget
          MaxChunks,   \* MAX_CHUNKS_PER_BRANCH
          MaxAttempts, \* attempts a durable step gets before it throws
          MaxFaults    \* evictions and abandoned attempts, a bound of the model

ASSUME BranchAssumption ==
  /\ IsFiniteSet(Subtasks) /\ Unusable \subseteq Subtasks
  /\ NoOne \notin Subtasks \cup Calls
  /\ {MaxTurns, MaxChunks, MaxAttempts} \subseteq Nat \ {0}
  /\ MaxFaults \in Nat

VARIABLES canceled, \* whether the Task's row is canceled
          status,   \* each Subtask's row
          branch,   \* each runBranch: where it is, its chunk, its attempts
          call,     \* each call of executeSubtaskChunk
          child,    \* each managed child and what it has stored
          sweeper,  \* onTaskCanceled's pass over the rows it listed, and which of
                    \* them it found settled after all (history)
          phase,    \* the Workflow around the branches
          faults    \* faults so far

wf == <<branch, phase>>
vars == <<canceled, status, branch, call, child, sweeper, phase, faults>>

Outcomes == {"none", "yield", "completed", "failed"}

\* Where a call is: not made; deleting the child of a claim it has won; awaiting
\* the plugin's runtime; in the child's RPC before its run; in the run; the RPC
\* broken or thrown; back in the parent with an outcome; publishing progress and
\* enriching the result; tearing down the child of a row that is settled.
CallPlaces == {"idle", "claiming", "resolving", "calling", "inside", "thrown",
               "returned", "publishing", "clearing"}

NoCall == [at |-> "idle", out |-> "none", turns |-> 0, moved |-> FALSE,
           aborted |-> FALSE]
NoChild == [live |-> FALSE, turns |-> 0, cache |-> "none", inflight |-> NoOne]

BranchStates == [at : {"exec", "overrun", "fail", "done", "failed", "threw"},
                 chunk : 0..MaxChunks, tries : 0..(MaxAttempts - 1),
                 attempt : Calls \cup {NoOne}]
CallStates == [at : CallPlaces, out : Outcomes, turns : 0..MaxTurns,
               moved : BOOLEAN, aborted : BOOLEAN]
ChildStates == [live : BOOLEAN, turns : 0..MaxTurns,
                cache : {"none", "completed", "failed"},
                inflight : Calls \cup {NoOne}]
Passes == [todo : SUBSET Subtasks, running : SUBSET Subtasks,
           lost : SUBSET Subtasks, at : Subtasks \cup {NoOne}]

TypeOK ==
  /\ canceled \in BOOLEAN
  /\ status \in [Subtasks -> RowStates]
  /\ branch \in [Subtasks -> BranchStates]
  /\ call \in [Subtasks -> [Calls -> CallStates]]
  /\ child \in [Subtasks -> ChildStates]
  /\ sweeper \in Passes
  /\ phase \in {"running", "joined", "rejected", "settled", "swept", "stopped"}
  /\ faults \in 0..MaxFaults

Idle == [todo |-> {}, running |-> {}, lost |-> {}, at |-> NoOne]

Init ==
  /\ canceled = FALSE
  /\ status = [s \in Subtasks |-> "pending"]
  /\ branch = [s \in Subtasks |->
                 [at |-> "exec", chunk |-> 0, tries |-> 0, attempt |-> NoOne]]
  /\ call = [s \in Subtasks |-> [c \in Calls |-> NoCall]]
  /\ child = [s \in Subtasks |-> NoChild]
  /\ sweeper = Idle
  /\ phase = "running"
  /\ faults = 0

-----------------------------------------------------------------------------
(* The child.                                                              *)

\* A call that throws: the Workflow is yet to hear of it, unless it gave up on it.
Cut(s, c) ==
  IF branch[s].attempt = c THEN [NoCall EXCEPT !.at = "thrown"] ELSE NoCall

\* deleteSubAgent: aborts the facet, which breaks the RPCs in it, and wipes it.
Broken(s, calls) == [c \in Calls |->
  IF calls[c].at \in {"calling", "inside"} THEN Cut(s, c) ELSE calls[c]]
DeleteChild(s, calls) == /\ child' = [child EXCEPT ![s] = NoChild]
                         /\ call' = [call EXCEPT ![s] = Broken(s, calls)]

\* The Workflow instance is still there to receive results and retry.
Driving == phase \notin {"swept", "stopped"}

-----------------------------------------------------------------------------
(* The Workflow's side of a step.                                          *)

\* The attempt's verdict is recorded: the branch ends, or runs its next chunk,
\* or has used up its chunks and fails the row.
AfterVerdict(b, done) ==
  [at |-> CASE done /\ b.at = "exec" -> "done"
            [] done /\ b.at # "exec" -> "failed"
            [] ~done /\ b.chunk + 1 < MaxChunks -> "exec"
            [] OTHER -> "overrun",
   chunk |-> IF ~done /\ b.chunk + 1 < MaxChunks THEN b.chunk + 1 ELSE 0,
   tries |-> 0, attempt |-> NoOne]
Record(s, done) == branch' = [branch EXCEPT ![s] = AfterVerdict(@, done)]

\* Regression: a branch that gives up without the fail step.
LoseGivesUp(s) ==
  branch' = [branch EXCEPT
    ![s] = IF @.tries + 1 < MaxAttempts
             THEN [@ EXCEPT !.tries = @ + 1, !.attempt = NoOne]
             ELSE [@ EXCEPT !.at = "done", !.tries = 0, !.attempt = NoOne]]

\* The attempt is lost: another, or the step throws into runBranch's catch, or,
\* for the fail step in that catch, out of runBranch.
AfterLoss(b) ==
  IF b.tries + 1 < MaxAttempts
    THEN [b EXCEPT !.tries = b.tries + 1, !.attempt = NoOne]
    ELSE [at |-> IF b.at = "fail" THEN "threw" ELSE "fail",
          chunk |-> 0, tries |-> 0, attempt |-> NoOne]
Lose(s) == branch' = [branch EXCEPT ![s] = AfterLoss(@)]

\* A call that ends with a verdict: the Workflow may still miss it, and an
\* attempt it gave up on concerns it no more.
Verdict(s, c, done) ==
  IF Driving /\ branch[s].attempt = c
    THEN Record(s, done) \/ Lose(s)
    ELSE UNCHANGED branch

\* A call that ends by throwing.
Thrown(s, c) ==
  IF Driving /\ branch[s].attempt = c THEN Lose(s) ELSE UNCHANGED branch

-----------------------------------------------------------------------------
(* executeSubtaskChunk.                                                    *)

At(s, c, place) == call[s][c].at = place
Set(s, c, value) == call' = [call EXCEPT ![s][c] = value]
Go(s, c, place) == Set(s, c, [NoCall EXCEPT !.at = place])

\* Whether the Workflow has an attempt to make of a step in one of `places`, and
\* the object a free call for it.
Attempts(s, c, places) ==
  Driving /\ branch[s].at \in places /\ branch[s].attempt = NoOne /\ At(s, c, "idle")
Attempted(s, c) == branch' = [branch EXCEPT ![s].attempt = c]

\* The attempt reaches the object, and prepareChunk finds nothing to do: a pending
\* row of a canceled Task is left to onTaskCanceled, and an unusable Recipe fails
\* the row.  No child is touched.
PrepareEnds(s, c) ==
  /\ \/ /\ status[s] = "pending" /\ canceled
        /\ UNCHANGED status
     \/ /\ status[s] \notin Settled /\ ~canceled /\ s \in Unusable
        /\ status' = Fail(Start(status, s), s)
  /\ Record(s, TRUE) \/ Lose(s)
  /\ UNCHANGED <<call, child>>

\* A settled row, or a running one of a canceled Task, which is resolved: the
\* child is still to be torn down.
PrepareClears(s, c) ==
  /\ \/ /\ status[s] \in Settled
        /\ UNCHANGED status
     \/ /\ status[s] = "running" /\ canceled
        /\ status' = CancelRunning(status, s)
  /\ Go(s, c, "clearing") /\ Attempted(s, c)
  /\ UNCHANGED child

\* Regression: every attempt treated as fresh, so a retry deletes the child.
PrepareClaimsFresh(s, c) ==
  /\ status[s] \in {"pending", "running"} /\ ~canceled /\ s \notin Unusable
  /\ status' = Start(status, s)
  /\ DeleteChild(s, [call[s] EXCEPT ![c] = [NoCall EXCEPT !.at = "resolving"]])
  /\ Attempted(s, c)

\* Going on: winning the claim makes the execution fresh, and only a fresh one
\* deletes the child; a retry or a later chunk leaves its state to be resumed.
PrepareClaims(s, c) ==
  /\ status[s] \in {"pending", "running"} /\ ~canceled /\ s \notin Unusable
  /\ status' = Start(status, s)
  /\ Go(s, c, IF status[s] = "pending" THEN "claiming" ELSE "resolving")
  /\ Attempted(s, c)
  /\ UNCHANGED child

Execute(s, c) ==
  /\ Attempts(s, c, {"exec"})
  /\ PrepareEnds(s, c) \/ PrepareClears(s, c) \/ PrepareClaims(s, c)
  /\ UNCHANGED <<canceled, sweeper, phase, faults>>

\* The delete a claim owes, before the plugin is asked for its runtime.
StartFresh(s, c) ==
  /\ At(s, c, "claiming")
  /\ DeleteChild(s, [call[s] EXCEPT ![c] = [NoCall EXCEPT !.at = "resolving"]])
  /\ UNCHANGED <<canceled, status, branch, sweeper, phase, faults>>

\* The row is settled: what the plugin and the tools hold is released, the child
\* deleted, and the call ends.
Clear(s, c) ==
  /\ At(s, c, "clearing")
  /\ DeleteChild(s, [call[s] EXCEPT ![c] = NoCall])
  /\ Verdict(s, c, TRUE)
  /\ UNCHANGED <<canceled, status, sweeper, phase, faults>>

\* resolveRuntime has answered; subAgent creates the child if there is none.
EnterChild(s, c) ==
  /\ At(s, c, "resolving")
  /\ Go(s, c, "calling")
  /\ child' = [child EXCEPT ![s].live = TRUE]
  /\ UNCHANGED <<canceled, status, branch, sweeper, phase, faults>>

\* executeChunk replays a cached terminal result, or resumes the run from its
\* checkpoint and becomes the chunk abortRun can interrupt.
StartRun(s, c) ==
  /\ At(s, c, "calling")
  /\ \/ /\ child[s].cache # "none"
        /\ Set(s, c, [NoCall EXCEPT !.at = "returned", !.out = child[s].cache])
        /\ UNCHANGED child
     \/ /\ child[s].cache = "none"
        /\ Set(s, c, [NoCall EXCEPT !.at = "inside", !.turns = child[s].turns])
        /\ child' = [child EXCEPT ![s].inflight = c]
  /\ UNCHANGED <<canceled, status, branch, sweeper, phase, faults>>

\* A model turn completes and is checkpointed, unless that write fails; one in
\* flight may still do so after an abort.
Turn(s, c) ==
  /\ At(s, c, "inside") /\ call[s][c].turns < MaxTurns
  /\ Set(s, c, [call[s][c] EXCEPT !.turns = @ + 1, !.moved = TRUE])
  /\ child' \in {child, [child EXCEPT ![s].turns = call[s][c].turns + 1]}
  /\ UNCHANGED <<canceled, status, branch, sweeper, phase, faults>>

\* The chunk hands back: a boundary after at least one turn with budget left,
\* or an abort.  The final state is checkpointed and nothing is cached.
YieldChunk(s, c) ==
  /\ At(s, c, "inside")
  /\ \/ call[s][c].aborted
     \/ call[s][c].moved /\ call[s][c].turns < MaxTurns
  /\ Set(s, c, [NoCall EXCEPT !.at = "returned", !.out = "yield"])
  /\ child' = [child EXCEPT ![s].inflight = NoOne, ![s].turns = call[s][c].turns]
  /\ UNCHANGED <<canceled, status, branch, sweeper, phase, faults>>

\* The run ends: its terminal result is cached in the child before the parent
\* has it.
FinishRun(s, c) ==
  /\ At(s, c, "inside") /\ ~call[s][c].aborted
  /\ \E out \in {"completed", "failed"} :
       /\ Set(s, c, [NoCall EXCEPT !.at = "returned", !.out = out])
       /\ child' = [child EXCEPT ![s] = [@ EXCEPT !.inflight = NoOne,
                                  !.turns = call[s][c].turns, !.cache = out]]
  /\ UNCHANGED <<canceled, status, branch, sweeper, phase, faults>>

\* A transient fault: in the plugin, in the run (whose finally clears the
\* in-flight chunk), or in the enrichment.
Fault(s, c) ==
  /\ call[s][c].at \in {"resolving", "inside", "publishing"}
  /\ Set(s, c, Cut(s, c))
  /\ child' = IF At(s, c, "inside")
                THEN [child EXCEPT ![s].inflight = NoOne] ELSE child
  /\ UNCHANGED <<canceled, status, branch, sweeper, phase, faults>>

Rethrow(s, c) ==
  /\ At(s, c, "thrown")
  /\ Set(s, c, NoCall)
  /\ Thrown(s, c)
  /\ UNCHANGED <<canceled, status, child, sweeper, phase, faults>>

\* Back in the parent, the cancellation check precedes publishing.  The row is
\* resolved; releasing the plugin's runtime may throw before the child is deleted.
CheckCanceled(s, c) ==
  /\ At(s, c, "returned") /\ canceled
  /\ status' = CancelRunning(status, s)
  /\ Go(s, c, "clearing") \/ Set(s, c, Cut(s, c))
  /\ UNCHANGED <<canceled, branch, child, sweeper, phase, faults>>

Publish(s, c) ==
  /\ At(s, c, "returned") /\ ~canceled
  /\ Set(s, c, [call[s][c] EXCEPT !.at = "publishing"])
  /\ UNCHANGED <<canceled, status, branch, child, sweeper, phase, faults>>

\* Progress is out and the result enriched: a yield goes back as it is; a
\* terminal result is written under the row's guard.  Applied, the child is
\* kept for the sweep; refused by a settled row, it is torn down.
Persist(s, c) ==
  /\ At(s, c, "publishing")
  /\ LET out == call[s][c].out IN
     \/ /\ out = "yield"
        /\ Set(s, c, NoCall) /\ Verdict(s, c, FALSE)
        /\ UNCHANGED status
     \/ /\ out \in {"completed", "failed"} /\ status[s] = "running"
        /\ \/ out = "completed" /\ status' = Complete(status, s)
           \/ status' = Fail(status, s)
        /\ Set(s, c, NoCall) /\ Verdict(s, c, TRUE)
     \/ /\ out \in {"completed", "failed"} /\ status[s] \in Settled
        /\ Go(s, c, "clearing")
        /\ UNCHANGED <<status, branch>>
  /\ UNCHANGED <<canceled, child, sweeper, phase, faults>>

-----------------------------------------------------------------------------
(* The branch's last resort, and what may befall an attempt.               *)

\* The step fail:<id>: failSubtask's guarded write decides the teardown.
FailSubtask(s, c) ==
  /\ Attempts(s, c, {"overrun", "fail"})
  /\ status' = Fail(status, s)
  /\ IF status[s] \in Settled
       THEN (Record(s, TRUE) \/ Lose(s)) /\ UNCHANGED call
       ELSE Go(s, c, "clearing") /\ Attempted(s, c)
  /\ UNCHANGED <<canceled, child, sweeper, phase, faults>>

\* An attempt of either step that never reaches the object.
FailAttempt(s) ==
  /\ Driving /\ branch[s].at \in {"exec", "overrun", "fail"} /\ branch[s].attempt = NoOne
  /\ Lose(s)
  /\ UNCHANGED <<canceled, status, call, child, sweeper, phase, faults>>

\* The Workflow gives up on an attempt (its timeout, a severed stub, its own
\* eviction) whose call goes on in the object.
GiveUp(s) ==
  /\ Driving /\ branch[s].attempt # NoOne /\ faults < MaxFaults
  /\ Lose(s)
  /\ faults' = faults + 1
  /\ UNCHANGED <<canceled, status, call, child, sweeper, phase>>

\* The object is reset: every call and the cancellation pass are gone, with
\* whatever was in flight in the children; rows and children's storage stay.
Evict ==
  /\ faults < MaxFaults
  /\ call' = [s \in Subtasks |-> [c \in Calls |->
                IF At(s, c, "idle") THEN NoCall ELSE Cut(s, c)]]
  /\ child' = [s \in Subtasks |-> [child[s] EXCEPT !.inflight = NoOne]]
  /\ sweeper' = Idle
  /\ faults' = faults + 1
  /\ UNCHANGED <<canceled, status, branch, phase>>

-----------------------------------------------------------------------------
(* Cancellation.                                                           *)

\* markCanceled flips the Task's row and onTaskCanceled runs to its first
\* await in the same stretch: pending rows are canceled and the rows listed.
\* A second request finds the row canceled already and runs the pass again.
Cancel ==
  /\ phase \notin {"settled", "swept"}
  /\ canceled => sweeper.todo = {} /\ faults < MaxFaults
  /\ canceled' = TRUE
  /\ status' = CancelPending(status)
  /\ sweeper' = [todo |-> Subtasks, lost |-> {}, at |-> NoOne,
                 running |-> {s \in Subtasks : status[s] = "running"}]
  /\ faults' = IF canceled THEN faults + 1 ELSE faults
  /\ UNCHANGED <<branch, call, child, phase>>

\* The pass is done with a row.
Past(s) == [sweeper EXCEPT !.todo = @ \ {s}, !.running = @ \ {s}, !.at = NoOne]

\* Regression: the rows that are not running are taken for finished with.
SweepSettledKeeps(s) ==
  /\ s \in sweeper.todo \ sweeper.running /\ sweeper.at \in {s, NoOne}
  /\ sweeper' = Past(s)
  /\ UNCHANGED <<canceled, status, branch, call, child, phase, faults>>

\* A row that was not running when listed, or that the pass has resolved: its idle
\* child is deleted.
SweepSettled(s) ==
  /\ s \in sweeper.todo \ sweeper.running /\ sweeper.at \in {s, NoOne}
  /\ DeleteChild(s, call[s])
  /\ sweeper' = Past(s)
  /\ UNCHANGED <<canceled, status, branch, phase, faults>>

\* A row that was running when listed: abortRun reaches the child (creating one
\* if need be) and interrupts the chunk in flight, or says there is none.
AbortRun(s) ==
  /\ s \in sweeper.todo \cap sweeper.running /\ sweeper.at = NoOne
  /\ child' = [child EXCEPT ![s].live = TRUE]
  /\ LET c == child[s].inflight IN
     IF c # NoOne
       THEN /\ Set(s, c, [call[s][c] EXCEPT !.aborted = TRUE])
            /\ sweeper' = Past(s)
       ELSE /\ sweeper' = [sweeper EXCEPT !.at = s]
            /\ UNCHANGED call
  /\ UNCHANGED <<canceled, status, branch, phase, faults>>

\* Told there was none, the pass resolves the row itself, and tears the child
\* down next if the row was still running.
ResolveRunning(s) ==
  /\ sweeper.at = s /\ s \in sweeper.running
  /\ status' = CancelRunning(status, s)
  /\ sweeper' = IF status[s] = "running" THEN [sweeper EXCEPT !.running = @ \ {s}]
                ELSE [Past(s) EXCEPT !.lost = @ \cup {s}]
  /\ UNCHANGED <<canceled, branch, call, child, phase, faults>>

-----------------------------------------------------------------------------
(* The Workflow around the branches.                                       *)

\* Promise.all resolves when every branch has returned, and rejects when one throws.
Join ==
  /\ phase = "running"
  /\ \/ /\ \A s \in Subtasks : branch[s].at \in {"done", "failed"}
        /\ phase' = "joined"
     \/ /\ \E s \in Subtasks : branch[s].at = "threw"
        /\ phase' = "rejected"
  /\ UNCHANGED <<canceled, status, branch, call, child, sweeper, faults>>

\* The terminal write of the delivery, refused for a canceled Task.
Deliver ==
  /\ phase \in {"joined", "rejected"}
  /\ phase' = IF canceled THEN "stopped" ELSE "settled"
  /\ UNCHANGED <<canceled, status, branch, call, child, sweeper, faults>>

\* sweepTaskChildren deletes the children of the Task one by one, and the step
\* that asks for it is best-effort: it ends however far that came.
SweepChild(s) ==
  /\ phase = "settled"
  /\ DeleteChild(s, call[s])
  /\ UNCHANGED <<canceled, status, branch, sweeper, phase, faults>>

EndSweep ==
  /\ phase = "settled"
  /\ phase' = "swept"
  /\ UNCHANGED <<canceled, status, branch, call, child, sweeper, faults>>

-----------------------------------------------------------------------------
Handler(s, c) == \/ StartFresh(s, c) \/ EnterChild(s, c) \/ StartRun(s, c)
                 \/ Turn(s, c) \/ YieldChunk(s, c) \/ FinishRun(s, c)
                 \/ Rethrow(s, c) \/ CheckCanceled(s, c) \/ Publish(s, c)
                 \/ Persist(s, c) \/ Clear(s, c)

CancelPass == \E s \in Subtasks : SweepSettled(s) \/ AbortRun(s) \/ ResolveRunning(s)

Step(s) == \E c \in Calls : Execute(s, c) \/ FailSubtask(s, c)

Around == Join \/ Deliver \/ (\E s \in Subtasks : SweepChild(s)) \/ EndSweep

Quiet == /\ phase \in {"swept", "stopped"}
         /\ sweeper.todo = {}
         /\ \A s \in Subtasks, c \in Calls : At(s, c, "idle")

Finished == Quiet /\ UNCHANGED vars

Next == \/ \E s \in Subtasks, c \in Calls : Handler(s, c) \/ Fault(s, c)
        \/ \E s \in Subtasks : Step(s) \/ FailAttempt(s) \/ GiveUp(s)
        \/ Evict \/ Cancel \/ CancelPass \/ Around \/ Finished

Spec == Init /\ [][Next]_vars

-----------------------------------------------------------------------------
(* Properties.                                                             *)

\* runBranch is obliged to leave its row terminal when it returns, whatever
\* was canceled, lost or retried: nothing re-scans the rows afterwards.
BranchSettlesRow ==
  \A s \in Subtasks : branch[s].at \in {"done", "failed"} => status[s] \in Settled

\* A settled row never changes: a late result, a late failure and a late
\* cancellation all lose to the one that came first.
RowSettlesOnce ==
  [][\A s \in Subtasks : status[s] \in Settled => status'[s] = status[s]]_vars

\* While a row is running and nobody has canceled it, its checkpoint and its
\* cached result are never thrown away: an ambiguous retry resumes what the
\* first attempt paid for.  Three cases are excluded: a run that an overlapping
\* call of the same child has overtaken sets the checkpoint back; a claim that
\* the Workflow gave up on deletes the child late, under the retry that resumed
\* it; and an abandoned Task's delivery sweeps it.
Overtaken(s) ==
  \E c \in Calls : At(s, c, "inside") /\ call[s][c].turns < child[s].turns
Owed(s) == \E c \in Calls : At(s, c, "claiming")
CheckpointKept ==
  [][\A s \in Subtasks :
       /\ status[s] = "running" /\ status'[s] = "running" /\ ~canceled
       /\ phase = "running" /\ ~Overtaken(s) /\ ~Owed(s)
       => /\ child'[s].turns >= child[s].turns
          /\ child[s].cache # "none" => child'[s].cache # "none"]_vars

\* A canceled Task never reaches the delivery that would sweep its children, so
\* the cancellation does: when all is quiet, and no call or pass was cut off, none
\* of them is left.  The code does leave one in three cases, which are excluded:
\* the pass listed its row as running and then found it settled by its own result;
\* the fail step found it settled; or some branch's fail step was exhausted, and
\* the Workflow with it.
CanceledLeavesNoChild ==
  Quiet /\ canceled /\ faults = 0 =>
    \A s \in Subtasks :
      child[s].live => \/ s \in sweeper.lost \/ branch[s].at = "failed"
                       \/ \E t \in Subtasks : branch[t].at = "threw"
=============================================================================
