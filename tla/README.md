# A specification of looping-core

`@dynamicagents/core` runs conversational agents on Cloudflare Workers. A
*gatekeeper* dispatches a message over A2A; a Durable Object keeps the caller's
tasks and conversation; a Workflow drives the turn in durable steps; the main
agent either answers or delegates Subtasks, each run by a managed child object;
at the end the gatekeeper is called back. Steps are retried, answers are lost,
objects are evicted, tasks are canceled at any moment. This directory specifies
that machinery in TLA+, model-checks it with TLC and proves parts of it with TLAPS.

Paths below are relative to `src/src/`.

## Inventory

| Component | State it keeps | Operations | Talks to |
|---|---|---|---|
| Task rows `db/models/tasks.ts` | one row per message: state, stored Task | begin, save, markWorking, cancel, cleanup | called by the host object |
| Subtask rows `db/models/subtasks.ts` | one row per Subtask: round, ordinal, status, result | createDecomposition, start, complete, fail, cancelRunning, cancelPending | called by the round handlers |
| Host object `host/agent.ts` | both tables, the Session | beginTask, saveTask, markWorking, cancelTask, markCanceled → onTaskCanceled | RPC from executor, store, Workflow |
| Dispatch `a2a/executor.ts`, `a2a/task-store.ts` | none of its own | execute, cancelTask, save, list | beginTask, then startTurn, then the a2a-js handler saves what was published |
| Workflow `round/workflow.ts` | recorded step results | runHandleTask, orchestrate, executeSubtasks, runBranch, deliver | RPC to the host object |
| Delivery `a2a/deliver.ts`, `notify.ts`, `push.ts` | steps `complete`, `sweep`, `notify`, and `abandoned:` twins | deliverTerminalTask, deliverAbandonedTask | saveTask, callback POST |
| Round handlers `round/agent.ts` | none of their own | runTaskTurn, scanSubtasks, executeSubtaskChunk, failSubtask, sweepTaskChildren, onTaskCanceled | Session, rows, children |
| One turn `round/turn.ts`, `agent/control.ts` | the round's budget | runTurn, attempt, deterministicJoin | two model slots |
| Managed child `subagent/index.ts` | `execution_cache`, `run_state`, the call in flight | executeChunk, abortRun, abortExecution | its parent by RPC |
| Recipe runner `subagent/run.ts` | run in memory, checkpointed every turn | runResumableChunk, summarizeBudget, windowMessages, elideToolOutputs | two model slots |
| Budgets `agent/budget.ts` | turns spent | stepAllowance | turn, runner |
| Session `agent/session.ts`, `history.ts` | the conversation | appendOnce, compaction | turn |
| Wake-ups `alarm/index.ts` | the intent map, the object's one alarm | set, clear, due, rearm, repair | the object's `alarm()`, host plugins |
| Jobs `job/lifecycle.ts` | a job's record, its stamps, the latch of each drain | arm, claim, armWatch, clearWatch, generation | wake-ups, the job's owner |
| Database start `db/db.ts` | plugin store versions, the plugins' tables | migrate, ensureReady, applyStores | host object |
| Endpoint `worker/`, `a2a/verify.ts`, `card.ts`, ... | a key set cache, the pinned origin | fetch, verification, routing, cards | gatekeeper, host object, Workflow |
| Caller's token `a2a/self-origin.ts`, `caller-token.ts` | the isolate's origin and key | note, require, signCallerToken | round handlers |
| Declarations `contract/`, `runtime/`, `config.ts`, `platform.ts` | none after construction | resolveConfig, createAgentRuntime, validateRecipe | host object, managed child |
| Delegation `subtasks/`, `agent/control.ts` | none | schemas of a proposal, validateParams, resolveDecomposition | turn, managed child |
| Errors `agent/inference.ts`, `errors.ts` | none | isTransientAiError, nonRecoverableKind | turn, runner |

What is hard here, and which of it a test hardly reaches:

* **Durable steps.** A step body may take effect and its answer be lost. It then
  runs again, and when its attempts are exhausted it throws although it may have
  done its work.
* **Abandoned calls.** A step that times out is attempted again while the first
  call goes on inside the object. Durable Objects interleave at every `await`
  that is not storage.
* **Cancellation at any moment**, acting on a list it has read while calls past
  their own check complete.
* **Evictions**, between any two awaits: what was in memory is gone, rows stay.
* **Late writes**: a Task read before the turn is stored after it.
* **Deploys** in the middle of everything: the object and its child wake under other
  declarations, and what they hold in storage was written under the old ones.
* **Chains of storage writes** that a crash cuts in two: an intent and its alarm, a
  placeholder and its wake-up, tables and the version on record.
* **Budgets** counted across slots, retries, chunks and rounds.

`PROJECT.json` lists the hazards one by one, each at its line, with the properties
aimed at it or the reason there is none.

What makes each component correct, in a sentence: a task row never leaves a
terminal state and a cancellation always holds; the gatekeeper hears exactly what
is stored, once decided; every accepted task is eventually settled; a Subtask row
settles once and no later than its branch; a retry continues a run and never
restarts it; a run and a task stay within their budgets and always come to an
end; recovery of a round returns what an earlier attempt decided; a request reaches
the object and the turn its token names, once; no deadline is slept through and no
job is stranded; an object that serves has the tables it declares; and no deploy
mixes two requests in one run.

## The modules

| Module | Models | Extends or composes |
|---|---|---|
| `TaskRow` | the guards of the task row | |
| `TaskPromise` | abstract: what a task promises its gatekeeper | |
| `Delivery` | the Workflow of one task around its rounds, its terminal delivery, the abandoned path, cancellations | `TaskRow`; implements `TaskPromise` |
| `Edge` | several dispatches of one message, the stale Task they store | extends `Delivery`; implements `TaskPromise` until a late save |
| `RoundLoop` | the rounds: `orchestrate`, `runTaskTurn`, `decideRound` | implements `Delivery`'s step `rounds` |
| `TurnView` | what a round shows its model of the Session, and what reference indexes quote | |
| `TurnLadder` | one call of `runTurn`: two slots, repairs, the budget, the Session under other hands | extends `TurnView`; implements a call of `RoundLoop` |
| `MCTurnLadder` | the pasts and control calls of the run | extends `TurnLadder` |
| `SubtaskRow` | the guarded writes on the Subtask rows | |
| `SubtaskBranch` | one delegated round: branches, overlapping handler calls, children, the cancellation pass, the delivery sweep | extends `SubtaskRow` |
| `MCSubtask` | the symmetry of the run | extends `SubtaskBranch` |
| `AiErrors` | which errors are transient, refused or plain | |
| `Conversation` | windowing and elision of a run's context | |
| `ChunkRun` | one Recipe run inside its child, chunk by chunk | `Conversation`, `AiErrors`; implements the child's moves of `SubtaskBranch` |
| `WakeMap` | the intents over the object's one alarm | |
| `JobLifecycle` | a job armed, claimed, run, drained and watched, with every chain of writes cut anywhere, by a death or a write that throws | extends `WakeMap` |
| `Gateway` | what the Worker decides of declarations, tokens and bodies | |
| `Endpoint` | requests from fetch to object and Workflow, isolates and the tokens they sign, listing and cleanup | extends `Gateway` |
| `MCEndpoint` | forms of declaration, messages, earlier tasks | extends `Endpoint` |
| `Plugins` | configuration, plugins, their composition, Recipes and fingerprints | |
| `Proposal` | the schema of a delegation and the params of each type | extends `Plugins` |
| `Deployment` | an object's start, its stores and its Subtask across deploys | extends `Proposal` |
| `MCDeployment` | eleven builds and nine proposals | extends `Deployment` |
| `DeliveryProofs`, `TurnLadderProofs`, `SubtaskProofs`, `ChunkProofs`, `RoundLoopProofs`, `JobProofs`, `EndpointProofs`, `DeploymentProofs` | theorems | the modules they are named after |

So the layers fit together by refinement: `Delivery` has one step `rounds`;
`RoundLoop` opens it and has one step for the Subtasks of a round, and turns with a
conclusion for the main agent; `TurnLadder` opens the latter; `SubtaskBranch` opens
the former and has turns, yields and ends for a child's run; `ChunkRun` opens those.
`TurnLadder` extends `AiErrors` too. The instances carry the constants; no model
checks a product of all layers. `JobLifecycle`, `Endpoint` and `Deployment` stand
beside these layers: what they follow (an alarm, a request, a deploy) goes on
whatever a turn is doing.

### Conventions

A **durable step** has `MaxAttempts` attempts. An attempt has three outcomes: its
effect and its answer; its effect, and the answer is lost (`Lose`); nothing
(`FailAttempt`). A lost last attempt throws, and the code after the throw is
modelled (`Throw`). The result of a step is recorded, so replays of the Workflow
need no state of their own.

A **handler of a Durable Object** is split into actions exactly where it awaits
something other than storage or a value already there. Storage holds the input
gate closed, so everything between two such awaits is one step of the model. An
await of a promise that is already settled is not a place to interleave.

Definitions called *Regression* are plausible mistakes in the definition that
follows them. Nothing uses them except the mutation runs listed in
`PROJECT.json`: each property is shown to fail once the regression is in place.

### TaskRow, TaskPromise, Delivery

`row` is the stored Task as state, text and a stamp; the stamp stands for the
timestamp, since each attempt of `complete` builds its Task anew. `pc` is the
Workflow's step, `path` whether it is the main or the abandoned delivery, `heard`
the callbacks received. `SaveApplies`, `CancelApplies` and `MarkedWorking` are the
`WHERE` clauses of `save`, `cancel` and `markWorking`. `Throw` is `runHandleTask`'s
catch: it goes to the abandoned delivery, unless the Task was terminal already
(`TaskAlreadyTerminalError`), when the fault is rethrown.

`TaskPromise` says what a gatekeeper may rely on: a task is accepted, worked on,
canceled or settled, and told as it was settled. A repeated acknowledgement may show
an open task as it was (`Reshow`). `KeepsPromise` is the refinement by `Delivery`.

### Edge

`Begin`, `Start` and `Acknowledge` are `beginTask`, `startTurn` and the save that the
a2a-js request handler performs on the published Task. Between `Begin` and
`Acknowledge` the dispatch carries the Task it read. `Die` ends a dispatch
anywhere, as long as the gatekeeper will send another. The request handler itself
is not in the repository; that it saves published Tasks through
`DurableTaskStore.save` is how the code uses it.

`late` is history: an acknowledgement replaced a settled Task. `Edge` keeps the promise
up to that step (`KeepsPromiseUntilLate`), and until then an instance that ends without
a callback has one of two reasons (`EndedIsTold`). Beyond it there is still one
verdict, a final cancellation and an end to the turn.

### RoundLoop

`RunTaskTurn` is the handler up to the model: cancellation, recovery of a stored
answer, recovery of stored rows, or inference. `ModelTurn` is one turn charged to
the budget, `Replies`, `Delegates`, `FailsRound` and `Throws` are the ways it ends,
each with the second cancellation check where the code has it. A round that throws
may leave its acknowledgment stored, since the rows are created after it.
`Answered` and
`Lose` are the Workflow's side of the step. `GiveUp` leaves a call running. `free`
is a history variable: delegated rounds recorded at no cost.

### TurnView and TurnLadder

A message is its id (kind, task, round) and its words; an append writes an id at
most once (`Same` finds it) and reads back what is stored under it. `RenderTurnMessages` is
`renderTurnMessages`: each round that has rows is shown as a `delegate` call with
its results, at its acknowledgment or, if that was compacted away, after the rest;
an acknowledgment without rows is dropped; the other turns are marked with the
index under which a delegation may cite them. Order is kept by places, as in `InOrder`.
`Rounds` are the rounds a task may have, 0 to the constant `LastRound`, so a view may
hold several earlier ones.

`args` is what `decideRound` hands to `runTurn`. `Begin` stores the user turn in round
0 and renders the view; `Works`, `Ends` and `Breaks` are a step of a model that
worked on, that halted the loop, or that threw; `Reached` and `Usable` are what
`attempt` makes of the control calls. `Replies` to `Exhausts` are the branches of
`runTurn`. `OtherEnds` and `Compact` are the attempt of the round that was given up
on and the external Session's compaction, of a prefix of any length; they happen at any
time. The initial states are the Sessions that all the earlier rounds, other tasks and a
dead attempt may leave, compacted up to any place.

`Stores` may throw with or without having stored, a fault RoundLoop takes as a lost
answer. The cancellation checks and the rows are `RoundLoop`'s.

### SubtaskBranch

`status` is the row, `branch` the Workflow's `runBranch`, `call` each call of
`executeSubtaskChunk` inside the object (several per Subtask), `child` the managed
child: alive or not, checkpointed turns, terminal cache, the call in flight.

`Execute` is `prepareChunk` to its first await. `PrepareEnds` ends there, without
touching a child; `PrepareClears` has found or made the row settled and still has to
release and delete; `PrepareClaims` goes on. What follows an await is a step of its own:
the deletion a won claim owes (`StartFresh`), the plugin's runtime and the child's stub
(`EnterChild`), the chunk (`StartRun`, `Turn`, `YieldChunk`, `FinishRun`, `Fault`),
`CheckCanceled`, `Publish` and `Persist`, and the teardown of a settled row's child
(`Clear`), to which `CheckCanceled`, a refused `Persist` and `FailSubtask` lead too. A
call that throws is `Cut`: the Workflow hears of it next (`Rethrow`), unless it gave up
on the call, which then is over. So another call, a cancellation or an eviction may come
between a row's write and its child's deletion.

`Cancel` is `onTaskCanceled` to its first await, with the rows it lists.
`SweepSettled`, `AbortRun` and `ResolveRunning` are its pass, one child after another and
an await between each two. `SweepChild` is the delivery's sweep, child by child;
`EndSweep` may end it before it is through, since the step is best-effort.

`CheckpointKept` excludes three cases and says which. One of them is the window between a
claim and its deletion (`Owed`): when the Workflow gives up on the attempt that won the
claim, the retry finds a running row and may work on while the first call has its
deletion still to make.

`CanceledLeavesNoChild` is about the children a cancellation must take with it, since a
canceled Task is never swept. It is about runs in which no call and no pass was cut
off by an eviction or a timeout (`faults = 0`), and excludes three ways in which the code
does leave a child (see the findings): the pass listed a running row whose own result
settled it before the pass came back to it (`sweeper.lost`); the row was settled already
when `failSubtask` came to it; some branch's fail step was exhausted.

`deleteChildQuietly` swallows its faults; here a deletion it makes succeeds. So does the
release of a plugin's runtime, but after a chunk, where `CheckCanceled` may throw before
the deletion. `abortRun` answering false is taken as it is, a statement about that
moment only.

### Conversation and ChunkRun

A message is a role and, for a tool's result, its tool and what is left of its
output. A failed, denied or short output is "kept": the elision never touches it.
A turn calls at most one tool, so a tool message holds one result; the code treats
the results of one message alike (the newest message of a tool keeps all of them).

`at` is the model slot in use: the first and the second of the work loop, or of the
budget report. `ToolTurn` and `LastTurn` are one step of a slot's loop with `onStepEnd`;
`finish` is why the loop returned. `Conclude` is everything after `generateText`.
`Resumed` and `Begin` show that a run that never checkpointed starts its clock again; a
run with a checkpoint does not. `failures` are the kinds of error the slots of a pair
have failed of, both of them: whether a failure is final is asked of either.
`TurnUnsaved` is a turn whose checkpoint write throws inside `onStepEnd`: the turn is
counted in memory (`Counted`) and nothing is stored. What the SDK does then is outside
the repository; the model lets its loop end there and the slot fail. `Answer` is the
durable step around the chunk. Validation of the request inside the child is left out:
it is `Deployment`'s, and an unusable Recipe is `Unusable` in `SubtaskBranch`.

`AiErrors` gives both ladders their kinds of error: transient, one of the three
refused credentials, plain. An error is seen by its class, whether it says to
retry, its status and its words, and by the credential shape, which wins over all
of them.

### WakeMap and JobLifecycle

A Durable Object has one alarm; `intents` is the row `WakeMap` keeps beside it. Storage
calls hold the input gate, so a method is one step, but after any write the object may
die or the next write may throw: `cut` counts the writes that were made, and `Ends`
tells the two apart, since a throw leaves the drains in memory at work. `ArmThrows` is a
wake-up that `arm` could not set and unwound; the deletion of the armed stamp in it may
fail and be swallowed. `lifecycle.ts` (227-228) calls the two writes of placeholder and
alarm "the one window where this can strand a job"; the `put`s before its `try`, at 220
and 224, lie in the window too, and when one of them throws nothing is unwound. The
placeholder then stands until it is stale, as it does when putting the record back
throws: a cut `Arm` is either, and `JobSettles` covers both. `Start` is what the owner
does to start a run, in the order the comments of `lifecycle.ts` ask for: context,
record, armed stamp, watchdog, and then the drain. Who calls the class (a gate,
`alarm()`, the drain, the watch) is not in the repository and is modelled as its
comments and tests use it; a re-attached drain in particular requires the record's stamp
to be the context's and none to be armed.

Stamps are milliseconds of the clock. `Distinct` says that a run is not started within
the millisecond of the run before it; the code relies on that (`generation` compares
stamps). `newest` on a drain and `owed` are history: that no start, whole or cut, was
made after this drain's, and whether a chain of writes was cut between the row and the
alarm, or a handler failed, since when the next wake-up repairs the alarm.

### Gateway and Endpoint

`Verify` and `Dispatch` are the Worker's checks in the code's order, with the answer
each gives. `Begin` and `StartTurn` are the executor's two calls, on an object named
by the verified key in the namespace of the tenant's agent. `StartTurn` finds an
instance of its id or creates it; `CreateThrows` and `CreateSwallowed` are the
failures of the creation, the second one in words that `ignoreAlreadyExists` takes
for "already there", since its pattern matches any message with "exist" in it; it
is the exception `AcceptedHasItsTurn` spells out. `isolate` is what an object's
memory knows: the origin the first turn brought and the caller's key, which comes from
the identity of a turn that opened the Session (`OpenSession`) or else from the object's
name. That both are one key is part of `OneIssuer`.

Assumed: callers' message ids differ also once sanitized to instance ids, and no
gatekeeper sends a message again once it is past the age of the cleanup (`aged`).
`Cleanup` takes rows nobody works on; the thirty days are far beyond a turn. A
request for anything but sending and listing is answered without a change here
(`Edge` and `Delivery` have the cancellation).

The listing is one caller's, page by page. `hidden` are the rows its filter (a context,
a state, a time) keeps out; while it is read a row may be added, join the filter or
leave it (`Relist`), or be cleaned up. The rows are ordered by `createdAt` alone,
which is a millisecond (`Stamps`), and each page may order the rows of one millisecond
anew (`Orders`). `task-store.ts` (50-53) says of this: "Offset paging can skip or repeat a
row if tasks are written mid-scan, which is acceptable here". `ScanMissesNone` is how far
it can: `must` are the rows that were listed at the start, do not share their
millisecond and have been listed since; they are all seen, unless a row before the
offset left the listing meanwhile, since that moves the others forward past it. A row
seen twice is not counted. Cleanup takes the oldest rows, the end of the listing, so none
before the next page goes without all that are on it.

### Plugins, Proposal and Deployment

`Builds` are what a deploy consists of: the configuration, the secrets and bindings
at hand, the plugins in order. `Composes` is every reason `createAgentRuntime` has
to throw. A number that is missing, zero or a fraction is 0. `ValidateRecipe` merges
the limits and drops the tool families nobody installed; `Canonical` is what the
fingerprint hashes, with `FINGERPRINT_VERSION` (`prints` of a build) and the Recipe's
`reportMetrics`, so the model compares the canonical requests themselves. The Subtask's
id, type, prompt and references are hashed too, but no deploy changes them. `Register` is
the rest of the start; the weekly cleanup it schedules is left out.

A params schema accepts or refuses values, and neither transforms them nor fills
in defaults. `ParamProperties` is the one object of params that all types share in
the `delegate` tool: where two types declare one name, the later type's schema
stands. A type whose own schema disagrees with it can then not be delegated to;
the repository's plugins share no name.

`Open` is the constructor of the database: the stores one after the other, each
its DDL and then its version, in one synchronous go. When the DDL of a store
throws, those before it stay and the start fails for this isolate. DDL either can be run
again after that or, as the ALTER TABLE in the example of `db.ts` (51), cannot
(`repeats`): then the store is `Stuck`, and so is every start of a build that has it. `Delegate`
to `Persist` follow one Subtask across deploys: the parent validates the Recipe as
the new build has it, the child compares fingerprints and validates the params
again. Parent and child run the same build, as a deploy resets both. A checkpoint
of another fingerprint, or a cached result of one, is discarded by deleting the
child once. The row keeps its `recipe_version` of the claim, which nothing reads.
`since`, `asked`, `made` and `under` are history.

## Runs

All run with deadlock checking; each module's `Finished` is the only way to stop.

| Run | Checks | Bounds |
|---|---|---|
| `edge` | one verdict, a final cancellation and a turn that ends; until a late save reopens the row, the promise of `TaskPromise` and no silent end but the known ones | 3 attempts, 2 dispatches that may die |
| `round_loop` | recovery, spend, termination, and `Delivery`'s view of it | 2 turns, 2 attempts, 2 calls at once, 1 fault |
| `turn_ladder` | each delegated round is shown once, a Subtask is given the turns the model marked, an end is honest, and the ladder is a call of `RoundLoop` with its bound on the spend | 2 turns, rounds 0 to 2, 1 repair, 2 pasts, 1 abandoned attempt, 1 compaction |
| `subtask` | settling, checkpoints, and the children a cancellation takes with it | 2 Subtasks, one with an unusable Recipe, 2 calls of a handler at once, 2 attempts, 2 turns, 2 chunks, 1 fault |
| `chunk_run` | a run's budgets, its verdicts, its context, its end, and `SubtaskBranch`'s view of it | 2 turns, 2 chunks, 2 tools, 1 fault |
| `job` | the alarm covers the intents; verdicts, watchdog and run of the newest generation; the job comes to rest | budget, grace and watch 1, cooldown 2, events up to moment 2, clock up to 5 |
| `endpoint` | routing, one turn per accepted message, one issuer per isolate, what a filtered listing may miss | 2 requests, 2 hosts, 2 agents, 2 callers, 2 earlier tasks, milliseconds that may be shared, pages of 1 and 2 |
| `deployment` | the stores, the start, and one Subtask's run across deploys | 11 builds, 9 proposals, 2 deploys, 2 faults |
| `delivery_silent_end`, `edge_reopened`, `round_loop_exhausted`, `deployment_baseline` | what a comment says and the code does not, one each | those of `Delivery` with 3 attempts, `edge` with 2, `round_loop`, `deployment` |

Why these are enough: a fault matters before or after the effect it hits, and once more
on the retry that follows, which two attempts give; a third attempt adds a repetition.
Races are between a call and one abandoned before it, or a call and a cancellation, so
two calls suffice; the slots of calls are interchangeable, which is the symmetry of
`subtask`. Two turns with the turn over make three, more than the window of two, so the
context is cut and elided. In `turn_ladder` an attempt, its repair and a fallback lie
below, at and past an allowance of two turns, which ranges from -1 up; in round 2 there
are two earlier rounds, so that one may be compacted away and the other not, or both;
two pasts are a Session without and one with turns to cite. In `job` three moments allow
a run, one that takes over after budget and grace, and drains of both; the clock then
runs on until every timeout has passed. In `endpoint` two requests are a message and its
resending, or two callers', under two origins, and up to four rows are listed on pages
of one or two. In `deployment` each build differs from the first in one thing (a model,
a limit, a Recipe, a store, a plugin, a type, its params, a secret, the version of the
fingerprint), and two deploys go there and back. The code's own numbers (40 chunks, 30
turns and so on) only enter as comparisons with these counters.

Where the code disagrees with what it says of itself (`findings` in `PROJECT.json` quotes
both sides), four runs have a property that says what the comment says, and is
violated:

* `delivery_silent_end`: when every attempt of `complete` applied and was lost, the
  recovery's write is refused by the completed row, and the instance ends
  normally with nobody told.
* `edge_reopened`: the Task published at dispatch, saved after the turn has
  completed, reopens the row. `save` refuses terminal over terminal, not
  open over terminal.
* `round_loop_exhausted`: a lost answer of a delegated round is recovered with
  `turns: 0`. When every round goes that way the loop runs out of rounds with its
  budget whole, at the place that `workflow.ts` calls "Unreachable" (415-417), because
  "an `open` round always spends at least one turn" (311-313). `ExhaustedOnlyIfFree`,
  in `round_loop`, says that there is no other way to get there.
* `deployment_baseline`: the parent sends the Recipe with its limits already merged
  with the host's, so a deploy that changes only the host's limits gives a run
  another fingerprint and it starts from turn zero, which `fingerprint.ts` says it
  is made to avoid.

In four more places a property holds only with an exception for what the code does
against its comments; the exception is part of the property, and the finding is listed with
the passing run:

* `AcceptedHasItsTurn`: `define-agent.ts` (135-137) says that `ignoreAlreadyExists`
  "swallows exactly that race and rethrows everything else". It takes any error with
  "exist" in it for the race, so an accepted message may have no turn.
* `CanceledLeavesNoChild`, `lost` and `failed`: a call past its cancellation check may
  settle the row while the cancellation pass awaits the child it listed as running. The
  pass is then refused and leaves the child, the call keeps it for a sweep that a
  canceled Task never reaches. `agent.ts` (497-498) says that cancellation "does not
  leak", and 758-762 that such a child is deleted there. A second cancellation request
  of the Task would find it.
* `CanceledLeavesNoChild`, `threw`: an exhausted `fail:<id>` step rejects
  `Promise.all`, where `workflow.ts` says that "`runBranch` never rejects" (463-464). What
  the siblings were doing goes on in the object with nobody to retry it, their rows are
  settled by their calls, by a cancellation or not at all (`BranchSettlesRow` is about
  branches that returned), and the abandoned Task's delivery sweeps children that are
  at work, where 598-599 has it that "every `execute` step has unwound".
* `StartsEventually`: the DDL of the example in `db.ts` (51) cannot be run again
  once it threw after its ALTER TABLE, though 45 calls it idempotent and 71-72 asks that of
  it. The version is recorded by a statement of its own, so such a store stops every start.

### Fairness

`RoundsEnd`, `RunEnds` and `AcceptedTurnEnds` assume weak
fairness of the engine's own steps (Workflows run to completion) and of a call
inside an object (models answer or time out). Cancellations, losses, evictions,
the clock and aborts have no fairness. Losses are not limited by fairness but by
the attempts of a step. `AcceptedTurnEnds` also needs a dispatch that is not
dead to be served; the gatekeeper's retry is `Die`'s guard.

`JobSettles` assumes that the clock goes on, that a due alarm fires (the platform
repeats one whose handler failed or died) and its handler goes on, that a command
comes to an end, and that whoever waits for a job asks again: a placeholder that a
crash cut off from its wake-up is freed by the next caller once it is stale.

`StartsEventually` and `SettlesAcrossDeploys` assume that the platform drops an
isolate whose start failed and that a request comes to the object, so that it
starts; that the Workflow calls until the Subtask has settled; and that a chunk is
not forever yielded or killed before it has made a turn. Deploys and faults are
bounded and not fair; `SettlesAcrossDeploys` has the exception that the last build
deployed cannot start.

`KeepsPromise` maps the told Task with CHOOSE from `heard`, so it takes the theorem
`ToldIsStored` (at `Edge`, `VerdictIsOne`) for the fact that there is only one.

## Proofs

| Theorems | Statement |
|---|---|
| `DeliveryProofs` | `TypeCorrect`, `ToldIsStored`, `EndSettles`, `EndTells`, `SettledForever`, and `Implements`: `Spec => TaskPromise`; about `Edge`: `EdgeTypeCorrect`, `VerdictIsOne`, `CancellationHolds`, `EndTellsAtEdge`, and `PromiseAtEdge`: until an acknowledgement is late, `Edge` implements `TaskPromise` |
| `RoundLoopProofs` | `TypeCorrect`, `RoundsAreAcknowledged`, `SpendHolds`, `ExhaustionIsFree`, `RepliesStand`, `CanceledStartsNothing`, and `IsOneStepOfDelivery`: the loop is `Delivery`'s step `rounds` |
| `SubtaskProofs` | `TypeCorrect`, `BranchesSettle`, `SettledOnce`, `CheckpointsKept` |
| `ChunkProofs` | `TypeCorrect`, `BudgetHolds`, `DeadlineHolds`, `FailuresAreReal`, `ChunksAreEnough`, `LatestViewIsKept`, and `RunRefinesChild`: a run makes only a child's moves of `SubtaskBranch`; about contexts of any length: `ElisionIdempotent`, `NewestSurvives` |
| `TurnLadderProofs` | `TypeCorrect`, `SpendHolds`, `HonestlyEnds`, `ViewShowsOnce`, `QuotesAreAsMarked`, and `LadderIsRound`: `runTurn` is a call of `RoundLoop` |
| `JobProofs` | `TypeCorrect`, `AlarmIsInTime`, `WatchIsKept`, `VerdictsAreOfNewest`, `LiveRunIsKept` |
| `EndpointProofs` | `TypeCorrect`, `TasksAreRouted`, `AcceptedAreServed`, `IssuerIsOne`, `ScansAreWhole` |
| `DeploymentProofs` | `TypeCorrect`, `RunsAreOfOneRequest`, `DeclaredIsServed` |

They hold for all constants that satisfy the named assumptions (`DeliveryAssumption`,
`RoundAssumption`, `BranchAssumption`, `RunAssumption`, `LadderAssumption`,
`WakeMapAssumption` and `JobAssumption`, `GatewayAssumption` and `EndpointAssumption`,
`DeploymentAssumption`): any number of attempts, faults, Subtasks, calls, dispatches,
turns, ticks, repairs, any Session and control calls, any periods and keys of wake-ups,
any requests, declarations, pages and earlier tasks, any builds and proposals. The
assumptions give constants their types and say that `None`, and the name of nobody, is
none of the values it stands beside. Three say more: ids of messages differ once
sanitized, a Session left by earlier tasks holds each id once (`IdsOnce`), and there is
a host.

*Delivery.* `HeardIsStored` is not inductive. The invariant adds that a Task
recorded by `complete` is the one stored (`RecordedIsStored`), that before delivery
nothing has been heard (`BeforeDelivery`), that once heard the row is final
(`HeardIsFinal`), and what a lost write leaves behind (`LostWrite`). `SaveVerdict`
reduces `save` to one line for verdicts. Each action has a lemma; the refinement
maps each to a move of the promise or a stutter.

*Edge.* Here a row may leave a terminal state, so little of the above remains. What
does (`HeardIsBuilt`): until the instance is at its callback nobody has heard
anything, and from there on everything heard is the one Task it built. That only a
`cancel` puts `canceled` into a row, and that `save` leaves it, is a step's own matter.
As long as no acknowledgement was late, every invariant of `Delivery` stands
(`OnTimeInv`): what a dispatch holds is an open Task or the row is settled already, so
an acknowledgement in time leaves the row or shows an open one as it was (`AckInTime`).

*RoundLoop.* A round on record has paid at least one turn or is counted in `free`
(`Paid`), and an awaited call was given what the record leaves (`Attempt`): it works on
only while turns are left, so it adds at most one past them. Rows are created after
their round's acknowledgment, and both outlive the call. The refinement maps the whole
loop to one step: nothing `Delivery` sees moves until the loop has its conclusion.

*SubtaskBranch.* A row may only be left by a branch that has seen it settled, or by the
verdict of `fail`. The invariant ties each branch's place to what its attempt's call has
returned and to the row (`GoodStep` for one step of one Subtask), so a recorded `done`
is a settled row. Rows only move forward, which is `SettledOnce`. What clears a child is
a claim's deletion, a call whose row is settled (`Clear`), a canceled Task's pass
(`Passing`: no pass without a cancellation) or the delivery's sweep, so none of it but
the first meets a row that stays running and uncanceled, and that one `CheckpointKept`
names (`Owed`); and a run counts on from the checkpoint it resumed, unless a call of the
same child has overtaken it, a case `CheckpointKept` excludes.

*ChunkRun.* What is left to the current call never lets the run past `MaxTurns + 1`: the
invariant relates `run.turns + left` to the slot in use, and `late` to the slots that
can still complete a turn past the deadline. A failure is cached only where no slot of
the pair has failed of a transient fault, and the first slot starts with none on record.
A chunk recorded as a yield has advanced a turn, unless it was aborted, so the chunks so
far are at most the turns in the checkpoint. For the context (`Sound`), each of the
append, the window and the elision keeps a result behind its turn and the newest of a
tool whole. The window is cut at `LastTurns`, a CHOOSE; that there is such a turn
follows from the least number principle (`Least`, `LastOf`). `TypeCorrect` bounds the
context: the only message with neither turn nor result is the seed at its head
(`OneSeed`), every turn behind it has at most one result (`Narrow`), so `HistoryWindow`
turns make at most `2 * HistoryWindow + 1` messages, however many a run has made. In the
refinement (`RunRefinesChild`) a slot at work is the branch's call `in`; that a chunk
which yields has made a turn (`Chunks`) and that one may still be made (`Budget`) are
the guards the branch's moves ask for.

*TurnLadder.* `SpendHolds` rests on two cases. With turns left, the current attempt
fits into them (`Fits`), because a repair is only begun below the allowance; only
the first attempt of the fallback may get the floor of one step. With none left
(`Forced`) there is no repair at all, so each slot has one step: two turns.
`HonestlyEnds` adds what the Session may hold: every reply stored for the task says
something, and as long as the call is at work only the abandoned attempt can have
stored one (`Stored`); `AppendedIs` and `ReadBackIs` say what an append leaves there.

The view is defined without recursion, by places: `Rank` counts the members up to a
number, `Nth` is the number at a place, and `InOrder` reads a function along a set. That
places and members correspond one to one (`PlacesMap`, by the cardinality of the
members up to one) is what lets `RenderOnce` and `RenderQuotes` speak of a view of any
length. The invariant (`VInv`): a round has at most one acknowledgment in the Session
(`AcksOnce`), and the view is a rendering of some history with that property. The
quotes are taken from the catalog in the order of the indexes and the marks from the
messages; both are the citable turns in order.

For `LadderIsRound` the Session stands for RoundLoop's stored reply and its
acknowledgments. An append never changes what is stored under an id
(`ReplyIsKept`), so the reply, once there, stays; a call that has answered has spent a
turn (`Charged`), which is what RoundLoop charges. Turns past the ceiling are no turns
of RoundLoop, so `SpendHolds` is needed for each of the ladder's turns to be one.

`TypeCorrect` says of the Session, to which a call, the attempt given up on and other
tasks append, that each id is in it once. `Before` is what is known of the first
Session, with every earlier round's acknowledgment appended to it (`BeforeAcks`); after
that no append repeats an id (`AppendedIds`), whoever makes it.

*JobLifecycle.* `AlarmCovers` is inductive once `owed` is set with every cut. The
other three rest on `StampsInv`: the drain of the newest run, and only that one,
holds the stamp on disk, so a check of the stamp is a check of being the newest.
Since `Distinct` keeps the stamps of two runs apart, a start leaves every older
drain with a stamp that is not the newest run's, and one that is cut, by a death or by a
write that throws, leaves no drain newest (`StartDrains`).

*Endpoint.* The invariant follows a request through its checks: what each place of
`request` has shown (`Shown`, `Routed`), that a row recorded for a request is that
request's and lies in its object (`RowsInv`), and that the row a request goes on with
is there as long as it is at work (`StartInv`, which needs the guard of `Cleanup`).
For a message that may still be sent (`Live`) there is one task and the turn on
record carries it (`TurnsInv`). `IsolatesInv`: whoever runs in an isolate has told it
the origin, so what is signed names that one, and the key a turn brings is the one its
object is named by. `ScanInv`: each row a listing owes and has not shown is
listed, alone in its millisecond, and has at least as many rows before it as the offset
stands for (`Ahead`). So it has one place, the same in every order a page may take
(`PlaceOfRow`), and that place is still to come; a row that is added, joins or
is cleaned up leaves it there, and one that leaves the listing takes from `must` what it
would move past the offset.

*Deployment.* Turns in a slot are of the fingerprint it was written under
(`RunSlot`, `CacheSlot`); a call asks for what the row holds and goes on with its own
request only (`CallInv`); params refused in the child are refused by the build its
cache was written under (`FailedInv`). The lemma `Validated` says that a type takes again
what it has stripped to its own names. For the stores, the tables never lag the
record, and an object that serves has on record what it declares.

Each inductive invariant was also checked by TLC before it was proved.

Only model-checked: liveness (`AcceptedTurnEnds`, `RoundsEnd`, `RunEnds`, `JobSettles`,
`StartsEventually`, `SettlesAcrossDeploys`), which needs fairness and ENABLED, and
`CanceledLeavesNoChild`, whose invariant would have to follow each call, pass and child
through a whole cancellation. Every other invariant, action property and refinement that
a passing run checks is a theorem.

## Not modelled

* The schema and core's own migrations: data.
* Prompts and hints of a turn, the words of a failure, the metrics footer.
* Working notifications of the push channel: they change no state of the agent.
* Agent cards, key sets and signatures, parts and wire formats, the workspace of
  a Subtask, prompts: decided from one request, with no state to interleave.
* What a compaction of the Session writes: the external Session's. That it takes a
  prefix of the history is in `TurnLadder`; an id that was stored is assumed to stay
  readable. Search over history.
* The hooks plugins offer to a host's turns (`runtime/index.ts`): `shouldHandleTurn`,
  which nothing in `src/src` calls, and `onMessagesDisplaced`, which `host/agent.ts` (288)
  hands to the Session and a compaction calls. Both swallow the faults of a plugin and
  write no state of core.
* `runRecipeExecution`: a loop over chunks in memory that only tests use.
* Models and providers are the environment. The test harness.

Things the models assume and a reader may want to know. A host may configure
a Recipe with more turns than `MAX_CHUNKS_PER_BRANCH` (40): `platform.ts` says the
cap exceeds every Recipe's `maxTurns` and its spec checks the defaults, but
`resolveLimits` does not enforce it. `ChunksSuffice` therefore has the premise
`MaxTurns <= MaxChunks`. And `resolveConfig` accepts a `maxTurns` that is no integer;
the modules take it from `Nat`. A run that fails before its first turn was
checkpointed starts its clock again with each attempt; no document bounds the total.

The comments on a round's spend do not agree with each other or with the code.
`agent/budget.ts` (44-45): a round "may exceed its allowance by exactly one, and
never by more". `round/turn.ts` (325-327): a forced answer "Costs one turn, or two if
the primary model fails". A forced answer with nothing left costs up to two, so two
over; one begun with turns left, at the deadline, may also spend them on repairs.
`SpendHolds` is what holds: one over with turns left, two with none.

## Plan

Done, in this order: `TaskRow`, `TaskPromise`, `Delivery` and its proofs;
`SubtaskBranch` and its proofs; `RoundLoop`; `TurnView`, `TurnLadder` and their
proofs; `Edge`; `Conversation`, `ChunkRun` and their proofs; `WakeMap`,
`JobLifecycle` and their proofs; `Gateway`, `Endpoint`; `Plugins`, `Proposal`,
`Deployment`; the proofs of the last two; those of `RoundLoop` and `Edge`, and the
chunks and the context of a run.

The refinements of `TurnLadder` and `ChunkRun`, what a view shows and quotes, and what
becomes of a checkpoint followed, and with them the types
of `ChunkRun`, `TurnLadder` and `Deployment`. The last additions are the awaits inside the
handlers of `SubtaskBranch`, writes that throw in `ChunkRun` and `JobLifecycle`, the
filter of a listing, and `Edge` as an implementation of `TaskPromise`.

Left: `CanceledLeavesNoChild` as a theorem; the workspace of a Subtask under overlapping
chunks, if its storage is moved out of the child.
