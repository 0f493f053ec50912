------------------------------ MODULE ChunkRun ------------------------------
(***************************************************************************)
(* One Subtask's run inside its managed child: runResumableChunk and       *)
(* summarizeBudget (subagent/run.ts) under executeChunk (subagent/         *)
(* index.ts), chunk by chunk, with the durable step that calls it.         *)
(*                                                                         *)
(* SubtaskBranch sees a run as turns, a yield, an end or a fault.  Here    *)
(* are the two model slots, the four boundaries of a chunk, the budget     *)
(* report, and the context that each turn leaves behind.                   *)
(***************************************************************************)
EXTENDS Conversation, AiErrors

CONSTANTS MaxTurns,         \* limits.maxTurns
          MaxWall,          \* limits.maxWallMs, in ticks
          HistoryWindow,    \* the Recipe's historyWindow
          ToolOutputWindow, \* config.toolOutputWindow
          MaxChunks,        \* MAX_CHUNKS_PER_BRANCH
          MaxAttempts,      \* attempts a durable step gets before it throws
          MaxFaults         \* crashes, lost answers and writes that fail, a bound

ASSUME RunAssumption ==
  /\ {MaxTurns, MaxWall, HistoryWindow, MaxChunks, MaxAttempts} \subseteq Nat \ {0}
  /\ {ToolOutputWindow, MaxFaults} \subseteq Nat

VARIABLES at,       \* where the run is
          run,      \* the state in memory: turns and messages
          saved,    \* the run_state row, or Nothing
          cache,    \* the execution_cache row
          out,      \* what the chunk returned
          from,     \* turns when the chunk began
          left,     \* turns left to this generateText call
          finish,   \* how its last step finished, "none" while it loops
          failures, \* what the slots of this pair have failed of
          age,      \* ticks since startedAtMs
          due,      \* whether the chunk has passed CHUNK_SOFT_MS or has
                    \* progress to publish
          aborted,  \* whether abortRun has interrupted it
          step,     \* the Workflow: chunk and lost attempts
          late,     \* work turns completed past the deadline (history)
          faults    \* such faults so far

memory == <<run, from, left, finish, failures, due, aborted>>
vars == <<at, run, saved, cache, out, from, left, finish, failures, age, due, aborted,
          step, late, faults>>

Slots == {"primary", "fallback", "report", "rereport"}
Working == at \in {"primary", "fallback"}
Inside == at \in Slots
Nothing == [turns |-> 0, messages |-> <<>>]

TypeOK ==
  /\ at \in Slots \cup {"idle", "returned", "thrown", "over"}
  /\ run.turns \in 0..(MaxTurns + 1) /\ saved.turns \in 0..(MaxTurns + 1)
  /\ \A m \in {run.messages, saved.messages} :
       Len(m) <= 2 * HistoryWindow + 1 /\ \A i \in DOMAIN m : m[i] \in Messages
  /\ cache \in {"none", "completed", "failed"}
  /\ out \in {"none", "yield", "completed", "failed", "canceled", "exhausted", "overrun"}
  /\ from \in 0..(MaxTurns + 1) /\ left \in 0..MaxTurns
  /\ finish \in {"none", "text", "nothing", "other"}
  /\ failures \subseteq ErrorKinds
  /\ age \in 0..MaxWall /\ {due, aborted} \subseteq BOOLEAN
  /\ step \in [chunk : 0..MaxChunks, tries : 0..(MaxAttempts - 1)]
  /\ late \in Nat /\ faults \in 0..MaxFaults

Init ==
  /\ at = "idle" /\ out = "none" /\ cache = "none"
  /\ run = Nothing /\ saved = Nothing /\ from = 0 /\ left = 0
  /\ finish = "none" /\ failures = {}
  /\ age = 0 /\ due = FALSE /\ aborted = FALSE
  /\ step = [chunk |-> 0, tries |-> 0] /\ late = 0 /\ faults = 0

-----------------------------------------------------------------------------
(* Budgets.                                                                *)

\* Regression: a predicate that sees only the turns.
SpentOnTurnsOnly(turns) == turns >= MaxTurns

BudgetSpent(turns) == turns >= MaxTurns \/ age = MaxWall

\* stepAllowance: a call that begins with nothing left still gets one step.
StepAllowance(turns) == IF turns < MaxTurns THEN MaxTurns - turns ELSE 1

-----------------------------------------------------------------------------
(* The chunk's ends.                                                       *)

\* The call is over, and what it held in memory with it.
Leave == /\ run' = Nothing /\ from' = 0 /\ left' = 0 /\ finish' = "none"
         /\ due' = FALSE

\* Nothing terminal: the final state is checkpointed, nothing is cached.
Yield == /\ at' = "returned" /\ out' = "yield" /\ saved' = run
         /\ Leave /\ UNCHANGED <<cache, failures>>

\* Regression: an end that only the parent is told of.
EndUncached(result, kinds) ==
  /\ at' = "returned" /\ out' = result /\ saved' = run
  /\ failures' = failures \cup kinds
  /\ Leave /\ UNCHANGED cache

\* Terminal, a slot having failed of `kinds` just now: checkpointed, then cached,
\* before the parent has it.
End(result, kinds) == /\ at' = "returned" /\ out' = result /\ saved' = run
                      /\ cache' = result
                      /\ failures' = failures \cup kinds
                      /\ Leave

\* A transient fault is thrown for the step to retry; what was checkpointed stays.
Throw == at' = "thrown" /\ Leave /\ UNCHANGED <<out, saved, cache, failures>>

\* The next call of a model, and what is known against the pair it belongs to.
GoTo(slot, kinds) ==
  /\ at' = slot /\ failures' = kinds /\ finish' = "none"
  /\ left' = StepAllowance(run.turns)
  /\ UNCHANGED <<run, from, due, out, saved, cache>>

-----------------------------------------------------------------------------
(* executeChunk and runResumableChunk.                                     *)

\* The first call of the run starts its clock; a later one finds it in the
\* checkpoint.
Resumed == IF saved = Nothing THEN [turns |-> 0, messages |-> <<Seed>>] ELSE saved

\* Begins the chunk, at the first slot or, with the budget spent, at the report.
Begin(spent) ==
  /\ run' = Resumed /\ from' = Resumed.turns
  /\ IF saved = Nothing THEN age' = 0 /\ late' = 0 ELSE UNCHANGED <<age, late>>
  /\ at' = IF spent THEN "report" ELSE "primary"
  /\ left' = StepAllowance(Resumed.turns)
  /\ finish' = "none" /\ failures' = {} /\ due' = FALSE /\ aborted' = FALSE
  /\ UNCHANGED <<out, saved, cache>>

\* Regression: a resumed run goes straight to work, with no look at the budget.
ExecuteUnchecked ==
  /\ at = "idle"
  /\ IF cache # "none"
       THEN /\ at' = "returned" /\ out' = cache
            /\ UNCHANGED <<saved, cache, age, late, memory>>
       ELSE Begin(FALSE)
  /\ UNCHANGED <<step, faults>>

\* A cached terminal result is replayed; anything else resumes the checkpoint.
ExecuteChunk ==
  /\ at = "idle"
  /\ IF cache # "none"
       THEN /\ at' = "returned" /\ out' = cache
            /\ UNCHANGED <<saved, cache, age, late, memory>>
       ELSE Begin(saved # Nothing /\ BudgetSpent(saved.turns))
  /\ UNCHANGED <<step, faults>>

\* onStepEnd: the turn is counted, the context windowed and then elided ...
Counted(response) ==
  /\ run' = [turns |-> run.turns + 1,
             messages |-> ElideToolOutputs(
                            WindowMessages(run.messages \o response, HistoryWindow),
                            ToolOutputWindow)]
  /\ late' = IF age = MaxWall THEN late + 1 ELSE late

\* ... and both checkpointed.
Advance(response) == Counted(response) /\ saved' = run' /\ left' = left - 1

Calling(tool, body) == <<Assistant, Result(tool, body)>>

\* A turn that called a tool, and perhaps emitted progress.  The loop goes on
\* unless one of the four boundaries is reached; then what counts is the reason
\* the provider gave, which need not be its tool calls.
ToolTurn ==
  /\ Working /\ finish = "none" /\ left > 0
  /\ \E tool \in Tools, body \in {"full", "kept"} : Advance(Calling(tool, body))
  /\ due' \in {due, TRUE}
  /\ finish' \in IF left' = 0 \/ age = MaxWall \/ due'
                   THEN {"other", "text", "nothing"} ELSE {"none"}
  /\ UNCHANGED <<at, cache, out, from, failures, age, aborted, step, faults>>

\* A turn that called none ends the loop: with text, with none that can be used
\* (empty, or cut at the output ceiling), or for a reason of the provider's.
LastTurn ==
  /\ Working /\ finish = "none" /\ left > 0
  /\ Advance(<<Assistant>>)
  /\ finish' \in {"text", "nothing", "other"}
  /\ UNCHANGED <<at, cache, out, from, failures, age, due, aborted, step, faults>>

\* The checkpoint's own write throws: the turn has counted in memory, the loop
\* makes no other, and the call can only fail.
TurnUnsaved ==
  /\ Working /\ finish = "none" /\ left > 0 /\ faults < MaxFaults
  /\ \/ Counted(<<Assistant>>)
     \/ \E tool \in Tools, body \in {"full", "kept"} : Counted(Calling(tool, body))
  /\ left' = 0 /\ due' \in {due, TRUE}
  /\ faults' = faults + 1
  /\ UNCHANGED <<at, saved, cache, out, from, finish, failures, age, aborted, step>>

\* What a slot's failure comes to, when `thrown` says which kinds are thrown of
\* those the two slots of a pair have failed of.
FailsBut(kind, thrown) ==
  CASE at \in {"primary", "report"} /\ kind \in Credentials -> End("failed", {kind})
    [] at = "primary" /\ kind \notin Credentials -> GoTo("fallback", {kind})
    [] at = "report" /\ kind \notin Credentials -> GoTo("rereport", {kind})
    [] at \in {"fallback", "rereport"} /\ thrown -> Throw
    [] OTHER -> End(IF at = "fallback" THEN "failed" ELSE "completed", {kind})

\* Regression: only the second slot's failure is asked whether to retry.
FailsAskingLast(kind) == FailsBut(kind, kind = "transient")

\* Regression: only the first's.
FailsAskingFirst(kind) == FailsBut(kind, "transient" \in failures)

\* Regression: a transient fault hands the chunk back instead of being thrown.
FailsYielding(kind) ==
  IF at \in {"fallback", "rereport"} /\ "transient" \in failures \cup {kind}
    THEN Yield ELSE FailsBut(kind, FALSE)

\* A slot fails.  A refused credential ends the run from the first; otherwise the
\* second is tried, with an allowance of its own.  When both have failed, a
\* transient fault of either is thrown, and only then is there a verdict: a
\* failed run, or the notice that stands in for a report.
Fails(kind) == FailsBut(kind, "transient" \in failures \cup {kind})

\* The slot's call returns or throws.  An abort is looked at first and yields.
Conclude ==
  /\ Inside
  /\ \/ aborted /\ Yield
     \/ /\ ~aborted /\ finish = "none"
        /\ \E kind \in ErrorKinds : Fails(kind)
     \/ ~aborted /\ finish = "nothing" /\ Fails("plain")
     \/ ~aborted /\ (finish = "text" \/ ~Working) /\ End("completed", {})
     \/ /\ ~aborted /\ finish = "other"
        /\ IF BudgetSpent(run.turns) THEN GoTo("report", {}) ELSE Yield
  /\ UNCHANGED <<age, aborted, step, late, faults>>

-----------------------------------------------------------------------------
(* Around it.                                                              *)

\* Time passes: towards the run's deadline, or past the chunk's soft limit.
Tick == /\ at # "over"
        /\ \/ age < MaxWall /\ age' = age + 1 /\ UNCHANGED due
           \/ Working /\ ~due /\ due' = TRUE /\ UNCHANGED age
        /\ UNCHANGED <<at, run, saved, cache, out, from, left, finish, failures,
                       aborted, step, late, faults>>

\* abortRun.
Abort == /\ Inside /\ ~aborted
         /\ aborted' = TRUE
         /\ UNCHANGED <<at, run, saved, cache, out, from, left, finish, failures, age,
                        due, step, late, faults>>

\* The isolate dies, or the parent's RPC breaks: memory is lost, rows stay.
Crash == /\ Inside /\ faults < MaxFaults
         /\ Throw
         /\ faults' = faults + 1
         /\ UNCHANGED <<age, aborted, step, late>>

\* The durable step: an answer is recorded, or it is lost like a throw and the
\* chunk is attempted again.  An aborted run's Task is canceled.
Over(verdict) == at' = "over" /\ out' = verdict /\ UNCHANGED step
Again == /\ at' = "idle" /\ out' = "none"
\* Regression: a step without a limit of attempts.
RetriedForever == Again /\ UNCHANGED step
Retried == IF step.tries + 1 < MaxAttempts
             THEN Again /\ step' = [step EXCEPT !.tries = @ + 1]
             ELSE Over("exhausted")
Recorded == CASE aborted -> Over("canceled")
              [] ~aborted /\ out = "yield" /\ step.chunk + 1 < MaxChunks ->
                   Again /\ step' = [chunk |-> step.chunk + 1, tries |-> 0]
              [] ~aborted /\ out = "yield" /\ step.chunk + 1 >= MaxChunks ->
                   Over("overrun")
              [] OTHER -> Over(out)
Answer == /\ \/ at = "returned" /\ (Recorded \/ (faults < MaxFaults /\ Retried))
             \/ at = "thrown" /\ Retried
          /\ faults' = IF at = "returned" /\ step'.tries > step.tries
                         THEN faults + 1 ELSE faults
          /\ UNCHANGED <<memory, saved, cache, age, late>>

Finished == at = "over" /\ UNCHANGED vars

Next == ExecuteChunk \/ ToolTurn \/ LastTurn \/ TurnUnsaved \/ Conclude \/ Tick \/ Abort \/ Crash
        \/ Answer \/ Finished

Spec == Init /\ [][Next]_vars

\* Models answer or fail, and the engine goes on.
FairSpec == Spec /\ WF_vars(ExecuteChunk \/ ToolTurn \/ LastTurn \/ Conclude \/ Answer)

-----------------------------------------------------------------------------
(* Properties.                                                             *)

\* The run spends at most one turn more than its budget, over all its chunks,
\* retries and slots (agent/budget.ts).
TurnsBounded == run.turns <= MaxTurns + 1 /\ saved.turns <= MaxTurns + 1

\* A turn budget no larger than the chunk ceiling never runs into it: a chunk that
\* yields has advanced a turn, however short progress events and the soft limit
\* cut it (platform.ts).
ChunksSuffice == MaxTurns <= MaxChunks => out # "overrun"

\* Past its deadline a run completes at most the turn that was in flight and one
\* of the second slot.
LateBounded == late <= 2

\* A run is not recorded as failed when either slot of its last pair has met a
\* transient fault, whichever met it: the retry resumes the run.
NoBogusFailure == cache = "failed" => "transient" \notin failures

\* In the context a chunk resumes from, no result is cut off from the turn that
\* asked for it, and the newest result of every tool is still whole: what a tool
\* calls "your latest view" can be seen.
LatestViewKept ==
  \A i \in DOMAIN saved.messages :
    IsResult(saved.messages, i) =>
      /\ i > 1 /\ saved.messages[i - 1] = Assistant
      /\ NewestOfItsTool(saved.messages, i) => saved.messages[i].body # "gone"

\* Every run ends.
RunEnds == <>(at = "over")

-----------------------------------------------------------------------------
(* What SubtaskBranch takes a run to be: one call of one child.            *)

Place == CASE Inside -> "inside" [] at = "idle" -> "calling"
           [] at = "over" -> "idle" [] OTHER -> at
Call == [at      |-> Place,
         out     |-> IF at = "returned" THEN out ELSE "none",
         turns   |-> IF Inside THEN run.turns ELSE 0,
         moved   |-> Inside /\ run.turns > from,
         aborted |-> Inside /\ aborted]
Child == [live |-> TRUE, turns |-> saved.turns, cache |-> cache,
          inflight |-> IF Inside THEN "c" ELSE "no one"]

SB == INSTANCE SubtaskBranch WITH
  Subtasks <- {"s"}, Unusable <- {}, Calls <- {"c"}, NoOne <- "no one",
  MaxTurns <- MaxTurns + 1,
  canceled <- FALSE,
  status   <- [s \in {"s"} |-> "running"],
  branch   <- [s \in {"s"} |-> [at |-> "exec", chunk |-> 0, tries |-> 0,
                                attempt |-> "c"]],
  call     <- [s \in {"s"} |-> [c \in {"c"} |-> Call]],
  child    <- [s \in {"s"} |-> Child],
  sweeper  <- [todo |-> {}, running |-> {}, lost |-> {}, at |-> "no one"],
  phase    <- "running",
  faults   <- 0

\* A turn, a yield only after a turn or an abort, an end cached before it is
\* answered, a fault; or the step's answer, or an abort.
BranchMoves ==
  \/ SB!StartRun("s", "c") \/ SB!Turn("s", "c") \/ SB!YieldChunk("s", "c")
  \/ SB!FinishRun("s", "c") \/ SB!Fault("s", "c")
  \/ at \in {"returned", "thrown"} \/ aborted' # aborted

\* Every move of the runner is one SubtaskBranch gives its child.
RunsAsBranch == [][BranchMoves]_(SB!vars)
=============================================================================
