----------------------------- MODULE ChunkProofs -----------------------------
(***************************************************************************)
(* Proofs about ChunkRun for any budget, deadline, window and number of    *)
(* chunks, attempts and crashes: the turn budget is overrun by at most one *)
(* turn, the deadline by at most two, no failure is cached over a slot's   *)
(* transient fault, the chunks suffice for the turns, the context keeps    *)
(* each tool's newest result, and a run makes the moves of a child in      *)
(* SubtaskBranch.                                                          *)
(***************************************************************************)
EXTENDS ChunkRun, FiniteSetTheorems, SequenceTheorems, WellFoundedInduction, TLAPS

\* The turns a run has used and, while a slot works, those it may still use:
\* only the second slot may begin with the whole budget gone.
Budget == /\ {run.turns, saved.turns, left} \subseteq Nat
          /\ run.turns <= MaxTurns + 1 /\ saved.turns <= MaxTurns + 1
          /\ at = "primary" => run.turns + left <= MaxTurns
          /\ at = "fallback" => run.turns + left <= MaxTurns + 1

\* A turn past the deadline ends its slot's loop; where there is a checkpoint, it
\* sends every later chunk straight to the report, and where there is none the
\* clock starts again.
Deadline == /\ late \in 0..2 /\ age \in 0..MaxWall
            /\ late > 0 => age = MaxWall
            /\ Inside => run # Nothing
            /\ at = "primary" => late = 0 \/ (late = 1 /\ (finish # "none" \/ left = 0))
            /\ at = "fallback" => late <= 1 \/ finish # "none" \/ left = 0

\* While a slot works there is no verdict, and the first slot has no fault behind
\* it.
Verdict == /\ Inside => cache = "none"
           /\ at \in {"primary", "report"} => failures = {}
           /\ NoBogusFailure

IInv == Budget /\ Deadline /\ Verdict

\* What a step leaves alone while no slot works.
LEMMA FreshIsSomething ==
  Resumed # Nothing /\ (saved = Nothing => Resumed.turns = 0)
                    /\ (saved # Nothing => Resumed = saved)
<1>1. <<Seed>> # <<>>
  OBVIOUS
<1> QED BY <1>1 DEF Resumed, Nothing

\* The allowance of a call.
LEMMA AllowanceBounds ==
  ASSUME RunAssumption, NEW turns \in Nat
  PROVE  /\ StepAllowance(turns) \in Nat
         /\ turns < MaxTurns => turns + StepAllowance(turns) = MaxTurns
         /\ turns = MaxTurns => turns + StepAllowance(turns) = MaxTurns + 1
BY DEF StepAllowance, RunAssumption

LEMMA InitGood == RunAssumption /\ Init => IInv
BY DEF RunAssumption, Init, IInv, Budget, Deadline, Verdict, Nothing, Inside, Slots,
       NoBogusFailure

-----------------------------------------------------------------------------
LEMMA ExecuteGood == ASSUME RunAssumption, IInv, ExecuteChunk PROVE IInv'
<1> USE DEF IInv, Inside, Slots
<1>1. CASE cache # "none"
  BY <1>1 DEF ExecuteChunk, Budget, Deadline, Verdict, NoBogusFailure, memory
<1>2. CASE cache = "none"
  <2> DEFINE spent == saved # Nothing /\ BudgetSpent(saved.turns)
  <2>1. Begin(spent) /\ UNCHANGED <<step, faults>>
    BY <1>2 DEF ExecuteChunk
  <2>2. /\ Resumed.turns \in Nat /\ Resumed.turns <= MaxTurns + 1
        /\ ~spent => Resumed.turns < MaxTurns
    BY FreshIsSomething DEF Budget, BudgetSpent, RunAssumption
  <2>3. /\ StepAllowance(Resumed.turns) \in Nat
        /\ ~spent => Resumed.turns + StepAllowance(Resumed.turns) = MaxTurns
    BY <2>2, AllowanceBounds
  <2>4. Budget'
    BY <2>1, <2>2, <2>3 DEF Begin, Budget
  <2>5. saved # Nothing /\ ~spent => late = 0
    BY DEF Deadline, BudgetSpent
  <2>6. Deadline'
    BY <2>1, <2>5, FreshIsSomething DEF Begin, Deadline, RunAssumption
  <2>7. Verdict'
    BY <1>2, <2>1 DEF Begin, Verdict, NoBogusFailure
  <2> QED BY <2>4, <2>6, <2>7
<1> QED BY <1>1, <1>2

LEMMA AdvanceGood ==
  ASSUME RunAssumption, IInv, Working, finish = "none", left > 0, NEW response,
         Advance(response), age = MaxWall => finish' # "none",
         UNCHANGED <<at, cache, failures, age>>
  PROVE  IInv'
<1> USE DEF IInv, Working, Inside, Slots
<1>1. /\ run'.turns = run.turns + 1 /\ saved' = run' /\ left' = left - 1
      /\ late' = IF age = MaxWall THEN late + 1 ELSE late
  BY DEF Advance, Counted
<1>2. Budget'
  BY <1>1 DEF Budget, RunAssumption
<1>3. run' # Nothing
  BY <1>1 DEF Budget, Nothing
<1>4. Deadline'
  BY <1>1, <1>3 DEF Deadline, RunAssumption
<1>5. Verdict'
  BY DEF Verdict, NoBogusFailure
<1> QED BY <1>2, <1>4, <1>5

\* A turn whose checkpoint fails is the last its call can make.
LEMMA UnsavedGood == ASSUME RunAssumption, IInv, TurnUnsaved PROVE IInv'
<1> USE DEF IInv, Working, Inside, Slots
<1>1. /\ run'.turns = run.turns + 1 /\ left' = 0
      /\ late' = IF age = MaxWall THEN late + 1 ELSE late
      /\ Working /\ finish = "none" /\ left > 0
      /\ UNCHANGED <<at, saved, cache, finish, failures, age>>
  BY DEF TurnUnsaved, Counted
<1>2. Budget'
  BY <1>1 DEF Budget, RunAssumption
<1>3. run' # Nothing
  BY <1>1 DEF Budget, Nothing
<1>4. Deadline'
  BY <1>1, <1>3 DEF Deadline, RunAssumption
<1>5. Verdict'
  BY <1>1 DEF Verdict, NoBogusFailure
<1> QED BY <1>2, <1>4, <1>5

LEMMA TurnGood ==
  ASSUME RunAssumption, IInv, ToolTurn \/ LastTurn \/ TurnUnsaved PROVE IInv'
<1>1. CASE ToolTurn
  BY <1>1, AdvanceGood DEF ToolTurn
<1>2. CASE LastTurn
  BY <1>2, AdvanceGood DEF LastTurn
<1> QED BY <1>1, <1>2, UnsavedGood

-----------------------------------------------------------------------------
LEMMA YieldGood ==
  ASSUME RunAssumption, IInv, Inside, Yield, UNCHANGED <<age, late>>
  PROVE  IInv'
BY DEF IInv, Inside, Slots, Budget, Deadline, Verdict, Yield, Leave, Nothing,
       NoBogusFailure

LEMMA EndGood ==
  ASSUME RunAssumption, IInv, Inside, NEW result, NEW kinds, End(result, kinds),
         result = "failed" => "transient" \notin failures \cup kinds,
         UNCHANGED <<age, late>>
  PROVE  IInv'
BY DEF IInv, Inside, Slots, Budget, Deadline, Verdict, End, Leave, Nothing,
       NoBogusFailure

LEMMA ThrowGood ==
  ASSUME RunAssumption, IInv, Throw, UNCHANGED <<age, late>>
  PROVE  IInv'
BY DEF IInv, Inside, Slots, Budget, Deadline, Verdict, Throw, Leave, Nothing,
       NoBogusFailure

LEMMA GoToGood ==
  ASSUME RunAssumption, IInv, Inside, NEW slot \in {"fallback", "report", "rereport"},
         NEW kinds, GoTo(slot, kinds),
         slot = "fallback" => at = "primary",
         slot = "report" => kinds = {},
         UNCHANGED <<age, late>>
  PROVE  IInv'
<1> USE DEF IInv, Inside, Slots
<1>1. StepAllowance(run.turns) \in Nat
  BY AllowanceBounds DEF Budget
<1>2. slot = "fallback" => run.turns + StepAllowance(run.turns) <= MaxTurns + 1
  BY AllowanceBounds DEF Budget, RunAssumption
<1>3. Budget'
  BY <1>1, <1>2 DEF GoTo, Budget
<1>4. Deadline'
  BY DEF GoTo, Deadline
<1>5. Verdict'
  BY DEF GoTo, Verdict, NoBogusFailure
<1> QED BY <1>3, <1>4, <1>5

\* What a slot's failure comes to, case by case.
LEMMA FailureLeads ==
  ASSUME Inside, NEW kind, Fails(kind)
  PROVE  \/ at \in {"primary", "report"} /\ kind \in Credentials /\ End("failed", {kind})
         \/ at = "primary" /\ GoTo("fallback", {kind})
         \/ at = "report" /\ GoTo("rereport", {kind})
         \/ Throw
         \/ /\ "transient" \notin failures \cup {kind}
            /\ \E result \in {"completed", "failed"} : End(result, {kind})
<1> DEFINE thrown == "transient" \in failures \cup {kind}
<1>1. FailsBut(kind, thrown)
  BY DEF Fails
<1> HIDE DEF thrown
<1>2. CASE at \in {"primary", "report"} /\ kind \in Credentials
  BY <1>1, <1>2 DEF FailsBut
<1>3. CASE at = "primary" /\ kind \notin Credentials
  BY <1>1, <1>3 DEF FailsBut
<1>4. CASE at = "report" /\ kind \notin Credentials
  BY <1>1, <1>4 DEF FailsBut
<1>5. CASE at \in {"fallback", "rereport"} /\ thrown
  BY <1>1, <1>5 DEF FailsBut
<1>6. CASE at \in {"fallback", "rereport"} /\ ~thrown
  <2>1. CASE at = "fallback"
    BY <1>1, <1>6, <2>1 DEF FailsBut, thrown
  <2>2. CASE at = "rereport"
    BY <1>1, <1>6, <2>2 DEF FailsBut, thrown
  <2> QED BY <1>6, <2>1, <2>2
<1> QED BY <1>2, <1>3, <1>4, <1>5, <1>6 DEF Inside, Slots

LEMMA FailsGood ==
  ASSUME RunAssumption, IInv, Inside, NEW kind,
         Fails(kind), UNCHANGED <<age, late>>
  PROVE  IInv'
<1>1. "transient" \notin Credentials
  <2>1. \A e \in Errors : NonRecoverableKind(e) # "transient"
    BY DEF NonRecoverableKind
  <2> QED BY <2>1 DEF Credentials
<1>2. CASE at \in {"primary", "report"} /\ kind \in Credentials /\ End("failed", {kind})
  BY <1>1, <1>2, EndGood DEF IInv, Verdict
<1>3. CASE at = "primary" /\ GoTo("fallback", {kind})
  BY <1>3, GoToGood
<1>4. CASE at = "report" /\ GoTo("rereport", {kind})
  BY <1>4, GoToGood
<1>5. CASE Throw
  BY <1>5, ThrowGood
<1>6. CASE /\ "transient" \notin failures \cup {kind}
           /\ \E result \in {"completed", "failed"} : End(result, {kind})
  BY <1>6, EndGood
<1> QED BY <1>2, <1>3, <1>4, <1>5, <1>6, FailureLeads

LEMMA ConcludeGood == ASSUME RunAssumption, IInv, Conclude PROVE IInv'
<1>1. Inside /\ UNCHANGED <<age, late>>
  BY DEF Conclude
<1>2. CASE Yield
  BY <1>1, <1>2, YieldGood
<1>3. CASE \E kind : Fails(kind)
  BY <1>1, <1>3, FailsGood
<1>4. CASE End("completed", {})
  BY <1>1, <1>4, EndGood
<1>5. CASE GoTo("report", {})
  BY <1>1, <1>5, GoToGood
<1> QED BY <1>2, <1>3, <1>4, <1>5 DEF Conclude

-----------------------------------------------------------------------------
LEMMA OutsideGood ==
  ASSUME RunAssumption, IInv, Tick \/ Abort \/ Crash \/ Answer \/ UNCHANGED vars
  PROVE  IInv'
<1> USE DEF IInv, Inside, Slots, Budget, Deadline, Verdict, NoBogusFailure
<1>1. CASE Tick
  BY <1>1 DEF Tick, RunAssumption
<1>2. CASE Abort
  BY <1>2 DEF Abort
<1>3. CASE Crash
  BY <1>3, ThrowGood DEF Crash
<1>4. CASE Answer
  <2>1. at' \in {"idle", "over"}
    BY <1>4 DEF Answer, Recorded, Retried, Again, Over
  <2> QED BY <1>4, <2>1 DEF Answer, memory
<1>5. CASE UNCHANGED vars
  BY <1>5 DEF vars
<1> QED BY <1>1, <1>2, <1>3, <1>4, <1>5

\* The invariant: the budget with what is still allowed, the deadline with what it
\* leaves behind, and no verdict while a slot works.
THEOREM Invariance == Spec => []IInv
<1>1. Init => IInv
  BY InitGood, RunAssumption
<1>2. IInv /\ [Next]_vars => IInv'
  BY ExecuteGood, TurnGood, ConcludeGood, OutsideGood, RunAssumption
  DEF Next, Finished
<1> QED BY <1>1, <1>2, PTL DEF Spec

\* A run never spends more than one turn over its budget, whatever was retried,
\* lost or handed to the second slot.
THEOREM BudgetHolds == Spec => []TurnsBounded
<1>1. IInv => TurnsBounded
  BY DEF IInv, Budget, TurnsBounded
<1> QED BY <1>1, Invariance, PTL

\* At most two turns complete past a run's deadline.
THEOREM DeadlineHolds == Spec => []LateBounded
<1>1. IInv => LateBounded
  BY DEF IInv, Deadline, LateBounded
<1> QED BY <1>1, Invariance, PTL

\* A Subtask's recorded failure has no transient fault behind it, in either slot of
\* the pair that it ended with.
THEOREM FailuresAreReal == Spec => []NoBogusFailure
<1>1. IInv => NoBogusFailure
  BY DEF IInv, Verdict
<1> QED BY <1>1, Invariance, PTL

-----------------------------------------------------------------------------
(* Chunks.                                                                 *)

\* Every chunk that was recorded as a yield has advanced a turn, and so has the one
\* at work once its loop has ended.
Chunks ==
  /\ step \in [chunk : Nat, tries : Nat] /\ from \in Nat /\ cache \in {"none", "completed", "failed"}
  /\ saved.turns >= step.chunk
  /\ Inside => run.turns >= from /\ from >= step.chunk
  /\ Inside /\ finish # "none" => run.turns > from
  /\ at = "returned" /\ out = "yield" /\ ~aborted => saved.turns > step.chunk /\ saved.turns < MaxTurns
  /\ ChunksSuffice

ChunksInv == Budget /\ Chunks

LEMMA ChunkBegins == ASSUME RunAssumption, IInv, ChunksInv, ExecuteChunk PROVE Chunks'
<1>1. CASE cache # "none"
  BY <1>1 DEF ExecuteChunk, ChunksInv, Chunks, ChunksSuffice, memory, Inside, Slots
<1>2. CASE cache = "none"
  <2>1. /\ run' = Resumed /\ from' = Resumed.turns /\ finish' = "none"
        /\ UNCHANGED <<out, saved, cache, step>> /\ at' \in {"report", "primary"}
    BY <1>2 DEF ExecuteChunk, Begin
  <2>2. Resumed.turns = saved.turns /\ saved.turns \in Nat
    BY FreshIsSomething DEF ChunksInv, Budget, Nothing
  <2> QED BY <2>1, <2>2 DEF ChunksInv, Chunks, ChunksSuffice
<1> QED BY <1>1, <1>2

LEMMA TurnCounts == ASSUME RunAssumption, ChunksInv, ToolTurn \/ LastTurn PROVE Chunks'
<1>1. /\ Inside /\ UNCHANGED <<at, out, from, step, cache>> /\ saved'.turns = run.turns + 1
      /\ run'.turns = run.turns + 1 /\ run.turns \in Nat /\ from \in Nat /\ step.chunk \in Nat
  <2>1. /\ Working /\ UNCHANGED <<at, out, from, step, cache>>
        /\ \E response : Advance(response)
    BY DEF ToolTurn, LastTurn
  <2>2. run'.turns = run.turns + 1 /\ saved' = run'
    BY <2>1 DEF Advance, Counted
  <2>3. run.turns \in Nat /\ from \in Nat /\ step.chunk \in Nat
    BY DEF ChunksInv, Budget, Chunks
  <2> QED BY <2>1, <2>2, <2>3 DEF Working, Inside, Slots
<1> QED BY <1>1 DEF ChunksInv, Chunks, ChunksSuffice, Inside, Slots

LEMMA UnsavedCounts == ASSUME RunAssumption, ChunksInv, TurnUnsaved PROVE Chunks'
<1>1. /\ Inside /\ UNCHANGED <<at, saved, cache, out, from, finish, step>>
      /\ run'.turns = run.turns + 1 /\ run.turns \in Nat /\ from \in Nat /\ step.chunk \in Nat
  BY DEF TurnUnsaved, Counted, Working, Inside, Slots, ChunksInv, Budget, Chunks
<1> QED BY <1>1 DEF TurnUnsaved, ChunksInv, Chunks, ChunksSuffice, Inside, Slots

\* A call that leaves with what it has counted.
LEMMA CallLeaves ==
  ASSUME RunAssumption, ChunksInv, Inside, UNCHANGED <<step, aborted>>,
         \/ Yield /\ (aborted \/ (run.turns > from /\ run.turns < MaxTurns))
         \/ \E result \in {"completed", "failed"} : \E kinds : End(result, kinds)
         \/ Throw
  PROVE  Chunks'
<1>1. run.turns \in Nat /\ from \in Nat /\ step.chunk \in Nat /\ run.turns >= step.chunk
  BY DEF ChunksInv, Budget, Chunks
<1> QED BY <1>1 DEF ChunksInv, Chunks, ChunksSuffice, Inside, Slots, Yield, End, Throw, Leave

LEMMA SlotChanges ==
  ASSUME RunAssumption, ChunksInv, Inside, NEW slot \in Slots, NEW kinds, GoTo(slot, kinds), UNCHANGED <<step, aborted>>
  PROVE  Chunks'
BY DEF ChunksInv, Chunks, ChunksSuffice, Inside, Slots, GoTo

LEMMA ChunkConcludes == ASSUME RunAssumption, IInv, ChunksInv, Conclude PROVE Chunks'
<1>1. Inside /\ UNCHANGED <<step, aborted>>
  BY DEF Conclude
<1>2. CASE aborted /\ Yield
  BY <1>1, <1>2, CallLeaves
<1>3. ASSUME NEW kind, Fails(kind) PROVE Chunks'
  <2>1. \/ \E result \in {"completed", "failed"} : End(result, {kind})
        \/ \E slot \in Slots : GoTo(slot, {kind})
        \/ Throw
    BY <1>1, <1>3, FailureLeads DEF Slots
  <2> QED BY <1>1, <2>1, CallLeaves, SlotChanges
<1>4. CASE End("completed", {})
  BY <1>1, <1>4, CallLeaves
<1>5. CASE finish = "other" /\ IF BudgetSpent(run.turns) THEN GoTo("report", {}) ELSE Yield
  <2>1. CASE BudgetSpent(run.turns)
    BY <1>1, <1>5, <2>1, SlotChanges DEF Slots
  <2>2. CASE ~BudgetSpent(run.turns)
    <3>1. Yield /\ run.turns > from /\ run.turns < MaxTurns
      BY <1>1, <1>5, <2>2, RunAssumption DEF BudgetSpent, ChunksInv, Chunks, Budget, RunAssumption
    <3> QED BY <1>1, <3>1, CallLeaves
  <2> QED BY <2>1, <2>2
<1> QED BY <1>2, <1>3, <1>4, <1>5 DEF Conclude

LEMMA ChunkIsRecorded == ASSUME RunAssumption, ChunksInv, Answer PROVE Chunks'
<1> USE DEF ChunksInv, Chunks, ChunksSuffice, Inside, Slots, RunAssumption
<1>1. UNCHANGED <<saved, cache, from, run, finish, aborted>> /\ at \in {"returned", "thrown"}
  BY DEF Answer, memory
<1>2. saved.turns \in Nat
  BY DEF Budget
<1>3. CASE Retried
  BY <1>1, <1>3 DEF Retried, Again, Over
<1>4. CASE at = "returned" /\ Recorded
  <2>1. CASE aborted
    BY <1>1, <1>4, <2>1 DEF Recorded, Over
  <2>2. CASE ~aborted /\ out = "yield" /\ step.chunk + 1 < MaxChunks
    <3>1. at' = "idle" /\ out' = "none" /\ step'.chunk = step.chunk + 1
      BY <1>4, <2>2 DEF Recorded, Again
    <3>2. step' \in [chunk : Nat, tries : Nat]
      BY <1>4, <2>2 DEF Recorded, Again
    <3> QED BY <1>1, <1>2, <1>4, <2>2, <3>1, <3>2
  <2>3. CASE ~aborted /\ out = "yield" /\ ~(step.chunk + 1 < MaxChunks)
    <3>1. at' = "over" /\ step' = step
      BY <1>4, <2>3 DEF Recorded, Over
    <3>2. ~(MaxTurns <= MaxChunks)
      BY <1>2, <1>4, <2>3
    <3> QED BY <1>1, <3>1, <3>2
  <2>4. CASE ~aborted /\ out # "yield"
    BY <1>1, <1>4, <2>4 DEF Recorded, Over
  <2> QED BY <2>1, <2>2, <2>3, <2>4
<1> QED BY <1>3, <1>4 DEF Answer

LEMMA ChunksStep == ASSUME RunAssumption, IInv, ChunksInv, [Next]_vars PROVE Chunks'
<1>1. CASE Tick \/ Abort \/ UNCHANGED vars
  BY <1>1 DEF Tick, Abort, vars, ChunksInv, Chunks, ChunksSuffice, Inside, Slots
<1>2. CASE Crash
  BY <1>2, CallLeaves DEF Crash
<1> QED BY <1>1, <1>2, ChunkBegins, TurnCounts, UnsavedCounts, ChunkConcludes, ChunkIsRecorded DEF Next, Finished

LEMMA ChunksHold == Spec => [](IInv /\ Chunks)
<1>1. Init => Chunks
  BY DEF Init, Chunks, ChunksSuffice, Nothing, Inside, Slots
<1>2. IInv /\ IInv' /\ Chunks /\ [Next]_vars => Chunks'
  BY ChunksStep, RunAssumption DEF ChunksInv, IInv
<1> QED BY <1>1, <1>2, Invariance, PTL DEF Spec

\* A run whose turns are no more than its chunks never runs out of chunks.
THEOREM ChunksAreEnough == Spec => []ChunksSuffice
<1>1. Chunks => ChunksSuffice
  BY DEF Chunks
<1> QED BY <1>1, ChunksHold, PTL

-----------------------------------------------------------------------------
(* Elision, of conversations of any length.                                *)

\* The fields of a tool's message.
LEMMA ResultShape ==
  ASSUME NEW x \in Messages
  PROVE  /\ x.role = "tool" => /\ x = Result(x.tool, x.body)
                               /\ x.tool \in Tools /\ x.body \in Bodies
         /\ x.role # "tool" => x \in {Seed, Assistant}
BY DEF Messages, Results, Result, Seed, Assistant

\* What elision does to one message.
LEMMA ElidesOne ==
  ASSUME NEW m \in Seq(Messages), NEW keep \in Nat, NEW i \in DOMAIN m
  PROVE  LET e == ElideToolOutputs(m, keep)[i] IN
         /\ e \in Messages
         /\ e = Assistant <=> m[i] = Assistant
         /\ e.role = m[i].role
         /\ e.role = "tool" => e.tool = m[i].tool
         /\ e = m[i] \/ e.body = "gone"
<1>1. m[i] \in Messages
  OBVIOUS
<1>2. CASE IsResult(m, i)
  <2>1. /\ m[i] = Result(m[i].tool, m[i].body)
        /\ m[i].tool \in Tools
    BY <1>1, <1>2, ResultShape DEF IsResult
  <2>2. [m[i] EXCEPT !.body = "gone"] = Result(m[i].tool, "gone")
    BY <2>1 DEF Result
  <2>3. Result(m[i].tool, "gone") \in Messages
    BY <2>1 DEF Messages, Results, Bodies
  <2> QED BY <1>1, <1>2, <2>1, <2>2, <2>3
        DEF ElideToolOutputs, Result, IsResult, Assistant
<1>3. CASE ~IsResult(m, i)
  BY <1>1, <1>3 DEF ElideToolOutputs
<1> QED BY <1>2, <1>3

\* Elision leaves every message where it is: a conversation of the same length,
\* the same turns, the same results of the same tools.
LEMMA ElisionKeepsShape ==
  ASSUME NEW m \in Seq(Messages), NEW keep \in Nat
  PROVE  LET e == ElideToolOutputs(m, keep) IN
         /\ e \in Seq(Messages) /\ DOMAIN e = DOMAIN m /\ Len(e) = Len(m)
         /\ Turns(e) = Turns(m) /\ Cutoff(e, keep) = Cutoff(m, keep)
         /\ \A i \in DOMAIN m : IsResult(e, i) = IsResult(m, i)
         /\ \A i \in DOMAIN m : IsResult(m, i) =>
              (NewestOfItsTool(e, i) <=> NewestOfItsTool(m, i))
<1> DEFINE e == ElideToolOutputs(m, keep)
<1>1. DOMAIN e = DOMAIN m /\ DOMAIN m = 1..Len(m) /\ Len(m) \in Nat
  BY DEF ElideToolOutputs
<1>2. \A i \in DOMAIN m : /\ e[i] \in Messages
                          /\ e[i] = Assistant <=> m[i] = Assistant
                          /\ e[i].role = m[i].role
                          /\ e[i].role = "tool" => e[i].tool = m[i].tool
  BY ElidesOne
<1>3. e = [i \in 1..Len(m) |-> e[i]]
  BY <1>1 DEF ElideToolOutputs
<1> HIDE DEF e
<1>4. e \in Seq(Messages) /\ Len(e) = Len(m)
  BY <1>1, <1>2, <1>3
<1>5. Turns(e) = Turns(m)
  BY <1>1, <1>2 DEF Turns
<1>6. Cutoff(e, keep) = Cutoff(m, keep)
  BY <1>4, <1>5 DEF Cutoff, LastTurns
<1>7. \A i \in DOMAIN m : IsResult(e, i) = IsResult(m, i)
  BY <1>2 DEF IsResult
<1>8. \A i \in DOMAIN m : IsResult(m, i) =>
        (NewestOfItsTool(e, i) <=> NewestOfItsTool(m, i))
  BY <1>1, <1>2, <1>7 DEF NewestOfItsTool, IsResult
<1> QED BY <1>1, <1>4, <1>5, <1>6, <1>7, <1>8 DEF e

\* Eliding again changes nothing ("Idempotent", subagent/run.ts), so a context
\* restored from a checkpoint is the context that was saved.
THEOREM ElisionIdempotent ==
  \A m \in Seq(Messages), keep \in Nat :
    ElideToolOutputs(ElideToolOutputs(m, keep), keep) = ElideToolOutputs(m, keep)
<1> SUFFICES ASSUME NEW m \in Seq(Messages), NEW keep \in Nat
             PROVE  ElideToolOutputs(ElideToolOutputs(m, keep), keep)
                      = ElideToolOutputs(m, keep)
  OBVIOUS
<1> DEFINE e == ElideToolOutputs(m, keep)
<1>1. /\ DOMAIN e = DOMAIN m /\ Cutoff(e, keep) = Cutoff(m, keep)
      /\ \A i \in DOMAIN m : IsResult(e, i) = IsResult(m, i)
      /\ \A i \in DOMAIN m : IsResult(m, i) =>
           (NewestOfItsTool(e, i) <=> NewestOfItsTool(m, i))
  BY ElisionKeepsShape
<1>2. \A i \in DOMAIN m :
        /\ IsResult(m, i) /\ i < Cutoff(m, keep) /\ ~NewestOfItsTool(m, i)
        => e[i].body # "full"
  <2> SUFFICES ASSUME NEW i \in DOMAIN m, IsResult(m, i), i < Cutoff(m, keep),
                      ~NewestOfItsTool(m, i)
               PROVE  e[i].body # "full"
    OBVIOUS
  <2>1. CASE m[i].body # "full"
    BY <2>1 DEF ElideToolOutputs
  <2>2. CASE m[i].body = "full"
    <3>1. m[i] = Result(m[i].tool, m[i].body)
      BY ResultShape DEF IsResult
    <3>2. e[i] = [m[i] EXCEPT !.body = "gone"]
      BY <2>2 DEF ElideToolOutputs
    <3> QED BY <3>1, <3>2 DEF Result
  <2> QED BY <2>1, <2>2
<1>3. ElideToolOutputs(e, keep) = [i \in DOMAIN m |-> e[i]]
  <2> HIDE DEF e
  <2> QED BY <1>1, <1>2 DEF ElideToolOutputs
<1>4. e = [i \in DOMAIN m |-> e[i]]
  BY DEF ElideToolOutputs
<1> QED BY <1>3, <1>4

\* A tool's newest result is never touched, at any age.
THEOREM NewestSurvives ==
  \A m \in Seq(Messages), keep \in Nat : \A i \in DOMAIN m :
    NewestOfItsTool(m, i) => ElideToolOutputs(m, keep)[i] = m[i]
BY DEF ElideToolOutputs

-----------------------------------------------------------------------------
(* The window.                                                             *)

\* The least number principle, for sets.
LEMMA Least ==
  ASSUME NEW T \in SUBSET Nat, T # {}
  PROVE  \E x \in T : \A y \in T : x <= y
<1> DEFINE R == {p \in Nat \X Nat : p[1] < p[2]}
<1>1. IsWellFoundedOn(R, Nat)
  BY NatLessThanWellFounded DEF OpToRel
<1> HIDE DEF R
<1>2. PICK x \in T : \A y \in T : ~(<<y, x>> \in R)
  BY <1>1, WFMin
<1>3. \A y \in T : ~(y < x)
  BY <1>2 DEF R
<1> QED BY <1>3

\* Of more than n numbers there is one from which on there are n.
LEMMA LastOf ==
  ASSUME NEW T \in SUBSET Nat, IsFiniteSet(T), NEW n \in Nat \ {0}, Cardinality(T) >= n
  PROVE  \E i \in T : Cardinality({j \in T : j >= i}) = n
<1> DEFINE From(i) == {j \in T : j >= i}
           Sizes == {k \in Nat : k >= n /\ \E i \in T : Cardinality(From(i)) = k}
<1>1. \A S \in SUBSET T : IsFiniteSet(S) /\ Cardinality(S) \in Nat
  BY FS_Subset, FS_CardinalityType
<1>2. T # {}
  BY FS_EmptySet
<1>3. PICK first \in T : \A j \in T : first <= j
  BY <1>2, Least
<1>4. From(first) = T
  BY <1>3
<1>5. Cardinality(T) \in Sizes
  BY <1>1, <1>4
<1>6. PICK k \in Sizes : \A other \in Sizes : k <= other
  <2>1. Sizes \in SUBSET Nat /\ Sizes # {}
    BY <1>5
  <2> HIDE DEF Sizes
  <2> QED BY <2>1, Least
<1>7. PICK i \in T : Cardinality(From(i)) = k
  BY <1>6
<1>8. k = n
  <2> SUFFICES ASSUME k > n PROVE FALSE
    BY <1>6
  <2> DEFINE rest == From(i) \ {i}
  <2>1. i \in From(i) /\ From(i) \in SUBSET T /\ i \in Nat
    BY <1>7
  <2>2. IsFiniteSet(rest) /\ Cardinality(rest) = k - 1
    BY <1>1, <1>7, <2>1, FS_RemoveElement
  <2>3. rest # {} /\ rest \in SUBSET Nat
    <3>1. k - 1 # 0
      BY <1>6
    <3> QED BY <2>2, <3>1, FS_EmptySet
  <2>4. PICK next \in rest : \A j \in rest : next <= j
    <3> HIDE DEF rest
    <3> QED BY <2>3, Least
  <2>5. From(next) = rest
    <3>1. next \in T /\ next > i /\ \A j \in T : j > i => next <= j
      BY <2>1, <2>4
    <3>2. \A j \in T : j >= next <=> j > i
      BY <2>1, <3>1
    <3>3. \A j \in T : j > i <=> j \in rest
      BY <2>1
    <3> QED BY <3>2, <3>3
  <2>6. k - 1 \in Sizes
    <3>1. k - 1 \in Nat /\ k - 1 >= n
      BY <1>6
    <3>2. next \in T
      BY <2>1, <2>4
    <3>3. Cardinality(From(next)) = k - 1
      BY <2>2, <2>5
    <3> HIDE DEF From
    <3> QED BY <3>1, <3>2, <3>3
  <2> QED BY <1>6, <2>6
<1> QED BY <1>7, <1>8

\* The last turns of a conversation with more turns begin with one.
LEMMA LastTurnsBegin ==
  ASSUME NEW m \in Seq(Messages), NEW window \in Nat \ {0}, ~(Cardinality(Turns(m)) <= window)
  PROVE  /\ LastTurns(m, window) \in Turns(m)
         /\ Cardinality({j \in Turns(m) : j >= LastTurns(m, window)}) = window
<1>1. Turns(m) \in SUBSET (1..Len(m)) /\ Len(m) \in Nat
  BY DEF Turns
<1>2. IsFiniteSet(Turns(m)) /\ Turns(m) \in SUBSET Nat
  <2>1. IsFiniteSet(1..Len(m))
    BY <1>1, FS_Interval
  <2> QED BY <1>1, <2>1, FS_Subset
<1>3. Cardinality(Turns(m)) \in Nat
  BY <1>2, FS_CardinalityType
<1>4. \E i \in Turns(m) : Cardinality({j \in Turns(m) : j >= i}) = window
  <2>1. Cardinality(Turns(m)) >= window
    BY <1>3
  <2> DEFINE T == Turns(m)
  <2>2. T \in SUBSET Nat /\ IsFiniteSet(T) /\ Cardinality(T) >= window
    BY <1>2, <2>1
  <2> HIDE DEF T
  <2>3. \E i \in T : Cardinality({j \in T : j >= i}) = window
    BY <2>2, LastOf
  <2> QED BY <2>3 DEF T
<1> QED BY <1>4 DEF LastTurns

-----------------------------------------------------------------------------
(* The context.                                                            *)

\* A conversation whose results follow their calls and whose newest results are whole.
Follows(m, i) == i > 1 /\ m[i - 1] = Assistant
Whole(m, i) == NewestOfItsTool(m, i) => m[i].body # "gone"
Sound(m) == /\ m \in Seq(Messages) /\ Len(m) >= 1 /\ m[1] = Seed
            /\ \A i \in DOMAIN m : IsResult(m, i) => Follows(m, i) /\ Whole(m, i)

\* A turn is added at the end.
LEMMA AppendSound ==
  ASSUME NEW m, Sound(m), NEW response,
         \/ response = <<Assistant>>
         \/ \E tool \in Tools, body \in {"full", "kept"} : response = <<Assistant, Result(tool, body)>>
  PROVE  Sound(m \o response)
<1> DEFINE a == m \o response
<1>0. m \in Seq(Messages) /\ Len(m) \in Nat /\ Len(m) >= 1 /\ DOMAIN m = 1..Len(m) /\ m[1] = Seed
  BY LenProperties DEF Sound
<1>1. Assistant \in Messages /\ \A tool \in Tools, body \in {"full", "kept"} : Result(tool, body) \in Messages
  BY DEF Messages, Results, Bodies
<1>2. /\ response \in Seq(Messages) /\ Len(response) \in {1, 2} /\ response[1] = Assistant
      /\ Len(response) = 2 => response[2].role = "tool" /\ response[2].body # "gone"
  <2>1. CASE response = <<Assistant>>
    BY <1>1, <2>1
  <2>2. ASSUME NEW tool \in Tools, NEW body \in {"full", "kept"}, response = <<Assistant, Result(tool, body)>>
        PROVE  /\ response \in Seq(Messages) /\ Len(response) \in {1, 2} /\ response[1] = Assistant
               /\ Len(response) = 2 => response[2].role = "tool" /\ response[2].body # "gone"
    <3> DEFINE r == Result(tool, body)
    <3>1. r \in Messages /\ r.role = "tool" /\ r.body # "gone"
      BY <1>1 DEF Result
    <3> HIDE DEF r
    <3>2. /\ <<Assistant, r>> \in Seq(Messages) /\ Len(<<Assistant, r>>) = 2
          /\ <<Assistant, r>>[1] = Assistant /\ <<Assistant, r>>[2] = r
      BY <1>1, <3>1
    <3>3. response = <<Assistant, r>>
      BY <2>2 DEF r
    <3> HIDE DEF Assistant
    <3> QED BY <3>1, <3>2, <3>3
  <2> QED BY <2>1, <2>2
<1>3. /\ a \in Seq(Messages) /\ Len(a) = Len(m) + Len(response)
      /\ \A i \in 1..Len(a) : a[i] = IF i <= Len(m) THEN m[i] ELSE response[i - Len(m)]
  BY <1>0, <1>2, ConcatProperties
<1>4. DOMAIN a = 1..Len(a) /\ Len(a) \in Nat
  BY <1>3, LenProperties
<1> HIDE DEF a
<1>5. a[1] = Seed /\ Len(a) >= 1
  BY <1>0, <1>2, <1>3
<1>6. ASSUME NEW i \in DOMAIN a, IsResult(a, i) PROVE Follows(a, i) /\ Whole(a, i)
  <2>1. CASE i <= Len(m)
    <3>1. i \in DOMAIN m /\ a[i] = m[i] /\ IsResult(m, i)
      BY <1>0, <1>3, <1>4, <1>6, <2>1 DEF IsResult
    <3>2. Follows(m, i) /\ Whole(m, i)
      BY <3>1 DEF Sound
    <3>3. Follows(a, i)
      BY <1>0, <1>3, <1>4, <2>1, <3>2 DEF Follows
    <3>4. NewestOfItsTool(a, i) => NewestOfItsTool(m, i)
      <4>1. \A j \in DOMAIN m : j \in DOMAIN a /\ a[j] = m[j]
        BY <1>0, <1>2, <1>3, <1>4
      <4> QED BY <3>1, <4>1 DEF NewestOfItsTool, IsResult
    <3> QED BY <3>1, <3>2, <3>3, <3>4 DEF Whole
  <2>2. CASE i = Len(m) + 1
    <3>1. a[i] = Assistant
      BY <1>0, <1>2, <1>3, <1>4, <2>2
    <3> QED BY <1>6, <3>1 DEF IsResult, Assistant
  <2>3. CASE i = Len(m) + 2 /\ Len(response) = 2
    <3>1. a[i] = response[2] /\ a[i - 1] = response[1] /\ i > 1
      BY <1>0, <1>3, <1>4, <2>3
    <3> QED BY <1>2, <2>3, <3>1 DEF Follows, Whole
  <2> QED BY <1>0, <1>2, <1>3, <1>4, <2>1, <2>2, <2>3
<1> QED BY <1>3, <1>4, <1>5, <1>6 DEF Sound, a

\* A window that cuts: the seed, and the messages from a turn on.
LEMMA WindowIs ==
  ASSUME NEW m, Sound(m), NEW window \in Nat \ {0}, ~(Cardinality(Turns(m)) <= window)
  PROVE  LET first == LastTurns(m, window)
             w == WindowMessages(m, window)
         IN  /\ first \in 1..Len(m) /\ m[first] = Assistant
             /\ w \in Seq(Messages) /\ Len(w) = Len(m) - first + 2 /\ w[1] = Seed
             /\ \A i \in 2..Len(w) : first + i - 2 \in DOMAIN m /\ w[i] = m[first + i - 2]
<1> DEFINE first == LastTurns(m, window)
           tail == SubSeq(m, first, Len(m))
           w == <<m[1]>> \o tail
<1>1. m \in Seq(Messages) /\ Len(m) \in Nat /\ Len(m) >= 1 /\ DOMAIN m = 1..Len(m) /\ m[1] = Seed
  BY LenProperties DEF Sound
<1>2. first \in 1..Len(m) /\ m[first] = Assistant
  BY <1>1, LastTurnsBegin DEF Turns
<1>3. WindowMessages(m, window) = w
  BY DEF WindowMessages
<1> HIDE DEF first
<1>4. /\ tail \in Seq(Messages) /\ Len(tail) = Len(m) - first + 1
      /\ \A i \in 1..(Len(m) - first + 1) : tail[i] = m[first + i - 1]
  <2>1. \A i \in first..Len(m) : m[i] \in Messages
    BY <1>1, <1>2
  <2> QED BY <1>1, <1>2, <2>1, SubSeqProperties
<1> HIDE DEF tail
<1>5. <<m[1]>> \in Seq(Messages) /\ Len(<<m[1]>>) = 1 /\ <<m[1]>>[1] = m[1]
  BY <1>1
<1>6. /\ w \in Seq(Messages) /\ Len(w) = Len(m) - first + 2
      /\ \A i \in 1..Len(w) : w[i] = IF i <= 1 THEN <<m[1]>>[i] ELSE tail[i - 1]
  <2>1. /\ w \in Seq(Messages) /\ Len(w) = 1 + Len(tail)
        /\ \A i \in 1..(1 + Len(tail)) : w[i] = IF i <= 1 THEN <<m[1]>>[i] ELSE tail[i - 1]
    BY <1>4, <1>5, ConcatProperties
  <2> QED BY <1>1, <1>2, <1>4, <2>1
<1> HIDE DEF w
<1>7. w[1] = Seed
  BY <1>1, <1>2, <1>5, <1>6
<1>8. ASSUME NEW i \in 2..Len(w)
      PROVE  first + i - 2 \in DOMAIN m /\ w[i] = m[first + i - 2]
  <2>1. i - 1 \in 1..(Len(m) - first + 1) /\ i \in 1..Len(w) /\ ~(i <= 1)
    BY <1>1, <1>2, <1>6
  <2>2. w[i] = tail[i - 1]
    BY <1>6, <2>1
  <2>3. tail[i - 1] = m[first + (i - 1) - 1]
    BY <1>4, <2>1
  <2>4. first + (i - 1) - 1 = first + i - 2 /\ first + i - 2 \in 1..Len(m)
    BY <1>1, <1>2, <2>1
  <2> QED BY <1>1, <2>2, <2>3, <2>4
<1> QED BY <1>2, <1>3, <1>6, <1>7, <1>8 DEF first

\* The window cuts where a turn begins.
LEMMA WindowSound ==
  ASSUME NEW m, Sound(m), NEW window \in Nat \ {0}
  PROVE  Sound(WindowMessages(m, window))
<1>1. CASE Cardinality(Turns(m)) <= window
  BY <1>1 DEF WindowMessages
<1>2. CASE ~(Cardinality(Turns(m)) <= window)
  <2> DEFINE first == LastTurns(m, window)
             w == WindowMessages(m, window)
  <2>1. m \in Seq(Messages) /\ Len(m) \in Nat /\ Len(m) >= 1 /\ DOMAIN m = 1..Len(m) /\ m[1] = Seed
    BY LenProperties DEF Sound
  <2>2. /\ first \in 1..Len(m) /\ m[first] = Assistant
        /\ w \in Seq(Messages) /\ Len(w) = Len(m) - first + 2 /\ w[1] = Seed
        /\ \A i \in 2..Len(w) : first + i - 2 \in DOMAIN m /\ w[i] = m[first + i - 2]
    BY <1>2, WindowIs
  <2> HIDE DEF first, w
  <2>3. DOMAIN w = 1..Len(w) /\ Len(w) \in Nat /\ Len(w) >= 1
    BY <2>1, <2>2, LenProperties
  <2>4. ASSUME NEW i \in DOMAIN w, IsResult(w, i) PROVE Follows(w, i) /\ Whole(w, i)
    <3> DEFINE at0 == first + i - 2
    <3>1. i # 1
      BY <2>2, <2>4 DEF IsResult, Seed
    <3>2. at0 \in DOMAIN m /\ w[i] = m[at0] /\ i \in 2..Len(w) /\ IsResult(m, at0)
      BY <2>2, <2>3, <2>4, <3>1 DEF IsResult
    <3>3. at0 # first
      <4>1. m[at0].role = "tool" /\ m[first].role = "assistant"
        BY <2>2, <3>2 DEF IsResult, Assistant
      <4> HIDE DEF at0
      <4> QED BY <4>1
    <3>4. i \in 3..Len(w) /\ w[i - 1] = m[at0 - 1]
      <4>1. i # 2
        BY <2>2, <3>3
      <4>2. first \in Nat /\ i \in 2..Len(w) /\ Len(w) \in Nat
        BY <2>1, <2>2, <2>3, <3>2
      <4>3. i \in 3..Len(w) /\ i - 1 \in 2..Len(w)
        BY <4>1, <4>2
      <4>4. first + (i - 1) - 2 = at0 - 1
        BY <4>2
      <4>5. w[i - 1] = m[first + (i - 1) - 2]
        BY <2>2, <4>3
      <4> QED BY <4>3, <4>4, <4>5
    <3>5. Follows(m, at0) /\ Whole(m, at0)
      BY <3>2 DEF Sound
    <3>6. NewestOfItsTool(w, i) => NewestOfItsTool(m, at0)
      <4> SUFFICES ASSUME NewestOfItsTool(w, i), NEW j \in DOMAIN m, IsResult(m, j), j > at0
                   PROVE  m[j].tool # m[at0].tool
        BY DEF NewestOfItsTool
      <4>1. j - first + 2 \in 2..Len(w) /\ first + (j - first + 2) - 2 = j /\ j - first + 2 > i
        BY <2>1, <2>2, <2>3, <3>2
      <4>2. w[j - first + 2] = m[j]
        BY <2>2, <4>1
      <4> QED BY <2>3, <3>2, <4>1, <4>2 DEF NewestOfItsTool, IsResult
    <3> QED BY <3>2, <3>4, <3>5, <3>6 DEF Follows, Whole
  <2> QED BY <2>2, <2>3, <2>4 DEF Sound, w
<1> QED BY <1>1, <1>2

\* Elision leaves what is newest, and every message where it is.
LEMMA ElideSound ==
  ASSUME NEW m, Sound(m), NEW keep \in Nat
  PROVE  Sound(ElideToolOutputs(m, keep))
<1> DEFINE e == ElideToolOutputs(m, keep)
<1>0. m \in Seq(Messages) /\ Len(m) >= 1 /\ m[1] = Seed /\ 1 \in DOMAIN m /\ DOMAIN m = 1..Len(m) /\ Len(m) \in Nat
  BY LenProperties DEF Sound
<1>1. /\ e \in Seq(Messages) /\ DOMAIN e = DOMAIN m /\ Len(e) = Len(m)
      /\ \A i \in DOMAIN m : IsResult(e, i) = IsResult(m, i)
      /\ \A i \in DOMAIN m : IsResult(m, i) => (NewestOfItsTool(e, i) <=> NewestOfItsTool(m, i))
  BY <1>0, ElisionKeepsShape
<1>2. \A i \in DOMAIN m : e[i] = Assistant <=> m[i] = Assistant
  BY <1>0, ElidesOne
<1>3. \A i \in DOMAIN m : NewestOfItsTool(m, i) => e[i] = m[i]
  BY <1>0, NewestSurvives
<1>4. e[1] = Seed
  BY <1>0 DEF ElideToolOutputs, IsResult, Seed
<1> HIDE DEF e
<1>5. ASSUME NEW i \in DOMAIN e, IsResult(e, i) PROVE Follows(e, i) /\ Whole(e, i)
  <2>1. i \in DOMAIN m /\ IsResult(m, i) /\ Follows(m, i) /\ Whole(m, i)
    BY <1>1, <1>5 DEF Sound
  <2>2. i - 1 \in DOMAIN m
    BY <1>0, <2>1 DEF Follows
  <2> QED BY <1>1, <1>2, <1>3, <2>1, <2>2 DEF Follows, Whole
<1> QED BY <1>0, <1>1, <1>4, <1>5 DEF Sound, e

\* What a run holds, in memory and in its checkpoint.
Context == /\ saved # Nothing => Sound(saved.messages)
           /\ Inside => Sound(run.messages)

LEMMA SeedSound == Sound(<<Seed>>)
<1>1. <<Seed>> \in Seq(Messages) /\ Len(<<Seed>>) = 1 /\ <<Seed>>[1] = Seed /\ DOMAIN <<Seed>> = {1}
  BY DEF Messages
<1> QED BY <1>1 DEF Sound, IsResult, Seed

LEMMA ContextStep == ASSUME RunAssumption, IInv, Context, [Next]_vars PROVE Context'
<1>1. CASE ExecuteChunk
  <2>1. CASE cache # "none"
    BY <1>1, <2>1 DEF ExecuteChunk, Context, memory, Inside, Slots
  <2>2. CASE cache = "none"
    <3>1. run' = Resumed /\ saved' = saved
      BY <1>1, <2>2 DEF ExecuteChunk, Begin
    <3>2. Sound(Resumed.messages)
      BY SeedSound DEF Resumed, Context
    <3> QED BY <3>1, <3>2 DEF Context
  <2> QED BY <2>1, <2>2
<1>2. CASE ToolTurn \/ LastTurn
  <2>1. Inside
    BY <1>2 DEF ToolTurn, LastTurn, Working, Inside, Slots
  <2>2. PICK response : /\ Advance(response)
                        /\ \/ response = <<Assistant>>
                           \/ \E tool \in Tools, body \in {"full", "kept"} :
                                response = <<Assistant, Result(tool, body)>>
    BY <1>2 DEF ToolTurn, LastTurn, Calling
  <2>3. HistoryWindow \in Nat \ {0} /\ ToolOutputWindow \in Nat
    BY DEF RunAssumption
  <2>4. Sound(ElideToolOutputs(WindowMessages(run.messages \o response, HistoryWindow), ToolOutputWindow))
    BY <2>1, <2>2, <2>3, AppendSound, WindowSound, ElideSound DEF Context
  <2>5. Sound(run'.messages) /\ saved' = run'
    BY <2>2, <2>4 DEF Advance, Counted
  <2> QED BY <2>5 DEF Context
<1>3. CASE Conclude
  <2>1. Inside /\ (Yield \/ Throw \/ (\E result, kinds : End(result, kinds))
                   \/ \E slot, kinds : GoTo(slot, kinds))
    BY <1>3, FailureLeads DEF Conclude
  <2>2. run' = run \/ at' \notin Slots
    <3>1. CASE Yield \/ Throw \/ \E result, kinds : End(result, kinds)
      BY <3>1 DEF Yield, Throw, End, Slots
    <3>2. CASE \E slot, kinds : GoTo(slot, kinds)
      BY <3>2 DEF GoTo
    <3> QED BY <2>1, <3>1, <3>2
  <2>3. saved' = saved \/ saved' = run
    BY <2>1 DEF Yield, Throw, End, GoTo
  <2> QED BY <2>1, <2>2, <2>3 DEF Context, Inside
<1>4. CASE Tick \/ Abort \/ UNCHANGED vars
  BY <1>4 DEF Tick, Abort, vars, Context, Inside
<1>5. CASE Crash \/ Answer
  BY <1>5 DEF Crash, Throw, Answer, Recorded, Retried, Again, Over, memory, Context, Inside, Slots
<1>6. CASE TurnUnsaved
  <2>1. Inside
    BY <1>6 DEF TurnUnsaved, Working, Inside, Slots
  <2>2. PICK response : /\ Counted(response)
                        /\ \/ response = <<Assistant>>
                           \/ \E tool \in Tools, body \in {"full", "kept"} :
                                response = <<Assistant, Result(tool, body)>>
    BY <1>6 DEF TurnUnsaved, Calling
  <2>3. HistoryWindow \in Nat \ {0} /\ ToolOutputWindow \in Nat
    BY DEF RunAssumption
  <2>4. Sound(ElideToolOutputs(WindowMessages(run.messages \o response, HistoryWindow), ToolOutputWindow))
    BY <2>1, <2>2, <2>3, AppendSound, WindowSound, ElideSound DEF Context
  <2>5. Sound(run'.messages)
    BY <2>2, <2>4 DEF Counted
  <2>6. saved' = saved
    BY <1>6 DEF TurnUnsaved
  <2> QED BY <2>5, <2>6 DEF Context
<1> QED BY <1>1, <1>2, <1>3, <1>4, <1>5, <1>6 DEF Next, Finished

\* In the context that a chunk resumes from every result follows its call, and a
\* tool's newest result is whole.
THEOREM LatestViewIsKept == Spec => []LatestViewKept
<1>1. Init => Context
  BY DEF Init, Context, Inside, Slots
<1>2. IInv /\ Context /\ [Next]_vars => Context'
  BY ContextStep, RunAssumption
<1>3. Context => LatestViewKept
  <2> SUFFICES ASSUME Context PROVE LatestViewKept
    OBVIOUS
  <2>1. CASE saved = Nothing
    BY <2>1 DEF Nothing, LatestViewKept
  <2>2. CASE saved # Nothing
    BY <2>2 DEF Context, Sound, Follows, Whole, LatestViewKept
  <2> QED BY <2>1, <2>2
<1> QED BY <1>1, <1>2, <1>3, Invariance, PTL DEF Spec

-----------------------------------------------------------------------------
(* Types, and the length of the context.                                   *)

\* A conversation with one seed and no more turns than the window.
OneSeed(m) == \A i \in DOMAIN m : m[i] = Seed => i = 1
Narrow(m) == Sound(m) /\ OneSeed(m) /\ Cardinality(Turns(m)) <= HistoryWindow

LEMMA TurnsAre ==
  ASSUME NEW m \in Seq(Messages)
  PROVE  /\ Turns(m) \subseteq 1..Len(m) /\ IsFiniteSet(Turns(m))
         /\ Cardinality(Turns(m)) \in Nat
<1>1. Turns(m) \in SUBSET (1..Len(m)) /\ Len(m) \in Nat
  BY DEF Turns
<1>2. IsFiniteSet(1..Len(m))
  BY <1>1, FS_Interval
<1>3. IsFiniteSet(Turns(m))
  BY <1>1, <1>2, FS_Subset
<1> QED BY <1>1, <1>3, FS_CardinalityType

\* Behind the seed there are turns, and at most one result behind each.
LEMMA LengthIs ==
  ASSUME NEW m, Sound(m), OneSeed(m), NEW n \in Nat, Cardinality(Turns(m)) <= n
  PROVE  Len(m) <= 2 * n + 1
<1> DEFINE T == Turns(m)
           R == {i \in DOMAIN m : IsResult(m, i)}
           before == [i \in R |-> i - 1]
<1>1. m \in Seq(Messages) /\ Len(m) \in Nat /\ DOMAIN m = 1..Len(m)
  BY LenProperties DEF Sound
<1>2. T \subseteq 1..Len(m) /\ IsFiniteSet(T) /\ Cardinality(T) \in Nat
  BY <1>1, TurnsAre
<1>3. before \in Injection(R, T)
  <2>1. \A i \in R : i \in Int /\ i - 1 \in T
    BY <1>1 DEF Sound, Follows, Turns
  <2>2. before \in [R -> T] /\ \A i \in R : before[i] = i - 1
    BY <2>1
  <2>3. \A i, j \in R : before[i] = before[j] => i = j
    BY <2>1, <2>2
  <2> HIDE DEF before, R, T
  <2> QED BY <2>2, <2>3 DEF Injection, IsInjective
<1>4. IsFiniteSet(R) /\ Cardinality(R) <= Cardinality(T) /\ Cardinality(R) \in Nat
  BY <1>2, <1>3, FS_Injection, FS_CardinalityType
<1>5. \A i \in DOMAIN m : i = 1 \/ i \in T \/ i \in R
  <2> TAKE i \in DOMAIN m
  <2>1. m[i] \in Messages
    BY <1>1
  <2>2. m[i].role = "tool" \/ m[i] \in {Seed, Assistant}
    BY <2>1, ResultShape
  <2> QED BY <2>2 DEF OneSeed, Turns, IsResult
<1>6. 1..Len(m) \subseteq (T \cup R) \cup {1}
  BY <1>1, <1>5
<1> HIDE DEF T, R
<1>7. /\ IsFiniteSet(T \cup R) /\ Cardinality(T \cup R) \in Nat
      /\ Cardinality(T \cup R) <= Cardinality(T) + Cardinality(R)
  <2>1. /\ IsFiniteSet(T \cup R)
        /\ Cardinality(T \cup R) = Cardinality(T) + Cardinality(R) - Cardinality(T \cap R)
    BY <1>2, <1>4, FS_Union
  <2>2. IsFiniteSet(T \cap R)
    BY <1>2, FS_Intersection
  <2>3. Cardinality(T \cap R) \in Nat /\ Cardinality(T \cup R) \in Nat
    BY <2>1, <2>2, FS_CardinalityType
  <2> QED BY <1>2, <1>4, <2>1, <2>3
<1>8. /\ IsFiniteSet((T \cup R) \cup {1})
      /\ Cardinality((T \cup R) \cup {1}) <= Cardinality(T) + Cardinality(R) + 1
  <2> DEFINE B == T \cup R
  <2>1. IsFiniteSet(B)
    BY <1>7
  <2> HIDE DEF B
  <2>2. /\ IsFiniteSet(B \cup {1})
        /\ \/ Cardinality(B \cup {1}) = Cardinality(B)
           \/ Cardinality(B \cup {1}) = Cardinality(B) + 1
    BY <2>1, FS_AddElement
  <2>3. Cardinality(B) \in Nat /\ Cardinality(B) <= Cardinality(T) + Cardinality(R)
    BY <1>7 DEF B
  <2>4. Cardinality(B \cup {1}) <= Cardinality(T) + Cardinality(R) + 1
    BY <1>2, <1>4, <2>2, <2>3
  <2> QED BY <2>2, <2>4 DEF B
<1>9. Cardinality(1..Len(m)) <= Cardinality((T \cup R) \cup {1})
  BY <1>6, <1>8, FS_Subset
<1>10. Cardinality(1..Len(m)) = Len(m)
  <2>1. ASSUME NEW k \in Nat PROVE Cardinality(1..k) = k
    <3>1. 1 \in Int /\ k \in Int
      OBVIOUS
    <3>2. Cardinality(1..k) = IF 1 > k THEN 0 ELSE k - 1 + 1
      BY <3>1, FS_Interval, Zenon
    <3> QED BY <3>2
  <2> QED BY <1>1, <2>1
<1>11. Cardinality((T \cup R) \cup {1}) \in Nat
  BY <1>8, FS_CardinalityType
<1> QED BY <1>1, <1>2, <1>4, <1>8, <1>9, <1>10, <1>11 DEF T

LEMMA AppendSeeds ==
  ASSUME NEW m, Sound(m), OneSeed(m), NEW response,
         \/ response = <<Assistant>>
         \/ \E tool \in Tools, body \in {"full", "kept"} : response = <<Assistant, Result(tool, body)>>
  PROVE  OneSeed(m \o response)
<1>1. m \in Seq(Messages) /\ Len(m) \in Nat /\ DOMAIN m = 1..Len(m)
  BY LenProperties DEF Sound
<1>2. /\ response \in Seq({x \in Messages : x # Seed})
  <2>1. /\ Assistant \in {x \in Messages : x # Seed}
        /\ \A tool \in Tools, body \in {"full", "kept"} :
             Result(tool, body) \in {x \in Messages : x # Seed}
    <3>1. Assistant.role = "assistant" /\ Seed.role = "user"
      BY DEF Assistant, Seed
    <3>2. \A tool \in Tools, body \in {"full", "kept"} : Result(tool, body).role = "tool"
      BY DEF Result
    <3> QED BY <3>1, <3>2 DEF Messages, Results, Bodies
  <2>2. CASE response = <<Assistant>>
    BY <2>1, <2>2
  <2>3. ASSUME NEW tool \in Tools, NEW body \in {"full", "kept"},
               response = <<Assistant, Result(tool, body)>>
        PROVE  response \in Seq({x \in Messages : x # Seed})
    BY <2>1, <2>3
  <2> QED BY <2>2, <2>3
<1>3. /\ Len(response) \in Nat
      /\ \A i \in 1..Len(response) : response[i] # Seed
  BY <1>2
<1>4. /\ DOMAIN (m \o response) = 1..(Len(m) + Len(response))
      /\ \A i \in 1..(Len(m) + Len(response)) :
           (m \o response)[i] = IF i <= Len(m) THEN m[i] ELSE response[i - Len(m)]
  BY <1>1, <1>2
<1> SUFFICES ASSUME NEW i \in DOMAIN (m \o response), (m \o response)[i] = Seed
             PROVE  i = 1
  BY DEF OneSeed
<1>5. CASE i <= Len(m)
  BY <1>1, <1>4, <1>5 DEF OneSeed
<1>6. CASE ~(i <= Len(m))
  <2>1. i - Len(m) \in 1..Len(response) /\ response[i - Len(m)] = Seed
    BY <1>1, <1>3, <1>4, <1>6
  <2> QED BY <1>3, <2>1
<1> QED BY <1>5, <1>6

\* What the window keeps is no more than its turns.
LEMMA WindowNarrow ==
  ASSUME NEW m, Sound(m), OneSeed(m), NEW window \in Nat \ {0}
  PROVE  /\ OneSeed(WindowMessages(m, window))
         /\ Cardinality(Turns(WindowMessages(m, window))) <= window
<1>1. CASE Cardinality(Turns(m)) <= window
  BY <1>1 DEF WindowMessages
<1>2. CASE ~(Cardinality(Turns(m)) <= window)
  <2> DEFINE first == LastTurns(m, window)
             w == WindowMessages(m, window)
             L == {j \in Turns(m) : j >= first}
             f == [j \in L |-> j - first + 2]
  <2>1. m \in Seq(Messages) /\ Len(m) \in Nat /\ DOMAIN m = 1..Len(m) /\ Len(m) >= 1
    BY LenProperties DEF Sound
  <2>2. /\ first \in 1..Len(m) /\ m[first] = Assistant
        /\ w \in Seq(Messages) /\ Len(w) = Len(m) - first + 2 /\ w[1] = Seed
        /\ \A i \in 2..Len(w) : first + i - 2 \in DOMAIN m /\ w[i] = m[first + i - 2]
    BY <1>2, WindowIs
  <2>3. Cardinality(L) = window /\ IsFiniteSet(L)
    <3>1. IsFiniteSet(Turns(m))
      BY <2>1, TurnsAre
    <3>2. IsFiniteSet(L)
      BY <3>1, FS_Subset
    <3> QED BY <1>2, <2>1, <3>2, LastTurnsBegin
  <2> HIDE DEF first, w
  <2>4. DOMAIN w = 1..Len(w) /\ Len(w) \in Nat
    BY <2>2, LenProperties
  <2>5. OneSeed(w)
    <3> SUFFICES ASSUME NEW i \in DOMAIN w, w[i] = Seed, i # 1 PROVE FALSE
      BY DEF OneSeed
    <3>1. i \in 2..Len(w)
      BY <2>4
    <3>2. first + i - 2 \in DOMAIN m /\ m[first + i - 2] = Seed
      BY <2>2, <3>1
    <3>3. first + i - 2 = 1
      BY <3>2 DEF OneSeed
    <3>4. first = 1
      BY <2>1, <2>2, <3>1, <3>3
    <3>5. m[first] = Seed
      BY <3>2, <3>3, <3>4
    <3>6. Seed.role = "user" /\ Assistant.role = "assistant"
      BY DEF Seed, Assistant
    <3> QED BY <2>2, <3>5, <3>6
  <2>6. \A j \in L : f[j] \in Turns(w)
    <3> TAKE j \in L
    <3>1. j \in 1..Len(m) /\ m[j] = Assistant /\ j >= first
      BY <2>1 DEF Turns
    <3>2. /\ j - first + 2 \in 2..Len(w) /\ j - first + 2 \in 1..Len(w)
          /\ first + (j - first + 2) - 2 = j
      BY <2>1, <2>2, <3>1
    <3>3. w[j - first + 2] = m[first + (j - first + 2) - 2]
      BY <2>2, <3>2
    <3> QED BY <2>4, <3>1, <3>2, <3>3 DEF Turns
  <2>7. \A i \in Turns(w) : \E j \in L : f[j] = i
    <3> TAKE i \in Turns(w)
    <3>1. i \in 1..Len(w) /\ w[i] = Assistant
      BY <2>4 DEF Turns
    <3>2. i # 1
      BY <2>2, <3>1 DEF Seed, Assistant
    <3>3. i \in 2..Len(w)
      BY <2>4, <3>1, <3>2
    <3>4. first + i - 2 \in DOMAIN m /\ m[first + i - 2] = Assistant
      BY <2>2, <3>1, <3>3
    <3>5. first + i - 2 \in L /\ (first + i - 2) - first + 2 = i
      BY <2>1, <2>2, <2>4, <3>3, <3>4 DEF Turns
    <3> QED BY <3>5
  <2>8. f \in Surjection(L, Turns(w))
    <3> HIDE DEF L
    <3>1. f \in [L -> Turns(w)]
      BY <2>6
    <3> HIDE DEF f
    <3> QED BY <2>7, <3>1 DEF Surjection
  <2>9. Cardinality(Turns(w)) <= window
    <3> HIDE DEF f, L
    <3> QED BY <2>3, <2>8, FS_Surjection
  <2> QED BY <2>5, <2>9 DEF w
<1> QED BY <1>1, <1>2

LEMMA ElideNarrow ==
  ASSUME NEW m, Sound(m), OneSeed(m), NEW keep \in Nat
  PROVE  /\ OneSeed(ElideToolOutputs(m, keep))
         /\ Turns(ElideToolOutputs(m, keep)) = Turns(m)
<1>1. m \in Seq(Messages)
  BY DEF Sound
<1>2. /\ DOMAIN ElideToolOutputs(m, keep) = DOMAIN m
      /\ Turns(ElideToolOutputs(m, keep)) = Turns(m)
  BY <1>1, ElisionKeepsShape
<1>3. ASSUME NEW i \in DOMAIN m, ElideToolOutputs(m, keep)[i] = Seed PROVE m[i] = Seed
  <2>1. m[i].role = Seed.role /\ Seed.role # "tool"
    BY <1>1, <1>3, ElidesOne DEF Seed
  <2> QED BY <1>3, <2>1 DEF ElideToolOutputs, IsResult
<1> QED BY <1>2, <1>3 DEF OneSeed

\* Whatever a state in memory or in a checkpoint holds is narrow.
Bounded(state) == state # Nothing => Narrow(state.messages)
Scalars ==
  /\ at \in Slots \cup {"idle", "returned", "thrown", "over"}
  /\ cache \in {"none", "completed", "failed"}
  /\ out \in {"none", "yield", "completed", "failed", "canceled", "exhausted", "overrun"}
  /\ from \in 0..(MaxTurns + 1) /\ left \in 0..MaxTurns
  /\ finish \in {"none", "text", "nothing", "other"}
  /\ failures \subseteq ErrorKinds
  /\ {due, aborted} \subseteq BOOLEAN
  /\ step \in [chunk : 0..MaxChunks, tries : 0..(MaxAttempts - 1)]
  /\ faults \in 0..MaxFaults
Types == Scalars /\ Bounded(run) /\ Bounded(saved)

LEMMA SeedNarrow == RunAssumption => Narrow(<<Seed>>)
<1>1. <<Seed>> \in Seq(Messages) /\ DOMAIN <<Seed>> = {1} /\ <<Seed>>[1] = Seed
  BY DEF Messages
<1>2. Seed # Assistant
  BY DEF Seed, Assistant
<1>3. Turns(<<Seed>>) = {}
  BY <1>1, <1>2 DEF Turns
<1> QED BY <1>1, <1>3, SeedSound, FS_EmptySet DEF Narrow, OneSeed, RunAssumption

\* A turn's context, windowed and elided, is narrow again.
LEMMA AdvanceNarrow ==
  ASSUME RunAssumption, NEW m, Narrow(m), NEW response,
         \/ response = <<Assistant>>
         \/ \E tool \in Tools, body \in {"full", "kept"} : response = <<Assistant, Result(tool, body)>>
  PROVE  Narrow(ElideToolOutputs(WindowMessages(m \o response, HistoryWindow), ToolOutputWindow))
<1> DEFINE a == m \o response
           w == WindowMessages(a, HistoryWindow)
<1>1. HistoryWindow \in Nat \ {0} /\ ToolOutputWindow \in Nat
  BY DEF RunAssumption
<1>2. Sound(m) /\ OneSeed(m)
  BY DEF Narrow
<1>3. Sound(a) /\ OneSeed(a)
  BY <1>2, AppendSound, AppendSeeds
<1> HIDE DEF a
<1>4. Sound(w) /\ OneSeed(w) /\ Cardinality(Turns(w)) <= HistoryWindow
  BY <1>1, <1>3, WindowSound, WindowNarrow
<1> HIDE DEF w
<1>5. Narrow(ElideToolOutputs(w, ToolOutputWindow))
  BY <1>1, <1>4, ElideSound, ElideNarrow DEF Narrow
<1> QED BY <1>5 DEF w, a

\* An error of no special kind is one of the kinds.
LEMMA PlainIsAKind == "plain" \in ErrorKinds
<1> DEFINE error == [source |-> "none", class |-> "other", isRetryable |-> FALSE,
                     status |-> 0, hint |-> FALSE]
<1>1. error \in Errors
  BY DEF Errors, Statuses
<1>2. KindOf(error) = "plain"
  BY DEF KindOf, NonRecoverableKind, IsTransientAiError
<1> QED BY <1>1, <1>2 DEF ErrorKinds

LEMMA GoToTypes ==
  ASSUME RunAssumption, IInv, Types, NEW slot \in Slots, NEW kinds, kinds \subseteq ErrorKinds,
         GoTo(slot, kinds), UNCHANGED <<aborted, step, faults>>
  PROVE  Types'
<1>1. left' \in 0..MaxTurns
  BY DEF GoTo, StepAllowance, IInv, Budget, RunAssumption
<1> QED BY <1>1 DEF Types, Scalars, Bounded, GoTo

LEMMA LeaveTypes ==
  ASSUME RunAssumption, Types, Leave, UNCHANGED <<aborted, step>>, faults' \in 0..MaxFaults,
         at' \in {"returned", "thrown"}, saved' \in {saved, run},
         cache' \in {"none", "completed", "failed"}, failures' \subseteq ErrorKinds,
         out' \in {out, "yield", "completed", "failed"}
  PROVE  Types'
<1>1. Bounded(run') /\ Bounded(saved') /\ from' \in 0..(MaxTurns + 1) /\ left' \in 0..MaxTurns
  BY DEF Types, Bounded, Leave, RunAssumption
<1> QED BY <1>1 DEF Types, Scalars, Leave, Bounded

LEMMA ConcludeTypes == ASSUME RunAssumption, IInv, Types, Conclude PROVE Types'
<1> USE DEF Types, Scalars
<1>1. Inside /\ UNCHANGED <<aborted, step, faults>> /\ faults \in 0..MaxFaults
  BY DEF Conclude
<1>2. ASSUME NEW kinds, kinds \subseteq ErrorKinds,
             Yield \/ Throw \/ \E result \in {"completed", "failed"} : End(result, kinds)
      PROVE  Types'
  <2>1. /\ Leave /\ failures' \subseteq ErrorKinds /\ saved' \in {saved, run}
        /\ at' \in {"returned", "thrown"}
        /\ cache' \in {"none", "completed", "failed"}
        /\ out' \in {out, "yield", "completed", "failed"}
    BY <1>2 DEF Yield, Throw, End
  <2> QED BY <1>1, <2>1, LeaveTypes
<1>3. ASSUME NEW kinds, kinds \subseteq ErrorKinds, \E slot \in Slots : GoTo(slot, kinds)
      PROVE  Types'
  BY <1>1, <1>3, GoToTypes
<1>4. ASSUME NEW kind \in ErrorKinds, Fails(kind) PROVE Types'
  <2>1. {kind} \subseteq ErrorKinds
    OBVIOUS
  <2>2. \/ Throw \/ \E result \in {"completed", "failed"} : End(result, {kind})
        \/ \E slot \in Slots : GoTo(slot, {kind})
    BY <1>1, <1>4, FailureLeads DEF Slots
  <2> QED BY <1>2, <1>3, <2>1, <2>2
<1>5. CASE Yield \/ End("completed", {})
  <2>1. {} \subseteq ErrorKinds
    OBVIOUS
  <2> QED BY <1>2, <1>5, <2>1
<1>6. CASE GoTo("report", {})
  <2>1. {} \subseteq ErrorKinds /\ "report" \in Slots
    BY DEF Slots
  <2> QED BY <1>3, <1>6, <2>1
<1> QED BY <1>4, <1>5, <1>6, PlainIsAKind DEF Conclude

LEMMA AnswerTypes == ASSUME RunAssumption, Types, Answer PROVE Types'
<1> USE DEF Types, Scalars
<1>1. UNCHANGED <<memory, saved, cache, age, late>>
  BY DEF Answer
<1>2. step.chunk \in 0..MaxChunks /\ step.tries \in 0..(MaxAttempts - 1)
      /\ step = [chunk |-> step.chunk, tries |-> step.tries]
  OBVIOUS
<1>3. CASE Retried
  <2>1. step' \in [chunk : 0..MaxChunks, tries : 0..(MaxAttempts - 1)]
    <3>1. CASE step.tries + 1 < MaxAttempts
      <4>1. step' = [chunk |-> step.chunk, tries |-> step.tries + 1]
        BY <1>2, <1>3, <3>1 DEF Retried, Again
      <4>2. step.tries + 1 \in 0..(MaxAttempts - 1)
        BY <1>2, <3>1 DEF RunAssumption
      <4> QED BY <1>2, <4>1, <4>2
    <3>2. CASE ~(step.tries + 1 < MaxAttempts)
      BY <1>2, <1>3, <3>2 DEF Retried, Over
    <3> QED BY <3>1, <3>2
  <2>2. at' \in {"idle", "over"} /\ out' \in {"none", "exhausted"}
    BY <1>3 DEF Retried, Again, Over
  <2>3. faults' \in 0..MaxFaults
    <3>1. CASE at = "returned" /\ step'.tries > step.tries
      <4>1. faults < MaxFaults
        <5>1. CASE Recorded
          BY <1>2, <1>3, <3>1, <5>1 DEF Recorded, Again, Over
        <5> QED BY <3>1, <5>1 DEF Answer
      <4> QED BY <3>1, <4>1 DEF Answer, RunAssumption
    <3>2. CASE ~(at = "returned" /\ step'.tries > step.tries)
      BY <3>2 DEF Answer
    <3> QED BY <3>1, <3>2
  <2> QED BY <1>1, <2>1, <2>2, <2>3 DEF memory, Bounded
<1>4. CASE Recorded /\ at = "returned"
  <2>1. step' \in [chunk : 0..MaxChunks, tries : 0..(MaxAttempts - 1)]
        /\ ~(step'.tries > step.tries)
    <3>1. CASE UNCHANGED step
      BY <1>2, <3>1
    <3>2. CASE step' = [chunk |-> step.chunk + 1, tries |-> 0] /\ step.chunk + 1 < MaxChunks
      BY <1>2, <3>2 DEF RunAssumption
    <3> QED BY <1>4, <3>1, <3>2 DEF Recorded, Over
  <2>2. /\ at' \in {"idle", "over"}
        /\ out' \in {"none", "canceled", "overrun", out}
    BY <1>4 DEF Recorded, Again, Over
  <2>3. faults' = faults
    BY <2>1 DEF Answer
  <2> QED BY <1>1, <2>1, <2>2, <2>3 DEF memory, Bounded
<1> QED BY <1>3, <1>4 DEF Answer

LEMMA TypesStep == ASSUME RunAssumption, IInv, Types, [Next]_vars PROVE Types'
<1> USE DEF Types, Scalars
<1>1. CASE ExecuteChunk
  <2>1. CASE cache # "none"
    BY <1>1, <2>1 DEF ExecuteChunk, memory, Bounded
  <2>2. CASE cache = "none"
    <3> DEFINE spent == saved # Nothing /\ BudgetSpent(saved.turns)
    <3>1. Begin(spent) /\ UNCHANGED <<step, faults>>
      BY <1>1, <2>2 DEF ExecuteChunk
    <3>2. Resumed.turns \in 0..(MaxTurns + 1) /\ Bounded(Resumed)
      BY SeedNarrow DEF Resumed, Bounded, IInv, Budget, RunAssumption
    <3>3. left' \in 0..MaxTurns
      BY <3>1, <3>2 DEF Begin, StepAllowance, RunAssumption
    <3> QED BY <3>1, <3>2, <3>3 DEF Begin, Slots, Bounded
  <2> QED BY <2>1, <2>2
<1>2. CASE ToolTurn \/ LastTurn
  <2>1. Inside /\ left > 0
    BY <1>2 DEF ToolTurn, LastTurn, Working, Inside, Slots
  <2>2. PICK response : /\ Advance(response)
                        /\ \/ response = <<Assistant>>
                           \/ \E tool \in Tools, body \in {"full", "kept"} :
                                response = <<Assistant, Result(tool, body)>>
    BY <1>2 DEF ToolTurn, LastTurn, Calling
  <2>3. Narrow(run.messages)
    BY <2>1 DEF IInv, Deadline, Bounded
  <2>4. Narrow(run'.messages) /\ saved' = run'
    BY <2>2, <2>3, AdvanceNarrow DEF Advance, Counted
  <2>5. left' \in 0..MaxTurns
    BY <2>1, <2>2 DEF Advance, RunAssumption
  <2>6. /\ UNCHANGED <<at, cache, out, from, failures, aborted, step, faults>>
        /\ due' \in BOOLEAN /\ finish' \in {"none", "text", "nothing", "other"}
    BY <1>2 DEF ToolTurn, LastTurn
  <2> QED BY <2>4, <2>5, <2>6 DEF Bounded
<1>3. CASE Tick \/ Abort \/ UNCHANGED vars
  <2>1. /\ UNCHANGED <<at, run, saved, cache, out, from, left, finish, failures, step, faults>>
        /\ {due', aborted'} \subseteq BOOLEAN
    BY <1>3 DEF Tick, Abort, vars
  <2> QED BY <2>1 DEF Bounded
<1>4. CASE Crash
  <2>1. faults' \in 0..MaxFaults
    BY <1>4 DEF Crash, RunAssumption
  <2> QED BY <1>4, <2>1, LeaveTypes DEF Crash, Throw
<1>5. CASE TurnUnsaved
  <2>1. Inside
    BY <1>5 DEF TurnUnsaved, Working, Inside, Slots
  <2>2. PICK response : /\ Counted(response)
                        /\ \/ response = <<Assistant>>
                           \/ \E tool \in Tools, body \in {"full", "kept"} :
                                response = <<Assistant, Result(tool, body)>>
    BY <1>5 DEF TurnUnsaved, Calling
  <2>3. Narrow(run.messages)
    BY <2>1 DEF IInv, Deadline, Bounded
  <2>4. Narrow(run'.messages)
    BY <2>2, <2>3, AdvanceNarrow DEF Counted
  <2>5. /\ UNCHANGED <<at, saved, cache, out, from, finish, failures, aborted, step>>
        /\ left' = 0 /\ due' \in {due, TRUE}
        /\ faults < MaxFaults /\ faults' = faults + 1
    BY <1>5 DEF TurnUnsaved
  <2>6. left' \in 0..MaxTurns /\ faults' \in 0..MaxFaults
    BY <2>5 DEF RunAssumption
  <2>7. due' \in BOOLEAN
    BY <2>5
  <2> QED BY <2>4, <2>5, <2>6, <2>7 DEF Bounded
<1> QED BY <1>1, <1>2, <1>3, <1>4, <1>5, ConcludeTypes, AnswerTypes DEF Next, Finished

\* Every variable of a run keeps its type, and the context that it carries holds at
\* most the seed and two messages for each turn of the window: what bounds a
\* Recipe's prompt (windowMessages).
THEOREM TypeCorrect == Spec => []TypeOK
<1>1. RunAssumption /\ Init => Types
  <2> SUFFICES ASSUME RunAssumption, Init PROVE Types
    OBVIOUS
  <2>1. Bounded(run) /\ Bounded(saved)
    BY DEF Init, Bounded
  <2>2. /\ step \in [chunk : 0..MaxChunks, tries : 0..(MaxAttempts - 1)]
        /\ 0 \in 0..(MaxTurns + 1) /\ 0 \in 0..MaxTurns /\ 0 \in 0..MaxFaults
    BY DEF Init, RunAssumption
  <2> QED BY <2>1, <2>2 DEF Init, Types, Scalars
<1>2. IInv /\ Types => TypeOK
  <2> SUFFICES ASSUME IInv, Types PROVE TypeOK
    OBVIOUS
  <2>1. ASSUME NEW state \in {run, saved}
        PROVE  /\ Len(state.messages) <= 2 * HistoryWindow + 1
               /\ \A i \in DOMAIN state.messages : state.messages[i] \in Messages
    <3>1. CASE state = Nothing
      <4>1. state.messages = <<>> /\ Len(<<>>) = 0 /\ DOMAIN <<>> = {}
        BY <3>1 DEF Nothing
      <4> QED BY <4>1, RunAssumption DEF RunAssumption
    <3>2. CASE state # Nothing
      <4>1. Narrow(state.messages) /\ HistoryWindow \in Nat
        BY <3>2, RunAssumption DEF Types, Bounded, RunAssumption
      <4> QED BY <4>1, LengthIs DEF Narrow, Sound
    <3> QED BY <3>1, <3>2
  <2>2. /\ run.turns \in 0..(MaxTurns + 1) /\ saved.turns \in 0..(MaxTurns + 1)
        /\ age \in 0..MaxWall /\ late \in Nat
    BY RunAssumption DEF IInv, Budget, Deadline, RunAssumption
  <2> QED BY <2>1, <2>2 DEF TypeOK, Types, Scalars
<1> QED BY <1>1, <1>2, TypesStep, RunAssumption, Invariance, PTL DEF Spec

-----------------------------------------------------------------------------
(* The run as SubtaskBranch takes it.                                      *)

\* The call outside the run and inside it, and its child.
CallShape ==
  /\ ~Inside => Call = [at |-> Place, out |-> IF at = "returned" THEN out ELSE "none",
                        turns |-> 0, moved |-> FALSE, aborted |-> FALSE]
  /\ Inside => Call = [at |-> "inside", out |-> "none", turns |-> run.turns,
                       moved |-> (run.turns > from), aborted |-> (TRUE /\ aborted)]
  /\ Child = [live |-> TRUE, turns |-> saved.turns, cache |-> cache,
              inflight |-> IF Inside THEN "c" ELSE "no one"]

LEMMA CallIs == CallShape
<1>1. CASE Inside
  <2>1. Place = "inside" /\ at # "returned"
    BY <1>1 DEF Place, Inside, Slots
  <2>2. (Inside /\ run.turns > from) = (run.turns > from)
    BY <1>1
  <2>3. (Inside /\ aborted) = (TRUE /\ aborted)
    BY <1>1
  <2> QED BY <1>1, <2>1, <2>2, <2>3 DEF Call, Child, CallShape
<1>2. CASE ~Inside
  <2>1. (Inside /\ run.turns > from) = FALSE /\ (Inside /\ aborted) = FALSE
    BY <1>2
  <2> QED BY <1>2, <2>1 DEF Call, Child, CallShape
<1> QED BY <1>1, <1>2

LEMMA CallBecomes == CallShape'
BY CallIs, PTL

\* A call that has come to nothing but a place, an answer and a count of turns.
LEMMA Bare ==
  ASSUME NEW place, NEW answer, NEW turns
  PROVE  /\ [SB!NoCall EXCEPT !.at = place] =
              [at |-> place, out |-> "none", turns |-> 0, moved |-> FALSE, aborted |-> FALSE]
         /\ [SB!NoCall EXCEPT !.at = place, !.out = answer] =
              [at |-> place, out |-> answer, turns |-> 0, moved |-> FALSE, aborted |-> FALSE]
         /\ [SB!NoCall EXCEPT !.at = place, !.turns = turns] =
              [at |-> place, out |-> "none", turns |-> turns, moved |-> FALSE, aborted |-> FALSE]
<1>1. PICK n, m : /\ n = SB!NoCall /\ m = FALSE
                  /\ n = [at |-> "idle", out |-> "none", turns |-> 0, moved |-> m,
                          aborted |-> m]
  BY DEF SB!NoCall
<1> DEFINE fields == {"at", "out", "turns", "moved", "aborted"}
<1>2. PICK k : k = [n EXCEPT !.at = place]
  OBVIOUS
<1>3. k = [at |-> place, out |-> "none", turns |-> 0, moved |-> m, aborted |-> m]
  <2>1. k.at = place /\ k.out = "none" /\ k.turns = 0 /\ k.moved = m /\ k.aborted = m
        /\ DOMAIN k = fields
    BY <1>1, <1>2
  <2> QED BY <1>2, <2>1
<1>4. PICK l : l = [n EXCEPT !.at = place, !.out = answer]
  OBVIOUS
<1>5. l = [at |-> place, out |-> answer, turns |-> 0, moved |-> m, aborted |-> m]
  <2>1. l.at = place /\ l.out = answer /\ l.turns = 0 /\ l.moved = m /\ l.aborted = m
        /\ DOMAIN l = fields
    BY <1>1, <1>4
  <2> QED BY <1>4, <2>1
<1>6. PICK o : o = [n EXCEPT !.at = place, !.turns = turns]
  OBVIOUS
<1>7. o = [at |-> place, out |-> "none", turns |-> turns, moved |-> m, aborted |-> m]
  <2>1. o.at = place /\ o.out = "none" /\ o.turns = turns /\ o.moved = m /\ o.aborted = m
        /\ DOMAIN o = fields
    BY <1>1, <1>6
  <2> QED BY <1>6, <2>1
<1> QED BY <1>1, <1>2, <1>3, <1>4, <1>5, <1>6, <1>7

\* A child's record with some of its fields set.
LEMMA Held ==
  ASSUME NEW who, who = Child.inflight,
         NEW new, NEW t, NEW result
  PROVE  /\ [Child EXCEPT !.inflight = new] =
              [live |-> TRUE, turns |-> saved.turns, cache |-> cache, inflight |-> new]
         /\ [Child EXCEPT !.turns = t] =
              [live |-> TRUE, turns |-> t, cache |-> cache, inflight |-> who]
         /\ [Child EXCEPT !.inflight = new, !.turns = t] =
              [live |-> TRUE, turns |-> t, cache |-> cache, inflight |-> new]
         /\ [Child EXCEPT !.inflight = new, !.turns = t, !.cache = result] =
              [live |-> TRUE, turns |-> t, cache |-> result, inflight |-> new]
<1>0. PICK k, live, turns, stored :
           /\ k = Child /\ live = TRUE /\ turns = saved.turns /\ stored = cache
           /\ k = [live |-> live, turns |-> turns, cache |-> stored, inflight |-> who]
  BY CallIs DEF CallShape
<1> DEFINE fields == {"live", "turns", "cache", "inflight"}
<1>1. PICK l : l = [k EXCEPT !.inflight = new]
  OBVIOUS
<1>2. l = [live |-> live, turns |-> turns, cache |-> stored, inflight |-> new]
  <2>1. l.live = live /\ l.turns = turns /\ l.cache = stored /\ l.inflight = new
        /\ DOMAIN l = fields
    BY <1>0, <1>1
  <2> QED BY <1>1, <2>1
<1>3. PICK m : m = [k EXCEPT !.turns = t]
  OBVIOUS
<1>4. m = [live |-> live, turns |-> t, cache |-> stored, inflight |-> who]
  <2>1. m.live = live /\ m.turns = t /\ m.cache = stored /\ m.inflight = who
        /\ DOMAIN m = fields
    BY <1>0, <1>3
  <2> QED BY <1>3, <2>1
<1>5. PICK n : n = [k EXCEPT !.inflight = new, !.turns = t]
  OBVIOUS
<1>6. n = [live |-> live, turns |-> t, cache |-> stored, inflight |-> new]
  <2>1. n.live = live /\ n.turns = t /\ n.cache = stored /\ n.inflight = new
        /\ DOMAIN n = fields
    BY <1>0, <1>5
  <2> QED BY <1>5, <2>1
<1>7. PICK o : o = [k EXCEPT !.inflight = new, !.turns = t, !.cache = result]
  OBVIOUS
<1>8. o = [live |-> live, turns |-> t, cache |-> result, inflight |-> new]
  <2>1. o.live = live /\ o.turns = t /\ o.cache = result /\ o.inflight = new
        /\ DOMAIN o = fields
    BY <1>0, <1>7
  <2> QED BY <1>7, <2>1
<1> QED BY <1>0, <1>1, <1>2, <1>3, <1>4, <1>5, <1>6, <1>7, <1>8

LEMMA StartsAsBranch ==
  ASSUME IInv, Chunks, ExecuteChunk
  PROVE  SB!StartRun("s", "c")
<1>1. ~Inside /\ at = "idle" /\ Place = "calling"
  BY DEF ExecuteChunk, Inside, Slots, Place
<1>2. Call.at = "calling"
  BY <1>1 DEF Call
<1>3. Child.cache = cache /\ Child.turns = saved.turns
  BY DEF Child
<1>4. CASE cache # "none"
  <2>1. /\ at' = "returned" /\ out' = cache /\ UNCHANGED <<saved, cache>>
    BY <1>4 DEF ExecuteChunk
  <2>2. ~Inside' /\ Place' = "returned"
    BY <2>1 DEF Inside, Slots, Place
  <2>3. Call' = [SB!NoCall EXCEPT !.at = "returned", !.out = Child.cache]
    BY <1>3, <2>1, <2>2, CallBecomes, Bare DEF CallShape
  <2>4. Child' = Child
    BY <1>1, <2>1, <2>2, CallIs, CallBecomes DEF CallShape
  <2> QED BY <1>2, <1>3, <1>4, <2>3, <2>4 DEF SB!StartRun, SB!At, SB!Set
<1>5. CASE cache = "none"
  <2>1. /\ run' = Resumed /\ from' = Resumed.turns /\ aborted' = FALSE
        /\ at' \in {"report", "primary"} /\ UNCHANGED <<saved, cache>>
    BY <1>1, <1>5 DEF ExecuteChunk, Begin
  <2>2. Resumed.turns = saved.turns /\ saved.turns \in Nat
    BY FreshIsSomething DEF IInv, Budget, Nothing
  <2>3. Inside' /\ (run'.turns > from') = FALSE /\ (TRUE /\ aborted') = FALSE
    BY <2>1, <2>2 DEF Inside, Slots
  <2>4. Call' = [SB!NoCall EXCEPT !.at = "inside", !.turns = Child.turns]
    <3>1. Call' = [at |-> "inside", out |-> "none", turns |-> run'.turns,
                   moved |-> (run'.turns > from'), aborted |-> (TRUE /\ aborted')]
      BY <2>3, CallBecomes DEF CallShape
    <3>2. Call' = [at |-> "inside", out |-> "none", turns |-> run'.turns,
                   moved |-> FALSE, aborted |-> FALSE]
      BY <2>3, <3>1, Zenon
    <3>3. run'.turns = Child.turns
      BY <1>3, <2>1, <2>2
    <3>4. [SB!NoCall EXCEPT !.at = "inside", !.turns = Child.turns] =
            [at |-> "inside", out |-> "none", turns |-> Child.turns,
             moved |-> FALSE, aborted |-> FALSE]
      BY Bare
    <3> QED BY <3>2, <3>3, <3>4, Zenon
  <2>5. Child' = [Child EXCEPT !.inflight = "c"]
    <3>1. Child' = [live |-> TRUE, turns |-> saved.turns, cache |-> cache,
                    inflight |-> "c"]
      BY <2>1, <2>3, CallBecomes DEF CallShape
    <3>2. [Child EXCEPT !.inflight = "c"] =
            [live |-> TRUE, turns |-> saved.turns, cache |-> cache, inflight |-> "c"]
      BY Held
    <3> QED BY <3>1, <3>2
  <2> QED BY <1>2, <1>3, <1>5, <2>4, <2>5 DEF SB!StartRun, SB!At, SB!Set
<1> QED BY <1>4, <1>5

\* A call inside the run, field by field.
LEMMA InsideIs ==
  ASSUME Inside
  PROVE  /\ Call.at = "inside" /\ Call.turns = run.turns
         /\ Call.moved <=> run.turns > from
         /\ Call.aborted <=> aborted
<1>1. Place = "inside"
  BY DEF Place, Inside, Slots
<1> QED BY <1>1 DEF Call

\* A call that leaves the run.
LEMMA LeavesRun ==
  ASSUME Inside, at' \in {"returned", "thrown"}
  PROVE  /\ at' = "thrown" => Call' = [SB!NoCall EXCEPT !.at = "thrown"]
         /\ at' = "returned" => Call' = [SB!NoCall EXCEPT !.at = "returned", !.out = out']
         /\ Child' = [live |-> TRUE, turns |-> saved'.turns, cache |-> cache',
                      inflight |-> "no one"]
<1>1. ~Inside' /\ Place' = at'
  BY DEF Inside, Slots, Place
<1>2. Call' = [at |-> at', out |-> IF at' = "returned" THEN out' ELSE "none",
               turns |-> 0, moved |-> FALSE, aborted |-> FALSE]
  BY <1>1, CallBecomes DEF CallShape
<1>3. CASE at' = "thrown"
  <2>1. Call' = [at |-> "thrown", out |-> "none", turns |-> 0, moved |-> FALSE,
                 aborted |-> FALSE]
    BY <1>2, <1>3
  <2> QED BY <1>1, <1>3, <2>1, CallBecomes, Bare DEF CallShape
<1>4. CASE at' = "returned"
  <2>1. Call' = [at |-> "returned", out |-> out', turns |-> 0, moved |-> FALSE,
                 aborted |-> FALSE]
    BY <1>2, <1>4
  <2> QED BY <1>1, <1>4, <2>1, CallBecomes, Bare DEF CallShape
<1> QED BY <1>3, <1>4

LEMMA YieldsAsBranch ==
  ASSUME Inside, Yield, aborted \/ (run.turns > from /\ run.turns < MaxTurns + 1)
  PROVE  SB!YieldChunk("s", "c")
<1>1. /\ Call' = [SB!NoCall EXCEPT !.at = "returned", !.out = "yield"]
      /\ Child' = [live |-> TRUE, turns |-> run.turns, cache |-> cache,
                   inflight |-> "no one"]
  BY LeavesRun DEF Yield
<1>2. Child' = [Child EXCEPT !.inflight = "no one", !.turns = Call.turns]
  <2>1. [Child EXCEPT !.inflight = "no one", !.turns = Call.turns] =
          [live |-> TRUE, turns |-> Call.turns, cache |-> cache, inflight |-> "no one"]
    BY Held
  <2> QED BY <1>1, <2>1, InsideIs
<1> QED BY <1>1, <1>2, InsideIs DEF SB!YieldChunk, SB!At, SB!Set

LEMMA EndsAsBranch ==
  ASSUME Inside, ~aborted, NEW result \in {"completed", "failed"},
         NEW kinds, End(result, kinds)
  PROVE  SB!FinishRun("s", "c")
<1>1. /\ Call' = [SB!NoCall EXCEPT !.at = "returned", !.out = result]
      /\ Child' = [live |-> TRUE, turns |-> run.turns, cache |-> result,
                   inflight |-> "no one"]
  BY LeavesRun DEF End
<1>2. Child' = [Child EXCEPT !.inflight = "no one", !.turns = Call.turns, !.cache = result]
  <2>1. [Child EXCEPT !.inflight = "no one", !.turns = Call.turns, !.cache = result] =
          [live |-> TRUE, turns |-> Call.turns, cache |-> result, inflight |-> "no one"]
    BY Held
  <2> QED BY <1>1, <2>1, InsideIs
<1> DEFINE child == [s \in {"s"} |-> Child]
           call == [s \in {"s"} |-> [c \in {"c"} |-> Call]]
<1>3. SB!At("s", "c", "inside") /\ ~call["s"]["c"].aborted
  BY InsideIs DEF SB!At
<1>4. SB!Set("s", "c", [SB!NoCall EXCEPT !.at = "returned", !.out = result])
  BY <1>1 DEF SB!Set
<1>5. child' = [child EXCEPT !["s"] = [child["s"] EXCEPT !.inflight = "no one",
                               !.turns = call["s"]["c"].turns, !.cache = result]]
  BY <1>2
<1> QED BY <1>3, <1>4, <1>5 DEF SB!FinishRun

LEMMA ThrowsAsBranch == ASSUME Inside, Throw PROVE SB!Fault("s", "c")
<1>1. /\ Call' = [SB!NoCall EXCEPT !.at = "thrown"]
      /\ Child' = [live |-> TRUE, turns |-> saved.turns, cache |-> cache,
                   inflight |-> "no one"]
  BY LeavesRun DEF Throw
<1>2. Child' = [Child EXCEPT !.inflight = "no one"]
  BY <1>1, Held
<1> QED BY <1>1, <1>2, InsideIs DEF SB!Fault, SB!At, SB!Set, SB!Cut

\* A step that neither leaves nor enters the run, and counts nothing in it.
LEMMA StaysAsBranch ==
  ASSUME Inside' = Inside, UNCHANGED <<run, from, saved, cache, aborted>>,
         ~Inside => UNCHANGED <<at, out>>
  PROVE  UNCHANGED SB!vars
<1>1. Call' = Call
  <2>1. CASE Inside
    BY <2>1, CallIs, CallBecomes DEF CallShape
  <2>2. CASE ~Inside
    <3>1. Place' = Place
      BY <2>2 DEF Place
    <3> QED BY <2>2, <3>1, CallIs, CallBecomes DEF CallShape
  <2> QED BY <2>1, <2>2
<1>2. Child' = Child
  BY CallIs, CallBecomes DEF CallShape
<1> QED BY <1>1, <1>2 DEF SB!vars

\* A turn is counted; its checkpoint is written, or is not.
LEMMA CountsAsBranch ==
  ASSUME RunAssumption, IInv, Chunks, Working, left > 0, NEW response,
         Counted(response), UNCHANGED <<at, cache, from, aborted>>, saved' \in {saved, run'}
  PROVE  SB!Turn("s", "c")
<1>1. /\ Inside /\ Inside' /\ run'.turns = run.turns + 1
      /\ run.turns \in Nat /\ run.turns < MaxTurns + 1
      /\ (run'.turns > from') = TRUE /\ (TRUE /\ aborted') = (TRUE /\ aborted)
  BY DEF Working, Inside, Slots, Counted, IInv, Budget, Chunks, RunAssumption
<1>2. Call' = [Call EXCEPT !.turns = Call.turns + 1, !.moved = TRUE]
  <2>1. PICK k, m, b, t : /\ k = Call /\ m = (run.turns > from) /\ b = (TRUE /\ aborted)
                          /\ t = TRUE
                          /\ k = [at |-> "inside", out |-> "none", turns |-> run.turns,
                                  moved |-> m, aborted |-> b]
    BY <1>1, CallIs DEF CallShape
  <2>2. Call' = [at |-> "inside", out |-> "none", turns |-> run.turns + 1,
                 moved |-> t, aborted |-> b]
    BY <1>1, <2>1, CallBecomes DEF CallShape
  <2>3. PICK l : l = [k EXCEPT !.turns = run.turns + 1, !.moved = t]
    OBVIOUS
  <2>4. l = [at |-> "inside", out |-> "none", turns |-> run.turns + 1,
             moved |-> t, aborted |-> b]
    <3>1. /\ l.at = "inside" /\ l.out = "none" /\ l.turns = run.turns + 1
          /\ l.moved = t /\ l.aborted = b
          /\ DOMAIN l = {"at", "out", "turns", "moved", "aborted"}
      BY <2>1, <2>3
    <3> QED BY <2>3, <3>1
  <2> QED BY <1>1, <2>1, <2>2, <2>3, <2>4, InsideIs
<1>3. Child' \in {Child, [Child EXCEPT !.turns = Call.turns + 1]}
  <2>1. /\ Child.inflight = "c"
        /\ Child' = [live |-> TRUE, turns |-> saved'.turns, cache |-> cache,
                     inflight |-> "c"]
    BY <1>1, CallBecomes DEF CallShape, Child
  <2>2. CASE saved' = saved
    BY <1>1, <2>1, <2>2 DEF Child
  <2>3. CASE saved' = run'
    <3>1. [Child EXCEPT !.turns = Call.turns + 1] =
            [live |-> TRUE, turns |-> run.turns + 1, cache |-> cache, inflight |-> "c"]
      BY <2>1, <1>1, InsideIs, Held
    <3>2. Child' = [live |-> TRUE, turns |-> run.turns + 1, cache |-> cache, inflight |-> "c"]
      BY <1>1, <2>1, <2>3
    <3> QED BY <3>1, <3>2
  <2> QED BY <2>2, <2>3
<1> QED BY <1>1, <1>2, <1>3, InsideIs DEF SB!Turn, SB!At, SB!Set

LEMMA ConcludesAsBranch ==
  ASSUME RunAssumption, IInv, Chunks, Conclude
  PROVE  BranchMoves \/ UNCHANGED SB!vars
<1>1. Inside /\ UNCHANGED aborted /\ run.turns \in Nat
  BY DEF Conclude, IInv, Budget
<1>2. ASSUME NEW slot \in Slots, NEW kinds, GoTo(slot, kinds)
      PROVE  UNCHANGED SB!vars
  <2>1. Inside' = Inside /\ UNCHANGED <<run, from, saved, cache, aborted>>
    BY <1>1, <1>2 DEF GoTo, Inside
  <2> QED BY <1>1, <2>1, StaysAsBranch
<1>3. CASE aborted /\ Yield
  BY <1>1, <1>3, YieldsAsBranch DEF BranchMoves
<1>4. ASSUME ~aborted, NEW kind, Fails(kind) PROVE BranchMoves \/ UNCHANGED SB!vars
  <2>1. \/ \E result \in {"completed", "failed"} : End(result, {kind})
        \/ \E slot \in Slots : GoTo(slot, {kind})
        \/ Throw
    BY <1>1, <1>4, FailureLeads DEF Slots
  <2> QED BY <1>1, <1>2, <1>4, <2>1, EndsAsBranch, ThrowsAsBranch DEF BranchMoves
<1>5. CASE ~aborted /\ End("completed", {})
  BY <1>1, <1>5, EndsAsBranch DEF BranchMoves
<1>6. CASE finish = "other" /\ IF BudgetSpent(run.turns) THEN GoTo("report", {}) ELSE Yield
  <2>1. CASE BudgetSpent(run.turns)
    BY <1>2, <1>6, <2>1 DEF Slots
  <2>2. CASE ~BudgetSpent(run.turns)
    <3>1. Yield /\ run.turns > from /\ run.turns < MaxTurns + 1
      BY <1>1, <1>6, <2>2 DEF BudgetSpent, Chunks, RunAssumption
    <3> QED BY <1>1, <3>1, YieldsAsBranch DEF BranchMoves
  <2> QED BY <2>1, <2>2
<1> QED BY <1>3, <1>4, <1>5, <1>6 DEF Conclude

\* Every move of the runner is one SubtaskBranch gives its child: the chunk loop,
\* with its two slots and its report, implements the child as the branches see it.
THEOREM RunRefinesChild == Spec => RunsAsBranch
<1>1. ASSUME IInv, Chunks, [Next]_vars PROVE [BranchMoves]_(SB!vars)
  <2> USE RunAssumption
  <2>1. CASE ExecuteChunk
    BY <1>1, <2>1, StartsAsBranch DEF BranchMoves
  <2>2. CASE ToolTurn \/ LastTurn
    <3>1. /\ Working /\ left > 0 /\ UNCHANGED <<at, cache, from, aborted>>
          /\ \E response : Counted(response) /\ saved' = run'
      BY <2>2 DEF ToolTurn, LastTurn, Advance
    <3> QED BY <1>1, <3>1, CountsAsBranch DEF BranchMoves
  <2>3. CASE Conclude
    BY <1>1, <2>3, ConcludesAsBranch
  <2>4. CASE Tick \/ Finished \/ UNCHANGED vars
    <3>1. Inside' = Inside /\ UNCHANGED <<at, out, run, from, saved, cache, aborted>>
      BY <2>4 DEF Tick, Finished, vars, Inside
    <3> QED BY <3>1, StaysAsBranch
  <2>5. CASE Abort
    BY <2>5 DEF Abort, BranchMoves
  <2>6. CASE Crash
    BY <2>6, ThrowsAsBranch DEF Crash, BranchMoves
  <2>7. CASE Answer
    BY <2>7 DEF Answer, BranchMoves
  <2>8. CASE TurnUnsaved
    <3>1. /\ Working /\ left > 0 /\ UNCHANGED <<at, cache, from, aborted, saved>>
          /\ \E response : Counted(response)
      BY <2>8 DEF TurnUnsaved
    <3> QED BY <1>1, <3>1, CountsAsBranch DEF BranchMoves
  <2> QED BY <1>1, <2>1, <2>2, <2>3, <2>4, <2>5, <2>6, <2>7, <2>8 DEF Next
<1> QED BY <1>1, ChunksHold, PTL DEF Spec, RunsAsBranch
=============================================================================
