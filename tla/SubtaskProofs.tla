--------------------------- MODULE SubtaskProofs ---------------------------
(***************************************************************************)
(* Proofs about SubtaskBranch for any number of Subtasks, calls, attempts, *)
(* chunks and faults: types, that a settled row never changes, that a      *)
(* branch never returns with its row unsettled, and that no retry throws a *)
(* checkpoint away.                                                        *)
(***************************************************************************)
EXTENDS SubtaskBranch, TLAPS

\* What the third needs besides itself: a canceled Task has no pending row left,
\* and a row somebody works on has been claimed; a call clears up after a settled
\* row only; a branch that executes has chunks left; and the attempt of a fail
\* step is on its way out.
Claimed == /\ canceled => \A s \in Subtasks : status[s] # "pending"
           /\ \A s \in Subtasks, c \in Calls :
                call[s][c].at # "idle" => status[s] # "pending"
Clearing == \A s \in Subtasks, c \in Calls :
              call[s][c].at = "clearing" => status[s] \in Settled
BranchShape == \A s \in Subtasks :
                 /\ branch[s].at = "exec" => branch[s].chunk < MaxChunks
                 /\ branch[s].attempt # NoOne => branch[s].at \in {"exec", "overrun", "fail"}
Ends == {"idle", "clearing", "thrown"}
LastResort == \A s \in Subtasks, c \in Calls :
                branch[s].attempt = c /\ branch[s].at # "exec" => call[s][c].at \in Ends
\* Only a cancellation starts a pass.
Passing == sweeper.todo # {} => canceled
IInv == TypeOK /\ Claimed /\ Clearing /\ BranchShape /\ LastResort
        /\ BranchSettlesRow /\ Passing

\* How rows may move in one step.
Forward(before, after) ==
  \/ after = before
  \/ before = "pending" /\ after \in Settled \cup {"running"}
  \/ before = "running" /\ after \in Settled

\* What a step does to the rows, the calls and the branches, enough for IInv.
RowsStep == /\ status' \in [Subtasks -> RowStates]
            /\ \A s \in Subtasks : Forward(status[s], status'[s])
Fits(s, c, new) ==
  /\ new.at # "idle" => call[s][c].at # "idle" \/ status'[s] # "pending"
  /\ new.at = "clearing" => call[s][c].at = "clearing" \/ status'[s] \in Settled
  /\ call[s][c].at \in Ends => new.at \in Ends \/ branch'[s].at = "exec"
CallsStep == /\ call' \in [Subtasks -> [Calls -> CallStates]]
             /\ \A s \in Subtasks, c \in Calls : Fits(s, c, call'[s][c])
BranchesStep == /\ branch' \in [Subtasks -> BranchStates]
                /\ BranchShape'
                /\ \A s \in Subtasks :
                     /\ branch'[s].at \in {"done", "failed"} =>
                          branch[s].at \in {"done", "failed"} \/ status'[s] \in Settled
                     /\ \A c \in Calls :
                          branch'[s].attempt = c /\ branch'[s].at # "exec" =>
                            \/ branch'[s] = branch[s]
                            \/ call'[s][c].at \in Ends
RestStep == /\ canceled' \in BOOLEAN
            /\ canceled' => canceled \/ \A s \in Subtasks : status'[s] # "pending"
            /\ child' \in [Subtasks -> ChildStates]
            /\ sweeper' \in Passes /\ Passing'
            /\ phase' \in {"running", "joined", "rejected", "settled", "swept", "stopped"}
            /\ faults' \in 0..MaxFaults
GoodStep == RowsStep /\ CallsStep /\ BranchesStep /\ RestStep

-----------------------------------------------------------------------------
\* Good steps preserve the invariant.
LEMMA GoodPreserves == IInv /\ GoodStep => IInv'
<1> SUFFICES ASSUME IInv, GoodStep PROVE IInv'
  OBVIOUS
<1> USE DEF IInv, GoodStep, RowsStep, CallsStep, BranchesStep, RestStep
<1>1. TypeOK'
  BY DEF TypeOK
<1>2. \A s \in Subtasks : status[s] # "pending" => status'[s] # "pending"
  BY DEF Forward, Settled
<1>3. Claimed'
  BY <1>2 DEF Claimed, Fits
<1>4. \A s \in Subtasks : status[s] \in Settled => status'[s] \in Settled
  BY DEF Forward, Settled
<1>5. BranchSettlesRow'
  BY <1>4 DEF BranchSettlesRow
<1>6. Clearing'
  BY <1>4 DEF Clearing, Fits
<1>7. LastResort'
  BY DEF LastResort, Fits
<1> QED BY <1>1, <1>3, <1>5, <1>6, <1>7

\* The new rows after a guarded write.
LEMMA MovedMoves ==
  ASSUME TypeOK, NEW s \in Subtasks, NEW from, NEW to \in Settled \cup {"running"},
         from \in {{"pending"}, {"running"}, {"pending", "running"}},
         to = "running" => from = {"pending"}
  PROVE  /\ Transition(status, s, from, to) \in [Subtasks -> RowStates]
         /\ \A t \in Subtasks : Forward(status[t], Transition(status, s, from, to)[t])
         /\ status[s] \in from => Transition(status, s, from, to)[s] = to
         /\ status[s] \notin from => Transition(status, s, from, to) = status
BY DEF TypeOK, Transition, Forward, RowStates, Settled

\* A call that is only at a place is a call.
LEMMA CallsNone ==
  ASSUME BranchAssumption
  PROVE  /\ NoCall \in CallStates
         /\ \A place \in CallPlaces : [NoCall EXCEPT !.at = place] \in CallStates
         /\ NoChild \in ChildStates
<1>1. 0 \in 0..MaxTurns
  BY DEF BranchAssumption
<1> QED BY <1>1 DEF NoCall, CallStates, CallPlaces, Outcomes, NoChild, ChildStates

LEMMA LoseKeeps ==
  ASSUME TypeOK, BranchShape, BranchAssumption, NEW s \in Subtasks, Lose(s),
         branch[s].at \in {"exec", "overrun", "fail"}
  PROVE  BranchesStep
<1> DEFINE b == branch[s]
<1>1. b \in BranchStates /\ branch \in [Subtasks -> BranchStates]
  BY DEF TypeOK
<1>2. 0 \in 0..(MaxAttempts - 1) /\ 0 \in 0..MaxChunks
  BY DEF BranchAssumption
<1>3. b.tries + 1 < MaxAttempts => b.tries + 1 \in 0..(MaxAttempts - 1)
  BY <1>1 DEF BranchAssumption, BranchStates
<1>4. AfterLoss(b) \in BranchStates
  BY <1>1, <1>2, <1>3 DEF AfterLoss, BranchStates
<1>5. /\ AfterLoss(b).at \in {"fail", "threw", b.at}
      /\ AfterLoss(b).at \in {"done", "failed"} => b.at \in {"done", "failed"}
      /\ AfterLoss(b).at = "exec" => AfterLoss(b).chunk = b.chunk
      /\ AfterLoss(b).attempt = NoOne
  BY <1>1 DEF AfterLoss, BranchStates
<1> HIDE DEF b
<1>6. branch' \in [Subtasks -> BranchStates]
  BY <1>1, <1>4 DEF Lose, b
<1>7. branch'[s] = AfterLoss(b) /\ \A t \in Subtasks \ {s} : branch'[t] = branch[t]
  BY <1>1 DEF Lose, b
<1>8. BranchShape'
  BY <1>5, <1>7 DEF BranchShape, b
<1>9. \A t \in Subtasks :
        /\ branch'[t].at \in {"done", "failed"} => branch[t].at \in {"done", "failed"}
        /\ branch'[t].attempt # NoOne => branch'[t] = branch[t]
  BY <1>5, <1>7 DEF b
<1> QED BY <1>6, <1>8, <1>9 DEF BranchesStep, BranchAssumption

LEMMA RecordKeeps ==
  ASSUME TypeOK, BranchShape, BranchAssumption, NEW s \in Subtasks,
         NEW done \in BOOLEAN, Record(s, done),
         branch[s].at \in {"exec", "overrun", "fail"},
         done => status'[s] \in Settled,
         ~done => branch[s].at = "exec"
  PROVE  BranchesStep
<1> DEFINE b == branch[s]
<1>1. b \in BranchStates /\ branch \in [Subtasks -> BranchStates]
  BY DEF TypeOK
<1>2. 0 \in 0..(MaxAttempts - 1)
  BY DEF BranchAssumption
<1>3. ~done => b.chunk + 1 \in 0..MaxChunks
  BY <1>1 DEF BranchAssumption, BranchStates, BranchShape
<1>4. AfterVerdict(b, done) \in BranchStates
  BY <1>1, <1>2, <1>3 DEF AfterVerdict, BranchStates
<1>5. /\ AfterVerdict(b, done).at \in {"done", "failed"} => done
      /\ AfterVerdict(b, done).at = "exec" => AfterVerdict(b, done).chunk < MaxChunks
      /\ AfterVerdict(b, done).attempt = NoOne
  BY <1>1 DEF AfterVerdict, BranchStates
<1> HIDE DEF b
<1>6. branch' \in [Subtasks -> BranchStates]
  BY <1>1, <1>4 DEF Record, b
<1>7. branch'[s] = AfterVerdict(b, done) /\ \A t \in Subtasks \ {s} : branch'[t] = branch[t]
  BY <1>1 DEF Record, b
<1>8. BranchShape'
  BY <1>5, <1>7 DEF BranchShape
<1>9. \A t \in Subtasks :
        /\ branch'[t].at \in {"done", "failed"} =>
             branch[t].at \in {"done", "failed"} \/ status'[t] \in Settled
        /\ branch'[t].attempt # NoOne => branch'[t] = branch[t]
  BY <1>5, <1>7 DEF b
<1> QED BY <1>6, <1>8, <1>9 DEF BranchesStep, BranchAssumption

LEMMA VerdictKeeps ==
  ASSUME TypeOK, BranchShape, LastResort, BranchAssumption,
         NEW s \in Subtasks, NEW c \in Calls,
         NEW done \in BOOLEAN, Verdict(s, c, done), done => status'[s] \in Settled,
         ~done => call[s][c].at \notin Ends
  PROVE  BranchesStep
<1>1. /\ branch[s].attempt = c => branch[s].at \in {"exec", "overrun", "fail"}
      /\ branch[s].attempt = c /\ ~done => branch[s].at = "exec"
  BY DEF BranchShape, BranchAssumption, LastResort
<1>2. CASE UNCHANGED branch
  BY <1>2 DEF BranchesStep, BranchShape, TypeOK
<1>3. CASE branch[s].attempt = c /\ Record(s, done)
  BY <1>1, <1>3, RecordKeeps
<1>4. CASE branch[s].attempt = c /\ Lose(s)
  BY <1>1, <1>4, LoseKeeps
<1> QED BY <1>2, <1>3, <1>4 DEF Verdict

LEMMA ThrownKeeps ==
  ASSUME TypeOK, BranchShape, BranchAssumption, NEW s \in Subtasks, NEW c \in Calls,
         Thrown(s, c)
  PROVE  BranchesStep
<1>1. CASE UNCHANGED branch
  BY <1>1 DEF BranchesStep, BranchShape, TypeOK
<1>2. CASE branch[s].attempt = c /\ Lose(s)
  <2>1. branch[s].at \in {"exec", "overrun", "fail"}
    BY <1>2 DEF BranchShape, BranchAssumption
  <2> QED BY <1>2, <2>1, LoseKeeps
<1> QED BY <1>1, <1>2 DEF Thrown

\* An attempt reaches the object.
LEMMA AttemptedKeeps ==
  ASSUME TypeOK, BranchShape, BranchAssumption, NEW s \in Subtasks, NEW c \in Calls,
         Attempted(s, c), branch[s].at \in {"exec", "overrun", "fail"},
         branch[s].at = "exec" \/ call'[s][c].at \in Ends
  PROVE  BranchesStep /\ branch'[s].at = branch[s].at
<1>1. branch \in [Subtasks -> BranchStates] /\ branch[s] \in BranchStates
  BY DEF TypeOK
<1>2. branch' \in [Subtasks -> BranchStates]
  BY <1>1 DEF Attempted, BranchStates
<1>3. /\ branch'[s].at = branch[s].at /\ branch'[s].chunk = branch[s].chunk
      /\ branch'[s].attempt = c
      /\ \A t \in Subtasks \ {s} : branch'[t] = branch[t]
  BY <1>1 DEF Attempted, BranchStates
<1> QED BY <1>2, <1>3 DEF BranchesStep, BranchShape

\* A call record replaced.
LEMMA SetKeeps ==
  ASSUME TypeOK, NEW s \in Subtasks, NEW c \in Calls, NEW v \in CallStates, Set(s, c, v),
         Fits(s, c, v)
  PROVE  CallsStep /\ call'[s][c] = v
<1>1. call \in [Subtasks -> [Calls -> CallStates]]
  BY DEF TypeOK
<1>2. call' \in [Subtasks -> [Calls -> CallStates]]
  BY <1>1 DEF Set
<1>3. \A t \in Subtasks, d \in Calls :
        call'[t][d] = IF t = s /\ d = c THEN v ELSE call[t][d]
  BY <1>1 DEF Set
<1> QED BY <1>2, <1>3 DEF CallsStep, Fits

\* A call moved on to a place.
LEMMA GoKeeps ==
  ASSUME TypeOK, BranchAssumption, NEW s \in Subtasks, NEW c \in Calls,
         NEW place \in CallPlaces, Go(s, c, place),
         Fits(s, c, [NoCall EXCEPT !.at = place])
  PROVE  CallsStep /\ call'[s][c].at = place
<1>1. [NoCall EXCEPT !.at = place] \in CallStates
  BY CallsNone
<1>2. [NoCall EXCEPT !.at = place].at = place
  BY DEF NoCall
<1> QED BY <1>1, <1>2, SetKeeps DEF Go

\* A call that throws has thrown or is over.
LEMMA CutIs ==
  ASSUME BranchAssumption, NEW s, NEW c
  PROVE  Cut(s, c) \in CallStates /\ Cut(s, c).at \in {"thrown", "idle"}
<1>1. /\ NoCall \in CallStates /\ NoCall.at = "idle"
      /\ [NoCall EXCEPT !.at = "thrown"] \in CallStates
      /\ [NoCall EXCEPT !.at = "thrown"].at = "thrown"
  BY CallsNone DEF NoCall, CallPlaces
<1> QED BY <1>1 DEF Cut

\* Children and calls after a deletion.
LEMMA DeleteStep ==
  ASSUME TypeOK, BranchAssumption, NEW s \in Subtasks,
         NEW calls \in [Calls -> CallStates],
         \A c \in Calls : Fits(s, c, calls[c]),
         DeleteChild(s, calls)
  PROVE  CallsStep /\ child' \in [Subtasks -> ChildStates]
<1>1. /\ call \in [Subtasks -> [Calls -> CallStates]]
      /\ child \in [Subtasks -> ChildStates]
  BY DEF TypeOK
<1>2. NoChild \in ChildStates
  BY CallsNone
<1>3. child' \in [Subtasks -> ChildStates]
  BY <1>1, <1>2 DEF DeleteChild
<1>4. /\ Broken(s, calls) \in [Calls -> CallStates]
      /\ \A c \in Calls : Fits(s, c, Broken(s, calls)[c])
  BY CutIs DEF Broken, Fits, Ends
<1>5. /\ call' \in [Subtasks -> [Calls -> CallStates]]
      /\ \A t \in Subtasks : call'[t] = IF t = s THEN Broken(s, calls) ELSE call[t]
  BY <1>1, <1>4 DEF DeleteChild
<1>6. \A t \in Subtasks \ {s}, c \in Calls : Fits(t, c, call[t][c])
  BY DEF Fits
<1> QED BY <1>3, <1>4, <1>5, <1>6 DEF CallsStep

\* The same, of a child whose calls stay where they are.
LEMMA DeleteAsIs ==
  ASSUME TypeOK, BranchAssumption, NEW s \in Subtasks, DeleteChild(s, call[s])
  PROVE  CallsStep /\ child' \in [Subtasks -> ChildStates]
<1>1. call[s] \in [Calls -> CallStates]
  BY DEF TypeOK
<1>2. \A c \in Calls : Fits(s, c, call[s][c])
  BY DEF Fits
<1> QED BY <1>1, <1>2, DeleteStep

\* And of one whose call moves on to a place.
LEMMA DeleteAndGo ==
  ASSUME TypeOK, BranchAssumption, NEW s \in Subtasks, NEW c \in Calls,
         NEW new \in CallStates, Fits(s, c, new),
         DeleteChild(s, [call[s] EXCEPT ![c] = new])
  PROVE  CallsStep /\ child' \in [Subtasks -> ChildStates]
<1>1. call[s] \in [Calls -> CallStates]
  BY DEF TypeOK
<1>2. [call[s] EXCEPT ![c] = new] \in [Calls -> CallStates]
  BY <1>1
<1>3. \A d \in Calls : Fits(s, d, [call[s] EXCEPT ![c] = new][d])
  BY <1>1 DEF Fits
<1> QED BY <1>2, <1>3, DeleteStep

\* What is left alone is good.
LEMMA Untouched ==
  ASSUME TypeOK, BranchShape
  PROVE  /\ UNCHANGED status => RowsStep
         /\ UNCHANGED call => CallsStep
         /\ UNCHANGED branch => BranchesStep
BY DEF TypeOK, BranchShape, RowsStep, CallsStep, BranchesStep, Forward, Fits

LEMMA MovedStep ==
  ASSUME TypeOK, NEW s \in Subtasks, NEW from, NEW to \in Settled \cup {"running"},
         from \in {{"pending"}, {"running"}, {"pending", "running"}},
         to = "running" => from = {"pending"},
         status' = Transition(status, s, from, to)
  PROVE  /\ RowsStep
         /\ status[s] \in from => status'[s] = to
         /\ status[s] \notin from => status' = status
BY MovedMoves DEF RowsStep

-----------------------------------------------------------------------------
(* The handler's stretches.                                                *)

LEMMA PrepareEndsGood ==
  ASSUME IInv, BranchAssumption, NEW s \in Subtasks, NEW c \in Calls, Execute(s, c),
         PrepareEnds(s, c)
  PROVE  GoodStep
<1> USE DEF IInv
<1>1. RowsStep /\ status'[s] \in Settled
  <2>1. CASE status[s] = "pending" /\ canceled
    BY <2>1 DEF Claimed
  <2>2. CASE /\ status[s] \notin Settled
             /\ status' = Fail(Start(status, s), s)
    <3>1. status[s] \in {"pending", "running"}
      BY <2>2 DEF TypeOK, RowStates, Settled
    <3>2. status' = [status EXCEPT ![s] = "failed"]
      BY <2>2, <3>1 DEF Fail, Start, Transition, TypeOK
    <3> QED BY <3>1, <3>2 DEF RowsStep, Forward, TypeOK, RowStates, Settled
  <2> QED BY <2>1, <2>2 DEF PrepareEnds
<1>2. BranchesStep
  BY <1>1, LoseKeeps, RecordKeeps DEF PrepareEnds, Execute, Attempts
<1> QED BY <1>1, <1>2, Untouched DEF GoodStep, RestStep, Passing, Execute, PrepareEnds, TypeOK

LEMMA PrepareClearsGood ==
  ASSUME IInv, BranchAssumption, NEW s \in Subtasks, NEW c \in Calls, Execute(s, c),
         PrepareClears(s, c)
  PROVE  GoodStep
<1> USE DEF IInv
<1>1. RowsStep /\ status'[s] \in Settled
  <2>1. CASE status[s] \in Settled /\ UNCHANGED status
    BY <2>1, Untouched
  <2>2. CASE status[s] = "running" /\ status' = CancelRunning(status, s)
    BY <2>2, MovedStep DEF CancelRunning, Settled
  <2> QED BY <2>1, <2>2 DEF PrepareClears
<1>2. Fits(s, c, [NoCall EXCEPT !.at = "clearing"])
  BY <1>1 DEF Fits, NoCall, Ends, Settled
<1>3. CallsStep /\ call'[s][c].at = "clearing"
  BY <1>2, GoKeeps DEF PrepareClears, CallPlaces
<1>4. BranchesStep
  BY <1>3, AttemptedKeeps DEF PrepareClears, Execute, Attempts
<1> QED BY <1>1, <1>3, <1>4 DEF GoodStep, RestStep, Passing, Execute, PrepareClears, TypeOK

LEMMA PrepareClaimsGood ==
  ASSUME IInv, BranchAssumption, NEW s \in Subtasks, NEW c \in Calls, Execute(s, c),
         PrepareClaims(s, c)
  PROVE  GoodStep
<1> USE DEF IInv
<1>1. RowsStep /\ status'[s] # "pending"
  BY MovedStep DEF PrepareClaims, Start
<1> DEFINE place == IF status[s] = "pending" THEN "claiming" ELSE "resolving"
<1>2. BranchesStep /\ branch'[s].at = "exec"
  BY AttemptedKeeps DEF PrepareClaims, Execute, Attempts
<1>3. Fits(s, c, [NoCall EXCEPT !.at = place])
  BY <1>1, <1>2 DEF Fits, NoCall
<1>4. Go(s, c, place) /\ place \in CallPlaces
  BY DEF PrepareClaims, CallPlaces
<1>5. CallsStep
  <2> HIDE DEF place
  <2> QED BY <1>3, <1>4, GoKeeps
<1> QED BY <1>1, <1>2, <1>5 DEF GoodStep, RestStep, Passing, Execute, PrepareClaims, TypeOK

LEMMA StartFreshGood ==
  ASSUME IInv, BranchAssumption, NEW s \in Subtasks, NEW c \in Calls, StartFresh(s, c)
  PROVE  GoodStep
<1> USE DEF IInv
<1>1. [NoCall EXCEPT !.at = "resolving"] \in CallStates
  BY CallsNone DEF CallPlaces
<1>2. Fits(s, c, [NoCall EXCEPT !.at = "resolving"])
  BY DEF StartFresh, At, Fits, NoCall, Ends
<1>3. CallsStep /\ child' \in [Subtasks -> ChildStates]
  BY <1>1, <1>2, DeleteAndGo DEF StartFresh
<1> QED BY <1>3, Untouched DEF GoodStep, RestStep, Passing, StartFresh, TypeOK

LEMMA ClearGood ==
  ASSUME IInv, BranchAssumption, NEW s \in Subtasks, NEW c \in Calls, Clear(s, c)
  PROVE  GoodStep
<1> USE DEF IInv
<1>1. status'[s] \in Settled
  BY DEF Clear, At, Clearing
<1>2. Fits(s, c, NoCall) /\ NoCall \in CallStates
  BY CallsNone DEF Fits, NoCall, Ends
<1>3. CallsStep /\ child' \in [Subtasks -> ChildStates]
  BY <1>2, DeleteAndGo DEF Clear
<1>4. BranchesStep
  BY <1>1, VerdictKeeps DEF Clear
<1> QED BY <1>3, <1>4, Untouched DEF GoodStep, RestStep, Passing, Clear, TypeOK

LEMMA EnterChildGood ==
  ASSUME IInv, BranchAssumption, NEW s \in Subtasks, NEW c \in Calls, EnterChild(s, c)
  PROVE  GoodStep
<1> USE DEF IInv
<1>1. Fits(s, c, [NoCall EXCEPT !.at = "calling"])
  BY DEF EnterChild, At, Fits, NoCall, Ends
<1>2. CallsStep
  BY <1>1, GoKeeps DEF EnterChild, CallPlaces
<1>3. child' \in [Subtasks -> ChildStates]
  BY DEF EnterChild, TypeOK, ChildStates
<1> QED BY <1>2, <1>3, Untouched DEF GoodStep, RestStep, Passing, EnterChild, TypeOK

LEMMA StartRunGood ==
  ASSUME IInv, BranchAssumption, NEW s \in Subtasks, NEW c \in Calls, StartRun(s, c)
  PROVE  GoodStep
<1> USE DEF IInv
<1>1. child[s] \in ChildStates /\ child \in [Subtasks -> ChildStates]
  BY DEF TypeOK
<1>2. NoCall \in CallStates
  BY CallsNone
<1>3. child[s].cache # "none" =>
        [NoCall EXCEPT !.at = "returned", !.out = child[s].cache] \in CallStates
  BY <1>1, <1>2 DEF CallStates, CallPlaces, Outcomes, ChildStates, NoCall
<1>4. [NoCall EXCEPT !.at = "inside", !.turns = child[s].turns] \in CallStates
  BY <1>1, <1>2 DEF CallStates, CallPlaces, ChildStates, NoCall
<1>5. CallsStep
  BY <1>3, <1>4, SetKeeps DEF StartRun, At, Fits, NoCall, Ends
<1>6. child' \in [Subtasks -> ChildStates]
  BY <1>1 DEF StartRun, ChildStates
<1> QED BY <1>5, <1>6, Untouched DEF GoodStep, RestStep, Passing, StartRun, TypeOK

LEMMA RunGood ==
  ASSUME IInv, BranchAssumption, NEW s \in Subtasks, NEW c \in Calls,
         Turn(s, c) \/ YieldChunk(s, c) \/ FinishRun(s, c)
  PROVE  GoodStep
<1> USE DEF IInv
<1>1. /\ call[s][c] \in CallStates
      /\ child[s] \in ChildStates /\ child \in [Subtasks -> ChildStates]
      /\ NoCall \in CallStates
  BY CallsNone DEF TypeOK
<1>2. NoOne \in Calls \cup {NoOne}
  OBVIOUS
<1>3. CASE Turn(s, c)
  <2>1. call[s][c].turns + 1 \in 0..MaxTurns
    BY <1>1, <1>3 DEF Turn, CallStates, BranchAssumption
  <2>2. [call[s][c] EXCEPT !.turns = @ + 1, !.moved = TRUE] \in CallStates
    BY <1>1, <2>1 DEF CallStates
  <2>3. CallsStep
    BY <1>3, <2>2, SetKeeps DEF Turn, At, Fits, Ends, CallStates
  <2>4. child' \in [Subtasks -> ChildStates]
    BY <1>1, <1>3, <2>1 DEF Turn, ChildStates
  <2> QED BY <1>3, <2>3, <2>4, Untouched DEF GoodStep, RestStep, Passing, Turn, TypeOK
<1>4. CASE YieldChunk(s, c)
  <2>1. [NoCall EXCEPT !.at = "returned", !.out = "yield"] \in CallStates
    BY <1>1 DEF CallStates, CallPlaces, Outcomes, NoCall
  <2>2. CallsStep
    BY <1>4, <2>1, SetKeeps DEF YieldChunk, At, Fits, NoCall, Ends
  <2>3. child' \in [Subtasks -> ChildStates]
    BY <1>1, <1>2, <1>4 DEF YieldChunk, ChildStates, CallStates
  <2> QED BY <1>4, <2>2, <2>3, Untouched DEF GoodStep, RestStep, Passing, YieldChunk, TypeOK
<1>5. CASE FinishRun(s, c)
  <2>1. PICK out \in {"completed", "failed"} :
          /\ Set(s, c, [NoCall EXCEPT !.at = "returned", !.out = out])
          /\ child' = [child EXCEPT ![s] = [@ EXCEPT !.inflight = NoOne,
                                     !.turns = call[s][c].turns, !.cache = out]]
    BY <1>5 DEF FinishRun
  <2>2. [NoCall EXCEPT !.at = "returned", !.out = out] \in CallStates
    BY <1>1 DEF CallStates, CallPlaces, Outcomes, NoCall
  <2>3. CallsStep
    BY <1>5, <2>1, <2>2, SetKeeps DEF FinishRun, At, Fits, NoCall, Ends
  <2>4. [child[s] EXCEPT !.inflight = NoOne, !.turns = call[s][c].turns, !.cache = out]
          \in ChildStates
    BY <1>1, <1>2 DEF ChildStates, CallStates
  <2>5. child' \in [Subtasks -> ChildStates]
    BY <1>1, <2>1, <2>4
  <2> QED BY <1>5, <2>3, <2>5, Untouched DEF GoodStep, RestStep, Passing, FinishRun, TypeOK
<1> QED BY <1>3, <1>4, <1>5

LEMMA ThrowGood ==
  ASSUME IInv, BranchAssumption, NEW s \in Subtasks, NEW c \in Calls,
         Fault(s, c) \/ Rethrow(s, c)
  PROVE  GoodStep
<1> USE DEF IInv
<1>1. NoCall \in CallStates
  BY CallsNone
<1>2. CASE Fault(s, c)
  <2>1. CallsStep
    BY <1>2, CutIs, SetKeeps DEF Fault, Fits, Ends
  <2>2. child' \in [Subtasks -> ChildStates]
    BY <1>2 DEF Fault, TypeOK, ChildStates
  <2> QED BY <1>2, <2>1, <2>2, Untouched DEF GoodStep, RestStep, Passing, Fault, TypeOK
<1>3. CASE Rethrow(s, c)
  <2>1. CallsStep
    BY <1>1, <1>3, SetKeeps DEF Rethrow, NoCall, Fits, Ends
  <2>2. BranchesStep
    BY <1>3, ThrownKeeps DEF Rethrow
  <2> QED BY <1>3, <2>1, <2>2, Untouched DEF GoodStep, RestStep, Passing, Rethrow, TypeOK
<1> QED BY <1>2, <1>3

LEMMA CheckCanceledGood ==
  ASSUME IInv, BranchAssumption, NEW s \in Subtasks, NEW c \in Calls, CheckCanceled(s, c)
  PROVE  GoodStep
<1> USE DEF IInv
<1>1. status[s] # "pending"
  BY DEF CheckCanceled, At, Claimed
<1>2. RowsStep /\ status'[s] \in Settled
  <2>1. status[s] \in {"running"} \cup Settled
    BY <1>1 DEF TypeOK, RowStates, Settled
  <2> QED BY <2>1, MovedStep DEF CheckCanceled, CancelRunning, Settled
<1>3. CASE Go(s, c, "clearing")
  <2>1. CallsStep
    BY <1>2, <1>3, GoKeeps DEF CheckCanceled, At, Fits, NoCall, Ends, CallPlaces
  <2> QED BY <1>2, <2>1, Untouched DEF GoodStep, RestStep, Passing, CheckCanceled, TypeOK
<1>4. CASE Set(s, c, Cut(s, c))
  <2>1. CallsStep
    BY <1>4, CutIs, SetKeeps DEF CheckCanceled, At, Fits, Ends
  <2> QED BY <1>2, <2>1, Untouched DEF GoodStep, RestStep, Passing, CheckCanceled, TypeOK
<1> QED BY <1>3, <1>4 DEF CheckCanceled

LEMMA PublishGood ==
  ASSUME IInv, BranchAssumption, NEW s \in Subtasks, NEW c \in Calls, Publish(s, c)
  PROVE  GoodStep
<1> USE DEF IInv
<1>1. call[s][c] \in CallStates
  BY DEF TypeOK
<1>2. [call[s][c] EXCEPT !.at = "publishing"] \in CallStates
  BY <1>1 DEF CallStates, CallPlaces
<1>3. CallsStep
  BY <1>2, SetKeeps DEF Publish, At, Fits, Ends, CallStates
<1> QED BY <1>3, Untouched DEF GoodStep, RestStep, Passing, Publish, TypeOK

LEMMA PersistGood ==
  ASSUME IInv, BranchAssumption, NEW s \in Subtasks, NEW c \in Calls, Persist(s, c)
  PROVE  GoodStep
<1> USE DEF IInv
<1> DEFINE out == call[s][c].out
<1>0. out \in Outcomes /\ child \in [Subtasks -> ChildStates]
  BY DEF TypeOK, CallStates
<1>1. NoCall \in CallStates
  BY CallsNone
<1>2. CASE out = "yield" /\ Set(s, c, NoCall) /\ Verdict(s, c, FALSE)
           /\ UNCHANGED status
  <2>1. CallsStep
    BY <1>1, <1>2, SetKeeps DEF NoCall, Fits, Ends
  <2>2. BranchesStep
    BY <1>2, VerdictKeeps DEF Persist, At, Ends
  <2> QED BY <1>0, <1>2, <2>1, <2>2, Untouched DEF GoodStep, RestStep, Passing, Persist, TypeOK
<1>3. CASE /\ status[s] = "running" /\ out \in {"completed", "failed"}
           /\ \/ status' = Complete(status, s)
              \/ status' = Fail(status, s)
           /\ Set(s, c, NoCall) /\ Verdict(s, c, TRUE)
  <2>1. RowsStep /\ status'[s] \in Settled
    BY <1>3, MovedStep DEF Complete, Fail, Settled
  <2>2. CallsStep
    BY <1>1, <1>3, SetKeeps DEF NoCall, Fits, Ends
  <2>3. BranchesStep
    BY <1>3, <2>1, VerdictKeeps
  <2> QED BY <1>0, <1>3, <2>1, <2>2, <2>3 DEF GoodStep, RestStep, Passing, Persist, TypeOK
<1>4. CASE /\ status[s] \in Settled
           /\ Go(s, c, "clearing")
           /\ UNCHANGED <<status, branch>>
  <2>1. CallsStep
    BY <1>4, GoKeeps DEF Persist, At, Fits, NoCall, Ends, CallPlaces
  <2> QED BY <1>4, <2>1, Untouched DEF GoodStep, RestStep, Passing, Persist, TypeOK
<1> QED BY <1>0, <1>2, <1>3, <1>4 DEF Persist

-----------------------------------------------------------------------------
(* The branch's last resort, faults, cancellation and the Workflow.        *)

LEMMA FailSubtaskGood ==
  ASSUME IInv, BranchAssumption, NEW s \in Subtasks, NEW c \in Calls, FailSubtask(s, c)
  PROVE  GoodStep
<1> USE DEF IInv
<1>1. status[s] \in {"running", "pending"} \cup Settled
  BY DEF TypeOK, RowStates, Settled
<1>2. RowsStep /\ status'[s] \in Settled
  BY <1>1, MovedStep DEF FailSubtask, Fail, Settled
<1>3. CASE status[s] \in Settled
  BY <1>2, <1>3, RecordKeeps, LoseKeeps, Untouched
     DEF GoodStep, RestStep, Passing, FailSubtask, Attempts, TypeOK
<1>4. CASE status[s] \notin Settled
  <2>1. Fits(s, c, [NoCall EXCEPT !.at = "clearing"])
    BY <1>2 DEF Fits, NoCall, Ends, Settled
  <2>2. CallsStep /\ call'[s][c].at = "clearing"
    BY <1>4, <2>1, GoKeeps DEF FailSubtask, CallPlaces
  <2>3. BranchesStep
    BY <1>4, <2>2, AttemptedKeeps DEF FailSubtask, Attempts, Ends
  <2> QED BY <1>2, <2>2, <2>3 DEF GoodStep, RestStep, Passing, FailSubtask, TypeOK
<1> QED BY <1>3, <1>4

LEMMA LostAttemptGood ==
  ASSUME IInv, BranchAssumption, NEW s \in Subtasks, FailAttempt(s) \/ GiveUp(s)
  PROVE  GoodStep
<1> USE DEF IInv
<1>1. BranchesStep
  BY LoseKeeps DEF FailAttempt, GiveUp, BranchShape
<1>2. faults' \in 0..MaxFaults
  BY DEF FailAttempt, GiveUp, TypeOK, BranchAssumption
<1> QED BY <1>1, <1>2, Untouched DEF GoodStep, RestStep, Passing, FailAttempt, GiveUp, TypeOK

LEMMA EvictGood ==
  ASSUME IInv, BranchAssumption, Evict
  PROVE  GoodStep
<1> USE DEF IInv
<1>1. NoCall \in CallStates /\ NoCall.at = "idle"
  BY CallsNone DEF NoCall
<1>2. call' \in [Subtasks -> [Calls -> CallStates]]
  BY <1>1, CutIs DEF Evict
<1>3. \A s \in Subtasks, c \in Calls : Fits(s, c, call'[s][c])
  BY <1>1, CutIs DEF Evict, At, Fits, Ends
<1>4. child' \in [Subtasks -> ChildStates]
  BY DEF Evict, TypeOK, ChildStates
<1>5. sweeper' \in Passes /\ Passing'
  BY DEF Evict, Idle, Passes, Passing
<1>6. faults' \in 0..MaxFaults
  BY DEF Evict, TypeOK, BranchAssumption
<1> QED BY <1>2, <1>3, <1>4, <1>5, <1>6, Untouched
      DEF GoodStep, RestStep, CallsStep, Evict, TypeOK

LEMMA CancelGood ==
  ASSUME IInv, BranchAssumption, Cancel
  PROVE  GoodStep
<1> USE DEF IInv
<1>1. RowsStep /\ \A s \in Subtasks : status'[s] # "pending"
  BY DEF Cancel, CancelPending, RowsStep, Forward, TypeOK, RowStates, Settled
<1>2. sweeper' \in Passes
  BY DEF Cancel, Passes
<1>3. faults' \in 0..MaxFaults
  BY DEF Cancel, TypeOK, BranchAssumption
<1> QED BY <1>1, <1>2, <1>3, Untouched DEF GoodStep, RestStep, Passing, Cancel, TypeOK

LEMMA CancelPassGood ==
  ASSUME IInv, BranchAssumption, NEW s \in Subtasks,
         SweepSettled(s) \/ AbortRun(s) \/ ResolveRunning(s)
  PROVE  GoodStep
<1> USE DEF IInv
<1>1. /\ sweeper \in Passes /\ Past(s) \in Passes
      /\ [Past(s) EXCEPT !.lost = @ \cup {s}] \in Passes
      /\ [sweeper EXCEPT !.running = @ \ {s}] \in Passes
      /\ Past(s).todo # {} => sweeper.todo # {}
      /\ [Past(s) EXCEPT !.lost = @ \cup {s}].todo = Past(s).todo
      /\ [sweeper EXCEPT !.running = @ \ {s}].todo = sweeper.todo
  BY DEF Past, Passes, TypeOK
<1>2. CASE SweepSettled(s)
  BY <1>1, <1>2, Untouched, DeleteAsIs DEF GoodStep, RestStep, Passing, SweepSettled, TypeOK
<1>3. CASE AbortRun(s)
  <2>1. child' \in [Subtasks -> ChildStates]
    <3>1. child' = [child EXCEPT ![s].live = TRUE]
      BY <1>3 DEF AbortRun
    <3>2. child \in [Subtasks -> ChildStates]
      BY DEF TypeOK
    <3> QED BY <3>1, <3>2 DEF ChildStates
  <2>2. CallsStep
    <3>1. CASE child[s].inflight # NoOne
      <4> DEFINE c == child[s].inflight
      <4>1. c \in Calls /\ call[s][c] \in CallStates
        BY <3>1 DEF TypeOK, ChildStates
      <4>2. [call[s][c] EXCEPT !.aborted = TRUE] \in CallStates
        BY <4>1 DEF CallStates
      <4>3. [call[s][c] EXCEPT !.aborted = TRUE].at = call[s][c].at
        BY <4>1 DEF CallStates
      <4>4. Set(s, c, [call[s][c] EXCEPT !.aborted = TRUE])
        BY <1>3, <3>1 DEF AbortRun
      <4>5. Fits(s, c, [call[s][c] EXCEPT !.aborted = TRUE])
        BY <4>3 DEF Fits
      <4> HIDE DEF c
      <4> QED BY <4>1, <4>2, <4>4, <4>5, SetKeeps
    <3>2. CASE UNCHANGED call
      BY <3>2, Untouched
    <3> QED BY <1>3, <3>1, <3>2 DEF AbortRun
  <2>3. sweeper' \in Passes
    BY <1>1, <1>3 DEF AbortRun, Passes
  <2> QED BY <1>3, <2>1, <2>2, <2>3, Untouched DEF GoodStep, RestStep, Passing, AbortRun, TypeOK
<1>4. CASE ResolveRunning(s)
  <2>1. RowsStep
    BY <1>4, MovedStep DEF ResolveRunning, CancelRunning, Settled
  <2>2. sweeper' \in Passes /\ (sweeper'.todo # {} => sweeper.todo # {})
    BY <1>1, <1>4 DEF ResolveRunning
  <2>3. canceled => \A t \in Subtasks : status'[t] # "pending"
    BY <2>1 DEF Claimed, RowsStep, Forward, Settled
  <2> QED BY <1>4, <2>1, <2>2, <2>3, Untouched
        DEF GoodStep, RestStep, Passing, ResolveRunning, TypeOK
<1> QED BY <1>2, <1>3, <1>4

LEMMA AroundGood ==
  ASSUME IInv, BranchAssumption, Around
  PROVE  GoodStep
<1> USE DEF IInv
<1>1. CASE Join \/ Deliver \/ EndSweep
  BY <1>1, Untouched DEF GoodStep, RestStep, Passing, Join, Deliver, EndSweep, TypeOK
<1>2. ASSUME NEW s \in Subtasks, SweepChild(s) PROVE GoodStep
  BY <1>2, DeleteAsIs, Untouched DEF GoodStep, RestStep, Passing, SweepChild, TypeOK
<1> QED BY <1>1, <1>2 DEF Around

LEMMA StutterGood ==
  ASSUME IInv, UNCHANGED vars
  PROVE  GoodStep
BY Untouched DEF IInv, vars, GoodStep, RestStep, Passing, TypeOK

LEMMA NextGood ==
  ASSUME IInv, BranchAssumption, [Next]_vars
  PROVE  GoodStep
<1>1. ASSUME NEW s \in Subtasks, NEW c \in Calls, Handler(s, c) \/ Fault(s, c)
      PROVE  GoodStep
  BY <1>1, EnterChildGood, StartRunGood, RunGood, ThrowGood, CheckCanceledGood,
     PublishGood, PersistGood, StartFreshGood, ClearGood DEF Handler
<1>2. ASSUME NEW s \in Subtasks, Step(s) \/ FailAttempt(s) \/ GiveUp(s)
      PROVE  GoodStep
  <2>1. ASSUME NEW c \in Calls, Execute(s, c) PROVE GoodStep
    BY <2>1, PrepareEndsGood, PrepareClearsGood, PrepareClaimsGood DEF Execute
  <2> QED BY <1>2, <2>1, FailSubtaskGood, LostAttemptGood DEF Step
<1>3. CASE CancelPass
  BY <1>3, CancelPassGood DEF CancelPass
<1>4. CASE Finished \/ UNCHANGED vars
  BY <1>4, StutterGood DEF Finished
<1> QED BY <1>1, <1>2, <1>3, <1>4, EvictGood, CancelGood, AroundGood DEF Next

LEMMA InitIInv ==
  ASSUME BranchAssumption, Init
  PROVE  IInv
<1>1. /\ 0 \in 0..MaxTurns /\ 0 \in 0..MaxChunks /\ 0 \in 0..(MaxAttempts - 1)
      /\ 0 \in 0..MaxFaults /\ 0 < MaxChunks
  BY DEF BranchAssumption
<1>2. NoCall \in CallStates
  BY <1>1 DEF NoCall, CallStates, CallPlaces, Outcomes
<1>3. NoChild \in ChildStates
  BY <1>1 DEF NoChild, ChildStates
<1>4. TypeOK
  BY <1>1, <1>2, <1>3 DEF Init, TypeOK, RowStates, BranchStates, Idle, Passes
<1>5. /\ Claimed /\ Clearing /\ BranchShape /\ LastResort /\ BranchSettlesRow
      /\ Passing
  BY <1>1 DEF Init, Claimed, Clearing, BranchShape, LastResort, Ends, BranchSettlesRow,
              NoCall, Passing, Idle
<1> QED BY <1>4, <1>5 DEF IInv

-----------------------------------------------------------------------------
\* The invariant holds in every reachable state: a canceled Task has no pending
\* row left, only claimed rows are worked on, and a finished branch's is settled.
THEOREM Invariance == Spec => []IInv
<1>1. Init => IInv
  BY InitIInv, BranchAssumption
<1>2. IInv /\ [Next]_vars => IInv'
  BY NextGood, GoodPreserves, BranchAssumption
<1> QED BY <1>1, <1>2, PTL DEF Spec

\* Every variable keeps its type, for any number of Subtasks, calls and bounds.
THEOREM TypeCorrect == Spec => []TypeOK
<1>1. IInv => TypeOK
  BY DEF IInv
<1> QED BY <1>1, Invariance, PTL

\* runBranch leaves its row terminal whatever was canceled, lost or retried.
THEOREM BranchesSettle == Spec => []BranchSettlesRow
<1>1. IInv => BranchSettlesRow
  BY DEF IInv
<1> QED BY <1>1, Invariance, PTL

\* A settled row never changes: whichever of a result, a failure and a
\* cancellation comes first stands.
THEOREM SettledOnce == Spec => RowSettlesOnce
<1> DEFINE Stays == \A s \in Subtasks : status[s] \in Settled => status'[s] = status[s]
<1>1. IInv /\ [Next]_vars => [Stays]_vars
  <2> SUFFICES ASSUME IInv, [Next]_vars PROVE Stays
    OBVIOUS
  <2>1. RowsStep
    BY NextGood, BranchAssumption DEF GoodStep
  <2> QED BY <2>1 DEF RowsStep, Forward, Settled
<1>2. Spec => [][Stays]_vars
  BY <1>1, Invariance, PTL DEF Spec
<1> QED BY <1>2 DEF RowSettlesOnce

-----------------------------------------------------------------------------
(* The checkpoint of a running Subtask.                                    *)

\* What CheckpointKept asks of a step, and of a state it may ask it of.
Resumable(s) == /\ status[s] = "running" /\ ~canceled
                /\ phase = "running" /\ ~Overtaken(s) /\ ~Owed(s)
Kept(s) == /\ child'[s].turns >= child[s].turns
           /\ child[s].cache # "none" => child'[s].cache # "none"

\* A child left with its turns and its result has kept them.
LEMMA SameKept ==
  ASSUME TypeOK, BranchAssumption, NEW s \in Subtasks,
         child'[s].turns = child[s].turns, child'[s].cache = child[s].cache
  PROVE  Kept(s)
<1>1. child[s].turns \in Nat
  BY DEF TypeOK, ChildStates, BranchAssumption
<1> QED BY <1>1 DEF Kept

\* The first stretch of a call leaves the child alone, and only a call that has
\* won the claim deletes it next.
LEMMA ExecuteKeeps ==
  ASSUME IInv, BranchAssumption, NEW s \in Subtasks, Resumable(s),
         NEW t \in Subtasks, NEW c \in Calls, Execute(t, c) \/ StartFresh(t, c)
  PROVE  Kept(s)
<1> USE DEF IInv
<1>1. child \in [Subtasks -> ChildStates]
  BY DEF TypeOK
<1>2. child'[s] = child[s]
  BY <1>1 DEF Execute, PrepareEnds, PrepareClears, PrepareClaims, StartFresh, DeleteChild,
              Resumable, Owed
<1> QED BY <1>2, SameKept

\* The run: it counts on from the checkpoint it resumed, and leaves its result.
LEMMA RunKeeps ==
  ASSUME IInv, BranchAssumption, NEW s \in Subtasks, Resumable(s),
         NEW t \in Subtasks, NEW c \in Calls,
         EnterChild(t, c) \/ StartRun(t, c) \/ Turn(t, c) \/ YieldChunk(t, c)
           \/ FinishRun(t, c) \/ Fault(t, c)
  PROVE  Kept(s)
<1> USE DEF IInv
<1>1. /\ child \in [Subtasks -> ChildStates]
      /\ child[s] \in ChildStates /\ child[s].turns \in Nat
  BY DEF TypeOK, ChildStates, BranchAssumption
<1>2. CASE \/ EnterChild(t, c) \/ StartRun(t, c) \/ Fault(t, c)
  <2>1. /\ child'[s].turns = child[s].turns
        /\ child'[s].cache = child[s].cache
    BY <1>1, <1>2 DEF EnterChild, StartRun, Fault, ChildStates
  <2> QED BY <2>1, SameKept
<1>3. At(t, c, "inside") /\ t = s => /\ call[s][c].turns \in Nat
                                     /\ call[s][c].turns >= child[s].turns
  <2>1. call[t][c].turns \in Nat
    BY DEF TypeOK, CallStates, BranchAssumption
  <2> QED BY <1>1, <2>1 DEF Resumable, Overtaken
<1>4. CASE Turn(t, c)
  <2>1. child' \in {child, [child EXCEPT ![t].turns = call[t][c].turns + 1]}
    BY <1>4 DEF Turn
  <2>2. /\ child'[s].turns >= child[s].turns
        /\ child'[s].cache = child[s].cache
    BY <1>1, <1>3, <1>4, <2>1 DEF Turn, ChildStates
  <2> QED BY <1>1, <2>2 DEF Kept
<1>5. CASE YieldChunk(t, c)
  <2>1. /\ child'[s].turns >= child[s].turns
        /\ child'[s].cache = child[s].cache
    BY <1>1, <1>3, <1>5 DEF YieldChunk, ChildStates
  <2> QED BY <2>1 DEF Kept
<1>6. CASE FinishRun(t, c)
  <2>1. PICK out \in {"completed", "failed"} :
          child' = [child EXCEPT ![t] = [@ EXCEPT !.inflight = NoOne,
                                     !.turns = call[t][c].turns, !.cache = out]]
    BY <1>6 DEF FinishRun
  <2>2. child'[s].turns = IF t = s THEN call[t][c].turns ELSE child[s].turns
    BY <1>1, <2>1 DEF ChildStates
  <2>3. child'[s].cache \in {child[s].cache, out}
    BY <1>1, <2>1 DEF ChildStates
  <2>4. child'[s].turns >= child[s].turns
    BY <1>1, <1>3, <1>6, <2>2 DEF FinishRun
  <2> QED BY <1>1, <2>3, <2>4 DEF Kept
<1> QED BY <1>2, <1>4, <1>5, <1>6

\* Back in the parent: only a settled row's child is deleted there.
LEMMA ReturnKeeps ==
  ASSUME IInv, BranchAssumption, NEW s \in Subtasks, Resumable(s),
         NEW t \in Subtasks, NEW c \in Calls,
         Rethrow(t, c) \/ CheckCanceled(t, c) \/ Publish(t, c) \/ Persist(t, c)
           \/ Clear(t, c)
  PROVE  Kept(s)
<1> USE DEF IInv
<1>1. child \in [Subtasks -> ChildStates]
  BY DEF TypeOK
<1>2. child'[s] = child[s]
  BY <1>1 DEF Rethrow, CheckCanceled, Publish, Persist, Clear, At, Clearing, DeleteChild,
              Resumable, Settled
<1> QED BY <1>2, SameKept

\* The fail step leaves the child to the stretch after it.
LEMMA FailKeeps ==
  ASSUME IInv, BranchAssumption, NEW s \in Subtasks, NEW t \in Subtasks,
         FailAttempt(t) \/ GiveUp(t) \/ \E c \in Calls : FailSubtask(t, c)
  PROVE  Kept(s)
<1>1. child'[s] = child[s]
  BY DEF FailSubtask, FailAttempt, GiveUp
<1> QED BY <1>1, SameKept DEF IInv

\* An eviction takes what was in flight; a pass only follows a cancellation, and
\* the delivery's sweep only the branches.
LEMMA RestKeeps ==
  ASSUME IInv, BranchAssumption, NEW s \in Subtasks, Resumable(s),
         Evict \/ Cancel \/ CancelPass \/ Around \/ UNCHANGED vars
  PROVE  Kept(s)
<1> USE DEF IInv
<1>1. child \in [Subtasks -> ChildStates] /\ child[s] \in ChildStates
  BY DEF TypeOK
<1>2. CASE Evict
  <2>1. /\ child'[s].turns = child[s].turns
        /\ child'[s].cache = child[s].cache
    BY <1>1, <1>2 DEF Evict, ChildStates
  <2> QED BY <2>1, SameKept
<1>3. CASE CancelPass
  <2>1. child'[s] = child[s]
    BY <1>3 DEF CancelPass, SweepSettled, AbortRun, ResolveRunning, Passing, Resumable
  <2> QED BY <2>1, SameKept
<1>4. CASE Cancel \/ Around \/ UNCHANGED vars
  <2>1. child'[s] = child[s]
    BY <1>4 DEF Cancel, Around, Join, Deliver, SweepChild, EndSweep, Resumable, vars
  <2> QED BY <2>1, SameKept
<1> QED BY <1>2, <1>3, <1>4

\* While a row is running and nobody has canceled it, no retry, late call, fault
\* or eviction throws its checkpoint or its stored result away.
THEOREM CheckpointsKept == Spec => CheckpointKept
<1> DEFINE Keeps == \A s \in Subtasks :
             /\ status[s] = "running" /\ status'[s] = "running" /\ ~canceled
             /\ phase = "running" /\ ~Overtaken(s) /\ ~Owed(s)
             => /\ child'[s].turns >= child[s].turns
                /\ child[s].cache # "none" => child'[s].cache # "none"
<1>1. IInv /\ [Next]_vars => [Keeps]_vars
  <2> SUFFICES ASSUME IInv, [Next]_vars PROVE Keeps
    OBVIOUS
  <2> SUFFICES ASSUME NEW s \in Subtasks, Resumable(s), status'[s] = "running"
               PROVE  Kept(s)
    BY DEF Resumable, Kept
  <2>1. ASSUME NEW t \in Subtasks, NEW c \in Calls, Handler(t, c) \/ Fault(t, c)
        PROVE  Kept(s)
    BY <2>1, ExecuteKeeps, RunKeeps, ReturnKeeps, BranchAssumption DEF Handler
  <2>2. ASSUME NEW t \in Subtasks, Step(t) \/ FailAttempt(t) \/ GiveUp(t)
        PROVE  Kept(s)
    BY <2>2, ExecuteKeeps, FailKeeps, BranchAssumption DEF Step
  <2>3. CASE Evict \/ Cancel \/ CancelPass \/ Around \/ UNCHANGED vars
    BY <2>3, RestKeeps, BranchAssumption
  <2> QED BY <2>1, <2>2, <2>3 DEF Next, Finished
<1>2. Spec => [][Keeps]_vars
  BY <1>1, Invariance, PTL DEF Spec
<1> QED BY <1>2 DEF CheckpointKept
=============================================================================
