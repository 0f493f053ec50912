----------------------------- MODULE RoundLoop -----------------------------
(***************************************************************************)
(* The rounds of one task: orchestrate's loop in round/workflow.ts and the *)
(* handler it calls, runTaskTurn / decideRound in round/agent.ts, which    *)
(* must recover from the durable Session and Subtask rows whatever an      *)
(* earlier attempt of the same round left behind.                          *)
(*                                                                         *)
(* The handler leaves its object only while the model works, so it is two  *)
(* atomic stretches with the turns of the model between them.  An attempt  *)
(* the Workflow gives up on goes on in the object.  A round's Subtasks are *)
(* one step here; SubtaskBranch opens it up.                               *)
(***************************************************************************)
EXTENDS Integers

CONSTANTS MaxTurns,    \* mainAgentLimits.maxTurns
          Words,       \* what a model can answer
          Nobody,      \* no words, or no call
          Calls,       \* slots for concurrent calls of runTaskTurn
          MaxAttempts, \* attempts a durable step gets before it throws
          MaxFaults    \* lost answers and resets, a bound of the model

ASSUME RoundAssumption ==
  /\ {MaxTurns, MaxAttempts} \subseteq Nat \ {0} /\ MaxFaults \in Nat
  /\ Nobody \notin Words \cup Calls

VARIABLES canceled, \* whether the Task's row is canceled
          overdue,  \* whether maxWallMs has passed since the Task started
          reply,    \* the final reply in the Session, or Nobody
          acks,     \* the rounds whose acknowledgment is in the Session
          rows,     \* each round's Subtasks
          wf,       \* the Workflow: place, round, recorded turns, attempt
          call,     \* each call of runTaskTurn
          free,     \* rounds recorded as delegated at no cost (history)
          faults    \* faults so far

vars == <<canceled, overdue, reply, acks, rows, wf, call, free, faults>>

Rounds == 0..MaxTurns

\* A round's Subtasks: none, not all settled, all settled with at least one
\* completed, all settled with none completed.
RowSets == {"none", "open", "some", "null"}

Driven == {"deadline", "turn", "scan", "branches"}
Outcomes == {"replied", "failed", "exhausted", "canceled", "threw"}

\* What a round may spend when the Task has `left` turns: an attempt that begins
\* with nothing left still gets one step, and in a forced answer both do.
Ceiling(left) == IF left < 1 THEN 2 ELSE left + 1

NoCall == [busy |-> FALSE, round |-> 0, mode |-> "open", left |-> 0, spent |-> 0,
           join |-> FALSE]

TypeOK ==
  /\ canceled \in BOOLEAN /\ overdue \in BOOLEAN
  /\ reply \in Words \cup {Nobody}
  /\ acks \in SUBSET Rounds
  /\ rows \in [Rounds -> RowSets]
  /\ wf \in [at : Driven \cup Outcomes, round : Rounds, used : 0..(MaxTurns + 3),
             mode : {"open", "final"}, tries : 0..(MaxAttempts - 1),
             attempt : Calls \cup {Nobody}, says : Words \cup {Nobody}]
  /\ call \in [Calls -> [busy : BOOLEAN, round : Rounds, mode : {"open", "final"},
                         left : -1..MaxTurns, spent : 0..(MaxTurns + 1),
                         join : BOOLEAN]]
  /\ free \in 0..(MaxTurns + 1) /\ faults \in 0..MaxFaults

Init ==
  /\ canceled = FALSE /\ overdue = FALSE
  /\ reply = Nobody /\ acks = {} /\ rows = [r \in Rounds |-> "none"]
  /\ wf = [at |-> "deadline", round |-> 0, used |-> 0, mode |-> "open", tries |-> 0,
           attempt |-> Nobody, says |-> Nobody]
  /\ call = [c \in Calls |-> NoCall]
  /\ free = 0 /\ faults = 0

-----------------------------------------------------------------------------
(* Durable steps.                                                          *)

Goto(place) == wf' = [wf EXCEPT !.at = place, !.tries = 0, !.attempt = Nobody]

\* Regression: attempts without end.
LoseForever == wf' = [wf EXCEPT !.attempt = Nobody]
\* An attempt is lost: another, or the step throws out of the loop.
Lose ==
  wf' = IF wf.tries + 1 < MaxAttempts
          THEN [wf EXCEPT !.tries = @ + 1, !.attempt = Nobody]
          ELSE [wf EXCEPT !.at = "threw", !.tries = 0, !.attempt = Nobody]

\* Regression: a loop of maxTurns rounds, without the one for the forced answer.
NextRoundShort ==
  IF wf.round + 1 < MaxTurns
    THEN wf' = [wf EXCEPT !.at = "deadline", !.round = @ + 1, !.tries = 0]
    ELSE Goto("exhausted")

\* The loop runs rounds 0..maxTurns, one more than the budget pays for.
NextRound ==
  IF wf.round < MaxTurns
    THEN wf' = [wf EXCEPT !.at = "deadline", !.round = @ + 1, !.tries = 0]
    ELSE Goto("exhausted")

\* The turn step returned: its cost is added and its status routed.
Record(status, says, spent) ==
  /\ wf' = [wf EXCEPT !.at = IF status = "delegated" THEN "scan" ELSE status,
                      !.used = @ + spent, !.says = says,
                      !.tries = 0, !.attempt = Nobody]
  /\ free' = IF status = "delegated" /\ spent = 0 THEN free + 1 ELSE free

\* The handler answers: the answer is recorded, or lost on the way back.
Answered(status, says, spent) ==
  Record(status, says, spent) \/ (Lose /\ UNCHANGED free)

\* A call the Workflow has given up on concerns it no more.
Verdict(c, status, says, spent) ==
  IF wf.attempt = c THEN Answered(status, says, spent) ELSE UNCHANGED <<wf, free>>

\* Regression: an append that replaces what the Session holds.
AppendReplaces(words) == words

\* appendOnce under the Task's deterministic id: the first words stay, and are
\* what every later appender gets back.
AppendOnce(words) == IF reply = Nobody THEN words ELSE reply

-----------------------------------------------------------------------------
(* decideRound.                                                            *)

\* deadline:<round>, whose recorded answer fixes the round's mode.
Deadline ==
  /\ wf.at = "deadline"
  /\ \/ wf' = [wf EXCEPT !.at = "turn", !.tries = 0,
                 !.mode = IF wf.used >= MaxTurns \/ overdue THEN "final" ELSE "open"]
     \/ Lose
  /\ UNCHANGED <<canceled, overdue, reply, acks, rows, call, free, faults>>

\* The recovery order, without inference and at no cost: a canceled Task stops, a
\* durable reply is the answer, rows of this round are its delegation.
Recover ==
  /\ \/ /\ canceled
        /\ Answered("canceled", Nobody, 0)
     \/ /\ ~canceled /\ reply # Nobody
        /\ Answered("replied", reply, 0)
     \/ /\ ~canceled /\ reply = Nobody /\ rows[wf.round] # "none"
        /\ Answered("delegated", Nobody, 0)
  /\ UNCHANGED call

\* Regression: every round given the Task's whole budget.
InferFullBudget(c) ==
  /\ ~canceled /\ reply = Nobody /\ rows[wf.round] = "none"
  /\ call' = [call EXCEPT ![c] =
       [busy |-> TRUE, round |-> wf.round, mode |-> wf.mode, left |-> MaxTurns,
        spent |-> 0, join |-> \E r \in Rounds : rows[r] = "some"]]
  /\ wf' = [wf EXCEPT !.attempt = c]
  /\ UNCHANGED free

\* Otherwise infer, over the branches as they are now.
Infer(c) ==
  /\ ~canceled /\ reply = Nobody /\ rows[wf.round] = "none"
  /\ call' = [call EXCEPT ![c] =
       [busy |-> TRUE, round |-> wf.round, mode |-> wf.mode,
        left |-> MaxTurns - wf.used, spent |-> 0,
        join |-> \E r \in Rounds : rows[r] = "some"]]
  /\ wf' = [wf EXCEPT !.attempt = c]
  /\ UNCHANGED free

\* runTaskTurn reaches the object.
RunTaskTurn(c) ==
  /\ wf.at = "turn" /\ wf.attempt = Nobody /\ ~call[c].busy
  /\ Recover \/ Infer(c)
  /\ UNCHANGED <<canceled, overdue, reply, acks, rows, faults>>

Ends(c) == call' = [call EXCEPT ![c] = NoCall]

\* A turn of a model, charged to the round's budget.
ModelTurn(c) ==
  /\ call[c].busy /\ call[c].spent < Ceiling(call[c].left)
  /\ call' = [call EXCEPT ![c].spent = @ + 1]
  /\ UNCHANGED <<canceled, overdue, reply, acks, rows, wf, free, faults>>

\* The round answers, with a model's words or, when no model could, the join of
\* the completed branches.  The words are durable before the cancellation is
\* looked at again.
Replies(c) ==
  /\ call[c].busy /\ (call[c].spent > 0 \/ call[c].join)
  /\ \E w \in Words : reply' = AppendOnce(w)
  /\ IF canceled THEN Verdict(c, "canceled", Nobody, call[c].spent)
                 ELSE Verdict(c, "replied", reply', call[c].spent)
  /\ Ends(c)
  /\ UNCHANGED <<canceled, overdue, acks, rows, faults>>

\* A round's rows are made in one transaction, and once: rows that are already
\* there stand, whatever this attempt's model proposed.
CreateDecomposition(round) ==
  IF rows[round] = "none" THEN [rows EXCEPT ![round] = "open"] ELSE rows

\* Regressions: no second look at the cancellation, and an acknowledgment that
\* only a recorded answer leaves in the Session.
DelegatesAnyway(c) ==
  /\ call[c].busy /\ call[c].mode = "open" /\ call[c].spent > 0
  /\ acks' = acks \cup {call[c].round}
  /\ rows' = CreateDecomposition(call[c].round)
  /\ Verdict(c, "delegated", Nobody, call[c].spent)
  /\ Ends(c)
  /\ UNCHANGED <<canceled, overdue, reply, faults>>
DelegatesAckLater(c) ==
  /\ call[c].busy /\ call[c].mode = "open" /\ call[c].spent > 0 /\ ~canceled
  /\ rows' = CreateDecomposition(call[c].round)
  /\ Verdict(c, "delegated", Nobody, call[c].spent)
  /\ acks' = IF wf'.at = "scan" THEN acks \cup {call[c].round} ELSE acks
  /\ Ends(c)
  /\ UNCHANGED <<canceled, overdue, reply, faults>>

\* The round delegates: its acknowledgment is durable before its rows exist.
Delegates(c) ==
  /\ call[c].busy /\ call[c].mode = "open" /\ call[c].spent > 0
  /\ acks' = acks \cup {call[c].round}
  /\ IF canceled
       THEN /\ Verdict(c, "canceled", Nobody, call[c].spent)
            /\ UNCHANGED rows
       ELSE /\ Verdict(c, "delegated", Nobody, call[c].spent)
            /\ rows' = CreateDecomposition(call[c].round)
  /\ Ends(c)
  /\ UNCHANGED <<canceled, overdue, reply, faults>>

\* Both models fail for good and no branch has completed.
FailsRound(c) ==
  /\ call[c].busy /\ ~call[c].join
  /\ Verdict(c, "failed", Nobody, call[c].spent)
  /\ Ends(c)
  /\ UNCHANGED <<canceled, overdue, reply, acks, rows, faults>>

\* A transient fault: the call throws, perhaps with the acknowledgment stored and
\* the rows not made.
Throws(c) ==
  /\ call[c].busy
  /\ \/ UNCHANGED acks
     \/ /\ call[c].mode = "open" /\ call[c].spent > 0
        /\ acks' = acks \cup {call[c].round}
  /\ IF wf.attempt = c THEN Lose ELSE UNCHANGED wf
  /\ Ends(c)
  /\ UNCHANGED <<canceled, overdue, reply, rows, free, faults>>

-----------------------------------------------------------------------------
(* The rest of the loop, and what may befall it.                           *)

Settle(state) == [r \in Rounds |-> IF rows[r] = "open" THEN state ELSE rows[r]]

\* scan:<round>, and cancel:<round> when it reports a cancellation.
Scan ==
  /\ wf.at = "scan"
  /\ \/ /\ canceled
        /\ rows' = Settle("null")
        /\ Goto("canceled") \/ Lose
     \/ /\ ~canceled
        /\ Goto("branches") \/ Lose
        /\ UNCHANGED rows
  /\ UNCHANGED <<canceled, overdue, reply, acks, call, free, faults>>

\* Regression: a branch's fault taken for a cancellation.
BranchesSwallow ==
  /\ wf.at = "branches"
  /\ \/ /\ \E state \in {"some", "null"} : rows' = Settle(state)
        /\ NextRound
     \/ /\ Goto("canceled")
        /\ UNCHANGED rows
  /\ UNCHANGED <<canceled, overdue, reply, acks, call, free, faults>>

\* Every branch has ended with its row settled, or one of them threw.
Branches ==
  /\ wf.at = "branches"
  /\ \/ /\ \E state \in {"some", "null"} : rows' = Settle(state)
        /\ NextRound
     \/ /\ Goto("threw")
        /\ UNCHANGED rows
  /\ UNCHANGED <<canceled, overdue, reply, acks, call, free, faults>>

\* markCanceled; rows no branch has claimed are canceled with the Task.
Cancel ==
  /\ ~canceled /\ wf.at \in Driven
  /\ canceled' = TRUE
  /\ rows' = IF wf.at = "branches" THEN rows ELSE Settle("null")
  /\ UNCHANGED <<overdue, reply, acks, wf, call, free, faults>>

\* maxWallMs runs out.
Tick == /\ ~overdue
        /\ overdue' = TRUE
        /\ UNCHANGED <<canceled, reply, acks, rows, wf, call, free, faults>>

\* The Workflow gives up on an attempt; its call goes on.
GiveUp == /\ wf.attempt # Nobody /\ faults < MaxFaults
          /\ Lose
          /\ faults' = faults + 1
          /\ UNCHANGED <<canceled, overdue, reply, acks, rows, call, free>>

\* The object is reset: calls are gone, the Session and the rows stay.
Evict == /\ \E c \in Calls : call[c].busy
         /\ faults < MaxFaults
         /\ call' = [c \in Calls |-> NoCall]
         /\ IF wf.attempt # Nobody THEN Lose ELSE UNCHANGED wf
         /\ faults' = faults + 1
         /\ UNCHANGED <<canceled, overdue, reply, acks, rows, free>>

Finished == /\ wf.at \in Outcomes /\ \A c \in Calls : ~call[c].busy
            /\ UNCHANGED vars

Drive == Deadline \/ (\E c \in Calls : RunTaskTurn(c)) \/ Scan \/ Branches
Conclude(c) == Replies(c) \/ Delegates(c) \/ FailsRound(c) \/ Throws(c)

Next == \/ Drive
        \/ \E c \in Calls : ModelTurn(c) \/ Conclude(c)
        \/ Cancel \/ Tick \/ GiveUp \/ Evict \/ Finished

Spec == Init /\ [][Next]_vars

\* The engine drives the instance, and a model loop, bounded by its budget,
\* comes to some conclusion.
FairSpec == /\ Spec
            /\ WF_vars(Drive)
            /\ \A c \in Calls : WF_vars(Conclude(c))

-----------------------------------------------------------------------------
(* Properties.                                                             *)

\* The reply the Workflow delivers is the one in the Session, and those words
\* never change: however many attempts of a round answered, the user is never
\* given different words for the same Task.
AnswerStands ==
  [][/\ reply # Nobody => reply' = reply
     /\ wf'.at = "replied" => wf'.says = reply' /\ reply' # Nobody]_vars

\* No Subtask is created for a canceled Task, though its model was working when
\* the cancellation came.
NothingAfterCancel ==
  [][canceled => \A r \in Rounds : rows[r] = "none" => rows'[r] = "none"]_vars

\* A round with rows has its acknowledgment in the Session, whichever attempt
\* made them, so recovering a delegated round always finds its words.
RowsAreAcknowledged == \A r \in Rounds : rows[r] # "none" => r \in acks

\* The recorded spend overshoots the budget by at most one turn in the open
\* rounds together, and the forced answer adds at most two.
SpendBounded ==
  /\ wf.used <= MaxTurns + 3
  /\ wf.at \in {"turn", "scan", "branches"} => wf.used <= MaxTurns + 1

\* The loop runs out of rounds only if some delegated round was recorded at no
\* cost, that is, recovered after its first attempt's answer was lost; it can
\* (NeverOutOfRounds is refuted), and this is the only way it does.
ExhaustedOnlyIfFree == wf.at = "exhausted" => free > 0

\* round/workflow.ts: the line after the loop is "Unreachable", since an open
\* round always spends a turn and a final one never delegates.
NeverOutOfRounds == wf.at # "exhausted"

\* The loop comes to an end.
RoundsEnd == <>(wf.at \in Outcomes)

-----------------------------------------------------------------------------
(* Refinement: to Delivery, all this is its place "rounds".                *)

D == INSTANCE Delivery WITH
  Sweeps <- TRUE,
  row    <- [state |-> IF canceled THEN "canceled" ELSE "working",
             text |-> "", stamp |-> 0],
  pc     <- CASE wf.at \in Driven -> "rounds" [] wf.at = "canceled" -> "ended"
              [] OTHER -> "complete",
  path   <- IF wf.at = "threw" THEN "abandoned" ELSE "main",
  tries  <- 0,
  answer <- CASE wf.at = "replied" -> "reply" [] wf.at = "failed" -> "failure copy"
              [] wf.at = "exhausted" -> "task failed" [] OTHER -> "",
  built  <- [state |-> "none", text |-> "", stamp |-> 0],
  heard  <- {}

\* Every step of the loop is a step of Delivery's round loop or invisible to it:
\* it ends in an answer to deliver, a fault to recover from, or a cancellation
\* that really is in the row.
IsDeliverysLoop == [][D!Next]_(D!vars)
=============================================================================
