--------------------------- MODULE RoundLoopProofs ---------------------------
(***************************************************************************)
(* Proofs about RoundLoop for any budget, number of attempts, calls at     *)
(* once and faults: one answer, a bounded spend, acknowledged rounds, and  *)
(* no work begun for a canceled task.                                      *)
(***************************************************************************)
EXTENDS RoundLoop, TLAPS

Modes == {"open", "final"}
Places == Driven \cup Outcomes

Typed ==
  /\ canceled \in BOOLEAN /\ overdue \in BOOLEAN
  /\ reply \in Words \cup {Nobody}
  /\ acks \in SUBSET Rounds
  /\ rows \in [Rounds -> RowSets]
  /\ wf \in [at : Places, round : Rounds, used : Nat, mode : Modes, tries : 0..(MaxAttempts - 1),
             attempt : Calls \cup {Nobody}, says : Words \cup {Nobody}]
  /\ call \in [Calls -> [busy : BOOLEAN, round : Rounds, mode : Modes, left : -1..MaxTurns,
                         spent : Nat, join : BOOLEAN]]
  /\ free \in Nat /\ faults \in 0..MaxFaults

\* The spend when a round begins and once it is over.
Spend ==
  /\ wf.used <= MaxTurns + 3
  /\ wf.at \in Driven => wf.used <= MaxTurns + 1
  /\ wf.at = "turn" /\ wf.mode = "open" => wf.used < MaxTurns

\* The call that the Workflow waits for is of its round, with what is left to it.
Attempt ==
  /\ \A c \in Calls : call[c].spent <= Ceiling(call[c].left)
  /\ wf.attempt # Nobody =>
       /\ wf.at = "turn" /\ call[wf.attempt].busy
       /\ call[wf.attempt].mode = wf.mode
       /\ call[wf.attempt].left = MaxTurns - wf.used

\* Each delegated round cost a turn or is counted as free, and one that was paid
\* for was not the last.
Paid ==
  /\ wf.at \in {"deadline", "turn"} => free <= wf.round /\ wf.used + free >= wf.round
  /\ wf.at \in {"scan", "branches"} => /\ free <= wf.round + 1
                                       /\ wf.used + free >= wf.round + 1
                                       /\ free > 0 \/ wf.round < MaxTurns
  /\ free <= MaxTurns + 1

\* What a recorded reply says is what the Session holds.
Replied == wf.at = "replied" => wf.says = reply /\ reply # Nobody

IInv == Typed /\ Spend /\ Attempt /\ Paid /\ Replied /\ RowsAreAcknowledged /\ ExhaustedOnlyIfFree

\* The parts of the invariant that speak of the Workflow and its calls.
WfInv == Spend /\ Attempt /\ Paid /\ Replied /\ ExhaustedOnlyIfFree

WfType == [at : Places, round : Rounds, used : Nat, mode : Modes, tries : 0..(MaxAttempts - 1),
           attempt : Calls \cup {Nobody}, says : Words \cup {Nobody}]

CallType == [busy : BOOLEAN, round : Rounds, mode : Modes, left : -1..MaxTurns,
             spent : Nat, join : BOOLEAN]

-----------------------------------------------------------------------------
(* Moves of the Workflow.                                                  *)

LEMMA Numbers ==
  ASSUME RoundAssumption
  PROVE  /\ MaxTurns \in Nat \ {0} /\ MaxAttempts \in Nat \ {0} /\ MaxFaults \in Nat
         /\ Nobody \notin Words /\ Nobody \notin Calls
BY DEF RoundAssumption

\* A call that ends is not waited for any more.
LEMMA CallEnds ==
  ASSUME RoundAssumption, Typed, NEW c \in Calls, Ends(c)
  PROVE  /\ call' \in [Calls -> CallType]
         /\ \A d \in Calls : call'[d] = IF d = c THEN NoCall ELSE call[d]
<1>1. NoCall \in CallType
  BY Numbers DEF NoCall, CallType, Modes, Rounds
<1> QED BY <1>1 DEF Typed, Ends, CallType

\* The move of the Workflow when an attempt is lost.
LEMMA Lost ==
  ASSUME RoundAssumption, Typed, Lose
  PROVE  /\ wf' \in WfType
         /\ wf'.at \in {wf.at, "threw"} /\ wf'.used = wf.used /\ wf'.round = wf.round
         /\ wf'.mode = wf.mode /\ wf'.says = wf.says /\ wf'.attempt = Nobody
<1>0. wf \in WfType
  BY DEF Typed, WfType
<1>1. CASE wf.tries + 1 < MaxAttempts
  <2>1. wf' = [wf EXCEPT !.tries = @ + 1, !.attempt = Nobody]
    BY <1>1 DEF Lose
  <2>2. wf.tries + 1 \in 0..(MaxAttempts - 1)
    BY <1>0, <1>1, Numbers DEF WfType
  <2> QED BY <1>0, <2>1, <2>2 DEF WfType
<1>2. CASE ~(wf.tries + 1 < MaxAttempts)
  <2>1. wf' = [wf EXCEPT !.at = "threw", !.tries = 0, !.attempt = Nobody]
    BY <1>2 DEF Lose
  <2>2. "threw" \in Places /\ 0 \in 0..(MaxAttempts - 1)
    BY Numbers DEF Places, Outcomes
  <2> QED BY <1>0, <2>1, <2>2 DEF WfType
<1> QED BY <1>1, <1>2

\* An attempt that is lost leaves what the invariant says of the others.
LEMMA LoseGood ==
  ASSUME RoundAssumption, Typed, WfInv, wf.at \in Driven, Lose, free' = free, reply' = reply,
         call' \in [Calls -> CallType], \A c \in Calls : call'[c] \in {call[c], NoCall}
  PROVE  wf' \in WfType /\ WfInv'
<1>1. wf' \in WfType
      /\ wf'.at \in {wf.at, "threw"} /\ wf'.used = wf.used /\ wf'.round = wf.round
      /\ wf'.mode = wf.mode /\ wf'.says = wf.says /\ wf'.attempt = Nobody
  BY Lost
<1>2. Spend' /\ Paid' /\ Replied' /\ ExhaustedOnlyIfFree'
  BY <1>1 DEF WfInv, Spend, Paid, Replied, ExhaustedOnlyIfFree, Driven
<1>3. Attempt'
  BY <1>1 DEF WfInv, Attempt, Ceiling, NoCall
<1> QED BY <1>1, <1>2, <1>3 DEF WfInv

\* A step that leaves the Workflow alone, and the calls it waits for.
LEMMA RestGood ==
  ASSUME RoundAssumption, Typed, WfInv, wf' = wf, free' = free,
         reply' = reply \/ (reply = Nobody /\ reply' \in Words),
         call' \in [Calls -> CallType],
         \A c \in Calls : call'[c].spent <= Ceiling(call'[c].left),
         \A c \in Calls : wf.attempt = c =>
           call'[c].busy /\ call'[c].mode = call[c].mode /\ call'[c].left = call[c].left
  PROVE  wf' \in WfType /\ WfInv'
<1>1. wf' \in WfType
  BY DEF Typed, WfType
<1>2. Spend' /\ Paid' /\ ExhaustedOnlyIfFree'
  BY DEF WfInv, Spend, Paid, ExhaustedOnlyIfFree
<1>3. Replied'
  BY DEF WfInv, Replied
<1>4. Attempt'
  <2>1. wf.attempt # Nobody => wf.attempt \in Calls
    BY DEF Typed
  <2> QED BY <2>1 DEF WfInv, Attempt
<1> QED BY <1>1, <1>2, <1>3, <1>4 DEF WfInv

\* The turn step is recorded with what it cost.
LEMMA RecordGood ==
  ASSUME RoundAssumption, Typed, WfInv, wf.at = "turn",
         NEW status \in {"replied", "failed", "canceled", "delegated"}, NEW says \in Words \cup {Nobody},
         NEW spent \in Nat, Record(status, says, spent),
         spent = 0 \/ spent <= Ceiling(MaxTurns - wf.used),
         status = "delegated" => spent = 0 \/ wf.mode = "open",
         status = "replied" => says = reply' /\ reply' # Nobody,
         call' \in [Calls -> CallType], \A c \in Calls : call'[c] \in {call[c], NoCall}
  PROVE  wf' \in WfType /\ free' \in Nat /\ WfInv'
<1>0. /\ wf.used \in Nat /\ wf.round \in Nat /\ wf.round <= MaxTurns /\ free \in Nat
      /\ MaxTurns \in Nat \ {0} /\ wf.used <= MaxTurns + 1
  BY Numbers DEF Typed, Rounds, WfInv, Spend, Driven
<1>1. /\ wf' \in WfType
      /\ wf'.at = (IF status = "delegated" THEN "scan" ELSE status)
      /\ wf'.used = wf.used + spent /\ wf'.round = wf.round /\ wf'.mode = wf.mode
      /\ wf'.says = says /\ wf'.attempt = Nobody
  <2> DEFINE place == IF status = "delegated" THEN "scan" ELSE status
             used  == wf.used + spent
  <2>1. wf \in WfType
    BY DEF Typed, WfType
  <2>2. place \in Places /\ used \in Nat /\ 0 \in 0..(MaxAttempts - 1)
    BY <1>0, Numbers DEF Places, Driven, Outcomes
  <2>3. wf' = [wf EXCEPT !.at = place, !.used = used, !.says = says, !.tries = 0, !.attempt = Nobody]
    BY DEF Record
  <2> HIDE DEF place, used
  <2>4. /\ wf' \in WfType /\ wf'.at = place /\ wf'.used = used /\ wf'.round = wf.round
        /\ wf'.mode = wf.mode /\ wf'.says = says /\ wf'.attempt = Nobody
    BY <2>1, <2>2, <2>3 DEF WfType
  <2> QED BY <2>4 DEF place, used
<1>2. free' = IF status = "delegated" /\ spent = 0 THEN free + 1 ELSE free
  BY DEF Record
<1>3. wf'.used <= MaxTurns + 3 /\ (spent = 0 => wf'.used = wf.used)
  BY <1>0, <1>1 DEF Ceiling
<1>4. status = "delegated" => wf'.used <= MaxTurns + 1
  <2>1. CASE spent = 0
    BY <1>0, <1>3, <2>1
  <2>2. CASE wf.mode = "open" /\ spent <= Ceiling(MaxTurns - wf.used)
    <3>1. wf.used < MaxTurns
      BY <2>2 DEF WfInv, Spend
    <3> QED BY <1>0, <1>1, <2>2, <3>1 DEF Ceiling
  <2> QED BY <2>1, <2>2
<1>5. Spend'
  BY <1>1, <1>3, <1>4 DEF Spend, Driven
<1>6. Attempt'
  BY <1>1 DEF WfInv, Attempt, Ceiling, NoCall
<1>7. Paid'
  <2>1. free <= wf.round /\ wf.used + free >= wf.round /\ free <= MaxTurns + 1
    BY DEF WfInv, Paid
  <2>2. CASE status = "delegated" /\ spent = 0
    BY <1>0, <1>1, <1>2, <2>1, <2>2 DEF Paid
  <2>3. CASE status = "delegated" /\ spent # 0
    <3>1. wf.used < MaxTurns
      BY <2>3 DEF WfInv, Spend
    <3>2. wf.used + spent + free >= wf.round + 1
      BY <1>0, <2>1, <2>3
    <3>3. free > 0 \/ wf.round < MaxTurns
      BY <1>0, <2>1, <3>1
    <3> QED BY <1>0, <1>1, <1>2, <2>1, <2>3, <3>2, <3>3 DEF Paid
  <2>4. CASE status # "delegated"
    BY <1>1, <1>2, <2>1, <2>4 DEF Paid
  <2> QED BY <2>2, <2>3, <2>4
<1>8. Replied'
  BY <1>1 DEF Replied
<1>9. ExhaustedOnlyIfFree' /\ free' \in Nat
  BY <1>0, <1>1, <1>2 DEF ExhaustedOnlyIfFree
<1> QED BY <1>1, <1>5, <1>6, <1>7, <1>8, <1>9 DEF WfInv

\* What a call's verdict does to the Workflow, once the call has ended.
LEMMA VerdictGood ==
  ASSUME RoundAssumption, Typed, WfInv, NEW c \in Calls, call[c].busy, Ends(c),
         NEW status \in {"replied", "failed", "canceled", "delegated"}, NEW says \in Words \cup {Nobody},
         Verdict(c, status, says, call[c].spent),
         status = "delegated" => call[c].mode = "open",
         status = "replied" => says = reply' /\ reply' # Nobody,
         reply' = reply \/ (reply = Nobody /\ reply' \in Words)
  PROVE  wf' \in WfType /\ free' \in Nat /\ WfInv'
<1>1. /\ call' \in [Calls -> CallType]
      /\ \A d \in Calls : call'[d] = IF d = c THEN NoCall ELSE call[d]
  BY CallEnds
<1>2. call[c].spent \in Nat /\ call[c].spent <= Ceiling(call[c].left)
  BY DEF Typed, WfInv, Attempt
<1>3. CASE wf.attempt = c
  <2>1. /\ wf.at = "turn" /\ call[c].mode = wf.mode /\ call[c].left = MaxTurns - wf.used
    BY <1>3, Numbers DEF WfInv, Attempt
  <2>2. CASE Record(status, says, call[c].spent)
    BY <1>1, <1>2, <2>1, <2>2, RecordGood
  <2>3. CASE Lose /\ free' = free
    <3>1. wf'.at \in {"turn", "threw"} /\ wf' \in WfType /\ wf'.used = wf.used /\ wf'.round = wf.round
          /\ wf'.mode = wf.mode /\ wf'.attempt = Nobody
      BY <2>1, <2>3, Lost
    <3>2. Spend' /\ Paid' /\ Replied' /\ ExhaustedOnlyIfFree'
      BY <2>1, <2>3, <3>1 DEF WfInv, Spend, Paid, Replied, ExhaustedOnlyIfFree, Driven
    <3>3. Attempt'
      BY <1>1, <3>1 DEF WfInv, Attempt, Ceiling, NoCall
    <3> QED BY <2>3, <3>1, <3>2, <3>3 DEF WfInv, Typed
  <2> QED BY <1>3, <2>2, <2>3 DEF Verdict, Answered
<1>4. CASE wf.attempt # c
  <2>1. wf' = wf /\ free' = free
    BY <1>4 DEF Verdict
  <2>2. \A d \in Calls : call'[d].spent <= Ceiling(call'[d].left)
    BY <1>1 DEF WfInv, Attempt, Ceiling, NoCall
  <2>3. \A d \in Calls : wf.attempt = d =>
          call'[d].busy /\ call'[d].mode = call[d].mode /\ call'[d].left = call[d].left
    BY <1>1, <1>4, Numbers DEF WfInv, Attempt
  <2> QED BY <1>1, <2>1, <2>2, <2>3, RestGood DEF Typed
<1> QED BY <1>3, <1>4

-----------------------------------------------------------------------------
(* Actions.                                                                *)

\* What an action does beside the Workflow and the calls.
Kept == /\ canceled' \in BOOLEAN /\ overdue' \in BOOLEAN
        /\ reply' \in Words \cup {Nobody}
        /\ acks' \in SUBSET Rounds
        /\ rows' \in [Rounds -> RowSets]
        /\ faults' \in 0..MaxFaults
        /\ RowsAreAcknowledged'

LEMMA Whole ==
  ASSUME Kept, wf' \in WfType, call' \in [Calls -> CallType], free' \in Nat, WfInv'
  PROVE  IInv'
<1>1. Typed'
  BY DEF Typed, Kept, WfType, CallType
<1> QED BY <1>1 DEF IInv, WfInv, Kept

LEMMA Parts ==
  ASSUME IInv
  PROVE  /\ Typed /\ WfInv /\ RowsAreAcknowledged
         /\ wf \in WfType /\ call \in [Calls -> CallType] /\ free \in Nat
BY DEF IInv, WfInv, Typed, WfType, CallType

\* Calls that stay, or end.
LEMMA SomeEnd ==
  ASSUME RoundAssumption, Typed, call' = call \/ call' = [c \in Calls |-> NoCall]
  PROVE  call' \in [Calls -> CallType] /\ \A c \in Calls : call'[c] \in {call[c], NoCall}
<1>1. NoCall \in CallType
  BY Numbers DEF NoCall, CallType, Modes, Rounds
<1> QED BY <1>1 DEF Typed, CallType

LEMMA InitGood == RoundAssumption /\ Init => IInv
<1> SUFFICES ASSUME RoundAssumption, Init PROVE IInv
  OBVIOUS
<1>1. NoCall \in CallType
  BY Numbers DEF NoCall, CallType, Modes, Rounds
<1>2. 0 \in Rounds /\ 0 \in 0..(MaxAttempts - 1) /\ "deadline" \in Places
  BY Numbers DEF Rounds, Places, Driven
<1>3. wf \in WfType /\ call \in [Calls -> CallType]
  BY <1>1, <1>2 DEF Init, WfType, CallType, Modes
<1>4. Typed
  <2>1. rows \in [Rounds -> RowSets] /\ acks \in SUBSET Rounds
    BY DEF Init, RowSets
  <2>2. free \in Nat /\ faults \in 0..MaxFaults
    BY Numbers DEF Init
  <2>4. canceled \in BOOLEAN /\ overdue \in BOOLEAN
    BY DEF Init
  <2>3. reply \in Words \cup {Nobody}
    BY DEF Init
  <2> QED BY <1>3, <2>1, <2>2, <2>3, <2>4 DEF Typed, WfType, CallType
<1>5. Spend /\ Paid /\ Replied /\ ExhaustedOnlyIfFree /\ RowsAreAcknowledged
  BY Numbers DEF Init, Spend, Paid, Replied, ExhaustedOnlyIfFree, RowsAreAcknowledged
<1>6. Attempt
  BY DEF Init, Attempt, NoCall, Ceiling
<1> QED BY <1>4, <1>5, <1>6 DEF IInv

LEMMA DeadlineGood == ASSUME RoundAssumption, IInv, Deadline PROVE IInv'
<1>0. Typed /\ WfInv /\ wf \in WfType /\ wf.at = "deadline"
  BY Parts DEF Deadline
<1>1. Kept
  BY Parts DEF Deadline, Kept, Typed, RowsAreAcknowledged
<1>2. CASE Lose
  BY <1>0, <1>1, <1>2, LoseGood, SomeEnd, Whole, Parts DEF Deadline, Driven
<1>3. CASE wf' = [wf EXCEPT !.at = "turn", !.tries = 0,
                    !.mode = IF wf.used >= MaxTurns \/ overdue THEN "final" ELSE "open"]
  <2>1. "turn" \in Places /\ 0 \in 0..(MaxAttempts - 1)
    BY Numbers DEF Places, Driven
  <2> DEFINE mode == IF wf.used >= MaxTurns \/ overdue THEN "final" ELSE "open"
  <2>a. mode \in Modes /\ (mode = "open" => wf.used < MaxTurns)
    BY <1>0, Numbers DEF WfType, Modes
  <2>b. wf' = [wf EXCEPT !.at = "turn", !.tries = 0, !.mode = mode]
    BY <1>3
  <2> HIDE DEF mode
  <2>2. /\ wf' \in WfType /\ wf'.at = "turn" /\ wf'.round = wf.round /\ wf'.used = wf.used
        /\ wf'.attempt = wf.attempt /\ (wf'.mode = "open" => wf.used < MaxTurns)
    BY <1>0, <2>1, <2>a, <2>b DEF WfType
  <2>3. wf.attempt = Nobody
    BY <1>0 DEF WfInv, Attempt
  <2>4. WfInv'
    BY <1>0, <2>2, <2>3
       DEF WfInv, Spend, Attempt, Paid, Replied, ExhaustedOnlyIfFree, Deadline, Driven
  <2> QED BY <1>1, <2>2, <2>4, Parts, Whole DEF Deadline
<1> QED BY <1>2, <1>3 DEF Deadline

LEMMA RecoverGood == ASSUME RoundAssumption, IInv, NEW c \in Calls, RunTaskTurn(c), Recover PROVE IInv'
<1>0. /\ Typed /\ WfInv /\ wf \in WfType /\ wf.at = "turn" /\ call' = call /\ reply' = reply
      /\ reply \in Words \cup {Nobody}
  BY Parts DEF RunTaskTurn, Recover, Typed
<1>1. Kept
  BY Parts DEF RunTaskTurn, Kept, Typed, RowsAreAcknowledged
<1>2. call' \in [Calls -> CallType] /\ \A d \in Calls : call'[d] \in {call[d], NoCall}
  BY <1>0, SomeEnd
<1>3. CASE Lose /\ UNCHANGED free
  BY <1>0, <1>1, <1>2, <1>3, LoseGood, Whole, Parts DEF Driven
<1>4. ASSUME NEW status \in {"replied", "canceled", "delegated"}, NEW says \in Words \cup {Nobody},
             Record(status, says, 0), status = "replied" => says = reply' /\ reply' # Nobody
      PROVE  IInv'
  <2>1. wf' \in WfType /\ free' \in Nat /\ WfInv'
    BY <1>0, <1>2, <1>4, RecordGood
  <2> QED BY <1>1, <1>2, <2>1, Whole
<1> QED BY <1>0, <1>3, <1>4 DEF Recover, Answered

LEMMA InferGood == ASSUME RoundAssumption, IInv, NEW c \in Calls, RunTaskTurn(c), Infer(c) PROVE IInv'
<1> DEFINE new == [busy |-> TRUE, round |-> wf.round, mode |-> wf.mode, left |-> MaxTurns - wf.used,
                   spent |-> 0, join |-> \E r \in Rounds : rows[r] = "some"]
<1>0. /\ Typed /\ WfInv /\ wf \in WfType /\ call \in [Calls -> CallType] /\ wf.at = "turn"
      /\ wf.used \in Nat /\ wf.used <= MaxTurns + 1 /\ free' = free /\ free \in Nat
  BY Parts DEF RunTaskTurn, Infer, WfInv, Spend, Driven, WfType
<1>1. Kept
  BY Parts DEF RunTaskTurn, Kept, Typed, RowsAreAcknowledged
<1>2. new \in CallType
  BY <1>0, Numbers DEF CallType, WfType
<1>3. call' = [call EXCEPT ![c] = new] /\ wf' = [wf EXCEPT !.attempt = c]
  BY DEF Infer
<1>4. call' \in [Calls -> CallType] /\ wf' \in WfType
  BY <1>0, <1>2, <1>3 DEF WfType
<1>5. /\ wf'.at = "turn" /\ wf'.used = wf.used /\ wf'.mode = wf.mode /\ wf'.round = wf.round
      /\ wf'.attempt = c
      /\ \A d \in Calls : call'[d] = IF d = c THEN new ELSE call[d]
  BY <1>0, <1>3 DEF WfType
<1>6. Attempt'
  <2>1. /\ new.busy /\ new.mode = wf.mode /\ new.left = MaxTurns - wf.used /\ new.left \in Int
        /\ new.spent = 0 /\ MaxTurns \in Nat
    BY <1>0, Numbers DEF WfType
  <2> HIDE DEF new
  <2>2. 0 <= Ceiling(new.left)
    BY <2>1 DEF Ceiling
  <2>3. \A d \in Calls : call'[d].spent <= Ceiling(call'[d].left)
    BY <1>0, <1>5, <2>1, <2>2 DEF WfInv, Attempt
  <2> QED BY <1>5, <2>1, <2>3 DEF Attempt
<1>7. Spend' /\ Paid' /\ Replied' /\ ExhaustedOnlyIfFree'
  BY <1>0, <1>5 DEF WfInv, Spend, Paid, Replied, ExhaustedOnlyIfFree, Driven
<1> QED BY <1>0, <1>1, <1>4, <1>6, <1>7, Whole DEF WfInv

LEMMA TurnGood == ASSUME RoundAssumption, IInv, NEW c \in Calls, ModelTurn(c) PROVE IInv'
<1>0. Typed /\ WfInv /\ call \in [Calls -> CallType]
  BY Parts
<1>1. Kept
  BY Parts DEF ModelTurn, Kept, Typed, RowsAreAcknowledged
<1>2. /\ call[c].spent \in Nat /\ call[c].left \in -1..MaxTurns
      /\ call[c].spent < Ceiling(call[c].left) /\ call' = [call EXCEPT ![c].spent = @ + 1]
  BY <1>0 DEF CallType, ModelTurn
<1>3. /\ call' \in [Calls -> CallType]
      /\ \A d \in Calls : /\ call'[d].busy = call[d].busy /\ call'[d].mode = call[d].mode
                          /\ call'[d].left = call[d].left
                          /\ call'[d].spent = IF d = c THEN call[d].spent + 1 ELSE call[d].spent
  BY <1>0, <1>2 DEF CallType
<1>4. \A d \in Calls : call'[d].spent <= Ceiling(call'[d].left)
  BY <1>0, <1>2, <1>3, Numbers DEF WfInv, Attempt, Ceiling
<1>5. \A d \in Calls : wf.attempt = d =>
        call'[d].busy /\ call'[d].mode = call[d].mode /\ call'[d].left = call[d].left
  BY <1>0, <1>3, Numbers DEF WfInv, Attempt
<1> QED BY <1>0, <1>1, <1>3, <1>4, <1>5, RestGood, Whole, Parts DEF ModelTurn

LEMMA RepliesGood == ASSUME RoundAssumption, IInv, NEW c \in Calls, Replies(c) PROVE IInv'
<1>0. Typed /\ WfInv /\ call[c].busy /\ Ends(c)
  BY Parts DEF Replies
<1>1. reply' \in Words /\ (reply' = reply \/ reply = Nobody)
  BY <1>0 DEF Replies, AppendOnce, Typed
<1>2. Kept
  BY Parts, <1>1 DEF Replies, Kept, Typed, RowsAreAcknowledged
<1>3. reply' # Nobody
  BY <1>1, Numbers
<1>4. wf' \in WfType /\ free' \in Nat /\ WfInv'
  BY <1>0, <1>1, <1>3, VerdictGood DEF Replies
<1> QED BY <1>0, <1>2, <1>4, CallEnds, Whole

LEMMA DelegatesGood == ASSUME RoundAssumption, IInv, NEW c \in Calls, Delegates(c) PROVE IInv'
<1>0. /\ Typed /\ WfInv /\ call[c].busy /\ Ends(c) /\ call[c].mode = "open" /\ call[c].round \in Rounds
      /\ reply' = reply
  BY Parts DEF Delegates, CallType
<1>1. /\ acks' = acks \cup {call[c].round}
      /\ rows' = rows \/ rows' = CreateDecomposition(call[c].round)
  BY DEF Delegates
<1>2. rows' \in [Rounds -> RowSets] /\ RowsAreAcknowledged'
  BY Parts, <1>0, <1>1 DEF CreateDecomposition, RowsAreAcknowledged, Typed, RowSets
<1>3. Kept
  BY <1>0, <1>1, <1>2 DEF Delegates, Kept, Typed
<1>4. wf' \in WfType /\ free' \in Nat /\ WfInv'
  BY <1>0, VerdictGood DEF Delegates
<1> QED BY <1>0, <1>3, <1>4, CallEnds, Whole

LEMMA FailsRoundGood == ASSUME RoundAssumption, IInv, NEW c \in Calls, FailsRound(c) PROVE IInv'
<1>0. Typed /\ WfInv /\ call[c].busy /\ Ends(c) /\ reply' = reply
  BY Parts DEF FailsRound
<1>1. Kept
  BY Parts DEF FailsRound, Kept, Typed, RowsAreAcknowledged
<1>2. wf' \in WfType /\ free' \in Nat /\ WfInv'
  BY <1>0, VerdictGood DEF FailsRound
<1> QED BY <1>0, <1>1, <1>2, CallEnds, Whole

LEMMA ThrowsGood == ASSUME RoundAssumption, IInv, NEW c \in Calls, Throws(c) PROVE IInv'
<1>0. /\ Typed /\ WfInv /\ call[c].busy /\ Ends(c) /\ reply' = reply /\ free' = free
      /\ call[c].round \in Rounds
  BY Parts DEF Throws, CallType
<1>1. Kept
  BY Parts, <1>0 DEF Throws, Kept, Typed, RowsAreAcknowledged
<1>2. /\ call' \in [Calls -> CallType]
      /\ \A d \in Calls : call'[d] = IF d = c THEN NoCall ELSE call[d]
  BY <1>0, CallEnds
<1>3. CASE wf.attempt = c
  <2>1. wf.at \in Driven /\ Lose
    BY <1>0, <1>3, Numbers DEF Throws, WfInv, Attempt, Driven
  <2> QED BY <1>0, <1>1, <1>2, <2>1, LoseGood, Whole, Parts
<1>4. CASE wf.attempt # c
  <2>1. wf' = wf
    BY <1>4 DEF Throws
  <2>2. \A d \in Calls : call'[d].spent <= Ceiling(call'[d].left)
    BY <1>0, <1>2 DEF WfInv, Attempt, Ceiling, NoCall
  <2>3. \A d \in Calls : wf.attempt = d =>
          call'[d].busy /\ call'[d].mode = call[d].mode /\ call'[d].left = call[d].left
    BY <1>0, <1>2, <1>4, Numbers DEF WfInv, Attempt
  <2> QED BY <1>0, <1>1, <1>2, <2>1, <2>2, <2>3, RestGood, Whole, Parts
<1> QED BY <1>3, <1>4

\* Rows that settle were there before.
LEMMA SettleGood ==
  ASSUME IInv, NEW state \in {"some", "null"}, acks' = acks, rows' = Settle(state) \/ rows' = rows
  PROVE  rows' \in [Rounds -> RowSets] /\ RowsAreAcknowledged'
BY DEF IInv, Typed, Settle, RowsAreAcknowledged, RowSets

LEMMA GotoGood ==
  ASSUME RoundAssumption, Typed, WfInv, NEW place \in Places \ {"replied", "exhausted", "deadline", "turn", "scan"},
         place = "branches" => wf.at = "scan", Goto(place), free' = free, reply' = reply, call' = call,
         wf.at \in {"scan", "branches"}
  PROVE  wf' \in WfType /\ WfInv'
<1>1. wf \in WfType /\ 0 \in 0..(MaxAttempts - 1)
  BY Numbers DEF Typed, WfType
<1>2. /\ wf' \in WfType /\ wf'.at = place /\ wf'.used = wf.used /\ wf'.round = wf.round
      /\ wf'.attempt = Nobody
  BY <1>1 DEF Goto, WfType
<1>3. WfInv'
  BY <1>2 DEF WfInv, Spend, Attempt, Paid, Replied, ExhaustedOnlyIfFree, Driven
<1> QED BY <1>2, <1>3

LEMMA ScanGood == ASSUME RoundAssumption, IInv, Scan PROVE IInv'
<1>0. /\ Typed /\ WfInv /\ wf.at = "scan" /\ call' = call /\ free' = free /\ reply' = reply
      /\ call' \in [Calls -> CallType] /\ free' \in Nat /\ \A c \in Calls : call'[c] \in {call[c], NoCall}
  BY Parts DEF Scan
<1>1. Kept
  BY Parts, SettleGood DEF Scan, Kept, Typed
<1>2. CASE Lose
  BY <1>0, <1>1, <1>2, LoseGood, Whole DEF Driven
<1>3. ASSUME NEW place \in {"branches", "canceled"}, Goto(place) PROVE IInv'
  BY <1>0, <1>1, <1>3, GotoGood, Whole DEF Places, Driven, Outcomes
<1> QED BY <1>2, <1>3 DEF Scan

LEMMA BranchesGood == ASSUME RoundAssumption, IInv, Branches PROVE IInv'
<1>0. /\ Typed /\ WfInv /\ wf.at = "branches" /\ call' = call /\ free' = free /\ reply' = reply
      /\ call' \in [Calls -> CallType] /\ free' \in Nat /\ wf \in WfType
  BY Parts DEF Branches
<1>1. Kept
  BY Parts, SettleGood DEF Branches, Kept, Typed
<1>2. CASE Goto("threw")
  BY <1>0, <1>1, <1>2, GotoGood, Whole DEF Places, Driven, Outcomes
<1>3. CASE NextRound
  <2>0. /\ wf.round \in Nat /\ wf.round <= MaxTurns /\ MaxTurns \in Nat /\ 0 \in 0..(MaxAttempts - 1)
        /\ wf.attempt = Nobody
    BY <1>0, Numbers DEF WfType, Rounds, WfInv, Attempt
  <2>1. CASE wf.round < MaxTurns
    <3>1. wf' = [wf EXCEPT !.at = "deadline", !.round = @ + 1, !.tries = 0]
      BY <1>3, <2>1 DEF NextRound
    <3>2. wf.round + 1 \in Rounds /\ "deadline" \in Places
      BY <2>0, <2>1 DEF Rounds, Places, Driven
    <3>3. /\ wf' \in WfType /\ wf'.at = "deadline" /\ wf'.round = wf.round + 1 /\ wf'.used = wf.used
          /\ wf'.attempt = Nobody
      BY <1>0, <2>0, <3>1, <3>2 DEF WfType
    <3>4. WfInv'
      BY <1>0, <2>0, <3>3 DEF WfInv, Spend, Attempt, Paid, Replied, ExhaustedOnlyIfFree, Driven
    <3> QED BY <1>0, <1>1, <3>3, <3>4, Whole
  <2>2. CASE ~(wf.round < MaxTurns)
    <3>1. wf' = [wf EXCEPT !.at = "exhausted", !.tries = 0, !.attempt = Nobody]
      BY <1>3, <2>2 DEF NextRound, Goto
    <3>2. "exhausted" \in Places
      BY DEF Places, Outcomes
    <3>3. /\ wf' \in WfType /\ wf'.at = "exhausted" /\ wf'.round = wf.round /\ wf'.used = wf.used
          /\ wf'.attempt = Nobody
      BY <1>0, <2>0, <3>1, <3>2 DEF WfType
    <3>4. free > 0
      BY <1>0, <2>2 DEF WfInv, Paid
    <3>5. WfInv'
      BY <1>0, <2>0, <3>3, <3>4 DEF WfInv, Spend, Attempt, Paid, Replied, ExhaustedOnlyIfFree, Driven
    <3> QED BY <1>0, <1>1, <3>3, <3>5, Whole
  <2> QED BY <2>1, <2>2
<1> QED BY <1>2, <1>3 DEF Branches

\* What does not touch the Workflow, and what makes it give up on an attempt.
LEMMA OutsideGood ==
  ASSUME RoundAssumption, IInv, Cancel \/ Tick \/ GiveUp \/ Evict \/ UNCHANGED vars
  PROVE  IInv'
<1>0. /\ Typed /\ WfInv /\ wf.attempt \in Calls \cup {Nobody}
      /\ call' = call \/ call' = [c \in Calls |-> NoCall]
      /\ free' = free /\ free' \in Nat /\ reply' = reply
  BY Parts DEF Typed, Cancel, Tick, GiveUp, Evict, vars
<1>1. call' \in [Calls -> CallType] /\ \A c \in Calls : call'[c] \in {call[c], NoCall}
  BY <1>0, SomeEnd
<1>2. faults' \in 0..MaxFaults
  BY <1>0, Numbers DEF Typed, Cancel, Tick, GiveUp, Evict, vars
<1>3. rows' \in [Rounds -> RowSets] /\ RowsAreAcknowledged'
  <2>1. acks' = acks /\ (rows' = rows \/ rows' = Settle("null"))
    BY DEF Cancel, Tick, GiveUp, Evict, vars
  <2> QED BY <2>1, SettleGood
<1>4. Kept
  BY <1>0, <1>2, <1>3 DEF Kept, Typed, Cancel, Tick, GiveUp, Evict, vars
<1>5. CASE wf.attempt # Nobody /\ Lose
  <2>1. wf.at \in Driven
    BY <1>0, <1>5 DEF WfInv, Attempt, Driven
  <2> QED BY <1>0, <1>1, <1>4, <1>5, <2>1, LoseGood, Whole
<1>6. CASE wf' = wf /\ (call' = call \/ wf.attempt = Nobody)
  <2>1. \A c \in Calls : call'[c].spent <= Ceiling(call'[c].left)
    BY <1>0, <1>1 DEF WfInv, Attempt, Ceiling, NoCall
  <2>2. \A c \in Calls : wf.attempt = c =>
          call'[c].busy /\ call'[c].mode = call[c].mode /\ call'[c].left = call[c].left
    BY <1>0, <1>1, <1>6, Numbers DEF WfInv, Attempt
  <2> QED BY <1>0, <1>1, <1>4, <1>6, <2>1, <2>2, RestGood, Whole
<1> QED BY <1>5, <1>6 DEF Cancel, Tick, GiveUp, Evict, vars

LEMMA StepGood == ASSUME RoundAssumption, IInv, [Next]_vars PROVE IInv'
<1>1. ASSUME NEW c \in Calls, RunTaskTurn(c) PROVE IInv'
  BY <1>1, RecoverGood, InferGood DEF RunTaskTurn
<1>2. ASSUME NEW c \in Calls, ModelTurn(c) \/ Conclude(c) PROVE IInv'
  BY <1>2, TurnGood, RepliesGood, DelegatesGood, FailsRoundGood, ThrowsGood DEF Conclude
<1> QED BY <1>1, <1>2, DeadlineGood, ScanGood, BranchesGood, OutsideGood DEF Next, Drive, Finished

-----------------------------------------------------------------------------
(* Theorems.                                                               *)

\* The invariant that the theorems below follow from.
THEOREM LoopCorrect == Spec => []IInv
<1>1. Init => IInv
  BY InitGood, RoundAssumption
<1>2. IInv /\ [Next]_vars => IInv'
  BY StepGood, RoundAssumption
<1> QED BY <1>1, <1>2, PTL DEF Spec

\* Every variable keeps its type, its bounds among them.
THEOREM TypeCorrect == Spec => []TypeOK
<1>1. IInv => TypeOK
  <2> SUFFICES ASSUME IInv PROVE TypeOK
    OBVIOUS
  <2>1. wf.used \in 0..(MaxTurns + 3) /\ free \in 0..(MaxTurns + 1)
    BY Numbers, RoundAssumption DEF IInv, Typed, Spend, Paid
  <2>2. \A c \in Calls : call[c].spent \in 0..(MaxTurns + 1)
    BY Numbers, RoundAssumption DEF IInv, Typed, Attempt, Ceiling
  <2>3. wf \in [at : Driven \cup Outcomes, round : Rounds, used : 0..(MaxTurns + 3),
                mode : {"open", "final"}, tries : 0..(MaxAttempts - 1),
                attempt : Calls \cup {Nobody}, says : Words \cup {Nobody}]
    BY <2>1 DEF IInv, Typed, Places, Modes
  <2>4. call \in [Calls -> [busy : BOOLEAN, round : Rounds, mode : {"open", "final"},
                            left : -1..MaxTurns, spent : 0..(MaxTurns + 1), join : BOOLEAN]]
    BY <2>2 DEF IInv, Typed, Modes
  <2> QED BY <2>1, <2>3, <2>4 DEF IInv, Typed, TypeOK
<1> QED BY <1>1, LoopCorrect, PTL

\* A round with rows has its acknowledgment, whichever attempt made them.
THEOREM RoundsAreAcknowledged == Spec => []RowsAreAcknowledged
<1>1. IInv => RowsAreAcknowledged
  BY DEF IInv
<1> QED BY <1>1, LoopCorrect, PTL

\* The open rounds overshoot the budget by one turn at most, the forced answer by
\* two more.
THEOREM SpendHolds == Spec => []SpendBounded
<1>1. IInv => SpendBounded
  BY DEF IInv, Spend, SpendBounded, Driven
<1> QED BY <1>1, LoopCorrect, PTL

\* The loop runs out of rounds only after a round that was recorded for free.
THEOREM ExhaustionIsFree == Spec => []ExhaustedOnlyIfFree
<1>1. IInv => ExhaustedOnlyIfFree
  BY DEF IInv
<1> QED BY <1>1, LoopCorrect, PTL

\* The words of a task's reply never change, and what the Workflow delivers is
\* them.
THEOREM RepliesStand == Spec => AnswerStands
<1>1. IInv /\ IInv' /\ [Next]_vars =>
        [/\ reply # Nobody => reply' = reply
         /\ wf'.at = "replied" => wf'.says = reply' /\ reply' # Nobody]_vars
  <2> SUFFICES ASSUME IInv, IInv', Next
               PROVE  /\ reply # Nobody => reply' = reply
                      /\ wf'.at = "replied" => wf'.says = reply' /\ reply' # Nobody
    OBVIOUS
  <2>1. reply # Nobody => reply' = reply
    BY DEF Next, Drive, Deadline, RunTaskTurn, Scan, Branches, ModelTurn, Conclude, Replies, Delegates,
           FailsRound, Throws, Cancel, Tick, GiveUp, Evict, Finished, vars, AppendOnce
  <2> QED BY <2>1 DEF IInv, Replied
<1> QED BY <1>1, LoopCorrect, PTL DEF Spec, AnswerStands

\* No Subtask is created for a canceled task.
THEOREM CanceledStartsNothing == Spec => NothingAfterCancel
<1>1. IInv /\ [Next]_vars =>
        [canceled => \A r \in Rounds : rows[r] = "none" => rows'[r] = "none"]_vars
  <2> SUFFICES ASSUME IInv, Next, canceled, NEW r \in Rounds, rows[r] = "none"
               PROVE  rows'[r] = "none"
    OBVIOUS
  <2>1. rows' = rows \/ \E state \in {"some", "null"} : rows' = Settle(state)
    BY DEF Next, Drive, Deadline, RunTaskTurn, Scan, Branches, ModelTurn, Conclude, Replies, Delegates,
           FailsRound, Throws, Cancel, Tick, GiveUp, Evict, Finished, vars
  <2> QED BY <2>1 DEF Settle
<1> QED BY <1>1, LoopCorrect, PTL DEF Spec, NothingAfterCancel

-----------------------------------------------------------------------------
(* Refinement.                                                             *)

\* A loop that has ended stays ended, and one that ends as canceled was canceled.
LEMMA Moves ==
  ASSUME RoundAssumption, IInv, Next
  PROVE  /\ wf.at \in Outcomes => wf' = wf
         /\ wf.at \in Driven /\ wf'.at = "canceled" => canceled
         /\ Cancel \/ canceled' = canceled
<1>1. wf.attempt # Nobody => wf.at = "turn"
  BY DEF IInv, Attempt
<1>2. Cancel \/ canceled' = canceled
  BY DEF Next, Drive, Deadline, RunTaskTurn, Scan, Branches, ModelTurn, Conclude, Replies, Delegates,
         FailsRound, Throws, Tick, GiveUp, Evict, Finished, vars
<1>3. ASSUME wf.at \in Outcomes PROVE wf' = wf
  <2>1. wf.at \notin Driven /\ wf.attempt = Nobody
    BY <1>1, <1>3 DEF Outcomes, Driven
  <2>2. \A c \in Calls : wf.attempt # c
    BY <2>1, Numbers
  <2> QED BY <2>1, <2>2 DEF Next, Drive, Driven, Deadline, RunTaskTurn, Scan, Branches, ModelTurn, Conclude, Replies,
             Delegates, FailsRound, Throws, Verdict, Cancel, Tick, GiveUp, Evict, Finished, vars
<1>4. ASSUME wf.at \in Driven, wf'.at = "canceled" PROVE canceled
  <2>0. wf \in WfType /\ wf.at # "canceled"
    BY <1>4, Parts DEF Driven
  <2>1. ~Lose
    <3>1. SUFFICES ASSUME Lose PROVE FALSE
      OBVIOUS
    <3>2. wf'.at \in {wf.at, "threw"}
      BY <3>1, Lost, Parts
    <3> QED BY <1>4, <2>0, <3>2
  <2>2. \A status, says, spent : Record(status, says, spent) => status = "canceled"
    <3>1. ASSUME NEW status, NEW says, NEW spent, Record(status, says, spent) PROVE status = "canceled"
      <4>1. wf'.at = IF status = "delegated" THEN "scan" ELSE status
        BY <2>0, <3>1 DEF Record, WfType
      <4> QED BY <1>4, <4>1
    <3> QED BY <3>1
  <2>3. \A place : Goto(place) => place = "canceled"
    BY <1>4, <2>0 DEF Goto, WfType
  <2>4. ~NextRound
    <3>1. SUFFICES ASSUME NextRound PROVE FALSE
      OBVIOUS
    <3>2. wf'.at = "deadline" \/ Goto("exhausted")
      BY <2>0, <3>1 DEF NextRound, WfType
    <3> QED BY <1>4, <2>3, <3>2
  <2>5. wf' # wf
    BY <1>4, <2>0
  <2>6. ~Deadline
    <3>1. SUFFICES ASSUME Deadline PROVE FALSE
      OBVIOUS
    <3>2. wf'.at = "turn"
      BY <2>0, <2>1, <3>1 DEF Deadline, WfType
    <3> QED BY <1>4, <3>2
  <2>7. \A c \in Calls : ~Infer(c)
    <3>1. SUFFICES ASSUME NEW c \in Calls, Infer(c) PROVE FALSE
      OBVIOUS
    <3>2. wf'.at = wf.at
      BY <2>0, <3>1 DEF Infer, WfType
    <3> QED BY <1>4, <2>0, <3>2
  <2>8. ASSUME NEW c \in Calls, RunTaskTurn(c) \/ Conclude(c) PROVE canceled
    BY <2>1, <2>2, <2>5, <2>7, <2>8
       DEF RunTaskTurn, Recover, Conclude, Replies, Delegates, FailsRound, Throws, Verdict, Answered
  <2>9. CASE Scan \/ Branches
    BY <2>1, <2>3, <2>4, <2>9 DEF Scan, Branches
  <2> QED BY <2>1, <2>5, <2>6, <2>8, <2>9 DEF Next, Drive, ModelTurn, Cancel, Tick, GiveUp, Evict, Finished, vars
<1> QED BY <1>2, <1>3, <1>4

\* A row that is canceled while the loop is at work.
LEMMA WorkingRow ==
  ASSUME NEW stored \in [state : {"working", "canceled"}, text : {""}, stamp : {0}]
  PROVE  [stored EXCEPT !.state = "canceled"] = [state |-> "canceled", text |-> "", stamp |-> 0]
<1>1. [stored EXCEPT !.state = "canceled"] \in [state : {"canceled"}, text : {""}, stamp : {0}]
  OBVIOUS
<1>2. ASSUME NEW row \in [state : {"canceled"}, text : {""}, stamp : {0}]
      PROVE  row = [state |-> "canceled", text |-> "", stamp |-> 0]
  OBVIOUS
<1> QED BY <1>1, <1>2

\* The whole loop is one place of the Workflow that Delivery describes.
THEOREM IsOneStepOfDelivery == Spec => IsDeliverysLoop
<1>1. IInv /\ IInv' /\ [Next]_vars => [D!Next]_(D!vars)
  <2> SUFFICES ASSUME IInv, IInv', [Next]_vars PROVE [D!Next]_(D!vars)
    OBVIOUS
  <2>0. wf.at \in Driven \cup Outcomes /\ wf'.at \in Driven \cup Outcomes
    BY Parts DEF IInv, Typed, WfType, Places
  <2>1. CASE UNCHANGED <<wf, canceled>> \/ UNCHANGED vars
    <3>1. wf' = wf /\ canceled' = canceled
      BY <2>1 DEF vars
    <3> QED BY <3>1 DEF D!vars
  <2>2. CASE Next
    <3>0. /\ wf.at \in Outcomes => wf' = wf
          /\ wf.at \in Driven /\ wf'.at = "canceled" => canceled
          /\ Cancel \/ canceled' = canceled
      BY <2>2, Moves, RoundAssumption
    <3>1. CASE Cancel
      <4> DEFINE stored == [state |-> IF canceled THEN "canceled" ELSE "working", text |-> "", stamp |-> 0]
      <4>1. ~canceled /\ canceled' /\ wf' = wf /\ stored.state = "working"
        BY <3>1 DEF Cancel
      <4>2. stored' = [state |-> "canceled", text |-> "", stamp |-> 0]
        BY <4>1
      <4>3. [stored EXCEPT !.state = "canceled"] = [state |-> "canceled", text |-> "", stamp |-> 0]
        BY <4>1, WorkingRow
      <4>4. D!Cancel
        BY <4>1, <4>2, <4>3 DEF D!Cancel, D!CancelApplies, D!Cancelable
      <4> QED BY <4>4 DEF D!Next
    <3>2. CASE canceled' = canceled /\ wf.at \in Outcomes
      BY <2>1, <3>0, <3>2
    <3>3. CASE canceled' = canceled /\ wf.at \in Driven /\ wf'.at \in Driven
      BY <3>3 DEF D!vars, Driven
    <3>4. CASE canceled' = canceled /\ wf.at \in Driven /\ wf'.at \in {"replied", "failed", "exhausted"}
      BY <3>4 DEF D!Next, D!Workflow, D!RoundsAnswer, D!Goto, D!Answers, Driven
    <3>5. CASE canceled' = canceled /\ wf.at \in Driven /\ wf'.at = "canceled"
      BY <3>0, <3>5 DEF D!Next, D!Workflow, D!RoundsCanceled, D!Goto, Driven
    <3>6. CASE canceled' = canceled /\ wf.at \in Driven /\ wf'.at = "threw"
      BY <3>6 DEF D!Next, D!Workflow, D!RoundsThrow, D!Throw, Driven
    <3> QED BY <2>0, <3>0, <3>1, <3>2, <3>3, <3>4, <3>5, <3>6 DEF Outcomes
  <2> QED BY <2>1, <2>2
<1> QED BY <1>1, LoopCorrect, PTL DEF Spec, IsDeliverysLoop
=============================================================================
