--------------------------- MODULE DeliveryProofs ---------------------------
(***************************************************************************)
(* What Delivery guarantees for every number of step attempts, with or     *)
(* without a sweep: the stored task is what the gatekeeper was told, a     *)
(* settled task stays settled, an ended instance leaves it settled, and    *)
(* the whole implements TaskPromise.  And what is left of it for any       *)
(* number of dispatches that store old Tasks (Edge).                       *)
(***************************************************************************)
EXTENDS Edge, FiniteSetTheorems, TLAPS

\* Until the first delivery starts nothing has been settled or recorded.
BeforeDelivery ==
  /\ pc \in {"absent", "working", "rounds"} =>
       path = "main" /\ row.state \notin Verdicts
  /\ pc \in {"absent", "working", "rounds", "complete"} =>
       built = Absent /\ heard = {}

\* A verdict found by `complete` is one that a lost attempt of the ordinary
\* delivery wrote: its own answer, and on the recovery's side either a reply
\* or a failure it may overwrite.
LostWrite ==
  pc = "complete" =>
    /\ path = "main" /\ row.state \in Verdicts =>
         row.state = TerminalTask.state /\ row.text = answer
    /\ path = "abandoned" /\ row.state = "completed" => row.text = "reply"

\* Past `complete`, the recorded Task is the stored one.
RecordedIsStored ==
  pc \in {"sweep", "notify"} => built = row /\ row.state \in Verdicts

\* What has been heard is the stored verdict, and `complete` is over.
HeardIsFinal ==
  heard # {} => /\ pc \in {"notify", "ended", "errored"}
                /\ row.state \in Verdicts

\* The inductive invariant: none of the properties is inductive alone, since
\* each depends on what a lost attempt of `complete` may have left behind.
IInv == /\ TypeOK
        /\ row.state # "rejected"
        /\ pc # "absent" => row.state # "none"
        /\ BeforeDelivery
        /\ LostWrite
        /\ RecordedIsStored
        /\ HeardIsFinal
        /\ HeardIsStored
        /\ EndedIsSettled
        /\ EndedIsToldOrCanceled
-----------------------------------------------------------------------------
\* What save() lets a verdict do: it is written over a row that is still open
\* or already in that state, and over nothing else.
LEMMA SaveVerdict ==
  ASSUME NEW stored \in States \ {"none", "rejected"}, NEW incoming \in Verdicts
  PROVE  SaveApplies(stored, incoming) <=> stored \in Cancelable \cup {incoming}
BY DEF SaveApplies, States, Verdicts, Terminal, Cancelable

\* The Task an attempt of `complete` builds is a storable verdict.
LEMMA TerminalTaskType ==
  ASSUME TypeOK
  PROVE  TerminalTask \in Tasks /\ TerminalTask.state \in Verdicts
<1> DEFINE state == IF path = "main" /\ answer = "reply" THEN "completed" ELSE "failed"
           text == IF path = "main" THEN answer ELSE "task failed"
<1>1. state \in States /\ state \in Verdicts
  BY DEF States, Verdicts
<1>2. text \in Texts
  BY DEF TypeOK, Texts, Answers
<1>3. tries \in 0..MaxAttempts
  BY DeliveryAssumption DEF TypeOK
<1>4. TerminalTask = [state |-> state, text |-> text, stamp |-> tries]
  BY DEF TerminalTask
<1> QED
  BY <1>1, <1>2, <1>3, <1>4 DEF Tasks

\* Losing an attempt keeps the place it was lost at or goes where Throw says.
LEMMA LoseType ==
  ASSUME TypeOK, Lose
  PROVE  /\ tries' \in 0..(MaxAttempts - 1)
         /\ pc' \in Places
         /\ path' \in {"main", "abandoned"}
         /\ \/ pc' = pc /\ path' = path
            \/ pc = "sweep" /\ pc' = "notify" /\ path' = path
            \/ /\ pc \notin {"sweep", "notify"} /\ path = "main"
               /\ pc' = "complete" /\ path' = "abandoned"
            \/ /\ pc # "sweep" /\ (pc = "notify" \/ path = "abandoned")
               /\ pc' = "errored" /\ path' = path
BY DeliveryAssumption DEF TypeOK, Lose, Throw, Places

LEMMA InitIInv == Init => IInv
<1> SUFFICES ASSUME Init
             PROVE  IInv
  OBVIOUS
<1>1. Absent \in Tasks
  BY DeliveryAssumption DEF Absent, Tasks, States, Texts
<1>a. 0 \in 0..(MaxAttempts - 1)
  BY DeliveryAssumption
<1>2. TypeOK
  BY <1>1, <1>a DEF Init, TypeOK, Places, Texts
<1>3. row.state = "none" /\ pc = "absent" /\ path = "main" /\ heard = {}
  BY DEF Init, Absent
<1> QED
  BY <1>2, <1>3
     DEF Init, IInv, Verdicts, BeforeDelivery, LostWrite, RecordedIsStored,
         HeardIsFinal, HeardIsStored, EndedIsSettled, EndedIsToldOrCanceled
-----------------------------------------------------------------------------
(* Every action preserves the invariant.                                   *)

LEMMA EdgeIInv ==
  ASSUME IInv, Accept \/ StartTurn \/ Cancel
  PROVE  IInv'
<1> USE DEF IInv, BeforeDelivery, LostWrite, RecordedIsStored, HeardIsFinal,
            HeardIsStored, EndedIsSettled, EndedIsToldOrCanceled, Verdicts,
            Terminal, TerminalTask
<1>1. CASE Accept
  <2>1. row' = [state |-> "submitted", text |-> "", stamp |-> 0]
    BY <1>1 DEF Accept, Absent
  <2>a. 0 \in 0..MaxAttempts
    BY DeliveryAssumption
  <2>2. row' \in Tasks
    BY <2>1, <2>a DEF Tasks, States, Texts
  <2>3. TypeOK'
    BY <1>1, <2>2 DEF Accept, TypeOK
  <2>4. pc = "absent"
    BY <1>1 DEF Accept
  <2> QED
    BY <1>1, <2>1, <2>3, <2>4 DEF Accept
<1>2. CASE StartTurn
  <2>1. TypeOK'
    BY <1>2 DEF StartTurn, TypeOK, Places
  <2> QED
    BY <1>2, <2>1 DEF StartTurn
<1>3. CASE Cancel
  <2>1. row.state \in Cancelable /\ row' = [row EXCEPT !.state = "canceled"]
    BY <1>3 DEF Cancel, CancelApplies
  <2>2. row' \in Tasks /\ row'.state = "canceled"
    BY <2>1 DEF TypeOK, Tasks, States
  <2>3. TypeOK'
    BY <1>3, <2>2 DEF Cancel, TypeOK
  <2>4. heard = {} /\ pc \notin {"sweep", "notify"}
    BY <2>1 DEF Cancelable
  <2> QED
    BY <1>3, <2>1, <2>2, <2>3, <2>4 DEF Cancel, Cancelable
<1> QED
  BY <1>1, <1>2, <1>3

LEMMA StepIInv ==
  ASSUME IInv, FailAttempt \/ Working
  PROVE  IInv'
<1> USE DEF IInv, BeforeDelivery, LostWrite, RecordedIsStored, HeardIsFinal,
            HeardIsStored, EndedIsSettled, EndedIsToldOrCanceled, Verdicts,
            Terminal
<1>1. CASE FailAttempt
  <2>1. Lose /\ UNCHANGED <<row, answer, built, heard>>
    BY <1>1 DEF FailAttempt
  <2>2. TypeOK'
    BY <2>1, LoseType DEF TypeOK
  <2>3. pc' = "complete" /\ path' = "main" =>
          pc = "complete" /\ path = "main" /\ TerminalTask'.state = TerminalTask.state
    BY <2>1, LoseType DEF TerminalTask
  <2>4. pc = "complete" /\ path = "main" /\ row.state = "completed" => row.text = "reply"
    BY DEF TerminalTask
  <2>5. LostWrite'
    BY <1>1, <2>1, <2>3, <2>4, LoseType DEF FailAttempt
  <2> QED
    BY <1>1, <2>1, <2>2, <2>5, LoseType DEF FailAttempt
<1>2. CASE Working
  <2>1. /\ pc = "working"
        /\ row' = [row EXCEPT !.state = MarkedWorking(row.state)]
        /\ UNCHANGED <<answer, built, heard>>
    BY <1>2 DEF Working
  <2>2. /\ row' \in Tasks
        /\ row'.state = MarkedWorking(row.state)
        /\ row'.state # "rejected" /\ row'.state # "none"
        /\ row'.state \notin {"completed", "failed"}
    BY <2>1 DEF TypeOK, Tasks, States, MarkedWorking
  <2>3. CASE Lose
    <3>1. TypeOK'
      BY <2>1, <2>2, <2>3, LoseType DEF TypeOK
    <3>2. path = "main" /\ pc' \in {"working", "complete"}
          /\ path' \in {"main", "abandoned"}
          /\ (pc' = "complete" => path' = "abandoned")
          /\ (pc' = "working" => path' = "main")
      BY <2>1, <2>3, LoseType
    <3>3. BeforeDelivery' /\ LostWrite'
      BY <2>1, <2>2, <3>2
    <3> QED
      BY <2>1, <2>2, <3>1, <3>2, <3>3
  <2>4. CASE /\ Goto(IF SaysCanceled(row.state) THEN "ended" ELSE "rounds")
             /\ UNCHANGED path
    <3>1. 0 \in 0..(MaxAttempts - 1)
      BY DeliveryAssumption
    <3>2. TypeOK'
      BY <2>1, <2>2, <2>4, <3>1 DEF TypeOK, Goto, Places
    <3> QED
      BY <2>1, <2>2, <2>4, <3>2 DEF Goto, SaysCanceled, MarkedWorking
  <2> QED
    BY <1>2, <2>3, <2>4 DEF Working
<1> QED
  BY <1>1, <1>2

LEMMA RoundsIInv ==
  ASSUME IInv, RoundsAnswer \/ RoundsCanceled \/ RoundsThrow
  PROVE  IInv'
<1> USE DEF IInv, BeforeDelivery, LostWrite, RecordedIsStored, HeardIsFinal,
            HeardIsStored, EndedIsSettled, EndedIsToldOrCanceled, Verdicts,
            Terminal
<1>0. 0 \in 0..(MaxAttempts - 1)
  BY DeliveryAssumption
<1>1. CASE RoundsAnswer
  <2>1. TypeOK'
    BY <1>0, <1>1 DEF RoundsAnswer, Goto, TypeOK, Places, Texts
  <2> QED
    BY <1>1, <2>1 DEF RoundsAnswer, Goto
<1>2. CASE RoundsCanceled
  <2>1. TypeOK'
    BY <1>0, <1>2 DEF RoundsCanceled, Goto, TypeOK, Places
  <2> QED
    BY <1>2, <2>1 DEF RoundsCanceled, Goto
<1>3. CASE RoundsThrow
  <2>1. pc' = "complete" /\ path' = "abandoned" /\ tries' = 0
    BY <1>3 DEF RoundsThrow, Throw
  <2>2. TypeOK'
    BY <1>0, <1>3, <2>1 DEF RoundsThrow, TypeOK, Places
  <2> QED
    BY <1>3, <2>1, <2>2 DEF RoundsThrow
<1> QED
  BY <1>1, <1>2, <1>3

LEMMA DeliveryIInv ==
  ASSUME IInv, Complete \/ Sweep \/ Notify
  PROVE  IInv'
<1> USE DEF IInv, BeforeDelivery, RecordedIsStored, HeardIsFinal,
            HeardIsStored, EndedIsSettled, EndedIsToldOrCanceled, Verdicts,
            Terminal
<1>0. 0 \in 0..(MaxAttempts - 1)
  BY DeliveryAssumption
<1>1. CASE Complete
  <2> DEFINE t == TerminalTask
  <2>1. t \in Tasks /\ t.state \in Verdicts
    BY TerminalTaskType
  <2>2. row.state \in States \ {"none", "rejected"}
    BY <1>1 DEF Complete, TypeOK, Tasks
  <2>3. SaveApplies(row.state, t.state) <=> row.state \in Cancelable \cup {t.state}
    BY <2>1, <2>2, SaveVerdict
  <2>4. CASE SaveApplies(row.state, t.state)
    <3>1. row' = t /\ pc = "complete" /\ UNCHANGED <<answer, heard>>
      BY <1>1, <2>4 DEF Complete
    <3>2. CASE built' = t /\ Goto(AfterComplete) /\ UNCHANGED path
      <4>1. pc' \in {"sweep", "notify"} /\ tries' = 0
        BY <3>2 DEF Goto, AfterComplete
      <4>2. TypeOK'
        BY <1>0, <2>1, <3>1, <3>2, <4>1 DEF TypeOK, Places
      <4> QED
        BY <2>1, <3>1, <3>2, <4>1, <4>2 DEF LostWrite
    <3>3. CASE Lose /\ UNCHANGED built
      <4>1. TypeOK'
        BY <2>1, <3>1, <3>3, LoseType DEF TypeOK
      <4>2. path = "main" /\ t.state = "completed" => t.text = "reply"
        BY DEF TerminalTask
      <4>3. path = "abandoned" => t.state = "failed"
        BY DEF TerminalTask
      <4>4. TerminalTask'.state = (IF path' = "main" /\ answer = "reply"
                                     THEN "completed" ELSE "failed")
        BY <3>1 DEF TerminalTask
      <4>5. t.state = (IF path = "main" /\ answer = "reply"
                                     THEN "completed" ELSE "failed")
        BY DEF TerminalTask
      <4>6. t.text = (IF path = "main" THEN answer ELSE "task failed")
        BY DEF TerminalTask
      <4>7. pc' = "errored" \/ (pc' = "complete" /\ LostWrite')
        BY <3>1, <3>3, <4>2, <4>3, <4>4, <4>5, <4>6, LoseType DEF LostWrite
      <4> QED
        BY <2>1, <3>1, <3>3, <4>1, <4>7, LoseType DEF LostWrite
    <3> QED
      BY <1>1, <2>4, <3>2, <3>3 DEF Complete
  <2>5. CASE ~SaveApplies(row.state, t.state)
    <3>1. row' = row /\ pc = "complete" /\ UNCHANGED <<answer, heard, built>>
      BY <1>1, <2>5 DEF Complete
    <3>2. CASE Goto("ended") /\ UNCHANGED path
      <4>1. TypeOK'
        BY <1>0, <3>1, <3>2 DEF TypeOK, Goto, Places
      <4>2. row.state = "canceled" \/ (path = "abandoned" /\ row.state = "completed")
        <5>1. row.state \in {"completed", "failed", "canceled"}
          BY <2>2, <2>3, <2>5 DEF States, Cancelable
        <5>2. path = "abandoned" => t.state = "failed"
          BY DEF TerminalTask
        <5> QED
          BY <1>1, <2>3, <2>5, <5>1, <5>2 DEF Complete, LostWrite, TypeOK
      <4> QED
        BY <3>1, <3>2, <4>1, <4>2 DEF Goto, LostWrite
    <3>3. CASE Lose
      <4>1. TypeOK'
        BY <3>1, <3>3, LoseType DEF TypeOK
      <4>2. row.state = "canceled" \/ (path = "abandoned" /\ row.state = "completed")
        <5>1. row.state \in {"completed", "failed", "canceled"}
          BY <2>2, <2>3, <2>5 DEF States, Cancelable
        <5>2. path = "abandoned" => t.state = "failed"
          BY DEF TerminalTask
        <5> QED
          BY <1>1, <2>3, <2>5, <5>1, <5>2 DEF Complete, LostWrite, TypeOK
      <4> QED
        BY <3>1, <3>3, <4>1, <4>2, LoseType DEF LostWrite
    <3> QED
      BY <1>1, <2>5, <3>2, <3>3 DEF Complete
  <2> QED
    BY <2>4, <2>5
<1>2. CASE Sweep
  <2>1. TypeOK'
    BY <1>0, <1>2 DEF Sweep, Goto, TypeOK, Places
  <2> QED
    BY <1>2, <2>1 DEF Sweep, Goto, LostWrite
<1>3. CASE Notify
  <2>1. heard' = heard \cup {row} /\ row.state \in Verdicts
        /\ UNCHANGED <<row, answer, built>>
    BY <1>3 DEF Notify, Post
  <2>2. heard' = {row}
    BY <2>1
  <2>3. CASE Goto("ended") /\ UNCHANGED path
    <3>1. TypeOK'
      BY <1>0, <2>1, <2>2, <2>3 DEF TypeOK, Goto, Places
    <3> QED
      BY <2>1, <2>2, <2>3, <3>1 DEF Goto, LostWrite
  <2>4. CASE Lose
    <3>1. TypeOK'
      BY <2>1, <2>2, <2>4, LoseType DEF TypeOK
    <3> QED
      BY <1>3, <2>1, <2>2, <2>4, <3>1, LoseType DEF Notify, Post, LostWrite
  <2> QED
    BY <1>3, <2>3, <2>4 DEF Notify, Post
<1> QED
  BY <1>1, <1>2, <1>3
-----------------------------------------------------------------------------
LEMMA NextIInv == IInv /\ [Next]_vars => IInv'
<1> SUFFICES ASSUME IInv, [Next]_vars
             PROVE  IInv'
  OBVIOUS
<1>1. CASE UNCHANGED vars
  BY <1>1 DEF vars, IInv, TypeOK, BeforeDelivery, LostWrite, TerminalTask,
       RecordedIsStored, HeardIsFinal, HeardIsStored, EndedIsSettled,
       EndedIsToldOrCanceled
<1>2. CASE Finished
  BY <1>1, <1>2 DEF Finished
<1> QED
  BY <1>1, <1>2, EdgeIInv, StepIInv, RoundsIInv, DeliveryIInv DEF Next, Workflow

\* The inductive invariant holds in every reachable state.
THEOREM Invariance == Spec => []IInv
BY InitIInv, NextIInv, PTL DEF Spec

\* Every variable keeps its type, and with it every step its attempt bound.
THEOREM TypeCorrect == Spec => []TypeOK
BY Invariance, PTL DEF IInv

\* Every callback the gatekeeper has received is the stored Task.
THEOREM ToldIsStored == Spec => []HeardIsStored
BY Invariance, PTL DEF IInv

\* An instance that ends leaves its task in a terminal state.
THEOREM EndSettles == Spec => []EndedIsSettled
BY Invariance, PTL DEF IInv

\* An instance that ends has told the gatekeeper, or was canceled, or lost the
\* answer of every attempt of a write that had applied.
THEOREM EndTells == Spec => []EndedIsToldOrCanceled
BY Invariance, PTL DEF IInv

\* What one step may do to the stored Task and to what has been heard; the two
\* temporal theorems below are instances of it.
LEMMA StepEffects ==
  ASSUME IInv, [Next]_vars
  PROVE  /\ row.state \in Terminal => row'.state = row.state
         /\ heard # {} => row' = row
<1> USE DEF IInv
<1>1. CASE Complete
  <2>1. TerminalTask.state \in Verdicts
    BY TerminalTaskType
  <2>2. row.state \in States \ {"none", "rejected"}
    BY <1>1 DEF Complete, TypeOK, Tasks
  <2>3. SaveApplies(row.state, TerminalTask.state) =>
          row.state \in Cancelable \cup {TerminalTask.state}
    BY <2>1, <2>2, SaveVerdict
  <2>4. heard = {}
    BY <1>1 DEF Complete, BeforeDelivery
  <2> QED
    BY <1>1, <2>3, <2>4 DEF Complete, Cancelable, Terminal
<1>2. CASE Cancel
  <2>1. row.state \notin Terminal
    BY <1>2 DEF Cancel, CancelApplies, Cancelable, Terminal
  <2> QED
    BY <2>1, <1>2 DEF HeardIsFinal, Verdicts, Terminal
<1>3. CASE Working
  BY <1>3 DEF Working, MarkedWorking, Terminal, BeforeDelivery, TypeOK, Tasks
<1>4. CASE Accept
  BY <1>4 DEF Accept, Terminal, HeardIsFinal, Verdicts
<1>5. CASE UNCHANGED row
  BY <1>5
<1>6. \/ Complete \/ Cancel \/ Working \/ Accept \/ UNCHANGED row
  BY DEF Next, Workflow, StartTurn, RoundsAnswer, RoundsCanceled, RoundsThrow,
         Sweep, Notify, Post, FailAttempt, Finished, vars
<1> QED
  BY <1>1, <1>2, <1>3, <1>4, <1>5, <1>6

\* No step leaves a terminal state or touches a Task that has been told.
THEOREM SettledForever == Spec => SettledStays
<1>1. IInv /\ [Next]_vars =>
        [ /\ row.state \in Terminal => row'.state = row.state
          /\ heard # {} => row' = row ]_vars
  BY StepEffects
<1> QED
  BY <1>1, Invariance, PTL DEF Spec, SettledStays

-----------------------------------------------------------------------------
(* Delivery implements TaskPromise.                                        *)

LEMMA ToldValue ==
  ASSUME HeardIsStored
  PROVE  Told = IF heard = {} THEN Absent ELSE row
<1>1. heard # {} => heard = {row}
  BY DEF HeardIsStored
<1> QED
  BY <1>1 DEF Told

LEMMA PromiseInit == Init => Promise!Init
<1> SUFFICES ASSUME Init
             PROVE  Promise!Init
  OBVIOUS
<1>1. row = Absent /\ heard = {}
  BY DEF Init
<1>2. Absent \in Tasks /\ Absent.state = "none"
  BY InitIInv DEF Init, IInv, TypeOK, Absent
<1> QED
  BY <1>1, <1>2 DEF Promise!Init, Told

LEMMA PromiseStep ==
  ASSUME IInv, IInv', [Next]_vars
  PROVE  [Promise!Next]_(Promise!vars)
<1> USE DEF IInv
<1>1. /\ Told = IF heard = {} THEN Absent ELSE row
      /\ Told' = IF heard' = {} THEN Absent ELSE row'
  BY ToldValue DEF Told, HeardIsStored
<1>2. CASE Accept
  <2>1. row' \in Tasks /\ row'.state = "submitted" /\ Told' = Told
    BY <1>1, <1>2 DEF Accept, Absent, TypeOK, HeardIsFinal, Verdicts
  <2> QED
    BY <1>2, <2>1 DEF Accept, Promise!Accept, Promise!Next
<1>3. CASE Cancel
  <2>1. Told' = Told
    BY <1>1, <1>3 DEF Cancel, CancelApplies, Cancelable, HeardIsFinal, Verdicts
  <2> QED
    BY <1>3, <2>1
       DEF Cancel, CancelApplies, Cancelable, Promise!Cancel, Promise!Cancelable, Promise!Next
<1>4. CASE Working
  <2>1. Told' = Told
    BY <1>1, <1>4 DEF Working, BeforeDelivery
  <2>2. row.state = "submitted" \/ row' = row
    BY <1>4 DEF Working, MarkedWorking, TypeOK, Tasks
  <2>3. row.state = "submitted" => Promise!Work
    BY <1>4, <2>1 DEF Working, MarkedWorking, Promise!Work
  <2> QED
    BY <2>1, <2>2, <2>3 DEF Promise!Next, Promise!vars
<1>5. CASE Complete
  <2>1. TerminalTask \in Tasks /\ TerminalTask.state \in Verdicts
    BY TerminalTaskType
  <2>2. row.state \in States \ {"none", "rejected"}
    BY <1>5 DEF Complete, TypeOK, Tasks
  <2>3. heard = {} /\ heard' = {} /\ Told = Absent /\ Told' = Told
    BY <1>1, <1>5 DEF Complete, BeforeDelivery
  <2>4. CASE SaveApplies(row.state, TerminalTask.state)
    <3>1. row' = TerminalTask
      BY <1>5, <2>4 DEF Complete
    <3>2. row.state \in Cancelable \cup {TerminalTask.state}
      BY <2>1, <2>2, <2>4, SaveVerdict
    <3> QED
      BY <2>1, <2>3, <3>1, <3>2
         DEF Verdicts, Cancelable, Promise!Verdicts, Promise!Cancelable,
             Promise!Settle, Promise!Next
  <2>5. CASE ~SaveApplies(row.state, TerminalTask.state)
    BY <1>5, <2>3, <2>5 DEF Complete, Promise!vars
  <2> QED
    BY <2>4, <2>5
<1>6. CASE Notify
  <2>1. row' = row /\ row.state \in Verdicts /\ heard' # {}
    BY <1>6 DEF Notify, Post, RecordedIsStored
  <2> QED
    BY <1>1, <2>1 DEF Verdicts, Promise!Verdicts, Promise!Tell, Promise!Next
<1>7. CASE UNCHANGED <<row, heard>>
  BY <1>1, <1>7 DEF Promise!vars
<1>8. Accept \/ Cancel \/ Working \/ Complete \/ Notify \/ UNCHANGED <<row, heard>>
  BY DEF Next, Workflow, StartTurn, RoundsAnswer, RoundsCanceled, RoundsThrow,
         Sweep, FailAttempt, Finished, vars
<1> QED
  BY <1>2, <1>3, <1>4, <1>5, <1>6, <1>7, <1>8

\* Whatever the retries, the lost answers and the cancellations, a gatekeeper
\* can tell no difference from the promise: settled once, told only that.
THEOREM Implements == Spec => KeepsPromise
<1>1. IInv /\ IInv' /\ [Next]_vars => [Promise!Next]_(Promise!vars)
  BY PromiseStep
<1> QED
  BY PromiseInit, <1>1, Invariance, PTL DEF Spec, KeepsPromise, Promise!Spec

-----------------------------------------------------------------------------
(* Several dispatches.                                                     *)

\* Nothing is heard before the callback, and then only what was recorded.
HeardIsBuilt ==
  /\ heard \subseteq {built}
  /\ pc \notin {"notify", "ended", "errored"} => heard = {}

EdgeInv == EdgeTypeOK /\ HeardIsBuilt

LEMMA AbsentType == Absent \in Tasks /\ [Absent EXCEPT !.state = "submitted"] \in Tasks
<1>1. 0 \in 0..MaxAttempts
  BY DeliveryAssumption
<1> QED BY <1>1 DEF Absent, Tasks, States, Texts

LEMMA EdgeInitGood == EdgeInit => EdgeInv
<1> SUFFICES ASSUME EdgeInit PROVE EdgeInv
  OBVIOUS
<1>1. TypeOK
  BY InitIInv DEF EdgeInit, IInv
<1>2. dispatch \in [Dispatches -> [at : {"unsent", "begun", "started", "acked", "dead"}, task : Tasks]]
  BY AbsentType DEF EdgeInit
<1> QED BY <1>1, <1>2 DEF EdgeInit, Init, EdgeInv, EdgeTypeOK, HeardIsBuilt

\* A dispatch stores no Task but one it was given.
LEMMA DispatchGood ==
  ASSUME EdgeInv, NEW d \in Dispatches, Request(d) \/ Die(d)
  PROVE  EdgeInv'
<1>0. TypeOK /\ HeardIsBuilt /\ dispatch[d].task \in Tasks /\ row \in Tasks
  BY DEF EdgeInv, EdgeTypeOK, TypeOK
<1>1. CASE Begin(d)
  <2>1. row' \in Tasks
    BY <1>0, <1>1, AbsentType DEF Begin
  <2>2. EdgeTypeOK'
    BY <1>1, <2>1 DEF Begin, EdgeInv, EdgeTypeOK, TypeOK
  <2> QED BY <1>0, <1>1, <2>2 DEF Begin, EdgeInv, HeardIsBuilt
<1>2. CASE Start(d)
  <2>1. EdgeTypeOK'
    BY <1>2 DEF Start, EdgeInv, EdgeTypeOK, TypeOK, Places
  <2> QED BY <1>0, <1>2, <2>1 DEF Start, EdgeInv, HeardIsBuilt
<1>3. CASE Acknowledge(d)
  <2>1. row' \in Tasks
    BY <1>0, <1>3 DEF Acknowledge
  <2>2. EdgeTypeOK'
    BY <1>3, <2>1 DEF Acknowledge, EdgeInv, EdgeTypeOK, TypeOK
  <2> QED BY <1>0, <1>3, <2>2 DEF Acknowledge, EdgeInv, HeardIsBuilt
<1>4. CASE Die(d)
  <2>1. EdgeTypeOK'
    BY <1>4 DEF Die, EdgeInv, EdgeTypeOK, TypeOK, vars
  <2> QED BY <1>0, <1>4, <2>1 DEF Die, EdgeInv, HeardIsBuilt, vars
<1> QED BY <1>1, <1>2, <1>3, <1>4 DEF Request

\* A lost attempt goes on, recovers or ends, and hears nothing by that.
LEMMA LoseKeepsHeard ==
  ASSUME TypeOK, HeardIsBuilt, Lose, built' = built, heard' = heard, pc \notin {"ended", "errored"}
  PROVE  HeardIsBuilt'
BY LoseType DEF HeardIsBuilt

\* The Workflow and a cancellation keep the types and what was heard.
LEMMA WorkflowGood ==
  ASSUME TypeOK, HeardIsBuilt, Cancel \/ Workflow
  PROVE  TypeOK' /\ HeardIsBuilt'
<1>0. 0 \in 0..(MaxAttempts - 1)
  BY DeliveryAssumption
<1>1. CASE Cancel
  <2>1. row' \in Tasks
    BY <1>1 DEF Cancel, TypeOK, Tasks, States
  <2> QED BY <1>1, <2>1 DEF Cancel, TypeOK, HeardIsBuilt
<1>2. CASE Working
  <2>1. row' \in Tasks /\ UNCHANGED <<answer, built, heard>> /\ pc = "working"
    BY <1>2 DEF Working, MarkedWorking, TypeOK, Tasks, States
  <2>2. CASE Lose
    BY <2>1, <2>2, LoseType, LoseKeepsHeard DEF TypeOK
  <2>3. CASE Goto(IF SaysCanceled(row.state) THEN "ended" ELSE "rounds") /\ UNCHANGED path
    BY <1>0, <2>1, <2>3 DEF Goto, TypeOK, Places, HeardIsBuilt
  <2> QED BY <1>2, <2>2, <2>3 DEF Working
<1>3. CASE RoundsAnswer \/ RoundsCanceled
  BY <1>0, <1>3 DEF RoundsAnswer, RoundsCanceled, Goto, TypeOK, Places, Texts, HeardIsBuilt
<1>4. CASE RoundsThrow
  <2>1. pc' \in {"complete", "errored"} /\ tries' = 0 /\ path' \in {"main", "abandoned"} /\ heard = {}
    BY <1>4 DEF RoundsThrow, Throw, HeardIsBuilt, TypeOK
  <2> QED BY <1>0, <1>4, <2>1 DEF RoundsThrow, TypeOK, Places, HeardIsBuilt
<1>5. CASE Complete
  <2>1. /\ TerminalTask \in Tasks /\ row' \in Tasks /\ heard = {} /\ heard' = {} /\ answer' = answer
        /\ built' \in Tasks /\ pc = "complete"
    BY <1>5, TerminalTaskType DEF Complete, HeardIsBuilt, TypeOK
  <2>2. CASE Lose /\ UNCHANGED built
    BY <2>1, <2>2, LoseType, LoseKeepsHeard DEF TypeOK, HeardIsBuilt
  <2>3. CASE ~(Lose /\ UNCHANGED built)
    <3>1. pc' \in {"sweep", "notify", "ended"} /\ tries' = 0 /\ path' = path
      BY <1>5, <2>3 DEF Complete, Goto, AfterComplete
    <3> QED BY <1>0, <2>1, <3>1 DEF TypeOK, Places, HeardIsBuilt
  <2> QED BY <2>2, <2>3
<1>6. CASE Sweep
  BY <1>0, <1>6 DEF Sweep, Goto, TypeOK, Places, HeardIsBuilt
<1>7. CASE Notify
  <2>1. heard' = heard \cup {built} /\ built' = built /\ row' = row /\ answer' = answer
        /\ heard' \subseteq {built'} /\ heard' \in SUBSET Tasks /\ pc = "notify"
    BY <1>7 DEF Notify, Post, HeardIsBuilt, TypeOK
  <2>2. CASE Lose
    <3>1. tries' \in 0..(MaxAttempts - 1) /\ pc' \in {"notify", "errored"} /\ path' = path
      BY <2>1, <2>2, LoseType
    <3> QED BY <2>1, <3>1 DEF TypeOK, Places, HeardIsBuilt
  <2>3. CASE Goto("ended") /\ UNCHANGED path
    BY <1>0, <2>1, <2>3 DEF Goto, TypeOK, Places, HeardIsBuilt
  <2> QED BY <1>7, <2>2, <2>3 DEF Notify
<1>8. CASE FailAttempt
  <2>1. Lose /\ UNCHANGED <<row, answer, built, heard>> /\ pc \notin {"ended", "errored"}
    BY <1>8 DEF FailAttempt
  <2> QED BY <2>1, LoseType, LoseKeepsHeard DEF TypeOK
<1> QED BY <1>1, <1>2, <1>3, <1>4, <1>5, <1>6, <1>7, <1>8 DEF Workflow

\* The invariant behind the three theorems that follow.
THEOREM EdgeCorrect == EdgeSpec => []EdgeInv
<1>1. EdgeInv /\ [EdgeNext]_edgeVars => EdgeInv'
  <2> SUFFICES ASSUME EdgeInv, [EdgeNext]_edgeVars PROVE EdgeInv'
    OBVIOUS
  <2>1. CASE \E d \in Dispatches : Request(d) \/ Die(d)
    BY <2>1, DispatchGood
  <2>2. CASE (Cancel \/ Workflow) /\ UNCHANGED <<dispatch, late>>
    BY <2>2, WorkflowGood DEF EdgeInv, EdgeTypeOK
  <2>3. CASE UNCHANGED edgeVars
    BY <2>3 DEF edgeVars, vars, EdgeInv, EdgeTypeOK, TypeOK, HeardIsBuilt
  <2>4. CASE Finished /\ UNCHANGED <<dispatch, late>>
    BY <2>3, <2>4 DEF Finished, edgeVars
  <2> QED BY <2>1, <2>2, <2>3, <2>4 DEF EdgeNext
<1> QED BY EdgeInitGood, <1>1, PTL DEF EdgeSpec

\* With any number of dispatches every variable keeps its type.
THEOREM EdgeTypeCorrect == EdgeSpec => []EdgeTypeOK
BY EdgeCorrect, PTL DEF EdgeInv

\* The gatekeeper hears one Task at most, though a dispatch may reopen the row.
THEOREM VerdictIsOne == EdgeSpec => []OneVerdict
<1>1. EdgeInv => OneVerdict
  <2> SUFFICES ASSUME EdgeInv PROVE OneVerdict
    OBVIOUS
  <2>1. heard = {} \/ heard = {built}
    BY DEF EdgeInv, HeardIsBuilt
  <2>2. Cardinality(heard) \in {0, 1}
    BY <2>1, FS_EmptySet, FS_Singleton
  <2> QED BY <2>2 DEF OneVerdict
<1> QED BY <1>1, EdgeCorrect, PTL

\* A canceled task stays canceled, whatever a dispatch or the turn still saves.
THEOREM CancellationHolds == EdgeSpec => CanceledIsFinal
<1>1. EdgeInv /\ [EdgeNext]_edgeVars => [row.state = "canceled" => row'.state = "canceled"]_edgeVars
  <2> SUFFICES ASSUME EdgeInv, EdgeNext, row.state = "canceled" PROVE row'.state = "canceled"
    OBVIOUS
  <2>0. row \in Tasks /\ \A incoming : SaveApplies(row.state, incoming) => incoming = "canceled"
    BY DEF EdgeInv, EdgeTypeOK, TypeOK, SaveApplies
  <2>1. ASSUME NEW d \in Dispatches, Request(d) \/ Die(d) PROVE row'.state = "canceled"
    BY <2>0, <2>1 DEF Request, Begin, Start, Acknowledge, Die, vars
  <2>2. CASE Complete
    <3>1. TerminalTask.state # "canceled"
      BY TerminalTaskType DEF EdgeInv, EdgeTypeOK, Verdicts
    <3> QED BY <2>0, <2>2, <3>1 DEF Complete
  <2>3. CASE Working
    BY <2>0, <2>3 DEF Working, MarkedWorking, Tasks
  <2>4. CASE Cancel \/ RoundsAnswer \/ RoundsCanceled \/ RoundsThrow \/ Sweep \/ Notify \/ FailAttempt \/ Finished
    BY <2>4 DEF Cancel, CancelApplies, Cancelable, RoundsAnswer, RoundsCanceled, RoundsThrow, Sweep, Notify,
                FailAttempt, Finished, vars
  <2> QED BY <2>1, <2>2, <2>3, <2>4 DEF EdgeNext, Workflow
<1> QED BY <1>1, EdgeCorrect, PTL DEF EdgeSpec, CanceledIsFinal

-----------------------------------------------------------------------------
(* Up to an acknowledgement that replaces a settled Task.                  *)

\* An open row holds nothing but its state, a dispatch holds such a Task or
\* what a settled row held, and only once a row exists.
Held(t) == t.state \in Cancelable /\ t.text = "" /\ t.stamp = 0

DispatchesHold ==
  /\ row.state \in Cancelable => Held(row)
  /\ \A d \in Dispatches : dispatch[d].at \in {"begun", "started"} =>
       /\ row.state # "none"
       /\ Held(dispatch[d].task) \/ row.state \in Terminal

\* What Delivery guarantees, as long as no acknowledgement came too late.
OnTime == late \/ (IInv /\ DispatchesHold)

OnTimeInv == EdgeInv /\ OnTime

\* The Workflow's steps and a cancellation leave an open row as bare as it was.
LEMMA RowStaysBare ==
  ASSUME IInv, Cancel \/ Workflow \/ Finished, row.state \in Cancelable => Held(row)
  PROVE  /\ row'.state \in Cancelable => Held(row')
         /\ row.state # "none" => row'.state # "none"
         /\ row.state \in Terminal => row'.state \in Terminal
<1>0. row \in Tasks
  BY DEF IInv, TypeOK
<1>1. CASE UNCHANGED row
  BY <1>1
<1>2. CASE Cancel
  BY <1>0, <1>2 DEF Cancel, CancelApplies, Tasks, Cancelable, Terminal
<1>3. CASE Working
  <2>1. row' = [row EXCEPT !.state = MarkedWorking(row.state)]
    BY <1>3 DEF Working
  <2>2. row'.text = row.text /\ row'.stamp = row.stamp /\ row'.state = MarkedWorking(row.state)
    BY <1>0, <2>1 DEF Tasks
  <2> QED BY <2>2 DEF MarkedWorking, Held, Cancelable, Terminal
<1>4. CASE Complete
  <2>1. TerminalTask.state \in Verdicts
    BY TerminalTaskType DEF IInv
  <2> QED BY <1>4, <2>1 DEF Complete, Verdicts, Cancelable, Terminal
<1>5. Complete \/ Cancel \/ Working \/ UNCHANGED row
  BY DEF Workflow, RoundsAnswer, RoundsCanceled, RoundsThrow, Sweep, Notify, Post, FailAttempt, Finished, vars
<1> QED BY <1>1, <1>2, <1>3, <1>4, <1>5

\* An acknowledgement in time leaves the row, or shows an open one as it was.
LEMMA AckInTime ==
  ASSUME OnTimeInv, NEW d \in Dispatches, Acknowledge(d), ~late'
  PROVE  /\ IInv /\ IInv' /\ DispatchesHold'
         /\ [Promise!Next]_(Promise!vars)
<1>1. /\ ~late /\ IInv /\ DispatchesHold /\ EdgeTypeOK
      /\ dispatch[d].at = "started" /\ row \in Tasks /\ dispatch[d].task \in Tasks
      /\ UNCHANGED <<pc, path, tries, answer, built, heard>>
  BY DEF OnTimeInv, OnTime, Acknowledge, EdgeInv, EdgeTypeOK, TypeOK
<1>2. dispatch' = [dispatch EXCEPT ![d].at = "acked"]
  BY DEF Acknowledge
<1>3. row.state \in Terminal => row' = row
  BY <1>1 DEF Acknowledge
<1>4. row' = row \/ row' = dispatch[d].task
  BY DEF Acknowledge
<1>5. row.state # "none" /\ row.state # "rejected"
  BY <1>1 DEF DispatchesHold, IInv
<1>6. row' = row \/ (Held(row) /\ Held(row') /\ row' \in Tasks)
  BY <1>1, <1>3, <1>4, <1>5 DEF DispatchesHold, Tasks, States, Cancelable, Terminal
<1>7. DispatchesHold'
  <2>1. \A e \in Dispatches : /\ dispatch'[e].task = dispatch[e].task
                              /\ dispatch'[e].at \in {"begun", "started"} => dispatch[e].at \in {"begun", "started"}
    BY <1>1, <1>2 DEF EdgeTypeOK
  <2> QED BY <1>1, <1>6, <2>1 DEF DispatchesHold, Held, Cancelable, Terminal
<1>8. CASE row' = row
  <2>1. UNCHANGED vars
    BY <1>1, <1>8 DEF vars
  <2> QED BY <1>1, <1>7, <2>1, NextIInv, PromiseStep
<1>9. CASE row' # row
  <2>1. Held(row) /\ Held(row') /\ row' \in Tasks /\ heard = {} /\ pc \notin {"sweep", "notify", "ended"}
    BY <1>1, <1>6, <1>9
       DEF IInv, HeardIsFinal, RecordedIsStored, EndedIsSettled, Held, Cancelable, Verdicts, Terminal
  <2>2. TypeOK'
    BY <1>1, <2>1 DEF IInv, TypeOK
  <2>3. IInv'
    BY <1>1, <2>1, <2>2
       DEF IInv, BeforeDelivery, LostWrite, RecordedIsStored, HeardIsFinal, HeardIsStored, EndedIsSettled,
           EndedIsToldOrCanceled, Held, Cancelable, Verdicts, Terminal
  <2>4. row' = [row EXCEPT !.state = row'.state]
    BY <1>1, <2>1 DEF Tasks, Held
  <2>5. row.state # row'.state
    BY <1>9, <2>1, <2>4, <1>1 DEF Tasks, Held
  <2>6. Told' = Told
    BY <1>1, <2>1, <2>3, ToldValue DEF Told
  <2>7. \/ row.state = "submitted" /\ row'.state = "working"
        \/ row.state = "working" /\ row'.state = "submitted"
    BY <2>1, <2>5 DEF Held, Cancelable
  <2> QED BY <1>1, <1>7, <2>3, <2>4, <2>6, <2>7 DEF Promise!Next, Promise!Work, Promise!Reshow
<1> QED BY <1>8, <1>9

\* One step, as long as no acknowledgement has come too late after it.
LEMMA OnTimeStep ==
  ASSUME OnTimeInv, [EdgeNext]_edgeVars, ~late'
  PROVE  /\ IInv /\ IInv' /\ DispatchesHold'
         /\ [Promise!Next]_(Promise!vars)
<1>a. late => late'
  <2>1. ASSUME NEW d \in Dispatches, late, Request(d) \/ Die(d) PROVE late'
    BY <2>1 DEF Request, Begin, Start, Acknowledge, Die
  <2> QED BY <2>1 DEF EdgeNext, edgeVars
<1>0. ~late /\ IInv /\ DispatchesHold /\ EdgeTypeOK
  BY <1>a DEF OnTimeInv, OnTime, EdgeInv
<1>1. ASSUME NEW d \in Dispatches, Begin(d)
      PROVE  IInv' /\ DispatchesHold' /\ [Next]_vars
  <2>1. row.state = "none" => Accept /\ row' = [Absent EXCEPT !.state = "submitted"]
    BY <1>1 DEF Begin, Accept
  <2>2. row.state # "none" => UNCHANGED vars
    BY <1>1 DEF Begin, vars
  <2>3. [Next]_vars
    BY <2>1, <2>2 DEF Next
  <2>4. row.state = "none" => Held(row')
    BY <2>1 DEF Absent, Held, Cancelable
  <2>5. row'.state # "none" /\ (row.state = "none" \/ row' = row)
    BY <2>2, <2>4 DEF vars, Held, Cancelable
  <2>6. \A e \in Dispatches : dispatch'[e] = IF e = d THEN [at |-> "begun", task |-> row'] ELSE dispatch[e]
    BY <1>0, <1>1 DEF Begin, EdgeTypeOK
  <2>7. row \in Tasks /\ row.state # "rejected" /\ IInv'
    BY <1>0, <2>3, NextIInv DEF IInv, TypeOK
  <2>8. Held(row') \/ row'.state \in Terminal
    BY <1>0, <2>4, <2>5, <2>7 DEF DispatchesHold, Tasks, States, Cancelable, Terminal
  <2> QED BY <1>0, <2>3, <2>4, <2>5, <2>6, <2>7, <2>8 DEF DispatchesHold
<1>2. ASSUME NEW d \in Dispatches, Start(d) \/ Die(d)
      PROVE  IInv' /\ DispatchesHold' /\ [Next]_vars
  <2>1. row' = row /\ [Next]_vars
    BY <1>0, <1>2 DEF Start, Die, Next, StartTurn, vars, DispatchesHold
  <2>2. \A e \in Dispatches : /\ dispatch'[e].task = dispatch[e].task
                              /\ dispatch'[e].at \in {"begun", "started"} => dispatch[e].at \in {"begun", "started"}
    BY <1>0, <1>2 DEF EdgeTypeOK, Start, Die
  <2> QED BY <1>0, <2>1, <2>2, NextIInv DEF DispatchesHold
<1>3. CASE \E d \in Dispatches : Begin(d) \/ Start(d) \/ Die(d)
  <2>1. PICK d \in Dispatches : Begin(d) \/ Start(d) \/ Die(d)
    BY <1>3
  <2> QED BY <1>0, <1>1, <1>2, <2>1, PromiseStep
<1>4. CASE \E d \in Dispatches : Acknowledge(d)
  BY <1>4, AckInTime
<1>5. CASE (Cancel \/ Workflow \/ Finished) /\ UNCHANGED <<dispatch, late>>
  <2>1. [Next]_vars
    BY <1>5 DEF Next
  <2>2. IInv'
    BY <1>0, <2>1, NextIInv
  <2>3. DispatchesHold'
    BY <1>0, <1>5, RowStaysBare DEF DispatchesHold
  <2> QED BY <1>0, <2>1, <2>2, <2>3, PromiseStep
<1>6. CASE UNCHANGED edgeVars
  <2>1. UNCHANGED vars /\ UNCHANGED dispatch
    BY <1>6 DEF edgeVars
  <2>2. DispatchesHold'
    BY <1>0, <2>1 DEF DispatchesHold, vars
  <2> QED BY <1>0, <2>1, <2>2, NextIInv, PromiseStep
<1> QED BY <1>3, <1>4, <1>5, <1>6 DEF EdgeNext, Request

LEMMA OnTimeCorrect == EdgeSpec => []OnTimeInv
<1>1. EdgeInit => OnTime
  <2> SUFFICES ASSUME EdgeInit PROVE IInv /\ DispatchesHold
    BY DEF OnTime
  <2>1. IInv /\ row.state = "none" /\ \A d \in Dispatches : dispatch[d].at = "unsent"
    BY InitIInv DEF EdgeInit, Init, Absent
  <2> QED BY <2>1 DEF DispatchesHold, Cancelable
<1>2. OnTimeInv /\ [EdgeNext]_edgeVars => OnTime'
  BY OnTimeStep DEF OnTime
<1> QED BY <1>1, <1>2, EdgeInitGood, EdgeCorrect, PTL DEF EdgeSpec, OnTimeInv

\* With any number of dispatches, and unless one reopened the row, a normal end
\* has told the gatekeeper, or was canceled, or lost every answer of a write.
THEOREM EndTellsAtEdge == EdgeSpec => []EndedIsTold
<1>1. OnTimeInv => EndedIsTold
  BY DEF OnTimeInv, OnTime, IInv, EndedIsTold
<1> QED BY <1>1, OnTimeCorrect, PTL

\* With any number of dispatches, all that happens before one reopens the row
\* is what TaskPromise allows.
THEOREM PromiseAtEdge == EdgeSpec => KeepsPromiseUntilLate
<1>1. EdgeInit => Promise!Init
  BY PromiseInit DEF EdgeInit
<1>2. OnTimeInv /\ [EdgeNext]_edgeVars => [late' \/ [Promise!Next]_(Promise!vars)]_edgeVars
  BY OnTimeStep
<1> QED BY <1>1, <1>2, OnTimeCorrect, PTL DEF EdgeSpec, KeepsPromiseUntilLate
=============================================================================
