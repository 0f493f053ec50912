----------------------------- MODULE TurnLadder -----------------------------
(***************************************************************************)
(* One call of runTurn (round/turn.ts): two model slots, the repairs of a  *)
(* rejected control call within a slot, the budget they all draw on, and   *)
(* the Session it reads and appends to while other calls use it as well.   *)
(*                                                                         *)
(* A model's turn is one step; what the loop makes of the attempt is the   *)
(* next.  RoundLoop sees of all this a number of turns and a conclusion.   *)
(***************************************************************************)
EXTENDS TurnView, AiErrors

CONSTANTS MaxTurns,   \* mainAgentLimits.maxTurns
          LastRound,  \* bound: the rounds looked at are 0..LastRound
          MaxRepairs, \* MAX_REPAIR_ATTEMPTS
          Words,      \* what a model can say
          Joined,     \* the text of the completed branches, joined
          Others,     \* other tasks of the same caller
          Pasts,      \* what the Session may hold from before the task
          Endings     \* the control calls a model may make in one step

Asked == "asked"
Acked == "acked"

\* The Session may hold anything but messages of a task that has not begun.
PastMessages == [kind : {"user", "reply", "ack"}, task : Others, round : Nat,
                 words : Words \cup {Asked, Acked, Blank}]
\* A step's calls: the texts of replies, and delegations with their references.
Steps == [replies : Seq(Words \cup {Blank}),
          delegates : Seq([says : Words, cites : Seq(Nat \ {0})])]

\* The Session takes an id once; what an id tells is a message without its words.
IdsOnce(stored) ==
  \A i, j \in DOMAIN stored :
    stored[i] = [stored[j] EXCEPT !.words = stored[i].words] => i = j

ASSUME LadderAssumption ==
  /\ MaxTurns \in Nat \ {0} /\ MaxRepairs \in Nat /\ LastRound \in 0..MaxTurns
  /\ Blank \notin Words \cup {Joined} /\ "nobody" \notin Words \cup {Joined}
  /\ Task \notin Others /\ Pasts \subseteq Seq(PastMessages) /\ Endings \subseteq Steps
  /\ \A past \in Pasts : IdsOnce(past)

VARIABLES args,    \* the round: number, mode, allowance, completed work, types
          session, \* the messages stored, in order
          folded,  \* how many of the oldest a summary stands for
          view,    \* the messages and the catalog of this call
          at,      \* where the call is
          slot, repair,
          steps,   \* steps left to the current attempt
          spent,   \* budget.spent
          got,     \* what the attempt ended with
          errors,  \* the kinds of errors met so far
          outcome, \* RunTurnOutcome, or a throw
          other    \* an earlier attempt of the round that was given up on

vars == <<args, session, folded, view, at, slot, repair, steps, spent, got, errors,
          outcome, other>>

Rounds == 0..LastRound
Earlier == 0..(args.round - 1)

NoEnding == [replies |-> <<>>, delegates |-> <<>>, error |-> "none"]
NoOutcome == [status |-> "none", words |-> Blank, kind |-> "none", quotes |-> <<>>,
              cites |-> {}]

TypeOK ==
  /\ args \in [round : Rounds, mode : {"open", "final"}, allowance : -1..MaxTurns,
               done : BOOLEAN, types : BOOLEAN]
  /\ IdsOnce(session)
  /\ folded \in 0..Len(session)
  /\ at \in {"start", "model", "returned", "over"}
  /\ slot \in {"primary", "fallback"} /\ repair \in 0..MaxRepairs
  /\ steps \in 0..MaxTurns /\ spent \in Nat
  /\ errors \in SUBSET (ErrorKinds \cup {"rejected"})
  /\ outcome.status \in {"none", "replied", "delegated", "failed", "threw"}
  /\ outcome.words \in Words \cup {Joined, Acked, Blank}
  /\ other \in {"busy", "none", "replied", "delegated"}

-----------------------------------------------------------------------------
(* The Session.                                                            *)

\* Where a message's id is stored, folded or not.
Same(m, stored) ==
  {i \in DOMAIN stored : stored[i] = [m EXCEPT !.words = stored[i].words]}

\* An id that is stored is not written again.
Appended(m) == IF Same(m, session) # {} THEN session ELSE Append(session, m)

\* appendOnce's read-back: the words stored under the id.
ReadBack(m, stored) == stored[CHOOSE i \in Same(m, stored) : TRUE].words

History(stored) ==
  IF folded = 0 THEN stored
  ELSE <<Summary>> \o SubSeq(stored, folded + 1, Len(stored))

\* A round begins over whatever its task and others have left in the Session:
\* the acknowledgments of its earlier rounds, and perhaps its own from an
\* attempt that died before the rows.
Init ==
  /\ args \in [round : Rounds, mode : {"open", "final"}, allowance : -1..MaxTurns,
               done : BOOLEAN, types : BOOLEAN]
  /\ args.round = 0 => args.allowance = MaxTurns /\ ~args.done
  /\ args.mode = "open" => args.allowance > 0
  /\ ~args.types => args.round = 0
  /\ \E past \in Pasts, begun, crashed \in BOOLEAN :
       /\ args.round > 0 \/ crashed => begun
       /\ crashed => args.mode = "open" /\ args.types
       /\ session = past \o (IF begun THEN <<UserTurn(Task, Asked)>> ELSE <<>>)
                         \o [r \in 1..args.round |-> Ack(Task, r - 1, Acked)]
                         \o (IF crashed THEN <<Ack(Task, args.round, Acked)>>
                                        ELSE <<>>)
  /\ folded \in 0..Len(session)
  /\ view = [messages |-> <<>>, catalog |-> <<>>]
  /\ at = "start" /\ slot = "primary" /\ repair = 0 /\ steps = 0 /\ spent = 0
  /\ got = NoEnding /\ errors = {} /\ outcome = NoOutcome
  /\ other \in {"busy", "none"}

-----------------------------------------------------------------------------
(* The attempt.                                                            *)

Final == args.mode = "final"

\* `delegate` is declared in an open round of an agent that has Subtask types.
Delegable == ~Final /\ args.types

\* stepAllowance, read as the attempt begins: one step at the least, and one only
\* for a forced answer.
StepBudget ==
  IF Final \/ spent >= args.allowance THEN 1 ELSE args.allowance - spent

\* The user turn is stored once, by round 0; then the view is rendered.
Begin ==
  /\ at = "start"
  /\ session' = IF args.round = 0 THEN Appended(UserTurn(Task, Asked)) ELSE session
  /\ view' = RenderTurnMessages(History(session'), Earlier)
  /\ at' = "model" /\ steps' = StepBudget
  /\ UNCHANGED <<args, folded, slot, repair, spent, got, errors, outcome, other>>

\* A step that only worked: the loop goes on while steps are left.
Works ==
  /\ at = "model" /\ ~Final
  /\ spent' = spent + 1 /\ steps' = steps - 1
  /\ at' = IF steps = 1 THEN "returned" ELSE "model"
  /\ UNCHANGED <<args, session, folded, view, slot, repair, got, errors, outcome,
                 other>>

\* A step that called an ending, or nothing but words: the loop halts on it.
Ends ==
  /\ at = "model"
  /\ \E calls \in Endings :
       /\ calls.delegates # <<>> => Delegable
       /\ got' = [NoEnding EXCEPT !.replies = calls.replies,
                                  !.delegates = calls.delegates]
  /\ spent' = spent + 1 /\ steps' = steps - 1 /\ at' = "returned"
  /\ UNCHANGED <<args, session, folded, view, slot, repair, errors, outcome, other>>

\* A step that threw, past the SDK's own retries, is not charged.
Breaks ==
  /\ at = "model"
  /\ \E kind \in ErrorKinds : got' = [NoEnding EXCEPT !.error = kind]
  /\ at' = "returned"
  /\ UNCHANGED <<args, session, folded, view, slot, repair, steps, spent, errors,
                 outcome, other>>

\* The most committal ending called.
Reached ==
  CASE got.delegates # <<>> -> "delegate"
    [] got.delegates = <<>> /\ got.replies # <<>> -> "final_reply"
    [] OTHER -> "nothing"

\* select and parse: the last reply counts and is not blank; two delegations are
\* refused, one is held against the catalog the model was shown.
Usable ==
  CASE Reached = "delegate" ->
         Len(got.delegates) = 1 /\ ValidReferences(got.delegates[1].cites, view.catalog)
    [] Reached = "final_reply" -> Last(got.replies) # Blank
    [] OTHER -> FALSE

Rejected == Reached # "nothing" /\ ~Usable
Error == CASE got.error # "none" -> got.error [] Rejected -> "rejected" [] OTHER -> "plain"

-----------------------------------------------------------------------------
(* runTurn.                                                                *)

Settle(result) == outcome' = result /\ at' = "over"

\* A message is stored and read back; a storage fault throws, before or after.
Stores(m, result) ==
  /\ session' = Appended(m) \/ session' = session
  /\ \/ /\ session' = Appended(m)
        /\ Settle([result EXCEPT !.words = ReadBack(m, session')])
     \/ Settle([NoOutcome EXCEPT !.status = "threw"])

Replies ==
  /\ at = "returned" /\ Reached = "final_reply" /\ Usable
  /\ Stores(FinalReply(Task, Last(got.replies)), [NoOutcome EXCEPT !.status = "replied"])
  /\ UNCHANGED <<args, folded, view, slot, repair, steps, spent, got, errors, other>>

\* Regression: the indexes held against the Session as it is now.
DelegatesAfresh ==
  /\ at = "returned" /\ Reached = "delegate" /\ Usable
  /\ \A i \in DOMAIN got.delegates[1].cites :
       got.delegates[1].cites[i] <= Len(Catalog(History(session)))
  /\ Stores(Ack(Task, args.round, got.delegates[1].says),
            [NoOutcome EXCEPT !.status = "delegated",
               !.cites = ToSet(got.delegates[1].cites),
               !.quotes = References(got.delegates[1].cites, Catalog(History(session)))])
  /\ UNCHANGED <<args, folded, view, slot, repair, steps, spent, got, errors, other>>

Delegates ==
  /\ at = "returned" /\ Reached = "delegate" /\ Usable
  /\ Stores(Ack(Task, args.round, got.delegates[1].says),
            [NoOutcome EXCEPT !.status = "delegated",
               !.cites = ToSet(got.delegates[1].cites),
               !.quotes = References(got.delegates[1].cites, view.catalog)])
  /\ UNCHANGED <<args, folded, view, slot, repair, steps, spent, got, errors, other>>

Failed == at = "returned" /\ ~Usable

\* deterministicJoin, or the round's failure if no branch completed.
JoinOr(kind) ==
  IF args.done
    THEN Stores(FinalReply(Task, Joined), [NoOutcome EXCEPT !.status = "replied"])
    ELSE /\ Settle([NoOutcome EXCEPT !.status = "failed", !.kind = kind])
         /\ UNCHANGED session

\* An error nothing can clear ends the round from either slot.
Stops ==
  /\ Failed /\ Error \in Credentials
  /\ JoinOr(Error)
  /\ UNCHANGED <<args, folded, view, slot, repair, steps, spent, got, errors, other>>

\* Regression: repairs that only their number bounds.
RepairsOverBudget == Rejected /\ repair < MaxRepairs

\* A rejected call is shown to the same model again, while repairs and turns last.
CanRepair == Rejected /\ repair < MaxRepairs /\ spent < args.allowance

\* Another attempt of the given slot.
Retry(next, repairs) ==
  /\ slot' = next /\ repair' = repairs
  /\ at' = "model" /\ steps' = StepBudget /\ got' = NoEnding
  /\ errors' = errors \cup {Error}
  /\ UNCHANGED <<args, session, folded, view, spent, outcome, other>>

Repairs == Failed /\ Error \notin Credentials /\ CanRepair /\ Retry(slot, repair + 1)

FallsBack == /\ Failed /\ Error \notin Credentials /\ ~CanRepair
             /\ slot = "primary" /\ Retry("fallback", 0)

\* Regression: only the last error looked at.
ExhaustsOnLast ==
  /\ Failed /\ Error \notin Credentials /\ ~CanRepair /\ slot = "fallback"
  /\ errors' = errors \cup {Error}
  /\ IF Error = "transient"
       THEN Settle([NoOutcome EXCEPT !.status = "threw"]) /\ UNCHANGED session
       ELSE JoinOr("exhausted")
  /\ UNCHANGED <<args, folded, view, slot, repair, steps, spent, got, other>>

\* Both slots are through.  A transient fault of either is thrown, so the step
\* tries again; else what the branches brought is delivered.
Exhausts ==
  /\ Failed /\ Error \notin Credentials /\ ~CanRepair /\ slot = "fallback"
  /\ errors' = errors \cup {Error}
  /\ IF "transient" \in errors'
       THEN Settle([NoOutcome EXCEPT !.status = "threw"]) /\ UNCHANGED session
       ELSE JoinOr("exhausted")
  /\ UNCHANGED <<args, folded, view, slot, repair, steps, spent, got, other>>

-----------------------------------------------------------------------------
(* The others at the Session.                                              *)

\* The attempt of this round that was given up on answers, or delegates.
OtherEnds ==
  /\ other = "busy"
  /\ \E w \in Words :
       \/ session' = Appended(FinalReply(Task, w)) /\ other' = "replied"
       \/ /\ Delegable
          /\ session' = Appended(Ack(Task, args.round, w)) /\ other' = "delegated"
  /\ UNCHANGED <<args, folded, view, at, slot, repair, steps, spent, got, errors,
                 outcome>>

\* Another task of the caller compacts the Session, once, up to anywhere.
Compact ==
  /\ folded = 0 /\ at # "over"
  /\ folded' \in 1..Len(session)
  /\ UNCHANGED <<args, session, view, at, slot, repair, steps, spent, got, errors,
                 outcome, other>>

Finished == at = "over" /\ other # "busy" /\ UNCHANGED vars

Attempt == Works \/ Ends \/ Breaks
Conclude == Replies \/ Delegates \/ Stops \/ Repairs \/ FallsBack \/ Exhausts

Next == Begin \/ Attempt \/ Conclude \/ OtherEnds \/ Compact \/ Finished

Spec == Init /\ [][Next]_vars

-----------------------------------------------------------------------------
(* Properties.                                                             *)

\* The model is shown each earlier round's delegation with its results exactly
\* once, whether or not its acknowledgment was compacted away, and never an
\* acknowledgment of this task that has no work behind it.
ShownOnce ==
  at # "start" =>
    LET shown == view.messages
    IN  /\ \A r \in Earlier :
             Cardinality({i \in DOMAIN shown :
                            shown[i].pair /\ shown[i].message.round = r}) = 1
        /\ \A i \in DOMAIN shown :
             IF shown[i].pair THEN shown[i].message.round \in Earlier
             ELSE ~(shown[i].message.kind = "ack" /\ shown[i].message.task = Task)

\* What a Subtask is given to read are the turns that the model saw under the
\* indexes it named, in the order of the conversation, whatever happened to the
\* Session since; and never an acknowledgment or a summary.
QuotesWhatWasMarked ==
  outcome.status = "delegated" =>
    LET shown == [i \in DOMAIN view.messages |-> view.messages[i].message]
        marked == {i \in DOMAIN shown : view.messages[i].ref \in outcome.cites}
    IN  /\ outcome.quotes = InOrder(shown, marked)
        /\ \A i \in marked : shown[i].kind \notin {"ack", "summary"}

\* A round fails only with no completed work to deliver; as exhausted only after
\* both slots and with no transient fault among their errors; and an answer the
\* model gave beside a delegation never ends the task.
EndsHonestly ==
  /\ outcome.status = "failed" =>
       /\ ~args.done
       /\ outcome.kind = "exhausted" => slot = "fallback" /\ "transient" \notin errors
       /\ outcome.kind \in Credentials => got.error = outcome.kind
  /\ outcome.status = "replied" =>
       /\ outcome.words # Blank
       /\ outcome.words = Joined \/ got.delegates = <<>> \/ other = "replied"

\* What a round may spend: one turn more than the task has left, and two for an
\* answer that is forced when nothing is left.
SpendCeiling ==
  spent <= IF args.allowance < 1 THEN 2 ELSE args.allowance + 1

-----------------------------------------------------------------------------
(* Refinement: a call of RoundLoop, beside the one that was given up on.   *)

Reply == LET m == FinalReply(Task, Blank) IN
         IF Same(m, session) = {} THEN "nobody" ELSE ReadBack(m, session)

AckedRounds ==
  {session[i].round : i \in {j \in DOMAIN session :
                               session[j].kind = "ack" /\ session[j].task = Task}}

RowSet(r) ==
  CASE r \in Earlier -> IF args.done THEN "some" ELSE "null"
    [] r = args.round /\ "delegated" \in {outcome.status, other} -> "open"
    [] OTHER -> "none"
Rows == [r \in 0..MaxTurns |-> RowSet(r)]

Station == CASE outcome.status = "none" -> "turn"
             [] outcome.status = "delegated" -> "scan"
             [] OTHER -> outcome.status
Paid == IF outcome.status \in {"none", "threw"} THEN 0 ELSE spent
Loop == [at |-> Station, round |-> args.round, mode |-> args.mode, tries |-> 0,
         used |-> (MaxTurns - args.allowance) + Paid,
         attempt |-> IF at = "over" THEN "nobody" ELSE "this",
         says |-> IF outcome.status = "replied" THEN outcome.words ELSE "nobody"]

\* A call at work that has spent some turns, and one that is not.
Busy(turns) == [busy |-> TRUE, round |-> args.round, mode |-> args.mode,
                left |-> args.allowance, spent |-> turns, join |-> args.done]
Free == [busy |-> FALSE, round |-> 0, mode |-> "open", left |-> 0, spent |-> 0,
         join |-> FALSE]
This == IF at = "over" THEN Free ELSE Busy(spent)
Other == IF other = "busy" THEN Busy(1) ELSE Free
Both == [c \in {"this", "other"} |-> IF c = "this" THEN This ELSE Other]

R == INSTANCE RoundLoop WITH
  Words <- Words \cup {Joined}, Nobody <- "nobody", Calls <- {"this", "other"},
  MaxAttempts <- 1, MaxFaults <- 0,
  canceled <- FALSE, overdue <- FALSE, free <- 0, faults <- 0,
  reply <- Reply, acks <- AckedRounds, rows <- Rows, wf <- Loop, call <- Both

\* Every step of the ladder is a step of RoundLoop or invisible to it.  A turn
\* past RoundLoop's ceiling is no step of it: an open round overruns what the
\* task has left by at most one turn, a forced answer by at most two.
IsRound == [][R!Next]_(R!vars)
=============================================================================
