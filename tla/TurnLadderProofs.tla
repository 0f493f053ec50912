-------------------------- MODULE TurnLadderProofs --------------------------
(***************************************************************************)
(* Proofs about TurnLadder for any budget, number of repairs, control      *)
(* calls and Session: what a round spends at most, how it ends, what its   *)
(* model is shown and its Subtasks are quoted, and that it is a call of    *)
(* RoundLoop.                                                              *)
(***************************************************************************)
EXTENDS TurnLadder, FiniteSetTheorems, SequenceTheorems, TLAPS

\* The ranges of what the budget depends on.
Ranges == /\ args.allowance \in -1..MaxTurns /\ args.mode \in {"open", "final"}
          /\ args.mode = "open" => args.allowance > 0
          /\ spent \in Nat /\ steps \in Nat
          /\ at \in {"start", "model", "returned", "over"}
          /\ slot \in {"primary", "fallback"}

\* With turns left, an attempt fits into them, but for the first of the fallback,
\* whose one step may be the first past them.
Fits == args.allowance >= 1 =>
          /\ at = "model" => \/ spent + steps <= args.allowance
                             \/ slot = "fallback" /\ spent + steps <= args.allowance + 1
          /\ at # "model" => \/ spent <= args.allowance
                             \/ slot = "fallback" /\ spent <= args.allowance + 1

\* With none left there are no repairs, so each slot has one step.
Forced == args.allowance < 1 =>
            /\ at = "model" => steps = 1 /\ spent <= IF slot = "primary" THEN 0 ELSE 1
            /\ at # "model" => spent <= IF slot = "primary" THEN 1 ELSE 2

IInv == /\ Ranges /\ Fits /\ Forced
        /\ at = "start" => spent = 0 /\ slot = "primary"
        /\ at = "model" => steps > 0

LEMMA Allowance ==
  ASSUME LadderAssumption, Ranges
  PROVE  /\ StepBudget \in Nat \ {0}
         /\ spent < args.allowance => spent + StepBudget <= args.allowance
         /\ spent >= args.allowance => StepBudget = 1
BY DEF LadderAssumption, Ranges, StepBudget, Final

LEMMA InitGood == LadderAssumption /\ Init => IInv
BY DEF LadderAssumption, Init, IInv, Ranges, Fits, Forced

LEMMA BeginGood == ASSUME LadderAssumption, IInv, Begin PROVE IInv'
<1>1. UNCHANGED <<args, spent, slot>> /\ at = "start" /\ at' = "model" /\ steps' = StepBudget
  BY DEF Begin
<1> QED BY <1>1, Allowance DEF IInv, Ranges, Fits, Forced, LadderAssumption

LEMMA AttemptGood == ASSUME LadderAssumption, IInv, Attempt PROVE IInv'
<1> USE DEF LadderAssumption, IInv, Ranges, Fits, Forced
<1>1. CASE Works
  BY <1>1 DEF Works, Final
<1>2. CASE Ends
  <2>1. /\ at = "model" /\ at' = "returned" /\ UNCHANGED <<args, slot>>
        /\ spent' = spent + 1 /\ steps' = steps - 1
    BY <1>2 DEF Ends
  <2> QED BY <2>1
<1>3. CASE Breaks
  BY <1>3 DEF Breaks
<1> QED BY <1>1, <1>2, <1>3 DEF Attempt

\* A repair begins below the allowance, a fallback perhaps at it.
LEMMA RetryGood ==
  ASSUME LadderAssumption, IInv, at = "returned", NEW next, NEW repairs,
         Retry(next, repairs),
         \/ next = slot /\ spent < args.allowance
         \/ next = "fallback" /\ slot = "primary"
  PROVE  IInv'
<1>1. /\ at' = "model" /\ slot' = next /\ steps' = StepBudget
      /\ UNCHANGED <<args, spent>>
  BY DEF Retry
<1>2. CASE next = slot /\ spent < args.allowance
  BY <1>1, <1>2, Allowance DEF IInv, Ranges, Fits, Forced, LadderAssumption
<1>3. CASE next = "fallback" /\ slot = "primary"
  BY <1>1, <1>3, Allowance DEF IInv, Ranges, Fits, Forced, LadderAssumption
<1> QED BY <1>2, <1>3

LEMMA EndGood ==
  ASSUME IInv, at = "returned", at' = "over", UNCHANGED <<args, slot, spent, steps>>
  PROVE  IInv'
BY DEF IInv, Ranges, Fits, Forced

LEMMA JoinEnds == ASSUME NEW kind, JoinOr(kind) PROVE at' = "over"
BY DEF JoinOr, Stores, Settle

LEMMA ConcludeGood == ASSUME LadderAssumption, IInv, Conclude PROVE IInv'
<1>1. CASE Replies
  BY <1>1, EndGood DEF Replies, Stores, Settle
<1>2. CASE Delegates
  BY <1>2, EndGood DEF Delegates, Stores, Settle
<1>3. CASE Stops
  BY <1>3, EndGood, JoinEnds DEF Stops, Failed
<1>4. CASE Repairs
  BY <1>4, RetryGood DEF Repairs, Failed, CanRepair
<1>5. CASE FallsBack
  BY <1>5, RetryGood DEF FallsBack, Failed
<1>6. CASE Exhausts
  BY <1>6, EndGood, JoinEnds DEF Exhausts, Failed, Settle
<1> QED BY <1>1, <1>2, <1>3, <1>4, <1>5, <1>6 DEF Conclude

LEMMA OthersGood == ASSUME IInv, OtherEnds \/ Compact \/ UNCHANGED vars PROVE IInv'
<1>1. UNCHANGED <<args, at, slot, steps, spent>>
  BY DEF OtherEnds, Compact, vars
<1> QED BY <1>1 DEF IInv, Ranges, Fits, Forced

LEMMA StepGood == ASSUME LadderAssumption, IInv, [Next]_vars PROVE IInv'
BY BeginGood, AttemptGood, ConcludeGood, OthersGood DEF Next, Finished

\* A round spends at most one turn more than the task has left, and at most two
\* when nothing is left: the bound RoundLoop takes for granted, for every budget,
\* number of repairs, way of failing and Session.
THEOREM SpendHolds == Spec => []SpendCeiling
<1>1. IInv => SpendCeiling
  BY DEF IInv, Ranges, Fits, Forced, SpendCeiling
<1> QED BY LadderAssumption, InitGood, StepGood, <1>1, PTL DEF Spec
-----------------------------------------------------------------------------
(* How a round ends.                                                       *)

Texts == Words \cup {Joined, Asked, Acked, Blank}
Messages == [kind : {"user", "reply", "ack"}, task : Others \cup {Task}, round : Nat,
             words : Texts]
IsReply(m) == m.kind = "reply" /\ m.task = Task

\* Every reply stored for the task says something, and while the call is at work
\* only the abandoned one can have stored it.
Stored == /\ session \in Seq(Messages)
          /\ \A i \in DOMAIN session : IsReply(session[i]) =>
               /\ session[i].words \in Words \cup {Joined}
               /\ at # "over" => other = "replied"

\* What an attempt ended with.
Ending == /\ got.replies \in Seq(Words \cup {Blank})
          /\ got.delegates \in Seq([says : Words, cites : Seq(Nat \ {0})])
          /\ at # "over" => outcome.status = "none"

HInv == /\ args.round \in Rounds /\ Stored /\ Ending /\ EndsHonestly

LEMMA Typed ==
  ASSUME NEW round \in Nat, NEW words \in Texts
  PROVE  /\ Ack(Task, round, words) \in Messages /\ ~IsReply(Ack(Task, round, words))
         /\ UserTurn(Task, words) \in Messages /\ ~IsReply(UserTurn(Task, words))
         /\ FinalReply(Task, words) \in Messages /\ IsReply(FinalReply(Task, words))
         /\ FinalReply(Task, words).words = words
BY DEF Ack, UserTurn, FinalReply, Messages, IsReply

\* An append leaves the stored messages where they are and adds at most its own.
LEMMA AppendedIs ==
  ASSUME session \in Seq(Messages), NEW m \in Messages
  PROVE  /\ Appended(m) \in Seq(Messages)
         /\ \A i \in DOMAIN Appended(m) :
              \/ i \in DOMAIN session /\ Appended(m)[i] = session[i]
              \/ Appended(m)[i] = m
         /\ \E i \in DOMAIN Appended(m) :
              Appended(m)[i] = [m EXCEPT !.words = Appended(m)[i].words]
<1>1. CASE \E i \in DOMAIN session : session[i] = [m EXCEPT !.words = session[i].words]
  BY <1>1 DEF Appended, Same
<1>2. CASE ~\E i \in DOMAIN session : session[i] = [m EXCEPT !.words = session[i].words]
  <2>1. Appended(m) = Append(session, m)
    BY <1>2 DEF Appended, Same
  <2>2. m = [m EXCEPT !.words = m.words]
    BY DEF Messages
  <2>3. Len(session) + 1 \in DOMAIN Append(session, m)
        /\ Append(session, m)[Len(session) + 1] = m
    OBVIOUS
  <2>4. Append(session, m) \in Seq(Messages)
    OBVIOUS
  <2>5. \A i \in DOMAIN Append(session, m) :
          \/ i \in DOMAIN session /\ Append(session, m)[i] = session[i]
          \/ Append(session, m)[i] = m
    OBVIOUS
  <2>6. \E i \in DOMAIN Append(session, m) :
          Append(session, m)[i] = [m EXCEPT !.words = Append(session, m)[i].words]
    BY <2>2, <2>3
  <2> QED BY <2>1, <2>4, <2>5, <2>6
<1> QED BY <1>1, <1>2

LEMMA ReadBackIs ==
  ASSUME session \in Seq(Messages), NEW m \in Messages
  PROVE  LET stored == Appended(m) IN
         \E i \in DOMAIN stored : /\ stored[i] = [m EXCEPT !.words = stored[i].words]
                                  /\ ReadBack(m, stored) = stored[i].words
<1>1. Same(m, Appended(m)) # {}
  BY AppendedIs DEF Same
<1> DEFINE i == CHOOSE i \in Same(m, Appended(m)) : TRUE
<1>2. i \in Same(m, Appended(m))
  BY <1>1
<1> QED BY <1>2 DEF Same, ReadBack

LEMMA StoresReply ==
  ASSUME Stored, at = "returned", UNCHANGED other, NEW w \in Words \cup {Joined},
         Stores(FinalReply(Task, w), [NoOutcome EXCEPT !.status = "replied"])
  PROVE  /\ Stored'
         /\ outcome'.status \in {"replied", "threw"}
         /\ outcome'.status = "replied" => /\ outcome'.words \in Words \cup {Joined}
                                           /\ outcome'.words = w \/ other = "replied"
<1> DEFINE m == FinalReply(Task, w)
           stored == Appended(m)
<1>1. m \in Messages /\ IsReply(m) /\ m.words = w
  BY Typed DEF Texts
<1>2. at' = "over" /\ (session' = stored \/ session' = session)
  BY DEF Stores, Settle
<1>3. /\ stored \in Seq(Messages)
      /\ \A i \in DOMAIN stored : \/ i \in DOMAIN session /\ stored[i] = session[i]
                                  \/ stored[i] = m
  BY <1>1, AppendedIs DEF Stored
<1>4. \A i \in DOMAIN stored : IsReply(stored[i]) =>
        /\ stored[i].words \in Words \cup {Joined}
        /\ stored[i].words = w \/ other = "replied"
  BY <1>1, <1>3 DEF Stored
<1>5. Stored'
  <2>1. CASE session' = stored
    BY <1>2, <1>3, <1>4, <2>1 DEF Stored
  <2>2. CASE session' = session
    BY <1>2, <2>2 DEF Stored
  <2> QED BY <1>2, <2>1, <2>2
<1>6. CASE outcome' = [NoOutcome EXCEPT !.status = "threw"]
  BY <1>5, <1>6 DEF NoOutcome
<1>7. CASE /\ session' = stored
           /\ outcome' = [[NoOutcome EXCEPT !.status = "replied"]
                            EXCEPT !.words = ReadBack(m, stored)]
  <2>1. PICK i \in DOMAIN stored : /\ stored[i] = [m EXCEPT !.words = stored[i].words]
                                   /\ ReadBack(m, stored) = stored[i].words
    BY <1>1, ReadBackIs DEF Stored
  <2>2. IsReply(stored[i])
    BY <1>1, <2>1 DEF IsReply, Messages
  <2>3. outcome'.status = "replied" /\ outcome'.words = stored[i].words
    BY <1>7, <2>1 DEF NoOutcome
  <2> QED BY <1>4, <1>5, <2>1, <2>2, <2>3
<1> QED BY <1>6, <1>7 DEF Stores, Settle

LEMMA StoresAck ==
  ASSUME Stored, UNCHANGED other, NEW round \in Nat, NEW w \in Words,
         session' = Appended(Ack(Task, round, w)) \/ session' = session,
         at' # "over" => at # "over"
  PROVE  Stored'
<1>1. Ack(Task, round, w) \in Messages /\ ~IsReply(Ack(Task, round, w))
  BY Typed DEF Texts
<1>2. CASE session' = session
  BY <1>2 DEF Stored
<1>3. CASE session' = Appended(Ack(Task, round, w))
  BY <1>1, <1>3, AppendedIs DEF Stored
<1> QED BY <1>2, <1>3

\* A credential kind is no other kind of failure.
LEMMA CredentialsAre == Credentials = {"credential", "gateway-credential", "unknown-credential"}
<1> DEFINE Refused(source) == [source |-> source, class |-> "Error", isRetryable |-> FALSE,
                               status |-> 0, hint |-> FALSE]
<1>1. \A source \in {"provider", "gateway", "unsaid"} : Refused(source) \in Errors
  BY DEF Errors, Statuses
<1>2. /\ NonRecoverableKind(Refused("provider")) = "credential"
      /\ NonRecoverableKind(Refused("gateway")) = "gateway-credential"
      /\ NonRecoverableKind(Refused("unsaid")) = "unknown-credential"
  BY DEF NonRecoverableKind
<1>3. \A e \in Errors : NonRecoverableKind(e) \in
        {"none", "credential", "gateway-credential", "unknown-credential"}
  BY DEF NonRecoverableKind
<1> HIDE DEF Refused
<1> QED BY <1>1, <1>2, <1>3 DEF Credentials

\* The join of the branches, or the failure of a round with none completed.
LEMMA JoinHonest ==
  ASSUME Blank \notin Words \cup {Joined},
         HInv, at = "returned", UNCHANGED <<args, slot, got, other>>,
         NEW kind, JoinOr(kind),
         kind = "exhausted" => slot = "fallback" /\ "transient" \notin errors',
         kind \in Credentials => got.error = kind
  PROVE  HInv'
<1>1. CASE args.done
  <2>1. /\ Stored'
        /\ outcome'.status \in {"replied", "threw"}
        /\ outcome'.status = "replied" => /\ outcome'.words \in Words \cup {Joined}
                                          /\ outcome'.words = Joined \/ other = "replied"
    BY <1>1, StoresReply DEF JoinOr, HInv
  <2>2. at' = "over"
    BY JoinEnds
  <2>3. EndsHonestly'
    <3>1. outcome'.status # "failed"
      BY <2>1
    <3>2. outcome'.status = "replied" =>
            /\ outcome'.words # Blank
            /\ outcome'.words = Joined \/ other' = "replied"
      BY <2>1
    <3> QED BY <3>1, <3>2 DEF EndsHonestly
  <2>4. Ending'
    BY <2>2 DEF HInv, Ending
  <2> QED BY <2>1, <2>3, <2>4 DEF HInv
<1>2. CASE ~args.done
  <2>1. /\ at' = "over" /\ session' = session
        /\ outcome' = [NoOutcome EXCEPT !.status = "failed", !.kind = kind]
    BY <1>2 DEF JoinOr, Settle
  <2>2. outcome'.status = "failed" /\ outcome'.kind = kind
    BY <2>1 DEF NoOutcome
  <2>3. Stored'
    BY <2>1 DEF HInv, Stored
  <2> QED BY <1>2, <2>1, <2>2, <2>3 DEF HInv, Ending, EndsHonestly
<1> QED BY <1>1, <1>2

\* No reply of the task is stored before its call begins.
LEMMA InitHonest == LadderAssumption /\ Init => HInv
<1> SUFFICES ASSUME LadderAssumption, Init PROVE HInv
  OBVIOUS
<1> DEFINE Strangers == {m \in Messages : ~IsReply(m)}
<1>1. PICK past \in Pasts, begun, crashed \in BOOLEAN :
        session = past \o (IF begun THEN <<UserTurn(Task, Asked)>> ELSE <<>>)
                       \o [r \in 1..args.round |-> Ack(Task, r - 1, Acked)]
                       \o (IF crashed THEN <<Ack(Task, args.round, Acked)>> ELSE <<>>)
  BY DEF Init
<1>2. args.round \in Rounds
  BY DEF Init
<1>3. past \in Seq(Strangers)
  <2>1. past \in Seq(PastMessages)
    BY DEF LadderAssumption
  <2>2. \A m \in PastMessages : m \in Strangers
    BY DEF LadderAssumption, PastMessages, Messages, Texts, IsReply
  <2> QED BY <2>1, <2>2
<1>4. UserTurn(Task, Asked) \in Strangers
  BY Typed DEF Texts
<1>5. \A r \in Nat : Ack(Task, r, Acked) \in Strangers
  BY Typed DEF Texts
<1>6. (IF begun THEN <<UserTurn(Task, Asked)>> ELSE <<>>) \in Seq(Strangers)
  <2>1. <<UserTurn(Task, Asked)>> \in Seq(Strangers)
    BY <1>4
  <2>2. <<>> \in Seq(Strangers)
    OBVIOUS
  <2> QED BY <2>1, <2>2
<1>7. [r \in 1..args.round |-> Ack(Task, r - 1, Acked)] \in Seq(Strangers)
  <2>1. \A r \in 1..args.round : r - 1 \in Nat
    BY <1>2 DEF Rounds
  <2>2. args.round \in Nat
    BY <1>2 DEF Rounds
  <2> QED BY <1>5, <2>1, <2>2
<1>8. (IF crashed THEN <<Ack(Task, args.round, Acked)>> ELSE <<>>) \in Seq(Strangers)
  <2>1. Ack(Task, args.round, Acked) \in Strangers
    BY <1>2, <1>5 DEF Rounds
  <2>2. <<Ack(Task, args.round, Acked)>> \in Seq(Strangers)
    BY <2>1
  <2>3. <<>> \in Seq(Strangers)
    OBVIOUS
  <2> QED BY <2>2, <2>3
<1>9. session \in Seq(Strangers)
  BY <1>1, <1>3, <1>6, <1>7, <1>8
<1>10. Stored
  BY <1>9 DEF Stored
<1>11. Ending /\ EndsHonestly
  BY DEF Init, Ending, EndsHonestly, NoEnding, NoOutcome
<1> QED BY <1>2, <1>10, <1>11 DEF HInv

LEMMA BeginHonest == ASSUME LadderAssumption, HInv, Begin PROVE HInv'
<1>1. /\ at = "start" /\ at' = "model"
      /\ session' = session \/ session' = Appended(UserTurn(Task, Asked))
      /\ UNCHANGED <<args, slot, got, errors, outcome, other>>
  BY DEF Begin
<1>2. UserTurn(Task, Asked) \in Messages /\ ~IsReply(UserTurn(Task, Asked))
  BY Typed DEF Texts
<1>3. Stored'
  <2>1. CASE session' = session
    BY <1>1, <2>1 DEF HInv, Stored
  <2>2. CASE session' = Appended(UserTurn(Task, Asked))
    BY <1>1, <1>2, <2>2, AppendedIs DEF HInv, Stored
  <2> QED BY <1>1, <2>1, <2>2
<1> QED BY <1>1, <1>3 DEF HInv, Ending, EndsHonestly

\* A step that leaves the Session and the outcome alone.
LEMMA QuietHonest ==
  ASSUME HInv, at # "over", at' # "over", UNCHANGED <<args, session, outcome, other>>,
         got'.replies \in Seq(Words \cup {Blank}),
         got'.delegates \in Seq([says : Words, cites : Seq(Nat \ {0})])
  PROVE  HInv'
<1>1. outcome.status = "none"
  BY DEF HInv, Ending
<1>2. Stored'
  BY DEF HInv, Stored
<1>3. Ending' /\ EndsHonestly'
  BY <1>1 DEF Ending, EndsHonestly
<1> QED BY <1>2, <1>3 DEF HInv

LEMMA AttemptHonest == ASSUME LadderAssumption, HInv, Attempt PROVE HInv'
<1>1. /\ at = "model" /\ at' \in {"model", "returned"}
      /\ UNCHANGED <<args, session, outcome, other>>
  BY DEF Attempt, Works, Ends, Breaks
<1>2. /\ got'.replies \in Seq(Words \cup {Blank})
      /\ got'.delegates \in Seq([says : Words, cites : Seq(Nat \ {0})])
  <2>1. CASE Works
    BY <2>1 DEF Works, HInv, Ending
  <2>2. CASE Ends
    <3>1. PICK calls \in Endings :
            got' = [NoEnding EXCEPT !.replies = calls.replies,
                                    !.delegates = calls.delegates]
      BY <2>2 DEF Ends
    <3>2. calls \in Steps
      BY DEF LadderAssumption
    <3> QED BY <3>1, <3>2 DEF Steps, NoEnding
  <2>3. CASE Breaks
    BY <2>3 DEF Breaks, NoEnding
  <2> QED BY <2>1, <2>2, <2>3 DEF Attempt
<1> QED BY <1>1, <1>2, QuietHonest

LEMMA RepliesHonest ==
  ASSUME Blank \notin Words \cup {Joined}, HInv, Replies PROVE HInv'
<1> DEFINE w == Last(got.replies)
<1>1. /\ at = "returned" /\ UNCHANGED <<args, slot, got, errors, other>>
      /\ got.delegates = <<>> /\ got.replies # <<>> /\ w # Blank
      /\ Stores(FinalReply(Task, w), [NoOutcome EXCEPT !.status = "replied"])
  BY DEF Replies, Reached, Usable
<1>2. w \in Words
  BY <1>1 DEF HInv, Ending, Last
<1>3. /\ Stored'
      /\ outcome'.status \in {"replied", "threw"}
      /\ outcome'.status = "replied" => outcome'.words \in Words \cup {Joined}
  <2>1. Stored /\ at = "returned" /\ UNCHANGED other
    BY <1>1 DEF HInv
  <2>2. PICK said \in Words \cup {Joined} : said = w
    BY <1>2
  <2>3. Stores(FinalReply(Task, said), [NoOutcome EXCEPT !.status = "replied"])
    BY <1>1, <2>2
  <2> HIDE DEF w
  <2> QED BY <2>1, <2>3, StoresReply
<1>4. EndsHonestly'
  BY <1>1, <1>3 DEF EndsHonestly
<1>5. at' = "over"
  BY <1>1 DEF Stores, Settle
<1>6. Ending'
  BY <1>1, <1>5 DEF HInv, Ending
<1> QED BY <1>1, <1>3, <1>4, <1>6 DEF HInv

LEMMA DelegatesHonest == ASSUME HInv, Delegates PROVE HInv'
<1> DEFINE d == got.delegates[1]
           result == [NoOutcome EXCEPT !.status = "delegated",
                        !.cites = ToSet(d.cites),
                        !.quotes = References(d.cites, view.catalog)]
<1>1. /\ at = "returned" /\ UNCHANGED <<args, slot, got, errors, other>>
      /\ Len(got.delegates) = 1
      /\ Stores(Ack(Task, args.round, d.says), result)
  BY DEF Delegates, Reached, Usable
<1>2. d \in [says : Words, cites : Seq(Nat \ {0})]
  <2>1. /\ got.delegates \in Seq([says : Words, cites : Seq(Nat \ {0})])
        /\ Len(got.delegates) = 1
    BY <1>1 DEF HInv, Ending
  <2> DEFINE D == [says : Words, cites : Seq(Nat \ {0})]
  <2>2. 1 \in DOMAIN got.delegates
    BY <2>1
  <2>3. got.delegates \in Seq(D)
    BY <2>1
  <2> HIDE DEF D
  <2>4. got.delegates[1] \in D
    BY <2>2, <2>3
  <2> QED BY <2>4 DEF D
<1>3. at' = "over" /\ outcome'.status \in {"delegated", "threw"}
  BY <1>1 DEF Stores, Settle, NoOutcome
<1>4. Stored'
  <2>1. session' = Appended(Ack(Task, args.round, d.says)) \/ session' = session
    BY <1>1 DEF Stores
  <2>2. d.says \in Words /\ args.round \in Nat
    BY <1>2 DEF HInv, Rounds
  <2> QED BY <1>1, <1>3, <2>1, <2>2, StoresAck DEF HInv
<1> QED BY <1>1, <1>3, <1>4 DEF HInv, Ending, EndsHonestly

LEMMA RetryHonest ==
  ASSUME HInv, at = "returned", NEW next, NEW repairs, Retry(next, repairs)
  PROVE  HInv'
<1>1. /\ at' = "model" /\ UNCHANGED <<args, session, outcome, other>>
      /\ got'.replies = <<>> /\ got'.delegates = <<>>
  BY DEF Retry, NoEnding
<1> QED BY <1>1, QuietHonest

LEMMA ConcludeHonest == ASSUME LadderAssumption, HInv, Conclude PROVE HInv'
<1>0. Blank \notin Words \cup {Joined}
  BY DEF LadderAssumption
<1>1. CASE Replies
  BY <1>0, <1>1, RepliesHonest
<1>2. CASE Delegates
  BY <1>2, DelegatesHonest
<1>3. CASE Stops
  <2>1. /\ at = "returned" /\ JoinOr(Error) /\ Error \in Credentials
        /\ UNCHANGED <<args, slot, got, other>>
    BY <1>3 DEF Stops, Failed
  <2>2. got.error = Error /\ Error # "exhausted"
    BY <2>1, CredentialsAre DEF Error
  <2> QED BY <1>0, <2>1, <2>2, JoinHonest
<1>4. CASE Repairs
  BY <1>4, RetryHonest DEF Repairs, Failed
<1>5. CASE FallsBack
  BY <1>5, RetryHonest DEF FallsBack, Failed
<1>6. CASE Exhausts
  <2>1. /\ at = "returned" /\ slot = "fallback"
        /\ UNCHANGED <<args, slot, got, other>>
    BY <1>6 DEF Exhausts, Failed
  <2>2. CASE "transient" \in errors'
    <3>1. /\ at' = "over" /\ session' = session /\ outcome'.status = "threw"
      BY <1>6, <2>2 DEF Exhausts, Settle, NoOutcome
    <3>2. Stored'
      BY <2>1, <3>1 DEF HInv, Stored
    <3> QED BY <2>1, <3>1, <3>2 DEF HInv, Ending, EndsHonestly
  <2>3. CASE "transient" \notin errors'
    <3>1. JoinOr("exhausted")
      BY <1>6, <2>3 DEF Exhausts
    <3> QED BY <1>0, <2>1, <2>3, <3>1, JoinHonest, CredentialsAre
  <2> QED BY <2>2, <2>3
<1> QED BY <1>1, <1>2, <1>3, <1>4, <1>5, <1>6 DEF Conclude

LEMMA OthersHonest ==
  ASSUME HInv, OtherEnds \/ Compact \/ UNCHANGED vars
  PROVE  HInv'
<1>1. UNCHANGED <<args, at, slot, got, errors, outcome>>
  BY DEF OtherEnds, Compact, vars
<1>2. CASE UNCHANGED <<session, other>>
  BY <1>1, <1>2 DEF HInv, Stored, Ending, EndsHonestly
<1>3. CASE OtherEnds
  <2>1. PICK w \in Words :
          \/ session' = Appended(FinalReply(Task, w)) /\ other' = "replied"
          \/ session' = Appended(Ack(Task, args.round, w)) /\ other' = "delegated"
    BY <1>3 DEF OtherEnds
  <2>2. other = "busy"
    BY <1>3 DEF OtherEnds
  <2>3. PICK m \in Messages : /\ session' = Appended(m)
                              /\ IsReply(m) => m.words \in Words /\ other' = "replied"
    BY <2>1, Typed DEF HInv, Rounds, Texts
  <2>4. Stored'
    <3>1. /\ session \in Seq(Messages) /\ at' = at
          /\ \A i \in DOMAIN session : IsReply(session[i]) =>
               session[i].words \in Words \cup {Joined} /\ at = "over"
      BY <1>1, <2>2 DEF HInv, Stored
    <3>2. /\ session' \in Seq(Messages)
          /\ \A i \in DOMAIN session' : \/ i \in DOMAIN session /\ session'[i] = session[i]
                                        \/ session'[i] = m
      BY <2>3, <3>1, AppendedIs
    <3> QED BY <2>3, <3>1, <3>2 DEF Stored
  <2> QED BY <1>1, <2>2, <2>4 DEF HInv, Ending, EndsHonestly
<1> QED BY <1>2, <1>3 DEF Compact, vars

LEMMA StepHonest == ASSUME LadderAssumption, HInv, [Next]_vars PROVE HInv'
BY BeginHonest, AttemptHonest, ConcludeHonest, OthersHonest DEF Next, Finished

\* Whatever the models say and the Session holds: a round fails only with no
\* completed work to deliver, as exhausted only after both slots and with no
\* transient fault among their errors; and what it replies is words somebody
\* said, which are the model's own only if it delegated nothing beside them.
THEOREM HonestlyEnds == Spec => []EndsHonestly
<1>1. HInv => EndsHonestly
  BY DEF HInv
<1> QED BY LadderAssumption, InitHonest, StepHonest, <1>1, PTL DEF Spec

-----------------------------------------------------------------------------
(* Numbers in order.                                                       *)

\* Every member of a finite set of numbers has a place of its own in it.
LEMMA RankIs ==
  ASSUME NEW S \in SUBSET Int, IsFiniteSet(S)
  PROVE  /\ \A i \in S : Rank(S, i) \in 1..Cardinality(S)
         /\ \A i, j \in S : i < j => Rank(S, i) < Rank(S, j)
<1> DEFINE Upto(i) == {j \in S : j <= i}
<1>1. Cardinality(S) \in Nat
  BY FS_CardinalityType
<1>2. \A i \in S : /\ IsFiniteSet(Upto(i)) /\ Cardinality(Upto(i)) \in Nat
                   /\ Cardinality(Upto(i)) <= Cardinality(S)
                   /\ Cardinality(Upto(i)) # 0
  <2> TAKE i \in S
  <2>1. Upto(i) \in SUBSET S /\ i \in Upto(i)
    OBVIOUS
  <2>2. IsFiniteSet(Upto(i)) /\ Cardinality(Upto(i)) <= Cardinality(S)
    BY <2>1, FS_Subset
  <2>3. Cardinality(Upto(i)) \in Nat
    BY <2>2, FS_CardinalityType
  <2>4. Cardinality(Upto(i)) # 0
    BY <2>1, <2>2, FS_EmptySet
  <2> QED BY <2>2, <2>3, <2>4
<1>3. ASSUME NEW i \in S, NEW j \in S, i < j
      PROVE  Cardinality(Upto(i)) < Cardinality(Upto(j))
  <2>1. Upto(i) \in SUBSET Upto(j)
    <3>1. ASSUME NEW m \in S, m <= i PROVE m <= j
      <4>1. m \in Int /\ i \in Int /\ j \in Int
        OBVIOUS
      <4> QED BY <1>3, <3>1, <4>1
    <3> QED BY <3>1
  <2>2. j \in Upto(j) /\ j \notin Upto(i)
    <3>1. i \in Int /\ j \in Int
      OBVIOUS
    <3> QED BY <1>3, <3>1
  <2>3. /\ Cardinality(Upto(i)) <= Cardinality(Upto(j))
        /\ Cardinality(Upto(i)) # Cardinality(Upto(j))
    BY <1>2, <2>1, <2>2, FS_Subset
  <2> QED BY <1>2, <2>3
<1> QED BY <1>1, <1>2, <1>3 DEF Rank

\* And every place a member: a set of as many places as members is filled.
LEMMA NthIs ==
  ASSUME NEW S \in SUBSET Int, IsFiniteSet(S)
  PROVE  /\ \A k \in 1..Cardinality(S) : Nth(S, k) \in S /\ Rank(S, Nth(S, k)) = k
         /\ \A i \in S : Nth(S, Rank(S, i)) = i
<1> DEFINE Places == 1..Cardinality(S)
           place == [i \in S |-> Rank(S, i)]
<1>1. Cardinality(S) \in Nat
  BY FS_CardinalityType
<1>2. IsFiniteSet(Places) /\ Cardinality(Places) = Cardinality(S)
  BY <1>1, FS_Interval
<1>3. \A i, j \in S : Rank(S, i) = Rank(S, j) => i = j
  <2> SUFFICES ASSUME NEW i \in S, NEW j \in S, Rank(S, i) = Rank(S, j), i # j
               PROVE  FALSE
    OBVIOUS
  <2>1. i < j \/ j < i
    OBVIOUS
  <2> QED BY <1>1, <2>1, RankIs
<1>4. place \in Injection(S, Places)
  BY <1>3, RankIs DEF Injection, IsInjective
<1>5. place \in Surjection(S, Places)
  BY <1>2, <1>4, FS_Injection
<1>6. \A k \in Places : \E i \in S : Rank(S, i) = k
  BY <1>5 DEF Surjection
<1> QED BY <1>3, <1>6, RankIs DEF Nth

\* An increasing map onto another set keeps the places.
LEMMA PlacesMap ==
  ASSUME NEW S \in SUBSET Int, IsFiniteSet(S), NEW T \in SUBSET Int,
         NEW f \in [S -> T], \A t \in T : \E i \in S : f[i] = t,
         \A i, j \in S : i < j => f[i] < f[j]
  PROVE  /\ IsFiniteSet(T) /\ Cardinality(T) = Cardinality(S)
         /\ \A k \in 1..Cardinality(S) : f[Nth(S, k)] = Nth(T, k)
<1>1. \A i, j \in S : f[i] = f[j] => i = j
  <2> SUFFICES ASSUME NEW i \in S, NEW j \in S, f[i] = f[j], i # j PROVE FALSE
    OBVIOUS
  <2>1. i < j \/ j < i
    OBVIOUS
  <2>2. f[i] \in Int /\ f[j] \in Int
    OBVIOUS
  <2> QED BY <2>1, <2>2
<1>2. \A i, j \in S : i <= j <=> f[i] <= f[j]
  <2> SUFFICES ASSUME NEW i \in S, NEW j \in S PROVE i <= j <=> f[i] <= f[j]
    OBVIOUS
  <2>1. i < j \/ j < i \/ i = j
    OBVIOUS
  <2>2. f[i] \in Int /\ f[j] \in Int
    OBVIOUS
  <2> QED BY <2>1, <2>2
<1>3. f \in Bijection(S, T)
  BY <1>1 DEF Bijection, Injection, Surjection, IsInjective
<1>4. IsFiniteSet(T) /\ Cardinality(T) = Cardinality(S)
  BY <1>3, FS_Bijection DEF ExistsBijection
<1>5. ASSUME NEW i \in S PROVE Rank(T, f[i]) = Rank(S, i)
  <2> DEFINE A == {j \in S : j <= i}
             B == {t \in T : t <= f[i]}
             g == [j \in A |-> f[j]]
  <2>1. g \in [A -> B] /\ \A j \in A : g[j] = f[j]
    BY <1>2
  <2>2. \A t \in B : \E j \in A : g[j] = t
    BY <1>2, <2>1
  <2>3. \A j, k \in A : g[j] = g[k] => j = k
    BY <1>1, <2>1
  <2> HIDE DEF g
  <2>4. g \in Bijection(A, B)
    BY <2>1, <2>2, <2>3 DEF Bijection, Injection, Surjection, IsInjective
  <2>5. IsFiniteSet(A)
    BY FS_Subset
  <2>6. Cardinality(B) = Cardinality(A)
    BY <2>4, <2>5, FS_Bijection DEF ExistsBijection
  <2> QED BY <2>6 DEF Rank
<1>6. ASSUME NEW k \in 1..Cardinality(S) PROVE f[Nth(S, k)] = Nth(T, k)
  <2>1. Nth(S, k) \in S /\ Rank(S, Nth(S, k)) = k
    BY NthIs
  <2>2. f[Nth(S, k)] \in T /\ Rank(T, f[Nth(S, k)]) = k
    BY <1>5, <2>1
  <2>3. \A t \in T : Nth(T, Rank(T, t)) = t
    BY <1>4, NthIs
  <2> QED BY <2>2, <2>3
<1> QED BY <1>4, <1>6

LEMMA InOrderIs ==
  ASSUME NEW f, NEW S \in SUBSET Int, IsFiniteSet(S)
  PROVE  /\ InOrder(f, S) \in Seq({f[i] : i \in S})
         /\ Len(InOrder(f, S)) = Cardinality(S) /\ Cardinality(S) \in Nat
         /\ \A k \in 1..Cardinality(S) : InOrder(f, S)[k] = f[Nth(S, k)]
BY FS_CardinalityType, NthIs DEF InOrder

-----------------------------------------------------------------------------
(* What the model is shown.                                                *)

Stories == Seq(Messages \cup {Summary})
OwnAck(m) == m.kind = "ack" /\ m.task = Task
\* No round of the task has two acknowledgments.
AcksOnce(messages) ==
  \A i, j \in DOMAIN messages :
    OwnAck(messages[i]) /\ OwnAck(messages[j]) /\ messages[i].round = messages[j].round
      => i = j

\* What is kept of a story of length n, and the rounds shown after it.
Kept(h, branches) == {i \in DOMAIN h : ~LeftOver(h[i], branches)}
Rest(h, branches) == branches \ Anchored(h, branches)

LEMMA Finite ==
  ASSUME NEW h \in Stories, NEW n \in Nat
  PROVE  LET branches == 0..(n - 1) IN
         /\ Kept(h, branches) \in SUBSET Int /\ IsFiniteSet(Kept(h, branches))
         /\ Rest(h, branches) \in SUBSET Int /\ IsFiniteSet(Rest(h, branches))
         /\ Positions(h) \in SUBSET Int /\ IsFiniteSet(Positions(h))
<1>1. /\ Len(h) \in Nat /\ DOMAIN h = 1..Len(h)
      /\ IsFiniteSet(1..Len(h)) /\ IsFiniteSet(0..(n - 1))
  BY FS_Interval DEF Stories
<1>2. /\ Kept(h, 0..(n - 1)) \in SUBSET (1..Len(h))
      /\ Positions(h) \in SUBSET (1..Len(h))
      /\ Rest(h, 0..(n - 1)) \in SUBSET (0..(n - 1))
  BY <1>1 DEF Kept, Positions, Rest
<1>3. 1..Len(h) \in SUBSET Int /\ 0..(n - 1) \in SUBSET Int
  OBVIOUS
<1>4. \A S : S \in SUBSET (1..Len(h)) => IsFiniteSet(S)
  BY <1>1, FS_Subset
<1>5. \A S : S \in SUBSET (0..(n - 1)) => IsFiniteSet(S)
  BY <1>1, FS_Subset
<1> QED BY <1>2, <1>3, <1>4, <1>5

\* The messages shown: what is kept of the story, then the rounds it has lost.
LEMMA RenderIs ==
  ASSUME NEW h \in Stories, NEW n \in Nat
  PROVE  LET branches == 0..(n - 1)
             shown == RenderTurnMessages(h, branches).messages
             kept == Cardinality(Kept(h, branches))
             rest == Cardinality(Rest(h, branches))
         IN  /\ kept \in Nat /\ rest \in Nat
             /\ DOMAIN shown = 1..(kept + rest)
             /\ \A k \in 1..kept :
                  shown[k] = Entry(h, branches, Nth(Kept(h, branches), k))
             /\ \A k \in 1..rest :
                  shown[kept + k] = Pair(Ack(Task, Nth(Rest(h, branches), k), Blank))
<1> DEFINE branches == 0..(n - 1)
           K == Kept(h, branches)
           O == Rest(h, branches)
           E == [i \in DOMAIN h |-> Entry(h, branches, i)]
           P == [r \in branches |-> Pair(Ack(Task, r, Blank))]
           a == InOrder(E, K)
           b == InOrder(P, O)
<1>1. /\ K \in SUBSET Int /\ IsFiniteSet(K) /\ K \subseteq DOMAIN h
      /\ O \in SUBSET Int /\ IsFiniteSet(O) /\ O \subseteq branches
  BY Finite DEF Kept, Rest
<1>2. RenderTurnMessages(h, branches).messages = a \o b
  BY DEF RenderTurnMessages, Shown, Orphans, Kept, Rest
<1>3. /\ \A i \in K : E[i] = Entry(h, branches, i)
      /\ \A r \in O : P[r] = Pair(Ack(Task, r, Blank))
  BY <1>1
<1> HIDE DEF K, O, E, P, branches
<1>4. /\ a \in Seq({E[i] : i \in K}) /\ Len(a) = Cardinality(K) /\ Cardinality(K) \in Nat
      /\ \A k \in 1..Cardinality(K) : a[k] = E[Nth(K, k)] /\ Nth(K, k) \in K
  <2>1. \A k \in 1..Cardinality(K) : Nth(K, k) \in K
    BY <1>1, NthIs
  <2>2. /\ a \in Seq({E[i] : i \in K}) /\ Len(a) = Cardinality(K) /\ Cardinality(K) \in Nat
        /\ \A k \in 1..Cardinality(K) : a[k] = E[Nth(K, k)]
    BY <1>1, InOrderIs
  <2> QED BY <2>1, <2>2
<1>5. /\ b \in Seq({P[r] : r \in O}) /\ Len(b) = Cardinality(O) /\ Cardinality(O) \in Nat
      /\ \A k \in 1..Cardinality(O) : b[k] = P[Nth(O, k)] /\ Nth(O, k) \in O
  <2>1. \A k \in 1..Cardinality(O) : Nth(O, k) \in O
    BY <1>1, NthIs
  <2>2. /\ b \in Seq({P[r] : r \in O}) /\ Len(b) = Cardinality(O) /\ Cardinality(O) \in Nat
        /\ \A k \in 1..Cardinality(O) : b[k] = P[Nth(O, k)]
    BY <1>1, InOrderIs
  <2> QED BY <2>1, <2>2
<1> HIDE DEF a, b
<1>6. /\ DOMAIN (a \o b) = 1..(Cardinality(K) + Cardinality(O))
      /\ \A k \in 1..Cardinality(K) : (a \o b)[k] = a[k]
      /\ \A k \in 1..Cardinality(O) : (a \o b)[Cardinality(K) + k] = b[k]
  BY <1>4, <1>5
<1> QED BY <1>2, <1>3, <1>4, <1>5, <1>6 DEF K, O, branches

\* Every earlier round is shown once.
ShowsOnce(shown, branches) ==
  /\ \A r \in branches :
       Cardinality({i \in DOMAIN shown :
                      shown[i].pair /\ shown[i].message.round = r}) = 1
  /\ \A i \in DOMAIN shown :
       IF shown[i].pair THEN shown[i].message.round \in branches
       ELSE ~(shown[i].message.kind = "ack" /\ shown[i].message.task = Task)

LEMMA EntryIs ==
  ASSUME NEW h \in Stories, NEW branches, NEW i \in DOMAIN h
  PROVE  /\ Entry(h, branches, i).message = h[i]
         /\ Entry(h, branches, i).pair <=> Anchors(h[i], branches)
         /\ Entry(h, branches, i).ref =
              IF Citable(h[i]) THEN Rank(Positions(h), i) ELSE 0
BY DEF Entry, Pair, Turn, Anchors, Citable

LEMMA RenderOnce ==
  ASSUME NEW h \in Stories, AcksOnce(h), NEW n \in Nat
  PROVE  ShowsOnce(RenderTurnMessages(h, 0..(n - 1)).messages, 0..(n - 1))
<1> DEFINE branches == 0..(n - 1)
           shown == RenderTurnMessages(h, branches).messages
           K == Kept(h, branches)
           O == Rest(h, branches)
           kept == Cardinality(K)
           rest == Cardinality(O)
<1>1. /\ kept \in Nat /\ rest \in Nat
      /\ DOMAIN shown = 1..(kept + rest)
      /\ \A k \in 1..kept : shown[k] = Entry(h, branches, Nth(K, k))
      /\ \A k \in 1..rest : shown[kept + k] = Pair(Ack(Task, Nth(O, k), Blank))
  BY RenderIs
<1>2. /\ \A k \in 1..kept : Nth(K, k) \in K /\ Rank(K, Nth(K, k)) = k
      /\ \A i \in K : Nth(K, Rank(K, i)) = i /\ Rank(K, i) \in 1..kept
      /\ \A k \in 1..rest : Nth(O, k) \in O /\ Rank(O, Nth(O, k)) = k
      /\ \A r \in O : Nth(O, Rank(O, r)) = r /\ Rank(O, r) \in 1..rest
  BY Finite, NthIs, RankIs
<1>3. /\ \A i \in K : i \in DOMAIN h /\ ~LeftOver(h[i], branches)
      /\ \A i \in DOMAIN h : Anchors(h[i], branches) => i \in K
      /\ \A r \in O : r \in branches /\ r \notin Anchored(h, branches)
  BY DEF Kept, Rest, LeftOver, Anchors
<1> HIDE DEF shown, K, O, kept, rest
<1>4. \A k \in 1..kept :
        /\ shown[k].message = h[Nth(K, k)] /\ Nth(K, k) \in DOMAIN h
        /\ shown[k].pair <=> Anchors(h[Nth(K, k)], branches)
  BY <1>1, <1>2, <1>3, EntryIs
<1>5. \A k \in 1..rest : /\ shown[kept + k].pair
                         /\ shown[kept + k].message.round = Nth(O, k)
  <2>1. \A r : Pair(Ack(Task, r, Blank)).pair /\ Pair(Ack(Task, r, Blank)).message.round = r
    BY DEF Pair, Ack
  <2> QED BY <1>1, <2>1
<1>6. \A i \in DOMAIN shown : i \in 1..kept \/ (i - kept \in 1..rest /\ i = kept + (i - kept))
  BY <1>1
<1>7. ASSUME NEW r \in branches
      PROVE  Cardinality({i \in DOMAIN shown :
                            shown[i].pair /\ shown[i].message.round = r}) = 1
  <2> DEFINE D == {i \in DOMAIN shown : shown[i].pair /\ shown[i].message.round = r}
  <2>1. \E k : D = {k}
    <3>1. CASE r \in Anchored(h, branches)
      <4>1. PICK i \in DOMAIN h : Anchors(h[i], branches) /\ h[i].round = r
        BY <3>1 DEF Anchored
      <4>2. \A j \in DOMAIN h : Anchors(h[j], branches) /\ h[j].round = r => j = i
        BY <4>1 DEF AcksOnce, OwnAck, Anchors
      <4> DEFINE k == Rank(K, i)
      <4>3. k \in 1..kept /\ Nth(K, k) = i
        BY <1>2, <1>3, <4>1
      <4>4. k \in D
        BY <1>1, <1>4, <4>1, <4>3
      <4>5. ASSUME NEW j \in D PROVE j = k
        <5>1. CASE j \in 1..kept
          BY <1>2, <1>4, <4>2, <5>1
        <5>2. CASE j - kept \in 1..rest /\ j = kept + (j - kept)
          BY <1>2, <1>3, <1>5, <3>1, <5>2
        <5> QED BY <1>6, <5>1, <5>2
      <4> QED BY <4>4, <4>5
    <3>2. CASE r \notin Anchored(h, branches)
      <4>1. r \in O
        BY <3>2 DEF O, Rest
      <4> DEFINE k == Rank(O, r)
      <4>2. k \in 1..rest /\ Nth(O, k) = r
        BY <1>2, <4>1
      <4>3. kept + k \in D
        BY <1>1, <1>5, <4>2
      <4>4. ASSUME NEW j \in D PROVE j = kept + k
        <5>1. CASE j \in 1..kept
          BY <1>4, <3>2, <5>1 DEF Anchored
        <5>2. CASE j - kept \in 1..rest /\ j = kept + (j - kept)
          BY <1>2, <1>5, <5>2
        <5> QED BY <1>6, <5>1, <5>2
      <4> QED BY <4>3, <4>4
    <3> QED BY <3>1, <3>2
  <2> QED BY <2>1, FS_Singleton
<1>8. ASSUME NEW i \in DOMAIN shown
      PROVE  IF shown[i].pair THEN shown[i].message.round \in branches
             ELSE ~(shown[i].message.kind = "ack" /\ shown[i].message.task = Task)
  <2>1. CASE i \in 1..kept
    BY <1>2, <1>3, <1>4, <2>1 DEF Anchors, LeftOver
  <2>2. CASE i - kept \in 1..rest /\ i = kept + (i - kept)
    BY <1>2, <1>3, <1>5, <2>2
  <2> QED BY <1>6, <2>1, <2>2
<1> QED BY <1>7, <1>8 DEF ShowsOnce, shown

\* What is found under a set of marks are the catalog's entries of those numbers:
\* the marks grow with the position, and each is on one message.
LEMMA RenderQuotes ==
  ASSUME NEW h \in Stories, NEW n \in Nat,
         NEW C \in SUBSET (1..Cardinality(Positions(h)))
  PROVE  LET shown == RenderTurnMessages(h, 0..(n - 1)).messages
             messages == [i \in DOMAIN shown |-> shown[i].message]
             marked == {i \in DOMAIN messages : shown[i].ref \in C}
         IN  /\ InOrder(Catalog(h), C) = InOrder(messages, marked)
             /\ \A i \in marked : messages[i].kind \notin {"ack", "summary"}
<1> DEFINE branches == 0..(n - 1)
           shown == RenderTurnMessages(h, branches).messages
           messages == [i \in DOMAIN shown |-> shown[i].message]
           marked == {i \in DOMAIN messages : shown[i].ref \in C}
           S == Positions(h)
           K == Kept(h, branches)
           O == Rest(h, branches)
           kept == Cardinality(K)
           rest == Cardinality(O)
<1>1. /\ kept \in Nat /\ rest \in Nat
      /\ DOMAIN shown = 1..(kept + rest)
      /\ \A k \in 1..kept : shown[k] = Entry(h, branches, Nth(K, k))
      /\ \A k \in 1..rest : shown[kept + k] = Pair(Ack(Task, Nth(O, k), Blank))
  BY RenderIs
<1>2. /\ \A k \in 1..kept : Nth(K, k) \in K /\ Rank(K, Nth(K, k)) = k
      /\ \A i \in K : Nth(K, Rank(K, i)) = i /\ Rank(K, i) \in 1..kept
      /\ \A i, j \in K : i < j => Rank(K, i) < Rank(K, j)
  BY Finite, NthIs, RankIs
<1>3. /\ \A k \in 1..Cardinality(S) : Nth(S, k) \in S /\ Rank(S, Nth(S, k)) = k
      /\ \A i \in S : Nth(S, Rank(S, i)) = i /\ Rank(S, i) \in 1..Cardinality(S)
      /\ \A i, j \in S : i < j => Rank(S, i) < Rank(S, j)
      /\ Cardinality(S) \in Nat
  BY Finite, NthIs, RankIs, FS_CardinalityType
<1>4. /\ \A i \in K : i \in DOMAIN h
      /\ \A i \in S : i \in K /\ i \in DOMAIN h /\ Citable(h[i])
      /\ \A i \in DOMAIN h : Citable(h[i]) => i \in S
      /\ K \in SUBSET Int /\ S \in SUBSET Int
  BY Finite DEF Kept, Positions, LeftOver, Citable
<1>5. \A k \in 1..Cardinality(S) : Catalog(h)[k] = h[Nth(S, k)]
  BY DEF Catalog, InOrder
<1> HIDE DEF shown, S, K, O, kept, rest
\* A marked message is a citable one of the story, under its number.
<1>6. ASSUME NEW i \in marked
      PROVE  /\ i \in 1..kept /\ Nth(K, i) \in S
             /\ shown[i].ref = Rank(S, Nth(K, i)) /\ messages[i] = h[Nth(K, i)]
  <2>1. i \in 1..kept
    <3>1. ASSUME NEW k \in 1..rest PROVE shown[kept + k].ref = 0
      <4>1. \A r : Pair(Ack(Task, r, Blank)).ref = 0
        BY DEF Pair
      <4> QED BY <1>1, <4>1
    <3>2. i \in 1..kept \/ (i - kept \in 1..rest /\ i = kept + (i - kept))
      BY <1>1
    <3>3. shown[i].ref # 0
      BY <1>3
    <3> QED BY <3>1, <3>2, <3>3
  <2>2. shown[i] = Entry(h, branches, Nth(K, i)) /\ Nth(K, i) \in DOMAIN h
    BY <1>1, <1>2, <1>4, <2>1
  <2>3. /\ shown[i].message = h[Nth(K, i)]
        /\ shown[i].ref = IF Citable(h[Nth(K, i)]) THEN Rank(S, Nth(K, i)) ELSE 0
    BY <2>2, EntryIs DEF S
  <2>4. Citable(h[Nth(K, i)])
    BY <1>3, <2>3
  <2> QED BY <1>4, <2>1, <2>2, <2>3, <2>4
<1> DEFINE mark == [i \in marked |-> shown[i].ref]
<1>7. marked \in SUBSET Int /\ IsFiniteSet(marked)
  <2>1. marked \in SUBSET (1..kept)
    BY <1>6
  <2> QED BY <1>1, <2>1, FS_Interval, FS_Subset
<1>8. mark \in [marked -> C]
  OBVIOUS
<1>9. \A c \in C : \E i \in marked : mark[i] = c
  <2> TAKE c \in C
  <2> DEFINE p == Nth(S, c)
             i == Rank(K, p)
  <2>0. c \in 1..Cardinality(S)
    BY DEF S
  <2>1. p \in S /\ Rank(S, p) = c /\ p \in K /\ p \in DOMAIN h /\ Citable(h[p])
    BY <1>3, <1>4, <2>0
  <2>2. i \in 1..kept /\ Nth(K, i) = p
    BY <1>2, <2>1
  <2> HIDE DEF p, i
  <2>3. shown[i].ref = c /\ i \in DOMAIN shown
    BY <1>1, <2>1, <2>2, EntryIs DEF S
  <2> QED BY <2>3
<1>10. \A i, j \in marked : i < j => mark[i] < mark[j]
  <2> SUFFICES ASSUME NEW i \in marked, NEW j \in marked, i < j
               PROVE  shown[i].ref < shown[j].ref
    OBVIOUS
  <2> DEFINE p == Nth(K, i)
             q == Nth(K, j)
  <2>1. /\ i \in 1..kept /\ p \in S /\ shown[i].ref = Rank(S, p)
        /\ j \in 1..kept /\ q \in S /\ shown[j].ref = Rank(S, q)
    BY <1>6
  <2>2. /\ p \in K /\ Rank(K, p) = i /\ p \in Int
        /\ q \in K /\ Rank(K, q) = j /\ q \in Int
    BY <1>2, <1>4, <2>1
  <2> HIDE DEF p, q
  <2>3. p < q \/ q < p \/ p = q
    BY <2>2
  <2>4. p < q
    BY <1>2, <2>1, <2>2, <2>3
  <2> QED BY <1>3, <2>1, <2>4
<1>11. C \in SUBSET Int
  BY <1>3
<1>12. /\ Cardinality(C) = Cardinality(marked)
       /\ \A k \in 1..Cardinality(marked) : mark[Nth(marked, k)] = Nth(C, k)
  <2> HIDE DEF mark, marked
  <2> QED BY <1>7, <1>8, <1>9, <1>10, <1>11, PlacesMap
<1>13. \A k \in 1..Cardinality(marked) : Catalog(h)[Nth(C, k)] = messages[Nth(marked, k)]
  <2> TAKE k \in 1..Cardinality(marked)
  <2> DEFINE i == Nth(marked, k)
  <2>1. i \in marked
    BY <1>7, NthIs
  <2>2. Nth(C, k) = shown[i].ref
    BY <1>12, <2>1
  <2> HIDE DEF i
  <2>3. /\ Nth(C, k) = Rank(S, Nth(K, i)) /\ Nth(K, i) \in S
        /\ messages[i] = h[Nth(K, i)]
    BY <1>6, <2>1, <2>2
  <2> QED BY <1>3, <1>5, <2>3 DEF i
<1>14. \A i \in marked : messages[i].kind \notin {"ack", "summary"}
  BY <1>4, <1>6 DEF Citable
<1>15. InOrder(Catalog(h), C) = InOrder(messages, marked)
  BY <1>12, <1>13 DEF InOrder
<1> QED BY <1>14, <1>15 DEF shown

-----------------------------------------------------------------------------
(* The Session it is shown of, and what its answer quotes.                 *)

\* What is shown and quoted, while nothing was answered before the end.
VInv == /\ folded \in Nat /\ AcksOnce(session)
        /\ at # "start" => \E h \in Stories : view = RenderTurnMessages(h, Earlier)
        /\ ShownOnce /\ QuotesWhatWasMarked

\* An append adds no second acknowledgment of a round.
LEMMA AppendedOnce ==
  ASSUME session \in Seq(Messages), AcksOnce(session), NEW m \in Messages
  PROVE  AcksOnce(Appended(m))
<1>1. CASE \E i \in DOMAIN session : session[i] = [m EXCEPT !.words = session[i].words]
  BY <1>1 DEF Appended, Same
<1>2. CASE ~\E i \in DOMAIN session : session[i] = [m EXCEPT !.words = session[i].words]
  <2>1. Appended(m) = Append(session, m)
    BY <1>2 DEF Appended, Same
  <2>2. ASSUME NEW i \in DOMAIN session, OwnAck(session[i]), OwnAck(m)
        PROVE  session[i].round # m.round
    <3>1. session[i] \in Messages
      OBVIOUS
    <3>2. session[i] # [m EXCEPT !.words = session[i].words]
      BY <1>2
    <3> QED BY <2>2, <3>1, <3>2 DEF OwnAck, Messages
  <2>3. /\ Len(session) \in Nat /\ DOMAIN session = 1..Len(session)
        /\ DOMAIN Append(session, m) = 1..(Len(session) + 1)
        /\ \A i \in DOMAIN session : Append(session, m)[i] = session[i]
        /\ Append(session, m)[Len(session) + 1] = m
    OBVIOUS
  <2>4. AcksOnce(Append(session, m))
    <3> SUFFICES ASSUME NEW i \in 1..(Len(session) + 1), NEW j \in 1..(Len(session) + 1),
                        OwnAck(Append(session, m)[i]), OwnAck(Append(session, m)[j]),
                        Append(session, m)[i].round = Append(session, m)[j].round
                 PROVE  i = j
      BY <2>3 DEF AcksOnce
    <3>1. CASE i \in DOMAIN session /\ j \in DOMAIN session
      BY <2>3, <3>1 DEF AcksOnce
    <3>2. CASE i \in DOMAIN session /\ j = Len(session) + 1
      BY <2>2, <2>3, <3>2
    <3>3. CASE i = Len(session) + 1 /\ j \in DOMAIN session
      BY <2>2, <2>3, <3>3
    <3> QED BY <2>3, <3>1, <3>2, <3>3
  <2> QED BY <2>1, <2>4
<1> QED BY <1>1, <1>2

\* What a summary leaves of the Session.
LEMMA HistoryIs ==
  ASSUME NEW stored \in Seq(Messages), AcksOnce(stored), folded \in Nat
  PROVE  History(stored) \in Stories /\ AcksOnce(History(stored))
<1>1. CASE folded = 0
  BY <1>1 DEF History, Stories
<1>2. CASE folded # 0
  <2> DEFINE tail == SubSeq(stored, folded + 1, Len(stored))
  <2>1. /\ tail \in Seq(Messages)
        /\ Len(tail) \in Nat /\ Len(tail) <= Len(stored)
        /\ \A i \in 1..Len(tail) : folded + i \in DOMAIN stored /\ tail[i] = stored[folded + i]
    <3>1. /\ Len(stored) \in Nat /\ folded + 1 \in Int
          /\ \A i \in (folded + 1)..Len(stored) : stored[i] \in Messages
      OBVIOUS
    <3>2. /\ tail \in Seq(Messages)
          /\ Len(tail) = IF folded + 1 <= Len(stored)
                           THEN Len(stored) - (folded + 1) + 1 ELSE 0
          /\ \A i \in 1..(Len(stored) - (folded + 1) + 1) :
               tail[i] = stored[folded + 1 + i - 1]
      BY <3>1, SubSeqProperties
    <3> HIDE DEF tail
    <3>3. \A i \in 1..Len(tail) : /\ i \in 1..(Len(stored) - (folded + 1) + 1)
                                  /\ folded + 1 + i - 1 = folded + i
                                  /\ folded + i \in DOMAIN stored
      <4>1. DOMAIN stored = 1..Len(stored) /\ folded \in Nat
        OBVIOUS
      <4>2. CASE folded + 1 <= Len(stored)
        BY <3>1, <3>2, <4>1, <4>2
      <4>3. CASE ~(folded + 1 <= Len(stored))
        BY <3>1, <3>2, <4>1, <4>3
      <4> QED BY <4>2, <4>3
    <3> QED BY <3>1, <3>2, <3>3
  <2> HIDE DEF tail
  <2> DEFINE all == <<Summary>> \o tail
  <2>2. /\ all \in Seq(Messages \cup {Summary})
        /\ DOMAIN all = 1..(Len(tail) + 1)
        /\ all[1] = Summary
        /\ \A i \in 1..Len(tail) : all[i + 1] = tail[i]
    BY <2>1
  <2>3. ~OwnAck(Summary)
    BY DEF Summary, OwnAck
  <2> HIDE DEF all
  <2>4. ASSUME NEW i \in DOMAIN all, OwnAck(all[i])
        PROVE  folded + (i - 1) \in DOMAIN stored /\ all[i] = stored[folded + (i - 1)]
    <3>1. i # 1
      BY <2>2, <2>3, <2>4
    <3>2. i - 1 \in 1..Len(tail) /\ i = (i - 1) + 1
      BY <2>1, <2>2, <3>1
    <3> QED BY <2>1, <2>2, <3>2
  <2>5. AcksOnce(all)
    <3> SUFFICES ASSUME NEW i \in DOMAIN all, NEW j \in DOMAIN all, OwnAck(all[i]),
                        OwnAck(all[j]), all[i].round = all[j].round
                 PROVE  i = j
      BY DEF AcksOnce
    <3>1. folded + (i - 1) = folded + (j - 1)
      BY <2>4 DEF AcksOnce
    <3>2. i \in Nat /\ j \in Nat
      BY <2>1, <2>2
    <3> QED BY <3>1, <3>2
  <2> QED BY <1>2, <2>2, <2>5 DEF History, all, tail, Stories
<1> QED BY <1>1, <1>2

\* Every step leaves the Session or appends one message to it, an acknowledgment with
\* the words of a model.
Spoken(m) == m \in Messages /\ (OwnAck(m) => m.words \in Words)
LEMMA SessionGrows ==
  ASSUME LadderAssumption, HInv, [Next]_vars
  PROVE  session' = session \/ \E m \in Messages : session' = Appended(m) /\ Spoken(m)
<1>1. \A w \in Texts : Spoken(FinalReply(Task, w)) /\ Spoken(UserTurn(Task, w))
  BY Typed DEF Spoken, OwnAck, FinalReply, UserTurn
<1>2. \A w \in Words : Spoken(Ack(Task, args.round, w))
  BY Typed DEF HInv, Rounds, Texts, Spoken, Ack
<1>m. \A m : Spoken(m) => m \in Messages
  BY DEF Spoken
<1>3. CASE Begin
  BY <1>m, <1>1, <1>3 DEF Begin, Texts
<1>4. CASE Replies
  <2>1. /\ got.replies # <<>> /\ got.replies \in Seq(Words \cup {Blank})
        /\ session' = session \/ session' = Appended(FinalReply(Task, Last(got.replies)))
    BY <1>4 DEF Replies, Reached, Stores, HInv, Ending
  <2>2. Last(got.replies) \in Texts
    BY <2>1 DEF Last, Texts
  <2> QED BY <1>m, <1>1, <2>1, <2>2
<1>5. CASE Delegates
  <2> DEFINE D == [says : Words, cites : Seq(Nat \ {0})]
  <2>1. /\ Len(got.delegates) = 1 /\ got.delegates \in Seq(D)
        /\ session' = session
           \/ session' = Appended(Ack(Task, args.round, got.delegates[1].says))
    BY <1>5 DEF Delegates, Reached, Usable, Stores, HInv, Ending
  <2>2. got.delegates[1] \in D
    <3> HIDE DEF D
    <3> QED BY <2>1
  <2>3. got.delegates[1].says \in Words
    BY <2>2
  <2> QED BY <1>m, <1>2, <2>1, <2>3
<1>6. ASSUME NEW kind, JoinOr(kind)
      PROVE  session' = session \/ session' = Appended(FinalReply(Task, Joined))
  BY <1>6 DEF JoinOr, Stores
<1>7. CASE Stops \/ Exhausts
  <2>1. session' = session \/ session' = Appended(FinalReply(Task, Joined))
    BY <1>6, <1>7 DEF Stops, Exhausts
  <2> QED BY <1>m, <1>1, <2>1 DEF Texts
<1>8. CASE OtherEnds
  BY <1>m, <1>1, <1>2, <1>8 DEF OtherEnds, Texts
<1>9. CASE Attempt \/ Repairs \/ FallsBack \/ Compact \/ UNCHANGED vars
  BY <1>9 DEF Attempt, Works, Ends, Breaks, Repairs, FallsBack, Retry, Compact, vars
<1> QED BY <1>3, <1>4, <1>5, <1>7, <1>8, <1>9 DEF Next, Conclude, Finished

\* The acknowledgments of a task lie in the order of its rounds at first.
LEMMA InitView ==
  ASSUME LadderAssumption, Init
  PROVE  VInv
<1> DEFINE Strangers == {m \in Messages : ~OwnAck(m)}
<1>1. PICK past \in Pasts, begun, crashed \in BOOLEAN :
        session = past \o (IF begun THEN <<UserTurn(Task, Asked)>> ELSE <<>>)
                       \o [r \in 1..args.round |-> Ack(Task, r - 1, Acked)]
                       \o (IF crashed THEN <<Ack(Task, args.round, Acked)>> ELSE <<>>)
  BY DEF Init
<1> DEFINE n == args.round
           a == past \o (IF begun THEN <<UserTurn(Task, Asked)>> ELSE <<>>)
           b == [r \in 1..n |-> Ack(Task, r - 1, Acked)]
           c == IF crashed THEN <<Ack(Task, n, Acked)>> ELSE <<>>
<1>2. n \in Nat
  BY DEF Init, Rounds
<1>3. a \in Seq(Strangers)
  <2>1. past \in Seq(Strangers)
    <3>1. past \in Seq(PastMessages)
      BY DEF LadderAssumption
    <3>2. \A m \in PastMessages : m \in Strangers
      BY DEF LadderAssumption, PastMessages, Messages, Texts, OwnAck
    <3> QED BY <3>1, <3>2
  <2>2. UserTurn(Task, Asked) \in Strangers
    BY Typed DEF Texts, OwnAck, UserTurn
  <2>3. (IF begun THEN <<UserTurn(Task, Asked)>> ELSE <<>>) \in Seq(Strangers)
    <3>1. <<UserTurn(Task, Asked)>> \in Seq(Strangers)
      BY <2>2
    <3>2. <<>> \in Seq(Strangers)
      OBVIOUS
    <3> QED BY <3>1, <3>2
  <2> QED BY <2>1, <2>3
<1>4. \A r \in Nat : Ack(Task, r, Acked) \in Messages /\ Ack(Task, r, Acked).round = r
  BY Typed DEF Texts, Ack
<1>5. /\ b \in Seq(Messages) /\ Len(b) = n
      /\ \A i \in 1..n : b[i].round = i - 1
  BY <1>2, <1>4
<1>6. /\ c \in Seq(Messages) /\ Len(c) \in 0..1
      /\ \A i \in 1..Len(c) : c[i].round = n
  <2>1. CASE crashed
    BY <1>2, <1>4, <2>1
  <2>2. CASE ~crashed
    BY <2>2
  <2> QED BY <2>1, <2>2
<1>7. session = (a \o b) \o c
  BY <1>1
<1> HIDE DEF a, b, c, n, Strangers
<1>8. ASSUME NEW i \in DOMAIN session, OwnAck(session[i])
      PROVE  session[i].round = i - Len(a) - 1
  <2>1. /\ a \in Seq(Messages) /\ Len(a) \in Nat
        /\ \A k \in 1..Len(a) : ~OwnAck(a[k])
    BY <1>3 DEF Strangers
  <2>2. /\ a \o b \in Seq(Messages) /\ Len(a \o b) = Len(a) + n
        /\ \A k \in 1..(Len(a) + n) :
             (a \o b)[k] = IF k <= Len(a) THEN a[k] ELSE b[k - Len(a)]
    <3>1. b \in Seq(Messages) /\ Len(b) = n
      BY <1>5
    <3> QED BY <2>1, <3>1, ConcatProperties
  <2>3. /\ Len(session) = Len(a) + n + Len(c) /\ DOMAIN session = 1..Len(session)
        /\ \A k \in 1..(Len(a) + n + Len(c)) :
             session[k] = IF k <= Len(a) + n THEN (a \o b)[k] ELSE c[k - (Len(a) + n)]
    <3> DEFINE ab == a \o b
    <3>1. /\ session = ab \o c /\ ab \in Seq(Messages) /\ c \in Seq(Messages)
          /\ Len(ab) = Len(a) + n
      BY <1>6, <1>7, <2>2
    <3> HIDE DEF ab
    <3>2. /\ session \in Seq(Messages) /\ Len(session) = Len(ab) + Len(c)
          /\ \A k \in 1..(Len(ab) + Len(c)) :
               session[k] = IF k <= Len(ab) THEN ab[k] ELSE c[k - Len(ab)]
      BY <3>1, ConcatProperties
    <3>3. DOMAIN session = 1..Len(session)
      BY <3>2, LenProperties
    <3> QED BY <3>1, <3>2, <3>3 DEF ab
  <2>4. CASE i <= Len(a)
    <3>1. i \in 1..Len(a) /\ i \in 1..(Len(a) + n) /\ i \in 1..(Len(a) + n + Len(c))
      BY <1>2, <1>6, <2>1, <2>3, <2>4
    <3>2. session[i] = a[i]
      BY <1>2, <2>1, <2>2, <2>3, <3>1
    <3> QED BY <1>8, <2>1, <3>1, <3>2
  <2>5. CASE i > Len(a) /\ i <= Len(a) + n
    <3>1. /\ i - Len(a) \in 1..n /\ i \in 1..(Len(a) + n)
          /\ i \in 1..(Len(a) + n + Len(c))
      BY <1>2, <1>6, <2>1, <2>3, <2>5
    <3>2. session[i] = b[i - Len(a)]
      BY <2>1, <2>2, <2>3, <2>5, <3>1
    <3> QED BY <1>5, <3>1, <3>2
  <2>6. CASE i > Len(a) + n
    <3>1. /\ i - (Len(a) + n) \in 1..Len(c) /\ i \in 1..(Len(a) + n + Len(c))
          /\ i = Len(a) + n + 1
      BY <1>2, <1>6, <2>1, <2>3, <2>6
    <3>2. session[i] = c[i - (Len(a) + n)]
      BY <1>2, <2>1, <2>3, <2>6, <3>1
    <3>3. session[i].round = n
      BY <1>6, <3>1, <3>2
    <3> QED BY <1>2, <2>1, <3>1, <3>3
  <2>7. i \in Nat
    BY <1>2, <1>6, <2>1, <2>3
  <2> QED BY <1>2, <2>1, <2>4, <2>5, <2>6, <2>7
<1>9. session \in Seq(Messages)
  BY InitHonest DEF HInv, Stored
<1>10. AcksOnce(session)
  <2> SUFFICES ASSUME NEW i \in DOMAIN session, NEW j \in DOMAIN session, OwnAck(session[i]),
                      OwnAck(session[j]), session[i].round = session[j].round
               PROVE  i = j
    BY DEF AcksOnce
  <2>1. i \in Nat /\ j \in Nat /\ Len(a) \in Nat
    BY <1>3, <1>9
  <2>2. i - Len(a) - 1 = j - Len(a) - 1
    BY <1>8
  <2> QED BY <2>1, <2>2
<1>11. folded \in Nat
  <2>1. folded \in 0..Len(session)
    BY DEF Init
  <2> QED BY <1>9, <2>1
<1>12. ShownOnce /\ QuotesWhatWasMarked /\ at = "start"
  BY DEF Init, ShownOnce, QuotesWhatWasMarked, NoOutcome
<1> QED BY <1>10, <1>11, <1>12 DEF VInv

\* The view is rendered of a Session that has each acknowledgment once.
LEMMA BeginView == ASSUME LadderAssumption, HInv, VInv, Begin PROVE VInv'
<1>1. session' \in Seq(Messages) /\ AcksOnce(session')
  <2>1. session' = session \/ \E m \in Messages : session' = Appended(m)
    BY SessionGrows DEF Next
  <2> QED BY <2>1, AppendedIs, AppendedOnce DEF HInv, Stored, VInv
<1>2. History(session') \in Stories /\ AcksOnce(History(session'))
  BY <1>1, HistoryIs DEF VInv
<1>3. /\ view' = RenderTurnMessages(History(session'), Earlier)
      /\ UNCHANGED <<args, folded, outcome>> /\ at # "over"
  BY DEF Begin
<1>4. Earlier' = Earlier
  BY <1>3 DEF Earlier
<1>5. ShownOnce'
  <2>1. args.round \in Nat
    BY DEF HInv, Rounds
  <2>2. ShowsOnce(view'.messages, Earlier)
    BY <1>2, <1>3, <2>1, RenderOnce DEF Earlier
  <2> QED BY <1>4, <2>2 DEF ShownOnce, ShowsOnce
<1>6. QuotesWhatWasMarked'
  BY <1>3 DEF HInv, Ending, QuotesWhatWasMarked
<1> QED BY <1>1, <1>2, <1>3, <1>4, <1>5, <1>6 DEF VInv

\* A delegation quotes from the catalog that went with the view.
LEMMA DelegatesView ==
  ASSUME LadderAssumption, HInv, VInv, Delegates
  PROVE  QuotesWhatWasMarked'
<1> DEFINE d == got.delegates[1]
           C == ToSet(d.cites)
           result == [NoOutcome EXCEPT !.status = "delegated", !.cites = C,
                        !.quotes = References(d.cites, view.catalog)]
<1>1. /\ at = "returned" /\ UNCHANGED <<args, view>> /\ Len(got.delegates) = 1
      /\ ValidReferences(d.cites, view.catalog)
      /\ Stores(Ack(Task, args.round, d.says), result)
  BY DEF Delegates, Reached, Usable
<1>2. d.cites \in Seq(Nat \ {0})
  <2> DEFINE D == [says : Words, cites : Seq(Nat \ {0})]
  <2>1. got.delegates \in Seq(D) /\ 1 \in DOMAIN got.delegates
    BY <1>1 DEF HInv, Ending
  <2> HIDE DEF D
  <2>2. got.delegates[1] \in D
    BY <2>1
  <2> QED BY <2>2 DEF D
<1>3. PICK h \in Stories : view = RenderTurnMessages(h, Earlier)
  BY <1>1 DEF VInv
<1>4. view.catalog = Catalog(h) /\ Len(Catalog(h)) = Cardinality(Positions(h))
  <2>1. view.catalog = Catalog(h)
    BY <1>3 DEF RenderTurnMessages
  <2>2. Positions(h) \in SUBSET Int /\ IsFiniteSet(Positions(h))
    BY Finite
  <2> QED BY <2>1, <2>2, InOrderIs DEF Catalog
<1> HIDE DEF d
<1>5. C \in SUBSET (1..Cardinality(Positions(h)))
  <2>1. \A i \in DOMAIN d.cites : /\ d.cites[i] \in Nat \ {0}
                                  /\ d.cites[i] <= Cardinality(Positions(h))
    BY <1>1, <1>2, <1>4 DEF ValidReferences
  <2>2. Cardinality(Positions(h)) \in Nat
    BY Finite, FS_CardinalityType
  <2> QED BY <2>1, <2>2 DEF ToSet
<1>6. args.round \in Nat
  BY DEF HInv, Rounds
<1> DEFINE shown == [i \in DOMAIN view.messages |-> view.messages[i].message]
           marked == {i \in DOMAIN shown : view.messages[i].ref \in C}
<1> HIDE DEF C
<1>7. /\ References(d.cites, view.catalog) = InOrder(shown, marked)
      /\ \A i \in marked : shown[i].kind \notin {"ack", "summary"}
  <2>1. References(d.cites, view.catalog) = InOrder(Catalog(h), C)
    BY <1>4 DEF References, C
  <2>2. view.messages = RenderTurnMessages(h, 0..(args.round - 1)).messages
    BY <1>3 DEF Earlier
  <2>3. /\ InOrder(Catalog(h), C) = InOrder(shown, marked)
        /\ \A i \in marked : shown[i].kind \notin {"ack", "summary"}
    <3> DEFINE v == RenderTurnMessages(h, 0..(args.round - 1)).messages
               words == [i \in DOMAIN v |-> v[i].message]
               places == {i \in DOMAIN words : v[i].ref \in C}
    <3>1. /\ InOrder(Catalog(h), C) = InOrder(words, places)
          /\ \A i \in places : words[i].kind \notin {"ack", "summary"}
      BY <1>5, <1>6, RenderQuotes
    <3>2. v = view.messages
      BY <2>2
    <3> HIDE DEF v
    <3>3. words = shown /\ places = marked
      BY <3>2
    <3> QED BY <3>1, <3>3
  <2> QED BY <2>1, <2>3
<1>8. \/ outcome'.status = "threw"
      \/ /\ outcome'.cites = C
         /\ outcome'.quotes = References(d.cites, view.catalog)
  BY <1>1 DEF Stores, Settle, NoOutcome
<1> QED BY <1>1, <1>7, <1>8 DEF QuotesWhatWasMarked

\* Whatever else ends the call, it is no delegation.
LEMMA OthersView ==
  ASSUME HInv, [Next]_vars, ~Begin, ~Delegates
  PROVE  /\ UNCHANGED <<args, view>> /\ (at' # "start" => at # "start")
         /\ UNCHANGED outcome \/ outcome'.status # "delegated"
<1>1. CASE Attempt \/ Repairs \/ FallsBack \/ OtherEnds \/ Compact \/ UNCHANGED vars
  BY <1>1 DEF Attempt, Works, Ends, Breaks, Repairs, FallsBack, Failed, Retry,
              OtherEnds, Compact, vars
<1>2. \A m : Stores(m, [NoOutcome EXCEPT !.status = "replied"]) =>
        outcome'.status # "delegated" /\ at' = "over"
  BY DEF Stores, Settle, NoOutcome
<1>3. ASSUME NEW kind, JoinOr(kind) PROVE outcome'.status # "delegated" /\ at' = "over"
  BY <1>2, <1>3 DEF JoinOr, Settle, NoOutcome
<1>4. CASE Replies
  BY <1>2, <1>4 DEF Replies
<1>5. CASE Stops
  BY <1>3, <1>5 DEF Stops, Failed
<1>6. CASE Exhausts
  BY <1>3, <1>6 DEF Exhausts, Failed, Settle, NoOutcome
<1> QED BY <1>1, <1>4, <1>5, <1>6 DEF Next, Conclude, Finished

LEMMA StepView == ASSUME LadderAssumption, HInv, VInv, [Next]_vars PROVE VInv'
<1>1. AcksOnce(session')
  BY SessionGrows, AppendedOnce DEF HInv, Stored, VInv
<1>2. folded' \in Nat
  <2>1. folded' = folded \/ folded' \in 1..Len(session)
    <3>1. \A next, repairs : Retry(next, repairs) => folded' = folded
      BY DEF Retry
    <3>2. Begin \/ Attempt \/ Conclude \/ OtherEnds \/ UNCHANGED vars => folded' = folded
      BY <3>1 DEF Begin, Attempt, Works, Ends, Breaks, Conclude, Replies, Delegates, Stops,
                  Repairs, FallsBack, Exhausts, OtherEnds, vars
    <3> QED BY <3>2 DEF Next, Compact, Finished
  <2>2. Len(session) \in Nat
    BY DEF HInv, Stored
  <2> QED BY <2>1, <2>2 DEF VInv
<1>3. CASE Begin
  BY <1>3, BeginView
<1>5. CASE ~Begin
  <2>1. UNCHANGED <<args, view>> /\ (at' # "start" => at # "start")
    BY <1>5, OthersView DEF Delegates
  <2>2. Earlier' = Earlier
    BY <2>1 DEF Earlier
  <2>3. ShownOnce'
    BY <2>1, <2>2 DEF VInv, ShownOnce
  <2>4. QuotesWhatWasMarked'
    <3>1. CASE Delegates
      BY <3>1, DelegatesView
    <3>2. CASE ~Delegates
      BY <1>5, <2>1, <3>2, OthersView DEF VInv, QuotesWhatWasMarked
    <3> QED BY <3>1, <3>2
  <2> QED BY <1>1, <1>2, <2>1, <2>2, <2>3, <2>4 DEF VInv
<1> QED BY <1>3, <1>5

LEMMA ViewInvariance == Spec => [](HInv /\ VInv)
BY LadderAssumption, InitHonest, StepHonest, InitView, StepView, PTL DEF Spec

\* However the Session was compacted or appended to, by whichever tasks and
\* attempts, the model is shown each earlier round's delegation exactly once, and
\* no acknowledgment of the task that has no work behind it.
THEOREM ViewShowsOnce == Spec => []ShownOnce
<1>1. VInv => ShownOnce
  BY DEF VInv
<1> QED BY <1>1, ViewInvariance, PTL

\* A Subtask is given the turns that were shown under the indexes its delegation
\* names, in their order, for every Session and choice of indexes; and what
\* happens to the Session in between changes none of it.
THEOREM QuotesAreAsMarked == Spec => []QuotesWhatWasMarked
<1>1. VInv => QuotesWhatWasMarked
  BY DEF VInv
<1> QED BY <1>1, ViewInvariance, PTL

-----------------------------------------------------------------------------
(* Types, and that an id is stored once.                                   *)

\* What of a message its id tells.
LEMMA SameId ==
  ASSUME NEW x \in Messages, NEW y \in Messages
  PROVE  x = [y EXCEPT !.words = x.words]
           <=> x.kind = y.kind /\ x.task = y.task /\ x.round = y.round
BY DEF Messages

LEMMA AppendIds ==
  ASSUME NEW s \in Seq(Messages), IdsOnce(s), NEW m \in Messages,
         \A i \in DOMAIN s : s[i] # [m EXCEPT !.words = s[i].words]
  PROVE  IdsOnce(Append(s, m))
<1>1. /\ Len(s) \in Nat /\ DOMAIN s = 1..Len(s)
      /\ DOMAIN Append(s, m) = 1..(Len(s) + 1)
      /\ \A i \in DOMAIN s : Append(s, m)[i] = s[i]
      /\ Append(s, m)[Len(s) + 1] = m
  OBVIOUS
<1>2. \A i \in DOMAIN s : ~(s[i].kind = m.kind /\ s[i].task = m.task /\ s[i].round = m.round)
  BY SameId
<1>3. \A i, j \in DOMAIN s :
        s[i].kind = s[j].kind /\ s[i].task = s[j].task /\ s[i].round = s[j].round => i = j
  BY SameId DEF IdsOnce
<1> DEFINE a == Append(s, m)
<1>4. \A i \in DOMAIN a : a[i] \in Messages
  BY <1>1
<1> HIDE DEF a
<1>5. \A i, j \in DOMAIN a :
        a[i].kind = a[j].kind /\ a[i].task = a[j].task /\ a[i].round = a[j].round => i = j
  <2> SUFFICES ASSUME NEW i \in DOMAIN a, NEW j \in DOMAIN a, a[i].kind = a[j].kind,
                      a[i].task = a[j].task, a[i].round = a[j].round
               PROVE  i = j
    OBVIOUS
  <2>1. /\ i \in DOMAIN s \/ i = Len(s) + 1
        /\ j \in DOMAIN s \/ j = Len(s) + 1
    BY <1>1 DEF a
  <2>2. CASE i \in DOMAIN s /\ j \in DOMAIN s
    BY <1>1, <1>3, <2>2 DEF a
  <2>3. CASE i \in DOMAIN s /\ j = Len(s) + 1
    BY <1>1, <1>2, <2>3 DEF a
  <2>4. CASE i = Len(s) + 1 /\ j \in DOMAIN s
    BY <1>1, <1>2, <2>4 DEF a
  <2> QED BY <2>1, <2>2, <2>3, <2>4
<1>6. IdsOnce(a)
  BY <1>4, <1>5, SameId DEF IdsOnce
<1> QED BY <1>6 DEF a

\* An own acknowledgment's words are a model's, or those of a round before.
AcksSay(s) == \A i \in DOMAIN s : OwnAck(s[i]) => s[i].words \in Words \cup {Acked}

\* A Session before the call, with own acknowledgments of the given rounds only.
Before(s, rounds) ==
  /\ s \in Seq(Messages) /\ IdsOnce(s)
  /\ \A i \in DOMAIN s : s[i].task = Task =>
       \/ s[i].kind = "user"
       \/ s[i].kind = "ack" /\ s[i].round \in rounds /\ s[i].words = Acked

LEMMA BeforeUser ==
  ASSUME NEW s \in Seq(Messages), IdsOnce(s), \A i \in DOMAIN s : s[i].task # Task
  PROVE  Before(Append(s, UserTurn(Task, Asked)), {})
<1> DEFINE m == UserTurn(Task, Asked)
           a == Append(s, m)
<1>1. m \in Messages /\ m.task = Task /\ m.kind = "user"
  BY Typed DEF Texts, UserTurn
<1> HIDE DEF m
<1>2. \A i \in DOMAIN s : s[i] # [m EXCEPT !.words = s[i].words]
  BY <1>1, SameId
<1>3. a \in Seq(Messages) /\ IdsOnce(a)
  BY <1>1, <1>2, AppendIds
<1>4. \A i \in DOMAIN a : (i \in DOMAIN s /\ a[i] = s[i]) \/ a[i] = m
  BY <1>1
<1> HIDE DEF a
<1>5. Before(a, {})
  BY <1>1, <1>3, <1>4 DEF Before
<1> QED BY <1>5 DEF a, m

LEMMA BeforeAck ==
  ASSUME NEW rounds, NEW s, Before(s, rounds), NEW r \in Nat, r \notin rounds
  PROVE  Before(Append(s, Ack(Task, r, Acked)), rounds \cup {r})
<1> DEFINE m == Ack(Task, r, Acked)
           a == Append(s, m)
<1>1. m \in Messages /\ m.task = Task /\ m.kind = "ack" /\ m.round = r /\ m.words = Acked
  BY Typed DEF Texts, Ack
<1> HIDE DEF m
<1>0. s \in Seq(Messages) /\ IdsOnce(s)
  BY DEF Before
<1>2. \A i \in DOMAIN s : s[i] # [m EXCEPT !.words = s[i].words]
  <2> TAKE i \in DOMAIN s
  <2>1. s[i].task = Task => s[i].kind = "user" \/ s[i].round # r
    BY DEF Before
  <2> QED BY <1>0, <1>1, <2>1, SameId
<1>3. a \in Seq(Messages) /\ IdsOnce(a)
  BY <1>0, <1>1, <1>2, AppendIds
<1>4. \A i \in DOMAIN a : (i \in DOMAIN s /\ a[i] = s[i]) \/ a[i] = m
  BY <1>0, <1>1
<1> HIDE DEF a
<1>5. Before(a, rounds \cup {r})
  BY <1>1, <1>3, <1>4 DEF Before
<1> QED BY <1>5 DEF a, m

\* All the earlier rounds' at once: each has a round of its own.
LEMMA BeforeAcks ==
  ASSUME NEW s, Before(s, {}), NEW n \in Nat
  PROVE  Before(s \o [r \in 1..n |-> Ack(Task, r - 1, Acked)], 0..(n - 1))
<1> DEFINE acks == [r \in 1..n |-> Ack(Task, r - 1, Acked)]
           b == s \o acks
<1>1. /\ s \in Seq(Messages) /\ IdsOnce(s) /\ Len(s) \in Nat
      /\ DOMAIN s = 1..Len(s)
      /\ \A i \in DOMAIN s : s[i].task = Task => s[i].kind = "user"
  BY DEF Before
<1>2. \A r \in 0..(n - 1) :
        /\ Ack(Task, r, Acked) \in Messages
        /\ Ack(Task, r, Acked).task = Task /\ Ack(Task, r, Acked).kind = "ack"
        /\ Ack(Task, r, Acked).round = r /\ Ack(Task, r, Acked).words = Acked
  BY Typed DEF Texts, Ack
<1>3. acks \in Seq(Messages) /\ Len(acks) = n
  <2>1. \A r \in 1..n : r - 1 \in 0..(n - 1)
    OBVIOUS
  <2> QED BY <1>2, <2>1
<1>4. \A k \in 1..n : /\ acks[k].task = Task /\ acks[k].kind = "ack"
                      /\ acks[k].round = k - 1 /\ acks[k].words = Acked
  <2>1. \A k \in 1..n : k - 1 \in 0..(n - 1) /\ acks[k] = Ack(Task, k - 1, Acked)
    OBVIOUS
  <2> QED BY <1>2, <2>1
<1> HIDE DEF acks
<1>5. /\ b \in Seq(Messages) /\ Len(b) = Len(s) + n
      /\ \A i \in 1..(Len(s) + n) : b[i] = IF i <= Len(s) THEN s[i] ELSE acks[i - Len(s)]
  BY <1>1, <1>3, ConcatProperties
<1>6. DOMAIN b = 1..(Len(s) + n)
  BY <1>5, LenProperties
<1> HIDE DEF b
\* A place is one of the Session's, or that of a round.
<1>7. ASSUME NEW i \in DOMAIN b
      PROVE  \/ i \in DOMAIN s /\ b[i] = s[i]
             \/ /\ i - Len(s) \in 1..n /\ b[i].task = Task /\ b[i].kind = "ack"
                /\ b[i].round = i - Len(s) - 1 /\ b[i].words = Acked
  <2>1. CASE i <= Len(s)
    BY <1>1, <1>5, <1>6, <2>1
  <2>2. CASE ~(i <= Len(s))
    <3>1. i - Len(s) \in 1..n /\ b[i] = acks[i - Len(s)]
      BY <1>1, <1>5, <1>6, <2>2
    <3> QED BY <1>4, <3>1
  <2> QED BY <2>1, <2>2
<1>8. \A i, j \in DOMAIN s :
        s[i].kind = s[j].kind /\ s[i].task = s[j].task /\ s[i].round = s[j].round => i = j
  BY <1>1, SameId DEF IdsOnce
<1>9. IdsOnce(b)
  <2> SUFFICES ASSUME NEW i \in DOMAIN b, NEW j \in DOMAIN b, b[i].kind = b[j].kind,
                      b[i].task = b[j].task, b[i].round = b[j].round
               PROVE  i = j
    BY <1>5, SameId DEF IdsOnce
  <2>1. CASE i \in DOMAIN s /\ b[i] = s[i]
    <3>1. j \in DOMAIN s /\ b[j] = s[j]
      BY <1>1, <1>7, <2>1
    <3> QED BY <1>8, <2>1, <3>1
  <2>2. CASE i - Len(s) \in 1..n /\ b[i].task = Task /\ b[i].kind = "ack" /\ b[i].round = i - Len(s) - 1
    <3>1. j - Len(s) \in 1..n /\ b[j].round = j - Len(s) - 1
      BY <1>1, <1>7, <2>2
    <3>2. i \in Int /\ j \in Int /\ Len(s) \in Int
      BY <1>1, <1>6
    <3>3. i - Len(s) - 1 = j - Len(s) - 1
      BY <2>2, <3>1
    <3> QED BY <3>2, <3>3
  <2> QED BY <1>7, <2>1, <2>2
<1>10. \A i \in DOMAIN b : b[i].task = Task =>
         b[i].kind = "user" \/ (b[i].kind = "ack" /\ b[i].round \in 0..(n - 1) /\ b[i].words = Acked)
  <2> TAKE i \in DOMAIN b
  <2>1. i \in Nat
    BY <1>1, <1>6
  <2> QED BY <1>1, <1>7, <2>1
<1>11. Before(b, 0..(n - 1))
  BY <1>5, <1>9, <1>10 DEF Before
<1> QED BY <1>11 DEF b, acks

\* Each part of the Session that a call finds adds one id, or none.
LEMMA InitIds ==
  ASSUME LadderAssumption, Init
  PROVE  IdsOnce(session) /\ AcksSay(session)
<1>1. PICK past \in Pasts, begun, crashed \in BOOLEAN :
        /\ args.round > 0 \/ crashed => begun
        /\ session = past \o (IF begun THEN <<UserTurn(Task, Asked)>> ELSE <<>>)
                          \o [r \in 1..args.round |-> Ack(Task, r - 1, Acked)]
                          \o (IF crashed THEN <<Ack(Task, args.round, Acked)>> ELSE <<>>)
  BY DEF Init
<1> DEFINE a == past \o (IF begun THEN <<UserTurn(Task, Asked)>> ELSE <<>>)
           acks == [r \in 1..args.round |-> Ack(Task, r - 1, Acked)]
           b == a \o acks
<1>2. past \in Seq(Messages) /\ IdsOnce(past) /\ \A i \in DOMAIN past : past[i].task # Task
  <2>1. past \in Seq(PastMessages) /\ IdsOnce(past)
    BY DEF LadderAssumption
  <2>2. \A m \in PastMessages : m \in Messages /\ m.task # Task
    BY DEF LadderAssumption, PastMessages, Messages, Texts
  <2> QED BY <2>1, <2>2
<1>3. Before(a, {})
  <2>1. CASE begun
    <3>1. a = Append(past, UserTurn(Task, Asked))
      BY <1>2, <2>1, Typed DEF Texts
    <3> QED BY <1>2, <3>1, BeforeUser
  <2>2. CASE ~begun
    <3>1. a = past
      BY <1>2, <2>2
    <3> QED BY <1>2, <3>1 DEF Before
  <2> QED BY <2>1, <2>2
<1> HIDE DEF a
<1>4. args.round \in Nat /\ a \in Seq(Messages)
  BY <1>3, LadderAssumption DEF Init, Rounds, Before
<1>5. Before(b, 0..(args.round - 1))
  BY <1>3, <1>4, BeforeAcks
<1>6. session = b \o (IF crashed THEN <<Ack(Task, args.round, Acked)>> ELSE <<>>)
  BY <1>1 DEF a
<1> HIDE DEF b
<1>7. b \in Seq(Messages) /\ args.round \in Nat /\ args.round \notin 0..(args.round - 1)
  BY <1>4, <1>5 DEF Before
<1>8. \E rounds : Before(session, rounds)
  <2>1. CASE crashed
    <3>1. Ack(Task, args.round, Acked) \in Messages
      BY <1>7, Typed DEF Texts
    <3>2. session = Append(b, Ack(Task, args.round, Acked))
      BY <1>6, <1>7, <2>1, <3>1
    <3> QED BY <1>5, <1>7, <3>2, BeforeAck
  <2>2. CASE ~crashed
    <3>1. session = b
      BY <1>6, <1>7, <2>2
    <3> QED BY <1>5, <3>1
  <2> QED BY <2>1, <2>2
<1> QED BY <1>8 DEF Before, AcksSay, OwnAck

\* An id that is stored is not stored again.
LEMMA AppendedIds ==
  ASSUME session \in Seq(Messages), IdsOnce(session), AcksSay(session), NEW m, Spoken(m)
  PROVE  /\ IdsOnce(Appended(m)) /\ AcksSay(Appended(m))
         /\ Len(Appended(m)) \in Nat /\ Len(Appended(m)) >= Len(session)
<1>0. m \in Messages /\ Len(session) \in Nat
  BY DEF Spoken
<1>1. CASE Same(m, session) # {}
  BY <1>0, <1>1 DEF Appended
<1>2. CASE Same(m, session) = {}
  <2>1. Appended(m) = Append(session, m)
    BY <1>2 DEF Appended
  <2>2. \A i \in DOMAIN session : session[i] # [m EXCEPT !.words = session[i].words]
    BY <1>2 DEF Same
  <2>3. IdsOnce(Append(session, m))
    BY <1>0, <2>2, AppendIds
  <2>4. \A i \in DOMAIN Append(session, m) :
          \/ i \in DOMAIN session /\ Append(session, m)[i] = session[i]
          \/ Append(session, m)[i] = m
    BY <1>0
  <2>5. Len(Append(session, m)) = Len(session) + 1
    BY <1>0
  <2> QED BY <1>0, <2>1, <2>3, <2>4, <2>5 DEF AcksSay, Spoken
<1> QED BY <1>1, <1>2

\* Beside what the other invariants say of the variables.
SessionTypes == IdsOnce(session) /\ AcksSay(session) /\ folded \in 0..Len(session)
Tried == /\ repair \in 0..MaxRepairs /\ steps \in 0..MaxTurns
         /\ got.error \in ErrorKinds \cup {"none"}
         /\ errors \in SUBSET (ErrorKinds \cup {"rejected"})
Said == /\ outcome.status \in {"none", "replied", "delegated", "failed", "threw"}
        /\ outcome.words \in Words \cup {Joined, Acked, Blank}
Around == /\ args \in [round : Rounds, mode : {"open", "final"}, allowance : -1..MaxTurns,
                       done : BOOLEAN, types : BOOLEAN]
          /\ other \in {"busy", "none", "replied", "delegated"}

LEMMA SessionStep ==
  ASSUME LadderAssumption, HInv, SessionTypes, [Next]_vars PROVE SessionTypes'
<1>0. session \in Seq(Messages) /\ Len(session) \in Nat
  BY DEF HInv, Stored
<1>1. IdsOnce(session') /\ AcksSay(session') /\ Len(session') \in Nat /\ Len(session') >= Len(session)
  <2>1. CASE session' = session
    BY <1>0, <2>1 DEF SessionTypes
  <2>2. CASE \E m \in Messages : session' = Appended(m) /\ Spoken(m)
    BY <1>0, <2>2, AppendedIds DEF SessionTypes
  <2> QED BY <2>1, <2>2, SessionGrows
<1>2. folded' = folded \/ folded' \in 1..Len(session)
  <2>1. \A next, repairs : Retry(next, repairs) => folded' = folded
    BY DEF Retry
  <2>2. Begin \/ Attempt \/ Conclude \/ OtherEnds \/ UNCHANGED vars => folded' = folded
    BY <2>1 DEF Begin, Attempt, Works, Ends, Breaks, Conclude, Replies, Delegates, Stops,
                Repairs, FallsBack, Exhausts, OtherEnds, vars
  <2> QED BY <2>2 DEF Next, Compact, Finished
<1> QED BY <1>0, <1>1, <1>2 DEF SessionTypes

\* An error that is neither transient nor a refused credential is plain.
LEMMA PlainIsAKind == "plain" \in ErrorKinds
<1> DEFINE e == [source |-> "none", class |-> "other", isRetryable |-> FALSE, status |-> 0,
                 hint |-> FALSE]
<1>1. e \in Errors
  BY DEF Errors, Statuses
<1>2. NonRecoverableKind(e) = "none" /\ ~IsTransientAiError(e)
  BY DEF NonRecoverableKind, IsTransientAiError
<1>3. KindOf(e) = "plain"
  <2> HIDE DEF e
  <2> QED BY <1>2 DEF KindOf
<1> HIDE DEF e
<1> QED BY <1>1, <1>3 DEF ErrorKinds

LEMMA BudgetIs == LadderAssumption /\ Around /\ IInv => StepBudget \in 0..MaxTurns
BY DEF LadderAssumption, Around, IInv, Ranges, StepBudget, Final

LEMMA TriedStep ==
  ASSUME LadderAssumption, IInv, Around, Tried, [Next]_vars PROVE Tried'
<1>0. StepBudget \in 0..MaxTurns /\ MaxTurns \in Nat /\ MaxRepairs \in Nat
  BY BudgetIs DEF LadderAssumption
<1>1. Error \in ErrorKinds \cup {"rejected"}
  BY PlainIsAKind DEF Tried, Error
<1>2. CASE Begin
  BY <1>0, <1>2 DEF Begin, Tried
<1>3. CASE Works \/ Ends
  <2>1. steps > 0 /\ steps' = steps - 1 /\ UNCHANGED <<repair, errors>>
    BY <1>3 DEF IInv, Works, Ends
  <2>2. got'.error \in {got.error, "none"}
    BY <1>3 DEF Works, Ends, NoEnding
  <2>3. steps' \in 0..MaxTurns
    BY <1>0, <2>1 DEF Tried
  <2> QED BY <2>1, <2>2, <2>3 DEF Tried
<1>4. CASE Breaks
  <2>1. got'.error \in ErrorKinds /\ UNCHANGED <<repair, steps, errors>>
    BY <1>4 DEF Breaks, NoEnding
  <2> QED BY <2>1 DEF Tried
<1>5. CASE Repairs \/ FallsBack
  <2>1. PICK next, repairs : Retry(next, repairs) /\ repairs \in 0..MaxRepairs
    <3>1. CASE Repairs
      <4>1. repair < MaxRepairs /\ Retry(slot, repair + 1)
        BY <3>1 DEF Repairs, CanRepair
      <4>2. repair + 1 \in 0..MaxRepairs
        BY <1>0, <4>1 DEF Tried
      <4> QED BY <4>1, <4>2
    <3>2. CASE FallsBack
      BY <1>0, <3>2 DEF FallsBack
    <3> QED BY <1>5, <3>1, <3>2
  <2>2. /\ repair' \in 0..MaxRepairs /\ steps' = StepBudget /\ got'.error = "none"
        /\ errors' = errors \cup {Error}
    BY <2>1 DEF Retry, NoEnding
  <2> QED BY <1>0, <1>1, <2>2 DEF Tried
<1>6. CASE Exhausts
  <2>1. errors' = errors \cup {Error} /\ UNCHANGED <<repair, steps, got>>
    BY <1>6 DEF Exhausts
  <2> QED BY <1>1, <2>1 DEF Tried
<1>7. CASE UNCHANGED <<repair, steps, got, errors>>
  BY <1>7 DEF Tried
<1> QED BY <1>2, <1>3, <1>4, <1>5, <1>6, <1>7 DEF Next, Attempt, Conclude, Replies,
           Delegates, Stops, OtherEnds, Compact, Finished, vars

\* What a call ends with.
LEMMA JoinSaid ==
  ASSUME HInv, at = "returned", UNCHANGED other, NEW kind, JoinOr(kind)
  PROVE  Said'
<1>1. CASE args.done
  <2>1. /\ Stores(FinalReply(Task, Joined), [NoOutcome EXCEPT !.status = "replied"])
        /\ Stored
    BY <1>1 DEF JoinOr, HInv
  <2>2. /\ outcome'.status \in {"replied", "threw"}
        /\ outcome'.status = "replied" => outcome'.words \in Words \cup {Joined}
    BY <2>1, StoresReply
  <2>3. outcome'.status = "threw" => outcome'.words = Blank
    BY <2>1 DEF Stores, Settle, NoOutcome
  <2> QED BY <2>2, <2>3 DEF Said
<1>2. CASE ~args.done
  BY <1>2 DEF JoinOr, Settle, NoOutcome, Said
<1> QED BY <1>1, <1>2

LEMMA RepliesSaid == ASSUME HInv, Replies PROVE Said'
<1> DEFINE w == Last(got.replies)
<1>1. /\ at = "returned" /\ UNCHANGED other /\ Stored
      /\ got.replies # <<>> /\ w # Blank
      /\ Stores(FinalReply(Task, w), [NoOutcome EXCEPT !.status = "replied"])
  BY DEF Replies, Reached, Usable, HInv
<1>2. w \in Words
  BY <1>1 DEF HInv, Ending, Last
<1> HIDE DEF w
<1>3. PICK said \in Words \cup {Joined} : said = w
  BY <1>2
<1>4. Stores(FinalReply(Task, said), [NoOutcome EXCEPT !.status = "replied"])
  BY <1>1, <1>3
<1>5. /\ outcome'.status \in {"replied", "threw"}
      /\ outcome'.status = "replied" => outcome'.words \in Words \cup {Joined}
  BY <1>1, <1>4, StoresReply
<1>6. outcome'.status = "threw" => outcome'.words = Blank
  BY <1>1 DEF Stores, Settle, NoOutcome
<1> QED BY <1>5, <1>6 DEF Said

LEMMA DelegatesSaid ==
  ASSUME LadderAssumption, HInv, SessionTypes, Delegates PROVE Said'
<1> DEFINE d == got.delegates[1]
           m == Ack(Task, args.round, d.says)
           result == [NoOutcome EXCEPT !.status = "delegated",
                        !.cites = ToSet(d.cites),
                        !.quotes = References(d.cites, view.catalog)]
<1>1. Len(got.delegates) = 1 /\ Stores(m, result)
  BY DEF Delegates, Reached, Usable
<1>2. d.says \in Words
  <2> DEFINE D == [says : Words, cites : Seq(Nat \ {0})]
  <2>1. 1 \in DOMAIN got.delegates /\ got.delegates \in Seq(D)
    BY <1>1 DEF HInv, Ending
  <2>2. got.delegates[1] \in D
    <3> HIDE DEF D
    <3> QED BY <2>1
  <2> QED BY <2>2
<1>3. /\ m \in Messages /\ OwnAck(m) /\ Spoken(m) /\ session \in Seq(Messages)
  BY <1>2, Typed DEF HInv, Stored, Rounds, Texts, OwnAck, Spoken, Ack
<1>4. ReadBack(m, Appended(m)) \in Words \cup {Acked}
  <2> HIDE DEF m
  <2>1. PICK i \in DOMAIN Appended(m) :
          /\ Appended(m)[i] = [m EXCEPT !.words = Appended(m)[i].words]
          /\ ReadBack(m, Appended(m)) = Appended(m)[i].words
    BY <1>3, ReadBackIs
  <2>2. OwnAck(Appended(m)[i])
    BY <1>3, <2>1 DEF OwnAck, Messages
  <2>3. AcksSay(Appended(m))
    BY <1>3, AppendedIds DEF SessionTypes
  <2> QED BY <2>1, <2>2, <2>3 DEF AcksSay
<1> HIDE DEF m
<1>5. CASE outcome' = [NoOutcome EXCEPT !.status = "threw"]
  BY <1>5 DEF NoOutcome, Said
<1>6. CASE outcome' = [result EXCEPT !.words = ReadBack(m, Appended(m))]
  <2>1. outcome'.status = "delegated" /\ outcome'.words = ReadBack(m, Appended(m))
    BY <1>6 DEF NoOutcome
  <2> QED BY <1>4, <2>1 DEF Said
<1> QED BY <1>1, <1>5, <1>6 DEF Stores, Settle

LEMMA SaidStep ==
  ASSUME LadderAssumption, HInv, SessionTypes, Said, [Next]_vars PROVE Said'
<1>1. CASE Stops
  BY <1>1, JoinSaid DEF Stops, Failed
<1>2. CASE Exhausts
  <2>1. CASE "transient" \in errors'
    BY <1>2, <2>1 DEF Exhausts, Settle, NoOutcome, Said
  <2>2. CASE "transient" \notin errors'
    <3>1. JoinOr("exhausted") /\ at = "returned" /\ UNCHANGED other
      BY <1>2, <2>2 DEF Exhausts, Failed
    <3> QED BY <3>1, JoinSaid
  <2> QED BY <2>1, <2>2
<1>3. CASE UNCHANGED outcome
  BY <1>3 DEF Said
<1> QED BY <1>1, <1>2, <1>3, RepliesSaid, DelegatesSaid DEF Next, Begin, Attempt, Works, Ends,
           Breaks, Conclude, Repairs, FallsBack, Retry, OtherEnds, Compact, Finished, vars

LEMMA AroundStep == ASSUME Around, [Next]_vars PROVE Around'
<1>1. UNCHANGED args
  <2>1. \A next, repairs : Retry(next, repairs) => UNCHANGED args
    BY DEF Retry
  <2> QED BY <2>1 DEF Next, Begin, Attempt, Works, Ends, Breaks, Conclude, Replies, Delegates,
             Stops, Repairs, FallsBack, Exhausts, OtherEnds, Compact, Finished, vars
<1>2. other' \in {other, "replied", "delegated"}
  <2>1. \A next, repairs : Retry(next, repairs) => UNCHANGED other
    BY DEF Retry
  <2> QED BY <2>1 DEF Next, Begin, Attempt, Works, Ends, Breaks, Conclude, Replies, Delegates,
             Stops, Repairs, FallsBack, Exhausts, OtherEnds, Compact, Finished, vars
<1> QED BY <1>1, <1>2 DEF Around

Types == SessionTypes /\ Tried /\ Said /\ Around

\* Every variable keeps its type: the Session, to which two attempts of the round
\* and other tasks append, holds each id once; repairs and steps stay within their
\* limits; and what a call answers is words that a model, a join or an earlier
\* attempt has stored.
THEOREM TypeCorrect == Spec => []TypeOK
<1>1. LadderAssumption /\ Init => Types
  <2> SUFFICES ASSUME LadderAssumption, Init PROVE Types
    OBVIOUS
  <2>1. session \in Seq(Messages) /\ folded \in 0..Len(session)
    BY InitHonest DEF HInv, Stored, Init
  <2>2. SessionTypes
    BY <2>1, InitIds DEF SessionTypes
  <2>3. Tried /\ Said
    BY DEF Init, Tried, Said, NoEnding, NoOutcome, LadderAssumption
  <2> QED BY <2>2, <2>3 DEF Init, Types, Around
<1>2. /\ LadderAssumption /\ IInv /\ HInv /\ Types /\ [Next]_vars => Types'
  BY SessionStep, TriedStep, SaidStep, AroundStep DEF Types
<1>3. IInv /\ Types => TypeOK
  BY DEF IInv, Ranges, Types, SessionTypes, Tried, Said, Around, TypeOK
<1> QED BY <1>1, <1>2, <1>3, LadderAssumption, InitGood, StepGood, InitHonest, StepHonest,
           PTL DEF Spec

-----------------------------------------------------------------------------
(* The ladder as a call of RoundLoop: what it stores.                      *)

\* The ids of a task's replies, whatever they say.
LEMMA Rewords ==
  ASSUME NEW w, NEW x
  PROVE  [FinalReply(Task, w) EXCEPT !.words = x] = FinalReply(Task, x)
BY DEF FinalReply

LEMMA SameReplies ==
  ASSUME NEW s, NEW w, NEW v
  PROVE  /\ Same(FinalReply(Task, w), s) = Same(FinalReply(Task, v), s)
         /\ ReadBack(FinalReply(Task, w), s) = ReadBack(FinalReply(Task, v), s)
<1>1. Same(FinalReply(Task, w), s) = Same(FinalReply(Task, v), s)
  BY Rewords DEF Same
<1>2. ReadBack(FinalReply(Task, w), s) = ReadBack(FinalReply(Task, v), s)
  BY <1>1, Zenon DEF ReadBack
<1> QED BY <1>1, <1>2

\* Where an id is stored after an append.
LEMMA SameGrows ==
  ASSUME session \in Seq(Messages), NEW m \in Messages, NEW n,
         Same(m, session) = {}
  PROVE  LET last == Len(session) + 1 IN
         /\ Appended(m) = Append(session, m) /\ last \in DOMAIN Appended(m)
         /\ Appended(m)[last] = m /\ last \notin DOMAIN session
         /\ \A i \in DOMAIN session : i \in DOMAIN Appended(m) /\ Appended(m)[i] = session[i]
         /\ Same(n, Appended(m)) =
              Same(n, session) \cup IF m = [n EXCEPT !.words = m.words] THEN {last} ELSE {}
<1>1. Appended(m) = Append(session, m)
  BY DEF Appended
<1>2. /\ DOMAIN Append(session, m) = DOMAIN session \cup {Len(session) + 1}
      /\ Len(session) + 1 \notin DOMAIN session
      /\ Append(session, m)[Len(session) + 1] = m
      /\ \A i \in DOMAIN session : Append(session, m)[i] = session[i]
  OBVIOUS
<1> QED BY <1>1, <1>2 DEF Same

\* The reply that is stored, after a message that is none, and after one that is.
LEMMA ReplyStays ==
  ASSUME session \in Seq(Messages), NEW m \in Messages, ~IsReply(m), session' = Appended(m)
  PROVE  Reply' = Reply
<1> DEFINE n == FinalReply(Task, Blank)
<1>1. CASE Same(m, session) # {}
  <2>1. session' = session
    BY <1>1 DEF Appended
  <2> QED BY <2>1 DEF Reply
<1>2. CASE Same(m, session) = {}
  <2>1. m # [n EXCEPT !.words = m.words]
    BY Rewords DEF IsReply, FinalReply
  <2>2. /\ Same(n, session') = Same(n, session)
        /\ \A i \in DOMAIN session : session'[i] = session[i]
    <3> HIDE DEF n
    <3>1. /\ Same(n, Appended(m)) = Same(n, session) \cup {}
          /\ \A i \in DOMAIN session : Appended(m)[i] = session[i]
      BY <1>2, <2>1, SameGrows
    <3> QED BY <3>1
  <2>3. Same(n, session) # {} =>
          (CHOOSE i \in Same(n, session) : TRUE) \in DOMAIN session
    BY DEF Same
  <2>4. Same(n, session) # {} => ReadBack(n, session') = ReadBack(n, session)
    BY <2>2, <2>3, Zenon DEF ReadBack
  <2> QED BY <2>2, <2>4 DEF Reply
<1> QED BY <1>1, <1>2

LEMMA ReplyIsKept ==
  ASSUME LadderAssumption, Stored, NEW w \in Words \cup {Joined},
         session' = Appended(FinalReply(Task, w))
  PROVE  /\ Reply' = IF Reply = "nobody" THEN w ELSE Reply
         /\ Reply' = ReadBack(FinalReply(Task, w), session')
<1> DEFINE m == FinalReply(Task, w)
           n == FinalReply(Task, Blank)
<1>1. m \in Messages /\ IsReply(m)
  BY Typed DEF Texts
<1>2. session \in Seq(Messages)
  BY DEF Stored
<1>3. Same(n, session) = Same(m, session) /\ ReadBack(n, session) = ReadBack(m, session)
      /\ Same(n, session') = Same(m, session')
      /\ ReadBack(n, session') = ReadBack(m, session')
  BY SameReplies
<1>4. CASE Same(m, session) # {}
  <2>1. session' = session
    BY <1>4 DEF Appended
  <2>2. PICK i \in DOMAIN session : /\ session[i] = [m EXCEPT !.words = session[i].words]
                                    /\ ReadBack(m, session) = session[i].words
    BY <1>1, <1>2, <2>1, ReadBackIs
  <2>3. IsReply(session[i])
    BY <1>1, <2>2, Rewords DEF IsReply, FinalReply
  <2>4. Reply = ReadBack(m, session) /\ Reply # "nobody"
    BY <1>3, <1>4, <2>2, <2>3 DEF Reply, Stored, LadderAssumption
  <2> QED BY <1>3, <2>1, <2>4 DEF Reply
<1>5. CASE Same(m, session) = {}
  <2>1. m = [m EXCEPT !.words = m.words]
    BY Rewords DEF FinalReply
  <2>2. Same(m, session') = {Len(session) + 1} /\ session'[Len(session) + 1] = m
    BY <1>1, <1>2, <1>5, <2>1, SameGrows
  <2>3. (CHOOSE i \in Same(m, session') : TRUE) = Len(session) + 1
    BY <2>2
  <2>4. ReadBack(m, session') = w
    BY <2>2, <2>3 DEF ReadBack, FinalReply
  <2> QED BY <1>3, <1>5, <2>2, <2>4 DEF Reply
<1> QED BY <1>4, <1>5

\* The acknowledged rounds, after a message.
LEMMA AckedAre ==
  ASSUME session \in Seq(Messages), NEW m \in Messages, session' = Appended(m)
  PROVE  AckedRounds' = AckedRounds \cup IF OwnAck(m) THEN {m.round} ELSE {}
<1>1. CASE Same(m, session) # {}
  <2>1. session' = session
    BY <1>1 DEF Appended
  <2>2. PICK i \in DOMAIN session : session[i] = [m EXCEPT !.words = session[i].words]
    BY <1>1 DEF Same
  <2>3. session[i].kind = m.kind /\ session[i].task = m.task /\ session[i].round = m.round
    BY <2>2 DEF Messages
  <2> QED BY <2>1, <2>3 DEF AckedRounds, OwnAck
<1>2. CASE Same(m, session) = {}
  <2>1. /\ DOMAIN session' = DOMAIN session \cup {Len(session) + 1}
        /\ session'[Len(session) + 1] = m
        /\ \A i \in DOMAIN session : session'[i] = session[i]
        /\ Len(session) + 1 \notin DOMAIN session
    BY <1>2 DEF Appended
  <2> QED BY <2>1 DEF AckedRounds, OwnAck
<1> QED BY <1>1, <1>2

-----------------------------------------------------------------------------
(* The calls, the rows and the Workflow, as RoundLoop has them.            *)

\* The two calls.
LEMMA CallsAre ==
  /\ Both["this"] = This /\ Both["other"] = Other /\ R!NoCall = Free
  /\ DOMAIN Both = {"this", "other"}
  /\ ~Free.busy
BY DEF Both, R!NoCall, Free

LEMMA BusyIs ==
  ASSUME NEW turns
  PROVE  /\ Busy(turns).busy /\ Busy(turns).spent = turns
         /\ Busy(turns).left = args.allowance /\ Busy(turns).mode = args.mode
         /\ Busy(turns).round = args.round
         /\ Busy(turns).join <=> args.done
BY DEF Busy

LEMMA ThisEnds ==
  ASSUME at' = "over", UNCHANGED <<args, other>>
  PROVE  R!Ends("this")
<1>1. This' = Free /\ Other' = Other
  BY DEF This, Other, Busy, Free
<1> QED BY <1>1, CallsAre DEF R!Ends, Both

LEMMA OtherEndsIs ==
  ASSUME other' # "busy", UNCHANGED <<args, at, spent>>
  PROVE  R!Ends("other")
<1>1. This' = This /\ Other' = Free
  BY DEF This, Other, Busy, Free
<1> QED BY <1>1, CallsAre DEF R!Ends, Both

LEMMA CallsStay ==
  ASSUME UNCHANGED <<args, spent>>, (at' = "over") = (at = "over"),
         (other' = "busy") = (other = "busy")
  PROVE  Both' = Both
<1>1. This' = This /\ Other' = Other
  BY DEF This, Other, Busy, Free
<1> QED BY <1>1 DEF Both

\* A turn is counted.
LEMMA Counted ==
  ASSUME NEW turns
  PROVE  [Busy(turns) EXCEPT !.spent = turns + 1] = Busy(turns + 1)
<1>1. PICK k, busy, done, allowance, round, mode :
        /\ k = Busy(turns) /\ busy = TRUE /\ done = args.done
        /\ allowance = args.allowance /\ round = args.round /\ mode = args.mode
        /\ k = [busy |-> busy, round |-> round, mode |-> mode, left |-> allowance,
                spent |-> turns, join |-> done]
  BY DEF Busy
<1>2. PICK l : l = [k EXCEPT !.spent = turns + 1]
  OBVIOUS
<1>3. l = [busy |-> busy, round |-> round, mode |-> mode, left |-> allowance,
           spent |-> turns + 1, join |-> done]
  <2>1. /\ l.busy = busy /\ l.round = round /\ l.mode = mode /\ l.left = allowance
        /\ l.spent = turns + 1 /\ l.join = done
        /\ DOMAIN l = {"busy", "round", "mode", "left", "spent", "join"}
    BY <1>1, <1>2
  <2> QED BY <1>2, <2>1
<1>4. Busy(turns + 1) = [busy |-> busy, round |-> round, mode |-> mode,
                         left |-> allowance, spent |-> turns + 1, join |-> done]
  BY <1>1 DEF Busy
<1> QED BY <1>1, <1>2, <1>3, <1>4

\* The rows of the rounds.
LEMMA RowsStay ==
  ASSUME UNCHANGED args,
         ("delegated" \in {outcome'.status, other'}) = ("delegated" \in {outcome.status, other})
  PROVE  Rows' = Rows
<1>1. \A r : RowSet(r)' = RowSet(r)
  BY DEF RowSet, Earlier
<1> QED BY <1>1 DEF Rows

LEMMA RowsOpen ==
  ASSUME LadderAssumption, args.round \in Rounds, UNCHANGED args,
         "delegated" \in {outcome'.status, other'}
  PROVE  Rows' = R!CreateDecomposition(args.round)
<1>1. /\ args.round \in 0..MaxTurns /\ args.round \notin Earlier
  BY DEF LadderAssumption, Rounds, Earlier
<1>2. RowSet(args.round) \in {"open", "none"} /\ RowSet(args.round)' = "open"
  BY <1>1 DEF RowSet, Earlier
<1>3. \A r : r # args.round => RowSet(r)' = RowSet(r)
  BY DEF RowSet, Earlier
<1>4. Rows[args.round] = RowSet(args.round)
  BY <1>1 DEF Rows
<1>5. Rows' = [r \in 0..MaxTurns |-> IF r = args.round THEN "open" ELSE RowSet(r)]
  BY <1>2, <1>3 DEF Rows
<1>6. CASE RowSet(args.round) = "none"
  BY <1>1, <1>4, <1>5, <1>6 DEF R!CreateDecomposition, Rows
<1>7. CASE RowSet(args.round) = "open"
  <2>1. Rows' = Rows
    BY <1>5, <1>7 DEF Rows
  <2> QED BY <1>4, <1>7, <2>1 DEF R!CreateDecomposition
<1> QED BY <1>2, <1>6, <1>7

\* The Workflow, while the call is at work, and as it has ended.
LEMMA LoopStays ==
  ASSUME UNCHANGED <<args, outcome>>, (at' = "over") = (at = "over"),
         outcome.status = "none" \/ UNCHANGED spent
  PROVE  Loop' = Loop
BY DEF Loop, Station, Paid

LEMMA LoopIs ==
  ASSUME at # "over", outcome.status = "none", args.allowance \in Int, MaxTurns \in Int
  PROVE  Loop = [at |-> "turn", round |-> args.round, mode |-> args.mode, tries |-> 0,
                 used |-> MaxTurns - args.allowance, attempt |-> "this", says |-> "nobody"]
<1>1. Station = "turn" /\ (MaxTurns - args.allowance) + Paid = MaxTurns - args.allowance
  BY DEF Station, Paid
<1> QED BY <1>1 DEF Loop

LEMMA LoopEnds ==
  ASSUME at # "over", at' = "over", outcome.status = "none", UNCHANGED <<args, spent>>,
         args.allowance \in Int, MaxTurns \in Int, spent \in Nat, NEW place, NEW says
  PROVE  /\ outcome'.status = "threw" =>
              Loop' = [Loop EXCEPT !.at = "threw", !.tries = 0, !.attempt = "nobody"]
         /\ /\ outcome'.status \in {"replied", "delegated", "failed"}
            /\ place = IF outcome'.status = "delegated" THEN "scan" ELSE outcome'.status
            /\ says = IF outcome'.status = "replied" THEN outcome'.words ELSE "nobody"
            => Loop' = [Loop EXCEPT !.at = place, !.used = Loop.used + spent,
                                    !.says = says, !.tries = 0, !.attempt = "nobody"]
<1> DEFINE used == MaxTurns - args.allowance
           round == args.round
           mode == args.mode
<1>1. Loop = [at |-> "turn", round |-> round, mode |-> mode, tries |-> 0,
              used |-> used, attempt |-> "this", says |-> "nobody"]
  BY LoopIs
<1>2. /\ outcome'.status = "threw" =>
           Loop' = [at |-> "threw", round |-> round, mode |-> mode, tries |-> 0,
                    used |-> used, attempt |-> "nobody", says |-> "nobody"]
      /\ /\ outcome'.status \in {"replied", "delegated", "failed"}
         /\ place = IF outcome'.status = "delegated" THEN "scan" ELSE outcome'.status
         /\ says = IF outcome'.status = "replied" THEN outcome'.words ELSE "nobody"
         => Loop' = [at |-> place, round |-> round, mode |-> mode, tries |-> 0,
                     used |-> used + spent, attempt |-> "nobody", says |-> says]
  <2>1. outcome'.status = "threw" => Station' = "threw" /\ used + Paid' = used
    BY DEF Station, Paid
  <2>2. outcome'.status \in {"replied", "delegated", "failed"} =>
          /\ Station' = IF outcome'.status = "delegated" THEN "scan" ELSE outcome'.status
          /\ used + Paid' = used + spent
    BY DEF Station, Paid
  <2>3. Loop' = [at |-> Station', round |-> round, mode |-> mode, tries |-> 0,
                 used |-> used + Paid', attempt |-> "nobody",
                 says |-> IF outcome'.status = "replied" THEN outcome'.words ELSE "nobody"]
    BY DEF Loop
  <2> HIDE DEF used, round, mode
  <2> QED BY <2>1, <2>2, <2>3
<1> HIDE DEF used, round, mode
<1> DEFINE fields == {"at", "round", "mode", "tries", "used", "attempt", "says"}
<1>3. PICK l : l = [Loop EXCEPT !.at = "threw", !.tries = 0, !.attempt = "nobody"]
  OBVIOUS
<1>4. l = [at |-> "threw", round |-> round, mode |-> mode, tries |-> 0,
           used |-> used, attempt |-> "nobody", says |-> "nobody"]
  <2>1. /\ l.at = "threw" /\ l.round = round /\ l.mode = mode /\ l.tries = 0
        /\ l.used = used /\ l.attempt = "nobody" /\ l.says = "nobody"
        /\ DOMAIN l = fields
    BY <1>1, <1>3
  <2> QED BY <1>3, <2>1
<1>5. [Loop EXCEPT !.at = place, !.used = Loop.used + spent, !.says = says,
                   !.tries = 0, !.attempt = "nobody"] =
        [at |-> place, round |-> round, mode |-> mode, tries |-> 0,
         used |-> used + spent, attempt |-> "nobody", says |-> says]
  <2>1. PICK total : total = Loop.used + spent /\ total = used + spent
    BY <1>1
  <2>2. PICK k : k = [Loop EXCEPT !.at = place, !.used = total, !.says = says,
                                  !.tries = 0, !.attempt = "nobody"]
    OBVIOUS
  <2>3. /\ k.at = place /\ k.round = round /\ k.mode = mode /\ k.tries = 0
        /\ k.used = total /\ k.attempt = "nobody" /\ k.says = says
        /\ DOMAIN k = fields
    BY <1>1, <2>2
  <2>4. k = [at |-> place, round |-> round, mode |-> mode, tries |-> 0,
             used |-> total, attempt |-> "nobody", says |-> says]
    BY <2>2, <2>3
  <2> QED BY <2>1, <2>2, <2>4
<1>6. outcome'.status = "threw" =>
        Loop' = [Loop EXCEPT !.at = "threw", !.tries = 0, !.attempt = "nobody"]
  BY <1>2, <1>3, <1>4
<1>7. ASSUME outcome'.status \in {"replied", "delegated", "failed"},
             place = IF outcome'.status = "delegated" THEN "scan" ELSE outcome'.status,
             says = IF outcome'.status = "replied" THEN outcome'.words ELSE "nobody"
      PROVE  Loop' = [Loop EXCEPT !.at = place, !.used = Loop.used + spent,
                                  !.says = says, !.tries = 0, !.attempt = "nobody"]
  <2>1. Loop' = [at |-> place, round |-> round, mode |-> mode, tries |-> 0,
                 used |-> used + spent, attempt |-> "nobody", says |-> says]
    BY <1>2, <1>7
  <2> QED BY <1>5, <2>1
<1> QED BY <1>6, <1>7

\* A record of the Workflow's, as a verdict or a loss leaves it.
LEMMA VerdictIs ==
  ASSUME LadderAssumption, IInv, HInv, at # "over", at' = "over", UNCHANGED <<args, spent>>,
         NEW status \in {"replied", "failed", "delegated"},
         outcome'.status \in {status, "threw"},
         status = "delegated" => spent > 0, NEW says,
         outcome'.status = status =>
           says = IF status = "replied" THEN outcome'.words ELSE "nobody"
  PROVE  R!Verdict("this", status, says, spent)
<1>1. /\ outcome.status = "none" /\ args.allowance \in Int /\ MaxTurns \in Int
      /\ spent \in Nat
  BY DEF HInv, Ending, IInv, Ranges, LadderAssumption
<1>2. Loop.attempt = "this" /\ Loop.tries = 0
  BY <1>1, LoopIs
<1>3. CASE outcome'.status = status
  <2>1. Loop' = [Loop EXCEPT !.at = IF status = "delegated" THEN "scan" ELSE status,
                             !.used = Loop.used + spent, !.says = says, !.tries = 0,
                             !.attempt = "nobody"]
    BY <1>1, <1>3, LoopEnds
  <2> QED BY <1>2, <2>1 DEF R!Verdict, R!Answered, R!Record
<1>4. CASE outcome'.status = "threw"
  <2>1. Loop' = [Loop EXCEPT !.at = "threw", !.tries = 0, !.attempt = "nobody"]
    BY <1>1, <1>4, LoopEnds
  <2> QED BY <1>2, <2>1 DEF R!Verdict, R!Answered, R!Lose
<1> QED BY <1>3, <1>4

LEMMA LossIs ==
  ASSUME LadderAssumption, IInv, HInv, at # "over", at' = "over", UNCHANGED <<args, spent>>,
         outcome'.status = "threw"
  PROVE  Loop.attempt = "this" /\ R!Lose
<1>1. /\ outcome.status = "none" /\ args.allowance \in Int /\ MaxTurns \in Int
      /\ spent \in Nat
  BY DEF HInv, Ending, IInv, Ranges, LadderAssumption
<1>2. Loop.attempt = "this" /\ Loop.tries = 0
  BY <1>1, LoopIs
<1>3. Loop' = [Loop EXCEPT !.at = "threw", !.tries = 0, !.attempt = "nobody"]
  BY <1>1, LoopEnds
<1> QED BY <1>2, <1>3 DEF R!Lose

-----------------------------------------------------------------------------
(* Its steps, as RoundLoop has them.                                       *)

\* A control call has been paid for, and only an open round can have delegated.
Charged ==
  /\ got.replies # <<>> \/ got.delegates # <<>> => spent > 0
  /\ got.delegates # <<>> => Delegable

LEMMA InitCharged == Init => Charged
BY DEF Init, Charged, NoEnding

LEMMA StepCharged ==
  ASSUME IInv, Charged, [Next]_vars
  PROVE  Charged'
<1> USE DEF Charged, Delegable, Final
<1>1. CASE Works
  BY <1>1 DEF Works, IInv, Ranges
<1>2. CASE Ends
  <2>1. PICK calls \in Endings :
          /\ calls.delegates # <<>> => Delegable
          /\ got' = [NoEnding EXCEPT !.replies = calls.replies,
                                     !.delegates = calls.delegates]
    BY <1>2 DEF Ends
  <2>2. got'.delegates = calls.delegates
    BY <2>1 DEF NoEnding
  <2>3. spent' > 0 /\ UNCHANGED args
    BY <1>2 DEF Ends, IInv, Ranges
  <2> QED BY <2>1, <2>2, <2>3
<1>3. CASE Breaks \/ Repairs \/ FallsBack
  <2>1. got'.replies = <<>> /\ got'.delegates = <<>>
    BY <1>3 DEF Breaks, Repairs, FallsBack, Retry, NoEnding
  <2> QED BY <2>1
<1>4. CASE UNCHANGED <<args, got, spent>>
  BY <1>4
<1> QED BY <1>1, <1>2, <1>3, <1>4 DEF Next, Attempt, Conclude, Begin, Replies, Delegates,
           Stops, Exhausts, OtherEnds, Compact, Finished, vars

Settled == LadderAssumption /\ IInv /\ HInv /\ Charged

\* A step RoundLoop does not see.
LEMMA UnseenAsRound ==
  ASSUME Settled, UNCHANGED <<args, outcome, other, spent>>, (at' = "over") = (at = "over"),
         \/ UNCHANGED session
         \/ session' = Appended(UserTurn(Task, Asked))
  PROVE  UNCHANGED R!vars
<1>1. Both' = Both /\ Loop' = Loop /\ Rows' = Rows
  BY CallsStay, LoopStays, RowsStay
<1>2. CASE UNCHANGED session
  <2>1. Reply' = Reply /\ AckedRounds' = AckedRounds
    BY <1>2 DEF Reply, AckedRounds
  <2> QED BY <1>1, <2>1 DEF R!vars
<1>3. CASE session' = Appended(UserTurn(Task, Asked))
  <2>1. /\ UserTurn(Task, Asked) \in Messages /\ ~IsReply(UserTurn(Task, Asked))
        /\ ~OwnAck(UserTurn(Task, Asked)) /\ session \in Seq(Messages)
    BY Typed DEF Texts, Settled, HInv, Stored, OwnAck, UserTurn
  <2>2. Reply' = Reply /\ AckedRounds' = AckedRounds
    BY <1>3, <2>1, ReplyStays, AckedAre
  <2> QED BY <1>1, <2>2 DEF R!vars
<1> QED BY <1>2, <1>3

\* A turn of the model.
LEMMA TurnAsRound ==
  ASSUME Settled, SpendCeiling', at = "model", at' # "over", spent' = spent + 1,
         UNCHANGED <<args, session, outcome, other>>
  PROVE  R!ModelTurn("this")
<1>1. outcome.status = "none" /\ args.allowance \in Int /\ spent \in Nat
  BY DEF Settled, HInv, Ending, IInv, Ranges
<1>2. Loop' = Loop /\ Rows' = Rows /\ Reply' = Reply /\ AckedRounds' = AckedRounds
  BY <1>1, LoopStays, RowsStay DEF Reply, AckedRounds
<1>3. Both["this"] = Busy(spent) /\ This' = Busy(spent + 1) /\ Other' = Other
  BY CallsAre DEF This, Other, Busy, Free
<1>4. Both["this"].busy /\ Both["this"].spent = spent /\ Both["this"].left = args.allowance
  BY <1>3, BusyIs
<1>5. spent < R!Ceiling(args.allowance)
  BY <1>1 DEF SpendCeiling, R!Ceiling
<1>6. Both' = [Both EXCEPT !["this"] = Busy(spent + 1)]
  BY <1>3, CallsAre DEF Both
<1>7. [Both["this"] EXCEPT !.spent = Both["this"].spent + 1] = Busy(spent + 1)
  BY <1>3, <1>4, Counted
<1> QED BY <1>2, <1>4, <1>5, <1>6, <1>7 DEF R!ModelTurn

\* The call, as RoundLoop looks at it when it ends.
LEMMA AtWork ==
  ASSUME at # "over"
  PROVE  /\ Both["this"].busy /\ Both["this"].spent = spent
         /\ Both["this"].round = args.round /\ Both["this"].mode = args.mode
         /\ Both["this"].join <=> args.done
<1>1. Both["this"] = Busy(spent)
  BY CallsAre DEF This
<1> QED BY <1>1, BusyIs

\* A call that throws, with or without its acknowledgment stored.
LEMMA ThrowAsRound ==
  ASSUME Settled, at = "returned", at' = "over", outcome'.status = "threw",
         UNCHANGED <<args, spent, other>>,
         \/ UNCHANGED session
         \/ /\ args.mode = "open" /\ spent > 0
            /\ \E w \in Words : session' = Appended(Ack(Task, args.round, w))
  PROVE  R!Throws("this")
<1>1. R!Ends("this") /\ Loop.attempt = "this" /\ R!Lose
  BY ThisEnds, LossIs DEF Settled
<1>2. Rows' = Rows
  <2>1. outcome.status = "none"
    BY DEF Settled, HInv, Ending
  <2> QED BY <2>1, RowsStay
<1>3. CASE UNCHANGED session
  <2>1. Reply' = Reply /\ AckedRounds' = AckedRounds
    BY <1>3 DEF Reply, AckedRounds
  <2> QED BY <1>1, <1>2, <2>1, AtWork DEF R!Throws
<1>4. CASE /\ args.mode = "open" /\ spent > 0
           /\ \E w \in Words : session' = Appended(Ack(Task, args.round, w))
  <2>1. PICK w \in Words : session' = Appended(Ack(Task, args.round, w))
    BY <1>4
  <2>2. /\ Ack(Task, args.round, w) \in Messages /\ ~IsReply(Ack(Task, args.round, w))
        /\ OwnAck(Ack(Task, args.round, w)) /\ Ack(Task, args.round, w).round = args.round
        /\ session \in Seq(Messages)
    BY Typed DEF Texts, Settled, HInv, Rounds, Stored, OwnAck, Ack
  <2>3. Reply' = Reply /\ AckedRounds' = AckedRounds \cup {args.round}
    BY <2>1, <2>2, ReplyStays, AckedAre
  <2> QED BY <1>1, <1>2, <1>4, <2>3, AtWork DEF R!Throws
<1> QED BY <1>3, <1>4

\* A call that answers.
LEMMA ReplyAsRound ==
  ASSUME Settled, at = "returned", UNCHANGED <<args, spent, other>>,
         spent > 0 \/ args.done, NEW w \in Words \cup {Joined},
         Stores(FinalReply(Task, w), [NoOutcome EXCEPT !.status = "replied"])
  PROVE  R!Replies("this") \/ R!Throws("this")
<1>0. outcome.status = "none" /\ at' = "over"
  BY DEF Settled, HInv, Ending, Stores, Settle
<1>1. CASE session' = session /\ outcome' = [NoOutcome EXCEPT !.status = "threw"]
  <2>1. outcome'.status = "threw"
    BY <1>1 DEF NoOutcome
  <2> QED BY <1>0, <1>1, <2>1, ThrowAsRound
<1>2. CASE session' = Appended(FinalReply(Task, w))
  <2>1. /\ Reply' = IF Reply = "nobody" THEN w ELSE Reply
        /\ Reply' = ReadBack(FinalReply(Task, w), session')
    BY <1>2, ReplyIsKept DEF Settled, HInv
  <2>2. AckedRounds' = AckedRounds
    <3>1. /\ FinalReply(Task, w) \in Messages /\ ~OwnAck(FinalReply(Task, w))
          /\ session \in Seq(Messages)
      BY Typed DEF Texts, Settled, HInv, Stored, OwnAck, FinalReply
    <3> QED BY <1>2, <3>1, AckedAre
  <2>3. /\ outcome'.status \in {"replied", "threw"}
        /\ outcome'.status = "replied" => outcome'.words = Reply'
    BY <2>1 DEF Stores, Settle, NoOutcome
  <2>4. Rows' = Rows
    BY <1>0, <2>3, RowsStay
  <2>5. R!Verdict("this", "replied", Reply', spent)
    BY <1>0, <2>3, VerdictIs DEF Settled
  <2>6. R!Ends("this")
    BY <1>0, ThisEnds
  <2> QED BY <2>1, <2>2, <2>4, <2>5, <2>6, AtWork DEF R!Replies, R!AppendOnce
<1> QED BY <1>1, <1>2 DEF Stores, Settle

\* A call that delegates.
LEMMA DelegateAsRound ==
  ASSUME Settled, Delegates
  PROVE  R!Delegates("this") \/ R!Throws("this")
<1> DEFINE d == got.delegates[1]
           m == Ack(Task, args.round, d.says)
           result == [NoOutcome EXCEPT !.status = "delegated",
                        !.cites = ToSet(d.cites),
                        !.quotes = References(d.cites, view.catalog)]
<1>1. /\ at = "returned" /\ UNCHANGED <<args, spent, other>>
      /\ Len(got.delegates) = 1 /\ Stores(m, result)
  BY DEF Delegates, Reached, Usable
<1>2. d.says \in Words
  <2> DEFINE D == [says : Words, cites : Seq(Nat \ {0})]
  <2>1. got.delegates \in Seq(D) /\ 1 \in DOMAIN got.delegates
    BY <1>1 DEF Settled, HInv, Ending
  <2> HIDE DEF D
  <2>2. got.delegates[1] \in D
    BY <2>1
  <2> QED BY <2>2 DEF D
<1>3. /\ spent > 0 /\ args.mode = "open"
  <2>1. got.delegates # <<>>
    BY <1>1
  <2>2. Delegable /\ spent > 0
    BY <2>1 DEF Settled, Charged
  <2> QED BY <2>2 DEF Delegable, Final, Settled, IInv, Ranges
<1>4. /\ outcome.status = "none" /\ at' = "over" /\ outcome'.status \in {"delegated", "threw"}
      /\ session' = session => outcome'.status = "threw" \/ session' = Appended(m)
  BY <1>1 DEF Settled, HInv, Ending, Stores, Settle, NoOutcome
<1>5. CASE outcome'.status = "threw"
  <2>1. session' = session \/ \E w \in Words : session' = Appended(Ack(Task, args.round, w))
    BY <1>1, <1>2 DEF Stores
  <2> QED BY <1>1, <1>3, <1>4, <1>5, <2>1, ThrowAsRound
<1>6. CASE outcome'.status = "delegated"
  <2>1. session' = Appended(m)
    BY <1>1, <1>6 DEF Stores, Settle, NoOutcome
  <2>2. /\ m \in Messages /\ ~IsReply(m) /\ OwnAck(m) /\ m.round = args.round
        /\ session \in Seq(Messages)
    BY <1>2, Typed DEF Texts, Settled, HInv, Rounds, Stored, OwnAck, Ack
  <2>3. Reply' = Reply /\ AckedRounds' = AckedRounds \cup {args.round}
    BY <2>1, <2>2, ReplyStays, AckedAre
  <2>4. Rows' = R!CreateDecomposition(args.round)
    BY <1>1, <1>6, RowsOpen DEF Settled, HInv
  <2>5. R!Verdict("this", "delegated", "nobody", spent)
    BY <1>1, <1>3, <1>4, <1>6, VerdictIs DEF Settled
  <2>6. R!Ends("this")
    BY <1>1, <1>4, ThisEnds
  <2> QED BY <1>1, <1>3, <2>3, <2>4, <2>5, <2>6, AtWork DEF R!Delegates
<1> QED BY <1>4, <1>5, <1>6

\* The join of the branches, or the failure of the round.
LEMMA JoinAsRound ==
  ASSUME Settled, at = "returned", UNCHANGED <<args, spent, other>>, NEW kind, JoinOr(kind)
  PROVE  R!Replies("this") \/ R!Throws("this") \/ R!FailsRound("this")
<1>1. CASE args.done
  BY <1>1, ReplyAsRound DEF JoinOr
<1>2. CASE ~args.done
  <2>1. /\ at' = "over" /\ session' = session /\ outcome'.status = "failed"
        /\ outcome.status = "none"
    BY <1>2 DEF JoinOr, Settle, NoOutcome, Settled, HInv, Ending
  <2>2. Reply' = Reply /\ AckedRounds' = AckedRounds /\ Rows' = Rows
    BY <2>1, RowsStay DEF Reply, AckedRounds
  <2>3. R!Verdict("this", "failed", "nobody", spent) /\ R!Ends("this")
    BY <2>1, VerdictIs, ThisEnds DEF Settled
  <2> QED BY <1>2, <2>2, <2>3, AtWork DEF R!FailsRound
<1> QED BY <1>1, <1>2

LEMMA ConcludesAsRound ==
  ASSUME Settled, Conclude
  PROVE  R!Conclude("this") \/ UNCHANGED R!vars
<1>1. CASE Replies
  <2> DEFINE w == Last(got.replies)
  <2>1. /\ at = "returned" /\ UNCHANGED <<args, spent, other>>
        /\ got.replies # <<>> /\ w # Blank
        /\ Stores(FinalReply(Task, w), [NoOutcome EXCEPT !.status = "replied"])
    BY <1>1 DEF Replies, Reached, Usable
  <2>2. w \in Words
    BY <2>1 DEF Settled, HInv, Ending, Last
  <2>3. spent > 0
    BY <2>1 DEF Settled, Charged
  <2> HIDE DEF w
  <2>4. R!Replies("this") \/ R!Throws("this")
    BY <2>1, <2>2, <2>3, ReplyAsRound
  <2> QED BY <2>4 DEF R!Conclude
<1>2. CASE Delegates
  BY <1>2, DelegateAsRound DEF R!Conclude
<1>3. CASE Stops
  BY <1>3, JoinAsRound DEF Stops, Failed, R!Conclude
<1>4. CASE Repairs \/ FallsBack
  <2>1. /\ at = "returned" /\ at' = "model"
        /\ UNCHANGED <<args, outcome, other, spent, session>>
    BY <1>4 DEF Repairs, FallsBack, Failed, Retry
  <2> QED BY <2>1, UnseenAsRound
<1>5. CASE Exhausts
  <2>1. at = "returned" /\ UNCHANGED <<args, spent, other>>
    BY <1>5 DEF Exhausts, Failed
  <2>2. CASE "transient" \in errors'
    <3>1. at' = "over" /\ session' = session /\ outcome'.status = "threw"
      BY <1>5, <2>2 DEF Exhausts, Settle, NoOutcome
    <3> QED BY <2>1, <3>1, ThrowAsRound DEF R!Conclude
  <2>3. CASE "transient" \notin errors'
    BY <1>5, <2>1, <2>3, JoinAsRound DEF Exhausts, R!Conclude
  <2> QED BY <2>2, <2>3
<1> QED BY <1>1, <1>2, <1>3, <1>4, <1>5 DEF Conclude

\* The abandoned attempt answers, or delegates.
LEMMA OtherAsRound ==
  ASSUME Settled, OtherEnds
  PROVE  R!Replies("other") \/ R!Delegates("other")
<1>1. /\ other = "busy" /\ UNCHANGED <<args, at, spent, outcome>>
      /\ session \in Seq(Messages) /\ args.round \in Rounds
  BY DEF OtherEnds, Settled, HInv, Stored
<1>2. /\ Both["other"].busy /\ Both["other"].spent = 1 /\ Both["other"].round = args.round
      /\ Both["other"].mode = args.mode
  <2>1. Both["other"] = Busy(1)
    BY <1>1, CallsAre DEF Other
  <2> QED BY <2>1, BusyIs
<1>3. Loop' = Loop /\ Loop.attempt # "other"
  BY <1>1, LoopStays DEF Loop
<1>4. PICK w \in Words :
        \/ session' = Appended(FinalReply(Task, w)) /\ other' = "replied"
        \/ /\ Delegable
           /\ session' = Appended(Ack(Task, args.round, w)) /\ other' = "delegated"
  BY DEF OtherEnds
<1>5. R!Ends("other")
  BY <1>1, <1>4, OtherEndsIs
<1>6. CASE session' = Appended(FinalReply(Task, w)) /\ other' = "replied"
  <2>1. /\ FinalReply(Task, w) \in Messages /\ ~OwnAck(FinalReply(Task, w))
    BY Typed DEF Texts, OwnAck, FinalReply
  <2>2. AckedRounds' = AckedRounds
    BY <1>1, <1>6, <2>1, AckedAre
  <2>3. Reply' = IF Reply = "nobody" THEN w ELSE Reply
    BY <1>6, ReplyIsKept DEF Settled, HInv
  <2>4. Rows' = Rows
    BY <1>1, <1>6, RowsStay
  <2> QED BY <1>2, <1>3, <1>5, <2>2, <2>3, <2>4 DEF R!Replies, R!Verdict, R!AppendOnce
<1>7. CASE /\ Delegable
           /\ session' = Appended(Ack(Task, args.round, w)) /\ other' = "delegated"
  <2>1. /\ Ack(Task, args.round, w) \in Messages /\ ~IsReply(Ack(Task, args.round, w))
        /\ OwnAck(Ack(Task, args.round, w)) /\ Ack(Task, args.round, w).round = args.round
    BY <1>1, Typed DEF Texts, Rounds, OwnAck, Ack
  <2>2. Reply' = Reply /\ AckedRounds' = AckedRounds \cup {args.round}
    BY <1>1, <1>7, <2>1, ReplyStays, AckedAre
  <2>3. Rows' = R!CreateDecomposition(args.round)
    BY <1>1, <1>7, RowsOpen DEF Settled
  <2>4. args.mode = "open"
    BY <1>7 DEF Delegable, Final, Settled, IInv, Ranges
  <2> QED BY <1>2, <1>3, <1>5, <2>2, <2>3, <2>4 DEF R!Delegates, R!Verdict
<1> QED BY <1>4, <1>6, <1>7

\* Every step of the ladder, with its repairs and its fallback, the Session it
\* reads and the attempt beside it, is a step of a call of RoundLoop or invisible
\* to it, for every budget and whatever the models say.
THEOREM LadderIsRound == Spec => IsRound
<1>1. ASSUME Settled, SpendCeiling', [Next]_vars PROVE [R!Next]_(R!vars)
  <2>1. CASE Begin
    <3>1. /\ at' # "over" /\ at # "over" /\ UNCHANGED <<args, outcome, other, spent>>
          /\ session' = session \/ session' = Appended(UserTurn(Task, Asked))
      BY <2>1 DEF Begin
    <3> QED BY <1>1, <3>1, UnseenAsRound
  <2>2. CASE Works \/ Ends
    <3>1. /\ at = "model" /\ at' # "over" /\ spent' = spent + 1
          /\ UNCHANGED <<args, session, outcome, other>>
      BY <2>2 DEF Works, Ends
    <3> QED BY <1>1, <3>1, TurnAsRound DEF R!Next
  <2>3. CASE Breaks \/ Compact \/ Finished \/ UNCHANGED vars
    <3>1. /\ (at' = "over") = (at = "over")
          /\ UNCHANGED <<args, outcome, other, spent, session>>
      BY <2>3 DEF Breaks, Compact, Finished, vars
    <3> QED BY <1>1, <3>1, UnseenAsRound
  <2>4. CASE Conclude
    BY <1>1, <2>4, ConcludesAsRound DEF R!Next
  <2>5. CASE OtherEnds
    BY <1>1, <2>5, OtherAsRound DEF R!Next, R!Conclude
  <2> QED BY <1>1, <2>1, <2>2, <2>3, <2>4, <2>5 DEF Next, Attempt
<1>2. Init => Charged
  BY InitCharged
<1>3. IInv /\ Charged /\ [Next]_vars => Charged'
  BY StepCharged
<1>4. IInv => SpendCeiling
  BY DEF IInv, Ranges, Fits, Forced, SpendCeiling
<1>5. IInv /\ HInv /\ Charged /\ [Next]_vars /\ SpendCeiling' => [R!Next]_(R!vars)
  BY <1>1, LadderAssumption DEF Settled
<1> QED BY LadderAssumption, InitGood, StepGood, InitHonest, StepHonest,
           <1>2, <1>3, <1>4, <1>5, PTL DEF Spec, IsRound
=============================================================================
