---------------------------- MODULE MCTurnLadder ----------------------------
(***************************************************************************)
(* The instance of TurnLadder that TLC checks.                             *)
(***************************************************************************)
EXTENDS TurnLadder

\* Another task's turn and acknowledgment, and a message with no words.
MCPasts ==
  {<<>>,
   <<UserTurn("older", Asked), Ack("older", 0, Acked), FinalReply("older", Blank)>>}

Cites(indexes) == [says |-> "w1", cites |-> indexes]
Says(replies) == [replies |-> replies, delegates |-> <<>>]
Delegation(calls, replies) == [replies |-> replies, delegates |-> calls]

\* Nothing, answers, a blank one and one taken back; a delegation with its
\* references in and out of order, repeated or past the catalog's end; one made
\* twice, and one with an answer beside it.
MCEndings ==
  {Says(<<>>), Says(<<"w1">>), Says(<<"w2">>), Says(<<Blank>>), Says(<<"w1", Blank>>)}
    \cup {Delegation(<<Cites(c)>>, <<>>) : c \in {<<>>, <<2, 1>>, <<1, 1>>, <<3>>}}
    \cup {Delegation(<<Cites(<<1>>), Cites(<<1>>)>>, <<>>),
          Delegation(<<Cites(<<1>>)>>, <<"w2">>)}
=============================================================================
