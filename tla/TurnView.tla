------------------------------ MODULE TurnView ------------------------------
(***************************************************************************)
(* What one round of a task shows its model of the Session, and what the   *)
(* model's reference indexes quote (renderTurnMessages in round/turn.ts,   *)
(* catalog.ts, decomposition.ts).                                          *)
(*                                                                         *)
(* A message is what its id tells (kind, task and round) and its words.    *)
(* `branches` is the set of this task's rounds that have Subtask rows.     *)
(***************************************************************************)
EXTENDS Integers, FiniteSets, SequencesExt

CONSTANTS Task,  \* the task whose round this is
          Blank  \* words of a message with nothing but whitespace

Ack(task, round, words) ==
  [kind |-> "ack", task |-> task, round |-> round, words |-> words]
FinalReply(task, words) ==
  [kind |-> "reply", task |-> task, round |-> 0, words |-> words]
UserTurn(task, words) ==
  [kind |-> "user", task |-> task, round |-> 0, words |-> words]
Summary == [kind |-> "summary", task |-> "none", round |-> 0, words |-> "summary"]

\* isCatalogEligible of a message that is nobody's acknowledgment.
Citable(m) == m.kind \notin {"ack", "summary"} /\ m.words # Blank

\* The acknowledgment of a round whose branches exist, and one of this task's
\* whose rows never came to be.
Anchors(m, branches) == m.kind = "ack" /\ m.task = Task /\ m.round \in branches

LeftOver(m, branches) == m.kind = "ack" /\ m.task = Task /\ m.round \notin branches

\* A number's place in a set of numbers, the number at a place, and the entries
\* of f at the members of S in ascending order.
Rank(S, i) == Cardinality({j \in S : j <= i})
Nth(S, k) == CHOOSE i \in S : Rank(S, i) = k
InOrder(f, S) == [k \in 1..Cardinality(S) |-> f[Nth(S, k)]]

Positions(history) == {i \in DOMAIN history : Citable(history[i])}
Catalog(history) == InOrder(history, Positions(history))

Pair(ack) == [ref |-> 0, pair |-> TRUE, message |-> ack]
Turn(ref, m) == [ref |-> ref, pair |-> FALSE, message |-> m]

\* The `delegate` calls with their results that hang on an acknowledgment still
\* in history, and the turns, marked if citable; what is left over is dropped.
Entry(history, branches, i) ==
  CASE Anchors(history[i], branches) -> Pair(history[i])
    [] Citable(history[i]) -> Turn(Rank(Positions(history), i), history[i])
    [] OTHER -> Turn(0, history[i])
Shown(history, branches) ==
  InOrder([i \in DOMAIN history |-> Entry(history, branches, i)],
          {i \in DOMAIN history : ~LeftOver(history[i], branches)})

\* Regression: rounds whose acknowledgment was compacted away go unshown.
DropOrphans(history, branches) == <<>>

\* Rounds whose acknowledgment was compacted away, in order, after the rest.
Anchored(history, branches) ==
  {history[i].round : i \in {j \in DOMAIN history : Anchors(history[j], branches)}}
Orphans(history, branches) ==
  InOrder([r \in branches |-> Pair(Ack(Task, r, Blank))],
          branches \ Anchored(history, branches))

RenderTurnMessages(history, branches) ==
  [messages |-> Shown(history, branches) \o Orphans(history, branches),
   catalog  |-> Catalog(history)]

\* resolveReferences: no index twice and none past the catalog's end.
ValidReferences(indexes, catalog) ==
  /\ \A i, j \in DOMAIN indexes : indexes[i] = indexes[j] => i = j
  /\ \A i \in DOMAIN indexes : indexes[i] <= Len(catalog)

\* The entries themselves, in conversation order.
References(indexes, catalog) == InOrder(catalog, ToSet(indexes))
=============================================================================
