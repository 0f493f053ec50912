---------------------------- MODULE Conversation ----------------------------
(***************************************************************************)
(* The context a Recipe run carries from turn to turn, bounded after every *)
(* turn (windowMessages and elideToolOutputs in subagent/run.ts).  A       *)
(* message is its role and, for a tool's result, the tool and what is left *)
(* of its output: "full", "kept" (a failure, a denial or a short output,   *)
(* which are never worth a stub) or "gone".                                *)
(***************************************************************************)
EXTENDS Naturals, Sequences, FiniteSets

CONSTANT Tools

Bodies == {"full", "kept", "gone"}
Seed == [role |-> "user"]
Assistant == [role |-> "assistant"]
Result(tool, body) == [role |-> "tool", tool |-> tool, body |-> body]
Results == {Result(tool, body) : tool \in Tools, body \in Bodies}
Messages == {Seed, Assistant} \cup Results

Turns(m) == {i \in DOMAIN m : m[i] = Assistant}

\* Where the last n turns begin.
LastTurns(m, n) ==
  CHOOSE i \in Turns(m) : Cardinality({j \in Turns(m) : j >= i}) = n

\* windowMessages: the seed and the last `window` turns, cut where a turn begins.
WindowMessages(m, window) ==
  IF Cardinality(Turns(m)) <= window
    THEN m
    ELSE <<m[1]>> \o SubSeq(m, LastTurns(m, window), Len(m))

\* The first message of the last `keep` turns, or one past the end for none.
Cutoff(m, keep) ==
  IF keep = 0 THEN Len(m) + 1
  ELSE IF Cardinality(Turns(m)) <= keep THEN 1
  ELSE LastTurns(m, keep)

IsResult(m, i) == m[i].role = "tool"

\* The newest result of a tool, at any age.
NewestOfItsTool(m, i) ==
  \A j \in DOMAIN m : IsResult(m, j) /\ j > i => m[j].tool # m[i].tool

\* Regression: old results stubbed whether or not a newer one exists.
ElideAllOld(m, keep) ==
  [i \in DOMAIN m |->
     IF IsResult(m, i) /\ i < Cutoff(m, keep) /\ m[i].body = "full"
       THEN [m[i] EXCEPT !.body = "gone"] ELSE m[i]]

\* elideToolOutputs: a full result before the cutoff that is not its tool's
\* newest loses its payload; every message stays where it is.
ElideToolOutputs(m, keep) ==
  [i \in DOMAIN m |->
     IF /\ IsResult(m, i) /\ i < Cutoff(m, keep)
        /\ ~NewestOfItsTool(m, i) /\ m[i].body = "full"
       THEN [m[i] EXCEPT !.body = "gone"] ELSE m[i]]
=============================================================================
