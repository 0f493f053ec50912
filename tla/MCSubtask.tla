----------------------------- MODULE MCSubtask -----------------------------
(***************************************************************************)
(* The instance of SubtaskBranch that TLC checks.  The slots of concurrent *)
(* calls are interchangeable; the Subtasks are not, one being unusable.    *)
(***************************************************************************)
EXTENDS SubtaskBranch, TLC

CallSymmetry == Permutations(Calls)
=============================================================================
