----------------------------- MODULE MCEndpoint -----------------------------
(***************************************************************************)
(* The instance of Endpoint that TLC checks.                               *)
(***************************************************************************)
EXTENDS Endpoint, TLC

Entry(tenant, agent) == [tenant |-> tenant, agent |-> agent]
Nothing == [t \in {} |-> None]

\* Both forms, one of each, and two that must not make a Worker.
MCForms ==
  {[tenants |-> "t1" :> "a1", agents |-> <<Entry("t2", "a2")>>],
   [tenants |-> Nothing, agents |-> <<Entry("t1", "a1"), Entry("t1", "a2")>>],
   [tenants |-> "t1" :> "a1", agents |-> <<Entry("t1", "a2")>>]}

\* Two messages of one caller, one of another.
MCPast ==
  [o \in Agents \X Keys |->
     IF o = <<"a1", "k1">>
     THEN {[message |-> "old1", task |-> 11, created |-> 1],
           [message |-> "old2", task |-> 12, created |-> 2]}
     ELSE {}]

MCSender == "m1" :> "k1" @@ "m2" :> "k1" @@ "m3" :> "k2" @@ "old1" :> "k1" @@ "old2" :> "k1"
MCWorkflowId == "m1" :> "turn-1" @@ "m2" :> "turn-2" @@ "m3" :> "turn-3" @@ "old1" :> "turn-4" @@ "old2" :> "turn-5"
=============================================================================
