------------------------------ MODULE Proposal ------------------------------
(***************************************************************************)
(* What a `delegate` call of the main agent is held against: the schema of *)
(* the tool, which the installed Subtask types make up together            *)
(* (decomposition.ts, control.ts), and the params of each type             *)
(* (subtask-types.ts).  The references it quotes are in TurnView.          *)
(*                                                                         *)
(* A schema of params is a function from the names it requires to the      *)
(* values it accepts.  Params are a function from the names sent; one that *)
(* is sent as `undefined` has the value None.                              *)
(***************************************************************************)
EXTENDS Plugins

ParamsSent == UNION {[names -> Values \cup {None}] : names \in SUBSET Params}

\* A text that is required and missing, or nothing but whitespace, is blank.
Proposals == [blank : BOOLEAN, subtasks : Seq([type : Keys, params : ParamsSent])]

\* The plugins whose types declare a param of the name.
Declaring(b, name) ==
  {i \in DOMAIN b.plugins :
     /\ b.plugins[i].type # None
     /\ b.plugins[i].type.params # None
     /\ name \in DOMAIN b.plugins[i].type.params}

\* paramProperties: of a name that two types declare, the schema of the later.
ParamProperties(b) ==
  [name \in {n \in Params : Declaring(b, n) # {}} |->
     b.plugins[CHOOSE i \in Declaring(b, name) : \A j \in Declaring(b, name) : j <= i].type.params[name]]

MatchesSchema(proposal, b) ==
  /\ ~proposal.blank
  /\ Len(proposal.subtasks) \in 1..b.config.maxSubtasks
  /\ \A i \in DOMAIN proposal.subtasks :
       LET subtask == proposal.subtasks[i]
       IN /\ TypeNamed(b, subtask.type) # None
          /\ \A name \in DOMAIN subtask.params \cap DOMAIN ParamProperties(b) :
               subtask.params[name] \in ParamProperties(b)[name] \cup {None}

\* What the schema lets through, without the names it does not know; then
\* without those that were given no value (definedParams).
DefinedParams(params, b) ==
  Restrict(params, {name \in DOMAIN params \cap DOMAIN ParamProperties(b) : params[name] # None})

\* validateParams throws.
RefusesParams(type, params) ==
  IF type.params = None
  THEN DOMAIN params # {}
  ELSE ~ \A name \in DOMAIN type.params :
           name \in DOMAIN params /\ params[name] \in type.params[name]

\* What it returns: names that the type does not know are stripped.
ValidateParams(type, params) ==
  IF type.params = None THEN params ELSE Restrict(params, DOMAIN type.params)

\* One Subtask that its type refuses is the whole call refused.
Accepts(proposal, b) ==
  /\ MatchesSchema(proposal, b)
  /\ \A i \in DOMAIN proposal.subtasks :
       ~RefusesParams(TypeNamed(b, proposal.subtasks[i].type),
                      DefinedParams(proposal.subtasks[i].params, b))

\* resolveDecomposition of a call that is accepted.
ResolveDecomposition(proposal, b) ==
  [i \in DOMAIN proposal.subtasks |->
     LET subtask == proposal.subtasks[i]
     IN [type |-> subtask.type,
         params |-> ValidateParams(TypeNamed(b, subtask.type), DefinedParams(subtask.params, b))]]
=============================================================================
