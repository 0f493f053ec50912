------------------------------ MODULE Plugins ------------------------------
(***************************************************************************)
(* What a deployment is made of and what is derived from it when an object *)
(* starts: the configuration (config.ts), the installed plugins            *)
(* (contract/plugin.ts), the runtime composed of both (runtime/index.ts),  *)
(* recipes as declared and as validated (contract/recipe.ts,               *)
(* contract/validation.ts), and the fingerprint of a request               *)
(* (subagent/fingerprint.ts).                                              *)
(*                                                                         *)
(* A number that is missing, zero or a fraction is 0 where the code treats *)
(* the three alike.                                                        *)
(***************************************************************************)
EXTENDS Integers, Sequences, SequencesExt

CONSTANTS Keys,       \* keys of plugins, subtask types and recipes, names of stores
          Families,   \* names of tool families
          Needs,      \* secrets and bindings
          Models,     \* model ids
          Souls,      \* what a recipe's model is told it is
          Params,     \* names of a type's params
          Values,     \* what a param may be
          MaxRetries, \* MAX_MODEL_RETRIES
          Headroom,   \* the gap compaction needs
          None        \* an absent type, store, model or soul

ASSUME PluginsAssumption ==
  /\ None \notin Keys \cup Models \cup Souls \cup Values
  /\ MaxRetries \in Nat
  /\ Headroom \in Nat

Limits == [{"maxTurns", "maxWallMs"} -> Nat]

Configs == [chat : Models \cup {None}, fallback : Models \cup {None},
            main : Limits, subagent : Limits,
            toolOutputWindow : Nat, maxSubtasks : Nat, maxOutputTokens : Nat,
            maxRetries : Int, compactAfter : Nat, compactTail : Nat]

ResolvedRecipes == [key : Keys, version : Nat, soul : Souls \cup {None}, families : Seq(Families),
                    enabled : BOOLEAN, limits : Limits, historyWindow : Int,
                    metrics : BOOLEAN]

\* The params a type requires, each with the values its schema accepts.
ParamSchemas == UNION {[names -> SUBSET Values] : names \in SUBSET Params}

SubtaskTypes == [key : Keys, params : ParamSchemas \cup {None}, recipe : ResolvedRecipes]
\* `repeats`: its DDL may be run again where it ran before ("must be idempotent").
Stores == [plugin : Keys, version : Int, repeats : BOOLEAN]

AgentPlugins == [key : Keys, current : BOOLEAN, type : SubtaskTypes \cup {None},
                 families : SUBSET Families, store : Stores \cup {None},
                 backing : BOOLEAN, needs : SUBSET Needs]

\* `prints` is FINGERPRINT_VERSION.
Builds == [config : Configs, env : SUBSET Needs, plugins : Seq(AgentPlugins), prints : Nat]

-----------------------------------------------------------------------------
(* Configuration and composition. *)

\* resolveConfig returns.
ConfigHolds(c) ==
  /\ None \notin {c.chat, c.fallback}
  /\ c.chat # c.fallback
  /\ \A f \in DOMAIN c.main : c.main[f] > 0 /\ c.subagent[f] > 0
  /\ 0 \notin {c.toolOutputWindow, c.maxSubtasks, c.maxOutputTokens}
  /\ c.maxRetries \in 0..MaxRetries
  /\ c.compactAfter - c.compactTail >= Headroom

\* What the plugins contribute, in the order they are installed.
TypesOf(b) == {b.plugins[i].type : i \in DOMAIN b.plugins} \ {None}
FamiliesOf(b) == UNION {b.plugins[i].families : i \in DOMAIN b.plugins}

\* Their stores, each at the place of the plugin that brings it.
StoresOf(b) == [i \in {j \in DOMAIN b.plugins : b.plugins[j].store # None} |-> b.plugins[i].store]

\* No two of the plugins have what the condition forbids them to share.
Apart(b, Clash(_, _)) ==
  \A i, j \in DOMAIN b.plugins : i # j => ~Clash(b.plugins[i], b.plugins[j])

SameKey(p, q) == p.key = q.key
SameType(p, q) == p.type # None /\ q.type # None /\ p.type.key = q.type.key
SameFamily(p, q) == p.families \cap q.families # {}
BothBack(p, q) == p.backing /\ q.backing

\* createAgentRuntime returns; otherwise it throws, whenever the object starts.
Composes(b) ==
  /\ ConfigHolds(b.config)
  /\ \A i \in DOMAIN b.plugins : b.plugins[i].current
  /\ Apart(b, SameKey)
  /\ Apart(b, SameType)
  /\ Apart(b, SameFamily)
  /\ Apart(b, BothBack)
  /\ \A i \in DOMAIN b.plugins : b.plugins[i].needs \subseteq b.env

-----------------------------------------------------------------------------
(* Recipes. *)

\* The type a row names, or None when no installed plugin declares it.
TypeNamed(b, key) ==
  IF \E t \in TypesOf(b) : t.key = key
  THEN CHOOSE t \in TypesOf(b) : t.key = key
  ELSE None

\* resolveLimits: what is validly declared wins, field by field.
ResolveLimits(limits, baseline) ==
  [f \in DOMAIN baseline |-> IF limits[f] > 0 THEN limits[f] ELSE baseline[f]]

\* validateRecipe does not refuse the recipe.
Usable(recipe) == recipe.enabled /\ recipe.soul # None /\ recipe.historyWindow > 0

\* A family is kept where it is first named.
KeptFamilies(recipe, known) ==
  FoldLeft(LAMBDA kept, family : IF family \in known \ ToSet(kept) THEN Append(kept, family) ELSE kept,
           <<>>, recipe.families)

ValidateRecipe(recipe, b) ==
  [key |-> recipe.key, version |-> recipe.version, soul |-> recipe.soul,
   families |-> KeptFamilies(recipe, FamiliesOf(b)),
   enabled |-> recipe.enabled, historyWindow |-> recipe.historyWindow, metrics |-> recipe.metrics,
   limits |-> ResolveLimits(recipe.limits, b.config.subagent),
   primary |-> b.config.chat, fallback |-> b.config.fallback]

\* What names an execution: the recipe without the models, and the params.  The
\* ids, type, prompt and references are a Subtask's own and never change.
Canonical(request) ==
  [prints |-> request.prints,
   key |-> request.recipe.key, version |-> request.recipe.version, soul |-> request.recipe.soul,
   families |-> request.recipe.families, enabled |-> request.recipe.enabled,
   limits |-> request.recipe.limits, historyWindow |-> request.recipe.historyWindow,
   metrics |-> request.recipe.metrics, params |-> request.params]
=============================================================================
