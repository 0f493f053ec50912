---------------------------- MODULE MCDeployment ----------------------------
(***************************************************************************)
(* The builds that TLC deploys: one, and others that differ from it in one *)
(* thing each.                                                             *)
(***************************************************************************)
EXTENDS Deployment

TwoOf(n) == [f \in {"maxTurns", "maxWallMs"} |-> n]

Config == [chat |-> "m1", fallback |-> "m2", main |-> TwoOf(3), subagent |-> TwoOf(2),
           toolOutputWindow |-> 4, maxSubtasks |-> 8, maxOutputTokens |-> 16,
           maxRetries |-> 2, compactAfter |-> 16, compactTail |-> 5]

\* The limit on turns is the baseline's.
Recipe == [key |-> "a", version |-> 1, soul |-> "soul", families |-> <<"fb", "fa", "fb">>,
           enabled |-> TRUE, limits |-> [TwoOf(2) EXCEPT !["maxTurns"] = 0], historyWindow |-> 3,
           metrics |-> FALSE]

PluginA == [key |-> "a", current |-> TRUE, type |-> [key |-> "a", params |-> [p |-> {"id"}], recipe |-> Recipe],
            families |-> {"fa"}, store |-> [plugin |-> "a", version |-> 1, repeats |-> TRUE],
            backing |-> TRUE, needs |-> {"secret"}]
PluginB == [PluginA EXCEPT !.key = "b", !.type.key = "b", !.type.params = None, !.families = {"fb"},
                           !.store = [plugin |-> "b", version |-> 1, repeats |-> FALSE],
                           !.backing = FALSE, !.needs = {}]

First == [config |-> Config, env |-> {"secret"}, plugins |-> <<PluginA, PluginB>>,
          prints |-> 1]

TheBuilds ==
  [first         |-> First,
   model         |-> [First EXCEPT !.config.chat = "m3"],
   baseline      |-> [First EXCEPT !.config.subagent = TwoOf(1)],
   recipe        |-> [First EXCEPT !.plugins[1].type.recipe.version = 2,
                                   !.plugins[1].store.version = 2],
   newer_core    |-> [First EXCEPT !.prints = 2],
   newer_store   |-> [First EXCEPT !.plugins[2].store.version = 2],
   plugin_less   |-> [First EXCEPT !.plugins = <<PluginA>>],
   type_retired  |-> [First EXCEPT !.plugins = <<PluginB>>],
   other_params  |-> [First EXCEPT !.plugins[1].type.params = None],
   same_store    |-> [First EXCEPT !.plugins[2].store.plugin = "a"],
   secret_missed |-> [First EXCEPT !.env = {}]]

\* The two types, the first with the param it takes, beside one it does not know
\* and one left empty; the second with a param too many.
TheProposals ==
  {[blank |-> FALSE, subtasks |-> <<[type |-> "a", params |-> a], [type |-> "b", params |-> b]>>] :
     a \in {[p |-> "id"], [p |-> "id", q |-> "junk"], [p |-> "junk"]},
     b \in {<<>>, [p |-> None], [p |-> "id"]}}

MCAvailable == TheBuilds
MCOffered == TheProposals
=============================================================================
