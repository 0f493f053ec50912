----------------------------- MODULE Deployment -----------------------------
(***************************************************************************)
(* An object across deployments: how it starts, and what a new build does  *)
(* to the tables its plugins own and to the Subtask it has under way.      *)
(*                                                                         *)
(* A deploy resets the object and its managed child alike; what either has *)
(* in storage stays. The object starts by composing its runtime and        *)
(* bringing up the plugins' stores one after the other (db/db.ts); that it *)
(* then registers the weekly cleanup (host/agent.ts) is left out. The      *)
(* parent validates the Subtask's recipe again for every chunk             *)
(* (round/agent.ts), and the child knows the run it holds by the           *)
(* fingerprint of the request (subagent/index.ts).                         *)
(*                                                                         *)
(* Cancellation, the chunk's own budget and the Workflow's limits on       *)
(* retries are in SubtaskBranch and ChunkRun.                              *)
(***************************************************************************)
EXTENDS Proposal

CONSTANTS Available,  \* the builds that may be deployed, by name
          Offered,    \* the delegations that the main agent may propose
          MaxDeploys, \* bound: deploys
          MaxFaults   \* bound: throws of a store's DDL, deaths of a call

ASSUME DeploymentAssumption ==
  /\ \A name \in DOMAIN Available : Available[name] \in Builds
  /\ Offered \subseteq Proposals
  /\ None \notin {"completed", "failed"}
  /\ MaxDeploys \in Nat
  /\ MaxFaults \in Nat

VARIABLES deployed, \* the name of the build that is deployed
          isolate,  \* the object in memory: cold, broken, open or started
          recorded, \* the version on record of each store
          tables,   \* the version each store's tables are really at
          row,      \* the row of the one Subtask that is followed
          child,    \* the managed child's storage
          call,     \* the chunk at work in the object and its child
          deploys, faults

vars == <<deployed, isolate, recorded, tables, row, child, call, deploys, faults>>
diskVars == <<recorded, tables>>
runVars == <<row, child, call>>
boundVars == <<deploys, faults>>

build == Available[deployed]

\* What the builds come to, once for all.
StoresBy == [name \in DOMAIN Available |-> StoresOf(Available[name])]
ComposesBy == [name \in DOMAIN Available |-> Composes(Available[name])]

stores == StoresBy[deployed]

\* A slot of the child holds the fingerprint it was written under (none, if it is
\* empty) and, beyond the code, the fingerprints of all turns that went into it and
\* the build they ran under.
NoRun == [turns |-> 0, print |-> {}, made |-> {}, under |-> None]
NoResult == [status |-> None, print |-> {}, made |-> {}, under |-> None]
NoChild == [run |-> NoRun, cache |-> NoResult]
\* Beyond the code the row tells the build it was delegated under, and of its
\* result the request that asked for it, the turns it was made of, its build.
NoRow == [status |-> "none", draft |-> None, since |-> None,
          asked |-> None, made |-> {}, under |-> None]
NoCall == [at |-> "none", request |-> None, again |-> FALSE]

TypeOK ==
  /\ deployed \in DOMAIN Available
  /\ isolate \in {"cold", "broken", "open", "started"}
  /\ recorded \in [Keys -> Nat] /\ tables \in [Keys -> Nat]
  /\ row.status \in {"none", "pending", "running", "completed", "failed"}
  /\ child.run.turns \in Nat /\ child.cache.status \in {None, "completed", "failed"}
  /\ call.at \in {"none", "child", "turn", "result"}
  /\ deploys \in 0..MaxDeploys /\ faults \in 0..MaxFaults

Init ==
  /\ deployed \in DOMAIN Available
  /\ isolate = "cold"
  /\ recorded = [p \in Keys |-> 0]
  /\ tables = [p \in Keys |-> 0]
  /\ row = NoRow
  /\ child = NoChild
  /\ call = NoCall
  /\ deploys = 0
  /\ faults = 0

-----------------------------------------------------------------------------
(* The object's start. *)

\* Another build is deployed, also an older one.
Deploy(name) ==
  /\ deploys < MaxDeploys
  /\ name # deployed
  /\ deployed' = name
  /\ deploys' = deploys + 1
  /\ isolate' = "cold"
  /\ call' = NoCall
  /\ UNCHANGED <<diskVars, row, child, faults>>

\* The platform drops an idle object, or one that failed.
Recycle ==
  /\ isolate \in {"broken", "started"}
  /\ call = NoCall
  /\ isolate' = "cold"
  /\ UNCHANGED <<deployed, diskVars, runVars, boundVars>>

\* Regression: a store that is up to date is refused.
RefusedUnlessNewer(i) ==
  \/ \E j \in DOMAIN stores : j < i /\ stores[j].plugin = stores[i].plugin
  \/ stores[i].version < 1
  \/ recorded[stores[i].plugin] >= stores[i].version

\* Stores that stop the start, whatever their DDL does.
Refused(i) ==
  \/ \E j \in DOMAIN stores : j < i /\ stores[j].plugin = stores[i].plugin
  \/ stores[i].version < 1
  \/ recorded[stores[i].plugin] > stores[i].version

\* DDL that ran, was not recorded, and throws when it is run again, as an ALTER
\* TABLE ... ADD COLUMN does.
Stuck(i) ==
  LET store == stores[i]
  IN  /\ ~store.repeats
      /\ recorded[store.plugin] < store.version
      /\ recorded[store.plugin] < tables[store.plugin]

Refusals == {i \in DOMAIN stores : Refused(i) \/ Stuck(i)}

\* The stores an applyStores brings up when the DDL of one of them throws (0: none).
Applied(throws) ==
  {i \in DOMAIN stores : \A j \in DOMAIN stores : j <= i => j \notin Refusals \cup {throws}}

Versions(done) == [p \in {stores[i].plugin : i \in done} |->
                     stores[CHOOSE i \in done : stores[i].plugin = p].version]

\* DDL that goes through: what lies between the version on record and the declared one.
Ensured(at, from, version) == IF at >= from /\ at < version THEN version ELSE at

\* Regression: the version is recorded ahead of the DDL.
RecordedAhead(throws) ==
  Versions({i \in Applied(0) : throws \notin 1..(i - 1)})

\* What is on record afterwards, of the stores that were brought up.
NowRecorded(throws) == Versions(Applied(throws))

\* The constructor of AgentDB: migrate, then applyStores in one synchronous go.
\* The DDL that throws may have changed its tables before.
Open ==
  /\ isolate = "cold"
  /\ LET apply(throws, ran) ==
           /\ tables' = [p \in Keys |-> IF p \in DOMAIN ran
                                        THEN Ensured(tables[p], recorded[p], ran[p])
                                        ELSE tables[p]]
           /\ recorded' = [p \in Keys |-> IF p \in DOMAIN NowRecorded(throws)
                                          THEN NowRecorded(throws)[p]
                                          ELSE recorded[p]]
     IN \/ /\ ~ComposesBy[deployed]
           /\ isolate' = "broken"
           /\ UNCHANGED <<recorded, tables, faults>>
        \/ /\ ComposesBy[deployed]
           /\ apply(0, Versions(Applied(0)))
           /\ isolate' = IF Refusals = {} THEN "open" ELSE "broken"
           /\ UNCHANGED faults
        \/ /\ ComposesBy[deployed]
           /\ faults < MaxFaults
           /\ faults' = faults + 1
           /\ isolate' = "broken"
           /\ \E i \in Applied(0), ran \in BOOLEAN :
                apply(i, Versions(Applied(i) \cup (IF ran THEN {i} ELSE {})))
  /\ UNCHANGED <<deployed, runVars, deploys>>

\* The rest of onStart, past the database.
Register ==
  /\ isolate = "open"
  /\ isolate' = "started"
  /\ UNCHANGED <<deployed, diskVars, runVars, boundVars>>

-----------------------------------------------------------------------------
(* A chunk of the Subtask's run. *)

startVars == <<deployed, isolate, diskVars, deploys>>

\* The main agent delegates.  A call that is refused is shown to it again.
Delegate(proposal) ==
  /\ isolate = "started"
  /\ row = NoRow
  /\ Accepts(proposal, build)
  /\ \E draft \in Range(ResolveDecomposition(proposal, build)) :
       row' = [NoRow EXCEPT !.status = "pending", !.draft = draft, !.since = deployed]
  /\ UNCHANGED <<startVars, child, call, faults>>

Declared == TypeNamed(build, row.draft.type)

\* With the fingerprint version of the build, which parent and child both run.
Request == [recipe |-> ValidateRecipe(Declared.recipe, build), params |-> row.draft.params,
            prints |-> build.prints]

\* prepareChunk, with the type and its recipe as the build now has them.  Claiming
\* the row deletes the child; a row that runs keeps it.
PrepareChunk ==
  /\ isolate = "started"
  /\ call = NoCall
  /\ row.status \in {"pending", "running"}
  /\ IF Declared = None \/ ~Usable(Declared.recipe)
     THEN /\ row' = [row EXCEPT !.status = "failed", !.under = deployed]
          /\ UNCHANGED <<child, call>>
     ELSE /\ row' = [row EXCEPT !.status = "running"]
          /\ child' = IF row.status = "pending" THEN NoChild ELSE child
          /\ call' = [at |-> "child", request |-> Request, again |-> FALSE]
  /\ UNCHANGED <<startVars, faults>>

Fingerprint(request) == Canonical(request)

AnyRun(saved, request) == FALSE \* Regression

\* What the child holds is another request's.
Foreign(saved, request) == ~(saved.print \subseteq {Fingerprint(request)})

\* executeChunk answers from its cache.
Replay ==
  /\ call.at = "child"
  /\ child.cache.status # None
  /\ ~Foreign(child.cache, call.request)
  /\ call' = [call EXCEPT !.at = "result"]
  /\ UNCHANGED <<startVars, row, child, faults>>

\* The type no longer takes the params the row was delegated with.
RefuseParams ==
  /\ call.at = "child"
  /\ child.cache.status = None
  /\ RefusesParams(Declared, call.request.params)
  /\ child' = [child EXCEPT !.cache = [status |-> "failed", print |-> {Fingerprint(call.request)},
                                       made |-> {Fingerprint(call.request)}, under |-> deployed]]
  /\ call' = [call EXCEPT !.at = "result"]
  /\ UNCHANGED <<startVars, row, faults>>

Resume ==
  /\ call.at = "child"
  /\ child.cache.status = None
  /\ ~RefusesParams(Declared, call.request.params)
  /\ ~Foreign(child.run, call.request)
  /\ call' = [call EXCEPT !.at = "turn"]
  /\ UNCHANGED <<startVars, row, child, faults>>

\* Regression: the child is kept.
Kept == child

\* A child that is deleted starts from nothing.
Recreated == NoChild

\* A mismatch: executeChunkInChild recreates the child and asks it once more.
Mismatch ==
  /\ call.at = "child"
  /\ IF child.cache.status # None
     THEN Foreign(child.cache, call.request)
     ELSE ~RefusesParams(Declared, call.request.params) /\ Foreign(child.run, call.request)
  /\ IF call.again
     THEN /\ call' = NoCall
          /\ UNCHANGED child
     ELSE /\ call' = [call EXCEPT !.again = TRUE]
          /\ child' = Recreated
  /\ UNCHANGED <<startVars, row, faults>>

\* A model turn, and its checkpoint.
Turn ==
  /\ call.at = "turn"
  /\ child.run.turns < call.request.recipe.limits["maxTurns"]
  /\ child' = [child EXCEPT !.run = [turns |-> @.turns + 1,
                                     print |-> {Fingerprint(call.request)},
                                     made |-> @.made \cup {Fingerprint(call.request)},
                                     under |-> deployed]]
  /\ UNCHANGED <<startVars, row, call, faults>>

\* The chunk's time is over: the run is saved, and goes on in a later chunk.
Yield ==
  /\ call.at = "turn"
  /\ child.run.turns < call.request.recipe.limits["maxTurns"]
  /\ child' = [child EXCEPT !.run = [turns |-> @.turns,
                                     print |-> {Fingerprint(call.request)},
                                     made |-> @.made,
                                     under |-> deployed]]
  /\ call' = NoCall
  /\ UNCHANGED <<startVars, row, faults>>

\* The run ends; its answer is cached.
Answer ==
  /\ call.at = "turn"
  /\ child.run.turns > 0
  /\ child' = [child EXCEPT !.cache = [status |-> "completed", print |-> {Fingerprint(call.request)},
                                       made |-> child.run.made, under |-> deployed]]
  /\ call' = [call EXCEPT !.at = "result"]
  /\ UNCHANGED <<startVars, row, faults>>

\* persistResult in the parent.
Persist ==
  /\ call.at = "result"
  /\ row' = [row EXCEPT !.status = child.cache.status, !.asked = Fingerprint(call.request),
                        !.made = child.cache.made, !.under = child.cache.under]
  /\ call' = NoCall
  /\ UNCHANGED <<startVars, child, faults>>

\* The call dies, with the object or without it; the Workflow calls again.
CallDies ==
  /\ call # NoCall
  /\ faults < MaxFaults
  /\ faults' = faults + 1
  /\ call' = NoCall
  /\ isolate' \in {"started", "cold"}
  /\ UNCHANGED <<deployed, diskVars, row, child, deploys>>

-----------------------------------------------------------------------------

Chunk ==
  \/ PrepareChunk
  \/ Replay
  \/ RefuseParams
  \/ Resume
  \/ Mismatch
  \/ Turn
  \/ Answer
  \/ Persist

Next ==
  \/ \E name \in DOMAIN Available : Deploy(name)
  \/ Recycle
  \/ Open
  \/ Register
  \/ \E proposal \in Offered : Delegate(proposal)
  \/ Chunk
  \/ Yield
  \/ CallDies

\* The platform drops a broken object in the end, and the Workflow calls until
\* the Subtask has settled: what is cold starts, and chunks get their turns in.
Spec ==
  /\ Init
  /\ [][Next]_vars
  /\ WF_vars((isolate = "broken" /\ Recycle) \/ Open \/ Register)
  /\ WF_vars(Replay \/ RefuseParams \/ Resume \/ Mismatch \/ Answer \/ Persist)
  /\ SF_vars(PrepareChunk)
  /\ SF_vars(Turn)

-----------------------------------------------------------------------------
(* Properties. *)

Discards == child # NoChild /\ child' = NoChild
HeldFrom == {child.run.under, child.cache.under} \ {None}

SameDeclaration(one, other) ==
  TypeNamed(Available[one], row.draft.type) = TypeNamed(Available[other], row.draft.type)

\* An object that serves has every table its plugins declare, at the declared
\* version, whatever deploys, roll-backs and failing DDL came before, and no
\* version on record ever goes back (db/db.ts: "downgrade is not supported").
ServesDeclared ==
  [][/\ \A p \in Keys : recorded'[p] >= recorded[p]
     /\ isolate' = "started" =>
          \A i \in DOMAIN stores' :
            LET store == stores'[i]
            IN recorded'[store.plugin] = store.version /\ tables'[store.plugin] >= store.version
    ]_vars

\* A build that can start on the tables as they are.
Startable ==
  /\ ComposesBy[deployed]
  /\ \A i \in DOMAIN stores : ~Stuck(i)
  /\ \A i, j \in DOMAIN stores :
       stores[i].plugin = stores[j].plugin => i = j
  /\ \A i \in DOMAIN stores :
       stores[i].version > 0 /\ stores[i].version >= recorded[stores[i].plugin]

\* A build that may start does start in the end, though a start before it failed
\* with tables half brought up and its rejection kept for the isolate; but for one
\* whose DDL cannot be repeated and was cut off before its version was recorded.
StartsEventually == []<>(isolate = "started" \/ ~Startable)

\* The answer a Subtask settles with was made by turns of one request only, and
\* of the request that asked for it: no deploy mixes two recipes in one run, and
\* no result of an earlier one is taken for an answer (subagent/index.ts).
\* And what was accepted as delegated fails for its declaration only if that was
\* changed since, or no run of it could begin (control.ts, subtask-types.ts).
RunIsOfOneRequest ==
  /\ row.status = "completed" => row.made = {row.asked}
  /\ row.status = "failed" =>
       \/ ~SameDeclaration(row.since, row.under)
       \/ ~Usable(TypeNamed(Available[row.since], row.draft.type).recipe)

\* A child that holds another request's run does not stand in the Subtask's way.
SettlesAcrossDeploys ==
  (row.status = "pending" ~> row.status \in {"completed", "failed"}) \/ <>[](~Startable)

\* "The host's baseline becomes free to move" (subagent/fingerprint.ts): a run is
\* discarded only when another recipe is declared, other families are installed or
\* the fingerprints' own version has moved.
BaselineFreeToMove ==
  [][Discards => \E name \in HeldFrom :
       \/ ~SameDeclaration(name, deployed)
       \/ FamiliesOf(Available[name]) # FamiliesOf(build)
       \/ Available[name].prints # build.prints]_vars
=============================================================================
