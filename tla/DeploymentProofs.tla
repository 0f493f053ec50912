-------------------------- MODULE DeploymentProofs --------------------------
(***************************************************************************)
(* What holds of an object and its Subtask across deploys, for any builds, *)
(* plugins, stores, delegations and numbers of deploys and faults.         *)
(***************************************************************************)
EXTENDS Deployment, TLAPS

TypeAt(name) == TypeNamed(Available[name], row.draft.type)

\* The records, field by field.
RowShape == row = [status |-> row.status, draft |-> row.draft, since |-> row.since,
                   asked |-> row.asked, made |-> row.made, under |-> row.under]

SlotShape(slot) == slot = [turns |-> slot.turns, print |-> slot.print,
                           made |-> slot.made, under |-> slot.under]

ResultShape(slot) == slot = [status |-> slot.status, print |-> slot.print,
                             made |-> slot.made, under |-> slot.under]

ChildShape == /\ child = [run |-> child.run, cache |-> child.cache]
              /\ SlotShape(child.run) /\ ResultShape(child.cache)

CallShape == call = [at |-> call.at, request |-> call.request, again |-> call.again]

Shapes == RowShape /\ ChildShape /\ CallShape

\* All turns in a slot are of the one request it was written under.
RunSlot == /\ child.run.turns \in Nat
           /\ child.run.made \subseteq child.run.print
           /\ child.run.turns > 0 => child.run.made # {}

CacheSlot == /\ child.cache.status \in {None, "completed", "failed"}
             /\ child.cache.status # None =>
                  \E print : child.cache.print = {print} /\ child.cache.made = {print}

\* A call at work is of the row, and what it goes on with is its request's.
CallInv == call.at # "none" =>
  /\ row.status = "running"
  /\ call.request.params = row.draft.params
  /\ call.at = "turn" => child.run.print \subseteq {Fingerprint(call.request)}
  /\ call.at = "result" => /\ child.cache.status # None
                           /\ child.cache.print = {Fingerprint(call.request)}

\* A run failed in the child because the type it ran under takes no such params.
FailedInv == child.cache.status = "failed" /\ row.status = "running" =>
  RefusesParams(TypeAt(child.cache.under), row.draft.params)

\* What was delegated was accepted.
DelegatedInv == row.status # "none" =>
  TypeAt(row.since) # None /\ ~RefusesParams(TypeAt(row.since), row.draft.params)

RunInv == Shapes /\ RunSlot /\ CacheSlot /\ CallInv /\ FailedInv /\ DelegatedInv /\ RunIsOfOneRequest

-----------------------------------------------------------------------------
(* Params. *)

\* What a type takes it takes again without the names it does not know.
LEMMA Validated ==
  ASSUME NEW type, NEW params, ~RefusesParams(type, params)
  PROVE  ~RefusesParams(type, ValidateParams(type, params))
<1>1. CASE type.params = None
  BY <1>1 DEF RefusesParams, ValidateParams
<1>2. CASE type.params # None
  <2>1. ValidateParams(type, params) = [name \in DOMAIN type.params |-> params[name]]
    BY <1>2 DEF ValidateParams, Restrict
  <2>2. \A name \in DOMAIN type.params : params[name] \in type.params[name]
    BY <1>2 DEF RefusesParams
  <2> QED BY <1>2, <2>1, <2>2 DEF RefusesParams
<1> QED BY <1>1, <1>2

\* A call that is accepted leaves drafts whose types take their params.
LEMMA Delegated ==
  ASSUME NEW proposal, NEW b, Accepts(proposal, b),
         NEW draft \in Range(ResolveDecomposition(proposal, b))
  PROVE  TypeNamed(b, draft.type) # None /\ ~RefusesParams(TypeNamed(b, draft.type), draft.params)
<1> DEFINE sent(i) == DefinedParams(proposal.subtasks[i].params, b)
           type(i) == TypeNamed(b, proposal.subtasks[i].type)
<1>1. PICK i \in DOMAIN proposal.subtasks :
        draft = [type |-> proposal.subtasks[i].type, params |-> ValidateParams(type(i), sent(i))]
  BY DEF Range, ResolveDecomposition
<1>2. type(i) # None /\ ~RefusesParams(type(i), sent(i))
  BY DEF Accepts, MatchesSchema
<1> HIDE DEF sent, type
<1>3. ~RefusesParams(type(i), ValidateParams(type(i), sent(i)))
  BY <1>2, Validated
<1>4. TypeNamed(b, draft.type) = type(i)
  BY <1>1 DEF type
<1> QED BY <1>1, <1>2, <1>3, <1>4

-----------------------------------------------------------------------------
(* The run of the Subtask. *)

LEMMA RunInit == DeploymentAssumption /\ Init => RunInv
<1> SUFFICES ASSUME DeploymentAssumption, Init PROVE RunInv
  OBVIOUS
<1>1. row = NoRow /\ child = NoChild /\ call = NoCall
  BY DEF Init
<1>2. Shapes
  BY <1>1 DEF Shapes, RowShape, ChildShape, SlotShape, ResultShape, CallShape, NoRow, NoChild, NoRun, NoResult, NoCall
<1>3. RunSlot /\ CacheSlot
  BY <1>1 DEF RunSlot, CacheSlot, NoChild, NoRun, NoResult
<1>4. CallInv /\ FailedInv /\ DelegatedInv /\ RunIsOfOneRequest
  BY <1>1 DEF CallInv, FailedInv, DelegatedInv, RunIsOfOneRequest, NoRow, NoCall
<1> QED BY <1>2, <1>3, <1>4 DEF RunInv

\* Nothing of the run is touched, or only its call is gone.
LEMMA CallGone ==
  ASSUME RunInv, row' = row, child' = child, call' \in {call, NoCall}
  PROVE  RunInv'
<1>1. Shapes'
  BY DEF RunInv, Shapes, RowShape, ChildShape, SlotShape, ResultShape, CallShape, NoCall
<1>2. RunSlot' /\ CacheSlot' /\ RunIsOfOneRequest'
  BY DEF RunInv, RunSlot, CacheSlot, RunIsOfOneRequest, SameDeclaration
<1>3. FailedInv' /\ DelegatedInv'
  BY DEF RunInv, FailedInv, DelegatedInv, TypeAt
<1>4. CallInv'
  BY DEF RunInv, CallInv, NoCall
<1> QED BY <1>1, <1>2, <1>3, <1>4 DEF RunInv

LEMMA DelegateKeeps ==
  ASSUME RunInv, NEW proposal, Delegate(proposal)
  PROVE  RunInv'
<1>1. /\ row = NoRow /\ child' = child /\ call' = call /\ Accepts(proposal, build)
  BY DEF Delegate
<1>2. PICK draft \in Range(ResolveDecomposition(proposal, build)) :
        row' = [NoRow EXCEPT !.status = "pending", !.draft = draft, !.since = deployed]
  BY DEF Delegate
<1>3. /\ row'.status = "pending" /\ row'.draft = draft /\ row'.since = deployed /\ RowShape'
  BY <1>2 DEF NoRow, RowShape
<1>4. TypeNamed(build, draft.type) # None /\ ~RefusesParams(TypeNamed(build, draft.type), draft.params)
  BY <1>1, <1>2, Delegated
<1>5. TypeAt(row.since)' = TypeNamed(build, draft.type)
  BY <1>3 DEF TypeAt, build
<1>6. Shapes' /\ RunSlot' /\ CacheSlot'
  BY <1>1, <1>3 DEF RunInv, Shapes, ChildShape, SlotShape, ResultShape, CallShape, RunSlot, CacheSlot
<1>7. DelegatedInv'
  BY <1>3, <1>4, <1>5 DEF DelegatedInv
<1>8. FailedInv' /\ RunIsOfOneRequest'
  BY <1>3 DEF FailedInv, RunIsOfOneRequest
<1>9. CallInv'
  BY <1>1 DEF RunInv, CallInv, NoRow
<1> QED BY <1>6, <1>7, <1>8, <1>9 DEF RunInv

LEMMA PrepareKeeps ==
  ASSUME DeploymentAssumption, RunInv, PrepareChunk
  PROVE  RunInv'
<1>0. /\ RowShape /\ call = NoCall /\ row.status \in {"pending", "running"}
      /\ TypeAt(row.since) # None /\ ~RefusesParams(TypeAt(row.since), row.draft.params)
  BY DEF PrepareChunk, RunInv, Shapes, DelegatedInv
<1>1. CASE Declared = None \/ ~Usable(Declared.recipe)
  <2>1. row' = [row EXCEPT !.status = "failed", !.under = deployed] /\ child' = child /\ call' = call
    BY <1>1 DEF PrepareChunk
  <2>2. /\ row'.status = "failed" /\ row'.under = deployed /\ row'.draft = row.draft
        /\ row'.since = row.since /\ RowShape'
    BY <1>0, <2>1 DEF RowShape
  <2>3. Shapes' /\ RunSlot' /\ CacheSlot' /\ CallInv'
    BY <1>0, <2>1, <2>2
       DEF RunInv, Shapes, ChildShape, SlotShape, ResultShape, CallShape, RunSlot, CacheSlot, CallInv, NoCall
  <2>4. FailedInv' /\ DelegatedInv'
    BY <1>0, <2>2 DEF FailedInv, DelegatedInv, TypeAt
  <2>5. RunIsOfOneRequest'
    <3>1. /\ SameDeclaration(row.since, row.under)' <=> TypeAt(row.since) = TypeAt(deployed)
      BY <2>2 DEF SameDeclaration, TypeAt
    <3>2. TypeAt(deployed) = Declared
      BY DEF TypeAt, Declared, build
    <3>3. TypeAt(row.since) = TypeAt(deployed) => ~Usable(TypeAt(row.since).recipe)
      BY <1>0, <1>1, <3>2
    <3>4. TypeNamed(Available[row.since], row.draft.type)' = TypeAt(row.since)
      BY <2>2 DEF TypeAt
    <3> QED BY <2>2, <3>1, <3>3, <3>4 DEF RunIsOfOneRequest
  <2> QED BY <2>3, <2>4, <2>5 DEF RunInv
<1>2. CASE ~(Declared = None \/ ~Usable(Declared.recipe))
  <2>1. /\ row' = [row EXCEPT !.status = "running"]
        /\ child' = IF row.status = "pending" THEN NoChild ELSE child
        /\ call' = [at |-> "child", request |-> Request, again |-> FALSE]
    BY <1>2 DEF PrepareChunk
  <2>2. /\ row'.status = "running" /\ row'.draft = row.draft /\ row'.since = row.since /\ RowShape'
    BY <1>0, <2>1 DEF RowShape
  <2>3. /\ call'.at = "child" /\ call'.request.params = row.draft.params /\ CallShape'
    BY <2>1 DEF Request, CallShape
  <2>4. ChildShape' /\ RunSlot' /\ CacheSlot' /\ FailedInv'
    <3>1. CASE row.status = "pending"
      <4>1. child' = NoChild
        BY <2>1, <3>1
      <4> QED BY <4>1 DEF ChildShape, SlotShape, ResultShape, RunSlot, CacheSlot, FailedInv,
                          NoChild, NoRun, NoResult, DeploymentAssumption
    <3>2. CASE row.status = "running"
      <4>1. child' = child
        BY <2>1, <3>2
      <4> QED BY <2>2, <3>2, <4>1 DEF RunInv, Shapes, ChildShape, SlotShape, ResultShape, RunSlot, CacheSlot,
                                      FailedInv, TypeAt
    <3> QED BY <1>0, <3>1, <3>2
  <2>5. CallInv' /\ DelegatedInv' /\ RunIsOfOneRequest'
    BY <1>0, <2>2, <2>3 DEF CallInv, DelegatedInv, RunIsOfOneRequest, TypeAt
  <2> QED BY <2>2, <2>3, <2>4, <2>5 DEF RunInv, Shapes
<1> QED BY <1>1, <1>2

\* The child answers from its cache, or goes on with its run: both are the request's.
LEMMA EnterKeeps ==
  ASSUME RunInv, Replay \/ Resume
  PROVE  RunInv'
<1>0. /\ row' = row /\ child' = child /\ CallShape /\ call.at = "child"
  BY DEF Replay, Resume, RunInv, Shapes
<1>1. /\ call'.request = call.request /\ CallShape'
      /\ call'.at = "result" => /\ child.cache.status # None
                               /\ child.cache.print \subseteq {Fingerprint(call.request)}
      /\ call'.at = "turn" => child.run.print \subseteq {Fingerprint(call.request)}
  <2>1. CASE Replay
    <3>1. call' = [call EXCEPT !.at = "result"] /\ child.cache.status # None /\ ~Foreign(child.cache, call.request)
      BY <2>1 DEF Replay
    <3> QED BY <1>0, <3>1 DEF CallShape, Foreign
  <2>2. CASE Resume
    <3>1. call' = [call EXCEPT !.at = "turn"] /\ ~Foreign(child.run, call.request)
      BY <2>2 DEF Resume
    <3> QED BY <1>0, <3>1 DEF CallShape, Foreign
  <2> QED BY <2>1, <2>2
<1>2. child.cache.status # None => \E print : child.cache.print = {print}
  BY DEF RunInv, CacheSlot
<1>3. CallInv'
  <2>1. row.status = "running" /\ call.request.params = row.draft.params
    BY <1>0 DEF RunInv, CallInv
  <2>2. call'.at = "result" => child.cache.print = {Fingerprint(call.request)}
    BY <1>1, <1>2
  <2> QED BY <1>0, <1>1, <2>1, <2>2 DEF CallInv, Fingerprint
<1>4. Shapes' /\ RunSlot' /\ CacheSlot'
  BY <1>0, <1>1 DEF RunInv, Shapes, RowShape, ChildShape, SlotShape, ResultShape, RunSlot, CacheSlot
<1>5. FailedInv' /\ DelegatedInv' /\ RunIsOfOneRequest'
  BY <1>0 DEF RunInv, FailedInv, DelegatedInv, RunIsOfOneRequest, SameDeclaration, TypeAt
<1> QED BY <1>3, <1>4, <1>5 DEF RunInv

\* What the other steps of a call leave, of a row that they do not touch.
LEMMA SameRow ==
  ASSUME RunInv, row' = row
  PROVE  RowShape' /\ DelegatedInv' /\ RunIsOfOneRequest'
BY DEF RunInv, Shapes, RowShape, DelegatedInv, RunIsOfOneRequest, SameDeclaration, TypeAt

LEMMA RefuseKeeps ==
  ASSUME DeploymentAssumption, RunInv, RefuseParams
  PROVE  RunInv'
<1> DEFINE f == Fingerprint(call.request)
<1>0. /\ row' = row /\ CallShape /\ ChildShape /\ call.at = "child" /\ row.status = "running"
      /\ call.request.params = row.draft.params /\ RefusesParams(Declared, call.request.params)
  BY DEF RefuseParams, RunInv, Shapes, CallInv
<1>1. /\ child' = [child EXCEPT !.cache = [status |-> "failed", print |-> {f}, made |-> {f}, under |-> deployed]]
      /\ call' = [call EXCEPT !.at = "result"]
  BY DEF RefuseParams
<1>2. /\ child'.run = child.run /\ child'.cache.status = "failed" /\ child'.cache.print = {f}
      /\ child'.cache.made = {f} /\ child'.cache.under = deployed /\ ChildShape'
  <2> HIDE DEF f
  <2>1. child' = [run |-> child.run,
                  cache |-> [status |-> "failed", print |-> {f}, made |-> {f}, under |-> deployed]]
    BY <1>0, <1>1 DEF ChildShape
  <2> QED BY <1>0, <2>1 DEF ChildShape, SlotShape, ResultShape
<1>3. call'.at = "result" /\ call'.request = call.request /\ CallShape'
  BY <1>0, <1>1 DEF CallShape
<1>4. RunSlot' /\ CacheSlot'
  BY <1>2 DEF RunInv, RunSlot, CacheSlot
<1>5. CallInv'
  <2>1. Fingerprint(call.request)' = f
    BY <1>3 DEF Fingerprint, Canonical
  <2>2. "failed" # None
    BY DEF DeploymentAssumption
  <2> HIDE DEF f
  <2> QED BY <1>0, <1>2, <1>3, <2>1, <2>2 DEF CallInv
<1>6. FailedInv'
  BY <1>0, <1>2 DEF FailedInv, TypeAt, Declared, build
<1> QED BY <1>0, <1>2, <1>3, <1>4, <1>5, <1>6, SameRow DEF RunInv, Shapes

LEMMA MismatchKeeps ==
  ASSUME DeploymentAssumption, RunInv, Mismatch
  PROVE  RunInv'
<1>0. /\ row' = row /\ CallShape /\ call.at = "child" /\ row.status = "running"
      /\ call.request.params = row.draft.params
  BY DEF Mismatch, RunInv, Shapes, CallInv
<1>1. CASE call.again
  BY <1>0, <1>1, CallGone DEF Mismatch
<1>2. CASE ~call.again
  <2>1. call' = [call EXCEPT !.again = TRUE] /\ child' = NoChild
    BY <1>2 DEF Mismatch, Recreated
  <2>2. call'.at = "child" /\ call'.request = call.request /\ CallShape'
    BY <1>0, <2>1 DEF CallShape
  <2>3. ChildShape' /\ RunSlot' /\ CacheSlot' /\ FailedInv'
    BY <2>1 DEF ChildShape, SlotShape, ResultShape, RunSlot, CacheSlot, FailedInv,
                NoChild, NoRun, NoResult, DeploymentAssumption
  <2>4. CallInv'
    BY <1>0, <2>2 DEF CallInv
  <2> QED BY <1>0, <2>2, <2>3, <2>4, SameRow DEF RunInv, Shapes
<1> QED BY <1>1, <1>2

\* A turn and a yield write the slot of the run under the call's request.
LEMMA SavedKeeps ==
  ASSUME RunInv, row' = row, call.at = "turn", call' \in {call, NoCall}, NEW turns \in Nat, NEW made,
         made \subseteq {Fingerprint(call.request)}, turns > 0 => made # {}, NEW under,
         child' = [child EXCEPT !.run = [turns |-> turns, print |-> {Fingerprint(call.request)},
                                         made |-> made, under |-> under]]
  PROVE  RunInv'
<1> DEFINE f == Fingerprint(call.request)
<1>0. CallShape /\ ChildShape /\ CallInv
  BY DEF RunInv, Shapes
<1>1. /\ child'.cache = child.cache /\ child'.run.turns = turns /\ child'.run.print = {f}
      /\ child'.run.made = made /\ ChildShape'
  <2> HIDE DEF f
  <2>1. child' = [run |-> [turns |-> turns, print |-> {f}, made |-> made, under |-> under],
                  cache |-> child.cache]
    BY <1>0 DEF ChildShape, f
  <2> QED BY <1>0, <2>1 DEF ChildShape, SlotShape, ResultShape
<1>2. RunSlot' /\ CacheSlot' /\ FailedInv'
  BY <1>1 DEF RunInv, RunSlot, CacheSlot, FailedInv, TypeAt
<1>3. CallShape' /\ CallInv'
  <2>1. CASE call' = NoCall
    BY <2>1 DEF CallShape, CallInv, NoCall
  <2>2. CASE call' = call
    <3>1. Fingerprint(call.request)' = f
      BY <2>2 DEF Fingerprint, Canonical
    <3> HIDE DEF f
    <3> QED BY <1>0, <1>1, <2>2, <3>1 DEF CallShape, CallInv
  <2> QED BY <2>1, <2>2
<1> QED BY <1>1, <1>2, <1>3, SameRow DEF RunInv, Shapes

LEMMA TurnKeeps ==
  ASSUME RunInv, Turn \/ Yield
  PROVE  RunInv'
<1> DEFINE f == Fingerprint(call.request)
<1>0. /\ row' = row /\ call.at = "turn" /\ ChildShape /\ child.run.turns \in Nat
      /\ child.run.made \subseteq {f}
      /\ child.run.turns > 0 => child.run.made # {}
  <2>1. row' = row /\ call.at = "turn" /\ ChildShape /\ RunSlot /\ child.run.print \subseteq {f}
    BY DEF Turn, Yield, RunInv, Shapes, CallInv
  <2> HIDE DEF f
  <2> QED BY <2>1 DEF RunSlot
<1>1. CASE Turn
  <2>1. child' = [child EXCEPT !.run = [turns |-> child.run.turns + 1, print |-> {f},
                                        made |-> child.run.made \cup {f}, under |-> deployed]]
    BY <1>0, <1>1 DEF Turn, ChildShape
  <2>2. call' = call /\ child.run.turns + 1 \in Nat /\ child.run.made \cup {f} \subseteq {f}
    BY <1>0, <1>1 DEF Turn
  <2> QED BY <1>0, <2>1, <2>2, SavedKeeps
<1>2. CASE Yield
  <2>1. child' = [child EXCEPT !.run = [turns |-> child.run.turns, print |-> {f},
                                        made |-> child.run.made, under |-> deployed]]
    BY <1>0, <1>2 DEF Yield, ChildShape
  <2>2. call' = NoCall
    BY <1>2 DEF Yield
  <2> QED BY <1>0, <2>1, <2>2, SavedKeeps
<1> QED BY <1>1, <1>2

\* The answer is made of the turns of the request it is cached under.
LEMMA AnswerKeeps ==
  ASSUME DeploymentAssumption, RunInv, Answer
  PROVE  RunInv'
<1> DEFINE f == Fingerprint(call.request)
<1>0. /\ row' = row /\ CallShape /\ ChildShape /\ CallInv /\ call.at = "turn"
      /\ child.run.made = {f}
  <2>1. /\ row' = row /\ CallShape /\ ChildShape /\ CallInv /\ call.at = "turn"
        /\ RunSlot /\ child.run.print \subseteq {f} /\ child.run.turns > 0
    BY DEF Answer, RunInv, Shapes, CallInv
  <2> HIDE DEF f
  <2> QED BY <2>1 DEF RunSlot
<1>1. /\ child' = [child EXCEPT !.cache = [status |-> "completed", print |-> {f},
                                           made |-> child.run.made, under |-> deployed]]
      /\ call' = [call EXCEPT !.at = "result"]
  BY DEF Answer
<1>2. /\ child'.run = child.run /\ child'.cache.status = "completed" /\ child'.cache.print = {f}
      /\ child'.cache.made = {f} /\ ChildShape'
  <2> HIDE DEF f
  <2>1. child' = [run |-> child.run,
                  cache |-> [status |-> "completed", print |-> {f}, made |-> child.run.made, under |-> deployed]]
    BY <1>0, <1>1 DEF ChildShape
  <2> QED BY <1>0, <2>1 DEF ChildShape, SlotShape, ResultShape
<1>3. call'.at = "result" /\ call'.request = call.request /\ CallShape'
  BY <1>0, <1>1 DEF CallShape
<1>4. RunSlot' /\ CacheSlot' /\ FailedInv'
  BY <1>2 DEF RunInv, RunSlot, CacheSlot, FailedInv
<1>5. CallInv'
  <2>1. Fingerprint(call.request)' = f
    BY <1>3 DEF Fingerprint, Canonical
  <2>2. "completed" # None
    BY DEF DeploymentAssumption
  <2> HIDE DEF f
  <2> QED BY <1>0, <1>2, <1>3, <2>1, <2>2 DEF CallInv
<1> QED BY <1>0, <1>2, <1>3, <1>4, <1>5, SameRow DEF RunInv, Shapes

\* The row takes over what is cached.
LEMMA PersistKeeps ==
  ASSUME RunInv, Persist
  PROVE  RunInv'
<1>0. /\ RowShape /\ call.at = "result" /\ row.status = "running" /\ child' = child /\ call' = NoCall
      /\ child.cache.status # None /\ child.cache.print = {Fingerprint(call.request)}
      /\ TypeAt(row.since) # None /\ ~RefusesParams(TypeAt(row.since), row.draft.params)
  BY DEF Persist, RunInv, Shapes, CallInv, DelegatedInv
<1>1. child.cache.status \in {"completed", "failed"} /\ child.cache.made = {Fingerprint(call.request)}
  BY <1>0 DEF RunInv, CacheSlot
<1>2. /\ row'.status = child.cache.status /\ row'.asked = Fingerprint(call.request)
      /\ row'.made = child.cache.made /\ row'.under = child.cache.under
      /\ row'.draft = row.draft /\ row'.since = row.since /\ RowShape'
  <2> DEFINE f == Fingerprint(call.request)
  <2>1. row' = [row EXCEPT !.status = child.cache.status, !.asked = f,
                           !.made = child.cache.made, !.under = child.cache.under]
    BY DEF Persist
  <2> HIDE DEF f
  <2>2. row' = [status |-> child.cache.status, draft |-> row.draft, since |-> row.since,
                asked |-> f, made |-> child.cache.made, under |-> child.cache.under]
    BY <1>0, <2>1 DEF RowShape
  <2> QED BY <2>2 DEF RowShape, f
<1>3. Shapes' /\ RunSlot' /\ CacheSlot' /\ CallInv'
  BY <1>0, <1>2 DEF RunInv, Shapes, ChildShape, SlotShape, ResultShape, CallShape, RunSlot, CacheSlot, CallInv, NoCall
<1>4. FailedInv' /\ DelegatedInv'
  BY <1>0, <1>1, <1>2 DEF FailedInv, DelegatedInv, TypeAt
<1>5. RunIsOfOneRequest'
  <2>1. CASE child.cache.status = "completed"
    BY <1>1, <1>2, <2>1 DEF RunIsOfOneRequest
  <2>2. CASE child.cache.status = "failed"
    <3>1. RefusesParams(TypeAt(child.cache.under), row.draft.params)
      BY <1>0, <2>2 DEF RunInv, FailedInv
    <3>2. TypeAt(row.since) # TypeAt(child.cache.under)
      BY <1>0, <3>1
    <3>3. SameDeclaration(row.since, row.under)' <=> TypeAt(row.since) = TypeAt(child.cache.under)
      BY <1>2 DEF SameDeclaration, TypeAt
    <3> QED BY <1>2, <2>2, <3>2, <3>3 DEF RunIsOfOneRequest
  <2> QED BY <1>1, <2>1, <2>2
<1> QED BY <1>3, <1>4, <1>5 DEF RunInv

-----------------------------------------------------------------------------
(* The stores. *)

Serving == isolate \in {"open", "started"}

\* The tables never lag what is on record, and an object that serves has on
\* record just what its plugins declare.
StoresInv ==
  /\ deployed \in DOMAIN Available
  /\ recorded \in [Keys -> Nat] /\ tables \in [Keys -> Nat]
  /\ \A p \in Keys : tables[p] >= recorded[p]
  /\ Serving => \A i \in DOMAIN stores : recorded[stores[i].plugin] = stores[i].version

\* Of any build.
LEMMA StoresOfTyped ==
  ASSUME DeploymentAssumption, NEW name \in DOMAIN Available
  PROVE  /\ DOMAIN StoresBy[name] \subseteq Nat \ {0}
         /\ \A i \in DOMAIN StoresBy[name] :
              StoresBy[name][i].plugin \in Keys /\ StoresBy[name][i].version \in Int
<1> DEFINE b == Available[name]
<1>1. b \in Builds
  BY DEF DeploymentAssumption
<1>2. b.plugins \in Seq(AgentPlugins)
  <2> DEFINE P == AgentPlugins
  <2>1. b.plugins \in Seq(P)
    <3> HIDE DEF P
    <3> QED BY <1>1 DEF Builds, P
  <2> QED BY <2>1
<1>3. StoresBy[name] = [i \in {j \in DOMAIN b.plugins : b.plugins[j].store # None} |-> b.plugins[i].store]
  BY DEF StoresBy, StoresOf
<1>4. b.plugins \in [1..Len(b.plugins) -> AgentPlugins] /\ Len(b.plugins) \in Nat
  BY <1>2
<1>5. \A i \in DOMAIN b.plugins : b.plugins[i].store \in Stores \cup {None}
  <2> SUFFICES ASSUME NEW i \in DOMAIN b.plugins PROVE b.plugins[i].store \in Stores \cup {None}
    OBVIOUS
  <2>1. b.plugins[i] \in AgentPlugins
    BY <1>4
  <2> QED BY <2>1 DEF AgentPlugins
<1>6. \A i \in DOMAIN StoresBy[name] : StoresBy[name][i] \in Stores
  BY <1>3, <1>5
<1>7. DOMAIN StoresBy[name] \subseteq Nat \ {0}
  BY <1>3, <1>4
<1> QED BY <1>6, <1>7 DEF Stores

LEMMA StoresTyped ==
  ASSUME DeploymentAssumption, deployed \in DOMAIN Available
  PROVE  /\ DOMAIN stores \subseteq Nat \ {0}
         /\ \A i \in DOMAIN stores : stores[i].plugin \in Keys /\ stores[i].version \in Int
BY StoresOfTyped DEF stores

\* Of the stores that are brought up no two share a name.
LEMMA AppliedApart ==
  ASSUME DeploymentAssumption, deployed \in DOMAIN Available,
         NEW i \in Applied(0), NEW j \in Applied(0), stores[i].plugin = stores[j].plugin
  PROVE  i = j
<1>1. DOMAIN stores \subseteq Nat \ {0}
  BY StoresTyped
<1>2. /\ i \in DOMAIN stores /\ ~Refused(i) /\ j \in DOMAIN stores /\ ~Refused(j)
  BY <1>1 DEF Applied, Refusals
<1> QED BY <1>1, <1>2 DEF Refused

LEMMA VersionsOf ==
  ASSUME DeploymentAssumption, deployed \in DOMAIN Available,
         NEW done \in SUBSET Applied(0), NEW i \in done
  PROVE  stores[i].plugin \in DOMAIN Versions(done) /\ Versions(done)[stores[i].plugin] = stores[i].version
<1>1. \A j \in done : stores[j].plugin = stores[i].plugin <=> j = i
  BY AppliedApart
<1>2. (CHOOSE j \in done : stores[j].plugin = stores[i].plugin) = i
  BY <1>1
<1> QED BY <1>2 DEF Versions

LEMMA AppliedTo ==
  ASSUME DeploymentAssumption, deployed \in DOMAIN Available, NEW throws
  PROVE  Applied(throws) \subseteq Applied(0)
BY StoresTyped DEF Applied

\* What a start does to the disk, however far it gets.
LEMMA Brought ==
  ASSUME DeploymentAssumption, StoresInv, NEW throws, NEW done \in SUBSET Applied(0),
         Applied(throws) \subseteq done,
         tables' = [p \in Keys |-> IF p \in DOMAIN Versions(done)
                                   THEN Ensured(tables[p], recorded[p], Versions(done)[p])
                                   ELSE tables[p]],
         recorded' = [p \in Keys |-> IF p \in DOMAIN NowRecorded(throws)
                                     THEN NowRecorded(throws)[p]
                                     ELSE recorded[p]]
  PROVE  /\ recorded' \in [Keys -> Nat] /\ tables' \in [Keys -> Nat]
         /\ \A p \in Keys : tables'[p] >= recorded'[p] /\ recorded'[p] >= recorded[p]
         /\ \A i \in Applied(throws) : recorded'[stores[i].plugin] = stores[i].version
<1>1. /\ DOMAIN stores \subseteq Nat \ {0}
      /\ \A i \in DOMAIN stores : stores[i].plugin \in Keys /\ stores[i].version \in Int
      /\ Applied(throws) \in SUBSET Applied(0)
  BY StoresTyped, AppliedTo DEF StoresInv
<1>2. \A i \in Applied(0) : /\ i \in DOMAIN stores /\ stores[i].version >= 1
                           /\ stores[i].version >= recorded[stores[i].plugin]
  <2> SUFFICES ASSUME NEW i \in Applied(0)
               PROVE  /\ i \in DOMAIN stores /\ stores[i].version >= 1
                      /\ stores[i].version >= recorded[stores[i].plugin]
    OBVIOUS
  <2>1. i \in DOMAIN stores /\ ~Refused(i)
    BY <1>1 DEF Applied, Refusals
  <2>2. stores[i].version \in Int /\ recorded[stores[i].plugin] \in Nat
    BY <1>1, <2>1 DEF StoresInv
  <2> QED BY <2>1, <2>2 DEF Refused
<1>3. ASSUME NEW p \in Keys
      PROVE  /\ recorded'[p] \in Nat /\ tables'[p] \in Nat
             /\ tables'[p] >= recorded'[p] /\ recorded'[p] >= recorded[p]
  <2>0. recorded[p] \in Nat /\ tables[p] \in Nat /\ tables[p] >= recorded[p]
    BY DEF StoresInv
  <2>1. CASE p \in DOMAIN NowRecorded(throws)
    <3>1. PICK i \in Applied(throws) : p = stores[i].plugin
      BY <2>1 DEF NowRecorded, Versions
    <3>2. NowRecorded(throws)[p] = stores[i].version
      BY <1>1, <3>1, VersionsOf DEF NowRecorded, StoresInv
    <3>3. p \in DOMAIN Versions(done) /\ Versions(done)[p] = stores[i].version
      BY <3>1, VersionsOf DEF StoresInv
    <3>4. /\ recorded'[p] = stores[i].version
          /\ tables'[p] = Ensured(tables[p], recorded[p], stores[i].version)
      BY <2>1, <3>2, <3>3
    <3>5. stores[i].version \in Nat /\ stores[i].version >= recorded[p]
      BY <1>1, <1>2, <3>1
    <3> QED BY <2>0, <3>4, <3>5 DEF Ensured
  <2>2. CASE p \notin DOMAIN NowRecorded(throws)
    <3>1. recorded'[p] = recorded[p]
      BY <2>2
    <3>2. CASE p \in DOMAIN Versions(done)
      <4>1. PICK i \in done : p = stores[i].plugin
        BY <3>2 DEF Versions
      <4>2. Versions(done)[p] = stores[i].version
        BY <4>1, VersionsOf DEF StoresInv
      <4>3. tables'[p] = Ensured(tables[p], recorded[p], stores[i].version)
        BY <3>2, <4>2
      <4>4. stores[i].version \in Nat
        BY <1>1, <1>2
      <4> QED BY <2>0, <3>1, <4>3, <4>4 DEF Ensured
    <3>3. CASE p \notin DOMAIN Versions(done)
      BY <2>0, <3>1, <3>3
    <3> QED BY <3>2, <3>3
  <2> QED BY <2>1, <2>2
<1>4. ASSUME NEW i \in Applied(throws) PROVE recorded'[stores[i].plugin] = stores[i].version
  <2>1. /\ stores[i].plugin \in DOMAIN NowRecorded(throws)
        /\ NowRecorded(throws)[stores[i].plugin] = stores[i].version
    BY <1>1, VersionsOf DEF NowRecorded, StoresInv
  <2>2. stores[i].plugin \in Keys
    BY <1>1, <1>2
  <2> QED BY <2>1, <2>2
<1> QED BY <1>3, <1>4

LEMMA OpenKeeps ==
  ASSUME DeploymentAssumption, StoresInv, Open
  PROVE  StoresInv' /\ \A p \in Keys : recorded'[p] >= recorded[p]
<1>0. /\ deployed' = deployed /\ stores' = stores /\ deployed \in DOMAIN Available
      /\ \A p \in Keys : recorded[p] \in Nat
  BY DEF Open, StoresInv, stores
<1>1. CASE UNCHANGED <<recorded, tables>> /\ isolate' = "broken"
  BY <1>0, <1>1 DEF StoresInv, Serving
<1>2. ASSUME tables' = [p \in Keys |-> IF p \in DOMAIN Versions(Applied(0))
                                       THEN Ensured(tables[p], recorded[p], Versions(Applied(0))[p])
                                       ELSE tables[p]],
             recorded' = [p \in Keys |-> IF p \in DOMAIN NowRecorded(0)
                                         THEN NowRecorded(0)[p]
                                         ELSE recorded[p]],
             isolate' = IF Refusals = {} THEN "open" ELSE "broken"
      PROVE  StoresInv' /\ \A p \in Keys : recorded'[p] >= recorded[p]
  <2>1. /\ recorded' \in [Keys -> Nat] /\ tables' \in [Keys -> Nat]
        /\ \A p \in Keys : tables'[p] >= recorded'[p] /\ recorded'[p] >= recorded[p]
        /\ \A i \in Applied(0) : recorded'[stores[i].plugin] = stores[i].version
    BY <1>2, Brought
  <2>2. ASSUME Refusals = {} PROVE Applied(0) = DOMAIN stores
    BY <1>0, <2>2, StoresTyped DEF Applied
  <2>3. Serving' => \A i \in DOMAIN stores : recorded'[stores[i].plugin] = stores[i].version
    BY <1>2, <2>1, <2>2 DEF Serving
  <2> QED BY <1>0, <2>1, <2>3 DEF StoresInv
<1>3. ASSUME NEW i \in Applied(0), NEW ran \in BOOLEAN, isolate' = "broken",
             tables' = [p \in Keys |->
                          IF p \in DOMAIN Versions(Applied(i) \cup (IF ran THEN {i} ELSE {}))
                          THEN Ensured(tables[p], recorded[p],
                                       Versions(Applied(i) \cup (IF ran THEN {i} ELSE {}))[p])
                          ELSE tables[p]],
             recorded' = [p \in Keys |-> IF p \in DOMAIN NowRecorded(i)
                                         THEN NowRecorded(i)[p]
                                         ELSE recorded[p]]
      PROVE  StoresInv' /\ \A p \in Keys : recorded'[p] >= recorded[p]
  <2> DEFINE done == Applied(i) \cup (IF ran THEN {i} ELSE {})
  <2>1. done \in SUBSET Applied(0) /\ Applied(i) \subseteq done
    BY <1>0, AppliedTo
  <2> HIDE DEF done
  <2>2. tables' = [p \in Keys |-> IF p \in DOMAIN Versions(done)
                                  THEN Ensured(tables[p], recorded[p], Versions(done)[p])
                                  ELSE tables[p]]
    BY <1>3 DEF done
  <2>3. /\ recorded' \in [Keys -> Nat] /\ tables' \in [Keys -> Nat]
        /\ \A p \in Keys : tables'[p] >= recorded'[p] /\ recorded'[p] >= recorded[p]
    BY <1>3, <2>1, <2>2, Brought
  <2> QED BY <1>0, <1>3, <2>3 DEF StoresInv, Serving
<1> QED BY <1>0, <1>1, <1>2, <1>3 DEF Open

-----------------------------------------------------------------------------
(* What holds in every reachable state. *)

\* Who calls holds the object that was started.
CallsStarted == call # NoCall => isolate = "started"

IInv == RunInv /\ StoresInv /\ CallsStarted

LEMMA IInvInit == DeploymentAssumption /\ Init => IInv
<1> SUFFICES ASSUME DeploymentAssumption, Init PROVE IInv
  OBVIOUS
<1>1. StoresInv /\ CallsStarted
  BY DEF Init, StoresInv, CallsStarted, Serving
<1> QED BY <1>1, RunInit DEF IInv

\* The steps of a chunk, and what they leave alone.
LEMMA ChunkKeeps ==
  ASSUME DeploymentAssumption, IInv, Chunk \/ Yield
  PROVE  RunInv' /\ UNCHANGED <<deployed, isolate, diskVars>> /\ isolate = "started"
<1>0. RunInv /\ CallsStarted
  BY DEF IInv
<1>1. CASE PrepareChunk
  BY <1>0, <1>1, PrepareKeeps DEF PrepareChunk, startVars
<1>2. ASSUME call # NoCall PROVE isolate = "started"
  BY <1>0, <1>2 DEF CallsStarted
<1>3. ASSUME call.at \in {"child", "turn", "result"} PROVE call # NoCall
  BY <1>3 DEF NoCall
<1>4. CASE Replay \/ Resume
  BY <1>0, <1>2, <1>3, <1>4, EnterKeeps DEF Replay, Resume, startVars
<1>5. CASE RefuseParams
  BY <1>0, <1>2, <1>3, <1>5, RefuseKeeps DEF RefuseParams, startVars
<1>6. CASE Mismatch
  BY <1>0, <1>2, <1>3, <1>6, MismatchKeeps DEF Mismatch, startVars
<1>7. CASE Turn \/ Yield
  BY <1>0, <1>2, <1>3, <1>7, TurnKeeps DEF Turn, Yield, startVars
<1>8. CASE Answer
  BY <1>0, <1>2, <1>3, <1>8, AnswerKeeps DEF Answer, startVars
<1>9. CASE Persist
  BY <1>0, <1>2, <1>3, <1>9, PersistKeeps DEF Persist, startVars
<1> QED BY <1>1, <1>4, <1>5, <1>6, <1>7, <1>8, <1>9 DEF Chunk

LEMMA IInvStep ==
  ASSUME DeploymentAssumption, IInv, [Next]_vars
  PROVE  IInv' /\ \A p \in Keys : recorded'[p] >= recorded[p]
<1>0. /\ RunInv /\ StoresInv /\ CallsStarted
      /\ \A p \in Keys : recorded[p] \in Nat
  BY DEF IInv, StoresInv
<1>s. ASSUME UNCHANGED <<deployed, diskVars>>, isolate' \in {isolate, "cold"}
      PROVE  StoresInv' /\ \A p \in Keys : recorded'[p] >= recorded[p]
  BY <1>0, <1>s DEF StoresInv, Serving, stores, diskVars
<1>1. ASSUME NEW name \in DOMAIN Available, Deploy(name)
      PROVE  IInv' /\ \A p \in Keys : recorded'[p] >= recorded[p]
  <2>1. /\ deployed' = name /\ isolate' = "cold" /\ call' = NoCall
        /\ UNCHANGED <<recorded, tables, row, child>>
    BY <1>1 DEF Deploy, diskVars
  <2>2. StoresInv' /\ CallsStarted'
    BY <1>0, <2>1 DEF StoresInv, Serving, CallsStarted
  <2> QED BY <1>0, <2>1, <2>2, CallGone DEF IInv
<1>2. CASE Recycle
  <2>1. UNCHANGED <<deployed, diskVars, row, child, call>> /\ isolate' = "cold" /\ call = NoCall
    BY <1>2 DEF Recycle, runVars
  <2> QED BY <1>0, <1>s, <2>1, CallGone DEF IInv, CallsStarted
<1>3. CASE Open
  <2>1. UNCHANGED <<row, child, call>> /\ isolate = "cold"
    BY <1>3 DEF Open, runVars
  <2>2. CallsStarted'
    BY <1>0, <2>1 DEF CallsStarted
  <2> QED BY <1>0, <1>3, <2>1, <2>2, OpenKeeps, CallGone DEF IInv
<1>4. CASE Register
  <2>1. /\ UNCHANGED <<deployed, recorded, tables, row, child, call>>
        /\ isolate = "open" /\ isolate' = "started"
    BY <1>4 DEF Register, runVars, diskVars
  <2>2. StoresInv' /\ CallsStarted'
    BY <1>0, <2>1 DEF StoresInv, Serving, CallsStarted, stores
  <2> QED BY <1>0, <2>1, <2>2, CallGone DEF IInv
<1>5. ASSUME NEW proposal \in Offered, Delegate(proposal)
      PROVE  IInv' /\ \A p \in Keys : recorded'[p] >= recorded[p]
  <2>1. UNCHANGED <<deployed, isolate, diskVars, call>>
    BY <1>5 DEF Delegate, startVars
  <2> QED BY <1>0, <1>5, <1>s, <2>1, DelegateKeeps DEF IInv, CallsStarted
<1>6. CASE Chunk \/ Yield
  <2>1. RunInv' /\ UNCHANGED <<deployed, isolate, diskVars>> /\ isolate = "started"
    BY <1>6, ChunkKeeps
  <2> QED BY <1>s, <2>1 DEF IInv, CallsStarted
<1>7. CASE CallDies
  <2>1. /\ UNCHANGED <<deployed, diskVars, row, child>> /\ call' = NoCall
        /\ call # NoCall /\ isolate' \in {"started", "cold"}
    BY <1>7 DEF CallDies
  <2>2. isolate = "started"
    BY <1>0, <2>1 DEF CallsStarted
  <2> QED BY <1>0, <1>s, <2>1, <2>2, CallGone DEF IInv, CallsStarted
<1>8. CASE UNCHANGED vars
  <2>1. UNCHANGED <<deployed, isolate, diskVars, row, child, call>>
    BY <1>8 DEF vars, diskVars
  <2> QED BY <1>0, <1>s, <2>1, CallGone DEF IInv, CallsStarted
<1> QED BY <1>1, <1>2, <1>3, <1>4, <1>5, <1>6, <1>7, <1>8 DEF Next

\* The invariant that the two properties below follow from.
THEOREM DeploymentCorrect == Spec => []IInv
<1>1. Init => IInv
  BY IInvInit, DeploymentAssumption
<1>2. IInv /\ [Next]_vars => IInv'
  BY IInvStep, DeploymentAssumption
<1> QED BY <1>1, <1>2, PTL DEF Spec

\* The answer a Subtask settles with was made by turns of one request, the one
\* that asked for it; and it fails for its declaration only if that was changed
\* since, or no run of it could begin.
THEOREM RunsAreOfOneRequest == Spec => []RunIsOfOneRequest
<1>1. IInv => RunIsOfOneRequest
  BY DEF IInv, RunInv
<1> QED BY <1>1, DeploymentCorrect, PTL

ServesAll ==
  /\ \A p \in Keys : recorded'[p] >= recorded[p]
  /\ isolate' = "started" =>
       \A i \in DOMAIN stores' :
         LET store == stores'[i]
         IN recorded'[store.plugin] = store.version /\ tables'[store.plugin] >= store.version

LEMMA ServesStep ==
  ASSUME DeploymentAssumption, IInv, [Next]_vars
  PROVE  ServesAll
<1>1. IInv' /\ \A p \in Keys : recorded'[p] >= recorded[p]
  BY IInvStep
<1>2. ASSUME isolate' = "started", NEW i \in DOMAIN stores'
      PROVE  /\ recorded'[stores'[i].plugin] = stores'[i].version
             /\ tables'[stores'[i].plugin] >= stores'[i].version
  <2>1. (\A p \in Keys : tables[p] >= recorded[p])'
    BY <1>1 DEF IInv, StoresInv
  <2>2. recorded'[stores'[i].plugin] = stores'[i].version
    BY <1>1, <1>2 DEF IInv, StoresInv, Serving
  <2>3. stores'[i].plugin \in Keys
    <3>1. deployed' \in DOMAIN Available
      BY <1>1 DEF IInv, StoresInv
    <3> QED BY <3>1, StoresOfTyped DEF stores
  <2> QED BY <2>1, <2>2, <2>3
<1> QED BY <1>1, <1>2 DEF ServesAll

\* An object that serves has every table its plugins declare, and no version on
\* record goes back, for any builds deployed in any order.
THEOREM DeclaredIsServed == Spec => ServesDeclared
<1>1. IInv /\ [Next]_vars => [ServesAll]_vars
  BY ServesStep, DeploymentAssumption
<1>2. [][ServesAll]_vars => ServesDeclared
  BY DEF ServesAll, ServesDeclared
<1> QED BY <1>1, <1>2, DeploymentCorrect, PTL DEF Spec

-----------------------------------------------------------------------------
(* Types. *)

\* Beside what IInv says of the variables.
Places == /\ isolate \in {"cold", "broken", "open", "started"}
          /\ row.status \in {"none", "pending", "running", "completed", "failed"}
          /\ call.at \in {"none", "child", "turn", "result"}
          /\ deploys \in 0..MaxDeploys /\ faults \in 0..MaxFaults

LEMMA ChunkTypes ==
  ASSUME DeploymentAssumption, IInv, Places, Chunk \/ Yield
  PROVE  /\ row'.status \in {"none", "pending", "running", "completed", "failed"}
         /\ call'.at \in {"none", "child", "turn", "result"}
         /\ UNCHANGED <<isolate, deploys, faults>>
<1> USE DEF Places
<1>1. /\ row = [status |-> row.status, draft |-> row.draft, since |-> row.since,
                asked |-> row.asked, made |-> row.made, under |-> row.under]
      /\ call = [at |-> call.at, request |-> call.request, again |-> call.again]
  BY DEF IInv, RunInv, Shapes, RowShape, CallShape
<1>2. UNCHANGED <<isolate, deploys, faults>>
  BY DEF Chunk, Yield, PrepareChunk, Replay, RefuseParams, Resume, Mismatch, Turn, Answer,
         Persist, startVars, diskVars
<1>3. CASE PrepareChunk
  <2>1. row'.status \in {"failed", "running"}
    BY <1>1, <1>3 DEF PrepareChunk
  <2>2. call'.at = "child" \/ call' = call
    BY <1>3 DEF PrepareChunk
  <2> QED BY <1>2, <2>1, <2>2
<1>4. CASE Replay \/ RefuseParams \/ Resume \/ Answer
  <2>1. UNCHANGED row /\ call'.at \in {"turn", "result"}
    BY <1>1, <1>4 DEF Replay, RefuseParams, Resume, Answer
  <2> QED BY <1>2, <2>1
<1>5. CASE Mismatch \/ Turn \/ Yield
  <2>1. UNCHANGED row /\ call'.at \in {"none", call.at}
    BY <1>1, <1>5 DEF Mismatch, Turn, Yield, NoCall
  <2> QED BY <1>2, <2>1
<1>6. CASE Persist
  <2>1. child.cache.status \in {"completed", "failed"}
    BY <1>6 DEF Persist, IInv, RunInv, CacheSlot, CallInv
  <2>2. row'.status = child.cache.status /\ call'.at = "none"
    BY <1>1, <1>6 DEF Persist, NoCall
  <2> QED BY <1>2, <2>1, <2>2
<1> QED BY <1>3, <1>4, <1>5, <1>6 DEF Chunk

LEMMA PlacesStep == ASSUME DeploymentAssumption, IInv, Places, [Next]_vars PROVE Places'
<1> USE DEF Places
<1>0. MaxDeploys \in Nat /\ MaxFaults \in Nat
  BY DEF DeploymentAssumption
<1>1. ASSUME NEW name \in DOMAIN Available, Deploy(name) PROVE Places'
  BY <1>0, <1>1 DEF Deploy, NoCall, diskVars
<1>2. CASE Recycle \/ Register
  BY <1>2 DEF Recycle, Register, runVars, boundVars, diskVars
<1>3. CASE Open
  <2>1. UNCHANGED <<row, call, deploys>> /\ isolate' \in {"open", "broken"}
    BY <1>3 DEF Open, runVars
  <2>2. faults' = faults \/ (faults < MaxFaults /\ faults' = faults + 1)
    BY <1>3 DEF Open
  <2> QED BY <1>0, <2>1, <2>2
<1>4. ASSUME NEW proposal \in Offered, Delegate(proposal) PROVE Places'
  <2>1. row'.status = "pending" /\ UNCHANGED <<isolate, call, deploys, faults>>
    BY <1>4 DEF Delegate, NoRow, startVars, diskVars
  <2> QED BY <2>1
<1>5. CASE Chunk \/ Yield
  BY <1>5, ChunkTypes
<1>6. CASE CallDies
  BY <1>0, <1>6 DEF CallDies, NoCall, diskVars
<1>7. CASE UNCHANGED vars
  BY <1>7 DEF vars
<1> QED BY <1>1, <1>2, <1>3, <1>4, <1>5, <1>6, <1>7 DEF Next

\* Every variable keeps its type; a row that is persisted takes the verdict the child
\* has in its cache (persistResult), so it never settles with none.
THEOREM TypeCorrect == Spec => []TypeOK
<1>1. DeploymentAssumption /\ Init => Places
  <2> SUFFICES ASSUME DeploymentAssumption, Init PROVE Places
    OBVIOUS
  <2>1. row.status = "none" /\ call.at = "none"
    BY DEF Init, NoRow, NoCall
  <2>2. isolate = "cold" /\ deploys = 0 /\ faults = 0
    BY DEF Init
  <2>3. MaxDeploys \in Nat /\ MaxFaults \in Nat
    BY DEF DeploymentAssumption
  <2> QED BY <2>1, <2>2, <2>3 DEF Places
<1>2. IInv /\ Places => TypeOK
  BY DEF IInv, RunInv, RunSlot, CacheSlot, StoresInv, Places, TypeOK
<1> QED BY <1>1, <1>2, PlacesStep, DeploymentAssumption, DeploymentCorrect, PTL DEF Spec
=============================================================================
